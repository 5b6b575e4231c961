---------------------------- MODULE MCKvServer ----------------------------
(* KvServer with few clients and requests. *)
EXTENDS KvServer, TLC

CONSTANT MaxIssued   \* bound: requests of all clients together

Symmetry == Permutations(Client)

Busy == {r.by : r \in issued}

\* An id is named for one of the clients that have it.  All clients differ and
\* two make requests; or two share an id and make one write each at most, next to
\* a third one, and the server has one RPC thread.
FewRequests ==
  /\ Cardinality(issued) <= MaxIssued
  /\ \A c \in Client : clientId[clientId[c]] = clientId[c]
  /\ \/ (\A c \in Client : Alone(c)) /\ Cardinality(Busy) <= 2
     \/ /\ \E c \in Client : Alone(c) /\ \E d \in Client : ~Alone(d)
        /\ \A r \in issued : ~Alone(r.by) => r.id = 1 /\ r.op = "Put"
        /\ Cardinality(handlers) <= 1
=============================================================================
