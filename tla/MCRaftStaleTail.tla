--------------------------- MODULE MCRaftStaleTail ---------------------------
(* Raft under a schedule of three leaders, too long for an unguided search:    *)
(*   term 1: a is elected, and appends three entries that it never sends;      *)
(*   term 2: b is elected, and commits two entries;                            *)
(*   term 3: c stands.                                                         *)
(* The constraint discards every other behaviour and adds none.                *)
EXTENDS MCRaft

CONSTANTS a, b, c

ThreeLeaders ==
  /\ \A v \in ballots : v[3] = CASE v[2] = 1 -> a [] v[2] = 2 -> b [] OTHER -> c
  /\ \A m \in appendReqs : m.from # a
  /\ HasStood(2) => Len(Log(a)) = 3
  /\ HasStood(3) => commitIndex[b] = 2
=============================================================================
