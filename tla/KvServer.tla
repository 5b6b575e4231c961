----------------------------- MODULE KvServer -----------------------------
(***************************************************************************)
(* One KvServer (raftCore/kvServer.cpp) and the clients of the cluster     *)
(* (raftClerk/clerk.cpp).                                                  *)
(*                                                                         *)
(* RPC threads run Get and PutAppend, one thread runs the loop that        *)
(* applies committed commands; an action is what one of them does under    *)
(* m_mtx at a time.  The skip list is represented by the sequence of       *)
(* writes executed on it (Put and Append both set the key's value), and a  *)
(* read by the writes it has seen.                                         *)
(*                                                                         *)
(* Raft is the committed log: any request a client has issued may be       *)
(* committed next, more than once, through whatever server it reached.     *)
(* Snapshots are left out: those other servers send, the one the apply     *)
(* loop takes of its own state (IfNeedToSendSnapShotCommand), and the skip *)
(* of commands at or below m_lastSnapshotRaftLogIndex that goes with them. *)
(*                                                                         *)
(* A server knows a client by the id its Clerk drew.  rand() is not        *)
(* seeded: the Clerks of one process differ, those of two processes have   *)
(* the same ids, so any clients may share one.                             *)
(***************************************************************************)
EXTENDS Naturals, Sequences, FiniteSets

CONSTANTS Client,
          ClientId,     \* what Uuid() returns
          IoThreads,    \* threads of the RPC server (setThreadNum)
          MaxRequest,   \* bound: requests of one client
          MaxLog        \* bound: length of the log

ASSUME KvAssumption == {IoThreads, MaxRequest, MaxLog} \subseteq Nat

VARIABLES
  clientId,       \* m_clientId of each client
  issued,         \* the requests the clients have made so far
  answered,       \* history: those whose client has an answer
  log,            \* the committed commands
  applied, phase, \* the command the apply loop has in hand, and what comes next
  lastRequestId,  \* m_lastRequestId; 0 for an absent id
  executed,       \* the store: the writes executed on it
  waitApplyCh,    \* the queue of each index a handler waits for
  lastIndex,      \* the last index Raft::Start returned
  handlers        \* the RPC handlers under way

clientVars == <<issued, answered>>
applyVars == <<applied, phase, lastRequestId, executed>>
vars == <<clientId, clientVars, log, applyVars, waitApplyCh, lastIndex, handlers>>

\* A request, as a server tells it from others, and as it is.
Id(r) == <<clientId[r.by], r.id>>
Key(r) == <<r.by, r.id>>
Executed == {Key(executed[i]) : i \in DOMAIN executed}

\* Clerk::Uuid of each client.
Uuid == [Client -> ClientId]

Init ==
  /\ clientId \in Uuid
  /\ issued = {} /\ answered = {}
  /\ log = <<>>
  /\ applied = 0 /\ phase = "pop"
  /\ lastRequestId = [c \in ClientId |-> 0]
  /\ executed = <<>>
  /\ waitApplyCh = <<>>
  /\ lastIndex = 0
  /\ handlers = {}

\* ifRequestDuplicate: the last request of this client id is this one or a later
\* one.
DuplicateNext(r) == r.id <= lastRequestId[clientId[r.by]] + 1   \* faulty: off by one
IfRequestDuplicate(r) == r.id <= lastRequestId[clientId[r.by]]

-----------------------------------------------------------------------------
(* The clients and the log *)

\* Clerk::Get, PutAppend: the next request, once the last one is answered.  It
\* is sent again and again, to one server after the other, until it is.  `seen'
\* records the writes that had been answered before.
Issue(c, op) ==
  LET mine == {r \in issued : r.by = c} IN
  /\ mine \subseteq answered
  /\ Cardinality(mine) < MaxRequest
  /\ issued' = issued \cup
       {[by |-> c, id |-> Cardinality(mine) + 1, op |-> op,
         seen |-> {Key(r) : r \in {a \in answered : a.op = "Put"}}]}
  /\ UNCHANGED <<clientId, answered, log, applyVars, waitApplyCh, lastIndex, handlers>>

Commit(r) ==
  /\ r \in issued /\ Len(log) < MaxLog
  /\ log' = Append(log, r)
  /\ UNCHANGED <<clientId, clientVars, applyVars, waitApplyCh, lastIndex, handlers>>

\* Another server answers a request that it takes for committed: one with this
\* client id is, this or a later one.
AnsweredElsewhere(r) ==
  /\ r \in issued \ answered
  /\ \E i \in DOMAIN log : clientId[log[i].by] = clientId[r.by] /\ log[i].id >= r.id
  /\ answered' = answered \cup {r}
  /\ UNCHANGED <<clientId, issued, log, applyVars, waitApplyCh, lastIndex, handlers>>

-----------------------------------------------------------------------------
(* The apply loop *)

\* GetCommandFromRaft up to the test for duplicates.
PopCommand ==
  LET r == log[applied + 1] IN
  /\ phase = "pop" /\ applied < Len(log)
  /\ applied' = applied + 1
  /\ phase' = IF ~IfRequestDuplicate(r) /\ r.op = "Put" THEN "execute" ELSE "notify"
  /\ UNCHANGED <<clientId, clientVars, log, lastRequestId, executed, waitApplyCh, lastIndex, handlers>>

\* ExecutePutOpOnKVDB, ExecuteAppendOpOnKVDB.
ExecutePut ==
  LET r == log[applied] IN
  /\ phase = "execute"
  /\ executed' = Append(executed, r)
  /\ lastRequestId' = [lastRequestId EXCEPT ![clientId[r.by]] = r.id]
  /\ phase' = "notify"
  /\ UNCHANGED <<clientId, clientVars, log, applied, waitApplyCh, lastIndex, handlers>>

\* SendMessageToWaitChan: to the handler that waits for this index, if any does.
SendMessageToWaitChan ==
  /\ phase = "notify"
  /\ phase' = "pop"
  /\ waitApplyCh' = [i \in DOMAIN waitApplyCh |->
                       IF i = applied THEN Append(waitApplyCh[i], log[i]) ELSE waitApplyCh[i]]
  /\ UNCHANGED <<clientId, clientVars, log, applied, lastRequestId, executed, lastIndex, handlers>>

-----------------------------------------------------------------------------
(* The RPC handlers *)

Update(h, g) == handlers' = (handlers \ {h}) \cup {g}

\* Get or PutAppend on a node that leads, or thinks so: Start gives the command
\* the next index of this node's log, which is never shortened.  (A node that
\* does not lead refuses at once.)
StartRequest(r, index) ==
  /\ r \in issued /\ Cardinality(handlers) < IoThreads
  /\ index > lastIndex /\ index > applied
  /\ lastIndex' = index
  /\ handlers' = handlers \cup
       {[req |-> r, index |-> index, pc |-> "register", ok |-> FALSE, reads |-> {}]}
  /\ UNCHANGED <<clientId, clientVars, log, applyVars, waitApplyCh>>

\* The handler makes its queue; the index may have been applied already.
Register(h) ==
  /\ h \in handlers /\ h.pc = "register"
  /\ waitApplyCh' = [i \in DOMAIN waitApplyCh \cup {h.index} |->
                       IF i \in DOMAIN waitApplyCh THEN waitApplyCh[i] ELSE <<>>]
  /\ Update(h, [h EXCEPT !.pc = "wait"])
  /\ UNCHANGED <<clientId, clientVars, log, applyVars, lastIndex>>

\* timeOutPop returns a command: what was committed at this index, by whoever.
PopAny(h) ==   \* faulty: takes any command for its own
  /\ h \in handlers /\ h.pc = "wait" /\ waitApplyCh[h.index] # <<>>
  /\ waitApplyCh' = [waitApplyCh EXCEPT ![h.index] = Tail(@)]
  /\ Update(h, [h EXCEPT !.pc = IF h.req.op = "Get" THEN "read" ELSE "finish", !.ok = TRUE])
  /\ UNCHANGED <<clientId, clientVars, log, applyVars, lastIndex>>

Pop(h) ==
  LET mine == Id(Head(waitApplyCh[h.index])) = Id(h.req) IN
  /\ h \in handlers /\ h.pc = "wait" /\ waitApplyCh[h.index] # <<>>
  /\ waitApplyCh' = [waitApplyCh EXCEPT ![h.index] = Tail(@)]
  /\ Update(h, [h EXCEPT !.pc = IF mine /\ h.req.op = "Get" THEN "read" ELSE "finish",
                         !.ok = mine])
  /\ UNCHANGED <<clientId, clientVars, log, applyVars, lastIndex>>

\* timeOutPop times out, perhaps although a command has just come, and the
\* handler looks whether its request has been executed.  Get asks GetState as
\* well, which may say either.
TimeOut(h) ==
  /\ h \in handlers /\ h.pc = "wait"
  /\ \E isLeader \in BOOLEAN :
       LET done == IfRequestDuplicate(h.req) /\ (h.req.op = "Get" => isLeader) IN
       Update(h, [h EXCEPT !.pc = IF done /\ h.req.op = "Get" THEN "read" ELSE "finish",
                           !.ok = done])
  /\ UNCHANGED <<clientId, clientVars, log, applyVars, waitApplyCh, lastIndex>>

\* ExecuteGetOpOnKVDB, on the RPC thread: it reads, and sets m_lastRequestId.
ExecuteGet(h) ==
  /\ h \in handlers /\ h.pc = "read"
  /\ lastRequestId' = [lastRequestId EXCEPT ![clientId[h.req.by]] = h.req.id]
  /\ Update(h, [h EXCEPT !.pc = "finish", !.reads = Executed])
  /\ UNCHANGED <<clientId, clientVars, log, applied, phase, executed, waitApplyCh, lastIndex>>

\* The queue is deleted and the reply sent, which may be lost.
Finish(h) ==
  /\ h \in handlers /\ h.pc = "finish"
  /\ handlers' = handlers \ {h}
  /\ waitApplyCh' = [i \in DOMAIN waitApplyCh \ {h.index} |-> waitApplyCh[i]]
  /\ answered' \in {answered, IF h.ok THEN answered \cup {h.req} ELSE answered}
  /\ UNCHANGED <<clientId, issued, log, applyVars, lastIndex>>

Next ==
  \/ \E c \in Client, op \in {"Get", "Put"} : Issue(c, op)
  \/ \E r \in issued : Commit(r)
  \/ \E r \in issued : AnsweredElsewhere(r)
  \/ PopCommand
  \/ ExecutePut
  \/ SendMessageToWaitChan
  \/ \E r \in issued, index \in 1 .. MaxLog : StartRequest(r, index)
  \/ \E h \in handlers : Register(h)
  \/ \E h \in handlers : Pop(h)
  \/ \E h \in handlers : TimeOut(h)
  \/ \E h \in handlers : ExecuteGet(h)
  \/ \E h \in handlers : Finish(h)

Spec == Init /\ [][Next]_vars

-----------------------------------------------------------------------------
(* Properties *)

\* The servers can tell this client from all others.  What they promise is
\* promised to such clients: of two that share an id, one has its requests taken
\* for the other's.
Alone(c) == \A d \in Client : clientId[d] = clientId[c] => d = c

\* A write of such a client that a handler reports as done has been executed on
\* this server, whether its command came through the queue or the wait timed out.
AnsweredPutExecuted ==
  \A h \in handlers :
    (h.pc = "finish" /\ h.ok /\ h.req.op = "Put" /\ Alone(h.req.by)) => Key(h.req) \in Executed

\* Detecting duplicates never drops a write of such a client: each one in the
\* applied part of the log has been executed, whatever the others do.
NoWriteSkipped ==
  \A i \in 1 .. applied :
    (log[i].op = "Put" /\ Alone(log[i].by) /\ (i = applied => phase # "execute")) =>
      Key(log[i]) \in Executed

\* A read answered to such a client has seen every write that was answered to any
\* other such client before the read was issued.
ReadsFresh ==
  \A h \in handlers :
    (h.pc = "finish" /\ h.ok /\ h.req.op = "Get" /\ Alone(h.req.by) /\ h.req \notin answered) =>
      {x \in h.req.seen : Alone(x[1])} \subseteq h.reads

\* No write is executed twice, however often its client retries: what the Clerk
\* leaves to the server (the comment on its retry loop) and what
\* ifRequestDuplicate is for.
ExecutedOnce ==
  \A i, j \in DOMAIN executed : Key(executed[i]) = Key(executed[j]) => i = j
=============================================================================
