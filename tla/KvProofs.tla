------------------------------ MODULE KvProofs ------------------------------
(***************************************************************************)
(* Module KvServer for any number of clients, requests, RPC threads and    *)
(* commands: of the clients whose id nobody else has (Alone), no write is  *)
(* dropped as a duplicate, an answered write was executed, and a read has  *)
(* seen what was answered before it was issued; whatever the ids of the    *)
(* other clients, and however these are mixed up.                          *)
(*                                                                         *)
(* The argument follows a request from its client to the log: a client     *)
(* makes its next request when the last one is answered, and an answered   *)
(* one is in the log, so that the log has such a client's requests in      *)
(* order.  m_lastRequestId is the id of a command the apply loop has       *)
(* passed; whatever is not above it has been passed before.                *)
(***************************************************************************)
EXTENDS KvServer, TLAPS, FiniteSetTheorems, SequenceTheorems

Request == [by : Client, id : Nat \ {0}, op : {"Get", "Put"}, seen : SUBSET (Client \X Nat)]

Handler ==
  [req : issued, index : Nat, pc : {"register", "wait", "read", "finish"},
   ok : BOOLEAN, reads : SUBSET (Client \X Nat)]

TypeInv ==
  /\ clientId \in Uuid
  /\ issued \subseteq Request /\ IsFiniteSet(issued)
  /\ answered \subseteq issued
  /\ log \in Seq(issued)
  /\ applied \in 0 .. Len(log)
  /\ phase \in {"pop", "execute", "notify"}
  /\ phase # "pop" => applied > 0
  /\ phase = "execute" => log[applied].op = "Put"
  /\ lastRequestId \in [ClientId -> Nat]
  /\ executed \in Seq(issued)
  /\ lastIndex \in Nat
  /\ handlers \subseteq Handler
  /\ DOMAIN waitApplyCh \subseteq Nat
  /\ \A i \in DOMAIN waitApplyCh : waitApplyCh[i] \in Seq(issued)

\* A client's requests are numbered in order, and only the last may be unanswered.
IdsInv ==
  /\ \A r, s \in issued : Key(r) = Key(s) => r = s
  /\ \A r \in issued : r.id <= Cardinality({q \in issued : q.by = r.by})
  /\ \A r, s \in issued : s.by = r.by /\ s.id < r.id => s \in answered

\* What a request has seen answered are answered writes.
SeenInv ==
  \A r \in issued : \A x \in r.seen : \E a \in answered : a.op = "Put" /\ Key(a) = x

\* An answered request is in the log, and so are, before a command, the earlier
\* requests of its client and the writes that it has seen answered; of clients
\* whose id nobody else has.
OrderInv ==
  /\ \A r \in answered : Alone(r.by) => \E i \in DOMAIN log : log[i] = r
  /\ \A i \in DOMAIN log : \A s \in issued :
       Alone(s.by) /\ s.by = log[i].by /\ s.id < log[i].id => \E j \in 1 .. i - 1 : log[j] = s
  /\ \A i \in DOMAIN log : \A x \in log[i].seen :
       Alone(x[1]) => \E j \in 1 .. i - 1 : log[j].op = "Put" /\ Key(log[j]) = x

\* The apply loop has dealt with the command at index i, up to notifying.
Passed(i) == i \in 1 .. applied /\ (i = applied => phase # "execute")

PassedRequest(r) == \E i \in DOMAIN log : Passed(i) /\ log[i] = r

\* m_lastRequestId of such a client is the id of a command the loop has passed.
LastIdInv ==
  \A c \in Client : Alone(c) /\ lastRequestId[clientId[c]] # 0 =>
    \E i \in DOMAIN log :
      Passed(i) /\ log[i].by = c /\ log[i].id = lastRequestId[clientId[c]]

\* A queue holds commands the loop has passed; each index has one handler at most,
\* and one that waits has its queue.
QueueInv ==
  /\ \A i \in DOMAIN waitApplyCh : \A k \in DOMAIN waitApplyCh[i] : PassedRequest(waitApplyCh[i][k])
  /\ \A h \in handlers : h.pc = "wait" => h.index \in DOMAIN waitApplyCh
  /\ \A h \in handlers : h.index <= lastIndex
  /\ \A g, h \in handlers : g.index = h.index => g = h

\* The request of a handler that reads, or has a good answer, has been passed;
\* and what a read saw contains what its client had seen answered.
HandlerInv ==
  \A h \in handlers : Alone(h.req.by) =>
    /\ (h.pc = "read" \/ (h.pc = "finish" /\ h.ok)) => PassedRequest(h.req)
    /\ (h.pc = "finish" /\ h.ok /\ h.req.op = "Get") =>
         {x \in h.req.seen : Alone(x[1])} \subseteq h.reads

KvInv ==
  /\ TypeInv /\ IdsInv /\ SeenInv /\ OrderInv /\ LastIdInv /\ QueueInv /\ HandlerInv
  /\ NoWriteSkipped
-----------------------------------------------------------------------------
(* What follows from the invariant in one state *)

LEMMA LogElements ==
  ASSUME TypeInv, NEW i \in DOMAIN log
  PROVE  /\ log[i] \in issued /\ log[i] \in Request
         /\ i \in Nat /\ i > 0 /\ i <= Len(log)
  BY DEF TypeInv

\* A passed write has been executed.
LEMMA PassedExecuted ==
  ASSUME KvInv, NEW r, PassedRequest(r), r.op = "Put", Alone(r.by)
  PROVE  Key(r) \in Executed
<1>1. PICK i \in DOMAIN log : Passed(i) /\ log[i] = r
  BY DEF PassedRequest
<1> QED
  BY <1>1 DEF KvInv, Passed, NoWriteSkipped

\* What the log has before a passed command has been passed.
LEMMA PassedBefore ==
  ASSUME TypeInv, NEW i \in DOMAIN log, Passed(i), NEW j \in 1 .. i - 1
  PROVE  j \in DOMAIN log /\ Passed(j)
  BY DEF TypeInv, Passed

\* ifRequestDuplicate tells the truth: a request it takes for a duplicate has
\* been passed.
LEMMA DuplicatePassed ==
  ASSUME KvInv, NEW r \in issued, Alone(r.by), IfRequestDuplicate(r)
  PROVE  PassedRequest(r)
<1> DEFINE c == r.by
           last == lastRequestId[clientId[c]]
<1>1. r \in Request /\ c \in Client /\ r.id \in Nat \ {0}
  BY DEF KvInv, TypeInv, Request
<1>2. last \in Nat /\ r.id <= last
  BY <1>1 DEF KvInv, TypeInv, Uuid, IfRequestDuplicate
<1>3. PICK i \in DOMAIN log : Passed(i) /\ log[i].by = c /\ log[i].id = last
  BY <1>1, <1>2 DEF KvInv, LastIdInv
<1>4. CASE r.id = last
  <2>1. log[i] = r
    BY <1>3, <1>4, LogElements DEF KvInv, IdsInv, Key
  <2> QED
    BY <1>3, <2>1 DEF PassedRequest
<1>5. CASE r.id # last
  <2>1. PICK j \in 1 .. i - 1 : log[j] = r
    BY <1>1, <1>2, <1>3, <1>5 DEF KvInv, OrderInv
  <2> QED
    BY <1>3, <2>1, PassedBefore DEF KvInv, PassedRequest
<1> QED
  BY <1>4, <1>5

\* Ids are drawn once.
LEMMA AloneStays ==
  ASSUME clientId' = clientId
  PROVE  \A c : Alone(c)' <=> Alone(c)
  BY DEF Alone

-----------------------------------------------------------------------------
(* KvInv is inductive *)

LEMMA InitInv == Init => KvInv
<1> SUFFICES ASSUME Init PROVE KvInv
  OBVIOUS
<1>1. TypeInv
  BY FS_EmptySet DEF Init, TypeInv
<1>2. LastIdInv
  BY DEF Init, Uuid, LastIdInv
<1> QED
  BY <1>1, <1>2 DEF Init, KvInv, IdsInv, SeenInv, OrderInv, QueueInv, HandlerInv, NoWriteSkipped

\* Clerk: the next request of a client whose requests are all answered.
LEMMA IssueInv ==
  ASSUME KvInv, NEW c \in Client, NEW op \in {"Get", "Put"}, Issue(c, op)
  PROVE  KvInv'
<1> DEFINE mine(S) == {r \in S : r.by = c}
           new == [by |-> c, id |-> Cardinality(mine(issued)) + 1, op |-> op,
                   seen |-> {Key(r) : r \in {a \in answered : a.op = "Put"}}]
<1>1. /\ mine(issued) \subseteq answered
      /\ issued' = issued \cup {new}
      /\ UNCHANGED <<clientId, answered, log, applyVars, waitApplyCh, lastIndex, handlers>>
  BY DEF Issue
<1>2. UNCHANGED <<clientId, log, applied, phase, lastRequestId, executed, answered>>
  BY <1>1 DEF applyVars
<1>3. IsFiniteSet(mine(issued)) /\ Cardinality(mine(issued)) \in Nat
  BY FS_Subset, FS_CardinalityType DEF KvInv, TypeInv
<1>4. new \in Request
  BY <1>3 DEF KvInv, TypeInv, Request, Key
<1>5. \A r \in issued : r \in Request /\ (r.by = c => r.id < new.id)
  <2>1. ASSUME NEW r \in issued, r.by = c PROVE r.id < new.id
    <3>1. {q \in issued : q.by = r.by} = mine(issued)
      BY <2>1
    <3>2. r.id \in Nat /\ r.id <= Cardinality(mine(issued))
      BY <3>1 DEF KvInv, TypeInv, Request, IdsInv
    <3> QED
      BY <1>3, <3>2
  <2> QED
    BY <2>1 DEF KvInv, TypeInv
<1>6. TypeInv'
  <2>1. IsFiniteSet(issued')
    BY <1>1, FS_AddElement DEF KvInv, TypeInv
  <2>2. \A q : q \in Seq(issued) => q \in Seq(issued')
    BY <1>1, SeqMonotonic
  <2>3. handlers' \subseteq Handler'
    BY <1>1 DEF KvInv, TypeInv, Handler
  <2> QED
    BY <1>1, <1>2, <1>4, <2>1, <2>2, <2>3 DEF KvInv, TypeInv
<1>7. IdsInv'
  <2>1. ASSUME NEW r \in issued', NEW s \in issued', Key(r) = Key(s) PROVE r = s
    <3>1. r.by = s.by /\ r.id = s.id
      BY <2>1 DEF Key
    <3>2. \A q \in issued : ~(q.by = new.by /\ q.id = new.id)
      BY <1>3, <1>5 DEF Request
    <3> HIDE DEF new
    <3>3. CASE r \in issued /\ s \in issued
      BY <2>1, <3>3 DEF KvInv, IdsInv
    <3>4. CASE r = new \/ s = new
      BY <1>1, <3>1, <3>2, <3>4
    <3> QED
      BY <1>1, <3>3, <3>4
  <2>2. ASSUME NEW r \in issued'
        PROVE  r.id <= Cardinality({q \in issued' : q.by = r.by})
    <3>1. CASE r.by # c
      <4>1. {q \in issued' : q.by = r.by} = {q \in issued : q.by = r.by}
        BY <1>1, <3>1
      <4> QED
        BY <1>1, <3>1, <4>1 DEF KvInv, IdsInv
    <3>2. CASE r.by = c
      <4>1. {q \in issued' : q.by = r.by} = mine(issued) \cup {new}
        BY <1>1, <3>2
      <4>2. new \notin mine(issued)
        BY <1>3, <1>5 DEF Request
      <4>3. Cardinality(mine(issued) \cup {new}) = new.id
        BY <1>3, <4>2, FS_AddElement
      <4>4. r.id <= new.id
        <5>1. CASE r \in issued
          <6>1. r.id \in Nat /\ new.id \in Nat /\ r.id < new.id
            BY <1>4, <1>5, <3>2, <5>1 DEF Request
          <6> QED
            BY <6>1
        <5>2. CASE r = new
          <6>1. new.id \in Nat
            BY <1>4 DEF Request
          <6> QED
            BY <5>2, <6>1
        <5> QED
          BY <1>1, <5>1, <5>2
      <4> QED
        BY <4>1, <4>3, <4>4
    <3> QED
      BY <3>1, <3>2
  <2>3. \A r, s \in issued' : s.by = r.by /\ s.id < r.id => s \in answered'
    <3> SUFFICES ASSUME NEW r \in issued', NEW s \in issued', s.by = r.by, s.id < r.id
                 PROVE  s \in answered
      BY <1>2
    <3>1. CASE r \in issued /\ s \in issued
      BY <3>1 DEF KvInv, IdsInv
    <3>2. CASE r = new /\ s \in issued
      BY <1>1, <3>2
    <3>3. CASE s = new
      BY <1>1, <1>3, <1>5, <3>3 DEF Request
    <3> QED
      BY <1>1, <3>1, <3>2, <3>3
  <2> QED
    BY <2>1, <2>2, <2>3 DEF IdsInv
<1>8. SeenInv'
  BY <1>1 DEF KvInv, SeenInv, Key
<1>9. OrderInv'
  <2>1. ASSUME NEW i \in DOMAIN log, new.by = log[i].by, new.id < log[i].id
        PROVE  FALSE
    BY <1>3, <1>5, <2>1, LogElements DEF KvInv, Request
  <2>2. OrderInv /\ \A d : Alone(d)' <=> Alone(d)
    BY <1>2, AloneStays DEF KvInv
  <2> HIDE DEF new
  <2> QED
    BY <1>1, <1>2, <2>1, <2>2 DEF OrderInv
<1>10. LastIdInv' /\ NoWriteSkipped'
  BY <1>1, <1>2, AloneStays
  DEF KvInv, LastIdInv, NoWriteSkipped, Passed, Executed
<1>11. QueueInv' /\ HandlerInv'
  BY <1>1, <1>2, AloneStays DEF KvInv, QueueInv, HandlerInv, PassedRequest, Passed
<1> QED
  BY <1>6, <1>7, <1>8, <1>9, <1>10, <1>11 DEF KvInv

\* Steps in which the apply loop and the requests stay as they are keep what is
\* said of them.
LEMMA LogUnchanged ==
  ASSUME KvInv, UNCHANGED <<clientId, issued, log, applied, phase, lastRequestId, executed>>
  PROVE  /\ LastIdInv' /\ NoWriteSkipped'
         /\ \A r : PassedRequest(r) => PassedRequest(r)'
  BY AloneStays DEF KvInv, LastIdInv, NoWriteSkipped, PassedRequest, Passed, Executed

LEMMA RequestsStay ==
  ASSUME KvInv, UNCHANGED <<clientId, issued, answered, log>>
  PROVE  IdsInv' /\ SeenInv' /\ OrderInv'
  BY AloneStays DEF KvInv, IdsInv, SeenInv, OrderInv

\* Steps that answer only requests in the log keep what is said of requests.
LEMMA AnswersInLog ==
  ASSUME KvInv, UNCHANGED <<clientId, issued, log>>, answered \subseteq answered',
         answered' \subseteq issued,
         \A r \in answered' : Alone(r.by) => \E i \in DOMAIN log : log[i] = r
  PROVE  IdsInv' /\ SeenInv' /\ OrderInv'
  BY AloneStays DEF KvInv, IdsInv, SeenInv, OrderInv

\* Raft commits a request, perhaps once more.
LEMMA CommitInv ==
  ASSUME KvInv, NEW r \in issued, Commit(r)
  PROVE  KvInv'
<1>1. /\ log' = Append(log, r)
      /\ UNCHANGED <<clientId, issued, answered, applied, phase, lastRequestId, executed, waitApplyCh,
                     lastIndex, handlers>>
  BY DEF Commit, clientVars, applyVars
<1>2. /\ log \in Seq(issued) /\ Len(log) \in Nat /\ Len(log') = Len(log) + 1
      /\ DOMAIN log = 1 .. Len(log) /\ DOMAIN log' = 1 .. Len(log) + 1
      /\ \A i \in DOMAIN log : log'[i] = log[i]
      /\ log'[Len(log) + 1] = r
  BY <1>1 DEF KvInv, TypeInv
<1>3. TypeInv'
  BY <1>1, <1>2 DEF KvInv, TypeInv, Handler
<1>4. \A q \in answered : Alone(q.by) => \E i \in DOMAIN log : log[i] = q
  BY DEF KvInv, OrderInv
<1>5. OrderInv'
  <2>1. \A q \in answered' : Alone(q.by) => \E i \in DOMAIN log' : log'[i] = q
    BY <1>1, <1>2, <1>4
  <2>2. ASSUME NEW i \in DOMAIN log', NEW s \in issued', Alone(s.by), s.by = log'[i].by,
               s.id < log'[i].id
        PROVE  \E j \in 1 .. i - 1 : log'[j] = s
    <3>1. CASE i \in DOMAIN log
      <4>1. PICK j \in 1 .. i - 1 : log[j] = s
        BY <1>1, <1>2, <2>2, <3>1 DEF KvInv, OrderInv
      <4> QED
        BY <1>2, <3>1, <4>1
    <3>2. CASE i = Len(log) + 1
      <4>1. s \in answered
        BY <1>1, <1>2, <2>2, <3>2 DEF KvInv, IdsInv
      <4> QED
        BY <1>2, <1>4, <2>2, <3>2, <4>1
    <3> QED
      BY <1>2, <3>1, <3>2
  <2>3. ASSUME NEW i \in DOMAIN log', NEW x \in log'[i].seen, Alone(x[1])
        PROVE  \E j \in 1 .. i - 1 : log'[j].op = "Put" /\ Key(log'[j]) = x
    <3>1. CASE i \in DOMAIN log
      <4>1. PICK j \in 1 .. i - 1 : log[j].op = "Put" /\ Key(log[j]) = x
        BY <1>2, <2>3, <3>1 DEF KvInv, OrderInv
      <4> QED
        BY <1>2, <3>1, <4>1
    <3>2. CASE i = Len(log) + 1
      <4>1. PICK a \in answered : a.op = "Put" /\ Key(a) = x
        BY <1>2, <2>3, <3>2 DEF KvInv, SeenInv
      <4> QED
        BY <1>2, <1>4, <2>3, <3>2, <4>1 DEF Key
    <3> QED
      BY <1>2, <3>1, <3>2
  <2> QED
    BY <1>1, <2>1, <2>2, <2>3, AloneStays DEF OrderInv
<1>6. \A q : PassedRequest(q) => PassedRequest(q)'
  BY <1>1, <1>2 DEF PassedRequest, Passed
<1>7. LastIdInv'
  BY <1>1, <1>2, AloneStays DEF KvInv, LastIdInv, Passed
<1>8. NoWriteSkipped'
  BY <1>1, <1>2, AloneStays DEF KvInv, TypeInv, NoWriteSkipped, Executed
<1>9. IdsInv' /\ SeenInv'
  BY <1>1 DEF KvInv, IdsInv, SeenInv
<1>10. QueueInv'
  BY <1>1, <1>6 DEF KvInv, QueueInv
<1>11. HandlerInv'
  BY <1>1, <1>6, AloneStays DEF KvInv, HandlerInv
<1> QED
  BY <1>3, <1>5, <1>7, <1>8, <1>9, <1>10, <1>11 DEF KvInv

LEMMA AnsweredElsewhereInv ==
  ASSUME KvInv, NEW r \in issued, AnsweredElsewhere(r)
  PROVE  KvInv'
<1>1. /\ r \notin answered /\ answered' = answered \cup {r}
      /\ UNCHANGED <<clientId, issued, log, applied, phase, lastRequestId, executed, waitApplyCh,
                     lastIndex, handlers>>
  BY DEF AnsweredElsewhere, applyVars
<1>0. ASSUME Alone(r.by) PROVE \E i \in DOMAIN log : log[i] = r
  <2>1. PICK i \in DOMAIN log : clientId[log[i].by] = clientId[r.by] /\ log[i].id >= r.id
    BY DEF AnsweredElsewhere
  <2>2. log[i] \in issued /\ log[i] \in Request /\ r \in Request
    BY LogElements DEF KvInv, TypeInv
  <2>3. log[i].by = r.by
    BY <1>0, <2>1, <2>2 DEF Alone, Request
  <2>4. log[i].id = r.id
    BY <1>1, <2>1, <2>2, <2>3 DEF KvInv, IdsInv, Request
  <2> QED
    BY <2>2, <2>3, <2>4 DEF KvInv, IdsInv, Key
<1>2. TypeInv'
  BY <1>1 DEF KvInv, TypeInv, Handler
<1>3. IdsInv' /\ SeenInv' /\ OrderInv'
  <2>1. /\ answered' \subseteq issued
        /\ \A q \in answered' : Alone(q.by) => \E i \in DOMAIN log : log[i] = q
    BY <1>0, <1>1 DEF KvInv, TypeInv, OrderInv
  <2> QED
    BY <1>1, <2>1, AnswersInLog
<1>4. QueueInv' /\ HandlerInv'
  BY <1>1, LogUnchanged, AloneStays DEF KvInv, QueueInv, HandlerInv
<1> QED
  BY <1>1, <1>2, <1>3, <1>4, LogUnchanged DEF KvInv

\* Steps of the apply loop: what has been passed stays so.
LEMMA PopCommandInv == KvInv /\ PopCommand => KvInv'
<1> SUFFICES ASSUME KvInv, PopCommand PROVE KvInv'
  OBVIOUS
<1> DEFINE r == log[applied + 1]
<1>1. /\ phase = "pop" /\ applied < Len(log) /\ applied' = applied + 1
      /\ phase' = IF ~IfRequestDuplicate(r) /\ r.op = "Put" THEN "execute" ELSE "notify"
      /\ UNCHANGED <<clientId, issued, answered, log, lastRequestId, executed, waitApplyCh, lastIndex, handlers>>
  BY DEF PopCommand, clientVars
<1>2. log \in Seq(issued) /\ applied \in Nat /\ applied + 1 \in DOMAIN log /\ r \in issued
  BY <1>1 DEF KvInv, TypeInv
<1>3. TypeInv'
  BY <1>1, <1>2 DEF KvInv, TypeInv, Handler
<1>4. \A i : Passed(i) => Passed(i)'
  BY <1>1, <1>2 DEF Passed
<1>5. \A q : PassedRequest(q) => PassedRequest(q)'
  BY <1>1, <1>4 DEF PassedRequest
<1>6. NoWriteSkipped'
  <2> SUFFICES ASSUME NEW i \in 1 .. applied', log[i].op = "Put", Alone(log[i].by),
                      i = applied' => phase' # "execute"
               PROVE  Key(log[i]) \in Executed
    BY <1>1, AloneStays DEF NoWriteSkipped, Executed
  <2>1. CASE i <= applied
    BY <1>1, <1>2, <2>1 DEF KvInv, NoWriteSkipped
  <2>2. CASE i = applied + 1
    <3>1. IfRequestDuplicate(r)
      BY <1>1, <2>2
    <3> QED
      BY <1>2, <2>2, <3>1, DuplicatePassed, PassedExecuted
  <2> QED
    BY <1>1, <1>2, <2>1, <2>2
<1>7. LastIdInv'
  BY <1>1, <1>4, AloneStays DEF KvInv, LastIdInv
<1>8. IdsInv' /\ SeenInv' /\ OrderInv'
  BY <1>1, RequestsStay
<1>9. QueueInv'
  BY <1>1, <1>5 DEF KvInv, QueueInv
<1>10. HandlerInv'
  BY <1>1, <1>5, AloneStays DEF KvInv, HandlerInv
<1> QED
  BY <1>3, <1>6, <1>7, <1>8, <1>9, <1>10 DEF KvInv

LEMMA ExecutePutInv == KvInv /\ ExecutePut => KvInv'
<1> SUFFICES ASSUME KvInv, ExecutePut PROVE KvInv'
  OBVIOUS
<1> DEFINE r == log[applied]
<1>1. /\ phase = "execute" /\ phase' = "notify"
      /\ executed' = Append(executed, r)
      /\ lastRequestId' = [lastRequestId EXCEPT ![clientId[r.by]] = r.id]
      /\ UNCHANGED <<clientId, issued, answered, log, applied, waitApplyCh, lastIndex, handlers>>
  BY DEF ExecutePut, clientVars
<1>2. /\ log \in Seq(issued) /\ applied \in DOMAIN log /\ applied \in Nat
      /\ r \in issued /\ r \in Request /\ r.by \in Client /\ r.id \in Nat
  BY <1>1 DEF KvInv, TypeInv, Request
<1>3. TypeInv'
  <2>1. lastRequestId' \in [ClientId -> Nat]
    BY <1>1, <1>2 DEF KvInv, TypeInv, Uuid
  <2>2. executed' \in Seq(issued)
    BY <1>1, <1>2 DEF KvInv, TypeInv
  <2> QED
    BY <1>1, <1>2, <2>1, <2>2 DEF KvInv, TypeInv, Handler
<1>4. \A i : Passed(i) => Passed(i)'
  BY <1>1 DEF Passed
<1>5. \A q : PassedRequest(q) => PassedRequest(q)'
  BY <1>1, <1>4 DEF PassedRequest
<1>6. Executed' = Executed \cup {Key(r)}
  <2>1. executed \in Seq(issued)
    BY DEF KvInv, TypeInv
  <2>2. /\ DOMAIN executed' = DOMAIN executed \cup {Len(executed) + 1}
        /\ \A i \in DOMAIN executed : executed'[i] = executed[i]
        /\ executed'[Len(executed) + 1] = r
    BY <1>1, <1>2, <2>1
  <2> QED
    BY <2>2 DEF Executed
<1>7. NoWriteSkipped'
  BY <1>1, <1>2, <1>6, AloneStays DEF KvInv, NoWriteSkipped
<1>8. LastIdInv'
  <2> SUFFICES ASSUME NEW c \in Client, Alone(c), lastRequestId'[clientId[c]] # 0
               PROVE  \E i \in DOMAIN log : /\ Passed(i)' /\ log[i].by = c
                                             /\ log[i].id = lastRequestId'[clientId[c]]
    BY <1>1, AloneStays DEF LastIdInv
  <2>0. lastRequestId \in [ClientId -> Nat] /\ clientId[c] \in ClientId /\ clientId[r.by] \in ClientId
    BY <1>2 DEF KvInv, TypeInv, Uuid
  <2>1. CASE c = r.by
    <3>2. lastRequestId'[clientId[c]] = r.id
      BY <1>1, <2>0, <2>1
    <3> QED
      BY <1>1, <1>2, <2>1, <3>2 DEF Passed
  <2>2. CASE c # r.by
    <3>1. lastRequestId'[clientId[c]] = lastRequestId[clientId[c]]
      BY <1>1, <1>2, <2>0, <2>2 DEF Alone
    <3> QED
      BY <1>4, <3>1 DEF KvInv, LastIdInv
  <2> QED
    BY <2>1, <2>2
<1>9. IdsInv' /\ SeenInv' /\ OrderInv'
  BY <1>1, RequestsStay
<1>10. QueueInv'
  BY <1>1, <1>5 DEF KvInv, QueueInv
<1>11. HandlerInv'
  BY <1>1, <1>5, AloneStays DEF KvInv, HandlerInv
<1> QED
  BY <1>3, <1>7, <1>8, <1>9, <1>10, <1>11 DEF KvInv

LEMMA SendMessageToWaitChanInv == KvInv /\ SendMessageToWaitChan => KvInv'
<1> SUFFICES ASSUME KvInv, SendMessageToWaitChan PROVE KvInv'
  OBVIOUS
<1>1. /\ phase = "notify" /\ phase' = "pop"
      /\ waitApplyCh' = [i \in DOMAIN waitApplyCh |->
                           IF i = applied THEN Append(waitApplyCh[i], log[i]) ELSE waitApplyCh[i]]
      /\ UNCHANGED <<clientId, issued, answered, log, applied, lastRequestId, executed, lastIndex, handlers>>
  BY DEF SendMessageToWaitChan, clientVars
<1>2. log \in Seq(issued) /\ applied \in DOMAIN log /\ log[applied] \in issued
  BY <1>1 DEF KvInv, TypeInv
<1>3. TypeInv'
  BY <1>1, <1>2 DEF KvInv, TypeInv, Handler
<1>4. \A i : Passed(i) <=> Passed(i)'
  BY <1>1 DEF Passed
<1>5. \A q : PassedRequest(q) => PassedRequest(q)'
  BY <1>1, <1>4 DEF PassedRequest
<1>6. PassedRequest(log[applied])'
  BY <1>1, <1>2 DEF PassedRequest, Passed, KvInv, TypeInv
<1>7. QueueInv'
  <2>1. ASSUME NEW i \in DOMAIN waitApplyCh', NEW k \in DOMAIN waitApplyCh'[i]
        PROVE  PassedRequest(waitApplyCh[i][k])'
    <3>1. i \in DOMAIN waitApplyCh /\ waitApplyCh[i] \in Seq(issued)
      BY <1>1 DEF KvInv, TypeInv
    <3>2. \/ k \in DOMAIN waitApplyCh[i] /\ waitApplyCh'[i][k] = waitApplyCh[i][k]
          \/ waitApplyCh'[i][k] = log[applied]
      BY <1>1, <1>2, <2>1, <3>1
    <3> QED
      BY <1>1, <1>5, <1>6, <3>2 DEF KvInv, QueueInv
  <2> QED
    BY <1>1, <2>1 DEF KvInv, QueueInv
<1>8. HandlerInv'
  BY <1>1, <1>5, AloneStays DEF KvInv, HandlerInv
<1>9. IdsInv' /\ SeenInv' /\ OrderInv'
  BY <1>1, RequestsStay
<1>10. LastIdInv' /\ NoWriteSkipped'
  BY <1>1, <1>4, AloneStays DEF KvInv, LastIdInv, NoWriteSkipped, Executed
<1> QED
  BY <1>3, <1>7, <1>8, <1>9, <1>10 DEF KvInv

-----------------------------------------------------------------------------
\* An RPC thread begins with a request that some client has made.
LEMMA StartRequestInv ==
  ASSUME KvInv, NEW r \in issued, NEW index \in Nat, StartRequest(r, index)
  PROVE  KvInv'
<1> DEFINE new == [req |-> r, index |-> index, pc |-> "register", ok |-> FALSE, reads |-> {}]
<1>1. /\ index > lastIndex /\ lastIndex' = index
      /\ handlers' = handlers \cup {new}
      /\ UNCHANGED <<clientId, issued, answered, log, applied, phase, lastRequestId, executed, waitApplyCh>>
  BY DEF StartRequest, clientVars, applyVars
<1>2. TypeInv'
  <2>1. new \in Handler' /\ Handler' = Handler
    BY <1>1 DEF Handler
  <2> HIDE DEF new
  <2> QED
    BY <1>1, <2>1 DEF KvInv, TypeInv
<1>3. IdsInv' /\ SeenInv' /\ OrderInv'
  BY <1>1, RequestsStay
<1>4. QueueInv'
  <2>1. \A h \in handlers : h.index < index
    <3>1. \A h \in handlers : h.index \in Nat /\ h.index <= lastIndex
      BY DEF KvInv, TypeInv, Handler, QueueInv
    <3>2. lastIndex \in Nat
      BY DEF KvInv, TypeInv
    <3> QED
      BY <1>1, <3>1, <3>2
  <2>2. \A g, h \in handlers' : g.index = h.index => g = h
    <3>1. \A h \in handlers : h.index # index
      <4>1. \A h \in handlers : h.index \in Nat
        BY DEF KvInv, TypeInv, Handler
      <4> QED
        BY <2>1, <4>1
    <3>2. new.index = index
      OBVIOUS
    <3>3. \A g, h \in handlers : g.index = h.index => g = h
      BY DEF KvInv, QueueInv
    <3>4. handlers' = handlers \cup {new}
      BY <1>1
    <3> HIDE DEF new
    <3> QED
      BY <3>1, <3>2, <3>3, <3>4
  <2>3. \A h \in handlers' : h.index <= lastIndex'
    <3>1. \A h \in handlers : h.index \in Nat
      BY DEF KvInv, TypeInv, Handler
    <3> QED
      BY <1>1, <2>1, <3>1
  <2>4. \A h \in handlers' : h.pc = "wait" => h.index \in DOMAIN waitApplyCh'
    BY <1>1 DEF KvInv, QueueInv
  <2> QED
    BY <1>1, <2>2, <2>3, <2>4, LogUnchanged DEF KvInv, QueueInv
<1>5. HandlerInv'
  BY <1>1, LogUnchanged, AloneStays DEF KvInv, HandlerInv
<1> QED
  BY <1>1, <1>2, <1>3, <1>4, <1>5, LogUnchanged DEF KvInv

\* What a step of one handler has to show: it keeps its index, its new state keeps
\* to HandlerInv, and the queues hold commands that have been passed.
LEMMA HandlerStep ==
  ASSUME KvInv, NEW h \in handlers, NEW g \in Handler,
         UNCHANGED <<clientId, issued, answered, log, applied, phase, executed, lastIndex>>,
         lastRequestId' \in [ClientId -> Nat], LastIdInv',
         Update(h, g), g.index = h.index,
         DOMAIN waitApplyCh \subseteq DOMAIN waitApplyCh', DOMAIN waitApplyCh' \subseteq Nat,
         \A i \in DOMAIN waitApplyCh' :
           /\ waitApplyCh'[i] \in Seq(issued)
           /\ \A k \in DOMAIN waitApplyCh'[i] : PassedRequest(waitApplyCh'[i][k]),
         g.pc = "wait" => g.index \in DOMAIN waitApplyCh',
         Alone(g.req.by) /\ (g.pc = "read" \/ (g.pc = "finish" /\ g.ok)) => PassedRequest(g.req),
         Alone(g.req.by) /\ g.pc = "finish" /\ g.ok /\ g.req.op = "Get" =>
           {x \in g.req.seen : Alone(x[1])} \subseteq g.reads
  PROVE  KvInv'
<1>1. handlers' = (handlers \ {h}) \cup {g}
  BY DEF Update
<1>2. TypeInv'
  BY <1>1 DEF KvInv, TypeInv, Handler
<1>3. \A r : PassedRequest(r)' <=> PassedRequest(r)
  BY DEF PassedRequest, Passed
<1>4. QueueInv'
  <2>1. \A i \in DOMAIN waitApplyCh' : \A k \in DOMAIN waitApplyCh'[i] : PassedRequest(waitApplyCh[i][k])'
    BY DEF PassedRequest, Passed
  <2> QED
    BY <1>1, <2>1 DEF KvInv, QueueInv
<1>5. HandlerInv'
  BY <1>1, <1>3, AloneStays DEF KvInv, HandlerInv
<1>6. IdsInv' /\ SeenInv' /\ OrderInv' /\ NoWriteSkipped'
  BY RequestsStay, AloneStays DEF KvInv, NoWriteSkipped, Executed
<1> QED
  BY <1>2, <1>4, <1>5, <1>6 DEF KvInv

LEMMA RegisterInv ==
  ASSUME KvInv, NEW h \in handlers, Register(h)
  PROVE  KvInv'
<1> DEFINE g == [h EXCEPT !.pc = "wait"]
<1>1. /\ waitApplyCh' = [i \in DOMAIN waitApplyCh \cup {h.index} |->
                           IF i \in DOMAIN waitApplyCh THEN waitApplyCh[i] ELSE <<>>]
      /\ Update(h, g)
      /\ UNCHANGED <<clientId, issued, answered, log, applied, phase, lastRequestId, executed, lastIndex>>
  BY DEF Register, clientVars, applyVars
<1>2. h \in Handler /\ g \in Handler /\ g.index = h.index /\ g.pc = "wait"
  BY DEF KvInv, TypeInv, Handler
<1>3. /\ DOMAIN waitApplyCh' = DOMAIN waitApplyCh \cup {h.index}
      /\ \A i \in DOMAIN waitApplyCh' :
           /\ waitApplyCh'[i] \in Seq(issued)
           /\ \A k \in DOMAIN waitApplyCh'[i] : PassedRequest(waitApplyCh'[i][k])
  BY <1>1 DEF KvInv, TypeInv, QueueInv
<1>4. h.index \in Nat /\ DOMAIN waitApplyCh \subseteq Nat /\ lastRequestId \in [ClientId -> Nat]
  BY <1>2 DEF KvInv, TypeInv, Handler
<1>5. LastIdInv'
  BY <1>1, LogUnchanged
<1> HIDE DEF g
<1> QED
  BY <1>1, <1>2, <1>3, <1>4, <1>5, HandlerStep

\* The queue gives the handler a passed command, which may be its own.
LEMMA PopInv ==
  ASSUME KvInv, NEW h \in handlers, Pop(h)
  PROVE  KvInv'
<1> DEFINE q == waitApplyCh[h.index]
           mine == Id(Head(q)) = Id(h.req)
           g == [h EXCEPT !.pc = IF mine /\ h.req.op = "Get" THEN "read" ELSE "finish", !.ok = mine]
<1>1. /\ h.pc = "wait" /\ q # <<>>
      /\ waitApplyCh' = [waitApplyCh EXCEPT ![h.index] = Tail(@)]
      /\ Update(h, g)
      /\ UNCHANGED <<clientId, issued, answered, log, applied, phase, lastRequestId, executed, lastIndex>>
  BY DEF Pop, clientVars, applyVars
<1>2. /\ h \in Handler /\ g \in Handler /\ g.index = h.index
      /\ g.req = h.req /\ g.req \in issued
      /\ g.pc # "wait" /\ (g.ok => mine) /\ (g.pc = "read" => mine)
      /\ (g.pc = "finish" /\ g.ok => g.req.op # "Get")
  BY DEF KvInv, TypeInv, Handler
<1>3. h.index \in DOMAIN waitApplyCh /\ q \in Seq(issued)
  BY <1>1 DEF KvInv, TypeInv, QueueInv
<1>4. mine /\ Alone(h.req.by) => PassedRequest(h.req)
  <2>1. Head(q) = q[1] /\ 1 \in DOMAIN q /\ Head(q) \in issued
    BY <1>1, <1>3
  <2>2. PassedRequest(Head(q))
    BY <1>3, <2>1 DEF KvInv, QueueInv
  <2>3. ASSUME mine, Alone(h.req.by) PROVE Head(q) = h.req
    <3>1. clientId[Head(q).by] = clientId[h.req.by] /\ Head(q).id = h.req.id
      BY <2>3 DEF Id
    <3>2. Head(q).by = h.req.by
      BY <2>1, <2>3, <3>1 DEF Alone, KvInv, TypeInv, Request
    <3> QED
      BY <1>2, <2>1, <3>1, <3>2 DEF KvInv, IdsInv, Key
  <2> QED
    BY <2>2, <2>3
<1>5. /\ DOMAIN waitApplyCh' = DOMAIN waitApplyCh
      /\ \A i \in DOMAIN waitApplyCh' :
           /\ waitApplyCh'[i] \in Seq(issued)
           /\ \A k \in DOMAIN waitApplyCh'[i] : PassedRequest(waitApplyCh'[i][k])
  <2>1. ASSUME NEW i \in DOMAIN waitApplyCh, i # h.index
        PROVE  waitApplyCh'[i] = waitApplyCh[i]
    BY <1>1, <2>1
  <2>2. /\ waitApplyCh'[h.index] = Tail(q) /\ Tail(q) \in Seq(issued)
        /\ \A k \in DOMAIN Tail(q) : k + 1 \in DOMAIN q /\ Tail(q)[k] = q[k + 1]
    BY <1>1, <1>3
  <2>3. DOMAIN waitApplyCh' = DOMAIN waitApplyCh
    BY <1>1
  <2>4. ASSUME NEW i \in DOMAIN waitApplyCh
        PROVE  /\ waitApplyCh'[i] \in Seq(issued)
               /\ \A k \in DOMAIN waitApplyCh'[i] : PassedRequest(waitApplyCh'[i][k])
    <3>1. CASE i = h.index
      BY <1>3, <2>2, <3>1 DEF KvInv, QueueInv
    <3>2. CASE i # h.index
      BY <2>1, <3>2 DEF KvInv, TypeInv, QueueInv
    <3> QED
      BY <3>1, <3>2
  <2> QED
    BY <2>3, <2>4
<1>6. DOMAIN waitApplyCh \subseteq Nat /\ lastRequestId \in [ClientId -> Nat]
  BY DEF KvInv, TypeInv
<1>7. LastIdInv'
  BY <1>1, LogUnchanged
<1> HIDE DEF g, mine
<1> QED
  BY <1>1, <1>2, <1>4, <1>5, <1>6, <1>7, HandlerStep

\* After a timeout, a request that is taken for executed has been passed.
LEMMA TimeOutInv ==
  ASSUME KvInv, NEW h \in handlers, TimeOut(h)
  PROVE  KvInv'
<1>1. PICK isLeader \in BOOLEAN :
        LET done == IfRequestDuplicate(h.req) /\ (h.req.op = "Get" => isLeader) IN
        Update(h, [h EXCEPT !.pc = IF done /\ h.req.op = "Get" THEN "read" ELSE "finish",
                            !.ok = done])
  BY DEF TimeOut
<1> DEFINE done == IfRequestDuplicate(h.req) /\ (h.req.op = "Get" => isLeader)
           g == [h EXCEPT !.pc = IF done /\ h.req.op = "Get" THEN "read" ELSE "finish", !.ok = done]
<1>2. /\ Update(h, g)
      /\ UNCHANGED <<clientId, issued, answered, log, applied, phase, lastRequestId, executed, lastIndex,
                     waitApplyCh>>
  BY <1>1 DEF TimeOut, clientVars, applyVars
<1>3. /\ h \in Handler /\ g \in Handler /\ g.index = h.index
      /\ g.req = h.req /\ g.req \in issued
      /\ g.pc # "wait" /\ (g.ok => done) /\ (g.pc = "read" => done)
      /\ (g.pc = "finish" /\ g.ok => g.req.op # "Get")
  <2>1. done \in BOOLEAN
    OBVIOUS
  <2>2. h \in Handler
    BY DEF KvInv, TypeInv
  <2> HIDE DEF done
  <2> QED
    BY <2>1, <2>2 DEF Handler
<1>4. done /\ Alone(h.req.by) => PassedRequest(h.req)
  BY <1>3, DuplicatePassed
<1>5. /\ DOMAIN waitApplyCh' = DOMAIN waitApplyCh /\ DOMAIN waitApplyCh \subseteq Nat
      /\ lastRequestId \in [ClientId -> Nat]
      /\ \A i \in DOMAIN waitApplyCh' :
           /\ waitApplyCh'[i] \in Seq(issued)
           /\ \A k \in DOMAIN waitApplyCh'[i] : PassedRequest(waitApplyCh'[i][k])
  BY <1>2 DEF KvInv, TypeInv, QueueInv
<1>6. LastIdInv'
  BY <1>2, LogUnchanged
<1> HIDE DEF g, done
<1> QED
  BY <1>2, <1>3, <1>4, <1>5, <1>6, HandlerStep

\* A read happens when its request has been passed, and so have the writes its
\* client had seen answered: they come before it in the log.
LEMMA ExecuteGetInv ==
  ASSUME KvInv, NEW h \in handlers, ExecuteGet(h)
  PROVE  KvInv'
<1> DEFINE g == [h EXCEPT !.pc = "finish", !.reads = Executed]
<1>1. /\ h.pc = "read"
      /\ lastRequestId' = [lastRequestId EXCEPT ![clientId[h.req.by]] = h.req.id]
      /\ Update(h, g)
      /\ UNCHANGED <<clientId, issued, answered, log, applied, phase, executed, lastIndex, waitApplyCh>>
  BY DEF ExecuteGet, clientVars
<1>2. h \in Handler /\ h.req \in issued /\ h.req \in Request
  BY DEF KvInv, TypeInv, Handler
<1>3. Executed \subseteq Client \X Nat
  <2>1. \A i \in DOMAIN executed : executed[i] \in Request
    BY DEF KvInv, TypeInv
  <2> QED
    BY <2>1 DEF Executed, Key, Request
<1>4. /\ g \in Handler /\ g.index = h.index /\ g.req = h.req
      /\ g.pc = "finish" /\ g.reads = Executed
  BY <1>2, <1>3 DEF Handler
<1>5. Alone(h.req.by) => PassedRequest(h.req)
  BY <1>1 DEF KvInv, HandlerInv
<1>7. ASSUME Alone(h.req.by) PROVE {x \in h.req.seen : Alone(x[1])} \subseteq Executed
  <2> SUFFICES ASSUME NEW x \in h.req.seen, Alone(x[1]) PROVE x \in Executed
    OBVIOUS
  <2>1. PICK i \in DOMAIN log : Passed(i) /\ log[i] = h.req
    BY <1>5, <1>7 DEF PassedRequest
  <2>2. PICK j \in 1 .. i - 1 : log[j].op = "Put" /\ Key(log[j]) = x
    BY <2>1 DEF KvInv, OrderInv
  <2>3. PassedRequest(log[j])
    BY <2>1, PassedBefore DEF KvInv, PassedRequest
  <2>4. Alone(log[j].by)
    BY <2>2 DEF Key
  <2> QED
    BY <2>2, <2>3, <2>4, PassedExecuted
<1>8. /\ clientId \in Uuid /\ lastRequestId \in [ClientId -> Nat]
      /\ lastRequestId' \in [ClientId -> Nat]
  BY <1>1, <1>2 DEF KvInv, TypeInv, Uuid, Request
<1>9. LastIdInv'
  <2> SUFFICES ASSUME NEW c \in Client, Alone(c), lastRequestId'[clientId[c]] # 0
               PROVE  \E k \in DOMAIN log : /\ Passed(k) /\ log[k].by = c
                                             /\ log[k].id = lastRequestId'[clientId[c]]
    BY <1>1, AloneStays DEF LastIdInv, Passed
  <2>0. clientId[c] \in ClientId /\ clientId[h.req.by] \in ClientId
    BY <1>2, <1>8 DEF Uuid, Request
  <2>1. CASE c = h.req.by
    <3>1. lastRequestId'[clientId[c]] = h.req.id
      BY <1>1, <1>8, <2>0, <2>1
    <3> QED
      BY <1>5, <2>1, <3>1 DEF PassedRequest
  <2>2. CASE c # h.req.by
    <3>1. lastRequestId'[clientId[c]] = lastRequestId[clientId[c]]
      BY <1>1, <1>2, <1>8, <2>0, <2>2 DEF Alone, Request
    <3> QED
      BY <3>1 DEF KvInv, LastIdInv
  <2> QED
    BY <2>1, <2>2
<1>10. /\ DOMAIN waitApplyCh' = DOMAIN waitApplyCh /\ DOMAIN waitApplyCh \subseteq Nat
       /\ \A k \in DOMAIN waitApplyCh' :
            /\ waitApplyCh'[k] \in Seq(issued)
            /\ \A l \in DOMAIN waitApplyCh'[k] : PassedRequest(waitApplyCh'[k][l])
  BY <1>1 DEF KvInv, TypeInv, QueueInv
<1> HIDE DEF g
<1> QED
  BY <1>1, <1>4, <1>5, <1>7, <1>8, <1>9, <1>10, HandlerStep

\* The reply: a good answer is to a request in the log.
LEMMA FinishInv ==
  ASSUME KvInv, NEW h \in handlers, Finish(h)
  PROVE  KvInv'
<1>1. /\ h.pc = "finish"
      /\ handlers' = handlers \ {h}
      /\ waitApplyCh' = [i \in DOMAIN waitApplyCh \ {h.index} |-> waitApplyCh[i]]
      /\ answered' = answered \/ (h.ok /\ answered' = answered \cup {h.req})
      /\ UNCHANGED <<clientId, issued, log, applied, phase, lastRequestId, executed, lastIndex>>
  BY DEF Finish, applyVars
<1>2. h.req \in issued
  BY DEF KvInv, TypeInv, Handler
<1>3. h.ok /\ Alone(h.req.by) => \E i \in DOMAIN log : log[i] = h.req
  BY <1>1 DEF KvInv, HandlerInv, PassedRequest
<1>4. TypeInv'
  BY <1>1, <1>2 DEF KvInv, TypeInv, Handler
<1>5. IdsInv' /\ SeenInv' /\ OrderInv'
  <2>1. /\ answered' \subseteq issued
        /\ \A r \in answered' : Alone(r.by) => \E i \in DOMAIN log : log[i] = r
    BY <1>1, <1>2, <1>3 DEF KvInv, TypeInv, OrderInv
  <2> QED
    BY <1>1, <2>1, AnswersInLog
<1>6. \A r : PassedRequest(r) => PassedRequest(r)'
  BY <1>1, LogUnchanged
<1>7. QueueInv'
  BY <1>1, <1>6 DEF KvInv, QueueInv
<1>8. HandlerInv'
  BY <1>1, <1>6, AloneStays DEF KvInv, HandlerInv
<1> QED
  BY <1>1, <1>4, <1>5, <1>7, <1>8, LogUnchanged DEF KvInv

LEMMA StutterInv == KvInv /\ UNCHANGED vars => KvInv'
<1> SUFFICES ASSUME KvInv, UNCHANGED vars PROVE KvInv'
  OBVIOUS
<1>1. UNCHANGED <<clientId, issued, answered, log, applied, phase, lastRequestId, executed, waitApplyCh,
                  lastIndex, handlers>>
  BY DEF vars, clientVars, applyVars
<1>2. TypeInv'
  BY <1>1 DEF KvInv, TypeInv, Handler
<1>3. IdsInv' /\ SeenInv' /\ OrderInv'
  BY <1>1, RequestsStay
<1>4. QueueInv' /\ HandlerInv'
  BY <1>1, LogUnchanged, AloneStays DEF KvInv, QueueInv, HandlerInv
<1> QED
  BY <1>1, <1>2, <1>3, <1>4, LogUnchanged DEF KvInv

LEMMA NextInv == KvInv /\ [Next]_vars => KvInv'
<1> SUFFICES ASSUME KvInv, [Next]_vars PROVE KvInv'
  OBVIOUS
<1>1. ASSUME NEW c \in Client, NEW op \in {"Get", "Put"}, Issue(c, op) PROVE KvInv'
  BY <1>1, IssueInv
<1>2. ASSUME NEW r \in issued, Commit(r) PROVE KvInv'
  BY <1>2, CommitInv
<1>3. ASSUME NEW r \in issued, AnsweredElsewhere(r) PROVE KvInv'
  BY <1>3, AnsweredElsewhereInv
<1>4. CASE PopCommand
  BY <1>4, PopCommandInv
<1>5. CASE ExecutePut
  BY <1>5, ExecutePutInv
<1>6. CASE SendMessageToWaitChan
  BY <1>6, SendMessageToWaitChanInv
<1>7. ASSUME NEW r \in issued, NEW index \in 1 .. MaxLog, StartRequest(r, index) PROVE KvInv'
  BY <1>7, StartRequestInv
<1>8. ASSUME NEW h \in handlers, Register(h) PROVE KvInv'
  BY <1>8, RegisterInv
<1>9. ASSUME NEW h \in handlers, Pop(h) PROVE KvInv'
  BY <1>9, PopInv
<1>10. ASSUME NEW h \in handlers, TimeOut(h) PROVE KvInv'
  BY <1>10, TimeOutInv
<1>11. ASSUME NEW h \in handlers, ExecuteGet(h) PROVE KvInv'
  BY <1>11, ExecuteGetInv
<1>12. ASSUME NEW h \in handlers, Finish(h) PROVE KvInv'
  BY <1>12, FinishInv
<1>13. CASE UNCHANGED vars
  BY <1>13, StutterInv
<1> QED
  BY <1>1, <1>2, <1>3, <1>4, <1>5, <1>6, <1>7, <1>8, <1>9, <1>10, <1>11, <1>12, <1>13 DEF Next

\* The inductive invariant: the requests, the log, the apply loop, the queues and
\* the handlers stay consistent, whatever is retried, late or timed out.
THEOREM KvInvHolds == Spec => []KvInv
  BY InitInv, NextInv, PTL DEF Spec

-----------------------------------------------------------------------------
(* What the invariant is for *)

\* Duplicate detection (ifRequestDuplicate) never drops a write that has not been
\* executed, of a client whose id nobody else has, although RPC threads set
\* m_lastRequestId as well.
THEOREM NoWriteIsSkipped == Spec => []NoWriteSkipped
<1>1. KvInv => NoWriteSkipped
  BY DEF KvInv
<1> QED
  BY <1>1, KvInvHolds, PTL

\* A write that a handler of PutAppend reports as done to a client whose id nobody
\* else has, has been executed.
THEOREM AnsweredPutsExecuted == Spec => []AnsweredPutExecuted
<1>1. KvInv => AnsweredPutExecuted
  BY PassedExecuted DEF KvInv, HandlerInv, AnsweredPutExecuted
<1> QED
  BY <1>1, KvInvHolds, PTL

\* A read that a handler of Get answers has seen every write that was answered
\* before the read was issued, reader and writer being clients whose id nobody
\* else has.
THEOREM ReadsAreFresh == Spec => []ReadsFresh
<1>1. KvInv => ReadsFresh
  BY DEF KvInv, HandlerInv, ReadsFresh
<1> QED
  BY <1>1, KvInvHolds, PTL
=============================================================================
