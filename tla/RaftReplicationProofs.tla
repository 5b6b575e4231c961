------------------------ MODULE RaftReplicationProofs ------------------------
(***************************************************************************)
(* Replication in module Raft for every cluster and every bound, in the    *)
(* upstream version of the source and where no snapshots are taken: the    *)
(* indices a leader keeps of its followers stay inside its log and true of *)
(* theirs, and no assertion ever fails.  Then commits: what the counter of *)
(* a heartbeat round counts, and that a commit is backed.                  *)
(***************************************************************************)
EXTENDS RaftEntryProofs

PlainInv == TypeInv /\ VoteInv /\ SendersInv /\ NoSnapshotsInv

-----------------------------------------------------------------------------
(* What a step does to calls, indices and leaders *)

LEMMA PlainType ==
  ASSUME PlainInv
  PROVE  /\ currentTerm \in [Server -> Nat] /\ status \in [Server -> {Follower, Candidate, Leader}]
         /\ logs \in [Server -> Seq(Entry)]
         /\ nextIndex \in [Server -> [Server -> Nat]] /\ matchIndex \in [Server -> [Server -> Nat]]
         /\ appendNums \in [Server -> Seq(Nat)]
         /\ appendReqs \subseteq AppendReq /\ appendReps \subseteq AppendRep
         /\ voteReps \subseteq VoteRep
         /\ \A q \in Server : /\ snapshot[q] = <<>> /\ Base(q) = 0 /\ Log(q) = logs[q]
                              /\ Len(logs[q]) \in Nat /\ LastLogIndex(q) = Len(logs[q])
<1>1. /\ currentTerm \in [Server -> Nat] /\ status \in [Server -> {Follower, Candidate, Leader}]
      /\ logs \in [Server -> Seq(Entry)]
      /\ nextIndex \in [Server -> [Server -> Nat]] /\ matchIndex \in [Server -> [Server -> Nat]]
      /\ appendNums \in [Server -> Seq(Nat)]
      /\ appendReqs \subseteq AppendReq /\ appendReps \subseteq AppendRep
      /\ voteReps \subseteq VoteRep
  BY DEF PlainInv, TypeInv, TypeOK, NodeType, LogType, LeadType, CallType, VoteType
<1>2. ASSUME NEW q \in Server
      PROVE  /\ snapshot[q] = <<>> /\ Base(q) = 0 /\ Log(q) = logs[q]
             /\ Len(logs[q]) \in Nat /\ LastLogIndex(q) = Len(logs[q])
  <2>1. snapshot[q] = <<>> /\ logs[q] \in Seq(Entry)
    BY <1>1 DEF PlainInv, NoSnapshotsInv
  <2>2. Len(snapshot[q]) = 0 /\ Len(logs[q]) \in Nat /\ <<>> \o logs[q] = logs[q]
    BY <2>1, EmptySeq, LenProperties, ConcatEmptySeq
  <2> QED
    BY <2>1, <2>2 DEF Base, Log, LastLogIndex, GetLastLogIndex
<1> QED
  BY <1>1, <1>2

\* The requests and replies of a step, other than those there were.
NewReq(m) == \E s \in Server : DoHeartBeat(s) /\ \E p \in Peers(s) : m = AppendArgs(s, p)
NewRefusal(r) ==
  \E m \in appendReqs :
    /\ StaleTerm(m.to, m)
    /\ r = AppendReply(m.to, m, currentTerm[m.to], FALSE, NoUpdate)
NewReply(r) ==
  \E m \in appendReqs :
    /\ HandleAppendEntries(m)
    /\ Matches(m.to, m) => Merges(m.to, m)
    /\ r = AppendReply(m.to, m, m.term, Matches(m.to, m),
                       CASE TooNew(m.to, m) -> LastLogIndex(m.to) + 1
                         [] Matches(m.to, m) -> 0
                         [] OTHER -> BackOff(snapshot[m.to], logs[m.to], m.prev))

\* What a victory makes of a leader's indices.
Reset(q) == /\ status[q] # Leader
            /\ nextIndex'[q] = [p \in Server |-> LastLogIndex(q) + 1]
            /\ matchIndex'[q] = [p \in Server |-> 0]
            /\ appendNums'[q] = <<>>
            /\ logs'[q] = logs[q]

ReqsStep == \A m \in appendReqs' : m \in appendReqs \/ NewReq(m)
RepsStep == \A r \in appendReps' : r \in appendReps \/ NewRefusal(r) \/ NewReply(r)
IndexStep ==
  \A q \in Server :
    \/ nextIndex'[q] = nextIndex[q] /\ matchIndex'[q] = matchIndex[q]
    \/ \E r \in appendReps : r.to = q /\ (HandleAppendRefusal(r) \/ HandleAppendSuccess(r))
    \/ Reset(q)
LogStep ==
  \A q \in Server :
    \/ logs'[q] = logs[q]
    \/ status[q] = Leader
    \/ \E m \in appendReqs : m.to = q /\ HandleAppendEntries(m)

CountStep ==
  \A q \in Server :
    \/ appendNums'[q] = appendNums[q]
    \/ DoHeartBeat(q)
    \/ \E r \in appendReps : r.to = q /\ HandleAppendSuccess(r)
    \/ Reset(q)

CallsStep == ReqsStep /\ RepsStep /\ IndexStep /\ LogStep /\ CountStep

LEMMA NextCalls ==
  ASSUME Snapshots = FALSE, PlainInv, [Next]_vars
  PROVE  CallsStep
<1> USE DEF callVars, leadVars, logVars
<1>1. /\ nextIndex \in [Server -> [Server -> Nat]] /\ matchIndex \in [Server -> [Server -> Nat]]
      /\ logs \in [Server -> Seq(Entry)] /\ appendReqs \subseteq AppendReq
      /\ appendReps \subseteq AppendRep /\ voteReps \subseteq VoteRep
      /\ appendNums \in [Server -> Seq(Nat)]
  BY PlainType
<1>2. ASSUME appendReqs' \subseteq appendReqs, appendReps' \subseteq appendReps,
             UNCHANGED <<nextIndex, matchIndex, appendNums, logs>>
      PROVE  CallsStep
  BY <1>2 DEF CallsStep, ReqsStep, RepsStep, IndexStep, LogStep, CountStep
<1>3. ASSUME NEW s \in Server, DoHeartBeat(s) PROVE CallsStep
  <2>1. ReqsStep
    BY <1>3 DEF ReqsStep, DoHeartBeat, NewReq
  <2>2. /\ UNCHANGED <<nextIndex, matchIndex, logs, appendReps>>
        /\ \A q \in Server : q # s => appendNums'[q] = appendNums[q]
    BY <1>1, <1>3 DEF DoHeartBeat
  <2> QED
    BY <1>3, <2>1, <2>2 DEF CallsStep, RepsStep, IndexStep, LogStep, CountStep
<1>4. ASSUME NEW m \in appendReqs, RejectStaleAppend(m) PROVE CallsStep
  <2>1. RepsStep
    BY <1>4 DEF RepsStep, RejectStaleAppend, NewRefusal
  <2>2. appendReqs' \subseteq appendReqs /\ UNCHANGED <<nextIndex, matchIndex, appendNums, logs>>
    BY <1>4 DEF RejectStaleAppend
  <2> QED
    BY <2>1, <2>2 DEF CallsStep, ReqsStep, IndexStep, LogStep, CountStep
<1>5. ASSUME NEW m \in appendReqs, HandleAppendEntries(m) PROVE CallsStep
  <2>1. RepsStep
    BY <1>5 DEF RepsStep, HandleAppendEntries, NewReply
  <2>2. /\ appendReqs' \subseteq appendReqs /\ UNCHANGED <<nextIndex, matchIndex, appendNums>>
        /\ \A q \in Server : q # m.to => logs'[q] = logs[q]
    BY <1>1, <1>5 DEF HandleAppendEntries
  <2>3. LogStep
    BY <1>5, <2>2 DEF LogStep
  <2> QED
    BY <2>1, <2>2, <2>3 DEF CallsStep, ReqsStep, IndexStep, CountStep
<1>6. ASSUME NEW r \in appendReps, HandleAppendRefusal(r) PROVE CallsStep
  <2>1. /\ appendReqs' = appendReqs /\ appendReps' \subseteq appendReps /\ logs' = logs
        /\ UNCHANGED <<matchIndex, appendNums>>
        /\ \A q \in Server : q # r.to => nextIndex'[q] = nextIndex[q]
    BY <1>1, <1>6 DEF HandleAppendRefusal
  <2> QED
    BY <1>6, <2>1 DEF CallsStep, ReqsStep, RepsStep, IndexStep, LogStep, CountStep
<1>7. ASSUME NEW r \in appendReps, HandleAppendSuccess(r) PROVE CallsStep
  <2>1. /\ appendReqs' = appendReqs /\ appendReps' \subseteq appendReps /\ logs' = logs
        /\ \A q \in Server : q # r.to => /\ nextIndex'[q] = nextIndex[q]
                                         /\ matchIndex'[q] = matchIndex[q]
                                         /\ appendNums'[q] = appendNums[q]
    BY <1>1, <1>7 DEF HandleAppendSuccess
  <2> QED
    BY <1>7, <2>1 DEF CallsStep, ReqsStep, RepsStep, IndexStep, LogStep, CountStep
<1>8. ASSUME NEW m \in voteReps, HandleRequestVoteReply(m) PROVE CallsStep
  <2>1. UNCHANGED <<appendReqs, appendReps, logs>>
    BY <1>8 DEF HandleRequestVoteReply
  <2> DEFINE wins == /\ m.term = currentTerm[m.to] /\ m.granted
                     /\ votedNum[m.to] + 1 >= Majority
  <2>2. /\ nextIndex' = [nextIndex EXCEPT ![m.to] =
             IF wins THEN [p \in Server |-> LastLogIndex(m.to) + 1] ELSE @]
        /\ matchIndex' = [matchIndex EXCEPT ![m.to] = IF wins THEN [p \in Server |-> 0] ELSE @]
        /\ appendNums' = [appendNums EXCEPT ![m.to] = IF wins THEN <<>> ELSE @]
    BY <1>8 DEF HandleRequestVoteReply
  <2>3. wins => status[m.to] # Leader
    <3>1. m.to \in Server /\ votedNum[m.to] \in Nat /\ Majority \in Nat
      BY <1>1, MajorityType DEF PlainInv, TypeInv, TypeOK, VoteType, VoteRep
    <3>2. wins => ~(votedNum[m.to] + 1 < Majority)
      BY <3>1
    <3>3. wins => <<currentTerm[m.to], m.to>> \notin elected
      BY <3>2, VotesLeft DEF PlainInv
    <3> QED
      BY <3>1, <3>3 DEF PlainInv, VoteInv, ElectedInv
  <2> HIDE DEF wins
  <2>4. ASSUME NEW q \in Server
        PROVE  \/ /\ nextIndex'[q] = nextIndex[q] /\ matchIndex'[q] = matchIndex[q]
                  /\ appendNums'[q] = appendNums[q]
               \/ Reset(q)
    <3>1. CASE q = m.to /\ wins
      <4>1. /\ nextIndex'[q] = [p \in Server |-> LastLogIndex(q) + 1]
            /\ matchIndex'[q] = [p \in Server |-> 0] /\ appendNums'[q] = <<>>
        BY <1>1, <2>2, <3>1
      <4> QED
        BY <2>1, <2>3, <3>1, <4>1 DEF Reset
    <3>2. CASE ~(q = m.to /\ wins)
      BY <1>1, <2>2, <3>2
    <3> QED
      BY <3>1, <3>2
  <2> QED
    BY <2>1, <2>4 DEF CallsStep, ReqsStep, RepsStep, IndexStep, LogStep, CountStep
<1>9. ASSUME NEW s \in Server, NEW v \in Value, Start(s, v) PROVE CallsStep
  <2>1. /\ UNCHANGED <<appendReqs, appendReps, nextIndex, matchIndex, appendNums>>
        /\ status[s] = Leader
        /\ \A q \in Server : q # s => logs'[q] = logs[q]
    BY <1>1, <1>9 DEF Start
  <2> QED
    BY <2>1 DEF CallsStep, ReqsStep, RepsStep, IndexStep, LogStep, CountStep
<1>10. ASSUME NEW s \in Server, DoElection(s) PROVE CallsStep
  BY <1>2, <1>10 DEF DoElection
<1>11. ASSUME NEW m \in voteReqs, HandleRequestVote(m) PROVE CallsStep
  BY <1>2, <1>11 DEF HandleRequestVote
<1>12. ASSUME NEW s \in Server, ApplierTick(s) PROVE CallsStep
  BY <1>2, <1>12 DEF ApplierTick
<1>13. ASSUME NEW s \in Server, NEW index, Snapshot(s, index) PROVE FALSE
  BY <1>13 DEF Snapshot
<1>14. ASSUME NEW s \in Server, NEW p \in Server, SendSnapShot(s, p) PROVE CallsStep
  BY <1>2, <1>14 DEF SendSnapShot
<1>15. snapReqs = {} /\ snapReps = {}
  BY DEF PlainInv, NoSnapshotsInv
<1>16. CASE LoseCall
  <2>1. /\ appendReqs' \subseteq appendReqs /\ appendReps' \subseteq appendReps
        /\ UNCHANGED <<nextIndex, matchIndex, appendNums, logs>>
    BY <1>16 DEF LoseCall
  <2> QED
    BY <1>2, <2>1
<1>17. CASE UNCHANGED vars
  BY <1>2, <1>17 DEF vars
<1> QED
  BY <1>3, <1>4, <1>5, <1>6, <1>7, <1>8, <1>9, <1>10, <1>11, <1>12, <1>13, <1>14, <1>15,
     <1>16, <1>17 DEF Next

\* A leader has led its term since before the step, and its log has kept its
\* entries, or it has just been elected, for the first time in this term.
Leads(q) ==
  /\ status[q] = Leader /\ currentTerm'[q] = currentTerm[q]
  /\ Len(logs[q]) <= Len(logs'[q]) /\ Len(logs'[q]) \in Nat
  /\ \A k \in 1 .. Len(logs[q]) : logs'[q][k] = logs[q][k]

FirstVictory(q) == <<currentTerm'[q], q>> \notin elected /\ Reset(q)

\* A handler after which a server leads only if it did before, in the same term.
LEMMA FollowStays ==
  ASSUME PlainInv, NEW s \in Server, NEW term \in Nat, Observe(s, term),
         \/ status' = [status EXCEPT ![s] = Follower]
         \/ status' = [status EXCEPT ![s] = IF term > currentTerm[s] THEN Follower ELSE @],
         NEW q \in Server, status'[q] = Leader
  PROVE  status[q] = Leader /\ currentTerm'[q] = currentTerm[q]
<1>1. currentTerm \in [Server -> Nat] /\ status \in [Server -> {Follower, Candidate, Leader}]
  BY PlainType
<1>2. CASE q = s
  BY <1>1, <1>2 DEF Observe, MaxOf, Follower, Leader
<1>3. CASE q # s
  BY <1>1, <1>3 DEF Observe, MaxOf
<1> QED
  BY <1>2, <1>3

LEMMA NextStays ==
  ASSUME Snapshots = FALSE, PlainInv, [Next]_vars, NEW q \in Server, status'[q] = Leader
  PROVE  Leads(q) \/ FirstVictory(q)
<1> USE DEF nodeVars, voteVars
<1> DEFINE Led == status[q] = Leader /\ currentTerm'[q] = currentTerm[q]
<1>1. /\ currentTerm \in [Server -> Nat] /\ status \in [Server -> {Follower, Candidate, Leader}]
      /\ appendReqs \subseteq AppendReq /\ appendReps \subseteq AppendRep /\ voteReps \subseteq VoteRep
      /\ nextIndex \in [Server -> [Server -> Nat]] /\ matchIndex \in [Server -> [Server -> Nat]]
      /\ voteReqs \subseteq VoteReq /\ logs \in [Server -> Seq(Entry)]
      /\ appendNums \in [Server -> Seq(Nat)]
  BY PlainType DEF PlainInv, TypeInv, TypeOK, VoteType
<1>2. ASSUME UNCHANGED <<currentTerm, status>> PROVE Led
  BY <1>2
<1>3. ASSUME NEW s \in Server, DoElection(s) PROVE Led
  <2>1. /\ status' = [status EXCEPT ![s] = Candidate]
        /\ currentTerm' = [currentTerm EXCEPT ![s] = @ + 1]
    BY <1>3 DEF DoElection
  <2>2. q # s
    BY <1>1, <2>1 DEF Candidate, Leader
  <2> QED
    BY <1>1, <2>1, <2>2
<1>4. ASSUME NEW m \in voteReqs, HandleRequestVote(m) PROVE Led
  <2>1. /\ currentTerm' = [currentTerm EXCEPT ![m.to] = MaxOf(@, m.term)]
        /\ status' = [status EXCEPT ![m.to] = IF m.term > currentTerm[m.to] THEN Follower ELSE @]
    BY <1>4 DEF HandleRequestVote
  <2>2. m.to \in Server /\ m.term \in Nat
    BY <1>1 DEF VoteReq
  <2>3. CASE q = m.to
    BY <1>1, <2>1, <2>2, <2>3 DEF MaxOf, Follower, Leader
  <2>4. CASE q # m.to
    BY <1>1, <2>1, <2>2, <2>4
  <2> QED
    BY <2>3, <2>4
<1>5. ASSUME NEW m \in voteReps, HandleRequestVoteReply(m) PROVE Led \/ FirstVictory(q)
  <2> DEFINE s == m.to
             wins == m.term = currentTerm[s] /\ m.granted /\ votedNum[s] + 1 >= Majority
  <2>1. s \in Server /\ m.term \in Nat
    BY <1>1 DEF VoteRep
  <2>2. /\ currentTerm' = [currentTerm EXCEPT ![s] = MaxOf(@, m.term)]
        /\ status' = [status EXCEPT ![s] = CASE m.term > currentTerm[s] -> Follower
                                            [] wins -> Leader
                                            [] OTHER -> @]
        /\ nextIndex' = [nextIndex EXCEPT ![s] =
             IF wins THEN [p \in Server |-> LastLogIndex(s) + 1] ELSE @]
        /\ matchIndex' = [matchIndex EXCEPT ![s] = IF wins THEN [p \in Server |-> 0] ELSE @]
        /\ appendNums' = [appendNums EXCEPT ![s] = IF wins THEN <<>> ELSE @]
        /\ logs' = logs
    BY <1>5 DEF HandleRequestVoteReply, Observe, logVars
  <2>3. votedNum[s] \in Nat /\ Majority \in Nat
    BY <2>1, MajorityType DEF PlainInv, TypeInv, TypeOK, VoteType
  <2>4. wins => <<currentTerm[s], s>> \notin elected
    <3>1. wins => ~(votedNum[s] + 1 < Majority)
      BY <2>3
    <3> QED
      BY <3>1, VotesLeft DEF PlainInv
  <2>5. wins => ~(m.term > currentTerm[s])
    BY <1>1, <2>1
  <2> HIDE DEF wins
  <2>6. CASE q = s /\ wins
    <3>1. currentTerm'[q] = currentTerm[q]
      BY <1>1, <2>1, <2>2, <2>5, <2>6 DEF MaxOf
    <3>2. /\ nextIndex'[q] = [p \in Server |-> LastLogIndex(q) + 1]
          /\ matchIndex'[q] = [p \in Server |-> 0] /\ appendNums'[q] = <<>>
      BY <1>1, <2>2, <2>6
    <3>3. status[q] # Leader
      BY <2>4, <2>6 DEF PlainInv, VoteInv, ElectedInv
    <3> QED
      BY <2>2, <2>4, <2>6, <3>1, <3>2, <3>3 DEF FirstVictory, Reset
  <2>7. CASE ~(q = s /\ wins)
    BY <1>1, <2>1, <2>2, <2>7 DEF MaxOf, Follower, Leader
  <2> QED
    BY <2>6, <2>7
<1>6. ASSUME NEW m \in appendReqs, HandleAppendEntries(m) PROVE Led
  <2>1. /\ m.to \in Server /\ m.term \in Nat /\ Observe(m.to, m.term)
        /\ status' = [status EXCEPT ![m.to] = Follower]
    BY <1>1, <1>6 DEF AppendReq, HandleAppendEntries
  <2> QED
    BY <2>1, FollowStays
<1>7. ASSUME NEW r \in appendReps, HandleAppendRefusal(r) \/ HandleAppendSuccess(r) PROVE Led
  <2>1. /\ r.to \in Server /\ r.term \in Nat /\ Observe(r.to, r.term)
        /\ status' = [status EXCEPT ![r.to] = IF r.term > currentTerm[r.to] THEN Follower ELSE @]
    BY <1>1, <1>7 DEF AppendRep, HandleAppendRefusal, HandleAppendSuccess
  <2> QED
    BY <2>1, FollowStays
<1>8. ASSUME NEW s \in Server, NEW v \in Value, Start(s, v) PROVE Led
  BY <1>2, <1>8 DEF Start
<1>9. ASSUME NEW s \in Server, DoHeartBeat(s) PROVE Led
  BY <1>2, <1>9 DEF DoHeartBeat
<1>10. ASSUME NEW m \in appendReqs, RejectStaleAppend(m) PROVE Led
  BY <1>2, <1>10 DEF RejectStaleAppend
<1>11. ASSUME NEW s \in Server, ApplierTick(s) PROVE Led
  BY <1>2, <1>11 DEF ApplierTick
<1>12. ASSUME NEW s \in Server, NEW index, Snapshot(s, index) PROVE FALSE
  BY <1>12 DEF Snapshot
<1>13. ASSUME NEW s \in Server, NEW p \in Server, SendSnapShot(s, p) PROVE Led
  BY <1>2, <1>13 DEF SendSnapShot
<1>14. snapReqs = {} /\ snapReps = {}
  BY DEF PlainInv, NoSnapshotsInv
<1>15. LoseCall \/ UNCHANGED vars => Led
  BY <1>2 DEF LoseCall, vars
<1>16. Led \/ FirstVictory(q)
  <2> HIDE DEF Led
  <2> QED
    BY <1>3, <1>4, <1>5, <1>6, <1>7, <1>8, <1>9, <1>10, <1>11, <1>12, <1>13, <1>14, <1>15 DEF Next
<1>17. Led => Leads(q)
  <2> SUFFICES ASSUME Led PROVE Leads(q)
    OBVIOUS
  <2>1. logs'[q] = logs[q] \/ \E e \in Entry : logs'[q] = Append(logs[q], e)
    BY NextLeads DEF PlainInv, LeadsOn
  <2>2. logs[q] \in Seq(Entry)
    BY <1>1
  <2>3. /\ Len(logs[q]) <= Len(logs'[q]) /\ Len(logs'[q]) \in Nat
        /\ \A k \in 1 .. Len(logs[q]) : logs'[q][k] = logs[q][k]
    BY <2>1, <2>2, AppendKeepsEach
  <2> QED
    BY <2>3 DEF Leads
<1> QED
  BY <1>16, <1>17
-----------------------------------------------------------------------------
(* ReachInv is inductive *)

\* A server that leads a term in which it was elected before led it already.
LEMMA LeadsBefore ==
  ASSUME Snapshots = FALSE, PlainInv, [Next]_vars,
         NEW q \in Server, NEW t, <<t, q>> \in elected, status'[q] = Leader, currentTerm'[q] = t
  PROVE  Leads(q) /\ LeadsIn(q, t)
<1>1. Leads(q) \/ FirstVictory(q)
  BY NextStays
<1>2. Leads(q)
  BY <1>1 DEF FirstVictory
<1> QED
  BY <1>2 DEF Leads, LeadsIn

LEMMA ElectedGrows ==
  ASSUME [Next]_vars
  PROVE  elected \subseteq elected'
  BY DEF Next, vars, voteVars, DoElection, HandleRequestVote, HandleRequestVoteReply, Start,
     DoHeartBeat, RejectStaleAppend, HandleAppendEntries, HandleAppendRefusal,
     HandleAppendSuccess, ApplierTick, Snapshot, SendSnapShot, HandleInstallSnapshot,
     HandleInstallSnapshotReply, LoseCall

LEMMA LastIndexNext ==
  ASSUME Snapshots = FALSE, PlainInv, [Next]_vars, NEW q \in Server
  PROVE  LastLogIndex(q)' = Len(logs'[q]) /\ Log(q)' = logs'[q] /\ logs'[q] \in Seq(Entry)
<1>1. snapshot'[q] = <<>> /\ logs'[q] \in Seq(Entry)
  BY NextNoSnapshots, NextType DEF PlainInv, NoSnapshotsInv, TypeInv, TypeOK, LogType
<1>2. Len(snapshot'[q]) = 0 /\ Len(logs'[q]) \in Nat /\ <<>> \o logs'[q] = logs'[q]
  BY <1>1, EmptySeq, LenProperties, ConcatEmptySeq
<1> QED
  BY <1>1, <1>2 DEF Log, LastLogIndex, GetLastLogIndex

\* What a leader sends ends where its log ends, and starts at the empty prefix
\* with term 0.
LEMMA SentReach ==
  ASSUME PlainInv, NEW s \in Server, NEW p \in Server,
         nextIndex[s][p] \in 1 .. LastLogIndex(s) + 1
  PROVE  LET m == AppendArgs(s, p) IN
         /\ m.from = s /\ m.term = currentTerm[s] /\ m.prev \in Nat
         /\ m.prev + Len(m.entries) = Len(logs[s])
         /\ m.prev = 0 => m.prevTerm = 0
         /\ m.prev > 0 => m.prev \in 1 .. Len(logs[s]) /\ m.prevTerm = logs[s][m.prev].term
         /\ \A k \in 1 .. Len(m.entries) : /\ m.prev + k \in 1 .. Len(logs[s])
                                           /\ m.entries[k] = logs[s][m.prev + k]
<1> DEFINE m == AppendArgs(s, p)
           log == logs[s]
           prev == nextIndex[s][p] - 1
<1>1. /\ log \in Seq(Entry) /\ Len(log) \in Nat /\ LastLogIndex(s) = Len(log)
      /\ snapshot[s] = <<>> /\ Base(s) = 0 /\ nextIndex[s][p] \in Nat
  BY PlainType
<1>2. prev \in 0 .. Len(log) /\ prev \in Nat /\ prev - 0 = prev
  BY <1>1
<1> HIDE DEF prev
<1>3. /\ m.from = s /\ m.term = currentTerm[s] /\ m.prev = prev
      /\ m.prevTerm = GetLogTermFromLogIndex(<<>>, log, prev)
      /\ m.entries = SubSeq(log, prev + 1, Len(log))
  BY <1>1, <1>2 DEF AppendArgs, prev
<1>4. Len(<<>>) = 0 /\ LastTermOf(<<>>) = 0
  BY EmptySeq DEF LastTermOf
<1>5. /\ prev = 0 => m.prevTerm = 0
      /\ prev > 0 => prev \in 1 .. Len(log) /\ m.prevTerm = log[prev].term
  BY <1>1, <1>2, <1>3, <1>4 DEF GetLogTermFromLogIndex
<1>6. /\ Len(m.entries) = IF prev < Len(log) THEN Len(log) - prev ELSE 0
      /\ \A k \in 1 .. Len(m.entries) : prev + k \in 1 .. Len(log) /\ m.entries[k] = log[prev + k]
  <2>1. Len(SubSeq(log, prev + 1, Len(log))) = IF prev < Len(log) THEN Len(log) - prev ELSE 0
    BY <1>1, <1>2, SuffixType
  <2>2. \A k \in 1 .. Len(SubSeq(log, prev + 1, Len(log))) :
          prev + k \in 1 .. Len(log) /\ SubSeq(log, prev + 1, Len(log))[k] = log[prev + k]
    BY <1>1, <1>2, SuffixAt
  <2> QED
    BY <1>3, <2>1, <2>2
<1>7. prev + Len(m.entries) = Len(log)
  BY <1>1, <1>2, <1>6
<1> QED
  BY <1>2, <1>3, <1>5, <1>6, <1>7

LEMMA NextReqsReach ==
  ASSUME Snapshots = FALSE, PlainInv, ReachInv, [Next]_vars, NEW m \in appendReqs'
  PROVE  /\ m.prev = 0 => m.prevTerm = 0
         /\ LeadsIn(m.from, m.term)' => m.prev + Len(m.entries) <= LastLogIndex(m.from)'
<1>1. CASE m \in appendReqs
  <2>1. /\ m.from \in Server /\ <<m.term, m.from>> \in elected /\ m.prev \in Nat /\ Len(m.entries) \in Nat
    BY <1>1, PlainType, LenProperties DEF PlainInv, SendersInv, AppendReq
  <2>2. ASSUME LeadsIn(m.from, m.term)'
        PROVE  m.prev + Len(m.entries) <= LastLogIndex(m.from)'
    <3>1. Leads(m.from) /\ LeadsIn(m.from, m.term)
      BY <2>1, <2>2, LeadsBefore DEF LeadsIn
    <3>2. m.prev + Len(m.entries) <= Len(logs[m.from])
      BY <1>1, <2>1, <3>1, PlainType DEF ReachInv
    <3>3. LastLogIndex(m.from)' = Len(logs'[m.from])
      BY <2>1, LastIndexNext
    <3>4. /\ Len(logs[m.from]) <= Len(logs'[m.from])
          /\ Len(logs[m.from]) \in Nat /\ Len(logs'[m.from]) \in Nat
      BY <2>1, <3>1, PlainType DEF Leads
    <3> QED
      BY <2>1, <3>2, <3>3, <3>4
  <2> QED
    BY <1>1, <2>2 DEF ReachInv
<1>2. ASSUME NEW s \in Server, NEW p \in Peers(s), DoHeartBeat(s), m = AppendArgs(s, p)
      PROVE  /\ m.prev = 0 => m.prevTerm = 0
             /\ LeadsIn(m.from, m.term)' => m.prev + Len(m.entries) <= LastLogIndex(m.from)'
  <2>1. p \in Server /\ status[s] = Leader /\ logs' = logs
    BY <1>2 DEF DoHeartBeat, Peers, logVars
  <2>2. nextIndex[s][p] \in 1 .. LastLogIndex(s) + 1
    BY <2>1 DEF ReachInv
  <2>3. /\ m.from = s /\ m.prev + Len(m.entries) = Len(logs[s]) /\ (m.prev = 0 => m.prevTerm = 0)
    BY <1>2, <2>1, <2>2, SentReach
  <2>4. LastLogIndex(s)' = Len(logs[s]) /\ Len(logs[s]) \in Nat
    BY <2>1, LastIndexNext, PlainType
  <2> QED
    BY <2>3, <2>4
<1> QED
  BY <1>1, <1>2, NextCalls DEF CallsStep, ReqsStep, NewReq
\* The index after the last entry of another term, or the one that did not match.
LEMMA BackOffRange ==
  ASSUME NEW log \in Seq(Entry), NEW prev \in Nat, prev > 0
  PROVE  BackOff(<<>>, log, prev) \in 1 .. prev
<1> DEFINE T(i) == GetLogTermFromLogIndex(<<>>, log, i)
           stop == {i \in Len(<<>>) .. prev : /\ T(i) # T(prev)
                                              /\ \A j \in (i + 1) .. prev : T(j) = T(prev)}
<1>1. BackOff(<<>>, log, prev) = IF stop = {} THEN prev ELSE (CHOOSE i \in stop : TRUE) + 1
  BY DEF BackOff
<1>2. stop \subseteq 0 .. prev - 1
  <2> SUFFICES ASSUME NEW i \in stop PROVE i \in 0 .. prev - 1
    OBVIOUS
  <2>1. Len(<<>>) = 0
    BY EmptySeq
  <2>2. i \in 0 .. prev /\ T(i) # T(prev)
    BY <2>1
  <2>3. i # prev
    BY <2>2
  <2> HIDE DEF T, stop
  <2> QED
    BY <2>2, <2>3
<1> HIDE DEF stop
<1>3. ASSUME stop # {}
      PROVE  (CHOOSE i \in stop : TRUE) \in 0 .. prev - 1
  BY <1>2, <1>3, ChooseMember
<1> QED
  BY <1>1, <1>3

\* What a follower answers a leader that still leads.
LEMMA AnswerReach ==
  ASSUME Impl = "upstream", PlainInv, ReachInv, NEW m \in appendReqs, LeadsIn(m.from, m.term),
         NEW update,
         update = CASE TooNew(m.to, m) -> LastLogIndex(m.to) + 1
                    [] Matches(m.to, m) -> 0
                    [] OTHER -> BackOff(snapshot[m.to], logs[m.to], m.prev)
  PROVE  /\ m.prev + Len(m.entries) <= Len(logs[m.from])
         /\ ~Matches(m.to, m) => update \in 1 .. Len(logs[m.from]) + 1
<1> DEFINE s == m.to
           n == Len(logs[m.from])
           e == Len(m.entries)
<1>1. /\ m.from \in Server /\ s \in Server /\ m.prev \in Nat /\ e \in Nat
      /\ n \in Nat /\ logs[s] \in Seq(Entry) /\ Len(logs[s]) \in Nat
      /\ LastLogIndex(m.from) = n /\ LastLogIndex(s) = Len(logs[s])
      /\ snapshot[s] = <<>> /\ Base(s) = 0
  BY PlainType, LenProperties DEF AppendReq
<1>2. m.prev + e <= n /\ (m.prev = 0 => m.prevTerm = 0)
  BY <1>1 DEF ReachInv
<1> HIDE DEF e, n
<1>3. m.prev <= n
  BY <1>1, <1>2
<1>4. ASSUME TooNew(s, m)
      PROVE  update \in 1 .. n + 1
  <2>1. TooNew(s, m) /\ ~Matches(s, m)
    BY <1>4 DEF Matches
  <2>2. update = LastLogIndex(s) + 1
    BY <2>1
  <2>3. m.prev > Len(logs[s])
    BY <1>1, <1>4 DEF TooNew
  <2> QED
    BY <1>1, <1>3, <2>2, <2>3
<1>5. ASSUME ~TooNew(s, m), ~Matches(s, m)
      PROVE  update \in 1 .. n + 1
  <2>1. ~Compacted(s, m)
    BY <1>1 DEF Compacted
  <2>2. GetLogTermFromLogIndex(<<>>, logs[s], m.prev) # m.prevTerm
    BY <1>1, <1>5, <2>1 DEF Matches, MatchLog, MatchLogUpstream
  <2>3. m.prev # 0
    <3>1. Len(<<>>) = 0 /\ LastTermOf(<<>>) = 0
      BY EmptySeq DEF LastTermOf
    <3> QED
      BY <1>2, <2>2, <3>1 DEF GetLogTermFromLogIndex
  <2>4. update = BackOff(<<>>, logs[s], m.prev)
    BY <1>1, <1>5
  <2>5. update \in 1 .. m.prev
    BY <1>1, <2>3, <2>4, BackOffRange
  <2> QED
    BY <1>1, <1>3, <2>5
<1>6. TooNew(s, m) => ~Matches(s, m)
  BY DEF Matches
<1> QED
  BY <1>2, <1>4, <1>5, <1>6 DEF e, n

LEMMA NextRepsReach ==
  ASSUME Impl = "upstream", Snapshots = FALSE, PlainInv, ReachInv, [Next]_vars,
         NEW r \in appendReps', Follows(r)
  PROVE  /\ <<r.term, r.to>> \in elected'
         /\ LeadsIn(r.to, r.term)' => IF r.success THEN r.sent <= LastLogIndex(r.to)'
                                      ELSE r.update \in 1 .. LastLogIndex(r.to)' + 1
<1>1. elected \subseteq elected'
  BY ElectedGrows
<1>2. ASSUME NEW q \in Server, NEW t, <<t, q>> \in elected, LeadsIn(q, t)'
      PROVE  /\ LeadsIn(q, t) /\ LastLogIndex(q)' = Len(logs'[q]) /\ Len(logs'[q]) \in Nat
             /\ Len(logs[q]) <= Len(logs'[q]) /\ Len(logs[q]) \in Nat
             /\ LastLogIndex(q) = Len(logs[q])
  <2>1. Leads(q) /\ LeadsIn(q, t)
    BY <1>2, LeadsBefore DEF LeadsIn
  <2> QED
    BY <2>1, LastIndexNext, PlainType DEF Leads
<1>3. CASE r \in appendReps
  <2>1. r.to \in Server /\ r.sent \in Nat /\ <<r.term, r.to>> \in elected
    BY <1>3, PlainType DEF AppendRep, ReachInv
  <2>2. ASSUME LeadsIn(r.to, r.term)'
        PROVE  IF r.success THEN r.sent <= LastLogIndex(r.to)'
                            ELSE r.update \in 1 .. LastLogIndex(r.to)' + 1
    <3>1. IF r.success THEN r.sent <= Len(logs[r.to]) ELSE r.update \in 1 .. Len(logs[r.to]) + 1
      BY <1>2, <1>3, <2>1, <2>2 DEF ReachInv
    <3>2. \A old, new \in Nat : old <= new =>
            (r.sent <= old => r.sent <= new) /\ (r.update \in 1 .. old + 1 => r.update \in 1 .. new + 1)
      BY <2>1
    <3> QED
      BY <1>2, <2>1, <2>2, <3>1, <3>2
  <2> QED
    BY <1>1, <2>1, <2>2
<1>4. CASE NewRefusal(r)
  <2>1. ~r.success /\ r.update = NoUpdate
    BY <1>4 DEF NewRefusal, AppendReply
  <2> QED
    BY <2>1 DEF Follows
<1>5. CASE NewReply(r)
  <2>1. PICK m \in appendReqs :
          /\ HandleAppendEntries(m)
          /\ r = AppendReply(m.to, m, m.term, Matches(m.to, m),
                             CASE TooNew(m.to, m) -> LastLogIndex(m.to) + 1
                               [] Matches(m.to, m) -> 0
                               [] OTHER -> BackOff(snapshot[m.to], logs[m.to], m.prev))
    BY <1>5 DEF NewReply
  <2> DEFINE update == CASE TooNew(m.to, m) -> LastLogIndex(m.to) + 1
                         [] Matches(m.to, m) -> 0
                         [] OTHER -> BackOff(snapshot[m.to], logs[m.to], m.prev)
             e == Len(m.entries)
  <2>2. /\ r.term = m.term /\ r.to = m.from /\ r.success = Matches(m.to, m)
        /\ r.update = update /\ r.sent = m.prev + e
    BY <2>1 DEF AppendReply
  <2>3. /\ m.from \in Server /\ <<m.term, m.from>> \in elected /\ m.prev \in Nat /\ e \in Nat
    BY PlainType, LenProperties DEF PlainInv, SendersInv, AppendReq
  <2>4. ASSUME LeadsIn(r.to, r.term)'
        PROVE  IF r.success THEN r.sent <= LastLogIndex(r.to)'
                            ELSE r.update \in 1 .. LastLogIndex(r.to)' + 1
    <3>1. LeadsIn(m.from, m.term)
      BY <1>2, <2>2, <2>3, <2>4
    <3>2. m.prev + e <= Len(logs[m.from]) /\ (~Matches(m.to, m) => update \in 1 .. Len(logs[m.from]) + 1)
      BY <3>1, AnswerReach
    <3> HIDE DEF update, e
    <3>3. /\ LastLogIndex(m.from)' = Len(logs'[m.from]) /\ Len(logs'[m.from]) \in Nat
          /\ Len(logs[m.from]) <= Len(logs'[m.from]) /\ Len(logs[m.from]) \in Nat
      BY <1>2, <2>2, <2>3, <2>4
    <3>4. m.prev + e \in Nat
      BY <2>3
    <3>5. \A old, new, sent \in Nat : old <= new =>
            (sent <= old => sent <= new) /\ (update \in 1 .. old + 1 => update \in 1 .. new + 1)
      OBVIOUS
    <3> QED
      BY <2>2, <3>2, <3>3, <3>4, <3>5
  <2> HIDE DEF update, e
  <2> QED
    BY <1>1, <2>2, <2>3, <2>4
<1> QED
  BY <1>3, <1>4, <1>5, NextCalls DEF CallsStep, RepsStep

LEMMA NextIndexReach ==
  ASSUME Snapshots = FALSE, PlainInv, ReachInv, [Next]_vars,
         NEW q \in Server, NEW p \in Server, status'[q] = Leader
  PROVE  /\ matchIndex'[q][p] <= LastLogIndex(q)'
         /\ nextIndex'[q][p] \in 1 .. LastLogIndex(q)' + 1
<1>1. /\ LastLogIndex(q)' = Len(logs'[q]) /\ LastLogIndex(q) = Len(logs[q]) /\ Len(logs[q]) \in Nat
      /\ nextIndex \in [Server -> [Server -> Nat]] /\ matchIndex \in [Server -> [Server -> Nat]]
  BY LastIndexNext, PlainType
<1>2. CASE Reset(q)
  <2>1. /\ matchIndex'[q][p] = 0 /\ nextIndex'[q][p] = Len(logs[q]) + 1
        /\ LastLogIndex(q)' = Len(logs[q])
    BY <1>1, <1>2 DEF Reset
  <2> QED
    BY <1>1, <2>1
<1>3. CASE Leads(q)
  <2>1. /\ status[q] = Leader /\ currentTerm'[q] = currentTerm[q]
        /\ Len(logs[q]) <= Len(logs'[q]) /\ Len(logs'[q]) \in Nat
    BY <1>3 DEF Leads
  <2>2. /\ matchIndex[q][p] <= Len(logs[q]) /\ nextIndex[q][p] \in 1 .. Len(logs[q]) + 1
        /\ matchIndex[q][p] \in Nat
    BY <1>1, <2>1 DEF ReachInv
  <2> DEFINE old == Len(logs[q])
             new == Len(logs'[q])
             InReach(match, next) == match <= new /\ next \in 1 .. new + 1
  <2>3. old \in Nat /\ new \in Nat /\ old <= new
    BY <1>1, <2>1
  <2> HIDE DEF old, new
  <2>4. \A match, next \in Nat : match <= old /\ next \in 1 .. old + 1 => InReach(match, next)
    BY <2>3
  <2>5. matchIndex[q][p] \in Nat /\ nextIndex[q][p] \in Nat
    BY <1>1
  <2>6. CASE nextIndex'[q] = nextIndex[q] /\ matchIndex'[q] = matchIndex[q]
    BY <1>1, <2>2, <2>4, <2>5, <2>6 DEF old, new
  <2>7. ASSUME NEW r \in appendReps, r.to = q, HandleAppendRefusal(r)
        PROVE  InReach(matchIndex'[q][p], nextIndex'[q][p])
    <3>1. matchIndex' = matchIndex
      BY <2>7 DEF HandleAppendRefusal
    <3>2. CASE p = r.from /\ TakesUpdate(q, r)
      <4>1. nextIndex'[q][p] = r.update
        BY <1>1, <2>7, <3>2 DEF HandleAppendRefusal
      <4>2. ~r.success /\ Follows(r) /\ LeadsIn(r.to, r.term)
        BY <2>1, <2>7, <3>2 DEF HandleAppendRefusal, TakesUpdate, Follows, LeadsIn
      <4>3. r.update \in 1 .. old + 1
        BY <1>1, <2>7, <4>2 DEF ReachInv, old
      <4>4. r.update \in Nat
        BY <2>3, <4>3
      <4> QED
        BY <2>2, <2>4, <2>5, <3>1, <4>1, <4>3, <4>4 DEF old
    <3>3. CASE ~(p = r.from /\ TakesUpdate(q, r))
      <4>1. nextIndex'[q][p] = nextIndex[q][p]
        BY <1>1, <2>7, <3>3 DEF HandleAppendRefusal
      <4> QED
        BY <2>2, <2>4, <2>5, <3>1, <4>1 DEF old
    <3> QED
      BY <3>2, <3>3
  <2>8. ASSUME NEW r \in appendReps, r.to = q, HandleAppendSuccess(r)
        PROVE  InReach(matchIndex'[q][p], nextIndex'[q][p])
    <3> DEFINE counts == r.term = currentTerm[q] /\ status[q] = Leader
               match == MaxOf(matchIndex[q][r.from], r.sent)
    <3>1. /\ r.success
          /\ matchIndex' = [matchIndex EXCEPT ![q][r.from] = IF counts THEN match ELSE @]
          /\ nextIndex' = [nextIndex EXCEPT ![q][r.from] = IF counts THEN match + 1 ELSE @]
      BY <2>8 DEF HandleAppendSuccess
    <3>2. CASE p = r.from /\ counts
      <4>1. Follows(r) /\ LeadsIn(r.to, r.term)
        BY <2>8, <3>1, <3>2 DEF Follows, LeadsIn
      <4>2. r.sent <= old /\ r.sent \in Nat
        BY <1>1, <2>8, <3>1, <4>1, PlainType DEF ReachInv, old, AppendRep
      <4>3. matchIndex[q][p] <= old
        BY <2>2 DEF old
      <4>4. match \in Nat /\ match <= old /\ match + 1 \in 1 .. old + 1 /\ match + 1 \in Nat
        BY <2>3, <2>5, <3>2, <4>2, <4>3 DEF MaxOf
      <4> HIDE DEF match
      <4>5. matchIndex'[q][p] = match /\ nextIndex'[q][p] = match + 1
        BY <1>1, <3>1, <3>2
      <4> QED
        BY <2>4, <4>4, <4>5
    <3>3. CASE ~(p = r.from /\ counts)
      <4>1. nextIndex'[q][p] = nextIndex[q][p] /\ matchIndex'[q][p] = matchIndex[q][p]
        BY <1>1, <3>1, <3>3
      <4> QED
        BY <2>2, <2>4, <2>5, <4>1 DEF old
    <3> QED
      BY <3>2, <3>3
  <2>9. InReach(matchIndex'[q][p], nextIndex'[q][p]) \/ Reset(q)
    BY <2>2, <2>4, <2>5, <2>6, <2>7, <2>8, NextCalls DEF CallsStep, IndexStep, old
  <2> QED
    BY <1>1, <1>2, <2>9 DEF new
<1> QED
  BY <1>2, <1>3, NextStays DEF FirstVictory

LEMMA InitReach == Init => ReachInv
  BY DEF Init, ReachInv, Follower, Leader

LEMMA NextReach ==
  ASSUME Impl = "upstream", Snapshots = FALSE, PlainInv, ReachInv, [Next]_vars
  PROVE  ReachInv'
  BY NextReqsReach, NextRepsReach, NextIndexReach DEF ReachInv, Follows

LEMMA PlainInvariant ==
  ASSUME Snapshots = FALSE
  PROVE  Spec => []PlainInv
<1>1. TypeInv /\ VoteInv /\ SendersInv /\ NoSnapshotsInv => PlainInv
  BY DEF PlainInv
<1> QED
  BY <1>1, TypeInvariant, VotesConsistent, SendersInvariant, NoSnapshotsInvariant, PTL

LEMMA ReachInvariant ==
  ASSUME Impl = "upstream", Snapshots = FALSE
  PROVE  Spec => []ReachInv
<1>1. PlainInv /\ ReachInv /\ [Next]_vars => ReachInv'
  BY NextReach
<1> QED
  BY <1>1, InitReach, PlainInvariant, PTL DEF Spec

\* A leader of the upstream version finds an entry to send next to every peer:
\* however late a refusal, its back-off keeps m_nextIndex in the log.
THEOREM NextIndexStaysInLog ==
  ASSUME Impl = "upstream", Snapshots = FALSE
  PROVE  Spec => []NextIndexInLog
<1>1. ReachInv => NextIndexInLog
  BY DEF ReachInv, NextIndexInLog, Peers
<1> QED
  BY <1>1, ReachInvariant, PTL

-----------------------------------------------------------------------------
(* No assertion fails *)

\* What a follower finds at the positions of the entries it is sent is theirs or
\* of another term.
LEMMA MergeAssertsHold ==
  ASSUME Impl = "upstream", PlainInv, EntriesInv, NEW m \in appendReqs
  PROVE  MergeAsserts(snapshot[m.to], logs[m.to], m.prev - Base(m.to), m.entries)
<1> DEFINE s == m.to
<1>1. /\ s \in Server /\ m.prev \in Nat /\ m.entries \in Seq(Entry) /\ Len(m.entries) \in Nat
      /\ Base(s) = 0 /\ Log(s) = logs[s] /\ Len(logs[s]) \in Nat
  BY PlainType, LenProperties DEF AppendReq
<1>2. m.prev - Base(s) = m.prev
  BY <1>1
<1>3. ASSUME NEW i \in Overlap(logs[s], m.prev, m.entries),
             logs[s][i].term = m.entries[i - m.prev].term
      PROVE  logs[s][i] = m.entries[i - m.prev]
  <2>1. i \in (m.prev + 1) .. MinOf(Len(logs[s]), m.prev + Len(m.entries))
    BY DEF Overlap
  <2> DEFINE old == Len(logs[s])
             new == Len(m.entries)
             prev == m.prev
  <2>2. prev \in Nat /\ old \in Nat /\ new \in Nat /\ i \in (prev + 1) .. MinOf(old, prev + new)
    BY <1>1, <2>1
  <2> HIDE DEF old, new, prev
  <2>3. i \in 1 .. old /\ i - prev \in 1 .. new /\ prev + (i - prev) = i
    BY <2>2 DEF MinOf
  <2> USE DEF old, new, prev
  <2>4. <<i, logs[s][i]>> \in Placed
    BY <1>1, <2>3, InPlaced
  <2>5. <<i, m.entries[i - m.prev]>> \in Placed
    <3> DEFINE k == i - m.prev
    <3>1. k \in 1 .. Len(m.entries) /\ m.prev + k = i
      BY <2>3
    <3> HIDE DEF k
    <3>2. <<m.prev + k, m.entries[k]>> \in Placed
      BY <3>1, InPlaced
    <3> QED
      BY <3>1, <3>2 DEF k
  <2> QED
    BY <1>3, <2>4, <2>5 DEF EntriesInv
<1> QED
  BY <1>2, <1>3 DEF MergeAsserts

LEMMA NextNoExit ==
  ASSUME Impl = "upstream", Snapshots = FALSE, PlainInv, EntriesInv, ReachInv,
         exited = {}, [Next]_vars
  PROVE  exited' = {}
<1>1. TypeInv
  BY DEF PlainInv
<1>2. \A q \in Server : /\ Base(q) = 0 /\ lastApplied[q] \in Nat /\ commitIndex[q] \in Nat
                        /\ commitIndex[q] <= LastLogIndex(q) /\ LastLogIndex(q) \in Nat
                        /\ matchIndex \in [Server -> [Server -> Nat]]
  BY <1>1, PlainType DEF TypeInv, TypeOK, LogType, AppliedInRange
<1>3. ASSUME NEW s \in Server, DoHeartBeat(s) PROVE exited' = {}
  <2>1. \A p \in Peers(s) : nextIndex[s][p] \in 1 .. LastLogIndex(s) + 1
    BY <1>3 DEF DoHeartBeat, ReachInv, Peers
  <2> QED
    BY <1>3, <2>1 DEF DoHeartBeat, MyAssert
<1>4. ASSUME NEW m \in voteReps, HandleRequestVoteReply(m) PROVE exited' = {}
  <2> DEFINE s == m.to
             wins == m.term = currentTerm[s] /\ m.granted /\ votedNum[s] + 1 >= Majority
  <2>1. s \in Server /\ votedNum[s] \in Nat /\ Majority \in Nat
    BY <1>1, MajorityType DEF TypeInv, TypeOK, VoteType, VoteRep
  <2>2. exited' = IF wins => status[s] # Leader THEN exited ELSE exited \cup {s}
    BY <1>4 DEF HandleRequestVoteReply, MyAssert
  <2>3. ASSUME wins PROVE status[s] # Leader
    <3>1. ~(votedNum[s] + 1 < Majority)
      BY <2>1, <2>3
    <3>2. <<currentTerm[s], s>> \notin elected
      BY <2>3, <3>1, VotesLeft DEF PlainInv
    <3> QED
      BY <2>1, <3>2 DEF PlainInv, VoteInv, ElectedInv
  <2> QED
    BY <2>2, <2>3
<1>5. ASSUME NEW m \in appendReqs, HandleAppendEntries(m) PROVE exited' = {}
  <2> DEFINE s == m.to
  <2>1. ~Compacted(s, m)
    <3>1. m.prev \in Nat /\ s \in Server
      BY PlainType DEF AppendReq
    <3>2. Base(s) = 0
      BY <1>2, <3>1
    <3> QED
      BY <3>1, <3>2 DEF Compacted
  <2>2. Matches(s, m) => Merges(s, m)
    BY MergeAssertsHold DEF Merges
  <2> QED
    BY <1>5, <2>1, <2>2 DEF HandleAppendEntries, MyAssert
<1>6. ASSUME NEW m \in appendReps, HandleAppendSuccess(m) PROVE exited' = {}
  <2> DEFINE s == m.to
             counts == m.term = currentTerm[s] /\ status[s] = Leader
             match == MaxOf(matchIndex[s][m.from], m.sent)
             commit == IF /\ counts /\ appendNums[s][m.round] + 1 >= Majority
                          /\ MayCommit(s, m)
                         THEN MaxOf(commitIndex[s], m.sent) ELSE commitIndex[s]
  <2>1. s \in Server /\ m.from \in Server /\ m.sent \in Nat
    BY PlainType DEF AppendRep
  <2>2. /\ m.success
        /\ exited' = IF counts => match <= LastLogIndex(s) /\ commit <= LastLogIndex(s)
                       THEN exited ELSE exited \cup {s}
    BY <1>6 DEF HandleAppendSuccess, MyAssert
  <2>3. ASSUME counts
        PROVE  match <= LastLogIndex(s) /\ commit <= LastLogIndex(s)
    <3>1. m.sent <= LastLogIndex(s)
      BY <2>2, <2>3 DEF ReachInv, Follows, LeadsIn
    <3>2. matchIndex[s][m.from] <= LastLogIndex(s) /\ matchIndex[s][m.from] \in Nat
      BY <1>2, <2>1, <2>3 DEF ReachInv
    <3>3. commitIndex[s] <= LastLogIndex(s) /\ LastLogIndex(s) \in Nat /\ commitIndex[s] \in Nat
      BY <1>2, <2>1
    <3>4. commit \in {commitIndex[s], MaxOf(commitIndex[s], m.sent)}
      OBVIOUS
    <3> HIDE DEF commit
    <3> QED
      BY <2>1, <3>1, <3>2, <3>3, <3>4 DEF MaxOf
  <2> HIDE DEF counts, match, commit
  <2> QED
    BY <2>2, <2>3
<1>7. ASSUME NEW s \in Server, ApplierTick(s) PROVE exited' = {}
  BY <1>2, <1>7 DEF ApplierTick, MyAssert
<1>8. ASSUME exited' = exited PROVE exited' = {}
  BY <1>8
<1>9. ASSUME NEW m \in snapReqs \cup snapReps PROVE FALSE
  BY <1>9 DEF PlainInv, NoSnapshotsInv
<1>10. ASSUME NEW s \in Server, NEW index, Snapshot(s, index) PROVE FALSE
  BY <1>10 DEF Snapshot
<1>11. ASSUME NEW s \in Server, DoElection(s) PROVE exited' = {}
  BY <1>8, <1>11 DEF DoElection
<1>12. ASSUME NEW m \in voteReqs, HandleRequestVote(m) PROVE exited' = {}
  BY <1>8, <1>12 DEF HandleRequestVote
<1>13. ASSUME NEW s \in Server, NEW v \in Value, Start(s, v) PROVE exited' = {}
  BY <1>8, <1>13 DEF Start
<1>14. ASSUME NEW m \in appendReqs, RejectStaleAppend(m) PROVE exited' = {}
  BY <1>8, <1>14 DEF RejectStaleAppend
<1>15. ASSUME NEW m \in appendReps, HandleAppendRefusal(m) PROVE exited' = {}
  BY <1>8, <1>15 DEF HandleAppendRefusal
<1>16. ASSUME NEW s \in Server, NEW p \in Server, SendSnapShot(s, p) PROVE exited' = {}
  BY <1>8, <1>16 DEF SendSnapShot
<1>17. LoseCall \/ UNCHANGED vars => exited' = {}
  BY <1>8 DEF LoseCall, vars
<1> QED
  BY <1>3, <1>4, <1>5, <1>6, <1>7, <1>9, <1>10, <1>11, <1>12, <1>13, <1>14, <1>15, <1>16,
     <1>17 DEF Next

\* No process of the upstream version ends on a failed assertion as long as no
\* snapshots are taken: not in doHeartBeat, getPrevLogInfo or sendAppendEntries,
\* not in AppendEntries1, not in sendRequestVote, not in the applier.
THEOREM NoAssertionEverFails ==
  ASSUME Impl = "upstream", Snapshots = FALSE
  PROVE  Spec => []NoAssertionFails
<1>1. Init => NoAssertionFails
  BY DEF Init, NoAssertionFails
<1>2. PlainInv /\ EntriesInv /\ ReachInv /\ NoAssertionFails /\ [Next]_vars => NoAssertionFails'
  BY NextNoExit DEF NoAssertionFails
<1> QED
  BY <1>1, <1>2, PlainInvariant, EntriesInvariant, ReachInvariant, PTL DEF Spec
-----------------------------------------------------------------------------
(* AgreeInv is inductive *)

\* What is merged has the terms of what was sent.
LEMMA MergedTerms ==
  ASSUME Impl = "upstream", NEW log \in Seq(Entry), NEW entries \in Seq(Entry),
         NEW at \in 0 .. Len(log), NEW snap, NEW merged,
         merged = MergeEntries(snap, log, at, entries), NEW k \in 1 .. Len(entries)
  PROVE  at + k \in 1 .. Len(merged) /\ merged[at + k].term = entries[k].term
<1> DEFINE old == Len(log)
           new == Len(entries)
           i == at + k
           kept == KeptUpstream(log, at, entries)
<1>1. old \in Nat /\ new \in Nat /\ at \in Nat /\ k \in 1 .. new /\ at <= old
  BY LenProperties
<1>2. /\ merged = Written(log, at, entries, kept)
      /\ Len(merged) = MaxOf(old, at + new)
  BY MergeType DEF MergeEntries
<1>3. kept = {j \in (at + 1) .. MinOf(old, at + new) : log[j].term = entries[j - at].term}
  BY DEF KeptUpstream, Overlap
<1> HIDE DEF old, new, kept
<1>4. i \in 1 .. MaxOf(old, at + new) /\ i - at = k /\ i \in (at + 1) .. (at + new)
  BY <1>1 DEF MaxOf
<1> HIDE DEF i
<1>5. merged[i] = IF i > old \/ i \in ((at + 1) .. (at + new)) \ kept THEN entries[i - at] ELSE log[i]
  BY <1>2, <1>4 DEF Written, old, new
<1>6. i \in kept => log[i].term = entries[k].term
  BY <1>3, <1>4
<1>7. merged[i].term = entries[k].term
  BY <1>4, <1>5, <1>6
<1> QED
  BY <1>2, <1>4, <1>7 DEF i

AgreeAfter(s, p, k) ==
  k <= Len(logs'[s]) /\ k <= Len(logs'[p]) /\ logs'[s][k].term = logs'[p][k].term

\* The merge of a follower, in terms of its log.
LEMMA MergeStep ==
  ASSUME Snapshots = FALSE, PlainInv, NEW m \in appendReqs, HandleAppendEntries(m),
         Merges(m.to, m)
  PROVE  /\ logs'[m.to] = MergeEntries(snapshot[m.to], logs[m.to], m.prev, m.entries)
         /\ logs[m.to] \in Seq(Entry) /\ m.entries \in Seq(Entry)
         /\ m.prev \in 0 .. Len(logs[m.to])
<1>1. /\ m.to \in Server /\ m.prev \in Nat /\ m.entries \in Seq(Entry)
      /\ logs \in [Server -> Seq(Entry)] /\ Base(m.to) = 0
      /\ LastLogIndex(m.to) = Len(logs[m.to]) /\ Len(logs[m.to]) \in Nat
  BY PlainType DEF AppendReq
<1>2. m.prev - Base(m.to) = m.prev
  BY <1>1
<1>3. logs' = [logs EXCEPT ![m.to] =
                 MergeEntries(snapshot[m.to], logs[m.to], m.prev - Base(m.to), m.entries)]
  BY DEF HandleAppendEntries
<1>4. m.prev \in 0 .. Len(logs[m.to])
  BY <1>1 DEF Merges, Matches, TooNew
<1> QED
  BY <1>1, <1>2, <1>3, <1>4

\* Who is elected in a term is one.
LEMMA OneElected ==
  ASSUME PlainInv, NEW s, NEW p, NEW t, <<t, s>> \in elected, <<t, p>> \in elected
  PROVE  s = p
  BY VotesElectOne DEF PlainInv, ElectionSafety

\* As long as s leads its term and p stays in it, they go on agreeing where they did.
LEMMA AgreeStays ==
  ASSUME Impl = "upstream", Snapshots = FALSE, PlainInv, AgreeInv, [Next]_vars,
         NEW s \in Server, NEW p \in Server, Leads(s), currentTerm[p] = currentTerm[s],
         currentTerm'[p] = currentTerm[p], NEW k \in Nat, k > 0, Agree(s, p, k)
  PROVE  AgreeAfter(s, p, k)
<1>1. /\ currentTerm \in [Server -> Nat] /\ Len(logs[s]) \in Nat /\ Len(logs[p]) \in Nat
      /\ k \in 1 .. Len(logs[s]) /\ k \in 1 .. Len(logs[p])
  BY PlainType DEF Agree
<1>2. k <= Len(logs'[s]) /\ logs'[s][k] = logs[s][k]
  BY <1>1 DEF Leads
<1>3. <<currentTerm[s], s>> \in elected
  BY DEF Leads, PlainInv, VoteInv, ElectedInv
<1>4. CASE logs'[p] = logs[p]
  BY <1>1, <1>2, <1>4 DEF Agree, AgreeAfter
<1>5. CASE p = s
  BY <1>2, <1>5 DEF Agree, AgreeAfter
<1>6. CASE status[p] = Leader
  <2>1. <<currentTerm[s], p>> \in elected
    BY <1>6 DEF PlainInv, VoteInv, ElectedInv
  <2> QED
    BY <1>3, <1>5, <2>1, OneElected
<1>7. ASSUME NEW m \in appendReqs, m.to = p, HandleAppendEntries(m), Merges(p, m)
      PROVE  AgreeAfter(s, p, k)
  <2> DEFINE merged == logs'[p]
  <2>1. m.term = currentTerm[s]
    <3>1. m.term \in Nat /\ Observe(p, m.term) /\ ~(m.term < currentTerm[p])
      BY <1>7, PlainType DEF AppendReq, HandleAppendEntries, StaleTerm
    <3>2. currentTerm'[p] = MaxOf(currentTerm[p], m.term)
      BY <1>1, <3>1 DEF Observe
    <3> QED
      BY <1>1, <3>1, <3>2 DEF MaxOf
  <2>2. m.from = s
    <3>1. <<currentTerm[s], m.from>> \in elected
      BY <2>1 DEF PlainInv, SendersInv
    <3> QED
      BY <1>3, <3>1, OneElected
  <2>3. \A j \in 1 .. Len(m.entries) : m.entries[j] = logs[s][m.prev + j]
    BY <2>1, <2>2 DEF AgreeInv, LeadsIn, Leads
  <2>4. /\ merged = MergeEntries(snapshot[p], logs[p], m.prev, m.entries)
        /\ logs[p] \in Seq(Entry) /\ m.entries \in Seq(Entry) /\ m.prev \in 0 .. Len(logs[p])
    BY <1>7, MergeStep
  <2> HIDE DEF merged
  <2>5. Len(merged) = MaxOf(Len(logs[p]), m.prev + Len(m.entries)) /\ Len(m.entries) \in Nat
    BY <2>4, MergeType, LenProperties
  <2>6. k \in 1 .. Len(merged)
    BY <1>1, <2>4, <2>5 DEF MaxOf
  <2>7. \/ merged[k] = logs[p][k]
        \/ k - m.prev \in 1 .. Len(m.entries) /\ merged[k] = m.entries[k - m.prev]
    BY <2>4, <2>6, MergeAt
  <2>8. m.prev + (k - m.prev) = k
    BY <2>4
  <2>9. merged[k] = logs[p][k] \/ merged[k] = logs[s][k]
    BY <2>3, <2>7, <2>8
  <2>10. k <= Len(merged)
    BY <2>6
  <2> QED
    BY <1>2, <2>9, <2>10 DEF Agree, AgreeAfter, merged
<1>8. ASSUME NEW m \in appendReqs, m.to = p, HandleAppendEntries(m), ~Merges(p, m)
      PROVE  logs'[p] = logs[p]
  BY <1>8 DEF HandleAppendEntries
<1> QED
  BY <1>4, <1>6, <1>7, <1>8, NextCalls DEF CallsStep, LogStep

\* A follower that has merged what its leader sent agrees with it on the last of it.
LEMMA AckAgrees ==
  ASSUME Impl = "upstream", Snapshots = FALSE, PlainInv, ReachInv, AgreeInv, [Next]_vars,
         NEW m \in appendReqs, HandleAppendEntries(m), Merges(m.to, m),
         LeadsIn(m.from, m.term), Leads(m.from), m.prev + Len(m.entries) > 0
  PROVE  AgreeAfter(m.from, m.to, m.prev + Len(m.entries))
<1> DEFINE s == m.from
           p == m.to
           merged == logs'[p]
           n == Len(m.entries)
           sent == m.prev + n
<1>1. /\ s \in Server /\ p \in Server /\ m.prev \in Nat /\ n \in Nat
      /\ Len(logs[s]) \in Nat /\ sent <= Len(logs[s]) /\ Len(logs[p]) \in Nat
      /\ snapshot[p] = <<>> /\ sent \in 1 .. Len(logs[s])
  <2>1. /\ s \in Server /\ p \in Server /\ m.prev \in Nat /\ n \in Nat
        /\ Len(logs[s]) \in Nat /\ LastLogIndex(s) = Len(logs[s])
        /\ Len(logs[p]) \in Nat /\ snapshot[p] = <<>>
    BY PlainType, LenProperties DEF AppendReq
  <2>2. sent <= Len(logs[s])
    BY <2>1 DEF ReachInv
  <2> QED
    BY <2>1, <2>2
<1>2. /\ merged = MergeEntries(snapshot[p], logs[p], m.prev, m.entries)
      /\ logs[p] \in Seq(Entry) /\ m.entries \in Seq(Entry) /\ m.prev \in 0 .. Len(logs[p])
  BY MergeStep
<1> HIDE DEF sent, merged
<1>3. sent <= Len(logs'[s]) /\ logs'[s][sent] = logs[s][sent]
  <2>1. Len(logs[s]) <= Len(logs'[s]) /\ Len(logs'[s]) \in Nat
    BY DEF Leads
  <2>2. sent <= Len(logs'[s])
    BY <1>1, <2>1
  <2> QED
    BY <1>1, <2>2 DEF Leads
<1>4. /\ \A k \in 1 .. n : m.entries[k] = logs[s][m.prev + k]
      /\ m.prev > 0 => m.prevTerm = logs[s][m.prev].term
  BY DEF AgreeInv
<1>5. CASE n > 0
  <2>1. n \in 1 .. n /\ m.prev + n = sent
    BY <1>1, <1>5 DEF sent
  <2>2. sent \in 1 .. Len(merged) /\ merged[sent].term = m.entries[n].term
    BY <1>2, <2>1, MergedTerms
  <2>3. m.entries[n] = logs[s][sent]
    BY <1>4, <2>1
  <2>4. sent <= Len(merged)
    BY <2>2
  <2> QED
    BY <1>3, <2>2, <2>3, <2>4 DEF AgreeAfter, merged, sent
<1>6. CASE n = 0
  <2>1. sent = m.prev /\ m.prev > 0 /\ m.prev \in 1 .. Len(logs[p])
    BY <1>1, <1>2, <1>6 DEF sent
  <2>2. GetLogTermFromLogIndex(<<>>, logs[p], m.prev) = m.prevTerm
    BY <1>1 DEF Merges, Matches, MatchLog, MatchLogUpstream
  <2>3. logs[p][m.prev].term = m.prevTerm
    <3>1. Len(<<>>) = 0 /\ m.prev - 0 = m.prev /\ m.prev # 0
      BY <1>1, <2>1, EmptySeq
    <3> QED
      BY <2>2, <3>1 DEF GetLogTermFromLogIndex
  <2>4. Len(merged) = MaxOf(Len(logs[p]), m.prev + n)
    BY <1>2, MergeType
  <2>5. sent \in 1 .. Len(merged) /\ sent <= Len(merged)
    BY <1>1, <1>6, <2>1, <2>4 DEF MaxOf
  <2>6. merged[sent] = logs[p][sent] \/ sent - m.prev \in 1 .. Len(m.entries)
    BY <1>2, <2>5, MergeAt
  <2>7. merged[sent] = logs[p][sent]
    BY <1>1, <1>6, <2>1, <2>6
  <2>8. merged[sent].term = logs[s][sent].term
    BY <1>4, <2>1, <2>3, <2>7
  <2> QED
    BY <1>3, <2>5, <2>8 DEF AgreeAfter, merged, sent
<1> QED
  BY <1>1, <1>5, <1>6
\* Knows, after a step.
KnowsAfter(s, p, k) ==
  /\ currentTerm'[s] <= currentTerm'[p]
  /\ currentTerm'[p] = currentTerm'[s] => AgreeAfter(s, p, k)

LEMMA KnowsStays ==
  ASSUME Impl = "upstream", Snapshots = FALSE, PlainInv, AgreeInv, [Next]_vars,
         NEW s \in Server, NEW p \in Server, Leads(s), NEW k \in Nat, k > 0, Knows(s, p, k)
  PROVE  KnowsAfter(s, p, k)
<1>1. /\ currentTerm[s] \in Nat /\ currentTerm[p] \in Nat /\ currentTerm'[s] = currentTerm[s]
      /\ currentTerm[p] <= currentTerm'[p] /\ currentTerm'[p] \in Nat
  <2>1. currentTerm \in [Server -> Nat] /\ currentTerm' \in [Server -> Nat]
    BY PlainType, NextType DEF PlainInv, TypeInv, TypeOK, NodeType
  <2>2. TermForward(p)
    BY NextTermForward DEF PlainInv
  <2> QED
    BY <2>1, <2>2 DEF TermForward, Leads
<1>2. ASSUME currentTerm'[p] = currentTerm'[s] PROVE AgreeAfter(s, p, k)
  <2>1. currentTerm[p] = currentTerm[s] /\ currentTerm'[p] = currentTerm[p]
    BY <1>1, <1>2 DEF Knows
  <2> QED
    BY <2>1, AgreeStays DEF Knows
<1> QED
  BY <1>1, <1>2 DEF Knows, KnowsAfter

\* The requests under way carry entries of their leader's log.
LEMMA NextReqsAgree ==
  ASSUME Snapshots = FALSE, PlainInv, ReachInv, AgreeInv, [Next]_vars,
         NEW m \in appendReqs', LeadsIn(m.from, m.term)'
  PROVE  /\ \A k \in 1 .. Len(m.entries) : m.entries[k] = logs'[m.from][m.prev + k]
         /\ m.prev > 0 => m.prevTerm = logs'[m.from][m.prev].term
<1>1. CASE m \in appendReqs
  <2>1. /\ m.from \in Server /\ <<m.term, m.from>> \in elected /\ m.prev \in Nat /\ Len(m.entries) \in Nat
    BY <1>1, PlainType, LenProperties DEF PlainInv, SendersInv, AppendReq
  <2>2. Leads(m.from) /\ LeadsIn(m.from, m.term)
    BY <2>1, LeadsBefore DEF LeadsIn
  <2>3. m.prev + Len(m.entries) <= Len(logs[m.from]) /\ Len(logs[m.from]) \in Nat
    BY <1>1, <2>1, <2>2, PlainType DEF ReachInv
  <2>4. /\ \A k \in 1 .. Len(m.entries) : m.entries[k] = logs[m.from][m.prev + k]
        /\ m.prev > 0 => m.prevTerm = logs[m.from][m.prev].term
    BY <1>1, <2>2 DEF AgreeInv
  <2>5. \A k \in 1 .. Len(m.entries) : m.prev + k \in 1 .. Len(logs[m.from])
    BY <2>1, <2>3
  <2>6. m.prev > 0 => m.prev \in 1 .. Len(logs[m.from])
    BY <2>1, <2>3
  <2> QED
    BY <2>2, <2>4, <2>5, <2>6 DEF Leads
<1>2. ASSUME NEW s \in Server, NEW p \in Peers(s), DoHeartBeat(s), m = AppendArgs(s, p)
      PROVE  /\ \A k \in 1 .. Len(m.entries) : m.entries[k] = logs'[m.from][m.prev + k]
             /\ m.prev > 0 => m.prevTerm = logs'[m.from][m.prev].term
  <2>1. p \in Server /\ status[s] = Leader /\ logs' = logs
    BY <1>2 DEF DoHeartBeat, Peers, logVars
  <2>2. nextIndex[s][p] \in 1 .. LastLogIndex(s) + 1
    BY <2>1 DEF ReachInv
  <2>3. /\ m.from = s
        /\ m.prev > 0 => m.prevTerm = logs[s][m.prev].term
        /\ \A k \in 1 .. Len(m.entries) : m.entries[k] = logs[s][m.prev + k]
    BY <1>2, <2>1, <2>2, SentReach
  <2> QED
    BY <2>1, <2>3
<1> QED
  BY <1>1, <1>2, NextCalls DEF CallsStep, ReqsStep, NewReq

\* A follower that has acknowledged agrees up to what it acknowledges.
LEMMA NextRepsAgree ==
  ASSUME Impl = "upstream", Snapshots = FALSE, PlainInv, ReachInv, AgreeInv, [Next]_vars,
         NEW r \in appendReps', r.success
  PROVE  /\ r.term <= currentTerm'[r.from]
         /\ LeadsIn(r.to, r.term)' /\ currentTerm'[r.from] = r.term /\ r.sent > 0 =>
              AgreeAfter(r.to, r.from, r.sent)
<1>1. CASE r \in appendReps
  <2>1. /\ r.to \in Server /\ r.from \in Server /\ r.sent \in Nat /\ r.term \in Nat
        /\ <<r.term, r.to>> \in elected /\ r.term <= currentTerm[r.from]
    BY <1>1, PlainType DEF AppendRep, ReachInv, AgreeInv, Follows
  <2>2. currentTerm[r.from] <= currentTerm'[r.from] /\ currentTerm[r.from] \in Nat
        /\ currentTerm'[r.from] \in Nat
    <3>1. currentTerm \in [Server -> Nat] /\ currentTerm' \in [Server -> Nat]
      BY PlainType, NextType DEF PlainInv, TypeInv, TypeOK, NodeType
    <3>2. TermForward(r.from)
      BY <2>1, NextTermForward DEF PlainInv
    <3> QED
      BY <2>1, <3>1, <3>2 DEF TermForward
  <2>3. ASSUME LeadsIn(r.to, r.term)', currentTerm'[r.from] = r.term, r.sent > 0
        PROVE  AgreeAfter(r.to, r.from, r.sent)
    <3>1. Leads(r.to) /\ LeadsIn(r.to, r.term)
      BY <2>1, <2>3, LeadsBefore DEF LeadsIn
    <3>2. currentTerm[r.from] = r.term /\ currentTerm[r.to] = r.term
      BY <2>1, <2>2, <2>3, <3>1 DEF LeadsIn
    <3>3. Agree(r.to, r.from, r.sent)
      BY <1>1, <2>3, <3>1, <3>2 DEF AgreeInv
    <3> QED
      BY <2>1, <2>3, <3>1, <3>2, <3>3, AgreeStays
  <2> QED
    BY <2>1, <2>2, <2>3
<1>2. CASE NewRefusal(r)
  BY <1>2 DEF NewRefusal, AppendReply
<1>3. CASE NewReply(r)
  <2>1. PICK m \in appendReqs :
          /\ HandleAppendEntries(m)
          /\ Matches(m.to, m) => Merges(m.to, m)
          /\ \E update : r = AppendReply(m.to, m, m.term, Matches(m.to, m), update)
    BY <1>3 DEF NewReply
  <2>2. /\ r.term = m.term /\ r.to = m.from /\ r.from = m.to
        /\ r.sent = m.prev + Len(m.entries)
    BY <2>1 DEF AppendReply
  <2>3. r.success = Matches(m.to, m)
    <3>1. PICK update : r = AppendReply(m.to, m, m.term, Matches(m.to, m), update)
      BY <2>1
    <3> QED
      BY <3>1, Zenon DEF AppendReply
  <2>4. Merges(m.to, m)
    BY <2>1, <2>3
  <2>5. /\ m.from \in Server /\ m.to \in Server /\ m.term \in Nat /\ <<m.term, m.from>> \in elected
    BY PlainType DEF PlainInv, SendersInv, AppendReq
  <2>6. r.term <= currentTerm'[r.from]
    <3>1. currentTerm \in [Server -> Nat]
      BY PlainType
    <3> QED
      BY <2>1, <2>5, <2>2, <3>1 DEF HandleAppendEntries, Observe, MaxOf
  <2>7. ASSUME LeadsIn(r.to, r.term)', r.sent > 0
        PROVE  AgreeAfter(r.to, r.from, r.sent)
    <3>1. Leads(m.from) /\ LeadsIn(m.from, m.term)
      BY <2>5, <2>7, <2>2, LeadsBefore DEF LeadsIn
    <3>2. m.prev + Len(m.entries) > 0
      BY <2>7, <2>2
    <3>3. AgreeAfter(m.from, m.to, m.prev + Len(m.entries))
      BY <2>1, <2>4, <3>1, <3>2, AckAgrees
    <3> QED
      BY <2>2, <3>3
  <2> QED
    BY <2>6, <2>7
<1> QED
  BY <1>1, <1>2, <1>3, NextCalls DEF CallsStep, RepsStep

\* A leader knows of a peer what it takes as replicated there.
LEMMA NextMatchAgrees ==
  ASSUME Impl = "upstream", Snapshots = FALSE, PlainInv, ReachInv, AgreeInv, [Next]_vars,
         NEW s \in Server, NEW p \in Server, status'[s] = Leader, matchIndex'[s][p] > 0
  PROVE  KnowsAfter(s, p, matchIndex'[s][p])
<1>1. /\ matchIndex \in [Server -> [Server -> Nat]] /\ matchIndex[s][p] \in Nat
  BY PlainType
<1>2. CASE Reset(s)
  <2>1. matchIndex'[s][p] = 0
    BY <1>2 DEF Reset
  <2> QED
    BY <2>1
<1>3. CASE Leads(s)
  <2>1. status[s] = Leader
    BY <1>3 DEF Leads
  <2>2. matchIndex[s][p] > 0 => Knows(s, p, matchIndex[s][p])
    BY <2>1 DEF AgreeInv
  <2>3. matchIndex[s][p] > 0 => KnowsAfter(s, p, matchIndex[s][p])
    BY <1>1, <1>3, <2>2, KnowsStays
  <2>4. CASE matchIndex'[s][p] = matchIndex[s][p]
    BY <2>3, <2>4
  <2>5. ASSUME NEW r \in appendReps, r.to = s, HandleAppendRefusal(r)
        PROVE  matchIndex'[s][p] = matchIndex[s][p]
    BY <2>5 DEF HandleAppendRefusal
  <2>6. ASSUME NEW r \in appendReps, r.to = s, HandleAppendSuccess(r),
               matchIndex'[s][p] # matchIndex[s][p]
        PROVE  KnowsAfter(s, p, matchIndex'[s][p])
    <3> DEFINE counts == r.term = currentTerm[s] /\ status[s] = Leader
    <3>1. /\ r.success
          /\ matchIndex' = [matchIndex EXCEPT ![s][r.from] =
                              IF counts THEN MaxOf(matchIndex[s][r.from], r.sent) ELSE @]
      BY <2>6 DEF HandleAppendSuccess
    <3>2. p = r.from /\ counts /\ matchIndex'[s][p] = MaxOf(matchIndex[s][p], r.sent)
      BY <1>1, <2>6, <3>1
    <3>3. matchIndex'[s][p] = r.sent /\ r.sent \in Nat /\ r.sent > 0
      BY <1>1, <2>6, <3>2, PlainType DEF MaxOf, AppendRep
    <3>4. LeadsIn(r.to, r.term)
      BY <2>6, <3>2 DEF LeadsIn
    <3>5. Knows(s, p, r.sent)
      <4>1. currentTerm[s] <= currentTerm[p]
        BY <2>6, <3>1, <3>2 DEF AgreeInv
      <4>2. currentTerm[p] = currentTerm[s] => Agree(s, p, r.sent)
        BY <2>6, <3>1, <3>2, <3>3, <3>4 DEF AgreeInv
      <4> QED
        BY <4>1, <4>2 DEF Knows
    <3>6. KnowsAfter(s, p, r.sent)
      BY <1>3, <3>3, <3>5, KnowsStays
    <3> QED
      BY <3>3, <3>6
  <2> QED
    BY <1>2, <2>4, <2>5, <2>6, NextCalls DEF CallsStep, IndexStep
<1> QED
  BY <1>2, <1>3, NextStays DEF FirstVictory

LEMMA InitAgree == Init => AgreeInv
  BY DEF Init, AgreeInv, Follower, Leader

LEMMA NextAgree ==
  ASSUME Impl = "upstream", Snapshots = FALSE, PlainInv, ReachInv, AgreeInv, [Next]_vars
  PROVE  AgreeInv'
<1>1. \A m \in appendReqs' : LeadsIn(m.from, m.term)' =>
        /\ \A k \in 1 .. Len(m.entries) : m.entries[k] = logs'[m.from][m.prev + k]
        /\ m.prev > 0 => m.prevTerm = logs'[m.from][m.prev].term
  BY NextReqsAgree
<1>2. \A r \in appendReps' : r.success => r.term <= currentTerm'[r.from]
  BY NextRepsAgree
<1>3. \A r \in appendReps' :
        (r.success /\ LeadsIn(r.to, r.term)' /\ currentTerm'[r.from] = r.term /\ r.sent > 0) =>
          Agree(r.to, r.from, r.sent)'
  BY NextRepsAgree DEF Agree, AgreeAfter
<1>4. \A s, p \in Server : (status'[s] = Leader /\ matchIndex'[s][p] > 0) =>
        Knows(s, p, matchIndex[s][p])'
  BY NextMatchAgrees DEF Knows, KnowsAfter, Agree, AgreeAfter
<1> QED
  BY <1>1, <1>2, <1>3, <1>4 DEF AgreeInv

LEMMA AgreeInvariant ==
  ASSUME Impl = "upstream", Snapshots = FALSE
  PROVE  Spec => []AgreeInv
<1>1. PlainInv /\ ReachInv /\ AgreeInv /\ [Next]_vars => AgreeInv'
  BY NextAgree
<1> QED
  BY <1>1, InitAgree, PlainInvariant, ReachInvariant, PTL DEF Spec

\* What a leader of the upstream version takes as replicated on a server of its
\* term is there, however its replies are lost, late or out of order.
THEOREM MatchIndexIsSound ==
  ASSUME Impl = "upstream", Snapshots = FALSE
  PROVE  Spec => []MatchIndexSound
<1>1. PlainInv /\ AgreeInv => MatchIndexSound
  BY PlainType DEF AgreeInv, Agree, Knows, MatchIndexSound
<1> QED
  BY <1>1, PlainInvariant, AgreeInvariant, PTL

-----------------------------------------------------------------------------
(* The calls of a round *)

\* What the follower answers to a request that is not out of date.
AnswerOf(m) ==
  AppendReply(m.to, m, m.term, Matches(m.to, m),
              CASE TooNew(m.to, m) -> LastLogIndex(m.to) + 1
                [] Matches(m.to, m) -> 0
                [] OTHER -> BackOff(snapshot[m.to], logs[m.to], m.prev))

LEMMA AnswerFields ==
  ASSUME NEW m
  PROVE  /\ AnswerOf(m).term = m.term /\ AnswerOf(m).from = m.to /\ AnswerOf(m).to = m.from
         /\ AnswerOf(m).round = m.round /\ AnswerOf(m).sent = m.prev + Len(m.entries)
         /\ AnswerOf(m).empty = (m.entries = <<>>)
         /\ AnswerOf(m).lastTerm = LastTermOf(m.entries)
  BY DEF AnswerOf, AppendReply

\* Nobody is called again in a round of a leadership that goes on.
LEMMA AskedNext ==
  ASSUME Snapshots = FALSE, PlainInv, [Next]_vars, NEW s \in Server, NEW p \in Server,
         Leads(s), NEW n \in 1 .. Len(appendNums[s])
  PROVE  Asked(s, p, n)' \subseteq Asked(s, p, n)
<1> SUFFICES ASSUME NEW m \in Asked(s, p, n)' PROVE m \in Asked(s, p, n)
  OBVIOUS
<1>1. /\ m \in appendReqs' /\ m.from = s /\ m.to = p /\ m.term = currentTerm[s] /\ m.round = n
  BY DEF Asked, Leads
<1>2. CASE m \in appendReqs
  BY <1>1, <1>2 DEF Asked
<1>3. CASE NewReq(m)
  <2>1. m.round = Len(appendNums[m.from]) + 1
    BY <1>3 DEF NewReq, AppendArgs
  <2>2. Len(appendNums[s]) \in Nat
    BY PlainType, LenProperties
  <2> QED
    BY <1>1, <2>1, <2>2
<1> QED
  BY <1>1, <1>2, <1>3, NextCalls DEF CallsStep, ReqsStep

\* A call is accepted by answering it: then it is no longer asked.
LEMMA AckedNext ==
  ASSUME Snapshots = FALSE, PlainInv, [Next]_vars, NEW s \in Server, NEW p \in Server,
         Leads(s), NEW n, NEW r \in Acked(s, p, n)', r \notin appendReps
  PROVE  \E k \in Asked(s, p, n) :
           /\ k \notin appendReqs' /\ r = AnswerOf(k) /\ HandleAppendEntries(k)
<1>1. /\ r \in appendReps' /\ r.success /\ r.to = s /\ r.from = p
      /\ r.term = currentTerm[s] /\ r.round = n
  BY DEF Acked, Leads
<1>2. ~NewRefusal(r)
  <2>1. NewRefusal(r) => r.success = FALSE
    BY DEF NewRefusal, AppendReply
  <2> QED
    BY <1>1, <2>1
<1>3. NewReply(r)
  BY <1>1, <1>2, NextCalls DEF CallsStep, RepsStep
<1>4. PICK m \in appendReqs : HandleAppendEntries(m) /\ r = AnswerOf(m)
  BY <1>3 DEF NewReply, AnswerOf
<1>5. m \in Asked(s, p, n)
  BY <1>1, <1>4, AnswerFields DEF Asked
<1>6. m \notin appendReqs'
  BY <1>4 DEF HandleAppendEntries
<1> QED
  BY <1>4, <1>5, <1>6

\* A call of the present leadership of s was made in it.
LEMMA AskedLeads ==
  ASSUME Snapshots = FALSE, PlainInv, ReachInv, [Next]_vars, NEW s \in Server, status'[s] = Leader
  PROVE  /\ \A m \in appendReqs : m.from = s /\ m.term = currentTerm'[s] => Leads(s)
         /\ \A r \in appendReps : r.success /\ r.to = s /\ r.term = currentTerm'[s] => Leads(s)
<1>1. ASSUME NEW m \in appendReqs, m.from = s, m.term = currentTerm'[s] PROVE Leads(s)
  <2>1. <<m.term, s>> \in elected
    BY <1>1 DEF PlainInv, SendersInv
  <2> QED
    BY <1>1, <2>1, LeadsBefore
<1>2. ASSUME NEW r \in appendReps, r.success, r.to = s, r.term = currentTerm'[s] PROVE Leads(s)
  <2>1. <<r.term, s>> \in elected
    BY <1>2 DEF ReachInv, Follows
  <2> QED
    BY <1>2, <2>1, LeadsBefore
<1> QED
  BY <1>1, <1>2

\* The rounds of a leadership that goes on: one more, or as many as before.
RoundsSame(s) == Len(appendNums'[s]) = Len(appendNums[s])
RoundsMore(s) ==
  /\ DoHeartBeat(s) /\ Len(appendNums'[s]) = Len(appendNums[s]) + 1
  /\ appendNums'[s] = Append(appendNums[s], 1)

LEMMA RoundsGrow ==
  ASSUME Snapshots = FALSE, PlainInv, [Next]_vars, NEW s \in Server, Leads(s)
  PROVE  RoundsSame(s) \/ RoundsMore(s)
<1>1. appendNums \in [Server -> Seq(Nat)] /\ appendNums[s] \in Seq(Nat)
  BY PlainType
<1>2. CASE appendNums'[s] = appendNums[s]
  BY <1>2 DEF RoundsSame
<1>3. CASE DoHeartBeat(s)
  <2>1. appendNums'[s] = Append(appendNums[s], 1)
    BY <1>1, <1>3 DEF DoHeartBeat
  <2>2. Len(Append(appendNums[s], 1)) = Len(appendNums[s]) + 1
    BY <1>1, AppendProperties
  <2> QED
    BY <1>3, <2>1, <2>2 DEF RoundsMore
<1>4. ASSUME NEW r \in appendReps, r.to = s, HandleAppendSuccess(r) PROVE RoundsSame(s)
  <2>1. CASE appendNums' = appendNums
    BY <2>1 DEF RoundsSame
  <2>2. ASSUME NEW c, appendNums' = [appendNums EXCEPT ![s][r.round] = c] PROVE RoundsSame(s)
    <3>1. appendNums'[s] = [appendNums[s] EXCEPT ![r.round] = c]
      BY <1>1, <2>2
    <3> QED
      BY <1>1, <3>1 DEF RoundsSame
  <2> DEFINE c == IF appendNums[s][r.round] + 1 >= Majority THEN 0 ELSE appendNums[s][r.round] + 1
  <2>3. appendNums' = appendNums \/ appendNums' = [appendNums EXCEPT ![s][r.round] = c]
    BY <1>4 DEF HandleAppendSuccess
  <2> QED
    BY <2>1, <2>2, <2>3
<1> QED
  BY <1>2, <1>3, <1>4, NextCalls DEF CallsStep, CountStep, Reset, Leads
-----------------------------------------------------------------------------
(* CallsInv is inductive *)

LEMMA RoundInRange ==
  ASSUME Snapshots = FALSE, PlainInv, [Next]_vars, NEW s \in Server, Leads(s),
         NEW n \in 1 .. Len(appendNums[s])
  PROVE  n \in 1 .. Len(appendNums'[s])
<1> DEFINE old == Len(appendNums[s])
           new == Len(appendNums'[s])
<1>1. old \in Nat /\ n \in 1 .. old
  BY PlainType, LenProperties
<1>2. new = old \/ new = old + 1
  BY RoundsGrow DEF RoundsSame, RoundsMore
<1> HIDE DEF old, new
<1>3. n \in 1 .. new
  BY <1>1, <1>2
<1> QED
  BY <1>3 DEF new

LEMMA NextAsked ==
  ASSUME Snapshots = FALSE, PlainInv, ReachInv, CallsInv, [Next]_vars,
         NEW s \in Server, status'[s] = Leader,
         NEW m \in appendReqs', m.from = s, m.term = currentTerm'[s]
  PROVE  /\ m.round \in 1 .. Len(appendNums'[s])
         /\ Acked(s, m.to, m.round)' = {}
         /\ Asked(s, m.to, m.round)' = {m}
<1>1. m \in Asked(s, m.to, m.round)'
  BY DEF Asked
<1>2. CASE m \in appendReqs
  <2>1. Leads(s) /\ m.to \in Server /\ m.term = currentTerm[s] /\ status[s] = Leader
    BY <1>2, AskedLeads, PlainType DEF AppendReq, Leads
  <2>2. /\ m.round \in 1 .. Len(appendNums[s])
        /\ Acked(s, m.to, m.round) = {} /\ Asked(s, m.to, m.round) = {m}
    BY <1>2, <2>1 DEF CallsInv
  <2>3. ASSUME NEW r \in Acked(s, m.to, m.round)' PROVE FALSE
    <3>1. r \notin appendReps
      BY <2>1, <2>2 DEF Acked, Leads
    <3>2. \E k \in Asked(s, m.to, m.round) : k \notin appendReqs'
      BY <2>1, <3>1, AckedNext
    <3> QED
      BY <2>2, <3>2
  <2> QED
    BY <1>1, <2>1, <2>2, <2>3, AskedNext, RoundInRange
<1>3. ASSUME NEW p \in Peers(s), DoHeartBeat(s), m = AppendArgs(s, p)
      PROVE  /\ m.round \in 1 .. Len(appendNums'[s])
             /\ Acked(s, m.to, m.round)' = {}
             /\ Asked(s, m.to, m.round)' = {m}
  <2>1. /\ status[s] = Leader /\ UNCHANGED <<appendReps, currentTerm>>
        /\ appendNums' = [appendNums EXCEPT ![s] = Append(@, 1)]
        /\ \A k \in appendReqs' : k \in appendReqs \/ \E q \in Peers(s) : k = AppendArgs(s, q)
    BY <1>3 DEF DoHeartBeat, nodeVars
  <2>2. m.round = Len(appendNums[s]) + 1 /\ m.to = p
    BY <1>3 DEF AppendArgs
  <2>3. Len(appendNums[s]) \in Nat /\ Len(appendNums'[s]) = Len(appendNums[s]) + 1
    BY <2>1, PlainType, LenProperties, AppendProperties
  <2>4. m.round \in 1 .. Len(appendNums'[s]) /\ m.round \notin 1 .. Len(appendNums[s])
    BY <2>2, <2>3
  <2>5. Acked(s, m.to, m.round)' = {}
    BY <2>1, <2>4 DEF CallsInv, Acked
  <2>6. ASSUME NEW k \in Asked(s, m.to, m.round)' PROVE k = m
    <3>1. k \in appendReqs' /\ k.from = s /\ k.to = p /\ k.term = currentTerm[s] /\ k.round = m.round
      BY <2>1, <2>2 DEF Asked
    <3>2. k \notin appendReqs
      BY <2>1, <2>4, <3>1 DEF CallsInv
    <3>3. PICK q \in Peers(s) : k = AppendArgs(s, q)
      BY <2>1, <3>1, <3>2
    <3>4. q = p
      BY <3>1, <3>3 DEF AppendArgs
    <3> QED
      BY <1>3, <3>3, <3>4
  <2> QED
    BY <1>1, <2>4, <2>5, <2>6
<1>4. ASSUME NewReq(m) PROVE \E p \in Peers(s) : DoHeartBeat(s) /\ m = AppendArgs(s, p)
  <2>1. PICK q \in Server : DoHeartBeat(q) /\ \E p \in Peers(q) : m = AppendArgs(q, p)
    BY <1>4 DEF NewReq
  <2>2. q = s
    BY <2>1 DEF AppendArgs
  <2> QED
    BY <2>1, <2>2
<1> QED
  BY <1>2, <1>3, <1>4, NextCalls DEF CallsStep, ReqsStep

LEMMA NextAcked ==
  ASSUME Impl = "upstream", Snapshots = FALSE, PlainInv, ReachInv, AgreeInv, CallsInv, [Next]_vars,
         NEW s \in Server, status'[s] = Leader,
         NEW r \in appendReps', r.success, r.to = s, r.term = currentTerm'[s]
  PROVE  /\ r.from # s /\ r.round \in 1 .. Len(appendNums'[s])
         /\ Acked(s, r.from, r.round)' = {r}
         /\ ~r.empty => r.sent > 0 /\ r.lastTerm = logs'[s][r.sent].term
<1>1. r \in Acked(s, r.from, r.round)'
  BY DEF Acked
<1>2. CASE r \in appendReps
  <2>1. /\ Leads(s) /\ r.from \in Server /\ r.term = currentTerm[s] /\ status[s] = Leader
        /\ r.sent \in Nat /\ Len(logs[s]) \in Nat
    BY <1>2, AskedLeads, PlainType DEF AppendRep, Leads
  <2>2. /\ r.from # s /\ r.round \in 1 .. Len(appendNums[s]) /\ Acked(s, r.from, r.round) = {r}
        /\ ~r.empty => r.sent > 0 /\ r.lastTerm = logs[s][r.sent].term
    BY <1>2, <2>1 DEF CallsInv
  <2>3. r.sent <= Len(logs[s])
    BY <1>2, <2>1, PlainType DEF ReachInv, Follows, LeadsIn
  <2>4. Asked(s, r.from, r.round) = {}
    BY <2>1, <2>2 DEF CallsInv, Asked
  <2>5. ASSUME NEW q \in Acked(s, r.from, r.round)' PROVE q = r
    <3>1. CASE q \in appendReps
      BY <2>1, <2>2, <3>1 DEF Acked, Leads
    <3>2. CASE q \notin appendReps
      BY <2>1, <2>4, <3>2, AckedNext
    <3> QED
      BY <3>1, <3>2
  <2>6. ~r.empty => logs'[s][r.sent] = logs[s][r.sent]
    BY <2>1, <2>2, <2>3 DEF Leads
  <2> QED
    BY <1>1, <2>1, <2>2, <2>5, <2>6, RoundInRange
<1>3. CASE r \notin appendReps
  <2>1. ~NewRefusal(r)
    BY DEF NewRefusal, AppendReply
  <2>2. PICK m \in appendReqs : HandleAppendEntries(m) /\ r = AnswerOf(m)
    BY <1>3, <2>1, NextCalls DEF CallsStep, RepsStep, NewReply, AnswerOf
  <2>3. /\ m.from = s /\ m.to = r.from /\ m.round = r.round /\ m.term = currentTerm'[s]
        /\ r.sent = m.prev + Len(m.entries) /\ r.empty = (m.entries = <<>>)
        /\ r.lastTerm = LastTermOf(m.entries)
    BY <2>2, AnswerFields
  <2>4. /\ Leads(s) /\ m.term = currentTerm[s] /\ status[s] = Leader
        /\ m.to \in Server /\ m.prev \in Nat /\ m.entries \in Seq(Entry)
        /\ Len(m.entries) \in Nat /\ Len(logs[s]) \in Nat
    BY <2>3, AskedLeads, PlainType, LenProperties DEF AppendReq, Leads
  <2>5. /\ m.round \in 1 .. Len(appendNums[s])
        /\ Acked(s, m.to, m.round) = {} /\ Asked(s, m.to, m.round) = {m}
    BY <2>3, <2>4 DEF CallsInv
  <2>6. ASSUME NEW q \in Acked(s, r.from, r.round)' PROVE q = r
    <3>1. q \notin appendReps
      BY <2>3, <2>4, <2>5 DEF Acked, Leads
    <3>2. q \in appendReps'
      BY DEF Acked
    <3>3. appendReps' \subseteq appendReps \cup {AnswerOf(m)}
      BY <2>2 DEF HandleAppendEntries, AnswerOf
    <3> QED
      BY <2>2, <3>1, <3>2, <3>3
  <2>7. ASSUME ~r.empty PROVE r.sent > 0 /\ r.lastTerm = logs'[s][r.sent].term
    <3>1. m.entries # <<>>
      BY <2>3, <2>7, Zenon
    <3>2. Len(m.entries) \in 1 .. Len(m.entries)
      BY <2>4, <3>1, EmptySeq
    <3>3. r.lastTerm = m.entries[Len(m.entries)].term
      BY <2>3, <3>1 DEF LastTermOf
    <3>4. \A k \in 1 .. Len(m.entries) : m.entries[k] = logs[s][m.prev + k]
      BY <2>3, <2>4 DEF AgreeInv, LeadsIn
    <3>5. m.entries[Len(m.entries)] = logs[s][r.sent]
      BY <2>3, <3>2, <3>4
    <3>6. r.sent \in 1 .. Len(logs[s])
      <4>1. m.prev + Len(m.entries) <= Len(logs[s])
        BY <2>3, <2>4, PlainType DEF ReachInv, LeadsIn
      <4> QED
        BY <2>3, <2>4, <3>2, <4>1
    <3> QED
      BY <2>4, <3>3, <3>5, <3>6 DEF Leads
  <2>8. r.from # s
    BY <2>3 DEF PlainInv, SendersInv
  <2> QED
    BY <1>1, <2>3, <2>4, <2>5, <2>6, <2>7, <2>8, RoundInRange
<1> QED
  BY <1>2, <1>3

LEMMA InitCalls == Init => CallsInv /\ RoundsInv
  BY DEF Init, CallsInv, RoundsInv, Follower, Leader

LEMMA NextCallsInv ==
  ASSUME Impl = "upstream", Snapshots = FALSE, PlainInv, ReachInv, AgreeInv, CallsInv, [Next]_vars
  PROVE  CallsInv'
<1>1. ASSUME NEW s \in Server, status'[s] = Leader
      PROVE  \A m \in appendReqs' : m.from = s /\ m.term = currentTerm'[s] =>
               /\ m.round \in 1 .. Len(appendNums'[s])
               /\ Acked(s, m.to, m.round)' = {}
               /\ Asked(s, m.to, m.round)' = {m}
  BY <1>1, NextAsked
<1>2. ASSUME NEW s \in Server, status'[s] = Leader
      PROVE  \A r \in appendReps' : r.success /\ r.to = s /\ r.term = currentTerm'[s] =>
               /\ r.from # s /\ r.round \in 1 .. Len(appendNums'[s])
               /\ Acked(s, r.from, r.round)' = {r}
               /\ ~r.empty => r.sent > 0 /\ r.lastTerm = logs'[s][r.sent].term
  BY <1>2, NextAcked
<1> QED
  BY <1>1, <1>2 DEF CallsInv
-----------------------------------------------------------------------------
(* RoundsInv is inductive *)

MayCountFinite(s, n, end) ==
  IsFiniteSet(MayCount(s, n, end)) /\ Cardinality(MayCount(s, n, end)) \in Nat

LEMMA MayCountIsFinite ==
  ASSUME NEW s, NEW n, NEW end
  PROVE  /\ MayCountFinite(s, n, end) /\ MayCountFinite(s, n, end)'
         /\ MayCount(s, n, end) \subseteq Server /\ MayCount(s, n, end)' \subseteq Server
<1>1. MayCount(s, n, end) \subseteq Server /\ MayCount(s, n, end)' \subseteq Server
  BY DEF MayCount, Peers
<1> QED
  BY <1>1, ServerAssumption, FS_Subset, FS_CardinalityType DEF MayCountFinite

\* Who may have been counted stays so.
LEMMA MayCountGrows ==
  ASSUME Impl = "upstream", Snapshots = FALSE, PlainInv, AgreeInv, [Next]_vars,
         NEW s \in Server, Leads(s), NEW n \in 1 .. Len(appendNums[s]), NEW end \in Nat
  PROVE  MayCount(s, n, end) \subseteq MayCount(s, n, end)'
<1> SUFFICES ASSUME NEW p \in MayCount(s, n, end) PROVE p \in MayCount(s, n, end)'
  OBVIOUS
<1>1. /\ p \in Peers(s) /\ p \in Server /\ Asked(s, p, n) = {} /\ Acked(s, p, n) = {}
      /\ end > 0 => Knows(s, p, end)
  BY DEF MayCount, Peers
<1>2. Asked(s, p, n)' = {}
  BY <1>1, AskedNext
<1>3. ASSUME NEW r \in Acked(s, p, n)' PROVE FALSE
  <2>1. r \notin appendReps
    BY <1>1 DEF Acked, Leads
  <2> QED
    BY <1>1, <2>1, AckedNext
<1>4. end > 0 => KnowsAfter(s, p, end)
  BY <1>1, KnowsStays
<1> QED
  BY <1>1, <1>2, <1>3, <1>4 DEF MayCount, Knows, KnowsAfter, Agree, AgreeAfter

\* A peer whose acceptance is handled may have been counted from then on.
LEMMA HandledMayCount ==
  ASSUME Impl = "upstream", Snapshots = FALSE, PlainInv, ReachInv, AgreeInv, CallsInv, [Next]_vars,
         NEW s \in Server, Leads(s), NEW r \in appendReps, r.to = s, HandleAppendSuccess(r),
         r.term = currentTerm[s], r.round \in 1 .. Len(appendNums[s])
  PROVE  /\ r.from \notin MayCount(s, r.round, r.sent)
         /\ r.from \in MayCount(s, r.round, r.sent)'
<1> DEFINE p == r.from
<1>1. /\ p \in Server /\ r.sent \in Nat /\ r.success /\ status[s] = Leader
      /\ appendReps' = appendReps \ {r} /\ r \in Acked(s, p, r.round)
  BY PlainType DEF AppendRep, HandleAppendSuccess, Leads, Acked
<1>2. p \in Peers(s) /\ Acked(s, p, r.round) = {r}
  BY <1>1 DEF CallsInv, Peers
<1>3. ASSUME NEW m \in Asked(s, p, r.round) PROVE FALSE
  <2>1. m \in appendReqs /\ m.from = s /\ m.term = currentTerm[s] /\ m.to = p /\ m.round = r.round
    BY DEF Asked
  <2>2. Acked(s, m.to, m.round) = {}
    BY <1>1, <2>1 DEF CallsInv
  <2> QED
    BY <1>2, <2>1, <2>2
<1>4. Asked(s, p, r.round)' = {}
  BY <1>1, <1>3, AskedNext
<1>5. ASSUME NEW q \in Acked(s, p, r.round)' PROVE FALSE
  BY <1>1, <1>2, <1>5 DEF Acked, Leads
<1>6. ASSUME r.sent > 0 PROVE KnowsAfter(s, p, r.sent)
  <2>1. Knows(s, p, r.sent)
    BY <1>1, <1>6 DEF AgreeInv, LeadsIn, Knows
  <2> QED
    BY <1>1, <1>6, <2>1, KnowsStays
<1>7. p \notin MayCount(s, r.round, r.sent)
  BY <1>1 DEF MayCount
<1>8. p \in MayCount(s, r.round, r.sent)'
  BY <1>2, <1>4, <1>5, <1>6 DEF MayCount, Knows, KnowsAfter, Agree, AgreeAfter
<1> QED
  BY <1>7, <1>8

\* What RoundsInv says of a round, for the end that its calls have.
Ends(s, n, end) ==
  \A p \in Server : /\ \A m \in Asked(s, p, n) : m.prev + Len(m.entries) = end
                    /\ \A r \in Acked(s, p, n) : r.sent = end

LEMMA EndsStay ==
  ASSUME Snapshots = FALSE, PlainInv, [Next]_vars, NEW s \in Server, Leads(s),
         NEW n \in 1 .. Len(appendNums[s]), NEW end, Ends(s, n, end)
  PROVE  Ends(s, n, end)'
<1>1. ASSUME NEW p \in Server, NEW m \in Asked(s, p, n)' PROVE m.prev + Len(m.entries) = end
  BY <1>1, AskedNext DEF Ends
<1>2. ASSUME NEW p \in Server, NEW r \in Acked(s, p, n)' PROVE r.sent = end
  <2>1. CASE r \in appendReps
    <3>1. r \in Acked(s, p, n)
      BY <1>2, <2>1 DEF Acked, Leads
    <3> QED
      BY <1>2, <3>1 DEF Ends
  <2>2. CASE r \notin appendReps
    <3>1. PICK m \in Asked(s, p, n) : m \notin appendReqs' /\ HandleAppendEntries(m)
      BY <1>2, <2>2, AckedNext
    <3>2. r \in appendReps' /\ appendReps' \subseteq appendReps \cup {AnswerOf(m)}
      BY <1>2, <3>1 DEF HandleAppendEntries, AnswerOf, Acked
    <3>3. r = AnswerOf(m)
      BY <2>2, <3>2
    <3>4. r.sent = m.prev + Len(m.entries)
      BY <3>3, AnswerFields
    <3> QED
      BY <1>2, <3>1, <3>4 DEF Ends
  <2> QED
    BY <2>1, <2>2
<1> QED
  BY <1>1, <1>2 DEF Ends

\* The counter of a round and those it may count, after a step.
LEMMA CounterNext ==
  ASSUME Impl = "upstream", Snapshots = FALSE, PlainInv, ReachInv, AgreeInv, CallsInv, [Next]_vars,
         NEW s \in Server, Leads(s), NEW n \in 1 .. Len(appendNums[s]), NEW end \in Nat,
         Ends(s, n, end), appendNums[s][n] <= 1 + Cardinality(MayCount(s, n, end))
  PROVE  appendNums'[s][n] <= 1 + Cardinality(MayCount(s, n, end)')
<1> DEFINE before == Cardinality(MayCount(s, n, end))
           after == Cardinality(MayCount(s, n, end)')
           num == appendNums[s][n]
           next == appendNums'[s][n]
<1>1. /\ before \in Nat /\ after \in Nat /\ num \in Nat /\ num <= 1 + before
      /\ appendNums \in [Server -> Seq(Nat)] /\ appendNums[s] \in Seq(Nat)
  BY MayCountIsFinite, PlainType, ElementOfSeq DEF MayCountFinite
<1>2. before <= after
  <2>1. MayCount(s, n, end) \in SUBSET (MayCount(s, n, end)')
    BY MayCountGrows
  <2>2. IsFiniteSet(MayCount(s, n, end)')
    BY MayCountIsFinite DEF MayCountFinite
  <2> QED
    BY <2>1, <2>2, FS_Subset
<1>3. CASE next = num
  BY <1>1, <1>2, <1>3
<1>4. CASE DoHeartBeat(s)
  <2>1. appendNums'[s] = Append(appendNums[s], 1)
    BY <1>1, <1>4 DEF DoHeartBeat
  <2>2. next = num
    BY <1>1, <2>1, AppendProperties
  <2> QED
    BY <1>3, <2>2
<1>5. ASSUME NEW r \in appendReps, r.to = s, HandleAppendSuccess(r), next # num
      PROVE  next <= 1 + after
  <2>1. /\ r.term = currentTerm[s] /\ r.round = n /\ next \in {0, num + 1}
    BY <1>1, <1>5 DEF HandleAppendSuccess
  <2>2. r.sent = end
    <3>1. r.from \in Server /\ r \in Acked(s, r.from, n)
      BY <1>5, <2>1, PlainType DEF AppendRep, Acked, HandleAppendSuccess
    <3> QED
      BY <3>1 DEF Ends
  <2>3. r.from \notin MayCount(s, n, end) /\ r.from \in MayCount(s, n, end)'
    BY <1>5, <2>1, <2>2, HandledMayCount
  <2>4. Cardinality(MayCount(s, n, end) \cup {r.from}) = before + 1
    BY <2>3, MayCountIsFinite, FS_AddElement DEF MayCountFinite
  <2>5. MayCount(s, n, end) \cup {r.from} \subseteq MayCount(s, n, end)'
    BY <2>3, MayCountGrows
  <2>6. before + 1 <= after
    BY <2>4, <2>5, MayCountIsFinite, FS_Subset DEF MayCountFinite
  <2> HIDE DEF before, after, num, next
  <2> QED
    BY <1>1, <2>1, <2>6
<1> QED
  BY <1>3, <1>4, <1>5, NextCalls DEF CallsStep, CountStep, Reset, Leads

RoundOk(s, n, end) ==
  Ends(s, n, end) /\ appendNums[s][n] <= 1 + Cardinality(MayCount(s, n, end))

LEMMA RoundsAre ==
  RoundsInv <=> \A s \in Server : status[s] = Leader =>
                  \A n \in 1 .. Len(appendNums[s]) : \E end \in 0 .. Len(logs[s]) : RoundOk(s, n, end)
  BY DEF RoundsInv, RoundOk, Ends

\* A new round calls with the log as it is, and has counted the leader alone.
LEMMA NewRound ==
  ASSUME Snapshots = FALSE, PlainInv, ReachInv, CallsInv, [Next]_vars,
         NEW s \in Server, Leads(s), RoundsMore(s),
         NEW n, n = Len(appendNums[s]) + 1, NEW end, end = Len(logs[s])
  PROVE  end \in 0 .. Len(logs'[s]) /\ RoundOk(s, n, end)'
<1>1. /\ status[s] = Leader /\ UNCHANGED <<appendReps, currentTerm, logs>>
      /\ \A k \in appendReqs' : k \in appendReqs \/ \E q \in Peers(s) : k = AppendArgs(s, q)
      /\ appendNums'[s] = Append(appendNums[s], 1)
  BY DEF RoundsMore, DoHeartBeat, nodeVars, logVars
<1>2. /\ appendNums[s] \in Seq(Nat) /\ Len(appendNums[s]) \in Nat /\ end \in Nat
      /\ end \in 0 .. Len(logs'[s])
  BY <1>1, PlainType, LenProperties
<1>3. n \notin 1 .. Len(appendNums[s])
  BY <1>2
<1>4. appendNums'[s][n] = 1
  BY <1>1, <1>2, AppendProperties
<1>5. ASSUME NEW p \in Server, NEW m \in Asked(s, p, n)' PROVE m.prev + Len(m.entries) = end
  <2>1. m \in appendReqs' /\ m.from = s /\ m.term = currentTerm[s] /\ m.round = n
    BY <1>1, <1>5 DEF Asked
  <2>2. m \notin appendReqs
    BY <1>1, <1>3, <2>1 DEF CallsInv
  <2>3. PICK q \in Peers(s) : m = AppendArgs(s, q)
    BY <1>1, <2>1, <2>2
  <2>4. q \in Server /\ nextIndex[s][q] \in 1 .. LastLogIndex(s) + 1
    BY <1>1 DEF Peers, ReachInv
  <2> QED
    BY <2>3, <2>4, SentReach
<1>6. ASSUME NEW p \in Server, NEW r \in Acked(s, p, n)' PROVE FALSE
  BY <1>1, <1>3, <1>6 DEF Acked, CallsInv
<1>7. Ends(s, n, end)'
  BY <1>1, <1>5, <1>6 DEF Ends
<1>8. appendNums'[s][n] <= 1 + Cardinality(MayCount(s, n, end)')
  BY <1>4, MayCountIsFinite DEF MayCountFinite
<1>9. RoundOk(s, n, end)'
  BY <1>7, <1>8 DEF RoundOk
<1> QED
  BY <1>2, <1>9

LEMMA NextRounds ==
  ASSUME Impl = "upstream", Snapshots = FALSE, PlainInv, ReachInv, AgreeInv, CallsInv, RoundsInv,
         [Next]_vars
  PROVE  RoundsInv'
<1> SUFFICES ASSUME NEW s \in Server, status'[s] = Leader, NEW n \in 1 .. Len(appendNums'[s])
             PROVE  \E end \in 0 .. Len(logs'[s]) : RoundOk(s, n, end)'
  BY DEF RoundsInv, RoundOk, Ends
<1>1. CASE Reset(s)
  BY <1>1, EmptySeq DEF Reset
<1>2. CASE Leads(s) /\ n \in 1 .. Len(appendNums[s])
  <2>1. status[s] = Leader
    BY <1>2 DEF Leads
  <2>2. PICK end \in 0 .. Len(logs[s]) : RoundOk(s, n, end)
    BY <1>2, <2>1, RoundsAre
  <2>3. end \in Nat /\ end \in 0 .. Len(logs'[s])
    <3>1. Len(logs[s]) \in Nat /\ Len(logs'[s]) \in Nat /\ Len(logs[s]) <= Len(logs'[s])
      BY <1>2, PlainType DEF Leads
    <3> QED
      BY <3>1
  <2>4. Ends(s, n, end)'
    BY <1>2, <2>2, EndsStay DEF RoundOk
  <2>5. appendNums'[s][n] <= 1 + Cardinality(MayCount(s, n, end)')
    BY <1>2, <2>2, <2>3, CounterNext DEF RoundOk
  <2>6. RoundOk(s, n, end)'
    BY <2>4, <2>5 DEF RoundOk
  <2> QED
    BY <2>3, <2>6
<1>3. CASE Leads(s) /\ n \notin 1 .. Len(appendNums[s])
  <2>1. RoundsMore(s) /\ n = Len(appendNums[s]) + 1
    <3> DEFINE old == Len(appendNums[s])
               new == Len(appendNums'[s])
    <3>1. old \in Nat /\ n \in 1 .. new /\ n \notin 1 .. old
      BY <1>3, PlainType, LenProperties
    <3>2. new = old \/ (RoundsMore(s) /\ new = old + 1)
      BY <1>3, RoundsGrow DEF RoundsSame, RoundsMore
    <3> HIDE DEF old, new
    <3>3. RoundsMore(s) /\ n = old + 1
      BY <3>1, <3>2
    <3> QED
      BY <3>3 DEF old
  <2>2. PICK end : end = Len(logs[s])
    OBVIOUS
  <2>3. end \in 0 .. Len(logs'[s]) /\ RoundOk(s, n, end)'
    BY <1>3, <2>1, <2>2, NewRound
  <2> QED
    BY <2>3
<1> QED
  BY <1>1, <1>2, <1>3, NextStays DEF FirstVictory

LEMMA CallsInvariant ==
  ASSUME Impl = "upstream", Snapshots = FALSE
  PROVE  Spec => [](CallsInv /\ RoundsInv)
<1>1. PlainInv /\ ReachInv /\ AgreeInv /\ CallsInv /\ RoundsInv /\ [Next]_vars => (CallsInv /\ RoundsInv)'
  BY NextCallsInv, NextRounds
<1> QED
  BY <1>1, InitCalls, PlainInvariant, ReachInvariant, AgreeInvariant, PTL DEF Spec

\* Every entry has one maker, calls and answers tell the truth of their leader's
\* log, and each round counts servers that accepted what it sent.
THEOREM ReplicationConsistent ==
  ASSUME Impl = "upstream", Snapshots = FALSE
  PROVE  Spec => []ReplicationInv
<1>1. PlainInv /\ EntriesInv /\ ReachInv /\ AgreeInv /\ (CallsInv /\ RoundsInv) => ReplicationInv
  BY DEF PlainInv, ReplicationInv
<1> QED
  BY <1>1, PlainInvariant, EntriesInvariant, ReachInvariant, AgreeInvariant, CallsInvariant, PTL

-----------------------------------------------------------------------------
(* Commits *)

\* A node that leads before and after a step commits by handling an acceptance.
LEMMA CommitsBySuccess ==
  ASSUME Snapshots = FALSE, PlainInv, [Next]_vars, NEW s \in Server,
         status[s] = Leader, status'[s] = Leader, commitIndex'[s] # commitIndex[s]
  PROVE  \E r \in appendReps : r.to = s /\ HandleAppendSuccess(r)
<1>1. commitIndex \in [Server -> Nat] /\ status \in [Server -> {Follower, Candidate, Leader}]
  BY DEF PlainInv, TypeInv, TypeOK, LogType, NodeType
<1>2. ASSUME commitIndex' = commitIndex PROVE FALSE
  BY <1>2
<1>3. ASSUME NEW m \in appendReqs, HandleAppendEntries(m) PROVE FALSE
  <2>1. CASE m.to = s
    BY <1>1, <1>3, <2>1 DEF HandleAppendEntries, Follower, Leader
  <2>2. CASE m.to # s
    BY <1>1, <1>3, <2>2 DEF HandleAppendEntries
  <2> QED
    BY <2>1, <2>2
<1>4. ASSUME NEW r \in appendReps, HandleAppendSuccess(r) PROVE r.to = s
  BY <1>1, <1>4 DEF HandleAppendSuccess
<1>5. snapReqs = {} /\ snapReps = {} /\ ~Snapshots
  BY DEF PlainInv, NoSnapshotsInv
<1> USE DEF logVars, vars
<1>6. ASSUME NEW q \in Server, DoElection(q) PROVE FALSE
  BY <1>2, <1>6 DEF DoElection
<1>7. ASSUME NEW m \in voteReqs, HandleRequestVote(m) PROVE FALSE
  BY <1>2, <1>7 DEF HandleRequestVote
<1>8. ASSUME NEW m \in voteReps, HandleRequestVoteReply(m) PROVE FALSE
  BY <1>2, <1>8 DEF HandleRequestVoteReply
<1>9. ASSUME NEW q \in Server, NEW v \in Value, Start(q, v) PROVE FALSE
  BY <1>2, <1>9 DEF Start
<1>10. ASSUME NEW q \in Server, DoHeartBeat(q) PROVE FALSE
  BY <1>2, <1>10 DEF DoHeartBeat
<1>11. ASSUME NEW m \in appendReqs, RejectStaleAppend(m) PROVE FALSE
  BY <1>2, <1>11 DEF RejectStaleAppend
<1>12. ASSUME NEW r \in appendReps, HandleAppendRefusal(r) PROVE FALSE
  BY <1>2, <1>12 DEF HandleAppendRefusal
<1>13. ASSUME NEW q \in Server, ApplierTick(q) PROVE FALSE
  BY <1>2, <1>13 DEF ApplierTick
<1>14. ASSUME NEW q \in Server, NEW p \in Server, SendSnapShot(q, p) PROVE FALSE
  BY <1>2, <1>14 DEF SendSnapShot
<1>15. ASSUME NEW q \in Server, NEW index, Snapshot(q, index) PROVE FALSE
  BY <1>5, <1>15 DEF Snapshot
<1>16. LoseCall \/ UNCHANGED vars => FALSE
  BY <1>2 DEF LoseCall
<1> QED
  BY <1>3, <1>4, <1>5, <1>6, <1>7, <1>8, <1>9, <1>10, <1>11, <1>12, <1>13, <1>14, <1>15,
     <1>16 DEF Next

\* The servers on which the leader's entry at k rests.
Holders(s, k) ==
  {p \in Server : \/ currentTerm[p] > currentTerm[s]
                  \/ Len(Log(p)) >= k /\ Log(p)[k] = Log(s)[k]}

LEMMA KnownHolds ==
  ASSUME PlainInv, EntriesInv, NEW s \in Server, NEW p \in Server, NEW k \in Nat, k > 0, Knows(s, p, k)
  PROVE  p \in Holders(s, k)
<1>1. /\ Log(s) = logs[s] /\ Log(p) = logs[p] /\ Len(logs[s]) \in Nat /\ Len(logs[p]) \in Nat
      /\ currentTerm[s] \in Nat /\ currentTerm[p] \in Nat
  BY PlainType
<1>2. CASE currentTerm[p] > currentTerm[s]
  BY <1>2 DEF Holders
<1>3. CASE currentTerm[p] = currentTerm[s]
  <2>1. Agree(s, p, k)
    BY <1>3 DEF Knows
  <2>2. k \in 1 .. MinOf(Len(Log(s)), Len(Log(p))) /\ Log(s)[k].term = Log(p)[k].term
    BY <1>1, <2>1 DEF Agree, MinOf
  <2>3. EntryUnique
    BY EntriesAgree DEF PlainInv
  <2>4. Log(s)[k] = Log(p)[k]
    BY <2>2, <2>3 DEF EntryUnique
  <2>5. Len(Log(p)) >= k
    BY <1>1, <2>1 DEF Agree
  <2> QED
    BY <2>4, <2>5 DEF Holders
<1> QED
  BY <1>1, <1>2, <1>3 DEF Knows

\* The acceptance that commits completes a majority of the round, the leader among them.
LEMMA CommitsBacked ==
  ASSUME Impl = "upstream", Snapshots = FALSE, PlainInv, EntriesInv, ReachInv, AgreeInv,
         CallsInv, RoundsInv, [Next]_vars, NEW s \in Server,
         status[s] = Leader, status'[s] = Leader, commitIndex'[s] > commitIndex[s]
  PROVE  /\ Log(s)[commitIndex'[s]].term = currentTerm[s]
         /\ Cardinality(Holders(s, commitIndex'[s])) >= Majority
<1>1. /\ commitIndex \in [Server -> Nat] /\ commitIndex[s] \in Nat /\ currentTerm[s] \in Nat
      /\ logs[s] \in Seq(Entry) /\ Len(logs[s]) \in Nat /\ Log(s) = logs[s]
  BY PlainType DEF PlainInv, TypeInv, TypeOK, LogType
<1>2. PICK r \in appendReps : r.to = s /\ HandleAppendSuccess(r)
  <2>1. commitIndex'[s] # commitIndex[s]
    BY <1>1
  <2> QED
    BY <2>1, CommitsBySuccess
<1>3. Leads(s)
  BY NextStays DEF FirstVictory, Reset
<1> DEFINE n == r.round
           k == r.sent
           p == r.from
<1>4. /\ r.success /\ r.term = currentTerm[s] /\ MayCommit(s, r) /\ commitIndex'[s] = k
      /\ appendNums[s][n] + 1 >= Majority /\ k \in Nat /\ p \in Server
  <2>1. k \in Nat /\ p \in Server
    BY PlainType DEF AppendRep
  <2> DEFINE backed == /\ r.term = currentTerm[s] /\ status[s] = Leader
                       /\ appendNums[s][n] + 1 >= Majority
                       /\ MayCommit(s, r)
             commit == IF backed THEN MaxOf(commitIndex[s], k) ELSE commitIndex[s]
  <2>2. r.success /\ commitIndex'[s] = commit
    BY <1>1, <1>2 DEF HandleAppendSuccess
  <2> QED
    BY <1>1, <2>1, <2>2 DEF MaxOf
<1>5. /\ n \in 1 .. Len(appendNums[s]) /\ p # s /\ k > 0 /\ r.lastTerm = logs[s][k].term
      /\ r \in Acked(s, p, n)
  BY <1>2, <1>4 DEF CallsInv, MayCommit, Acked
<1>6. Log(s)[k].term = currentTerm[s]
  BY <1>1, <1>4, <1>5 DEF MayCommit
<1>7. PICK end \in 0 .. Len(logs[s]) : RoundOk(s, n, end)
  BY <1>5, RoundsAre
<1>8. end = k /\ appendNums[s][n] <= 1 + Cardinality(MayCount(s, n, k))
  BY <1>4, <1>5, <1>7 DEF RoundOk, Ends
<1>9. k <= Len(logs[s])
  BY <1>1, <1>7, <1>8
<1> DEFINE counted2 == MayCount(s, n, k) \cup {p}
           all == counted2 \cup {s}
<1>10. p \notin MayCount(s, n, k) /\ s \notin counted2
  BY <1>5 DEF MayCount, Peers
<1>11. /\ Cardinality(all) = Cardinality(MayCount(s, n, k)) + 2
       /\ Cardinality(MayCount(s, n, k)) \in Nat
  <2>1. /\ IsFiniteSet(counted2)
        /\ Cardinality(counted2) = Cardinality(MayCount(s, n, k)) + 1
    BY <1>10, MayCountIsFinite, FS_AddElement DEF MayCountFinite
  <2>2. Cardinality(all) = Cardinality(counted2) + 1
    BY <1>10, <2>1, FS_AddElement
  <2> QED
    BY <2>1, <2>2, MayCountIsFinite DEF MayCountFinite
<1>12. all \subseteq Holders(s, k)
  <2>1. ASSUME NEW q \in MayCount(s, n, k) PROVE q \in Holders(s, k)
    BY <1>4, <1>5, KnownHolds DEF MayCount, Peers
  <2>2. p \in Holders(s, k)
    <3>1. Knows(s, p, k)
      BY <1>2, <1>4, <1>5 DEF AgreeInv, LeadsIn, Knows
    <3> QED
      BY <1>4, <1>5, <3>1, KnownHolds
  <2>3. s \in Holders(s, k)
    BY <1>1, <1>4, <1>9 DEF Holders
  <2> QED
    BY <2>1, <2>2, <2>3
<1>13. Cardinality(all) <= Cardinality(Holders(s, k)) /\ Cardinality(Holders(s, k)) \in Nat
  <2>1. Holders(s, k) \in SUBSET Server /\ all \in SUBSET Holders(s, k)
    BY <1>12 DEF Holders
  <2>2. IsFiniteSet(Holders(s, k))
    BY <2>1, ServerAssumption, FS_Subset
  <2> QED
    BY <2>1, <2>2, FS_Subset, FS_CardinalityType
<1>14. appendNums[s][n] \in Nat /\ Majority \in Nat
  BY <1>5, PlainType, ElementOfSeq, MajorityType
<1> HIDE DEF all, n, k, p
<1>15. Cardinality(Holders(s, k)) >= Majority
  BY <1>4, <1>8, <1>11, <1>13, <1>14
<1> QED
  BY <1>4, <1>6, <1>15

\* A leader of the upstream version commits only entries of its own term that a
\* majority holds, or has held before moving on to a later term: whatever replies
\* of whatever rounds complete the majority.
THEOREM CommitsAreBacked ==
  ASSUME Impl = "upstream", Snapshots = FALSE
  PROVE  Spec => CommitBacked
<1>1. PlainInv /\ EntriesInv /\ ReachInv /\ AgreeInv /\ CallsInv /\ RoundsInv /\ [Next]_vars =>
        [\A s \in Server :
           LET k == commitIndex'[s]
               holders == {p \in Server : \/ currentTerm[p] > currentTerm[s]
                                          \/ Len(Log(p)) >= k /\ Log(p)[k] = Log(s)[k]}
           IN  (status[s] = Leader /\ status'[s] = Leader /\ k > commitIndex[s]) =>
                 /\ Log(s)[k].term = currentTerm[s]
                 /\ Cardinality(holders) >= Majority]_vars
  BY CommitsBacked DEF Holders
<1> QED
  BY <1>1, PlainInvariant, EntriesInvariant, ReachInvariant, AgreeInvariant, CallsInvariant, PTL
  DEF Spec, CommitBacked
=============================================================================
