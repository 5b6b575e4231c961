----------------------------- MODULE RaftProofs -----------------------------
(***************************************************************************)
(* What holds of module Raft for every cluster, every bound and both       *)
(* versions of the source: the types and the order of the indices          *)
(* (TypeInv); then the votes cast, on their way and counted (VoteInv),     *)
(* which keep to one vote per server and term, and therefore to one leader *)
(* per term.                                                               *)
(***************************************************************************)
EXTENDS RaftInv, FiniteSetTheorems, SequenceTheorems, TLAPS

-----------------------------------------------------------------------------
(* The log operators *)

LEMMA LastTermType ==
  ASSUME NEW entries \in Seq(Entry)
  PROVE  LastTermOf(entries) \in Nat
<1>1. CASE entries = <<>>
  BY <1>1 DEF LastTermOf
<1>2. CASE entries # <<>>
  <2>1. Len(entries) \in 1 .. Len(entries)
    BY <1>2, EmptySeq
  <2>2. entries[Len(entries)] \in Entry
    BY <2>1, ElementOfSeq
  <2> QED
    BY <1>2, <2>2 DEF LastTermOf, Entry
<1> QED
  BY <1>1, <1>2

LEMMA LogTermType ==
  ASSUME NEW snap \in Seq(Entry), NEW log \in Seq(Entry),
         NEW i \in Len(snap) .. Len(snap) + Len(log)
  PROVE  GetLogTermFromLogIndex(snap, log, i) \in Nat
<1>1. CASE i = Len(snap)
  BY <1>1, LastTermType DEF GetLogTermFromLogIndex
<1>2. CASE i # Len(snap)
  <2>1. i - Len(snap) \in 1 .. Len(log)
    BY <1>2
  <2>2. log[i - Len(snap)] \in Entry
    BY <2>1, ElementOfSeq
  <2> QED
    BY <1>2, <2>2 DEF GetLogTermFromLogIndex, Entry
<1> QED
  BY <1>1, <1>2

LEMMA ChooseMember ==
  ASSUME NEW S, S # {}
  PROVE  (CHOOSE i \in S : TRUE) \in S
  OBVIOUS

LEMMA LastType ==
  ASSUME NEW snap \in Seq(Entry), NEW log \in Seq(Entry)
  PROVE  /\ GetLastLogIndex(snap, log) \in Nat
         /\ GetLastLogTerm(snap, log) \in Nat
  BY LastTermType DEF GetLastLogIndex, GetLastLogTerm

\* The proposed nextIndex is a natural number.
LEMMA BackOffType ==
  ASSUME NEW snap \in Seq(Entry), NEW log \in Seq(Entry), NEW prev \in Nat
  PROVE  BackOff(snap, log, prev) \in Nat
<1> DEFINE T(i) == GetLogTermFromLogIndex(snap, log, i)
           stop == {i \in Len(snap) .. prev : /\ T(i) # T(prev)
                                              /\ \A j \in (i + 1) .. prev : T(j) = T(prev)}
<1>1. BackOff(snap, log, prev) = IF stop = {} THEN prev ELSE (CHOOSE i \in stop : TRUE) + 1
  BY DEF BackOff
<1>2. ASSUME stop # {}
      PROVE  (CHOOSE i \in stop : TRUE) \in Nat
  <2>1. stop \subseteq Nat
    OBVIOUS
  <2> HIDE DEF stop
  <2> QED
    BY <1>2, <2>1, ChooseMember
<1> HIDE DEF stop
<1> QED
  BY <1>1, <1>2

\* Merging entries into a log never shortens it, and yields a log that reaches
\* to the last of them.
LEMMA MergeType ==
  ASSUME NEW log \in Seq(Entry), NEW entries \in Seq(Entry), NEW at \in 0 .. Len(log),
         NEW snap
  PROVE  /\ MergeEntries(snap, log, at, entries) \in Seq(Entry)
         /\ Len(MergeEntries(snap, log, at, entries)) = MaxOf(Len(log), at + Len(entries))
<1> DEFINE n == MaxOf(Len(log), at + Len(entries))
<1>1. n \in Nat
  BY DEF MaxOf
<1>2. ASSUME NEW kept
      PROVE  /\ Written(log, at, entries, kept) \in Seq(Entry)
             /\ Len(Written(log, at, entries, kept)) = n
  <2> DEFINE e(i) == IF i > Len(log) \/ i \in ((at + 1) .. (at + Len(entries))) \ kept
                       THEN entries[i - at] ELSE log[i]
  <2>1. ASSUME NEW i \in 1 .. n
        PROVE  e(i) \in Entry
    <3>1. CASE i > Len(log) \/ i \in ((at + 1) .. (at + Len(entries))) \ kept
      <4>1. i - at \in 1 .. Len(entries)
        BY <3>1 DEF MaxOf
      <4> QED
        BY <3>1, <4>1, ElementOfSeq
    <3>2. CASE ~(i > Len(log) \/ i \in ((at + 1) .. (at + Len(entries))) \ kept)
      <4>1. i \in 1 .. Len(log)
        BY <3>2
      <4> QED
        BY <3>2, <4>1, ElementOfSeq
    <3> QED
      BY <3>1, <3>2
  <2>2. Written(log, at, entries, kept) = [i \in 1 .. n |-> e(i)]
    BY DEF Written
  <2> HIDE DEF e, n
  <2>3. [i \in 1 .. n |-> e(i)] \in [1 .. n -> Entry]
    BY <2>1
  <2> QED
    BY <1>1, <2>2, <2>3
<1> QED
  BY <1>2 DEF MergeEntries

-----------------------------------------------------------------------------
(* Types and ranges *)

\* A suffix of a log from any position after its start is a log.
LEMMA SuffixType ==
  ASSUME NEW log \in Seq(Entry), NEW i \in Nat
  PROVE  /\ SubSeq(log, i + 1, Len(log)) \in Seq(Entry)
         /\ Len(SubSeq(log, i + 1, Len(log))) = IF i < Len(log) THEN Len(log) - i ELSE 0
<1>1. \A j \in (i + 1) .. Len(log) : log[j] \in Entry
  BY ElementOfSeq
<1> QED
  BY <1>1, SubSeqProperties

\* A prefix of a log, entry by entry.
LEMMA PrefixAt ==
  ASSUME NEW log \in Seq(Entry), NEW n \in 0 .. Len(log)
  PROVE  /\ SubSeq(log, 1, n) \in Seq(Entry)
         /\ Len(SubSeq(log, 1, n)) = n
         /\ \A k \in 1 .. n : SubSeq(log, 1, n)[k] = log[k]
<1>1. Len(log) \in Nat /\ n \in Int /\ 1 \in Int
  BY LenProperties
<1>2. \A k \in 1 .. n : log[k] \in Entry
  BY <1>1, ElementOfSeq
<1>3. /\ SubSeq(log, 1, n) \in Seq(Entry)
      /\ Len(SubSeq(log, 1, n)) = IF 1 <= n THEN n - 1 + 1 ELSE 0
      /\ \A k \in 1 .. n - 1 + 1 : SubSeq(log, 1, n)[k] = log[1 + k - 1]
  BY <1>1, <1>2, SubSeqProperties
<1> QED
  BY <1>1, <1>3

TypeInv == TypeOK /\ AppliedInRange

LEMMA IndexType ==
  ASSUME LogType, NEW s \in Server
  PROVE  /\ Base(s) \in Nat /\ Base(s) = Len(snapshot[s])
         /\ Len(logs[s]) \in Nat
         /\ LastLogIndex(s) \in Nat /\ LastLogIndex(s) = Base(s) + Len(logs[s])
<1>1. snapshot[s] \in Seq(Entry) /\ logs[s] \in Seq(Entry)
  BY DEF LogType
<1> QED
  BY <1>1, LastType, LenProperties DEF Base, LastLogIndex, GetLastLogIndex

LEMMA InitType == Init => TypeInv
  BY DEF Init, TypeInv, TypeOK, NodeType, LogType, LeadType, VoteType, CallType,
         AppliedInRange, Base, LastLogIndex, GetLastLogIndex, Follower

LEMMA DoElectionType ==
  ASSUME TypeInv, NEW s \in Server, DoElection(s)
  PROVE  TypeInv'
<1> USE DEF TypeInv, TypeOK, DoElection
<1>1. NodeType'
  BY DEF NodeType, Follower, Candidate, Leader
<1>2. VoteType'
  <2> DEFINE req(p) == [term |-> currentTerm[s] + 1, from |-> s, to |-> p,
                        lastIndex |-> LastLogIndex(s), lastTerm |-> LastLogTerm(s)]
  <2>1. LastLogIndex(s) \in Nat /\ LastLogTerm(s) \in Nat
    BY LastType DEF LastLogIndex, LastLogTerm, LogType
  <2>2. \A p \in Peers(s) : req(p) \in VoteReq
    BY <2>1 DEF VoteReq, Peers, NodeType
  <2>3. voteReqs' = voteReqs \cup {req(p) : p \in Peers(s)}
    OBVIOUS
  <2> HIDE DEF req
  <2>4. voteReqs' \subseteq VoteReq
    BY <2>2, <2>3 DEF VoteType
  <2>5. <<s, currentTerm[s] + 1, s>> \in Vote
    BY DEF Vote, NodeType
  <2> QED
    BY <2>4, <2>5 DEF VoteType
<1>3. LogType' /\ LeadType' /\ CallType' /\ exited' \subseteq Server
  BY DEF LogType, LeadType, CallType, logVars, leadVars, callVars
<1>4. AppliedInRange'
  BY DEF AppliedInRange, Base, LastLogIndex, logVars
<1> QED
  BY <1>1, <1>2, <1>3, <1>4

LEMMA ObserveType ==
  ASSUME NodeType, NEW s \in Server, NEW term \in Nat, Observe(s, term),
         status' \in [Server -> {Follower, Candidate, Leader}]
  PROVE  NodeType'
  BY DEF NodeType, Observe, MaxOf

\* Steps that leave the logs and the indices of every server alone.
LEMMA RangeUnchanged ==
  ASSUME AppliedInRange, UNCHANGED logVars, exited \subseteq exited'
  PROVE  AppliedInRange'
  BY DEF AppliedInRange, Base, LastLogIndex, logVars

LEMMA HandleRequestVoteType ==
  ASSUME TypeInv, NEW m \in voteReqs, HandleRequestVote(m)
  PROVE  TypeInv'
<1> USE DEF TypeInv, TypeOK, HandleRequestVote
<1> DEFINE s == m.to
<1>1. m \in VoteReq /\ s \in Server /\ m.from \in Server /\ m.term \in Nat
  BY DEF VoteType, VoteReq
<1>2. NodeType'
  BY <1>1 DEF NodeType, MaxOf, Follower, Candidate, Leader
<1>3. VoteType'
  <2>1. [term |-> MaxOf(currentTerm[s], m.term), granted |-> VoteGranted(s, m),
         from |-> s, to |-> m.from] \in VoteRep
    <3>1. VoteGranted(s, m) \in BOOLEAN
      BY DEF VoteGranted
    <3>2. MaxOf(currentTerm[s], m.term) \in Nat
      BY <1>1 DEF MaxOf, NodeType
    <3> QED
      BY <1>1, <3>1, <3>2 DEF VoteRep
  <2>2. <<s, m.term, m.from>> \in Vote
    BY <1>1 DEF Vote
  <2> QED
    BY <2>1, <2>2 DEF VoteType
<1>4. LogType' /\ LeadType' /\ CallType' /\ exited' \subseteq Server
  BY DEF LogType, LeadType, CallType, logVars, leadVars, callVars
<1>5. AppliedInRange'
  BY RangeUnchanged
<1> QED
  BY <1>2, <1>3, <1>4, <1>5

LEMMA HandleRequestVoteReplyType ==
  ASSUME TypeInv, NEW m \in voteReps, HandleRequestVoteReply(m)
  PROVE  TypeInv'
<1> USE DEF TypeInv, TypeOK, HandleRequestVoteReply
<1>1. m \in VoteRep /\ m.to \in Server /\ m.from \in Server /\ m.term \in Nat
  BY DEF VoteType, VoteRep
<1>2. NodeType'
  <2>1. status' \in [Server -> {Follower, Candidate, Leader}]
    BY DEF NodeType, Follower, Candidate, Leader
  <2> QED
    BY <1>1, <2>1, ObserveType
<1>3. VoteType'
  <2>1. <<m.from, m.term, m.to>> \in Vote /\ <<m.term, m.to>> \in Nat \X Server
    BY <1>1 DEF Vote
  <2>2. votedNum' \in [Server -> Nat]
    BY <1>1 DEF VoteType
  <2>3. counted' \subseteq Vote /\ elected' \subseteq Nat \X Server
    BY <2>1 DEF VoteType
  <2> QED
    BY <2>2, <2>3 DEF VoteType
<1>4. LeadType'
  <2>1. snapshot[m.to] \in Seq(Entry) /\ logs[m.to] \in Seq(Entry)
    BY <1>1 DEF LogType
  <2>2. LastLogIndex(m.to) \in Nat
    BY <2>1, LastType DEF LastLogIndex
  <2>3. [p \in Server |-> LastLogIndex(m.to) + 1] \in [Server -> Nat]
    BY <2>2
  <2>4. nextIndex' \in [Server -> [Server -> Nat]]
    BY <2>3 DEF LeadType
  <2>5. matchIndex' \in [Server -> [Server -> Nat]]
    BY DEF LeadType
  <2>6. appendNums' \in [Server -> Seq(Nat)]
    BY EmptySeq DEF LeadType
  <2> QED
    BY <2>4, <2>5, <2>6 DEF LeadType
<1>5. LogType' /\ CallType' /\ exited' \subseteq Server
  BY <1>1 DEF LogType, CallType, logVars, callVars, MyAssert
<1>6. AppliedInRange'
  BY RangeUnchanged DEF MyAssert
<1> QED
  BY <1>2, <1>3, <1>4, <1>5, <1>6

LEMMA StartType ==
  ASSUME TypeInv, NEW s \in Server, NEW v \in Value, Start(s, v)
  PROVE  TypeInv'
<1> USE DEF TypeInv, TypeOK, Start
<1>1. [term |-> currentTerm[s], command |-> v] \in Entry
  BY DEF Entry, NodeType
<1>2. LogType'
  BY <1>1 DEF LogType
<1>3. Len(logs'[s]) = Len(logs[s]) + 1 /\ \A p \in Server \ {s} : logs'[p] = logs[p]
  BY <1>1 DEF LogType
<1>4. AppliedInRange'
  BY <1>3 DEF AppliedInRange, Base, LastLogIndex, GetLastLogIndex, LogType
<1>5. NodeType' /\ LeadType' /\ VoteType' /\ CallType' /\ exited' \subseteq Server
  BY DEF NodeType, LeadType, VoteType, CallType, nodeVars, leadVars, voteVars, callVars
<1> QED
  BY <1>2, <1>4, <1>5

LEMMA AppendArgsType ==
  ASSUME TypeInv, NEW s \in Server, NEW p \in Server,
         nextIndex[s][p] > Base(s), nextIndex[s][p] <= LastLogIndex(s) + 1
  PROVE  AppendArgs(s, p) \in AppendReq
<1> USE DEF TypeInv, TypeOK
<1> DEFINE prev == nextIndex[s][p] - 1
<1>1. snapshot[s] \in Seq(Entry) /\ logs[s] \in Seq(Entry) /\ nextIndex[s][p] \in Nat
  BY DEF LogType, LeadType
<1>2. /\ prev \in Len(snapshot[s]) .. Len(snapshot[s]) + Len(logs[s])
      /\ prev \in Nat /\ prev - Base(s) \in Nat
  <2>1. Len(snapshot[s]) \in Nat /\ Len(logs[s]) \in Nat
    BY <1>1, LenProperties
  <2>2. nextIndex[s][p] > Len(snapshot[s])
    BY DEF Base
  <2>3. nextIndex[s][p] <= Len(snapshot[s]) + Len(logs[s]) + 1
    BY DEF LastLogIndex, GetLastLogIndex
  <2>4. \A n, base, len \in Nat : n > base /\ n <= base + len + 1 =>
          n - 1 \in base .. base + len /\ n - 1 \in Nat /\ n - 1 - base \in Nat
    OBVIOUS
  <2> QED
    BY <1>1, <2>1, <2>2, <2>3, <2>4, Zenon DEF Base
<1>3. GetLogTermFromLogIndex(snapshot[s], logs[s], prev) \in Nat
  BY <1>1, <1>2, LogTermType
<1>4. SubSeq(logs[s], prev - Base(s) + 1, Len(logs[s])) \in Seq(Entry)
  BY <1>1, <1>2, SuffixType
<1>5. Len(appendNums[s]) + 1 \in Nat
  BY DEF LeadType
<1>6. currentTerm[s] \in Nat /\ commitIndex[s] \in Nat
  BY DEF NodeType, LogType
<1> HIDE DEF TypeInv, TypeOK
<1> QED
  BY <1>2, <1>3, <1>4, <1>5, <1>6 DEF AppendArgs, AppendReq

LEMMA DoHeartBeatType ==
  ASSUME TypeInv, NEW s \in Server, DoHeartBeat(s)
  PROVE  TypeInv'
<1> USE DEF TypeInv, TypeOK, DoHeartBeat
<1> DEFINE inRange == \A p \in Peers(s) : nextIndex[s][p] \in 1 .. LastLogIndex(s) + 1
           behind == {p \in Peers(s) : nextIndex[s][p] <= Base(s)}
<1>1. CallType'
  <2>1. ASSUME inRange, NEW p \in Peers(s) \ behind
        PROVE  AppendArgs(s, p) \in AppendReq
    <3>1. p \in Server /\ nextIndex[s][p] \in Nat /\ Base(s) \in Nat
      BY DEF Peers, LeadType, LogType, Base
    <3>2. nextIndex[s][p] > Base(s) /\ nextIndex[s][p] <= LastLogIndex(s) + 1
      BY <2>1, <3>1
    <3> QED
      BY <3>1, <3>2, AppendArgsType
  <2>2. appendReqs' \subseteq AppendReq
    BY <2>1 DEF CallType
  <2>3. snapThreads' \subseteq Server \X Server
    BY DEF CallType, Peers
  <2> QED
    BY <2>2, <2>3 DEF CallType
<1>2. LeadType'
  BY DEF LeadType
<1>3. NodeType' /\ LogType' /\ VoteType' /\ exited' \subseteq Server
  BY DEF NodeType, LogType, VoteType, nodeVars, logVars, voteVars, MyAssert
<1>4. AppliedInRange'
  BY RangeUnchanged DEF MyAssert
<1> QED
  BY <1>1, <1>2, <1>3, <1>4

LEMMA AppendReplyType ==
  ASSUME NEW m \in AppendReq, NEW s \in Server, NEW term \in Nat,
         NEW success \in BOOLEAN, NEW update \in Nat \cup {NoUpdate}
  PROVE  AppendReply(s, m, term, success, update) \in AppendRep
<1>1. /\ m.entries \in Seq(Entry) /\ m.prev \in Nat /\ m.round \in Nat /\ m.from \in Server
      /\ Len(m.entries) \in Nat
  BY LenProperties DEF AppendReq
<1>2. m.prev + Len(m.entries) \in Nat /\ LastTermOf(m.entries) \in Nat
  BY <1>1, LastTermType
<1> QED
  BY <1>1, <1>2 DEF AppendReply, AppendRep

LEMMA RejectStaleAppendType ==
  ASSUME TypeInv, NEW m \in appendReqs, RejectStaleAppend(m)
  PROVE  TypeInv'
<1> USE DEF TypeInv, TypeOK, RejectStaleAppend
<1>1. m \in AppendReq /\ m.to \in Server
  BY DEF CallType, AppendReq
<1>2. CallType'
  <2>1. currentTerm[m.to] \in Nat
    BY <1>1 DEF NodeType
  <2>2. AppendReply(m.to, m, currentTerm[m.to], FALSE, NoUpdate) \in AppendRep
    BY <1>1, <2>1, AppendReplyType
  <2> QED
    BY <2>2 DEF CallType
<1>3. NodeType' /\ LogType' /\ LeadType' /\ VoteType' /\ exited' \subseteq Server
  BY DEF NodeType, LogType, LeadType, VoteType, nodeVars, logVars, leadVars, voteVars
<1>4. AppliedInRange'
  BY RangeUnchanged
<1> QED
  BY <1>2, <1>3, <1>4

\* What a follower merges into its log never shortens it.
LEMMA MergesType ==
  ASSUME LogType, CallType, NEW m \in appendReqs, Merges(m.to, m), NEW merged,
         merged = MergeEntries(snapshot[m.to], logs[m.to], m.prev - Base(m.to), m.entries)
  PROVE  merged \in Seq(Entry) /\ Len(merged) \in Nat /\ Len(merged) >= Len(logs[m.to])
<1> DEFINE s == m.to
<1>1. s \in Server /\ m.prev \in Nat /\ m.entries \in Seq(Entry)
  BY DEF CallType, AppendReq
<1>2. /\ logs[s] \in Seq(Entry) /\ Len(snapshot[s]) \in Nat /\ Len(logs[s]) \in Nat
  BY <1>1, LenProperties DEF LogType
<1>3. m.prev - Base(s) \in 0 .. Len(logs[s])
  <2>1. ~(m.prev > Len(snapshot[s]) + Len(logs[s])) /\ ~(m.prev < Len(snapshot[s]))
    BY DEF Merges, Matches, TooNew, Compacted, Base, LastLogIndex, GetLastLogIndex
  <2>2. \A prev, base, len \in Nat :
          ~(prev > base + len) /\ ~(prev < base) => prev - base \in 0 .. len
    OBVIOUS
  <2> QED
    BY <1>1, <1>2, <2>1, <2>2, Zenon DEF Base
<1>4. merged \in Seq(Entry) /\ Len(merged) = MaxOf(Len(logs[s]), m.prev - Base(s) + Len(m.entries))
  BY <1>1, <1>2, <1>3, MergeType
<1>5. Len(m.entries) \in Nat
  BY <1>1, LenProperties
<1> QED
  BY <1>2, <1>3, <1>4, <1>5 DEF MaxOf

LEMMA HandleAppendEntriesType ==
  ASSUME TypeInv, NEW m \in appendReqs, HandleAppendEntries(m)
  PROVE  TypeInv'
<1> USE DEF TypeInv, TypeOK
<1> DEFINE s == m.to
           merged == MergeEntries(snapshot[s], logs[s], m.prev - Base(s), m.entries)
           update == CASE TooNew(s, m) -> LastLogIndex(s) + 1
                       [] Matches(s, m) -> 0
                       [] OTHER -> BackOff(snapshot[s], logs[s], m.prev)
<1>1. /\ m \in AppendReq /\ s \in Server /\ m.term \in Nat /\ m.prev \in Nat
      /\ m.entries \in Seq(Entry) /\ m.leaderCommit \in Nat
  BY DEF CallType, AppendReq
<1>2. /\ snapshot[s] \in Seq(Entry) /\ logs[s] \in Seq(Entry)
      /\ Len(snapshot[s]) \in Nat /\ Len(logs[s]) \in Nat /\ LastLogIndex(s) \in Nat
  BY <1>1, LenProperties DEF LogType, LastLogIndex, GetLastLogIndex
<1>3. NodeType'
  <2>1. status' \in [Server -> {Follower, Candidate, Leader}]
    BY <1>1 DEF HandleAppendEntries, NodeType
  <2> QED
    BY <1>1, <2>1, ObserveType DEF HandleAppendEntries
<1>4. CallType'
  <2>1. update \in Nat
    BY <1>1, <1>2, BackOffType
  <2>2. Matches(s, m) \in BOOLEAN
    BY DEF Matches
  <2>3. AppendReply(s, m, m.term, Matches(s, m), update) \in AppendRep
    BY <1>1, <2>1, <2>2, AppendReplyType
  <2> HIDE DEF update
  <2>4. appendReps' \subseteq appendReps \cup {AppendReply(s, m, m.term, Matches(s, m), update)}
    BY DEF HandleAppendEntries, update
  <2> QED
    BY <2>3, <2>4 DEF CallType, HandleAppendEntries
<1>5. Merges(s, m) => merged \in Seq(Entry) /\ Len(merged) \in Nat /\ Len(merged) >= Len(logs[s])
  BY MergesType
<1> HIDE DEF merged
<1>6. /\ logs' = IF Merges(s, m) THEN [logs EXCEPT ![s] = merged] ELSE logs
      /\ commitIndex' = [commitIndex EXCEPT ![s] =
           IF Merges(s, m) /\ m.leaderCommit > commitIndex[s]
             THEN MinOf(m.leaderCommit, Base(s) + Len(merged)) ELSE commitIndex[s]]
      /\ snapshot' = snapshot /\ lastApplied' = lastApplied
      /\ exited \subseteq exited' /\ exited' \subseteq Server
  BY <1>1 DEF HandleAppendEntries, merged, MyAssert
<1>7. LogType'
  <2>1. logs' \in [Server -> Seq(Entry)]
    BY <1>1, <1>5, <1>6 DEF LogType
  <2>2. Base(s) \in Nat
    BY <1>2 DEF Base
  <2>3. Merges(s, m) => MinOf(m.leaderCommit, Base(s) + Len(merged)) \in Nat
    BY <1>1, <1>5, <2>2 DEF MinOf
  <2>4. commitIndex' \in [Server -> Nat]
    BY <1>1, <1>6, <2>3 DEF LogType
  <2> QED
    BY <1>6, <2>1, <2>4 DEF LogType
<1>8. AppliedInRange'
  <2> SUFFICES ASSUME NEW p \in Server \ exited'
               PROVE  /\ Base(p)' <= lastApplied'[p]
                      /\ lastApplied'[p] <= commitIndex'[p]
                      /\ commitIndex'[p] <= LastLogIndex(p)'
    BY DEF AppliedInRange
  <2>1. /\ Base(p) <= lastApplied[p]
        /\ lastApplied[p] <= commitIndex[p]
        /\ commitIndex[p] <= LastLogIndex(p)
    BY <1>6 DEF AppliedInRange
  <2>2. /\ lastApplied[p] \in Nat /\ commitIndex[p] \in Nat
        /\ Len(snapshot[p]) \in Nat /\ Len(logs[p]) \in Nat
    BY LenProperties DEF LogType
  <2>3. CASE p # s \/ ~Merges(s, m)
    <3>1. logs'[p] = logs[p] /\ commitIndex'[p] = commitIndex[p]
      BY <1>6, <2>3 DEF LogType
    <3> QED
      BY <1>6, <2>1, <3>1 DEF Base, LastLogIndex, GetLastLogIndex
  <2>4. CASE p = s /\ Merges(s, m)
    <3>1. logs'[p] = merged
      BY <1>6, <2>4 DEF LogType
    <3>2. commitIndex'[p] = IF m.leaderCommit > commitIndex[p]
                              THEN MinOf(m.leaderCommit, Len(snapshot[p]) + Len(merged))
                              ELSE commitIndex[p]
      BY <1>6, <2>4 DEF LogType, Base
    <3>3. /\ LastLogIndex(p)' = Len(snapshot[p]) + Len(merged)
          /\ LastLogIndex(p) = Len(snapshot[p]) + Len(logs[p])
          /\ Base(p)' = Base(p) /\ lastApplied'[p] = lastApplied[p]
      BY <1>6, <3>1 DEF LastLogIndex, GetLastLogIndex, Base
    <3>4. Len(merged) \in Nat /\ Len(merged) >= Len(logs[p]) /\ m.leaderCommit \in Nat
      BY <1>1, <1>5, <2>4
    <3>5. lastApplied[p] <= commitIndex[p] /\ commitIndex[p] <= Len(snapshot[p]) + Len(logs[p])
      BY <2>1, <3>3
    <3>6. /\ lastApplied[p] <= commitIndex'[p]
          /\ commitIndex'[p] <= Len(snapshot[p]) + Len(merged)
      <4> DEFINE applied == lastApplied[p]
                 old == commitIndex[p]
                 new == commitIndex'[p]
                 base == Len(snapshot[p])
                 lenOld == Len(logs[p])
                 lenNew == Len(merged)
                 lc == m.leaderCommit
      <4>1. /\ applied \in Nat /\ old \in Nat /\ base \in Nat /\ lenOld \in Nat
            /\ lenNew \in Nat /\ lc \in Nat
        BY <2>2, <3>4
      <4>2. applied <= old /\ old <= base + lenOld /\ lenNew >= lenOld
        BY <3>4, <3>5
      <4>3. new = IF lc > old THEN MinOf(lc, base + lenNew) ELSE old
        BY <3>2
      <4> HIDE DEF applied, old, new, base, lenOld, lenNew, lc, TypeInv, TypeOK
      <4>4. applied <= new /\ new <= base + lenNew
        BY <4>1, <4>2, <4>3 DEF MinOf
      <4> QED
        BY <4>4 DEF applied, new, base, lenNew
    <3> QED
      BY <2>1, <3>3, <3>6
  <2> QED
    BY <2>3, <2>4
<1>9. LeadType' /\ VoteType' /\ exited' \subseteq Server
  BY <1>6 DEF HandleAppendEntries, LeadType, VoteType, leadVars, voteVars
<1> QED
  BY <1>3, <1>4, <1>7, <1>8, <1>9

LEMMA HandleAppendRefusalType ==
  ASSUME TypeInv, NEW m \in appendReps, HandleAppendRefusal(m)
  PROVE  TypeInv'
<1> USE DEF TypeInv, TypeOK, HandleAppendRefusal, TakesUpdate
<1>1. /\ m \in AppendRep /\ m.to \in Server /\ m.from \in Server /\ m.term \in Nat
      /\ m.update \in Nat \cup {NoUpdate}
  BY DEF CallType, AppendRep
<1>2. NodeType'
  <2>1. status' \in [Server -> {Follower, Candidate, Leader}]
    BY <1>1 DEF NodeType
  <2> QED
    BY <1>1, <2>1, ObserveType
<1>3. LeadType'
  BY <1>1 DEF LeadType
<1>4. LogType' /\ VoteType' /\ CallType' /\ exited' \subseteq Server
  BY DEF LogType, VoteType, CallType, logVars, voteVars
<1>5. AppliedInRange'
  BY RangeUnchanged
<1> QED
  BY <1>2, <1>3, <1>4, <1>5

LEMMA HandleAppendSuccessType ==
  ASSUME TypeInv, NEW m \in appendReps, HandleAppendSuccess(m)
  PROVE  TypeInv'
<1> USE DEF TypeInv, TypeOK
<1> DEFINE s == m.to
           counts == m.term = currentTerm[s] /\ status[s] = Leader
           match == MaxOf(matchIndex[s][m.from], m.sent)
           majority == counts /\ appendNums[s][m.round] + 1 >= Majority
           commit == IF majority /\ MayCommit(s, m) THEN MaxOf(commitIndex[s], m.sent) ELSE commitIndex[s]
<1>1. /\ m \in AppendRep /\ s \in Server /\ m.from \in Server /\ m.term \in Nat
      /\ m.sent \in Nat
  BY DEF CallType, AppendRep
<1>2. match \in Nat
  BY <1>1 DEF LeadType, MaxOf
<1>3. commit \in Nat /\ commit >= commitIndex[s] /\ (~counts => commit = commitIndex[s])
  <2>1. commitIndex[s] \in Nat
    BY <1>1 DEF LogType
  <2> QED
    BY <1>1, <2>1 DEF MaxOf
<1>4. NodeType'
  <2>1. status' \in [Server -> {Follower, Candidate, Leader}]
    BY <1>1 DEF NodeType, HandleAppendSuccess
  <2> QED
    BY <1>1, <2>1, ObserveType DEF HandleAppendSuccess
<1>5. LeadType'
  <2>1. matchIndex' \in [Server -> [Server -> Nat]]
    BY <1>1, <1>2 DEF LeadType, HandleAppendSuccess
  <2>2. nextIndex' \in [Server -> [Server -> Nat]]
    <3>1. nextIndex' = [nextIndex EXCEPT ![s][m.from] = IF counts THEN match + 1 ELSE @]
      BY DEF HandleAppendSuccess
    <3> HIDE DEF match, counts
    <3> QED
      BY <1>1, <1>2, <3>1 DEF LeadType
  <2>3. appendNums' \in [Server -> Seq(Nat)]
    <3>1. appendNums[s] \in Seq(Nat)
      BY <1>1 DEF LeadType
    <3> DEFINE e == IF majority THEN 0 ELSE appendNums[s][m.round] + 1
               nums == [appendNums[s] EXCEPT ![m.round] = e]
    <3>2. ASSUME m.round \in 1 .. Len(appendNums[s])
          PROVE  nums \in Seq(Nat)
      <4>1. e \in Nat
        BY <3>1, <3>2, ElementOfSeq
      <4> HIDE DEF e
      <4> QED
        BY <3>1, <3>2, <4>1, ExceptSeq
    <3>3. ASSUME m.round \notin 1 .. Len(appendNums[s])
          PROVE  nums \in Seq(Nat)
      <4>1. nums = appendNums[s]
        BY <3>1, <3>3
      <4> QED
        BY <3>1, <4>1
    <3>4. nums \in Seq(Nat)
      BY <3>2, <3>3
    <3>5. appendNums' = IF counts THEN [appendNums EXCEPT ![s] = nums] ELSE appendNums
      BY DEF HandleAppendSuccess
    <3> HIDE DEF nums
    <3> QED
      BY <3>4, <3>5 DEF LeadType
  <2> QED
    BY <2>1, <2>2, <2>3 DEF LeadType
<1>6. LogType'
  BY <1>1, <1>3 DEF LogType, HandleAppendSuccess
<1>7. VoteType' /\ CallType' /\ exited' \subseteq Server
  BY <1>1 DEF VoteType, CallType, voteVars, HandleAppendSuccess, MyAssert
<1>8. AppliedInRange'
  <2> HIDE DEF match, commit, counts
  <2>1. /\ commitIndex' = [commitIndex EXCEPT ![s] = commit]
        /\ UNCHANGED <<logs, snapshot, lastApplied>>
        /\ exited \subseteq exited'
        /\ s \notin exited' => (counts => commit <= LastLogIndex(s))
    BY <1>1 DEF HandleAppendSuccess, MyAssert, match, commit, counts
  <2> SUFFICES ASSUME NEW p \in Server \ exited'
               PROVE  /\ Base(p)' <= lastApplied'[p]
                      /\ lastApplied'[p] <= commitIndex'[p]
                      /\ commitIndex'[p] <= LastLogIndex(p)'
    BY DEF AppliedInRange
  <2>2. /\ Base(p)' = Base(p) /\ LastLogIndex(p)' = LastLogIndex(p)
        /\ lastApplied'[p] = lastApplied[p]
    BY <2>1 DEF Base, LastLogIndex
  <2>3. /\ Base(p) <= lastApplied[p] /\ lastApplied[p] <= commitIndex[p]
        /\ commitIndex[p] <= LastLogIndex(p)
    BY <2>1 DEF AppliedInRange
  <2>4. lastApplied[p] \in Nat /\ commitIndex[p] \in Nat
    BY DEF LogType
  <2>5. CASE p = s
    <3>1. commitIndex'[p] = commit
      BY <1>1, <2>1, <2>5 DEF LogType
    <3>2. commit <= LastLogIndex(s)
      BY <1>3, <2>1, <2>3, <2>5
    <3> QED
      BY <1>3, <2>2, <2>3, <2>4, <2>5, <3>1, <3>2
  <2>6. CASE p # s
    <3>1. commitIndex'[p] = commitIndex[p]
      BY <2>1, <2>6 DEF LogType
    <3> QED
      BY <2>2, <2>3, <3>1
  <2> QED
    BY <2>5, <2>6
<1> QED
  BY <1>4, <1>5, <1>6, <1>7, <1>8

LEMMA ApplierTickType ==
  ASSUME TypeInv, NEW s \in Server, ApplierTick(s)
  PROVE  TypeInv'
<1> USE DEF TypeInv, TypeOK, ApplierTick
<1>1. LogType'
  BY DEF LogType
<1>2. AppliedInRange'
  <2> SUFFICES ASSUME NEW p \in Server \ exited'
               PROVE  /\ Base(p)' <= lastApplied'[p]
                      /\ lastApplied'[p] <= commitIndex'[p]
                      /\ commitIndex'[p] <= LastLogIndex(p)'
    BY DEF AppliedInRange
  <2>1. /\ Base(p)' = Base(p) /\ LastLogIndex(p)' = LastLogIndex(p)
        /\ commitIndex'[p] = commitIndex[p]
        /\ lastApplied'[p] = IF p = s THEN commitIndex[p] ELSE lastApplied[p]
    BY DEF Base, LastLogIndex, LogType
  <2>2. /\ Base(p) <= lastApplied[p] /\ lastApplied[p] <= commitIndex[p]
        /\ commitIndex[p] <= LastLogIndex(p)
    BY DEF AppliedInRange, MyAssert
  <2>3. Base(p) \in Nat /\ lastApplied[p] \in Nat /\ commitIndex[p] \in Nat
    BY DEF LogType, Base
  <2> QED
    BY <2>1, <2>2, <2>3
<1>3. NodeType' /\ LeadType' /\ VoteType' /\ CallType' /\ exited' \subseteq Server
  BY DEF NodeType, LeadType, VoteType, CallType, nodeVars, leadVars, voteVars, callVars, MyAssert
<1> QED
  BY <1>1, <1>2, <1>3

LEMMA SnapshotType ==
  ASSUME TypeInv, NEW s \in Server, NEW index \in Nat, Snapshot(s, index)
  PROVE  TypeInv'
<1> USE DEF TypeInv, TypeOK
<1>1. /\ index \in 1 .. lastApplied[s] /\ index > Base(s) /\ index <= commitIndex[s]
      /\ snapshot' = [snapshot EXCEPT ![s] = SubSeq(Log(s), 1, index)]
      /\ logs' = [logs EXCEPT ![s] = SubSeq(@, index - Base(s) + 1, Len(@))]
      /\ lastApplied' = [lastApplied EXCEPT ![s] = MaxOf(@, index)]
      /\ commitIndex' = commitIndex /\ exited' = exited /\ s \notin exited
  BY DEF Snapshot, Running
<1>2. /\ snapshot[s] \in Seq(Entry) /\ logs[s] \in Seq(Entry)
      /\ lastApplied[s] \in Nat /\ commitIndex[s] \in Nat
      /\ Base(s) \in Nat /\ Base(s) = Len(snapshot[s])
      /\ Len(logs[s]) \in Nat
      /\ LastLogIndex(s) \in Nat /\ LastLogIndex(s) = Base(s) + Len(logs[s])
  BY IndexType DEF LogType
<1>3. index <= LastLogIndex(s) /\ lastApplied[s] <= commitIndex[s] /\ commitIndex[s] <= LastLogIndex(s)
  <2>1. lastApplied[s] <= commitIndex[s] /\ commitIndex[s] <= LastLogIndex(s)
    BY <1>1 DEF AppliedInRange
  <2> DEFINE last == LastLogIndex(s)
             commit == commitIndex[s]
  <2>2. last \in Nat /\ commit \in Nat /\ index <= commit /\ commit <= last
    BY <1>1, <1>2, <2>1
  <2> HIDE DEF last, commit
  <2>3. index <= last
    BY <2>2
  <2> QED
    BY <2>1, <2>3 DEF last
<1>4. /\ SubSeq(Log(s), 1, index) \in Seq(Entry)
      /\ Len(SubSeq(Log(s), 1, index)) = index
  <2>1. Log(s) \in Seq(Entry) /\ Len(Log(s)) = LastLogIndex(s)
    BY <1>2, ConcatProperties DEF Log
  <2> HIDE DEF TypeInv
  <2>2. \A i \in 1 .. index : Log(s)[i] \in Entry
    <3>1. 1 .. index \subseteq 1 .. Len(Log(s))
      <4> DEFINE last == LastLogIndex(s)
      <4>1. last \in Nat /\ index <= last /\ Len(Log(s)) = last
        BY <1>2, <1>3, <2>1
      <4> HIDE DEF last
      <4> QED
        BY <4>1
    <3> QED
      BY <2>1, <3>1, ElementOfSeq
  <2> QED
    BY <1>1, <2>1, <2>2, SubSeqProperties
<1>5. /\ SubSeq(logs[s], index - Base(s) + 1, Len(logs[s])) \in Seq(Entry)
      /\ Len(SubSeq(logs[s], index - Base(s) + 1, Len(logs[s]))) = LastLogIndex(s) - index
  <2>1. index - Base(s) \in Nat
    BY <1>1, <1>2
  <2>2. /\ SubSeq(logs[s], index - Base(s) + 1, Len(logs[s])) \in Seq(Entry)
        /\ Len(SubSeq(logs[s], index - Base(s) + 1, Len(logs[s]))) =
             IF index - Base(s) < Len(logs[s]) THEN Len(logs[s]) - (index - Base(s)) ELSE 0
    BY <1>2, <2>1, SuffixType
  <2> DEFINE last == LastLogIndex(s)
             base == Base(s)
             len == Len(logs[s])
  <2>3. /\ last \in Nat /\ base \in Nat /\ len \in Nat
        /\ last = base + len /\ index <= last /\ index > base
    BY <1>1, <1>2, <1>3
  <2> HIDE DEF last, base, len
  <2>4. (IF index - base < len THEN len - (index - base) ELSE 0) = last - index
    BY <2>3
  <2> QED
    BY <2>2, <2>4 DEF last, base, len
<1>6. LogType'
  BY <1>1, <1>2, <1>4, <1>5 DEF LogType, MaxOf
<1>7. AppliedInRange'
  <2> SUFFICES ASSUME NEW p \in Server \ exited
               PROVE  /\ Base(p)' <= lastApplied'[p]
                      /\ lastApplied'[p] <= commitIndex'[p]
                      /\ commitIndex'[p] <= LastLogIndex(p)'
    BY <1>1 DEF AppliedInRange
  <2>1. CASE p # s
    <3>1. snapshot'[p] = snapshot[p] /\ logs'[p] = logs[p] /\ lastApplied'[p] = lastApplied[p]
      BY <1>1, <2>1 DEF LogType
    <3> QED
      BY <1>1, <3>1 DEF AppliedInRange, Base, LastLogIndex
  <2>2. CASE p = s
    <3>1. /\ snapshot'[p] = SubSeq(Log(s), 1, index)
          /\ logs'[p] = SubSeq(logs[s], index - Base(s) + 1, Len(logs[s]))
          /\ lastApplied'[p] = lastApplied[s]
      BY <1>1, <1>2, <2>2 DEF LogType, MaxOf
    <3>2. Base(p)' = index /\ LastLogIndex(p)' = index + (LastLogIndex(s) - index)
      BY <1>4, <1>5, <3>1 DEF Base, LastLogIndex, GetLastLogIndex
    <3>3. LastLogIndex(p)' = LastLogIndex(s)
      BY <1>2, <3>2
    <3> QED
      BY <1>1, <1>3, <2>2, <3>1, <3>2, <3>3
  <2> QED
    BY <2>1, <2>2
<1>8. NodeType' /\ LeadType' /\ VoteType' /\ CallType' /\ exited' \subseteq Server
  BY DEF Snapshot, NodeType, LeadType, VoteType, CallType, nodeVars, leadVars, voteVars, callVars
<1> QED
  BY <1>6, <1>7, <1>8

LEMMA SendSnapShotType ==
  ASSUME TypeInv, NEW s \in Server, NEW p \in Server, SendSnapShot(s, p)
  PROVE  TypeInv'
<1> USE DEF TypeInv, TypeOK, SendSnapShot
<1>1. [term |-> currentTerm[s], from |-> s, to |-> p, data |-> snapshot[s]] \in SnapReq
  BY DEF SnapReq, NodeType, LogType
<1>2. CallType'
  BY <1>1 DEF CallType
<1>3. NodeType' /\ LogType' /\ LeadType' /\ VoteType' /\ exited' \subseteq Server
  BY DEF NodeType, LogType, LeadType, VoteType, nodeVars, logVars, leadVars, voteVars
<1>4. AppliedInRange'
  BY RangeUnchanged
<1> QED
  BY <1>2, <1>3, <1>4

LEMMA HandleInstallSnapshotType ==
  ASSUME TypeInv, NEW m \in snapReqs, HandleInstallSnapshot(m)
  PROVE  TypeInv'
<1> USE DEF TypeInv, TypeOK
<1> DEFINE s == m.to
           index == Len(m.data)
           current == m.term >= currentTerm[s]
           installs == current /\ index > Base(s)
           tail == SubSeq(logs[s], index - Base(s) + 1, Len(logs[s]))
<1>1. /\ m \in SnapReq /\ s \in Server /\ m.from \in Server /\ m.term \in Nat
      /\ m.data \in Seq(Entry) /\ index \in Nat
  BY LenProperties DEF CallType, SnapReq
<1>2. /\ snapshot[s] \in Seq(Entry) /\ logs[s] \in Seq(Entry) /\ currentTerm[s] \in Nat
      /\ lastApplied[s] \in Nat /\ commitIndex[s] \in Nat
      /\ Base(s) \in Nat /\ Base(s) = Len(snapshot[s])
      /\ Len(logs[s]) \in Nat
      /\ LastLogIndex(s) \in Nat /\ LastLogIndex(s) = Base(s) + Len(logs[s])
  BY <1>1, IndexType DEF LogType, NodeType
<1>3. ASSUME installs
      PROVE  /\ tail \in Seq(Entry) /\ Len(tail) \in Nat
             /\ index + Len(tail) = MaxOf(index, LastLogIndex(s))
  <2>1. index - Base(s) \in Nat
    BY <1>1, <1>2, <1>3
  <2>2. tail \in Seq(Entry) /\ Len(tail) = IF index - Base(s) < Len(logs[s])
                                              THEN Len(logs[s]) - (index - Base(s)) ELSE 0
    BY <1>2, <2>1, SuffixType
  <2> DEFINE last == LastLogIndex(s)
             base == Base(s)
             len == Len(logs[s])
             rest == Len(tail)
  <2>3. /\ last \in Nat /\ base \in Nat /\ len \in Nat /\ index \in Nat
        /\ last = base + len /\ index > base
        /\ rest = IF index - base < len THEN len - (index - base) ELSE 0
    BY <1>1, <1>2, <1>3, <2>2
  <2> HIDE DEF last, base, len, rest, index
  <2>4. rest \in Nat /\ index + rest = MaxOf(index, last)
    BY <2>3 DEF MaxOf
  <2> QED
    BY <2>2, <2>4 DEF last, rest
<1>4. NodeType'
  <2>1. status' \in [Server -> {Follower, Candidate, Leader}]
    BY <1>1 DEF NodeType, HandleInstallSnapshot
  <2> QED
    BY <1>1, <2>1, ObserveType DEF HandleInstallSnapshot
<1>5. CallType'
  <2>1. (IF current /\ ~installs THEN 0 ELSE MaxOf(currentTerm[s], m.term)) \in Nat
    BY <1>1, <1>2 DEF MaxOf
  <2> DEFINE rep == [term |-> IF current /\ ~installs THEN 0 ELSE MaxOf(currentTerm[s], m.term),
                     from |-> s, to |-> m.from, sentTerm |-> m.term, index |-> index]
  <2>2. rep \in SnapRep
    BY <1>1, <2>1 DEF SnapRep
  <2>3. /\ snapReps' = snapReps \cup {rep} /\ snapReqs' \subseteq snapReqs
        /\ UNCHANGED <<appendReqs, appendReps, snapThreads>>
    BY DEF HandleInstallSnapshot
  <2> HIDE DEF rep
  <2> QED
    BY <2>2, <2>3 DEF CallType
<1>6. /\ logs' = [logs EXCEPT ![s] = IF installs THEN tail ELSE @]
      /\ snapshot' = [snapshot EXCEPT ![s] = IF installs THEN m.data ELSE @]
      /\ commitIndex' = [commitIndex EXCEPT ![s] = IF installs THEN MaxOf(@, index) ELSE @]
      /\ lastApplied' = [lastApplied EXCEPT ![s] = IF installs THEN MaxOf(@, index) ELSE @]
      /\ exited' = exited
  BY DEF HandleInstallSnapshot
<1> HIDE DEF installs, tail
<1>7. LogType'
  <2>1. MaxOf(commitIndex[s], index) \in Nat /\ MaxOf(lastApplied[s], index) \in Nat
    BY <1>1, <1>2 DEF MaxOf
  <2> HIDE DEF index
  <2> QED
    BY <1>1, <1>3, <1>6, <2>1 DEF LogType
<1>8. AppliedInRange'
  <2> SUFFICES ASSUME NEW p \in Server \ exited
               PROVE  /\ Base(p)' <= lastApplied'[p]
                      /\ lastApplied'[p] <= commitIndex'[p]
                      /\ commitIndex'[p] <= LastLogIndex(p)'
    BY <1>6 DEF AppliedInRange
  <2>1. CASE p # s \/ ~installs
    <3>1. /\ snapshot'[p] = snapshot[p] /\ logs'[p] = logs[p]
          /\ lastApplied'[p] = lastApplied[p] /\ commitIndex'[p] = commitIndex[p]
      BY <1>6, <2>1 DEF LogType
    <3> QED
      BY <3>1 DEF AppliedInRange, Base, LastLogIndex
  <2>2. CASE p = s /\ installs
    <3>1. /\ snapshot'[s] = m.data /\ logs'[s] = tail
          /\ lastApplied'[s] = MaxOf(lastApplied[s], index)
          /\ commitIndex'[s] = MaxOf(commitIndex[s], index)
      BY <1>1, <1>6, <2>2 DEF LogType
    <3>2. Base(s)' = index /\ LastLogIndex(s)' = MaxOf(index, LastLogIndex(s))
      BY <1>3, <2>2, <3>1 DEF Base, LastLogIndex, GetLastLogIndex
    <3>3. lastApplied[s] <= commitIndex[s] /\ commitIndex[s] <= LastLogIndex(s)
      BY <1>1, <2>2 DEF AppliedInRange
    <3>4. LastLogIndex(s) \in Nat
      BY <1>2
    <3> DEFINE la == lastApplied[s]
               ci == commitIndex[s]
               last == LastLogIndex(s)
    <3>5. la \in Nat /\ ci \in Nat /\ last \in Nat /\ la <= ci /\ ci <= last
      BY <1>2, <3>3, <3>4
    <3> HIDE DEF la, ci, last, index
    <3>6. /\ index <= MaxOf(la, index) /\ MaxOf(la, index) <= MaxOf(ci, index)
          /\ MaxOf(ci, index) <= MaxOf(index, last)
      BY <1>1, <3>5 DEF MaxOf
    <3> QED
      BY <2>2, <3>1, <3>2, <3>6 DEF la, ci, last
  <2> QED
    BY <2>1, <2>2
<1>9. LeadType' /\ VoteType' /\ exited' \subseteq Server
  BY DEF HandleInstallSnapshot, LeadType, VoteType, leadVars, voteVars
<1> QED
  BY <1>4, <1>5, <1>7, <1>8, <1>9

LEMMA HandleInstallSnapshotReplyType ==
  ASSUME TypeInv, NEW m \in snapReps, HandleInstallSnapshotReply(m)
  PROVE  TypeInv'
<1> USE DEF TypeInv, TypeOK, HandleInstallSnapshotReply
<1>1. /\ m \in SnapRep /\ m.to \in Server /\ m.from \in Server /\ m.term \in Nat
      /\ m.index \in Nat
  BY DEF CallType, SnapRep
<1>2. NodeType'
  <2>1. status' \in [Server -> {Follower, Candidate, Leader}]
    BY <1>1 DEF NodeType
  <2>2. CASE Observe(m.to, m.term)
    BY <1>1, <2>1, <2>2, ObserveType
  <2>3. CASE UNCHANGED <<currentTerm, votedFor>>
    BY <2>1, <2>3 DEF NodeType
  <2> QED
    BY <2>2, <2>3
<1>3. LeadType'
  <2>1. m.index + 1 \in Nat
    BY <1>1
  <2> QED
    BY <1>1, <2>1 DEF LeadType
<1>4. LogType' /\ VoteType' /\ CallType' /\ exited' \subseteq Server
  BY DEF LogType, VoteType, CallType, logVars, voteVars
<1>5. AppliedInRange'
  BY RangeUnchanged
<1> QED
  BY <1>2, <1>3, <1>4, <1>5

LEMMA LoseCallType ==
  ASSUME TypeInv, LoseCall
  PROVE  TypeInv'
<1> USE DEF TypeInv, TypeOK, LoseCall
<1>1. VoteType' /\ CallType'
  BY DEF VoteType, CallType, callVars
<1>2. NodeType' /\ LogType' /\ LeadType' /\ exited' \subseteq Server
  BY DEF NodeType, LogType, LeadType, nodeVars, logVars, leadVars
<1>3. AppliedInRange'
  BY RangeUnchanged
<1> QED
  BY <1>1, <1>2, <1>3

LEMMA StutterType ==
  ASSUME TypeInv, UNCHANGED vars
  PROVE  TypeInv'
  BY DEF TypeInv, TypeOK, NodeType, LogType, LeadType, VoteType, CallType, AppliedInRange,
         Base, LastLogIndex, vars, nodeVars, logVars, leadVars, voteVars, callVars

\* Every step of every server keeps the types and the ranges of the indices.
LEMMA NextType ==
  ASSUME TypeInv, [Next]_vars
  PROVE  TypeInv'
<1>1. CASE Next
  <2>1. /\ voteReqs \subseteq VoteReq /\ voteReps \subseteq VoteRep
        /\ appendReqs \subseteq AppendReq /\ appendReps \subseteq AppendRep
    BY DEF TypeInv, TypeOK, VoteType, CallType
  <2>2. ASSUME NEW s \in Server, DoElection(s) PROVE TypeInv'
    BY <2>2, DoElectionType
  <2>3. ASSUME NEW m \in voteReqs, HandleRequestVote(m) PROVE TypeInv'
    BY <2>3, HandleRequestVoteType
  <2>4. ASSUME NEW m \in voteReps, HandleRequestVoteReply(m) PROVE TypeInv'
    BY <2>4, HandleRequestVoteReplyType
  <2>5. ASSUME NEW s \in Server, NEW v \in Value, Start(s, v) PROVE TypeInv'
    BY <2>5, StartType
  <2>6. ASSUME NEW s \in Server, DoHeartBeat(s) PROVE TypeInv'
    BY <2>6, DoHeartBeatType
  <2>7. ASSUME NEW m \in appendReqs, RejectStaleAppend(m) PROVE TypeInv'
    BY <2>7, RejectStaleAppendType
  <2>8. ASSUME NEW m \in appendReqs, HandleAppendEntries(m) PROVE TypeInv'
    BY <2>8, HandleAppendEntriesType
  <2>9. ASSUME NEW m \in appendReps, HandleAppendRefusal(m) PROVE TypeInv'
    BY <2>9, HandleAppendRefusalType
  <2>10. ASSUME NEW m \in appendReps, HandleAppendSuccess(m) PROVE TypeInv'
    BY <2>10, HandleAppendSuccessType
  <2>11. ASSUME NEW s \in Server, ApplierTick(s) PROVE TypeInv'
    BY <2>11, ApplierTickType
  <2>12. ASSUME NEW s \in Server, NEW index \in 1 .. MaxLog, Snapshot(s, index) PROVE TypeInv'
    <3>1. index \in Nat
      OBVIOUS
    <3> QED
      BY <2>12, <3>1, SnapshotType
  <2>13. ASSUME NEW s \in Server, NEW p \in Server, SendSnapShot(s, p) PROVE TypeInv'
    BY <2>13, SendSnapShotType
  <2>14. ASSUME NEW m \in snapReqs, HandleInstallSnapshot(m) PROVE TypeInv'
    BY <2>14, HandleInstallSnapshotType
  <2>15. ASSUME NEW m \in snapReps, HandleInstallSnapshotReply(m) PROVE TypeInv'
    BY <2>15, HandleInstallSnapshotReplyType
  <2> QED
    BY <1>1, <2>2, <2>3, <2>4, <2>5, <2>6, <2>7, <2>8, <2>9, <2>10, <2>11, <2>12, <2>13,
       <2>14, <2>15, LoseCallType DEF Next
<1>2. CASE UNCHANGED vars
  BY <1>2, StutterType
<1> QED
  BY <1>1, <1>2

LEMMA TypeInvariant == Spec => []TypeInv
<1>1. Init => TypeInv
  BY InitType
<1>2. TypeInv /\ [Next]_vars => TypeInv'
  BY NextType
<1> QED
  BY <1>1, <1>2, PTL DEF Spec

\* The node's state and the calls in flight keep their types: the -100 of a
\* stale refusal never reaches nextIndex.
THEOREM TypeCorrect == Spec => []TypeOK
<1>1. TypeInv => TypeOK
  BY DEF TypeInv
<1> QED
  BY <1>1, TypeInvariant, PTL

\* A node applies only what it has committed, commits only what it holds, and
\* has applied all that its snapshot covers.
THEOREM AppliedStaysInRange == Spec => []AppliedInRange
<1>1. TypeInv => AppliedInRange
  BY DEF TypeInv
<1> QED
  BY <1>1, TypeInvariant, PTL
-----------------------------------------------------------------------------
(* Nothing is taken back *)

\* A server's term only grows, and within a term it keeps the vote it has cast.
TermForward(q) ==
  /\ currentTerm'[q] >= currentTerm[q]
  /\ (currentTerm'[q] = currentTerm[q] /\ votedFor[q] # Nil) => votedFor'[q] = votedFor[q]

\* What a server has committed, applied and compacted only grows.
LogForward(q) ==
  /\ commitIndex'[q] >= commitIndex[q]
  /\ lastApplied'[q] >= lastApplied[q]
  /\ Base(q)' >= Base(q)

LEMMA ObserveForward ==
  ASSUME NodeType, NEW s \in Server, NEW term \in Nat, Observe(s, term)
  PROVE  \A q \in Server : TermForward(q)
  BY DEF NodeType, Observe, MaxOf, TermForward

LEMMA SameForward ==
  /\ NodeType /\ UNCHANGED <<currentTerm, votedFor>> => \A q \in Server : TermForward(q)
  /\ LogType /\ UNCHANGED logVars => \A q \in Server : LogForward(q)
<1>1. ASSUME NodeType, UNCHANGED <<currentTerm, votedFor>>, NEW q \in Server PROVE TermForward(q)
  BY <1>1 DEF NodeType, TermForward
<1>2. ASSUME LogType, UNCHANGED logVars, NEW q \in Server PROVE LogForward(q)
  <2>1. commitIndex[q] \in Nat /\ lastApplied[q] \in Nat /\ Base(q) \in Nat
    BY <1>2, IndexType DEF LogType
  <2>2. commitIndex'[q] = commitIndex[q] /\ lastApplied'[q] = lastApplied[q] /\ Base(q)' = Base(q)
    BY <1>2 DEF logVars, Base
  <2> QED
    BY <2>1, <2>2 DEF LogForward
<1> QED
  BY <1>1, <1>2

LEMMA NextTermForward ==
  ASSUME TypeInv, [Next]_vars
  PROVE  \A q \in Server : TermForward(q)
<1> USE DEF nodeVars
<1>1. /\ NodeType /\ currentTerm \in [Server -> Nat] /\ votedFor \in [Server -> Server \cup {Nil}]
      /\ voteReqs \subseteq VoteReq /\ voteReps \subseteq VoteRep
      /\ appendReqs \subseteq AppendReq /\ appendReps \subseteq AppendRep
      /\ snapReqs \subseteq SnapReq /\ snapReps \subseteq SnapRep
  BY DEF TypeInv, TypeOK, NodeType, VoteType, CallType
<1>2. ASSUME NEW s \in Server, DoElection(s), NEW q \in Server PROVE TermForward(q)
  BY <1>1, <1>2 DEF DoElection, TermForward
<1>3. ASSUME NEW m \in voteReqs, HandleRequestVote(m), NEW q \in Server PROVE TermForward(q)
  <2>1. m.to \in Server /\ m.term \in Nat
    BY <1>1 DEF VoteReq
  <2> DEFINE grant == VoteGranted(m.to, m)
  <2>2. /\ currentTerm' = [currentTerm EXCEPT ![m.to] = MaxOf(@, m.term)]
        /\ votedFor' = [votedFor EXCEPT ![m.to] =
                          CASE grant -> m.from
                            [] ~grant /\ m.term > currentTerm[m.to] -> Nil
                            [] OTHER -> @]
    BY <1>3 DEF HandleRequestVote
  <2>3. grant /\ m.term = currentTerm[m.to] => votedFor[m.to] \in {Nil, m.from}
    BY DEF VoteGranted
  <2>4. grant => m.term >= currentTerm[m.to]
    BY DEF VoteGranted
  <2> HIDE DEF grant
  <2>5. CASE q = m.to
    <3>1. currentTerm'[q] = MaxOf(currentTerm[q], m.term)
      BY <1>1, <2>2, <2>5
    <3>2. CASE grant
      <4>1. votedFor'[q] = m.from
        BY <1>1, <2>2, <2>5, <3>2
      <4> QED
        BY <1>1, <2>1, <2>3, <2>4, <2>5, <3>1, <3>2, <4>1 DEF TermForward, MaxOf
    <3>3. CASE ~grant
      <4>1. votedFor'[q] = IF m.term > currentTerm[q] THEN Nil ELSE votedFor[q]
        BY <1>1, <2>2, <2>5, <3>3
      <4> QED
        BY <1>1, <2>1, <2>5, <3>1, <4>1 DEF TermForward, MaxOf
    <3> QED
      BY <3>2, <3>3
  <2>6. CASE q # m.to
    <3>1. currentTerm'[q] = currentTerm[q] /\ votedFor'[q] = votedFor[q]
      BY <1>1, <2>2, <2>6
    <3> QED
      BY <1>1, <3>1 DEF TermForward
  <2> QED
    BY <2>5, <2>6
<1>4. ASSUME NEW m \in voteReps, HandleRequestVoteReply(m), NEW q \in Server PROVE TermForward(q)
  <2>1. m.to \in Server /\ m.term \in Nat /\ Observe(m.to, m.term)
    BY <1>1, <1>4 DEF VoteRep, HandleRequestVoteReply
  <2> QED
    BY <1>1, <2>1, ObserveForward
<1>5. ASSUME NEW m \in appendReqs, HandleAppendEntries(m), NEW q \in Server PROVE TermForward(q)
  <2>1. m.to \in Server /\ m.term \in Nat /\ Observe(m.to, m.term)
    BY <1>1, <1>5 DEF AppendReq, HandleAppendEntries
  <2> QED
    BY <1>1, <2>1, ObserveForward
<1>6. ASSUME NEW m \in appendReps, HandleAppendRefusal(m) \/ HandleAppendSuccess(m), NEW q \in Server
      PROVE  TermForward(q)
  <2>1. m.to \in Server /\ m.term \in Nat /\ Observe(m.to, m.term)
    BY <1>1, <1>6 DEF AppendRep, HandleAppendRefusal, HandleAppendSuccess
  <2> QED
    BY <1>1, <2>1, ObserveForward
<1>7. ASSUME NEW m \in snapReqs, HandleInstallSnapshot(m), NEW q \in Server PROVE TermForward(q)
  <2>1. m.to \in Server /\ m.term \in Nat /\ Observe(m.to, m.term)
    BY <1>1, <1>7 DEF SnapReq, HandleInstallSnapshot
  <2> QED
    BY <1>1, <2>1, ObserveForward
<1>8. ASSUME NEW m \in snapReps, HandleInstallSnapshotReply(m), NEW q \in Server PROVE TermForward(q)
  <2>1. /\ m.to \in Server /\ m.term \in Nat
        /\ Observe(m.to, m.term) \/ UNCHANGED <<currentTerm, votedFor>>
    BY <1>1, <1>8 DEF SnapRep, HandleInstallSnapshotReply
  <2> QED
    BY <1>1, <2>1, ObserveForward, SameForward
<1>9. ASSUME UNCHANGED <<currentTerm, votedFor>>, NEW q \in Server PROVE TermForward(q)
  BY <1>1, <1>9, SameForward
<1>10. ASSUME NEW s \in Server, DoHeartBeat(s) PROVE UNCHANGED <<currentTerm, votedFor>>
  BY <1>10 DEF DoHeartBeat
<1>11. ASSUME NEW s \in Server, NEW v \in Value, Start(s, v) PROVE UNCHANGED <<currentTerm, votedFor>>
  BY <1>11 DEF Start
<1>12. ASSUME NEW m \in appendReqs, RejectStaleAppend(m) PROVE UNCHANGED <<currentTerm, votedFor>>
  BY <1>12 DEF RejectStaleAppend
<1>13. ASSUME NEW s \in Server, ApplierTick(s) PROVE UNCHANGED <<currentTerm, votedFor>>
  BY <1>13 DEF ApplierTick
<1>14. ASSUME NEW s \in Server, NEW index, Snapshot(s, index) PROVE UNCHANGED <<currentTerm, votedFor>>
  BY <1>14 DEF Snapshot
<1>15. ASSUME NEW s \in Server, NEW p \in Server, SendSnapShot(s, p)
       PROVE  UNCHANGED <<currentTerm, votedFor>>
  BY <1>15 DEF SendSnapShot
<1>16. LoseCall \/ UNCHANGED vars => UNCHANGED <<currentTerm, votedFor>>
  BY DEF LoseCall, vars
<1> QED
  BY <1>2, <1>3, <1>4, <1>5, <1>6, <1>7, <1>8, <1>9, <1>10, <1>11, <1>12, <1>13, <1>14,
     <1>15, <1>16 DEF Next

LEMMA NextLogForward ==
  ASSUME TypeInv, [Next]_vars
  PROVE  \A q \in Server : LogForward(q)
<1> USE DEF logVars
<1>1. /\ LogType /\ CallType
      /\ \A q \in Server : /\ commitIndex[q] \in Nat /\ lastApplied[q] \in Nat
                           /\ Base(q) \in Nat /\ Base(q) = Len(snapshot[q])
                           /\ Len(logs[q]) \in Nat /\ LastLogIndex(q) = Base(q) + Len(logs[q])
  BY IndexType DEF TypeInv, TypeOK, LogType
<1>2. ASSUME NEW m \in appendReqs, HandleAppendEntries(m), NEW q \in Server PROVE LogForward(q)
  <2> DEFINE s == m.to
             merged == MergeEntries(snapshot[s], logs[s], m.prev - Base(s), m.entries)
  <2>1. s \in Server /\ m.leaderCommit \in Nat /\ s \notin exited
    BY <1>1, <1>2 DEF CallType, AppendReq, HandleAppendEntries, Running
  <2>2. /\ commitIndex' = [commitIndex EXCEPT ![s] =
             IF Merges(s, m) /\ m.leaderCommit > commitIndex[s]
               THEN MinOf(m.leaderCommit, Base(s) + Len(merged)) ELSE commitIndex[s]]
        /\ snapshot' = snapshot /\ lastApplied' = lastApplied
    BY <1>2, <2>1 DEF HandleAppendEntries
  <2>3. Merges(s, m) => Len(merged) \in Nat /\ Len(merged) >= Len(logs[s])
    BY <1>1, MergesType
  <2> HIDE DEF merged
  <2>4. commitIndex[s] <= Base(s) + Len(logs[s])
    BY <1>1, <2>1 DEF TypeInv, AppliedInRange
  <2>5. commitIndex'[q] >= commitIndex[q]
    <3>1. CASE q = s /\ Merges(s, m)
      <4>1. commitIndex'[q] = IF m.leaderCommit > commitIndex[s]
                                THEN MinOf(m.leaderCommit, Base(s) + Len(merged)) ELSE commitIndex[s]
        BY <1>1, <2>1, <2>2, <3>1 DEF LogType
      <4>2. \A commit, new, base, old, lc \in Nat :
              commit <= base + old /\ new >= old =>
                (IF lc > commit THEN MinOf(lc, base + new) ELSE commit) >= commit
        BY DEF MinOf
      <4>3. (IF m.leaderCommit > commitIndex[s]
               THEN MinOf(m.leaderCommit, Base(s) + Len(merged)) ELSE commitIndex[s]) >= commitIndex[s]
        BY <1>1, <2>1, <2>3, <2>4, <3>1, <4>2
      <4> QED
        BY <3>1, <4>1, <4>3
    <3>2. CASE ~(q = s /\ Merges(s, m))
      <4>1. commitIndex'[q] = commitIndex[q]
        BY <1>1, <2>1, <2>2, <3>2 DEF LogType
      <4> QED
        BY <1>1, <4>1
    <3> QED
      BY <3>1, <3>2
  <2>6. Base(q)' = Base(q)
    BY <2>2 DEF Base
  <2> QED
    BY <1>1, <2>2, <2>5, <2>6 DEF LogForward
<1>3. ASSUME NEW m \in appendReps, HandleAppendSuccess(m), NEW q \in Server PROVE LogForward(q)
  <2>1. m.to \in Server /\ m.sent \in Nat
    BY <1>1 DEF CallType, AppendRep
  <2>2. /\ UNCHANGED <<snapshot, lastApplied>>
        /\ \E commit \in {commitIndex[m.to], MaxOf(commitIndex[m.to], m.sent)} :
             commitIndex' = [commitIndex EXCEPT ![m.to] = commit]
    BY <1>3 DEF HandleAppendSuccess
  <2>3. commitIndex'[q] >= commitIndex[q]
    BY <1>1, <2>1, <2>2 DEF LogType, MaxOf
  <2>4. Base(q)' = Base(q) /\ lastApplied'[q] = lastApplied[q]
    BY <2>2 DEF Base
  <2> QED
    BY <1>1, <2>3, <2>4 DEF LogForward
<1>4. ASSUME NEW s \in Server, ApplierTick(s), NEW q \in Server PROVE LogForward(q)
  <2>1. /\ lastApplied' = [lastApplied EXCEPT ![s] = commitIndex[s]] /\ lastApplied[s] < commitIndex[s]
        /\ UNCHANGED <<snapshot, commitIndex>>
    BY <1>4 DEF ApplierTick
  <2>2. lastApplied'[q] >= lastApplied[q]
    BY <1>1, <2>1 DEF LogType
  <2>3. Base(q)' = Base(q)
    BY <2>1 DEF Base
  <2> QED
    BY <1>1, <2>1, <2>2, <2>3 DEF LogForward
<1>5. ASSUME NEW s \in Server, NEW index \in Nat, Snapshot(s, index), NEW q \in Server
      PROVE  LogForward(q)
  <2>1. /\ index <= commitIndex[s] /\ index > Base(s) /\ s \notin exited
        /\ snapshot' = [snapshot EXCEPT ![s] = SubSeq(Log(s), 1, index)]
        /\ lastApplied' = [lastApplied EXCEPT ![s] = MaxOf(@, index)]
        /\ commitIndex' = commitIndex
    BY <1>5 DEF Snapshot, Running
  <2>2. lastApplied'[q] >= lastApplied[q]
    BY <1>1, <2>1 DEF LogType, MaxOf
  <2>3. Len(SubSeq(Log(s), 1, index)) = index
    <3>1. Log(s) \in Seq(Entry) /\ Len(Log(s)) = Base(s) + Len(logs[s])
      <4>1. snapshot[s] \in Seq(Entry) /\ logs[s] \in Seq(Entry)
        BY <1>1 DEF LogType
      <4>2. Log(s) \in Seq(Entry) /\ Len(Log(s)) = Len(snapshot[s]) + Len(logs[s])
        BY <4>1, ConcatProperties DEF Log
      <4>3. Base(s) = Len(snapshot[s])
        BY DEF Base
      <4> QED
        BY <4>2, <4>3
    <3>2. commitIndex[s] <= Base(s) + Len(logs[s])
      BY <1>1, <2>1 DEF TypeInv, AppliedInRange
    <3>3. \A commit, base, len \in Nat : index <= commit /\ commit <= base + len => index \in 0 .. base + len
      OBVIOUS
    <3>4. index \in 0 .. Len(Log(s))
      BY <1>1, <2>1, <3>1, <3>2, <3>3, Zenon
    <3> QED
      BY <3>1, <3>4, PrefixAt
  <2>4. Base(q)' >= Base(q)
    <3>1. CASE q = s
      <4>1. Base(q)' = index
        BY <1>1, <2>1, <2>3, <3>1 DEF LogType, Base
      <4> QED
        BY <1>1, <2>1, <3>1, <4>1
    <3>2. CASE q # s
      <4>1. Base(q)' = Base(q)
        BY <1>1, <2>1, <3>2 DEF LogType, Base
      <4> QED
        BY <1>1, <4>1
    <3> QED
      BY <3>1, <3>2
  <2> QED
    BY <1>1, <2>1, <2>2, <2>4 DEF LogForward
<1>6. ASSUME NEW m \in snapReqs, HandleInstallSnapshot(m), NEW q \in Server PROVE LogForward(q)
  <2> DEFINE s == m.to
             index == Len(m.data)
             installs == m.term >= currentTerm[s] /\ index > Base(s)
  <2>1. s \in Server /\ index \in Nat
    BY <1>1, LenProperties DEF CallType, SnapReq
  <2>2. /\ snapshot' = [snapshot EXCEPT ![s] = IF installs THEN m.data ELSE @]
        /\ commitIndex' = [commitIndex EXCEPT ![s] = IF installs THEN MaxOf(@, index) ELSE @]
        /\ lastApplied' = [lastApplied EXCEPT ![s] = IF installs THEN MaxOf(@, index) ELSE @]
    BY <1>6 DEF HandleInstallSnapshot
  <2>3. CASE q = s /\ installs
    <3>1. /\ Base(q)' = index /\ index > Base(q)
          /\ commitIndex'[q] = MaxOf(commitIndex[q], index)
          /\ lastApplied'[q] = MaxOf(lastApplied[q], index)
      BY <1>1, <2>1, <2>2, <2>3 DEF LogType, Base
    <3> HIDE DEF index
    <3> QED
      BY <1>1, <2>1, <3>1 DEF LogForward, MaxOf
  <2>4. CASE ~(q = s /\ installs)
    <3>1. Base(q)' = Base(q) /\ commitIndex'[q] = commitIndex[q] /\ lastApplied'[q] = lastApplied[q]
      BY <1>1, <2>1, <2>2, <2>4 DEF LogType, Base
    <3> QED
      BY <1>1, <3>1 DEF LogForward
  <2> QED
    BY <2>3, <2>4
<1>7. ASSUME UNCHANGED <<snapshot, commitIndex, lastApplied>>, NEW q \in Server PROVE LogForward(q)
  <2>1. commitIndex'[q] = commitIndex[q] /\ lastApplied'[q] = lastApplied[q] /\ Base(q)' = Base(q)
    BY <1>7 DEF Base
  <2> QED
    BY <1>1, <2>1 DEF LogForward
<1>8. ASSUME NEW s \in Server, DoElection(s) PROVE UNCHANGED logVars
  BY <1>8 DEF DoElection
<1>9. ASSUME NEW m \in voteReqs, HandleRequestVote(m) PROVE UNCHANGED logVars
  BY <1>9 DEF HandleRequestVote
<1>10. ASSUME NEW m \in voteReps, HandleRequestVoteReply(m) PROVE UNCHANGED logVars
  BY <1>10 DEF HandleRequestVoteReply
<1>11. ASSUME NEW s \in Server, NEW v \in Value, Start(s, v)
       PROVE  UNCHANGED <<snapshot, commitIndex, lastApplied>>
  BY <1>11 DEF Start
<1>12. ASSUME NEW s \in Server, DoHeartBeat(s) PROVE UNCHANGED logVars
  BY <1>12 DEF DoHeartBeat
<1>13. ASSUME NEW m \in appendReqs, RejectStaleAppend(m) PROVE UNCHANGED logVars
  BY <1>13 DEF RejectStaleAppend
<1>14. ASSUME NEW m \in appendReps, HandleAppendRefusal(m) PROVE UNCHANGED logVars
  BY <1>14 DEF HandleAppendRefusal
<1>15. ASSUME NEW s \in Server, NEW p \in Server, SendSnapShot(s, p) PROVE UNCHANGED logVars
  BY <1>15 DEF SendSnapShot
<1>16. ASSUME NEW m \in snapReps, HandleInstallSnapshotReply(m) PROVE UNCHANGED logVars
  BY <1>16 DEF HandleInstallSnapshotReply
<1>17. LoseCall \/ UNCHANGED vars => UNCHANGED logVars
  BY DEF LoseCall, vars
<1>18. \A index \in 1 .. MaxLog : index \in Nat
  OBVIOUS
<1> QED
  BY <1>2, <1>3, <1>4, <1>5, <1>6, <1>7, <1>8, <1>9, <1>10, <1>11, <1>12, <1>13, <1>14,
     <1>15, <1>16, <1>17, <1>18 DEF Next

\* No step takes back a term, a vote of that term, a commit, an application or a
\* snapshot, with snapshots and in both versions of the source.
THEOREM NothingIsTakenBack == Spec => NothingTakenBack
<1>1. TypeInv /\ [Next]_vars
      => [\A s \in Server :
            /\ currentTerm'[s] >= currentTerm[s]
            /\ commitIndex'[s] >= commitIndex[s]
            /\ lastApplied'[s] >= lastApplied[s]
            /\ Base(s)' >= Base(s)
            /\ (currentTerm'[s] = currentTerm[s] /\ votedFor[s] # Nil) =>
                 votedFor'[s] = votedFor[s]]_vars
  BY NextTermForward, NextLogForward DEF TermForward, LogForward
<1> QED
  BY <1>1, TypeInvariant, PTL DEF Spec, NothingTakenBack

-----------------------------------------------------------------------------
(* Cardinalities *)

LEMMA MajorityType ==
  /\ Cardinality(Server) \in Nat
  /\ Majority \in Nat /\ Majority >= 1
  /\ Cardinality(Server) < Majority + Majority
<1>1. Cardinality(Server) \in Nat
  BY ServerAssumption, FS_CardinalityType
<1> DEFINE n == Cardinality(Server)
<1>2. n \in Nat /\ Majority = n \div 2 + 1
  BY <1>1 DEF Majority
<1> HIDE DEF n
<1>3. n \div 2 \in Nat /\ n < 2 * (n \div 2) + 2
  BY <1>2
<1>4. Majority \in Nat /\ Majority >= 1 /\ n < Majority + Majority
  BY <1>2, <1>3
<1> QED
  BY <1>1, <1>4 DEF n

\* The supporters of a candidate are servers.
LEMMA SupportersType ==
  ASSUME counted \subseteq Vote, NEW term, NEW s
  PROVE  /\ Supporters(term, s) \subseteq Server
         /\ IsFiniteSet(Supporters(term, s))
         /\ Cardinality(Supporters(term, s)) \in Nat
         /\ Cardinality(Supporters(term, s)) <= Cardinality(Server)
<1>1. Supporters(term, s) \subseteq Server
  BY DEF Supporters
<1> QED
  BY <1>1, ServerAssumption, FS_Subset, FS_CardinalityType

\* Two sets of servers that are each a majority have a member in common.
LEMMA MajoritiesMeet ==
  ASSUME NEW S, NEW T, S \subseteq Server, T \subseteq Server,
         Cardinality(S) >= Majority, Cardinality(T) >= Majority
  PROVE  S \cap T # {}
<1>1. /\ IsFiniteSet(S) /\ IsFiniteSet(T) /\ IsFiniteSet(S \cup T)
      /\ Cardinality(S) \in Nat /\ Cardinality(T) \in Nat
      /\ Cardinality(S \cup T) \in Nat /\ Cardinality(S \cup T) <= Cardinality(Server)
  <2>1. S \cup T \subseteq Server
    OBVIOUS
  <2> QED
    BY <2>1, ServerAssumption, FS_Subset, FS_CardinalityType
<1>2. Cardinality(S \cup T) = Cardinality(S) + Cardinality(T) - Cardinality(S \cap T)
  BY <1>1, FS_Union
<1> SUFFICES ASSUME S \cap T = {} PROVE FALSE
  OBVIOUS
<1>3. Cardinality(S \cap T) = 0
  BY FS_EmptySet
<1> QED
  BY <1>1, <1>2, <1>3, MajorityType

-----------------------------------------------------------------------------
(* VoteInv is inductive *)

LEMMA InitVotes == Init => VoteInv
  BY DEF Init, VoteInv, BallotsInv, RequestsInv, GrantsInv, CountInv, ElectedInv,
         Follower, Leader

\* Steps that cast and count no vote: terms only advance, a server that stays in
\* its term keeps its vote, and no server becomes leader.
LEMMA TermsAdvance ==
  ASSUME TypeInv, VoteInv,
         UNCHANGED <<votedNum, ballots, counted, elected>>,
         voteReqs' \subseteq voteReqs, voteReps' \subseteq voteReps,
         currentTerm' \in [Server -> Nat],
         \A p \in Server :
           /\ currentTerm[p] <= currentTerm'[p]
           /\ currentTerm[p] = currentTerm'[p] => votedFor'[p] = votedFor[p]
           /\ status'[p] = Leader => status[p] = Leader /\ currentTerm[p] = currentTerm'[p]
  PROVE  VoteInv'
<1> USE DEF VoteInv
<1>1. ballots \subseteq Vote /\ elected \subseteq Nat \X Server /\ currentTerm \in [Server -> Nat]
  BY DEF TypeInv, TypeOK, VoteType, NodeType
<1>2. BallotsInv'
  <2> SUFFICES ASSUME NEW v \in ballots
               PROVE  /\ v[2] <= currentTerm'[v[1]]
                      /\ v[2] = currentTerm'[v[1]] => votedFor'[v[1]] = v[3]
    BY DEF BallotsInv
  <2>1. v[1] \in Server /\ v[2] \in Nat
    BY <1>1 DEF Vote
  <2>2. v[2] <= currentTerm[v[1]] /\ (v[2] = currentTerm[v[1]] => votedFor[v[1]] = v[3])
    BY DEF BallotsInv
  <2> QED
    BY <1>1, <2>1, <2>2
<1>3. RequestsInv' /\ GrantsInv'
  BY DEF RequestsInv, GrantsInv
<1>4. CountInv'
  <2> SUFFICES ASSUME NEW s \in Server, <<s, currentTerm'[s], s>> \in ballots
               PROVE  currentTerm'[s] = currentTerm[s]
    BY DEF CountInv, Supporters
  <2>1. currentTerm'[s] <= currentTerm[s]
    BY DEF BallotsInv
  <2> QED
    BY <1>1, <2>1
<1>5. ElectedInv'
  <2>1. ASSUME NEW e \in elected PROVE e[1] <= currentTerm'[e[2]]
    <3>1. e[1] \in Nat /\ e[2] \in Server /\ e[1] <= currentTerm[e[2]]
      BY <1>1 DEF ElectedInv
    <3> QED
      BY <1>1, <3>1
  <2> QED
    BY <2>1 DEF ElectedInv, Supporters
<1> QED
  BY <1>2, <1>3, <1>4, <1>5

LEMMA DoElectionVotes ==
  ASSUME TypeInv, VoteInv, NEW s \in Server, DoElection(s)
  PROVE  VoteInv'
<1> USE DEF VoteInv
<1> DEFINE T == currentTerm[s] + 1
           new == <<s, T, s>>
<1>1. /\ ballots \subseteq Vote /\ counted \subseteq Vote /\ elected \subseteq Nat \X Server
      /\ voteReqs \subseteq VoteReq /\ voteReps \subseteq VoteRep
      /\ currentTerm \in [Server -> Nat] /\ votedFor \in [Server -> Server \cup {Nil}]
      /\ votedNum \in [Server -> Nat] /\ status \in [Server -> {Follower, Candidate, Leader}]
  BY DEF TypeInv, TypeOK, VoteType, NodeType
<1>2. /\ ballots' = ballots \cup {new} /\ counted' = counted \cup {new}
      /\ elected' = elected /\ voteReps' = voteReps
      /\ currentTerm' = [currentTerm EXCEPT ![s] = T]
      /\ votedFor' = [votedFor EXCEPT ![s] = s]
      /\ votedNum' = [votedNum EXCEPT ![s] = 1]
      /\ status' = [status EXCEPT ![s] = Candidate]
  BY DEF DoElection
<1>3. ASSUME NEW m \in voteReqs'
      PROVE  m \in voteReqs \/ (m.from = s /\ m.term = T /\ m.to \in Server \ {s})
  BY DEF DoElection, Peers
<1>4. \A m, n \in voteReqs' : (m \notin voteReqs /\ n \notin voteReqs /\ m.to = n.to) => m = n
  BY DEF DoElection
<1>5. T \in Nat /\ currentTerm[s] < T /\ currentTerm'[s] = T
  BY <1>1, <1>2
<1>6. \A v \in ballots : v[1] = s => v[2] # T      \* the term is new to s
  <2> SUFFICES ASSUME NEW v \in ballots, v[1] = s, v[2] = T PROVE FALSE
    OBVIOUS
  <2>1. T <= currentTerm[s]
    BY DEF BallotsInv
  <2> QED
    BY <1>1, <1>5, <2>1
<1>7. \A p \in Server : <<p, T, s>> \notin ballots  \* nobody has voted for s in it
  BY <1>6 DEF BallotsInv
<1> HIDE DEF T
<1>8. BallotsInv'
  <2> SUFFICES ASSUME NEW v \in ballots'
               PROVE  /\ v[2] <= currentTerm'[v[1]]
                      /\ v[2] = currentTerm'[v[1]] => votedFor'[v[1]] = v[3]
                      /\ <<v[3], v[2], v[3]>> \in ballots'
                      /\ \A w \in ballots' : v[1] = w[1] /\ v[2] = w[2] => v[3] = w[3]
    BY DEF BallotsInv
  <2>1. CASE v = new
    BY <1>1, <1>2, <1>5, <1>6, <2>1
  <2>2. CASE v \in ballots
    <3>1. v[1] \in Server /\ v[2] \in Nat
      BY <1>1, <2>2 DEF Vote
    <3>2. /\ v[2] <= currentTerm[v[1]]
          /\ v[2] = currentTerm[v[1]] => votedFor[v[1]] = v[3]
          /\ <<v[3], v[2], v[3]>> \in ballots
          /\ \A w \in ballots : v[1] = w[1] /\ v[2] = w[2] => v[3] = w[3]
      BY <2>2 DEF BallotsInv
    <3>3. CASE v[1] = s
      BY <1>1, <1>2, <1>5, <1>6, <2>2, <3>1, <3>2, <3>3
    <3>4. CASE v[1] # s
      BY <1>1, <1>2, <3>1, <3>2, <3>4
    <3> QED
      BY <3>3, <3>4
  <2> QED
    BY <1>2, <2>1, <2>2
<1>9. RequestsInv'
  <2> SUFFICES ASSUME NEW m \in voteReqs'
               PROVE  /\ m.from # m.to
                      /\ <<m.from, m.term, m.from>> \in ballots'
                      /\ <<m.to, m.term, m.from>> \notin counted'
                      /\ \A r \in voteReps : r.from = m.to /\ r.to = m.from /\ r.term = m.term => ~r.granted
                      /\ \A n \in voteReqs' : n.from = m.from /\ n.to = m.to /\ n.term = m.term => n = m
    BY <1>2 DEF RequestsInv
  <2>1. CASE m \in voteReqs
    <3>1. /\ m.from # m.to /\ <<m.from, m.term, m.from>> \in ballots
          /\ <<m.to, m.term, m.from>> \notin counted
          /\ \A r \in voteReps : r.from = m.to /\ r.to = m.from /\ r.term = m.term => ~r.granted
          /\ \A n \in voteReqs : n.from = m.from /\ n.to = m.to /\ n.term = m.term => n = m
      BY <2>1 DEF RequestsInv
    <3>2. \A n \in voteReqs' \ voteReqs : ~(n.from = m.from /\ n.term = m.term)
      BY <1>3, <1>6, <3>1
    <3> QED
      BY <1>2, <3>1, <3>2
  <2>2. CASE m \notin voteReqs
    <3>1. m.from = s /\ m.term = T /\ m.to \in Server \ {s}
      BY <1>3, <2>2
    <3>2. <<m.to, T, s>> \notin counted'
      BY <1>2, <1>7, <3>1 DEF CountInv
    <3>3. \A r \in voteReps : r.from = m.to /\ r.to = m.from /\ r.term = m.term => ~r.granted
      BY <1>7, <3>1 DEF GrantsInv
    <3>4. \A n \in voteReqs : ~(n.from = s /\ n.term = T)
      BY <1>6 DEF RequestsInv
    <3> QED
      BY <1>2, <1>4, <2>2, <3>1, <3>2, <3>3, <3>4
  <2> QED
    BY <2>1, <2>2
<1>10. GrantsInv'
  BY <1>2, <1>6 DEF GrantsInv
<1>11. \A t, p : Supporters(t, p)' = IF t = T /\ p = s THEN Supporters(t, p) \cup {s}
                                                     ELSE Supporters(t, p)
  BY <1>2 DEF Supporters
<1>12. \A e \in elected : e # <<T, s>>
  <2> SUFFICES ASSUME <<T, s>> \in elected PROVE FALSE
    OBVIOUS
  <2>1. T <= currentTerm[s]
    BY DEF ElectedInv
  <2> QED
    BY <1>1, <1>5, <2>1
<1>13. CountInv'
  <2>1. counted' \subseteq ballots'
    BY <1>2 DEF CountInv
  <2>2. ASSUME NEW p \in Server, <<p, currentTerm'[p], p>> \in ballots'
        PROVE  votedNum'[p] + (IF <<currentTerm'[p], p>> \in elected' THEN Majority ELSE 0)
                 <= Cardinality(Supporters(currentTerm[p], p)')
    <3>1. CASE p = s
      <4>1. Supporters(currentTerm[s], s)' = Supporters(T, s) \cup {s}
        BY <1>2, <1>5 DEF Supporters
      <4>2. Cardinality(Supporters(currentTerm[s], s)') >= 1
        <5>1. IsFiniteSet(Supporters(T, s)) /\ Cardinality(Supporters(T, s)) \in Nat
          BY <1>1, SupportersType
        <5>2. Supporters(T, s) = {} => Cardinality(Supporters(T, s)) = 0
          BY FS_EmptySet
        <5>3. s \notin Supporters(T, s)
          BY <1>7 DEF Supporters, CountInv
        <5>4. Cardinality(Supporters(T, s) \cup {s}) = Cardinality(Supporters(T, s)) + 1
          BY <5>1, <5>3, FS_AddElement
        <5> QED
          BY <4>1, <5>1, <5>4
      <4>3. votedNum'[s] = 1 /\ <<currentTerm'[s], s>> \notin elected'
        BY <1>1, <1>2, <1>5, <1>12
      <4> QED
        BY <1>5, <3>1, <4>2, <4>3
    <3>2. CASE p # s
      <4>1. currentTerm'[p] = currentTerm[p] /\ votedNum'[p] = votedNum[p] /\ elected' = elected
        BY <1>1, <1>2, <3>2
      <4>2. <<p, currentTerm[p], p>> \in ballots
        BY <1>2, <2>2, <3>2, <4>1
      <4>3. Supporters(currentTerm[p], p)' = Supporters(currentTerm[p], p)
        BY <1>2, <3>2, <4>1 DEF Supporters
      <4> QED
        BY <4>1, <4>2, <4>3 DEF CountInv
    <3> QED
      BY <3>1, <3>2
  <2> QED
    BY <2>1, <2>2 DEF CountInv
<1>14. ElectedInv'
  <2>1. ASSUME NEW e \in elected
        PROVE  e[1] <= currentTerm'[e[2]] /\ Cardinality(Supporters(e[1], e[2])') >= Majority
    <3>1. e[1] \in Nat /\ e[2] \in Server /\ e = <<e[1], e[2]>>
      BY <1>1
    <3>2. Supporters(e[1], e[2])' = Supporters(e[1], e[2])
      BY <1>11, <1>12, <3>1
    <3>3. currentTerm[e[2]] <= currentTerm'[e[2]]
      BY <1>1, <1>2, <1>5, <3>1
    <3>4. e[1] <= currentTerm[e[2]] /\ Cardinality(Supporters(e[1], e[2])) >= Majority
      BY DEF ElectedInv
    <3> QED
      BY <1>1, <1>2, <1>5, <3>1, <3>2, <3>3, <3>4
  <2>2. ASSUME NEW p \in Server, status'[p] = Leader
        PROVE  <<currentTerm'[p], p>> \in elected
    BY <1>1, <1>2, <2>2 DEF ElectedInv, Candidate, Leader
  <2> QED
    BY <1>2, <2>1, <2>2 DEF ElectedInv
<1> QED
  BY <1>8, <1>9, <1>10, <1>13, <1>14

LEMMA HandleRequestVoteVotes ==
  ASSUME TypeInv, VoteInv, NEW m \in voteReqs, HandleRequestVote(m)
  PROVE  VoteInv'
<1> USE DEF VoteInv
<1> DEFINE s == m.to
           grant == VoteGranted(s, m)
           new == <<s, m.term, m.from>>
           reply == [term |-> MaxOf(currentTerm[s], m.term), granted |-> grant,
                     from |-> s, to |-> m.from]
<1>1. /\ ballots \subseteq Vote /\ counted \subseteq Vote /\ elected \subseteq Nat \X Server
      /\ currentTerm \in [Server -> Nat] /\ votedFor \in [Server -> Server \cup {Nil}]
      /\ status \in [Server -> {Follower, Candidate, Leader}]
      /\ m.term \in Nat /\ s \in Server /\ m.from \in Server /\ Nil \notin Server
  BY ServerAssumption DEF TypeInv, TypeOK, VoteType, NodeType, VoteReq
<1>2. /\ ballots' = (IF grant THEN ballots \cup {new} ELSE ballots)
      /\ voteReqs' = voteReqs \ {m} /\ voteReps' = voteReps \cup {reply}
      /\ UNCHANGED <<votedNum, counted, elected>>
  BY DEF HandleRequestVote
<1>3. /\ m.from # s /\ <<m.from, m.term, m.from>> \in ballots
      /\ new \notin counted
      /\ \A n \in voteReqs : n.from = m.from /\ n.to = s /\ n.term = m.term => n = m
  BY DEF RequestsInv
<1>4. /\ currentTerm' \in [Server -> Nat]
      /\ currentTerm'[s] = (IF m.term > currentTerm[s] THEN m.term ELSE currentTerm[s])
      /\ \A p \in Server \ {s} : /\ currentTerm'[p] = currentTerm[p]
                                  /\ votedFor'[p] = votedFor[p] /\ status'[p] = status[p]
      /\ m.term <= currentTerm[s] => status'[s] = status[s]
      /\ m.term > currentTerm[s] => status'[s] # Leader
      /\ grant => m.term >= currentTerm[s] /\ votedFor'[s] = m.from
      /\ grant /\ m.term = currentTerm[s] => votedFor[s] \in {Nil, m.from}
      /\ ~grant /\ m.term <= currentTerm[s] => votedFor'[s] = votedFor[s]
  BY <1>1 DEF HandleRequestVote, VoteGranted, MaxOf, Follower, Leader
<1>5. \A p \in Server : currentTerm[p] <= currentTerm'[p]
  BY <1>1, <1>4
<1>6. reply.from = s /\ reply.to = m.from /\ reply.granted = grant /\ reply.term = currentTerm'[s]
  BY <1>1, <1>4 DEF MaxOf
<1> HIDE DEF grant, reply
<1>7. BallotsInv'
  <2>1. ASSUME NEW v \in ballots, v[1] = s
        PROVE  v[2] = currentTerm'[s] => votedFor'[s] = v[3]
    <3>1. v[2] \in Nat /\ v[3] \in Server
      BY <1>1 DEF Vote
    <3>2. v[2] <= currentTerm[s] /\ (v[2] = currentTerm[s] => votedFor[s] = v[3])
      BY <2>1 DEF BallotsInv
    <3> QED
      BY <1>1, <1>4, <3>1, <3>2
  <2>2. ASSUME NEW v \in ballots, grant, v[1] = s, v[2] = m.term
        PROVE  v[3] = m.from
    <3>1. currentTerm'[s] = m.term
      BY <1>1, <1>4, <2>2
    <3> QED
      BY <1>4, <2>1, <2>2, <3>1
  <2>3. ASSUME NEW v \in ballots
        PROVE  /\ v[2] <= currentTerm'[v[1]]
               /\ v[2] = currentTerm'[v[1]] => votedFor'[v[1]] = v[3]
               /\ <<v[3], v[2], v[3]>> \in ballots
               /\ \A w \in ballots : v[1] = w[1] /\ v[2] = w[2] => v[3] = w[3]
    <3>1. v[1] \in Server /\ v[2] \in Nat
      BY <1>1 DEF Vote
    <3>2. /\ v[2] <= currentTerm[v[1]]
          /\ v[2] = currentTerm[v[1]] => votedFor[v[1]] = v[3]
          /\ <<v[3], v[2], v[3]>> \in ballots
          /\ \A w \in ballots : v[1] = w[1] /\ v[2] = w[2] => v[3] = w[3]
      BY DEF BallotsInv
    <3> QED
      BY <1>1, <1>4, <1>5, <2>1, <3>1, <3>2
  <2>4. CASE ~grant
    BY <1>2, <2>3, <2>4 DEF BallotsInv
  <2>5. CASE grant
    <3>1. m.term <= currentTerm'[s] /\ votedFor'[s] = m.from
      BY <1>1, <1>4, <2>5
    <3>2. ballots' = ballots \cup {new}
      BY <1>2, <2>5
    <3>3. ASSUME NEW v \in ballots', NEW w \in ballots', v[1] = w[1], v[2] = w[2]
          PROVE  v[3] = w[3]
      <4>1. CASE v \in ballots /\ w \in ballots
        BY <2>3, <3>3, <4>1
      <4>2. CASE v = new /\ w \in ballots
        BY <2>2, <2>5, <3>3, <4>2
      <4>3. CASE v \in ballots /\ w = new
        BY <2>2, <2>5, <3>3, <4>3
      <4>4. CASE v = new /\ w = new
        BY <4>4
      <4> QED
        BY <3>2, <4>1, <4>2, <4>3, <4>4
    <3>4. ASSUME NEW v \in ballots'
          PROVE  /\ v[2] <= currentTerm'[v[1]]
                 /\ v[2] = currentTerm'[v[1]] => votedFor'[v[1]] = v[3]
                 /\ <<v[3], v[2], v[3]>> \in ballots'
      <4>1. CASE v \in ballots
        BY <2>3, <3>2, <4>1
      <4>2. CASE v = new
        BY <1>3, <3>1, <3>2, <4>2
      <4> QED
        BY <3>2, <4>1, <4>2
    <3> QED
      BY <3>3, <3>4 DEF BallotsInv
  <2> QED
    BY <2>4, <2>5
<1>8. RequestsInv'
  <2> SUFFICES ASSUME NEW n \in voteReqs \ {m}
               PROVE  reply.from = n.to /\ reply.to = n.from /\ reply.term = n.term => ~reply.granted
    BY <1>2 DEF RequestsInv
  <2>1. reply.granted => reply.term = m.term
    BY <1>1, <1>4, <1>6
  <2> QED
    BY <1>3, <1>6, <2>1
<1>9. GrantsInv'
  <2>1. reply.granted => <<reply.from, reply.term, reply.to>> = new
    BY <1>1, <1>4, <1>6
  <2>2. reply.granted => new \in ballots'
    BY <1>2, <1>6
  <2> QED
    BY <1>2, <1>3, <2>1, <2>2 DEF GrantsInv
<1>10. CountInv'
  <2>1. ASSUME NEW p \in Server, <<p, currentTerm'[p], p>> \in ballots'
        PROVE  currentTerm'[p] = currentTerm[p] /\ <<p, currentTerm[p], p>> \in ballots
    <3>1. <<p, currentTerm'[p], p>> \in ballots
      BY <1>2, <1>3, <2>1
    <3>2. currentTerm'[p] <= currentTerm[p]
      BY <3>1 DEF BallotsInv
    <3>3. currentTerm'[p] = currentTerm[p]
      BY <1>1, <1>4, <1>5, <3>2
    <3> QED
      BY <3>1, <3>3
  <2>2. \A t, p : Supporters(t, p)' = Supporters(t, p)
    BY <1>2 DEF Supporters
  <2> QED
    BY <1>2, <2>1, <2>2 DEF CountInv, Supporters
<1>11. ElectedInv'
  <2>1. ASSUME NEW e \in elected PROVE e[1] <= currentTerm'[e[2]]
    <3>1. e[1] \in Nat /\ e[2] \in Server /\ e[1] <= currentTerm[e[2]]
      BY <1>1 DEF ElectedInv
    <3> QED
      BY <1>1, <1>4, <1>5, <3>1
  <2>2. ASSUME NEW p \in Server, status'[p] = Leader
        PROVE  <<currentTerm'[p], p>> \in elected
    <3>1. status[p] = Leader /\ currentTerm'[p] = currentTerm[p]
      BY <1>1, <1>4, <2>2
    <3> QED
      BY <3>1 DEF ElectedInv
  <2> QED
    BY <1>2, <2>1, <2>2 DEF ElectedInv, Supporters
<1> QED
  BY <1>7, <1>8, <1>9, <1>10, <1>11

LEMMA HandleRequestVoteReplyVotes ==
  ASSUME TypeInv, VoteInv, NEW m \in voteReps, HandleRequestVoteReply(m)
  PROVE  VoteInv'
<1> USE DEF VoteInv
<1> DEFINE s == m.to
           counts == m.term = currentTerm[s] /\ m.granted
           wins == counts /\ votedNum[s] + 1 >= Majority
           vote == <<m.from, m.term, s>>
<1>1. /\ ballots \subseteq Vote /\ counted \subseteq Vote /\ elected \subseteq Nat \X Server
      /\ currentTerm \in [Server -> Nat] /\ votedNum \in [Server -> Nat]
      /\ status \in [Server -> {Follower, Candidate, Leader}]
      /\ m \in VoteRep /\ m.term \in Nat /\ s \in Server /\ m.from \in Server
  BY DEF TypeInv, TypeOK, VoteType, NodeType, VoteRep
<1>2. /\ voteReps' = voteReps \ {m} /\ UNCHANGED <<ballots, voteReqs>>
      /\ counted' = IF counts THEN counted \cup {vote} ELSE counted
      /\ elected' = IF wins THEN elected \cup {<<m.term, s>>} ELSE elected
      /\ votedNum' = [votedNum EXCEPT ![s] = CASE wins -> 0
                                               [] counts /\ ~wins -> @ + 1
                                               [] OTHER -> @]
      /\ status' = [status EXCEPT ![s] = CASE m.term > currentTerm[s] -> Follower
                                           [] wins -> Leader
                                           [] OTHER -> @]
      /\ Observe(s, m.term)
  BY DEF HandleRequestVoteReply
<1>3. /\ currentTerm' \in [Server -> Nat]
      /\ \A p \in Server : /\ currentTerm[p] <= currentTerm'[p]
                            /\ currentTerm[p] = currentTerm'[p] => votedFor'[p] = votedFor[p]
      /\ counts => currentTerm' = currentTerm
      /\ m.term > currentTerm[s] => currentTerm'[s] = m.term
      /\ m.term <= currentTerm[s] => currentTerm'[s] = currentTerm[s]
      /\ \A p \in Server \ {s} : currentTerm'[p] = currentTerm[p]
  <2>1. votedFor \in [Server -> Server \cup {Nil}]
    BY DEF TypeInv, TypeOK, NodeType
  <2> QED
    BY <1>1, <1>2, <2>1 DEF Observe, MaxOf
<1>4. counts => vote \in ballots /\ vote \notin counted /\ <<s, m.term, s>> \in ballots
  BY DEF GrantsInv, BallotsInv
<1>5. BallotsInv'
  <2> SUFFICES ASSUME NEW v \in ballots
               PROVE  /\ v[2] <= currentTerm'[v[1]]
                      /\ v[2] = currentTerm'[v[1]] => votedFor'[v[1]] = v[3]
    BY <1>2 DEF BallotsInv
  <2>1. v[1] \in Server /\ v[2] \in Nat
    BY <1>1 DEF Vote
  <2>2. v[2] <= currentTerm[v[1]] /\ (v[2] = currentTerm[v[1]] => votedFor[v[1]] = v[3])
    BY DEF BallotsInv
  <2> QED
    BY <1>1, <1>3, <2>1, <2>2
<1>6. RequestsInv'
  <2> SUFFICES ASSUME NEW n \in voteReqs
               PROVE  <<n.to, n.term, n.from>> \notin counted'
    BY <1>2 DEF RequestsInv
  <2>1. counts => <<n.to, n.term, n.from>> # vote
    BY DEF RequestsInv
  <2> QED
    BY <1>2, <2>1 DEF RequestsInv
<1>7. GrantsInv'
  <2> SUFFICES ASSUME NEW r \in voteReps \ {m}, r.granted
               PROVE  <<r.from, r.term, r.to>> \in ballots /\ <<r.from, r.term, r.to>> \notin counted'
    BY <1>2 DEF GrantsInv
  <2>1. <<r.from, r.term, r.to>> \in ballots /\ <<r.from, r.term, r.to>> \notin counted
    BY DEF GrantsInv
  <2>2. counts => <<r.from, r.term, r.to>> # vote
    <3> SUFFICES ASSUME counts, r.from = m.from, r.term = m.term, r.to = m.to
                 PROVE  FALSE
      OBVIOUS
    <3>1. r \in VoteRep /\ r.granted = TRUE /\ m.granted = TRUE
      BY <1>1 DEF TypeInv, TypeOK, VoteType, VoteRep
    <3>2. r = m
      BY <1>1, <3>1 DEF VoteRep
    <3> QED
      BY <3>2
  <2> QED
    BY <1>2, <2>1, <2>2
<1>8. \A t, p : Supporters(t, p)' = IF counts /\ t = m.term /\ p = s
                                      THEN Supporters(t, p) \cup {m.from} ELSE Supporters(t, p)
  BY <1>1, <1>2 DEF Supporters
<1> DEFINE old == Cardinality(Supporters(m.term, s))
<1>9. /\ old \in Nat
      /\ counts => Cardinality(Supporters(m.term, s) \cup {m.from}) = old + 1
      /\ counts => votedNum[s] + (IF <<m.term, s>> \in elected THEN Majority ELSE 0) <= old
  <2>1. IsFiniteSet(Supporters(m.term, s)) /\ old \in Nat
    BY <1>1, SupportersType
  <2>2. counts => m.from \notin Supporters(m.term, s)
    BY <1>4 DEF Supporters
  <2>3. counts => votedNum[s] + (IF <<m.term, s>> \in elected THEN Majority ELSE 0) <= old
    BY <1>1, <1>4 DEF CountInv
  <2> QED
    BY <2>1, <2>2, <2>3, FS_AddElement
<1> HIDE DEF old, wins
<1>10. /\ votedNum[s] \in Nat /\ Majority \in Nat
       /\ wins => counts /\ votedNum[s] + 1 >= Majority
  BY <1>1, MajorityType DEF wins
<1>11. CountInv'
  <2>1. counted' \subseteq ballots'
    BY <1>2, <1>4 DEF CountInv
  <2>2. ASSUME NEW p \in Server, <<p, currentTerm'[p], p>> \in ballots
        PROVE  votedNum'[p] + (IF <<currentTerm'[p], p>> \in elected' THEN Majority ELSE 0)
                 <= Cardinality({v \in Server : <<v, currentTerm'[p], p>> \in counted'})
    <3>1. currentTerm'[p] = currentTerm[p]
      <4>1. currentTerm'[p] <= currentTerm[p]
        BY <2>2 DEF BallotsInv
      <4> QED
        BY <1>1, <1>3, <4>1
    <3>2. votedNum[p] + (IF <<currentTerm[p], p>> \in elected THEN Majority ELSE 0)
            <= Cardinality(Supporters(currentTerm[p], p))
      BY <2>2, <3>1 DEF CountInv
    <3>3. CASE p # s \/ ~counts
      <4>1. {v \in Server : <<v, currentTerm'[p], p>> \in counted'} = Supporters(currentTerm[p], p)
        BY <1>2, <3>1, <3>3 DEF Supporters
      <4>2. votedNum'[p] = votedNum[p]
        BY <1>1, <1>2, <1>10, <3>3
      <4>3. <<currentTerm'[p], p>> \in elected' <=> <<currentTerm[p], p>> \in elected
        BY <1>2, <1>10, <3>1, <3>3
      <4> QED
        BY <3>2, <4>1, <4>2, <4>3
    <3>4. CASE p = s /\ counts
      <4>1. currentTerm'[s] = m.term
        BY <3>1, <3>4
      <4>2. Cardinality({v \in Server : <<v, currentTerm'[p], p>> \in counted'}) = old + 1
        <5>1. {v \in Server : <<v, m.term, s>> \in counted'} = Supporters(m.term, s) \cup {m.from}
          BY <1>1, <1>2, <3>4 DEF Supporters
        <5> QED
          BY <1>9, <3>4, <4>1, <5>1
      <4>3. CASE wins
        <5>1. votedNum'[s] = 0
          BY <1>1, <1>2, <4>3
        <5>2. Majority <= old + 1
          BY <1>9, <1>10, <3>4, <4>3
        <5> QED
          BY <1>9, <1>10, <3>4, <4>2, <5>1, <5>2
      <4>4. CASE ~wins
        <5>1. votedNum'[s] = votedNum[s] + 1 /\ elected' = elected
          BY <1>1, <1>2, <3>4, <4>4
        <5> QED
          BY <1>9, <1>10, <3>4, <4>1, <4>2, <5>1
      <4> QED
        BY <4>3, <4>4
    <3> QED
      BY <3>3, <3>4
  <2> QED
    BY <1>2, <2>1, <2>2 DEF CountInv, Supporters
<1>12. ElectedInv'
  <2>1. ASSUME NEW e \in elected'
        PROVE  e[1] <= currentTerm'[e[2]] /\ Cardinality(Supporters(e[1], e[2])') >= Majority
    <3>1. CASE wins /\ e = <<m.term, s>>
      <4>1. Supporters(m.term, s)' = Supporters(m.term, s) \cup {m.from}
        BY <1>8, <1>10, <3>1
      <4>2. Cardinality(Supporters(m.term, s)') >= Majority
        BY <1>9, <1>10, <3>1, <4>1
      <4>3. m.term <= currentTerm'[s]
        BY <1>1, <1>3, <1>10, <3>1
      <4> QED
        BY <3>1, <4>2, <4>3
    <3>2. CASE e \in elected
      <4>1. e[1] \in Nat /\ e[2] \in Server /\ e[1] <= currentTerm[e[2]]
            /\ Cardinality(Supporters(e[1], e[2])) >= Majority
        BY <1>1, <3>2 DEF ElectedInv
      <4>2. e[1] <= currentTerm'[e[2]]
        BY <1>1, <1>3, <4>1
      <4>3. Cardinality(Supporters(e[1], e[2])') >= Cardinality(Supporters(e[1], e[2]))
        <5>1. Supporters(e[1], e[2]) \subseteq Supporters(e[1], e[2])'
          BY <1>8
        <5>2. IsFiniteSet(Supporters(e[1], e[2])')
          BY <1>2, <1>4, ServerAssumption, FS_Subset DEF Supporters
        <5> QED
          BY <5>1, <5>2, FS_Subset
      <4>4. Cardinality(Supporters(e[1], e[2])') \in Nat
        BY <1>2, ServerAssumption, FS_Subset, FS_CardinalityType DEF Supporters
      <4>5. Cardinality(Supporters(e[1], e[2])) \in Nat
        BY <1>1, SupportersType
      <4> QED
        BY <1>10, <4>1, <4>2, <4>3, <4>4, <4>5
    <3> QED
      BY <1>2, <2>1, <3>1, <3>2
  <2>2. ASSUME NEW p \in Server, status'[p] = Leader
        PROVE  <<currentTerm'[p], p>> \in elected'
    <3>1. CASE p = s /\ wins
      BY <1>2, <1>3, <1>10, <3>1
    <3>2. CASE ~(p = s /\ wins)
      <4>1. status[p] = Leader /\ currentTerm'[p] = currentTerm[p]
        BY <1>1, <1>2, <1>3, <2>2, <3>2 DEF Follower, Leader
      <4> QED
        BY <1>2, <4>1 DEF ElectedInv
    <3> QED
      BY <3>1, <3>2
  <2> QED
    BY <2>1, <2>2 DEF ElectedInv
<1> QED
  BY <1>5, <1>6, <1>7, <1>11, <1>12

LEMMA LoseCallVotes ==
  ASSUME TypeInv, VoteInv, LoseCall
  PROVE  VoteInv'
<1>1. /\ UNCHANGED <<votedNum, ballots, counted, elected, currentTerm, votedFor, status>>
      /\ voteReqs' \subseteq voteReqs /\ voteReps' \subseteq voteReps
  BY DEF LoseCall, callVars, nodeVars
<1>2. currentTerm \in [Server -> Nat]
  BY DEF TypeInv, TypeOK, NodeType
<1> QED
  BY <1>1, <1>2, TermsAdvance

\* The handlers of appends and snapshots, in which a server at most follows a
\* higher term.
LEMMA FollowVotes ==
  ASSUME TypeInv, VoteInv, NEW s \in Server, NEW term \in Nat,
         Observe(s, term), UNCHANGED voteVars,
         \/ status' = [status EXCEPT ![s] = Follower]
         \/ status' = [status EXCEPT ![s] = IF term > currentTerm[s] THEN Follower ELSE @]
         \/ term <= currentTerm[s] /\ status' = status
  PROVE  VoteInv'
<1>1. /\ currentTerm \in [Server -> Nat] /\ votedFor \in [Server -> Server \cup {Nil}]
      /\ status \in [Server -> {Follower, Candidate, Leader}]
  BY DEF TypeInv, TypeOK, NodeType
<1>2. currentTerm' \in [Server -> Nat]
  BY <1>1 DEF Observe, MaxOf
<1>3. \A p \in Server :
        /\ currentTerm[p] <= currentTerm'[p]
        /\ currentTerm[p] = currentTerm'[p] => votedFor'[p] = votedFor[p]
        /\ status'[p] = Leader => status[p] = Leader /\ currentTerm[p] = currentTerm'[p]
  <2> SUFFICES ASSUME NEW p \in Server
               PROVE  /\ currentTerm[p] <= currentTerm'[p]
                      /\ currentTerm[p] = currentTerm'[p] => votedFor'[p] = votedFor[p]
                      /\ status'[p] = Leader => status[p] = Leader /\ currentTerm[p] = currentTerm'[p]
    OBVIOUS
  <2>1. CASE p = s
    BY <1>1, <2>1 DEF Observe, MaxOf, Follower, Leader
  <2>2. CASE p # s
    BY <1>1, <2>2 DEF Observe, MaxOf
  <2> QED
    BY <2>1, <2>2
<1> QED
  BY <1>2, <1>3, TermsAdvance DEF voteVars

LEMMA SameVotes ==
  ASSUME TypeInv, VoteInv, UNCHANGED <<nodeVars, voteVars>>
  PROVE  VoteInv'
<1>1. currentTerm \in [Server -> Nat]
  BY DEF TypeInv, TypeOK, NodeType
<1> QED
  BY <1>1, TermsAdvance DEF nodeVars, voteVars

LEMMA NextVotes ==
  ASSUME TypeInv, VoteInv, [Next]_vars
  PROVE  VoteInv'
<1>1. ASSUME NEW s \in Server, DoElection(s) PROVE VoteInv'
  BY <1>1, DoElectionVotes
<1>2. ASSUME NEW m \in voteReqs, HandleRequestVote(m) PROVE VoteInv'
  BY <1>2, HandleRequestVoteVotes
<1>3. ASSUME NEW m \in voteReps, HandleRequestVoteReply(m) PROVE VoteInv'
  BY <1>3, HandleRequestVoteReplyVotes
<1>4. ASSUME NEW s \in Server, NEW v \in Value, Start(s, v) PROVE VoteInv'
  BY <1>4, SameVotes DEF Start
<1>5. ASSUME NEW s \in Server, DoHeartBeat(s) PROVE VoteInv'
  BY <1>5, SameVotes DEF DoHeartBeat
<1>6. ASSUME NEW m \in appendReqs, RejectStaleAppend(m) PROVE VoteInv'
  BY <1>6, SameVotes DEF RejectStaleAppend
<1>7. ASSUME NEW m \in appendReqs, HandleAppendEntries(m) PROVE VoteInv'
  <2>1. m.to \in Server /\ m.term \in Nat
    BY DEF TypeInv, TypeOK, CallType, AppendReq
  <2> QED
    BY <1>7, <2>1, FollowVotes DEF HandleAppendEntries
<1>8. ASSUME NEW m \in appendReps, HandleAppendRefusal(m) PROVE VoteInv'
  <2>1. m.to \in Server /\ m.term \in Nat
    BY DEF TypeInv, TypeOK, CallType, AppendRep
  <2> QED
    BY <1>8, <2>1, FollowVotes DEF HandleAppendRefusal
<1>9. ASSUME NEW m \in appendReps, HandleAppendSuccess(m) PROVE VoteInv'
  <2>1. m.to \in Server /\ m.term \in Nat
    BY DEF TypeInv, TypeOK, CallType, AppendRep
  <2> QED
    BY <1>9, <2>1, FollowVotes DEF HandleAppendSuccess
<1>10. ASSUME NEW s \in Server, ApplierTick(s) PROVE VoteInv'
  BY <1>10, SameVotes DEF ApplierTick
<1>11. ASSUME NEW s \in Server, NEW index \in 1 .. MaxLog, Snapshot(s, index) PROVE VoteInv'
  BY <1>11, SameVotes DEF Snapshot
<1>12. ASSUME NEW s \in Server, NEW p \in Server, SendSnapShot(s, p) PROVE VoteInv'
  BY <1>12, SameVotes DEF SendSnapShot
<1>13. ASSUME NEW m \in snapReqs, HandleInstallSnapshot(m) PROVE VoteInv'
  <2>1. m.to \in Server /\ m.term \in Nat /\ currentTerm[m.to] \in Nat
    BY DEF TypeInv, TypeOK, CallType, NodeType, SnapReq
  <2>2. /\ Observe(m.to, m.term) /\ UNCHANGED voteVars
        /\ status' = [status EXCEPT ![m.to] = IF m.term >= currentTerm[m.to] THEN Follower ELSE @]
    BY <1>13 DEF HandleInstallSnapshot
  <2>3. CASE m.term >= currentTerm[m.to]
    BY <2>1, <2>2, <2>3, FollowVotes
  <2>4. CASE ~(m.term >= currentTerm[m.to])
    <3>1. m.term <= currentTerm[m.to]
      BY <2>1, <2>4
    <3>2. status' = status
      BY <2>2, <2>4 DEF TypeInv, TypeOK, NodeType
    <3> QED
      BY <2>1, <2>2, <3>1, <3>2, FollowVotes
  <2> QED
    BY <2>3, <2>4
<1>14. ASSUME NEW m \in snapReps, HandleInstallSnapshotReply(m) PROVE VoteInv'
  <2> DEFINE s == m.to
             leads == status[s] = Leader /\ currentTerm[s] = m.sentTerm
  <2>1. s \in Server /\ m.term \in Nat
    BY DEF TypeInv, TypeOK, CallType, SnapRep
  <2>2. CASE leads
    <3>1. /\ Observe(s, m.term) /\ UNCHANGED voteVars
          /\ status' = [status EXCEPT ![s] = IF m.term > currentTerm[s] THEN Follower ELSE @]
      BY <1>14, <2>2 DEF HandleInstallSnapshotReply
    <3> QED
      BY <2>1, <3>1, FollowVotes
  <2>3. CASE ~leads
    <3>1. UNCHANGED <<currentTerm, votedFor, voteVars>>
      BY <1>14, <2>3 DEF HandleInstallSnapshotReply
    <3>2. status' = status
      BY <1>14, <2>3 DEF HandleInstallSnapshotReply, TypeInv, TypeOK, NodeType
    <3> QED
      BY <3>1, <3>2, SameVotes DEF nodeVars
  <2> QED
    BY <2>2, <2>3
<1>15. CASE UNCHANGED vars
  BY <1>15, SameVotes DEF vars
<1> QED
  BY <1>1, <1>2, <1>3, <1>4, <1>5, <1>6, <1>7, <1>8, <1>9, <1>10, <1>11, <1>12, <1>13, <1>14,
     <1>15, LoseCallVotes DEF Next

\* The votes cast, on their way and counted are consistent: one vote per server
\* and term, counted at most once, and no leader without a majority of them.
THEOREM VotesConsistent == Spec => []VoteInv
<1>1. Init => VoteInv
  BY InitVotes
<1>2. TypeInv /\ VoteInv /\ [Next]_vars => VoteInv'
  BY NextVotes
<1> QED
  BY <1>1, <1>2, TypeInvariant, PTL DEF Spec

\* Two servers elected in one term have a supporter in common, who voted once.
LEMMA VotesElectOne ==
  ASSUME TypeInv, VoteInv
  PROVE  ElectionSafety
<1> SUFFICES ASSUME NEW e \in elected, NEW f \in elected, e[1] = f[1]
             PROVE  e[2] = f[2]
  BY DEF ElectionSafety
<1>1. counted \subseteq Vote /\ counted \subseteq ballots
  BY DEF TypeInv, TypeOK, VoteType, VoteInv, CountInv
<1>2. /\ Supporters(e[1], e[2]) \subseteq Server /\ Supporters(e[1], f[2]) \subseteq Server
      /\ Cardinality(Supporters(e[1], e[2])) >= Majority
      /\ Cardinality(Supporters(e[1], f[2])) >= Majority
  BY <1>1, SupportersType DEF VoteInv, ElectedInv
<1>3. PICK v \in Server : v \in Supporters(e[1], e[2]) /\ v \in Supporters(e[1], f[2])
  BY <1>2, MajoritiesMeet
<1>4. <<v, e[1], e[2]>> \in ballots /\ <<v, e[1], f[2]>> \in ballots
  BY <1>1, <1>3 DEF Supporters
<1> QED
  BY <1>4 DEF VoteInv, BallotsInv

\* At most one server is ever elected in a term, in a cluster of any size.
THEOREM OneLeaderPerTerm == Spec => []ElectionSafety
<1>1. TypeInv /\ VoteInv => ElectionSafety
  BY VotesElectOne
<1> QED
  BY <1>1, TypeInvariant, VotesConsistent, PTL

\* The votes that a server elected in its term has not counted yet are too few
\* for a second majority.
LEMMA VotesLeft ==
  ASSUME TypeInv, VoteInv, NEW m \in voteReps, m.granted, m.term = currentTerm[m.to],
         <<currentTerm[m.to], m.to>> \in elected
  PROVE  votedNum[m.to] + 1 < Majority
<1> DEFINE s == m.to
           supporters == Supporters(currentTerm[s], s)
           n == Cardinality(supporters)
           k == votedNum[s]
           N == Cardinality(Server)
           M == Majority
<1>1. /\ counted \subseteq Vote /\ s \in Server /\ m.from \in Server /\ k \in Nat
  BY DEF TypeInv, TypeOK, VoteType, VoteRep
<1>2. <<m.from, currentTerm[s], s>> \in ballots /\ m.from \notin supporters
  BY DEF VoteInv, GrantsInv, Supporters
<1>3. <<s, currentTerm[s], s>> \in ballots /\ <<currentTerm[s], s>> \in elected
  BY <1>1, <1>2 DEF VoteInv, BallotsInv
<1>4. k + M <= n
  BY <1>1, <1>3 DEF VoteInv, CountInv
<1>5. n \in Nat /\ n + 1 <= N
  <2>1. IsFiniteSet(supporters) /\ n \in Nat /\ supporters \subseteq Server
    BY <1>1, SupportersType
  <2>2. Cardinality(supporters \cup {m.from}) = n + 1
    BY <1>2, <2>1, FS_AddElement
  <2>3. supporters \cup {m.from} \subseteq Server
    BY <1>1, <2>1
  <2>4. Cardinality(supporters \cup {m.from}) <= N
    BY <2>3, ServerAssumption, FS_Subset
  <2> QED
    BY <2>1, <2>2, <2>4
<1>6. N \in Nat /\ M \in Nat /\ N < M + M
  BY MajorityType
<1> HIDE DEF k, n, N, M
<1>7. k + 1 < M
  BY <1>1, <1>4, <1>5, <1>6
<1> QED
  BY <1>7 DEF k, M

\* Late votes never elect a leader again in the term it leads: the assertion of
\* sendRequestVote holds in a cluster of any size.
THEOREM NoSecondVictoryHolds == Spec => []NoSecondVictory
<1>1. ASSUME TypeInv, VoteInv
      PROVE  NoSecondVictory
  <2> SUFFICES ASSUME NEW m \in voteReps, m.granted, m.term = currentTerm[m.to],
                      status[m.to] = Leader
               PROVE  votedNum[m.to] + 1 < Majority
    BY DEF NoSecondVictory
  <2>1. m.to \in Server
    BY <1>1 DEF TypeInv, TypeOK, VoteType, VoteRep
  <2>2. <<currentTerm[m.to], m.to>> \in elected
    BY <1>1, <2>1 DEF VoteInv, ElectedInv
  <2> QED
    BY <1>1, <2>2, VotesLeft
<1> QED
  BY <1>1, TypeInvariant, VotesConsistent, PTL
=============================================================================
