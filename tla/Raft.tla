------------------------------- MODULE Raft -------------------------------
(***************************************************************************)
(* The Raft node of raftCore/raft.cpp.                                     *)
(*                                                                         *)
(* Every handler of the class runs under m_mtx from start to end, so every *)
(* handler is one action.  An outgoing call is made by a detached thread   *)
(* that takes no lock while it waits: a call is therefore a request in a   *)
(* set, which the callee's handler turns into a reply, which the caller's  *)
(* thread processes.  Nothing orders two calls, and a call that is lost or *)
(* times out is one that stays in its set for ever.                        *)
(*                                                                         *)
(* myAssert (common/util.cpp) ends the process: the server joins `exited'. *)
(*                                                                         *)
(* The state of a node is volatile here; RaftRestart adds crashes.         *)
(***************************************************************************)
EXTENDS RaftLog, FiniteSets

CONSTANTS Server,      \* the nodes of the cluster
          Value,       \* the commands clients submit
          Nil,         \* m_votedFor = -1
          MaxTerm,     \* bound: no election starts beyond this term
          MaxLog,      \* bound: Start appends up to this index
          MaxRounds,   \* bound: heartbeat rounds of one leadership
          Snapshots    \* maxraftstate # -1: the state machine takes snapshots

ASSUME ServerAssumption == IsFiniteSet(Server) /\ Nil \notin Server
ASSUME BoundAssumption ==
  MaxTerm \in Nat /\ MaxLog \in Nat /\ MaxRounds \in Nat /\ Snapshots \in BOOLEAN

Follower == "Follower"
Candidate == "Candidate"
Leader == "Leader"

VARIABLES
  \* m_currentTerm, m_votedFor, m_status, m_logs and the snapshot, m_commitIndex,
  \* m_lastApplied of each node
  currentTerm, votedFor, status, logs, snapshot, commitIndex, lastApplied,
  \* m_nextIndex and m_matchIndex of each node
  nextIndex, matchIndex,
  \* the counters shared by the threads of one election (votedNum) and of one
  \* heartbeat round (appendNums, one per round of this leadership)
  votedNum, appendNums,
  \* the calls in flight
  voteReqs, voteReps, appendReqs, appendReps, snapThreads, snapReqs, snapReps,
  \* the servers whose process has ended on a failed assertion
  exited,
  \* history: the votes cast <<voter, term, candidate>>, those a candidate has
  \* counted, and the elections won <<term, server>>
  ballots, counted, elected

nodeVars == <<currentTerm, votedFor, status>>
logVars  == <<logs, snapshot, commitIndex, lastApplied>>
leadVars == <<nextIndex, matchIndex, appendNums>>
voteVars == <<votedNum, voteReqs, voteReps, ballots, counted, elected>>
callVars == <<appendReqs, appendReps, snapThreads, snapReqs, snapReps>>
vars == <<nodeVars, logVars, leadVars, voteVars, callVars, exited>>

Half == Cardinality(Server) \div 2   \* faulty: a majority less one
Majority == Cardinality(Server) \div 2 + 1
Peers(s) == Server \ {s}
Running(s) == s \notin exited

LastLogIndex(s) == GetLastLogIndex(snapshot[s], logs[s])
LastLogTerm(s)  == GetLastLogTerm(snapshot[s], logs[s])
Base(s) == Len(snapshot[s])            \* m_lastSnapshotIncludeIndex
Log(s) == snapshot[s] \o logs[s]       \* the whole log, covered prefix included

\* The process of s ends when the assertion fails.
MyAssert(s, holds) == exited' = IF holds THEN exited ELSE exited \cup {s}

\* A node that sees a higher term follows it and forgets its vote.
ObserveSame(s, term) ==   \* faulty: forgets its vote in the same term
  /\ currentTerm' = [currentTerm EXCEPT ![s] = MaxOf(@, term)]
  /\ votedFor' = [votedFor EXCEPT ![s] = IF term >= currentTerm[s] THEN Nil ELSE @]

Observe(s, term) ==
  /\ currentTerm' = [currentTerm EXCEPT ![s] = MaxOf(@, term)]
  /\ votedFor' = [votedFor EXCEPT ![s] = IF term > currentTerm[s] THEN Nil ELSE @]

Init ==
  /\ currentTerm = [s \in Server |-> 0]
  /\ votedFor = [s \in Server |-> Nil]
  /\ status = [s \in Server |-> Follower]
  /\ logs = [s \in Server |-> <<>>]
  /\ snapshot = [s \in Server |-> <<>>]
  /\ commitIndex = [s \in Server |-> 0]
  /\ lastApplied = [s \in Server |-> 0]
  /\ nextIndex = [s \in Server |-> [p \in Server |-> 0]]
  /\ matchIndex = [s \in Server |-> [p \in Server |-> 0]]
  /\ votedNum = [s \in Server |-> 0]
  /\ appendNums = [s \in Server |-> <<>>]
  /\ voteReqs = {} /\ voteReps = {} /\ appendReqs = {} /\ appendReps = {}
  /\ snapThreads = {} /\ snapReqs = {} /\ snapReps = {}
  /\ exited = {}
  /\ ballots = {} /\ counted = {} /\ elected = {}

-----------------------------------------------------------------------------
(* Elections *)

\* doElection, when the election timer has run out on a node that is not the
\* leader: a new term, a vote for itself, one RequestVote thread per peer.
DoElection(s) ==
  /\ Running(s) /\ status[s] # Leader
  /\ currentTerm[s] < MaxTerm
  /\ status' = [status EXCEPT ![s] = Candidate]
  /\ currentTerm' = [currentTerm EXCEPT ![s] = @ + 1]
  /\ votedFor' = [votedFor EXCEPT ![s] = s]
  /\ votedNum' = [votedNum EXCEPT ![s] = 1]
  /\ voteReqs' = voteReqs \cup
       {[term |-> currentTerm[s] + 1, from |-> s, to |-> p,
         lastIndex |-> LastLogIndex(s), lastTerm |-> LastLogTerm(s)] : p \in Peers(s)}
  /\ ballots' = ballots \cup {<<s, currentTerm[s] + 1, s>>}
  /\ counted' = counted \cup {<<s, currentTerm[s] + 1, s>>}
  /\ UNCHANGED <<logVars, leadVars, callVars, voteReps, elected, exited>>

\* RequestVote: a node of m.term or less votes for an up-to-date candidate
\* unless it has voted for another one in this term.
VoteGrantedAgain(s, m) ==   \* faulty: forgets that it has voted
  /\ m.term >= currentTerm[s]
  /\ UpToDate(snapshot[s], logs[s], m.lastIndex, m.lastTerm)

VoteGranted(s, m) ==
  /\ m.term >= currentTerm[s]
  /\ UpToDate(snapshot[s], logs[s], m.lastIndex, m.lastTerm)
  /\ m.term = currentTerm[s] => votedFor[s] \in {Nil, m.from}

HandleRequestVote(m) ==
  LET s == m.to
      grant == VoteGranted(s, m)
  IN
  /\ m \in voteReqs /\ Running(s)
  /\ voteReqs' = voteReqs \ {m}
  /\ voteReps' = voteReps \cup
       {[term |-> MaxOf(currentTerm[s], m.term), granted |-> grant, from |-> s, to |-> m.from]}
  /\ currentTerm' = [currentTerm EXCEPT ![s] = MaxOf(@, m.term)]
  /\ status' = [status EXCEPT ![s] = IF m.term > currentTerm[s] THEN Follower ELSE @]
  /\ votedFor' = [votedFor EXCEPT ![s] =
                    CASE grant -> m.from
                      [] ~grant /\ m.term > currentTerm[s] -> Nil
                      [] OTHER -> @]
  /\ ballots' = IF grant THEN ballots \cup {<<s, m.term, m.from>>} ELSE ballots
  /\ UNCHANGED <<logVars, leadVars, callVars, votedNum, counted, elected, exited>>

\* sendRequestVote, once the reply is in.  The thread does not look at
\* m_status before it counts; the vote that completes a majority makes the
\* node leader.
HandleRequestVoteReply(m) ==
  LET s == m.to
      counts == m.term = currentTerm[s] /\ m.granted
      wins == counts /\ votedNum[s] + 1 >= Majority
  IN
  /\ m \in voteReps /\ Running(s)
  /\ voteReps' = voteReps \ {m}
  /\ Observe(s, m.term)
  /\ status' = [status EXCEPT ![s] = CASE m.term > currentTerm[s] -> Follower
                                       [] wins -> Leader
                                       [] OTHER -> @]
  /\ votedNum' = [votedNum EXCEPT ![s] = CASE wins -> 0
                                           [] counts /\ ~wins -> @ + 1
                                           [] OTHER -> @]
  /\ counted' = IF counts THEN counted \cup {<<m.from, m.term, s>>} ELSE counted
  /\ elected' = IF wins THEN elected \cup {<<m.term, s>>} ELSE elected
  /\ nextIndex' = [nextIndex EXCEPT ![s] =
                     IF wins THEN [p \in Server |-> LastLogIndex(s) + 1] ELSE @]
  /\ matchIndex' = [matchIndex EXCEPT ![s] = IF wins THEN [p \in Server |-> 0] ELSE @]
  /\ appendNums' = [appendNums EXCEPT ![s] = IF wins THEN <<>> ELSE @]
  /\ MyAssert(s, wins => status[s] # Leader)   \* never leader twice in one term
  /\ UNCHANGED <<logVars, callVars, voteReqs, ballots>>

-----------------------------------------------------------------------------
(* Replication *)

\* Start: the leader appends a client's command to its own log.
Start(s, v) ==
  /\ Running(s) /\ status[s] = Leader
  /\ LastLogIndex(s) < MaxLog
  /\ logs' = [logs EXCEPT ![s] = Append(@, [term |-> currentTerm[s], command |-> v])]
  /\ UNCHANGED <<nodeVars, snapshot, commitIndex, lastApplied, leadVars, voteVars,
                 callVars, exited>>

\* What doHeartBeat sends to p, which needs the entries from prev + 1 on.
AppendArgs(s, p) ==
  LET prev == nextIndex[s][p] - 1
  IN  [term |-> currentTerm[s], from |-> s, to |-> p, round |-> Len(appendNums[s]) + 1,
       prev |-> prev,
       prevTerm |-> GetLogTermFromLogIndex(snapshot[s], logs[s], prev),
       entries |-> SubSeq(logs[s], prev - Base(s) + 1, Len(logs[s])),
       leaderCommit |-> commitIndex[s]]

\* doHeartBeat, from the ticker or the thread a new leader starts: one round of
\* AppendEntries, with a snapshot thread for each peer whose next entry is
\* already compacted.  Its assertions speak of every nextIndex.
DoHeartBeat(s) ==
  LET inRange == \A p \in Peers(s) : nextIndex[s][p] \in 1 .. LastLogIndex(s) + 1
      behind == {p \in Peers(s) : nextIndex[s][p] <= Base(s)}
  IN
  /\ Running(s) /\ status[s] = Leader
  /\ Len(appendNums[s]) < MaxRounds
  /\ MyAssert(s, inRange)
  /\ appendNums' = [appendNums EXCEPT ![s] = Append(@, 1)]
  /\ appendReqs' = IF inRange
                     THEN appendReqs \cup {AppendArgs(s, p) : p \in Peers(s) \ behind}
                     ELSE appendReqs
  /\ snapThreads' = snapThreads \cup {<<s, p>> : p \in behind}
  /\ UNCHANGED <<nodeVars, logVars, nextIndex, matchIndex, voteVars,
                 appendReps, snapReqs, snapReps>>

NoUpdate == -100   \* updatenextindex of the reply to a stale leader

StaleNever(s, m) == FALSE   \* faulty: no term check
StaleTerm(s, m) == m.term < currentTerm[s]

\* AppendEntries1 below its term check: where the request meets the log.
TooNew(s, m) == m.prev > LastLogIndex(s)
Compacted(s, m) == m.prev < Base(s)
Matches(s, m) == /\ ~TooNew(s, m) /\ ~Compacted(s, m)
                 /\ MatchLog(snapshot[s], logs[s], m.prev, m.prevTerm)
Merges(s, m) == /\ Matches(s, m)
                /\ MergeAsserts(snapshot[s], logs[s], m.prev - Base(s), m.entries)

AppendReplyBeyond(s, m, term, success, update) ==   \* faulty: one entry too many
  [term |-> term, success |-> success, update |-> update, from |-> s, to |-> m.from,
   round |-> m.round, sent |-> m.prev + Len(m.entries) + 1, empty |-> m.entries = <<>>,
   lastTerm |-> LastTermOf(m.entries)]

AppendReply(s, m, term, success, update) ==
  [term |-> term, success |-> success, update |-> update, from |-> s, to |-> m.from,
   round |-> m.round, sent |-> m.prev + Len(m.entries), empty |-> m.entries = <<>>,
   lastTerm |-> LastTermOf(m.entries)]

\* The sender's term is out of date: nothing changes but the sender is told.
RejectStaleAppend(m) ==
  LET s == m.to IN
  /\ m \in appendReqs /\ Running(s)
  /\ StaleTerm(s, m)
  /\ appendReqs' = appendReqs \ {m}
  /\ appendReps' = appendReps \cup {AppendReply(s, m, currentTerm[s], FALSE, NoUpdate)}
  /\ UNCHANGED <<nodeVars, logVars, leadVars, voteVars, snapThreads, snapReqs, snapReps, exited>>

\* Otherwise the node follows the sender.  A request for compacted entries is
\* answered but not returned from (the `return' is missing), so that the
\* assertion of matchLog ends the process before the reply is sent.
HandleAppendEntries(m) ==
  LET s == m.to
      survives == ~Compacted(s, m) /\ (Matches(s, m) => Merges(s, m))
      merged == MergeEntries(snapshot[s], logs[s], m.prev - Base(s), m.entries)
      update == CASE TooNew(s, m) -> LastLogIndex(s) + 1
                  [] Matches(s, m) -> 0
                  [] OTHER -> BackOff(snapshot[s], logs[s], m.prev)
  IN
  /\ m \in appendReqs /\ Running(s)
  /\ ~StaleTerm(s, m)
  /\ appendReqs' = appendReqs \ {m}
  /\ Observe(s, m.term)
  /\ status' = [status EXCEPT ![s] = Follower]
  /\ MyAssert(s, survives)
  /\ appendReps' = IF survives
                     THEN appendReps \cup {AppendReply(s, m, m.term, Matches(s, m), update)}
                     ELSE appendReps
  /\ logs' = IF Merges(s, m) THEN [logs EXCEPT ![s] = merged] ELSE logs
  /\ commitIndex' = [commitIndex EXCEPT ![s] =
       IF Merges(s, m) /\ m.leaderCommit > @
         THEN MinOf(m.leaderCommit, Base(s) + Len(merged)) ELSE @]
  /\ UNCHANGED <<snapshot, lastApplied, leadVars, voteVars, snapThreads, snapReqs, snapReps>>

TakesAnyUpdate(s, m) ==   \* faulty: takes the update of a stale request
  m.term = currentTerm[s] /\ status[s] = Leader

TakesUpdate(s, m) == m.term = currentTerm[s] /\ status[s] = Leader /\ m.update # NoUpdate

\* sendAppendEntries, once the reply is in: a higher term ends the leadership,
\* a refusal moves nextIndex, ...
HandleAppendRefusal(m) ==
  LET s == m.to IN
  /\ m \in appendReps /\ Running(s)
  /\ ~m.success
  /\ appendReps' = appendReps \ {m}
  /\ Observe(s, m.term)
  /\ status' = [status EXCEPT ![s] = IF m.term > currentTerm[s] THEN Follower ELSE @]
  /\ nextIndex' = [nextIndex EXCEPT ![s][m.from] =
       IF TakesUpdate(s, m) THEN m.update ELSE @]
  /\ UNCHANGED <<logVars, matchIndex, appendNums, voteVars, appendReqs,
                 snapThreads, snapReqs, snapReps, exited>>

MayCommitAny(s, m) == ~m.empty   \* faulty: commits entries of earlier terms
MayCommit(s, m) == ~m.empty /\ m.lastTerm = currentTerm[s]

\* ... and a success counts towards the majority of its round.  The reply that
\* completes it commits what that call carried, if it carried entries and the
\* last of them is of this term.
HandleAppendSuccess(m) ==
  LET s == m.to
      counts == m.term = currentTerm[s] /\ status[s] = Leader
      match == MaxOf(matchIndex[s][m.from], m.sent)
      majority == counts /\ appendNums[s][m.round] + 1 >= Majority
      commit == IF majority /\ MayCommit(s, m) THEN MaxOf(commitIndex[s], m.sent) ELSE commitIndex[s]
  IN
  /\ m \in appendReps /\ Running(s)
  /\ m.success
  /\ appendReps' = appendReps \ {m}
  /\ Observe(s, m.term)
  /\ status' = [status EXCEPT ![s] = IF m.term > currentTerm[s] THEN Follower ELSE @]
  /\ matchIndex' = [matchIndex EXCEPT ![s][m.from] = IF counts THEN match ELSE @]
  /\ nextIndex' = [nextIndex EXCEPT ![s][m.from] = IF counts THEN match + 1 ELSE @]
  /\ appendNums' = IF counts
                     THEN [appendNums EXCEPT ![s][m.round] = IF majority THEN 0 ELSE @ + 1]
                     ELSE appendNums
  /\ commitIndex' = [commitIndex EXCEPT ![s] = commit]
  /\ MyAssert(s, counts => match <= LastLogIndex(s) /\ commit <= LastLogIndex(s))
  /\ UNCHANGED <<logs, snapshot, lastApplied, voteVars, appendReqs,
                 snapThreads, snapReqs, snapReps>>

-----------------------------------------------------------------------------
(* Applying and snapshots *)

\* applierTicker: getApplyLogs hands everything committed to the state machine.
ApplierTick(s) ==
  /\ Running(s)
  /\ lastApplied[s] < commitIndex[s]
  /\ lastApplied' = [lastApplied EXCEPT ![s] = commitIndex[s]]
  /\ MyAssert(s, commitIndex[s] <= LastLogIndex(s) /\ lastApplied[s] >= Base(s))
  /\ UNCHANGED <<nodeVars, logs, snapshot, commitIndex, leadVars, voteVars, callVars>>

SnapshotShort(s, index) ==   \* faulty: drops one entry too many
  /\ Running(s) /\ Snapshots
  /\ index \in 1 .. lastApplied[s]
  /\ index > Base(s) /\ index <= commitIndex[s]
  /\ snapshot' = [snapshot EXCEPT ![s] = SubSeq(Log(s), 1, index)]
  /\ logs' = [logs EXCEPT ![s] = SubSeq(@, index - Base(s) + 2, Len(@))]
  /\ UNCHANGED <<nodeVars, commitIndex, lastApplied, leadVars, voteVars, callVars, exited>>

\* Snapshot, called by the state machine once it has applied the entry at index.
Snapshot(s, index) ==
  /\ Running(s) /\ Snapshots
  /\ index \in 1 .. lastApplied[s]
  /\ index > Base(s) /\ index <= commitIndex[s]
  /\ snapshot' = [snapshot EXCEPT ![s] = SubSeq(Log(s), 1, index)]
  /\ logs' = [logs EXCEPT ![s] = SubSeq(@, index - Base(s) + 1, Len(@))]
  /\ lastApplied' = [lastApplied EXCEPT ![s] = MaxOf(@, index)]
  /\ UNCHANGED <<nodeVars, commitIndex, leadVars, voteVars, callVars, exited>>

\* leaderSendSnapShot up to the call.  The thread was started by a leader but
\* takes the lock later, and does not look at m_status again.
SendSnapShot(s, p) ==
  /\ <<s, p>> \in snapThreads /\ Running(s)
  /\ snapThreads' = snapThreads \ {<<s, p>>}
  /\ snapReqs' = snapReqs \cup
       {[term |-> currentTerm[s], from |-> s, to |-> p, data |-> snapshot[s]]}
  /\ UNCHANGED <<nodeVars, logVars, leadVars, voteVars, appendReqs, appendReps, snapReps, exited>>

\* InstallSnapshot.  A snapshot no newer than the node's own is ignored, and
\* the reply to it has no term.
HandleInstallSnapshot(m) ==
  LET s == m.to
      index == Len(m.data)
      current == m.term >= currentTerm[s]
      installs == current /\ index > Base(s)
      tail == SubSeq(logs[s], index - Base(s) + 1, Len(logs[s]))
  IN
  /\ m \in snapReqs /\ Running(s)
  /\ snapReqs' = snapReqs \ {m}
  /\ Observe(s, m.term)
  /\ status' = [status EXCEPT ![s] = IF current THEN Follower ELSE @]
  /\ logs' = [logs EXCEPT ![s] = IF installs THEN tail ELSE @]
  /\ snapshot' = [snapshot EXCEPT ![s] = IF installs THEN m.data ELSE @]
  /\ commitIndex' = [commitIndex EXCEPT ![s] = IF installs THEN MaxOf(@, index) ELSE @]
  /\ lastApplied' = [lastApplied EXCEPT ![s] = IF installs THEN MaxOf(@, index) ELSE @]
  /\ snapReps' = snapReps \cup
       {[term |-> IF current /\ ~installs THEN 0 ELSE MaxOf(currentTerm[s], m.term),
         from |-> s, to |-> m.from, sentTerm |-> m.term, index |-> index]}
  /\ UNCHANGED <<leadVars, voteVars, appendReqs, appendReps, snapThreads, exited>>

\* leaderSendSnapShot, once the reply is in.  Left out: an empty reply, which a
\* connection that the peer closes gives it, passes for a success there; here the
\* call is lost.  (sendRequestVote and sendAppendEntries do nothing with one.)
HandleInstallSnapshotReply(m) ==
  LET s == m.to
      leads == status[s] = Leader /\ currentTerm[s] = m.sentTerm
      deposed == leads /\ m.term > currentTerm[s]
  IN
  /\ m \in snapReps /\ Running(s)
  /\ snapReps' = snapReps \ {m}
  /\ IF leads THEN Observe(s, m.term) ELSE UNCHANGED <<currentTerm, votedFor>>
  /\ status' = [status EXCEPT ![s] = IF deposed THEN Follower ELSE @]
  /\ matchIndex' = [matchIndex EXCEPT ![s][m.from] = IF leads /\ ~deposed THEN m.index ELSE @]
  /\ nextIndex' = [nextIndex EXCEPT ![s][m.from] = IF leads /\ ~deposed THEN m.index + 1 ELSE @]
  /\ UNCHANGED <<logVars, appendNums, voteVars, appendReqs, appendReps,
                 snapThreads, snapReqs, exited>>

-----------------------------------------------------------------------------
(* The network *)

\* A call fails: its request or its reply is lost, and the waiting thread
\* returns without touching the node.  (A call whose peer has gone returns with no
\* bytes and without an error.  The other threads ignore that, since its term is
\* 0; leaderSendSnapShot takes it for an answer, which is not modelled.)
LoseCall ==
  /\ \/ \E m \in voteReqs : voteReqs' = voteReqs \ {m} /\ UNCHANGED <<voteReps, callVars>>
     \/ \E m \in voteReps : voteReps' = voteReps \ {m} /\ UNCHANGED <<voteReqs, callVars>>
     \/ \E m \in appendReqs : /\ appendReqs' = appendReqs \ {m}
                             /\ UNCHANGED <<voteReqs, voteReps, appendReps,
                                            snapThreads, snapReqs, snapReps>>
     \/ \E m \in appendReps : /\ appendReps' = appendReps \ {m}
                             /\ UNCHANGED <<voteReqs, voteReps, appendReqs,
                                            snapThreads, snapReqs, snapReps>>
     \/ \E m \in snapReqs : /\ snapReqs' = snapReqs \ {m}
                           /\ UNCHANGED <<voteReqs, voteReps, appendReqs, appendReps,
                                          snapThreads, snapReps>>
     \/ \E m \in snapReps : /\ snapReps' = snapReps \ {m}
                           /\ UNCHANGED <<voteReqs, voteReps, appendReqs, appendReps,
                                          snapThreads, snapReqs>>
  /\ UNCHANGED <<nodeVars, logVars, leadVars, votedNum, ballots, counted, elected, exited>>

Next ==
  \/ \E s \in Server : DoElection(s)
  \/ \E m \in voteReqs : HandleRequestVote(m)
  \/ \E m \in voteReps : HandleRequestVoteReply(m)
  \/ \E s \in Server, v \in Value : Start(s, v)
  \/ \E s \in Server : DoHeartBeat(s)
  \/ \E m \in appendReqs : RejectStaleAppend(m)
  \/ \E m \in appendReqs : HandleAppendEntries(m)
  \/ \E m \in appendReps : HandleAppendRefusal(m)
  \/ \E m \in appendReps : HandleAppendSuccess(m)
  \/ \E s \in Server : ApplierTick(s)
  \/ \E s \in Server, index \in 1 .. MaxLog : Snapshot(s, index)
  \/ \E s, p \in Server : SendSnapShot(s, p)
  \/ \E m \in snapReqs : HandleInstallSnapshot(m)
  \/ \E m \in snapReps : HandleInstallSnapshotReply(m)
  \/ LoseCall

Spec == Init /\ [][Next]_vars

-----------------------------------------------------------------------------
(* Properties *)

Entry == [term : Nat, command : Value]
VoteReq == [term : Nat, from : Server, to : Server, lastIndex : Nat, lastTerm : Nat]
VoteRep == [term : Nat, granted : BOOLEAN, from : Server, to : Server]
AppendReq == [term : Nat, from : Server, to : Server, round : Nat, prev : Nat,
              prevTerm : Nat, entries : Seq(Entry), leaderCommit : Nat]
AppendRep == [term : Nat, success : BOOLEAN, update : Nat \cup {NoUpdate}, from : Server,
              to : Server, round : Nat, sent : Nat, empty : BOOLEAN, lastTerm : Nat]
SnapReq == [term : Nat, from : Server, to : Server, data : Seq(Entry)]
SnapRep == [term : Nat, from : Server, to : Server, sentTerm : Nat, index : Nat]
Vote == Server \X Nat \X Server

NodeType == /\ currentTerm \in [Server -> Nat]
            /\ votedFor \in [Server -> Server \cup {Nil}]
            /\ status \in [Server -> {Follower, Candidate, Leader}]
LogType  == /\ logs \in [Server -> Seq(Entry)]
            /\ snapshot \in [Server -> Seq(Entry)]
            /\ commitIndex \in [Server -> Nat]
            /\ lastApplied \in [Server -> Nat]
LeadType == /\ nextIndex \in [Server -> [Server -> Nat]]
            /\ matchIndex \in [Server -> [Server -> Nat]]
            /\ appendNums \in [Server -> Seq(Nat)]
VoteType == /\ votedNum \in [Server -> Nat]
            /\ voteReqs \subseteq VoteReq /\ voteReps \subseteq VoteRep
            /\ ballots \subseteq Vote /\ counted \subseteq Vote
            /\ elected \subseteq Nat \X Server
CallType == /\ appendReqs \subseteq AppendReq /\ appendReps \subseteq AppendRep
            /\ snapThreads \subseteq Server \X Server
            /\ snapReqs \subseteq SnapReq /\ snapReps \subseteq SnapRep

\* Every variable of the node and every call in flight has its type.  That
\* nextIndex stays a natural number says that the -100 of a stale refusal never
\* reaches it.
TypeOK == NodeType /\ LogType /\ LeadType /\ VoteType /\ CallType /\ exited \subseteq Server

\* At most one server is ever elected in a term (RequestVote grants one vote per
\* term, sendRequestVote needs a majority), whatever calls are lost or late.
ElectionSafety == \A e, f \in elected : e[1] = f[1] => e[2] = f[2]

\* A node that leads a term is never elected in it again by late votes: the vote
\* count, restarted at 0 by the victory, cannot reach a majority a second time.
\* (The assertion of sendRequestVote.)
NoSecondVictory ==
  \A m \in voteReps :
    (m.granted /\ m.term = currentTerm[m.to] /\ status[m.to] = Leader) =>
      votedNum[m.to] + 1 < Majority

\* No process ends on a failed assertion: not on a nextIndex outside the log
\* (doHeartBeat, getPrevLogInfo, sendAppendEntries), not on a commitIndex beyond
\* it, not on two different commands with one index and term (AppendEntries1),
\* not on a second victory in a term (sendRequestVote).
NoAssertionFails == exited = {}

\* What the leader of a term believes replicated (m_matchIndex) on a server that
\* is in that term is there: late, reordered and repeated replies never put
\* matchIndex past an entry the follower does not hold.  (An InstallSnapshot that
\* returns empty, which LoseCall leaves out, would.)
MatchIndexSound ==
  \A s, p \in Server :
    LET k == matchIndex[s][p] IN
    (status[s] = Leader /\ currentTerm[p] = currentTerm[s] /\ k > 0 /\ {s, p} \cap exited = {}) =>
      k <= Len(Log(p)) /\ k <= Len(Log(s)) /\ Log(p)[k].term = Log(s)[k].term

\* Two servers that hold entries of one term at one index hold the same command.
EntryUnique ==
  \A s, p \in Server : \A k \in 1 .. MinOf(Len(Log(s)), Len(Log(p))) :
    Log(s)[k].term = Log(p)[k].term => Log(s)[k] = Log(p)[k]

\* A node applies only what it has committed, commits only what it holds, and
\* has applied all that its snapshot covers: what getApplyLogs, AppendEntries1
\* and sendAppendEntries assert.
AppliedInRange ==
  \A s \in Server \ exited :
    /\ Base(s) <= lastApplied[s]
    /\ lastApplied[s] <= commitIndex[s]
    /\ commitIndex[s] <= LastLogIndex(s)

\* As long as a node leads a term its log only grows at the end: no handler that
\* runs in between overwrites or drops an entry of it.
LeaderAppendOnly ==
  [][\A s \in Server :
       (status[s] = Leader /\ currentTerm'[s] = currentTerm[s]) =>
         /\ Len(Log(s)') >= Len(Log(s))
         /\ SubSeq(Log(s)', 1, Len(Log(s))) = Log(s)]_vars

\* A leader gives up its leadership only for a higher term.
StepDownForHigherTerm ==
  [][\A s \in Server : (status[s] = Leader /\ status'[s] # Leader) =>
                          currentTerm'[s] > currentTerm[s]]_vars

\* A snapshot under way is a leader's to a follower: a node never receives one
\* under the term that it leads itself, whose InstallSnapshot would make it a
\* follower of nobody.
SnapshotsGoToFollowers ==
  \A m \in snapReqs : m.term = currentTerm[m.to] => status[m.to] # Leader

\* What a node has committed never changes: no later leader overwrites it.
CommittedNeverOverwritten ==
  [][\A s \in Server :
       commitIndex[s] <= LastLogIndex(s) =>
         SubSeq(Log(s)', 1, commitIndex[s]) = SubSeq(Log(s), 1, commitIndex[s])]_vars

\* When a leader commits up to k, the entry at k is of its own term and a
\* majority holds it, except servers that have moved on to a later term since
\* they acknowledged it.
CommitBacked ==
  [][\A s \in Server :
       LET k == commitIndex'[s]
           holders == {p \in Server : \/ currentTerm[p] > currentTerm[s]
                                      \/ Len(Log(p)) >= k /\ Log(p)[k] = Log(s)[k]}
       IN  (status[s] = Leader /\ status'[s] = Leader /\ k > commitIndex[s]) =>
             /\ Log(s)[k].term = currentTerm[s]
             /\ Cardinality(holders) >= Majority]_vars

\* A node that leads finds an entry to send next to every peer: what doHeartBeat
\* asserts of m_nextIndex.
NextIndexInLog ==
  \A s \in Server : \A p \in Peers(s) :
    status[s] = Leader => nextIndex[s][p] \in 1 .. LastLogIndex(s) + 1

\* No step takes back a term, a commit, an application or a snapshot: a late
\* InstallSnapshot or AppendEntries never moves a node to an earlier state.
NothingTakenBack ==
  [][\A s \in Server :
       /\ currentTerm'[s] >= currentTerm[s]
       /\ commitIndex'[s] >= commitIndex[s]
       /\ lastApplied'[s] >= lastApplied[s]
       /\ Base(s)' >= Base(s)
       /\ (currentTerm'[s] = currentTerm[s] /\ votedFor[s] # Nil) => votedFor'[s] = votedFor[s]]_vars
=============================================================================
