------------------------------ MODULE MCRaft ------------------------------
(* Raft on small clusters. *)
EXTENDS RaftInv, TLC

CONSTANT MaxInFlight   \* bound: calls under way at one time

\* Servers are only compared for equality, and so are commands.
Symmetry == Permutations(Server) \cup Permutations(Value)

InFlight == Cardinality(voteReqs) + Cardinality(voteReps) + Cardinality(appendReqs)
              + Cardinality(appendReps) + Cardinality(snapReqs) + Cardinality(snapReps)

FewInFlight == InFlight <= MaxInFlight

HasStood(term) == \E v \in ballots : v[2] = term

\* For the runs about what leaders do with their logs: behaviours in which a
\* term has one candidate, whose other vote calls fail once it is elected.
QuietElections ==
  /\ \A v, w \in ballots : v[2] = w[2] => v[3] = w[3]
  /\ \A m \in voteReqs : m.term = currentTerm[m.from] /\ status[m.from] = Candidate
  /\ \A m \in voteReps : m.term = currentTerm[m.to] /\ status[m.to] = Candidate

\* Nobody has called a peer with entries, or with a heartbeat, yet.
NoHeartbeats == \A s \in Server : appendNums[s] = <<>> /\ Len(logs[s]) <= 1
FirstHeartbeats == \A s \in Server : logs[s] = <<>> /\ Len(appendNums[s]) <= 1

\* A leader is not given the same command twice in a row.
NoRepeats ==
  \A s \in Server : \A k \in DOMAIN logs[s] :
    k > 1 => logs[s][k].command # logs[s][k - 1].command

\* For the run about diverging logs: nobody stands in a term before the leader
\* of the term before it has written to its log.
EveryTermWrites ==
  \A v \in ballots : v[2] > 1 =>
    \E s \in Server : \E k \in DOMAIN logs[s] : logs[s][k].term = v[2] - 1

\* For the run about leaders: elections in which candidates compete, with more
\* calls under way, as long as nothing is replicated; and otherwise what leaders
\* do with their logs in quiet elections.
CompetingOrQuiet ==
  \/ NoHeartbeats /\ InFlight <= MaxInFlight + 2
  \/ FirstHeartbeats /\ InFlight <= MaxInFlight + 1
  \/ QuietElections /\ EveryTermWrites /\ InFlight <= MaxInFlight

\* Where no snapshots are taken no other handler looks at what has been
\* applied: nothing is, or it is the last thing that happens.
NothingApplied == \A s \in Server : lastApplied[s] = 0

\* A heartbeat of an earlier term is under way, or its refusal.
LateHeartbeat ==
  \/ \E m \in appendReqs, v \in ballots : m.term < v[2]
  \/ \E r \in appendReps : ~Follows(r)

\* For the run about replication: three leaders in a row that write and are
\* answered, ...
ThreeLeaderships ==
  /\ InFlight <= IF LateHeartbeat THEN MaxInFlight + 1 ELSE MaxInFlight
  /\ EveryTermWrites /\ NothingApplied
  /\ \A s \in Server : Len(appendNums[s]) <= 1

\* ... and two leaders whose servers compact their logs: the first entry, before
\* there is another or a second leader.
Compaction ==
  /\ InFlight + Cardinality(snapThreads) <= MaxInFlight
  /\ \A v \in ballots : v[2] <= 2
  /\ (HasStood(2) \/ \E s \in Server : LastLogIndex(s) > 1) => \E s \in Server : Base(s) > 0

LeadershipsOrCompaction == QuietElections /\ (ThreeLeaderships \/ Compaction)

\* And of a step: where logs are compacted, nobody stands in a later term before
\* a server has compacted entries that another one lacks.
SnapshotFirst ==
  \/ ThreeLeaderships'
  \/ (\E v \in ballots' \ ballots : v[2] > 1 /\ v[1] = v[3]) =>
       \E s, p \in Server : Base(s) > LastLogIndex(p)
=============================================================================
