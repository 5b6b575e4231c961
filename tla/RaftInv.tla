------------------------------ MODULE RaftInv ------------------------------
(***************************************************************************)
(* The inductive invariants behind the properties of module Raft.  They    *)
(* are model-checked in a run of MCRaft and proved in RaftProofs,          *)
(* RaftEntryProofs and RaftReplicationProofs.                              *)
(***************************************************************************)
EXTENDS Raft

\* The votes that candidate s has counted in a term.
Supporters(term, s) == {v \in Server : <<v, term, s>> \in counted}

\* A server votes for one candidate in a term, and while it stays in that term
\* remembers which; a candidate has voted for itself.
BallotsInv ==
  \A v \in ballots :
    /\ v[2] <= currentTerm[v[1]]
    /\ v[2] = currentTerm[v[1]] => votedFor[v[1]] = v[3]
    /\ <<v[3], v[2], v[3]>> \in ballots
    /\ \A w \in ballots : v[1] = w[1] /\ v[2] = w[2] => v[3] = w[3]

\* A candidate asks each peer once a term: while its request is under way the
\* peer's vote is neither on its way back nor counted.
RequestsInv ==
  \A m \in voteReqs :
    /\ m.from # m.to
    /\ <<m.from, m.term, m.from>> \in ballots
    /\ <<m.to, m.term, m.from>> \notin counted
    /\ \A r \in voteReps : r.from = m.to /\ r.to = m.from /\ r.term = m.term => ~r.granted
    /\ \A n \in voteReqs : n.from = m.from /\ n.to = m.to /\ n.term = m.term => n = m

\* A vote on its way back has been cast and is not counted yet.
GrantsInv ==
  \A r \in voteReps : r.granted => /\ <<r.from, r.term, r.to>> \in ballots
                                   /\ <<r.from, r.term, r.to>> \notin counted

\* Votes that were counted were cast, and votedNum never exceeds those counted
\* in the candidate's term, less a majority once it has been elected.
CountInv ==
  /\ counted \subseteq ballots
  /\ \A s \in Server :
       <<s, currentTerm[s], s>> \in ballots =>
         votedNum[s] + (IF <<currentTerm[s], s>> \in elected THEN Majority ELSE 0)
           <= Cardinality(Supporters(currentTerm[s], s))

\* An election was won with a majority, and a leader was elected in its term.
ElectedInv ==
  /\ \A e \in elected : /\ e[1] <= currentTerm[e[2]]
                        /\ Cardinality(Supporters(e[1], e[2])) >= Majority
  /\ \A s \in Server : status[s] = Leader => <<currentTerm[s], s>> \in elected

VoteInv == BallotsInv /\ RequestsInv /\ GrantsInv /\ CountInv /\ ElectedInv

\* The entries there are, with their indices: in the logs and snapshots of the
\* servers, and in the requests under way.
InLogs == UNION {{<<k, Log(s)[k]>> : k \in 1 .. Len(Log(s))} : s \in Server}
InAppends == UNION {{<<m.prev + k, m.entries[k]>> : k \in 1 .. Len(m.entries)} : m \in appendReqs}
InSnapshots == UNION {{<<k, m.data[k]>> : k \in 1 .. Len(m.data)} : m \in snapReqs}
Placed == InLogs \cup InAppends \cup InSnapshots

\* An entry was made by the leader of its term, who made no other at that index,
\* and while it leads it has them all: the next one it makes is at a new index.
EntriesInv ==
  /\ \A x \in Placed : \E s \in Server : <<x[2].term, s>> \in elected
  /\ \A x, y \in Placed : x[1] = y[1] /\ x[2].term = y[2].term => x[2] = y[2]
  /\ \A s \in Server : status[s] = Leader =>
       \A x \in Placed : x[2].term = currentTerm[s] => x[1] <= Len(Log(s))

\* An AppendEntries under way was sent by the leader of its term to another
\* server.
SendersInv == \A m \in appendReqs : <<m.term, m.from>> \in elected /\ m.from # m.to

\* Without snapshots no node has one or is sent one: a leader whose nextIndex is
\* 0 has failed an assertion before the thread it started runs.
NoSnapshotsInv ==
  /\ \A s \in Server : snapshot[s] = <<>>
  /\ \A x \in snapThreads : x[1] \in exited
  /\ snapReqs = {} /\ snapReps = {}

\* Calls and replies of the present leadership of the node that made them.
LeadsIn(s, term) == status[s] = Leader /\ currentTerm[s] = term
Follows(r) == r.success \/ r.update # NoUpdate   \* not the reply to a stale leader

\* What a leader asks, is answered and believes stays inside its log.
ReachInv ==
  /\ \A m \in appendReqs :
       /\ m.prev = 0 => m.prevTerm = 0
       /\ LeadsIn(m.from, m.term) => m.prev + Len(m.entries) <= LastLogIndex(m.from)
  /\ \A r \in appendReps : Follows(r) =>
       /\ <<r.term, r.to>> \in elected
       /\ LeadsIn(r.to, r.term) => IF r.success THEN r.sent <= LastLogIndex(r.to)
                                               ELSE r.update \in 1 .. LastLogIndex(r.to) + 1
  /\ \A s, p \in Server : status[s] = Leader =>
       /\ matchIndex[s][p] <= LastLogIndex(s)
       /\ nextIndex[s][p] \in 1 .. LastLogIndex(s) + 1

\* Without snapshots: servers s and p hold entries of one term at index k.
Agree(s, p, k) == k <= Len(logs[s]) /\ k <= Len(logs[p]) /\ logs[s][k].term = logs[p][k].term

\* What s knows of the log of p while it leads: p may have left its term.
Knows(s, p, k) ==
  /\ currentTerm[s] <= currentTerm[p]
  /\ currentTerm[p] = currentTerm[s] => Agree(s, p, k)

\* What a leader sends are the entries of its log, and what is acknowledged to it
\* agrees with its log as long as the follower is in its term.
AgreeInv ==
  /\ \A m \in appendReqs : LeadsIn(m.from, m.term) =>
       /\ \A k \in 1 .. Len(m.entries) : m.entries[k] = logs[m.from][m.prev + k]
       /\ m.prev > 0 => m.prevTerm = logs[m.from][m.prev].term
  /\ \A r \in appendReps : r.success => r.term <= currentTerm[r.from]
  /\ \A r \in appendReps :
       (r.success /\ LeadsIn(r.to, r.term) /\ currentTerm[r.from] = r.term /\ r.sent > 0) =>
         Agree(r.to, r.from, r.sent)
  /\ \A s, p \in Server : (status[s] = Leader /\ matchIndex[s][p] > 0) =>
       Knows(s, p, matchIndex[s][p])

\* The call of leader s to p in round n of its term, before and after p accepts it.
Asked(s, p, n) ==
  {m \in appendReqs : m.from = s /\ m.to = p /\ m.term = currentTerm[s] /\ m.round = n}
Acked(s, p, n) ==
  {r \in appendReps : /\ r.success
                      /\ r.to = s /\ r.from = p /\ r.term = currentTerm[s] /\ r.round = n}

\* In a round of its leadership a leader calls each peer once, and is answered
\* at most once; what a reply says of the last entry sent is true.
CallsInv ==
  \A s \in Server : status[s] = Leader =>
    /\ \A m \in appendReqs : m.from = s /\ m.term = currentTerm[s] =>
         /\ m.round \in 1 .. Len(appendNums[s])
         /\ Acked(s, m.to, m.round) = {}
         /\ Asked(s, m.to, m.round) = {m}
    /\ \A r \in appendReps : r.success /\ r.to = s /\ r.term = currentTerm[s] =>
         /\ r.from # s /\ r.round \in 1 .. Len(appendNums[s])
         /\ Acked(s, r.from, r.round) = {r}
         /\ ~r.empty => r.sent > 0 /\ r.lastTerm = logs[s][r.sent].term

\* The peers that round n of s, which sent its log up to end, may have counted.
MayCount(s, n, end) ==
  {p \in Peers(s) : /\ Asked(s, p, n) = {} /\ Acked(s, p, n) = {}
                    /\ end > 0 => Knows(s, p, end)}

\* All calls of a round send the log up to one end, and the counter of the round
\* counts, besides the leader, peers that have accepted it.
RoundsInv ==
  \A s \in Server : status[s] = Leader =>
    \A n \in 1 .. Len(appendNums[s]) : \E end \in 0 .. Len(logs[s]) :
      /\ \A p \in Server : /\ \A m \in Asked(s, p, n) : m.prev + Len(m.entries) = end
                           /\ \A r \in Acked(s, p, n) : r.sent = end
      /\ appendNums[s][n] <= 1 + Cardinality(MayCount(s, n, end))

\* What holds of logs, calls and counters wherever no snapshots are taken.
ReplicationInv ==
  EntriesInv /\ SendersInv /\ ReachInv /\ AgreeInv /\ CallsInv /\ RoundsInv
=============================================================================
