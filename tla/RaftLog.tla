------------------------------ MODULE RaftLog ------------------------------
(***************************************************************************)
(* The log arithmetic of raftCore/raft.cpp, as pure operators.             *)
(*                                                                         *)
(* A node keeps a snapshot of a prefix of its log and, in m_logs, the      *)
(* entries after it.  `snap' is the sequence of entries the snapshot       *)
(* covers, so that m_lastSnapshotIncludeIndex is Len(snap) and             *)
(* m_lastSnapshotIncludeTerm the term of its last entry; `logs' is m_logs. *)
(* An entry is a record [term, command]; its logindex is its position.     *)
(*                                                                         *)
(* The repository holds two versions of this file, kvDB-Raft and           *)
(* KVstorageBaseRaft-cpp-main (from which the first was rewritten).  They  *)
(* differ in matchLog and in the overwrite test of AppendEntries1: Impl    *)
(* selects the version.                                                    *)
(***************************************************************************)
EXTENDS Integers, Sequences

CONSTANT Impl   \* which of the two source trees is modelled

ASSUME ImplAssumption == Impl \in {"kvDB", "upstream"}

MaxOf(a, b) == IF a >= b THEN a ELSE b
MinOf(a, b) == IF a <= b THEN a ELSE b

LastTermOf(entries) == IF entries = <<>> THEN 0 ELSE entries[Len(entries)].term

(***************************************************************************)
(* Last index and term, and the term at an index between the snapshot and  *)
(* the end of the log.                                                     *)
(***************************************************************************)
GetLastLogIndex(snap, logs) == Len(snap) + Len(logs)

GetLastLogTerm(snap, logs) == LastTermOf(IF logs = <<>> THEN snap ELSE logs)

GetLogTermFromLogIndex(snap, logs, index) ==
  IF index = Len(snap) THEN LastTermOf(snap) ELSE logs[index - Len(snap)].term

(***************************************************************************)
(* Is a candidate whose log ends at (index, term) at least as up to date?  *)
(***************************************************************************)
UpToDate(snap, logs, index, term) ==
  \/ term > GetLastLogTerm(snap, logs)
  \/ /\ term = GetLastLogTerm(snap, logs)
     /\ index >= GetLastLogIndex(snap, logs)

(***************************************************************************)
(* Does the follower's log hold an entry of that term at that index?  The  *)
(* kvDB-Raft version assigns instead of comparing: it returns the term it  *)
(* finds, converted to bool.                                               *)
(***************************************************************************)
MatchLogKvDB(snap, logs, index, term) ==
  GetLogTermFromLogIndex(snap, logs, index) # 0

MatchLogUpstream(snap, logs, index, term) ==
  GetLogTermFromLogIndex(snap, logs, index) = term

MatchLog(snap, logs, index, term) ==
  IF Impl = "kvDB" THEN MatchLogKvDB(snap, logs, index, term)
                   ELSE MatchLogUpstream(snap, logs, index, term)

(***************************************************************************)
(* The nextIndex a follower proposes when the entry at prev does not       *)
(* match: the index after the last one whose term differs, down to the     *)
(* snapshot, or prev itself when there is none.                            *)
(***************************************************************************)
BackOffTooFar(snap, logs, prev) ==   \* faulty: one too low
  LET T(i) == GetLogTermFromLogIndex(snap, logs, i)
      differ == {i \in Len(snap) .. prev : T(i) # T(prev)}
  IN  IF differ = {} THEN prev ELSE CHOOSE i \in differ : \A j \in differ : j <= i

BackOff(snap, logs, prev) ==
  LET T(i) == GetLogTermFromLogIndex(snap, logs, i)
      stop == {i \in Len(snap) .. prev : /\ T(i) # T(prev)
                                         /\ \A j \in (i + 1) .. prev : T(j) = T(prev)}
  IN  IF stop = {} THEN prev ELSE (CHOOSE i \in stop : TRUE) + 1

(***************************************************************************)
(* The entries of an accepted AppendEntries are written one by one after   *)
(* position `at' of logs (at = prev - Len(snap)): past the end they are    *)
(* appended, inside the log they overwrite what is there or leave it.      *)
(* Nothing is ever truncated.  `kept' is the set of positions left alone.  *)
(***************************************************************************)
Written(logs, at, entries, kept) ==
  [i \in 1 .. MaxOf(Len(logs), at + Len(entries)) |->
     IF i > Len(logs) \/ i \in ((at + 1) .. (at + Len(entries))) \ kept
       THEN entries[i - at]
       ELSE logs[i]]

\* The positions of logs that the entries reach.
Overlap(logs, at, entries) == (at + 1) .. MinOf(Len(logs), at + Len(entries))

\* Same term at the same index: the entry is already there.
KeptUpstream(logs, at, entries) ==
  {i \in Overlap(logs, at, entries) : logs[i].term = entries[i - at].term}

\* The kvDB-Raft version looks at the entry whose index is the new entry's
\* term.  If that index was passed already, its entry is the one now there.
KeptKvDB(snap, logs, at, entries) ==
  CHOOSE kept \in SUBSET Overlap(logs, at, entries) :
    \A i \in Overlap(logs, at, entries) :
      LET term == entries[i - at].term
          seen == term - Len(snap)
      IN  i \in kept <=>
            (IF seen < i THEN Written(logs, at, entries, kept) ELSE logs)[seen].term = term

\* What kvDB-Raft needs of that index: getSlicesIndexFromLogIndex asserts
\* that it is after the snapshot and inside the log as it is by then.
SlicesKvDB(snap, logs, at, entries) ==
  \A i \in Overlap(logs, at, entries) :
    entries[i - at].term - Len(snap) \in 1 .. Len(logs)

MergeEntries(snap, logs, at, entries) ==
  Written(logs, at, entries,
          IF Impl = "kvDB" THEN KeptKvDB(snap, logs, at, entries)
                           ELSE KeptUpstream(logs, at, entries))

(***************************************************************************)
(* The assertions of the loop: an entry with the same index and term must  *)
(* be the same entry.                                                      *)
(***************************************************************************)
MergeAsserts(snap, logs, at, entries) ==
  /\ \A i \in Overlap(logs, at, entries) :
       logs[i].term = entries[i - at].term => logs[i] = entries[i - at]
  /\ Impl = "kvDB" => SlicesKvDB(snap, logs, at, entries)
=============================================================================
