--------------------------- MODULE RaftEntryProofs ---------------------------
(***************************************************************************)
(* The entries of module Raft for every cluster and every bound, in both   *)
(* versions of the source: a term and an index determine an entry, though  *)
(* logs diverge, are overwritten in place, compacted and installed.        *)
(* Then what a leader can rely on in its term when no snapshots are taken: *)
(* nobody else sends it entries of its term, so nothing makes it step down *)
(* but a higher term, and its log only grows; and what snapshots change of *)
(* it.  Last, nodes that restart empty keep their indices in order.        *)
(***************************************************************************)
EXTENDS RaftProofs, RaftRestart

-----------------------------------------------------------------------------
(* Whole logs *)

\* An entry of a whole log is one of the covered prefix or one of m_logs.
LEMMA LogAt ==
  ASSUME NEW snap \in Seq(Entry), NEW log \in Seq(Entry)
  PROVE  /\ snap \o log \in Seq(Entry)
         /\ Len(snap) \in Nat /\ Len(log) \in Nat /\ Len(snap \o log) \in Nat
         /\ Len(snap \o log) = Len(snap) + Len(log)
         /\ \A k \in 1 .. Len(snap) : (snap \o log)[k] = snap[k]
         /\ \A k \in 1 .. Len(log) : (snap \o log)[Len(snap) + k] = log[k]
<1>1. /\ Len(snap) \in Nat /\ Len(log) \in Nat /\ snap \o log \in Seq(Entry)
      /\ Len(snap \o log) = Len(snap) + Len(log)
      /\ \A i \in 1 .. Len(snap) + Len(log) :
           (snap \o log)[i] = IF i <= Len(snap) THEN snap[i] ELSE log[i - Len(snap)]
  BY ConcatProperties, LenProperties
<1>2. \A k \in 1 .. Len(log) : /\ Len(snap) + k \in 1 .. Len(snap) + Len(log)
                               /\ ~(Len(snap) + k <= Len(snap))
                               /\ Len(snap) + k - Len(snap) = k
  BY <1>1
<1> QED
  BY <1>1, <1>2

\* The suffix of m_logs after position i, entry by entry.
LEMMA SuffixAt ==
  ASSUME NEW log \in Seq(Entry), NEW i \in Nat
  PROVE  /\ SubSeq(log, i + 1, Len(log)) \in Seq(Entry)
         /\ \A k \in 1 .. Len(SubSeq(log, i + 1, Len(log))) :
              /\ i + k \in 1 .. Len(log)
              /\ SubSeq(log, i + 1, Len(log))[k] = log[i + k]
<1>1. \A j \in (i + 1) .. Len(log) : log[j] \in Entry
  BY ElementOfSeq
<1>2. /\ SubSeq(log, i + 1, Len(log)) \in Seq(Entry)
      /\ Len(SubSeq(log, i + 1, Len(log))) = IF i + 1 <= Len(log) THEN Len(log) - (i + 1) + 1 ELSE 0
      /\ \A k \in 1 .. Len(log) - (i + 1) + 1 : SubSeq(log, i + 1, Len(log))[k] = log[i + 1 + k - 1]
  BY <1>1, SubSeqProperties
<1>3. Len(log) \in Nat
  BY LenProperties
<1> QED
  BY <1>2, <1>3

\* What a merge leaves at a position was there or is among the new entries.
LEMMA MergeAt ==
  ASSUME NEW log \in Seq(Entry), NEW entries \in Seq(Entry), NEW at \in 0 .. Len(log),
         NEW snap, NEW merged, merged = MergeEntries(snap, log, at, entries)
  PROVE  \A k \in 1 .. Len(merged) :
           \/ k \in 1 .. Len(log) /\ merged[k] = log[k]
           \/ k - at \in 1 .. Len(entries) /\ merged[k] = entries[k - at]
<1> SUFFICES ASSUME NEW k \in 1 .. Len(merged)
             PROVE  \/ k \in 1 .. Len(log) /\ merged[k] = log[k]
                    \/ k - at \in 1 .. Len(entries) /\ merged[k] = entries[k - at]
  OBVIOUS
<1> DEFINE n == MaxOf(Len(log), at + Len(entries))
<1>1. k \in 1 .. n /\ Len(log) \in Nat /\ Len(entries) \in Nat
  BY MergeType, LenProperties
<1>2. ASSUME NEW kept
      PROVE  \/ k \in 1 .. Len(log) /\ Written(log, at, entries, kept)[k] = log[k]
             \/ k - at \in 1 .. Len(entries) /\ Written(log, at, entries, kept)[k] = entries[k - at]
  <2>1. Written(log, at, entries, kept)[k] =
          IF k > Len(log) \/ k \in ((at + 1) .. (at + Len(entries))) \ kept
            THEN entries[k - at] ELSE log[k]
    BY <1>1 DEF Written
  <2>2. CASE k > Len(log) \/ k \in ((at + 1) .. (at + Len(entries))) \ kept
    <3>1. k - at \in 1 .. Len(entries)
      BY <1>1, <2>2 DEF MaxOf
    <3> QED
      BY <2>1, <2>2, <3>1
  <2>3. CASE ~(k > Len(log) \/ k \in ((at + 1) .. (at + Len(entries))) \ kept)
    <3>1. k \in 1 .. Len(log)
      BY <1>1, <2>3
    <3> QED
      BY <2>1, <2>3, <3>1
  <2> QED
    BY <2>2, <2>3
<1> QED
  BY <1>2 DEF MergeEntries

-----------------------------------------------------------------------------
(* The entries there are *)

LEMMA InPlaced ==
  /\ \A s \in Server : \A k \in 1 .. Len(Log(s)) : <<k, Log(s)[k]>> \in Placed
  /\ \A m \in appendReqs : \A k \in 1 .. Len(m.entries) : <<m.prev + k, m.entries[k]>> \in Placed
  /\ \A m \in snapReqs : \A k \in 1 .. Len(m.data) : <<k, m.data[k]>> \in Placed
  BY DEF Placed, InLogs, InAppends, InSnapshots

\* The covered prefix and m_logs of a server are placed.
LEMMA LogsPlaced ==
  ASSUME LogType, NEW s \in Server
  PROVE  /\ snapshot[s] \in Seq(Entry) /\ logs[s] \in Seq(Entry)
         /\ \A k \in 1 .. Len(snapshot[s]) : <<k, snapshot[s][k]>> \in Placed
         /\ \A k \in 1 .. Len(logs[s]) : <<Len(snapshot[s]) + k, logs[s][k]>> \in Placed
<1>1. snapshot[s] \in Seq(Entry) /\ logs[s] \in Seq(Entry)
  BY DEF LogType
<1>2. /\ Len(snapshot[s]) \in Nat /\ Len(logs[s]) \in Nat /\ Len(Log(s)) \in Nat
      /\ Len(Log(s)) = Len(snapshot[s]) + Len(logs[s])
      /\ \A k \in 1 .. Len(snapshot[s]) : Log(s)[k] = snapshot[s][k]
      /\ \A k \in 1 .. Len(logs[s]) : Log(s)[Len(snapshot[s]) + k] = logs[s][k]
  BY <1>1, LogAt DEF Log
<1>3. \A a, b, c \in Nat : c = a + b =>
        (\A k \in 1 .. a : k \in 1 .. c) /\ (\A k \in 1 .. b : a + k \in 1 .. c)
  OBVIOUS
<1>4. /\ \A k \in 1 .. Len(snapshot[s]) : k \in 1 .. Len(Log(s))
      /\ \A k \in 1 .. Len(logs[s]) : Len(snapshot[s]) + k \in 1 .. Len(Log(s))
  BY <1>2, <1>3, Zenon
<1> QED
  BY <1>1, <1>2, <1>4, InPlaced

\* What a log that is made of two parts places.
LEMMA WholePlaced ==
  ASSUME NEW snap \in Seq(Entry), NEW log \in Seq(Entry), NEW P,
         \A k \in 1 .. Len(snap) : <<k, snap[k]>> \in P,
         \A k \in 1 .. Len(log) : <<Len(snap) + k, log[k]>> \in P
  PROVE  \A k \in 1 .. Len(snap \o log) : <<k, (snap \o log)[k]>> \in P
<1> SUFFICES ASSUME NEW k \in 1 .. Len(snap \o log)
             PROVE  <<k, (snap \o log)[k]>> \in P
  OBVIOUS
<1>1. /\ Len(snap) \in Nat /\ Len(log) \in Nat
      /\ Len(snap \o log) = Len(snap) + Len(log)
      /\ \A j \in 1 .. Len(snap) : (snap \o log)[j] = snap[j]
      /\ \A j \in 1 .. Len(log) : (snap \o log)[Len(snap) + j] = log[j]
  BY LogAt
<1>2. CASE k <= Len(snap)
  BY <1>1, <1>2
<1>3. CASE ~(k <= Len(snap))
  <2>1. k - Len(snap) \in 1 .. Len(log) /\ Len(snap) + (k - Len(snap)) = k
    BY <1>1, <1>3
  <2> QED
    BY <1>1, <2>1
<1> QED
  BY <1>2, <1>3

\* A step places only what the logs and the requests it leaves hold.
LEMMA PlacedBy ==
  ASSUME NEW P,
         \A s \in Server : \A k \in 1 .. Len(Log(s)') : <<k, Log(s)'[k]>> \in P,
         \A m \in appendReqs' : \A k \in 1 .. Len(m.entries) : <<m.prev + k, m.entries[k]>> \in P,
         \A m \in snapReqs' : \A k \in 1 .. Len(m.data) : <<k, m.data[k]>> \in P
  PROVE  Placed' \subseteq P
  BY DEF Placed, InLogs, InAppends, InSnapshots

\* Steps that move no entry.
LEMMA NothingPlaced ==
  ASSUME UNCHANGED <<logs, snapshot>>, appendReqs' \subseteq appendReqs, snapReqs' \subseteq snapReqs
  PROVE  Placed' \subseteq Placed
<1>1. \A s \in Server : Log(s)' = Log(s)
  BY DEF Log
<1>2. /\ \A s \in Server : \A k \in 1 .. Len(Log(s)') : <<k, Log(s)'[k]>> \in Placed
      /\ \A m \in appendReqs' : \A k \in 1 .. Len(m.entries) : <<m.prev + k, m.entries[k]>> \in Placed
      /\ \A m \in snapReqs' : \A k \in 1 .. Len(m.data) : <<k, m.data[k]>> \in Placed
  BY <1>1, InPlaced
<1> HIDE DEF Log
<1> QED
  BY <1>2, PlacedBy

\* Steps that change one log only: it and the others place what was placed.
LEMMA OneLogPlaced ==
  ASSUME NEW P, Placed \subseteq P, NEW s \in Server,
         \A p \in Server \ {s} : Log(p)' = Log(p),
         \A k \in 1 .. Len(Log(s)') : <<k, Log(s)'[k]>> \in P,
         appendReqs' \subseteq appendReqs, snapReqs' \subseteq snapReqs
  PROVE  Placed' \subseteq P
<1>1. \A p \in Server : \A k \in 1 .. Len(Log(p)') : <<k, Log(p)'[k]>> \in P
  <2> SUFFICES ASSUME NEW p \in Server, NEW k \in 1 .. Len(Log(p)')
               PROVE  <<k, Log(p)'[k]>> \in P
    OBVIOUS
  <2>1. CASE p = s
    BY <2>1
  <2>2. CASE p # s
    <3>1. Log(p)' = Log(p)
      BY <2>2
    <3> QED
      BY <3>1, InPlaced
  <2> QED
    BY <2>1, <2>2
<1>2. /\ \A m \in appendReqs' : \A k \in 1 .. Len(m.entries) : <<m.prev + k, m.entries[k]>> \in P
      /\ \A m \in snapReqs' : \A k \in 1 .. Len(m.data) : <<k, m.data[k]>> \in P
  BY InPlaced
<1> QED
  BY <1>1, <1>2, PlacedBy

\* What doHeartBeat sends stands in the leader's log.
LEMMA DoHeartBeatPlaced ==
  ASSUME TypeInv, NEW s \in Server, DoHeartBeat(s)
  PROVE  Placed' \subseteq Placed
<1>1. LogType /\ nextIndex \in [Server -> [Server -> Nat]]
  BY DEF TypeInv, TypeOK, LeadType
<1>2. /\ snapshot[s] \in Seq(Entry) /\ logs[s] \in Seq(Entry) /\ Len(snapshot[s]) \in Nat
      /\ \A k \in 1 .. Len(logs[s]) : <<Len(snapshot[s]) + k, logs[s][k]>> \in Placed
  BY <1>1, LogsPlaced, LenProperties
<1>3. ASSUME NEW p \in Peers(s), ~(nextIndex[s][p] <= Base(s)),
             NEW k \in 1 .. Len(AppendArgs(s, p).entries)
      PROVE  <<AppendArgs(s, p).prev + k, AppendArgs(s, p).entries[k]>> \in Placed
  <2> DEFINE n == nextIndex[s][p]
             b == Len(snapshot[s])
             i == n - 1 - b
             suffix == SubSeq(logs[s], i + 1, Len(logs[s]))
  <2>1. AppendArgs(s, p).prev = n - 1 /\ AppendArgs(s, p).entries = suffix
    BY DEF AppendArgs, Base
  <2>2. n \in Nat /\ b \in Nat /\ ~(n <= b)
    BY <1>1, <1>2, <1>3 DEF Peers, Base
  <2> HIDE DEF n, b
  <2>3. i \in Nat
    BY <2>2
  <2>4. i + k \in 1 .. Len(logs[s]) /\ suffix[k] = logs[s][i + k]
    BY <1>2, <1>3, <2>1, <2>3, SuffixAt
  <2>5. n - 1 + k = b + (i + k)
    BY <1>3, <2>2
  <2>6. <<b + (i + k), logs[s][i + k]>> \in Placed
    BY <1>2, <2>4 DEF b
  <2> HIDE DEF i, suffix
  <2> QED
    BY <2>1, <2>4, <2>5, <2>6
<1>4. ASSUME NEW m \in appendReqs', NEW k \in 1 .. Len(m.entries)
      PROVE  <<m.prev + k, m.entries[k]>> \in Placed
  <2>1. CASE m \in appendReqs
    BY <2>1, InPlaced
  <2>2. CASE m \notin appendReqs
    <3>1. PICK p \in Peers(s) : ~(nextIndex[s][p] <= Base(s)) /\ m = AppendArgs(s, p)
      BY <2>2 DEF DoHeartBeat
    <3> QED
      BY <1>3, <3>1
  <2> QED
    BY <2>1, <2>2
<1>5. /\ \A p \in Server : Log(p)' = Log(p)
      /\ snapReqs' = snapReqs
  BY DEF DoHeartBeat, Log, logVars
<1>6. /\ \A p \in Server : \A k \in 1 .. Len(Log(p)') : <<k, Log(p)'[k]>> \in Placed
      /\ \A m \in snapReqs' : \A k \in 1 .. Len(m.data) : <<k, m.data[k]>> \in Placed
  BY <1>5, InPlaced
<1> QED
  BY <1>4, <1>6, PlacedBy

\* What AppendEntries1 leaves in the log stood there or in the request.
LEMMA HandleAppendEntriesPlaced ==
  ASSUME TypeInv, NEW m \in appendReqs, HandleAppendEntries(m)
  PROVE  Placed' \subseteq Placed
<1> DEFINE s == m.to
           b == Len(snapshot[s])
           at == m.prev - b
           merged == MergeEntries(snapshot[s], logs[s], at, m.entries)
<1>1. /\ LogType /\ s \in Server /\ m.prev \in Nat /\ m.entries \in Seq(Entry)
  BY DEF TypeInv, TypeOK, CallType, AppendReq
<1>2. /\ snapshot[s] \in Seq(Entry) /\ logs[s] \in Seq(Entry) /\ b \in Nat
      /\ Len(logs[s]) \in Nat
      /\ \A k \in 1 .. b : <<k, snapshot[s][k]>> \in Placed
      /\ \A k \in 1 .. Len(logs[s]) : <<b + k, logs[s][k]>> \in Placed
  BY <1>1, LogsPlaced, LenProperties
<1>3. /\ logs' = IF Merges(s, m) THEN [logs EXCEPT ![s] = merged] ELSE logs
      /\ snapshot' = snapshot /\ appendReqs' \subseteq appendReqs /\ snapReqs' = snapReqs
  BY DEF HandleAppendEntries, Base
<1>4. CASE ~Merges(s, m)
  BY <1>3, <1>4, NothingPlaced
<1>5. CASE Merges(s, m)
  <2>1. at \in 0 .. Len(logs[s])
    <3>1. ~(m.prev > b + Len(logs[s])) /\ ~(m.prev < b)
      BY <1>5 DEF Merges, Matches, TooNew, Compacted, Base, LastLogIndex, GetLastLogIndex
    <3> HIDE DEF b
    <3> QED
      BY <1>1, <1>2, <3>1
  <2>2. merged \in Seq(Entry)
    BY <1>1, <1>2, <2>1, MergeType
  <2>3. \A k \in 1 .. Len(merged) :
          \/ k \in 1 .. Len(logs[s]) /\ merged[k] = logs[s][k]
          \/ k - at \in 1 .. Len(m.entries) /\ merged[k] = m.entries[k - at]
    BY <1>1, <1>2, <2>1, MergeAt
  <2>4. \A k \in 1 .. Len(merged) : <<b + k, merged[k]>> \in Placed
    <3> SUFFICES ASSUME NEW k \in 1 .. Len(merged)
                 PROVE  <<b + k, merged[k]>> \in Placed
      OBVIOUS
    <3>1. \/ k \in 1 .. Len(logs[s]) /\ merged[k] = logs[s][k]
          \/ k - at \in 1 .. Len(m.entries) /\ merged[k] = m.entries[k - at]
      BY <2>3
    <3>2. CASE k \in 1 .. Len(logs[s]) /\ merged[k] = logs[s][k]
      BY <1>2, <3>2
    <3>3. CASE k - at \in 1 .. Len(m.entries) /\ merged[k] = m.entries[k - at]
      <4>1. <<m.prev + (k - at), m.entries[k - at]>> \in Placed
        BY <3>3, InPlaced
      <4>2. m.prev + (k - at) = b + k
        <5> HIDE DEF b, merged
        <5> QED
          BY <1>1, <1>2
      <4> QED
        BY <3>3, <4>1, <4>2
    <3> QED
      BY <3>1, <3>2, <3>3
  <2>5. logs'[s] = merged /\ \A p \in Server \ {s} : logs'[p] = logs[p]
    BY <1>1, <1>3, <1>5 DEF LogType
  <2> HIDE DEF merged
  <2>6. \A k \in 1 .. Len(snapshot[s] \o merged) : <<k, (snapshot[s] \o merged)[k]>> \in Placed
    BY <1>2, <2>2, <2>4, WholePlaced
  <2>7. Log(s)' = snapshot[s] \o merged /\ \A p \in Server \ {s} : Log(p)' = Log(p)
    BY <1>3, <2>5 DEF Log
  <2> QED
    BY <1>1, <1>3, <2>6, <2>7, OneLogPlaced
<1> QED
  BY <1>4, <1>5

\* Compaction moves entries from m_logs to the snapshot.
LEMMA SnapshotPlaced ==
  ASSUME TypeInv, NEW s \in Server, NEW index \in Nat, Snapshot(s, index)
  PROVE  /\ Placed' \subseteq Placed
         /\ \A p \in Server : Len(Log(p)') = Len(Log(p))
<1> DEFINE b == Len(snapshot[s])
           log == Log(s)
           prefix == SubSeq(log, 1, index)
           i == index - b
           suffix == SubSeq(logs[s], i + 1, Len(logs[s]))
<1>1. LogType /\ commitIndex[s] \in Nat
  BY DEF TypeInv, TypeOK, LogType
<1>2. /\ snapshot[s] \in Seq(Entry) /\ logs[s] \in Seq(Entry) /\ b \in Nat
      /\ Len(logs[s]) \in Nat
      /\ \A k \in 1 .. Len(logs[s]) : <<b + k, logs[s][k]>> \in Placed
  BY <1>1, LogsPlaced, LenProperties
<1>3. log \in Seq(Entry) /\ Len(log) = b + Len(logs[s])
  BY <1>2, LogAt DEF Log
<1>4. index > b /\ index <= Len(log)
  <2>1. s \notin exited /\ index > b /\ index <= commitIndex[s]
    BY DEF Snapshot, Running, Base
  <2>2. commitIndex[s] <= Len(log)
    BY <1>3, <2>1 DEF TypeInv, AppliedInRange, LastLogIndex, GetLastLogIndex
  <2> HIDE DEF b, log
  <2> QED
    BY <1>1, <1>2, <1>3, <2>1, <2>2
<1>5. /\ snapshot' = [snapshot EXCEPT ![s] = prefix] /\ logs' = [logs EXCEPT ![s] = suffix]
      /\ appendReqs' = appendReqs /\ snapReqs' = snapReqs
  BY DEF Snapshot, Base, callVars
<1>6. i \in Nat /\ b + i = index
  <2> HIDE DEF b
  <2> QED
    BY <1>2, <1>4
<1>7. /\ prefix \in Seq(Entry) /\ Len(prefix) = index
      /\ \A k \in 1 .. index : prefix[k] = log[k]
  <2> HIDE DEF log, b
  <2>1. index \in 0 .. Len(log)
    BY <1>2, <1>3, <1>4
  <2> QED
    BY <1>3, <2>1, PrefixAt
<1>8. \A k \in 1 .. Len(prefix) : <<k, prefix[k]>> \in Placed
  <2>1. \A k \in 1 .. index : k \in 1 .. Len(log)
    <3> HIDE DEF log, b
    <3> QED
      BY <1>2, <1>3, <1>4
  <2>2. \A k \in 1 .. Len(log) : <<k, log[k]>> \in Placed
    BY InPlaced
  <2> HIDE DEF log, prefix
  <2> QED
    BY <1>7, <2>1, <2>2
<1>9. /\ suffix \in Seq(Entry) /\ Len(suffix) = IF i < Len(logs[s]) THEN Len(logs[s]) - i ELSE 0
      /\ \A k \in 1 .. Len(suffix) : <<index + k, suffix[k]>> \in Placed
  <2>1. /\ Len(suffix) = IF i < Len(logs[s]) THEN Len(logs[s]) - i ELSE 0
    <3> HIDE DEF i
    <3> QED
      BY <1>2, <1>6, SuffixType
  <2>2. /\ suffix \in Seq(Entry)
        /\ \A k \in 1 .. Len(suffix) : i + k \in 1 .. Len(logs[s]) /\ suffix[k] = logs[s][i + k]
    <3> HIDE DEF i
    <3> QED
      BY <1>2, <1>6, SuffixAt
  <2>3. ASSUME NEW k \in 1 .. Len(suffix)
        PROVE  <<index + k, suffix[k]>> \in Placed
    <3>1. <<b + (i + k), logs[s][i + k]>> \in Placed /\ suffix[k] = logs[s][i + k]
      BY <1>2, <2>2
    <3>2. b + (i + k) = index + k
      <4> HIDE DEF b, i, suffix
      <4> QED
        BY <1>2, <1>6
    <3> QED
      BY <3>1, <3>2
  <2> QED
    BY <2>1, <2>2, <2>3
<1> HIDE DEF prefix, suffix, i, b, log
<1>10. \A k \in 1 .. Len(prefix \o suffix) : <<k, (prefix \o suffix)[k]>> \in Placed
  BY <1>7, <1>8, <1>9, WholePlaced
<1>11. Log(s)' = prefix \o suffix /\ \A p \in Server \ {s} : Log(p)' = Log(p)
  BY <1>1, <1>5 DEF Log, LogType
<1>12. Len(prefix \o suffix) = Len(log)
  <2>1. Len(prefix \o suffix) = Len(prefix) + Len(suffix)
    BY <1>7, <1>9, LogAt
  <2>2. /\ Len(prefix) = index /\ Len(suffix) = IF i < Len(logs[s]) THEN Len(logs[s]) - i ELSE 0
        /\ Len(log) = b + Len(logs[s]) /\ index <= Len(log) /\ b + i = index
    BY <1>3, <1>4, <1>6, <1>7, <1>9
  <2>3. \A x, y, z \in Nat : x + y <= x + z =>
          x + y + (IF y < z THEN z - y ELSE 0) = x + z
    OBVIOUS
  <2>4. b \in Nat /\ i \in Nat /\ Len(logs[s]) \in Nat
    BY <1>2, <1>6
  <2> QED
    BY <2>1, <2>2, <2>3, <2>4
<1> QED
  BY <1>5, <1>10, <1>11, <1>12, OneLogPlaced DEF log

\* What leaderSendSnapShot sends stands in the sender's log.
LEMMA SendSnapShotPlaced ==
  ASSUME TypeInv, NEW s \in Server, NEW p \in Server, SendSnapShot(s, p)
  PROVE  Placed' \subseteq Placed
<1> DEFINE req == [term |-> currentTerm[s], from |-> s, to |-> p, data |-> snapshot[s]]
<1>1. /\ snapReqs' = snapReqs \cup {req} /\ appendReqs' = appendReqs
      /\ \A q \in Server : Log(q)' = Log(q)
  BY DEF SendSnapShot, logVars, Log
<1>2. \A k \in 1 .. Len(snapshot[s]) : <<k, snapshot[s][k]>> \in Placed
  BY LogsPlaced DEF TypeInv, TypeOK
<1>3. req.data = snapshot[s]
  OBVIOUS
<1> HIDE DEF req
<1>4. /\ \A q \in Server : \A k \in 1 .. Len(Log(q)') : <<k, Log(q)'[k]>> \in Placed
      /\ \A m \in appendReqs' : \A k \in 1 .. Len(m.entries) : <<m.prev + k, m.entries[k]>> \in Placed
  BY <1>1, InPlaced
<1>5. \A m \in snapReqs' : \A k \in 1 .. Len(m.data) : <<k, m.data[k]>> \in Placed
  BY <1>1, <1>2, <1>3, InPlaced
<1> QED
  BY <1>4, <1>5, PlacedBy

\* What InstallSnapshot leaves was sent, or stood in m_logs behind it.
LEMMA HandleInstallSnapshotPlaced ==
  ASSUME TypeInv, NEW m \in snapReqs, HandleInstallSnapshot(m)
  PROVE  Placed' \subseteq Placed
<1> DEFINE s == m.to
           b == Len(snapshot[s])
           index == Len(m.data)
           i == index - b
           installs == m.term >= currentTerm[s] /\ index > b
           tail == SubSeq(logs[s], i + 1, Len(logs[s]))
<1>1. LogType /\ s \in Server /\ m.data \in Seq(Entry)
  BY DEF TypeInv, TypeOK, CallType, SnapReq
<1>2. /\ snapshot[s] \in Seq(Entry) /\ logs[s] \in Seq(Entry) /\ b \in Nat /\ index \in Nat
      /\ \A k \in 1 .. Len(logs[s]) : <<b + k, logs[s][k]>> \in Placed
      /\ \A k \in 1 .. index : <<k, m.data[k]>> \in Placed
  BY <1>1, LogsPlaced, InPlaced, LenProperties
<1>3. /\ logs' = [logs EXCEPT ![s] = IF installs THEN tail ELSE logs[s]]
      /\ snapshot' = [snapshot EXCEPT ![s] = IF installs THEN m.data ELSE snapshot[s]]
      /\ appendReqs' = appendReqs /\ snapReqs' \subseteq snapReqs
  BY DEF HandleInstallSnapshot, Base
<1>4. CASE ~installs
  <2>1. logs' = logs /\ snapshot' = snapshot
    BY <1>1, <1>3, <1>4 DEF LogType
  <2> QED
    BY <1>3, <2>1, NothingPlaced
<1>5. CASE installs
  <2>1. i \in Nat /\ b + i = index
    <3> HIDE DEF b, index
    <3> QED
      BY <1>2, <1>5
  <2>2. tail \in Seq(Entry) /\ \A k \in 1 .. Len(tail) : <<index + k, tail[k]>> \in Placed
    <3>1. /\ tail \in Seq(Entry)
          /\ \A k \in 1 .. Len(tail) : i + k \in 1 .. Len(logs[s]) /\ tail[k] = logs[s][i + k]
      <4> HIDE DEF i
      <4> QED
        BY <1>2, <2>1, SuffixAt
    <3>2. ASSUME NEW k \in 1 .. Len(tail)
          PROVE  <<index + k, tail[k]>> \in Placed
      <4>1. <<b + (i + k), logs[s][i + k]>> \in Placed /\ tail[k] = logs[s][i + k]
        BY <1>2, <3>1
      <4>2. b + (i + k) = index + k
        <5> HIDE DEF b, i, tail, index
        <5> QED
          BY <1>2, <2>1
      <4> QED
        BY <4>1, <4>2
    <3> QED
      BY <3>1, <3>2
  <2> HIDE DEF tail
  <2>3. \A k \in 1 .. Len(m.data \o tail) : <<k, (m.data \o tail)[k]>> \in Placed
    BY <1>1, <1>2, <2>2, WholePlaced
  <2>4. Log(s)' = m.data \o tail /\ \A p \in Server \ {s} : Log(p)' = Log(p)
    BY <1>1, <1>3, <1>5 DEF Log, LogType
  <2> QED
    BY <1>1, <1>3, <2>3, <2>4, OneLogPlaced
<1> QED
  BY <1>4, <1>5

\* Start places one new entry, after the leader's last.
LEMMA StartPlaced ==
  ASSUME TypeInv, NEW s \in Server, NEW v \in Value, Start(s, v)
  PROVE  /\ Placed' \subseteq Placed \cup
              {<<Len(Log(s)) + 1, [term |-> currentTerm[s], command |-> v]>>}
         /\ Len(Log(s)) \in Nat /\ Len(Log(s)') = Len(Log(s)) + 1
         /\ \A p \in Server \ {s} : Log(p)' = Log(p)
<1> DEFINE e == [term |-> currentTerm[s], command |-> v]
           log == Append(logs[s], e)
           b == Len(snapshot[s])
           P == Placed \cup {<<Len(Log(s)) + 1, e>>}
<1>1. LogType /\ currentTerm[s] \in Nat
  BY DEF TypeInv, TypeOK, NodeType
<1>2. e \in Entry
  BY <1>1 DEF Entry
<1> HIDE DEF e
<1>3. /\ snapshot[s] \in Seq(Entry) /\ logs[s] \in Seq(Entry)
      /\ \A k \in 1 .. b : <<k, snapshot[s][k]>> \in Placed
      /\ \A k \in 1 .. Len(logs[s]) : <<b + k, logs[s][k]>> \in Placed
  BY <1>1, LogsPlaced
<1>4. /\ b \in Nat /\ Len(logs[s]) \in Nat /\ Len(Log(s)) = b + Len(logs[s])
  BY <1>3, LogAt DEF Log
<1>5. /\ log \in Seq(Entry) /\ Len(log) = Len(logs[s]) + 1
      /\ \A k \in 1 .. Len(logs[s]) : log[k] = logs[s][k]
      /\ log[Len(logs[s]) + 1] = e
  BY <1>2, <1>3, AppendProperties
<1>6. \A k \in 1 .. Len(log) : <<b + k, log[k]>> \in P
  <2> SUFFICES ASSUME NEW k \in 1 .. Len(log)
               PROVE  <<b + k, log[k]>> \in P
    OBVIOUS
  <2>1. CASE k \in 1 .. Len(logs[s])
    BY <1>3, <1>5, <2>1
  <2>2. CASE k \notin 1 .. Len(logs[s])
    <3> HIDE DEF log, b
    <3>1. k = Len(logs[s]) + 1
      BY <1>4, <1>5, <2>2
    <3>2. b + k = Len(Log(s)) + 1
      BY <1>4, <3>1
    <3> QED
      BY <1>5, <3>1, <3>2
  <2> QED
    BY <2>1, <2>2
<1>7. /\ logs' = [logs EXCEPT ![s] = log] /\ snapshot' = snapshot
      /\ appendReqs' = appendReqs /\ snapReqs' = snapReqs
  BY DEF Start, callVars, e
<1> HIDE DEF log
<1>8. Log(s)' = snapshot[s] \o log /\ \A p \in Server \ {s} : Log(p)' = Log(p)
  BY <1>1, <1>7 DEF Log, LogType
<1>9. \A k \in 1 .. Len(snapshot[s] \o log) : <<k, (snapshot[s] \o log)[k]>> \in P
  BY <1>3, <1>5, <1>6, WholePlaced
<1>10. Placed' \subseteq P
  BY <1>7, <1>8, <1>9, OneLogPlaced
<1>11. Len(Log(s)') = b + Len(log)
  <2>1. Len(snapshot[s] \o log) = b + Len(log)
    BY <1>3, <1>5, LogAt
  <2> QED
    BY <1>8, <2>1
<1> HIDE DEF b
<1>12. Len(Log(s)) \in Nat /\ Len(Log(s)') = Len(Log(s)) + 1
  BY <1>4, <1>5, <1>11
<1> QED
  BY <1>8, <1>10, <1>12 DEF e

-----------------------------------------------------------------------------
(* A term and an index determine an entry *)

LEMMA VotesElectOneNext == TypeInv' /\ VoteInv' => ElectionSafety'
<1>1. TypeInv /\ VoteInv => ElectionSafety
  BY VotesElectOne
<1> QED
  BY <1>1, PTL

LEMMA InitEntries == Init => EntriesInv
<1> SUFFICES ASSUME Init PROVE EntriesInv
  OBVIOUS
<1>1. \A s \in Server : Log(s) = <<>>
  BY DEF Init, Log
<1>2. Placed = {}
  BY <1>1 DEF Init, Placed, InLogs, InAppends, InSnapshots
<1> QED
  BY <1>2 DEF EntriesInv

\* Steps that place nothing new and elect nobody.
LEMMA EntriesKept ==
  ASSUME EntriesInv, Placed' \subseteq Placed, elected \subseteq elected',
         \A p \in Server : status'[p] = Leader =>
           /\ status[p] = Leader /\ currentTerm'[p] = currentTerm[p]
           /\ Len(Log(p)') = Len(Log(p))
  PROVE  EntriesInv'
<1>1. \A x \in Placed' : \E s \in Server : <<x[2].term, s>> \in elected'
  BY DEF EntriesInv
<1>2. \A x, y \in Placed' : x[1] = y[1] /\ x[2].term = y[2].term => x[2] = y[2]
  BY DEF EntriesInv
<1>3. ASSUME NEW p \in Server, status'[p] = Leader, NEW x \in Placed', x[2].term = currentTerm'[p]
      PROVE  x[1] <= Len(Log(p)')
  <2>1. x[1] <= Len(Log(p))
    BY <1>3 DEF EntriesInv
  <2> QED
    BY <1>3, <2>1
<1> QED
  BY <1>1, <1>2, <1>3 DEF EntriesInv

\* Handlers in which a server at most follows a higher term.
LEMMA FollowEntries ==
  ASSUME TypeInv, EntriesInv, NEW s \in Server, NEW term \in Nat,
         Observe(s, term), elected' = elected, Placed' \subseteq Placed,
         \/ status' = [status EXCEPT ![s] = Follower]
         \/ status' = [status EXCEPT ![s] = IF term > currentTerm[s] THEN Follower ELSE @],
         \A p \in Server : status'[p] = Leader => Len(Log(p)') = Len(Log(p))
  PROVE  EntriesInv'
<1>1. currentTerm \in [Server -> Nat] /\ status \in [Server -> {Follower, Candidate, Leader}]
  BY DEF TypeInv, TypeOK, NodeType
<1>2. ASSUME NEW p \in Server, status'[p] = Leader
      PROVE  status[p] = Leader /\ currentTerm'[p] = currentTerm[p]
  <2>1. CASE p = s
    BY <1>1, <1>2, <2>1 DEF Observe, MaxOf, Follower, Leader
  <2>2. CASE p # s
    BY <1>1, <1>2, <2>2 DEF Observe, MaxOf
  <2> QED
    BY <2>1, <2>2
<1> QED
  BY <1>2, EntriesKept

LEMMA DoElectionEntries ==
  ASSUME TypeInv, EntriesInv, NEW s \in Server, DoElection(s)
  PROVE  EntriesInv'
<1>1. /\ currentTerm \in [Server -> Nat] /\ status \in [Server -> {Follower, Candidate, Leader}]
  BY DEF TypeInv, TypeOK, NodeType
<1>2. /\ logs' = logs /\ snapshot' = snapshot /\ appendReqs' = appendReqs /\ snapReqs' = snapReqs
      /\ elected' = elected
  BY DEF DoElection, logVars, callVars
<1>3. Placed' \subseteq Placed /\ \A p \in Server : Log(p)' = Log(p)
  BY <1>2, NothingPlaced DEF Log
<1>4. ASSUME NEW p \in Server, status'[p] = Leader
      PROVE  status[p] = Leader /\ currentTerm'[p] = currentTerm[p]
  <2>1. p # s
    BY <1>1, <1>4 DEF DoElection, Candidate, Leader
  <2> QED
    BY <1>1, <1>4, <2>1 DEF DoElection
<1> QED
  BY <1>2, <1>3, <1>4, EntriesKept

LEMMA HandleRequestVoteEntries ==
  ASSUME TypeInv, EntriesInv, NEW m \in voteReqs, HandleRequestVote(m)
  PROVE  EntriesInv'
<1>1. /\ currentTerm \in [Server -> Nat] /\ status \in [Server -> {Follower, Candidate, Leader}]
      /\ m.to \in Server /\ m.term \in Nat
  BY DEF TypeInv, TypeOK, NodeType, VoteType, VoteReq
<1>2. /\ logs' = logs /\ snapshot' = snapshot /\ appendReqs' = appendReqs /\ snapReqs' = snapReqs
      /\ elected' = elected
      /\ currentTerm' = [currentTerm EXCEPT ![m.to] = MaxOf(currentTerm[m.to], m.term)]
      /\ status' = [status EXCEPT ![m.to] = IF m.term > currentTerm[m.to] THEN Follower ELSE status[m.to]]
  BY DEF HandleRequestVote, logVars, callVars
<1>3. Placed' \subseteq Placed /\ \A p \in Server : Log(p)' = Log(p)
  BY <1>2, NothingPlaced DEF Log
<1>4. ASSUME NEW p \in Server, status'[p] = Leader
      PROVE  status[p] = Leader /\ currentTerm'[p] = currentTerm[p]
  <2>1. CASE p = m.to
    BY <1>1, <1>2, <1>4, <2>1 DEF MaxOf, Follower, Leader
  <2>2. CASE p # m.to
    BY <1>1, <1>2, <1>4, <2>2
  <2> QED
    BY <2>1, <2>2
<1> QED
  BY <1>2, <1>3, <1>4, EntriesKept

\* A server that wins a term has written nothing in it, and nobody else has.
LEMMA HandleRequestVoteReplyEntries ==
  ASSUME TypeInv, VoteInv, TypeInv', VoteInv', EntriesInv,
         NEW m \in voteReps, HandleRequestVoteReply(m)
  PROVE  EntriesInv'
<1> DEFINE s == m.to
           wins == m.term = currentTerm[s] /\ m.granted /\ votedNum[s] + 1 >= Majority
<1>1. /\ currentTerm \in [Server -> Nat] /\ status \in [Server -> {Follower, Candidate, Leader}]
      /\ s \in Server /\ m.term \in Nat /\ m.granted \in BOOLEAN /\ votedNum[s] \in Nat
      /\ elected \subseteq Nat \X Server
  BY DEF TypeInv, TypeOK, NodeType, VoteType, VoteRep
<1>2. /\ logs' = logs /\ snapshot' = snapshot /\ appendReqs' = appendReqs /\ snapReqs' = snapReqs
      /\ elected' = IF wins THEN elected \cup {<<m.term, s>>} ELSE elected
      /\ Observe(s, m.term)
      /\ status' = [status EXCEPT ![s] = CASE m.term > currentTerm[s] -> Follower
                                          [] wins -> Leader
                                          [] OTHER -> status[s]]
  BY DEF HandleRequestVoteReply, logVars, callVars
<1>3. Placed' \subseteq Placed /\ \A p \in Server : Log(p)' = Log(p)
  BY <1>2, NothingPlaced DEF Log
<1>4. ASSUME NEW p \in Server, status'[p] = Leader, ~(wins /\ p = s)
      PROVE  status[p] = Leader /\ currentTerm'[p] = currentTerm[p]
  <2>1. CASE p = s
    BY <1>1, <1>2, <1>4, <2>1 DEF Observe, MaxOf, Follower, Leader
  <2>2. CASE p # s
    BY <1>1, <1>2, <1>4, <2>2 DEF Observe
  <2> QED
    BY <2>1, <2>2
<1>5. CASE ~wins
  BY <1>2, <1>3, <1>4, <1>5, EntriesKept
<1>6. CASE wins
  <2>1. currentTerm'[s] = m.term /\ m.term = currentTerm[s] /\ elected' = elected \cup {<<m.term, s>>}
    BY <1>1, <1>2, <1>6 DEF Observe, MaxOf
  <2>2. \A x \in Placed' : x[2].term # currentTerm'[s]
    <3> SUFFICES ASSUME NEW x \in Placed, x[2].term = m.term
                 PROVE  FALSE
      BY <1>3, <2>1
    <3>1. PICK q \in Server : <<m.term, q>> \in elected
      BY DEF EntriesInv
    <3>2. ElectionSafety'
      BY VotesElectOneNext
    <3>3. q = s
      <4>1. <<m.term, q>> \in elected' /\ <<m.term, s>> \in elected'
        BY <2>1, <3>1
      <4> QED
        BY <3>2, <4>1 DEF ElectionSafety
    <3>4. votedNum[s] + 1 < Majority
      BY <1>6, <2>1, <3>1, <3>3, VotesLeft
    <3> QED
      BY <1>1, <1>6, <3>4, MajorityType
  <2>3. \A x \in Placed' : \E q \in Server : <<x[2].term, q>> \in elected'
    BY <1>3, <2>1 DEF EntriesInv
  <2>4. \A x, y \in Placed' : x[1] = y[1] /\ x[2].term = y[2].term => x[2] = y[2]
    BY <1>3 DEF EntriesInv
  <2>5. ASSUME NEW p \in Server, status'[p] = Leader, NEW x \in Placed', x[2].term = currentTerm'[p]
        PROVE  x[1] <= Len(Log(p)')
    <3>1. p # s
      BY <2>2, <2>5
    <3>2. status[p] = Leader /\ currentTerm'[p] = currentTerm[p] /\ x \in Placed /\ Log(p)' = Log(p)
      BY <1>3, <1>4, <2>5, <3>1
    <3>3. x[1] <= Len(Log(p))
      BY <2>5, <3>2 DEF EntriesInv
    <3> QED
      BY <3>2, <3>3
  <2> QED
    BY <2>3, <2>4, <2>5 DEF EntriesInv
<1> QED
  BY <1>5, <1>6

LEMMA PlacedType ==
  ASSUME TypeInv
  PROVE  \A x \in Placed : x[1] \in Nat
<1>1. /\ \A s \in Server : Log(s) \in Seq(Entry)
      /\ \A m \in appendReqs : m.prev \in Nat /\ m.entries \in Seq(Entry)
      /\ \A m \in snapReqs : m.data \in Seq(Entry)
  BY LogAt DEF TypeInv, TypeOK, LogType, CallType, AppendReq, SnapReq, Log
<1>2. \A x \in InLogs : x[1] \in Nat
  BY <1>1, LenProperties DEF InLogs
<1>3. \A x \in InAppends : x[1] \in Nat
  BY <1>1, LenProperties DEF InAppends
<1>4. \A x \in InSnapshots : x[1] \in Nat
  BY <1>1, LenProperties DEF InSnapshots
<1> QED
  BY <1>2, <1>3, <1>4 DEF Placed

\* The new entry of a leader is the only one of its term at its index.
LEMMA StartEntries ==
  ASSUME TypeInv, VoteInv, EntriesInv, NEW s \in Server, NEW v \in Value, Start(s, v)
  PROVE  EntriesInv'
<1> DEFINE n == Len(Log(s)) + 1
           e == [term |-> currentTerm[s], command |-> v]
<1>1. /\ Placed' \subseteq Placed \cup {<<n, e>>}
      /\ Len(Log(s)) \in Nat /\ Len(Log(s)') = n
      /\ \A p \in Server \ {s} : Log(p)' = Log(p)
  BY StartPlaced
<1>2. /\ status[s] = Leader /\ currentTerm' = currentTerm /\ status' = status
      /\ elected' = elected
  BY DEF Start, nodeVars, voteVars
<1>3. <<currentTerm[s], s>> \in elected
  BY <1>2 DEF VoteInv, ElectedInv
<1>4. e.term = currentTerm[s]
  OBVIOUS
<1> HIDE DEF e
<1>5. \A x \in Placed : x[1] = n => x[2].term # currentTerm[s]
  <2>1. \A x \in Placed : x[2].term = currentTerm[s] => x[1] <= Len(Log(s))
    BY <1>2 DEF EntriesInv
  <2> QED
    BY <1>1, <2>1
<1> HIDE DEF n
<1>6. \A x \in Placed' : x \in Placed \/ (x[1] = n /\ x[2] = e)
  BY <1>1
<1>7. \A x \in Placed' : \E q \in Server : <<x[2].term, q>> \in elected'
  BY <1>2, <1>3, <1>4, <1>6 DEF EntriesInv
<1>8. \A x, y \in Placed' : x[1] = y[1] /\ x[2].term = y[2].term => x[2] = y[2]
  <2> SUFFICES ASSUME NEW x \in Placed', NEW y \in Placed', x[1] = y[1], x[2].term = y[2].term
               PROVE  x[2] = y[2]
    OBVIOUS
  <2>1. CASE x \in Placed /\ y \in Placed
    BY <2>1 DEF EntriesInv
  <2>2. CASE x \notin Placed
    BY <1>4, <1>5, <1>6, <2>2
  <2>3. CASE y \notin Placed
    BY <1>4, <1>5, <1>6, <2>3
  <2> QED
    BY <2>1, <2>2, <2>3
<1>9. ASSUME NEW p \in Server, status'[p] = Leader, NEW x \in Placed', x[2].term = currentTerm'[p]
      PROVE  x[1] <= Len(Log(p)')
  <2>1. status[p] = Leader /\ x[2].term = currentTerm[p] /\ <<currentTerm[p], p>> \in elected
    BY <1>2, <1>9 DEF VoteInv, ElectedInv
  <2>2. CASE x \in Placed
    <3>1. x[1] <= Len(Log(p)) /\ x[1] \in Nat
      BY <2>1, <2>2, PlacedType DEF EntriesInv
    <3>2. CASE p = s
      BY <1>1, <3>1, <3>2 DEF n
    <3>3. CASE p # s
      <4>1. Log(p)' = Log(p)
        BY <1>1, <3>3
      <4> QED
        BY <3>1, <4>1
    <3> QED
      BY <3>2, <3>3
  <2>3. CASE x \notin Placed
    <3>1. x[1] = n /\ x[2] = e
      BY <1>6, <2>3
    <3>2. ElectionSafety /\ <<currentTerm[p], s>> \in elected
      BY <1>3, <1>4, <2>1, <3>1, VotesElectOne
    <3>3. p = s
      BY <2>1, <3>2 DEF ElectionSafety
    <3> QED
      BY <1>1, <3>1, <3>3 DEF n
  <2> QED
    BY <2>2, <2>3
<1> QED
  BY <1>7, <1>8, <1>9 DEF EntriesInv

\* Steps that change no term, no log and no role.
LEMMA SameEntries ==
  ASSUME EntriesInv, elected' = elected, UNCHANGED <<currentTerm, status>>,
         Placed' \subseteq Placed, \A p \in Server : Len(Log(p)') = Len(Log(p))
  PROVE  EntriesInv'
  BY EntriesKept

LEMMA HandleAppendEntriesEntries ==
  ASSUME TypeInv, EntriesInv, NEW m \in appendReqs, HandleAppendEntries(m)
  PROVE  EntriesInv'
<1> DEFINE s == m.to
<1>1. s \in Server /\ m.term \in Nat
  BY DEF TypeInv, TypeOK, CallType, AppendReq
<1>2. /\ Observe(s, m.term) /\ elected' = elected
      /\ status' = [status EXCEPT ![s] = Follower]
      /\ snapshot' = snapshot /\ \A p \in Server \ {s} : logs'[p] = logs[p]
  BY <1>1 DEF HandleAppendEntries, voteVars, TypeInv, TypeOK, LogType
<1>3. \A p \in Server : status'[p] = Leader => Len(Log(p)') = Len(Log(p))
  <2> SUFFICES ASSUME NEW p \in Server, status'[p] = Leader
               PROVE  Len(Log(p)') = Len(Log(p))
    OBVIOUS
  <2>1. p # s
    BY <1>1, <1>2 DEF Follower, Leader, TypeInv, TypeOK, NodeType
  <2> QED
    BY <1>2, <2>1 DEF Log
<1> QED
  BY <1>1, <1>2, <1>3, HandleAppendEntriesPlaced, FollowEntries

LEMMA HandleInstallSnapshotEntries ==
  ASSUME TypeInv, EntriesInv, NEW m \in snapReqs, HandleInstallSnapshot(m)
  PROVE  EntriesInv'
<1> DEFINE s == m.to
           current == m.term >= currentTerm[s]
<1>1. /\ s \in Server /\ m.term \in Nat /\ currentTerm \in [Server -> Nat]
      /\ status \in [Server -> {Follower, Candidate, Leader}]
      /\ logs \in [Server -> Seq(Entry)] /\ snapshot \in [Server -> Seq(Entry)]
  BY DEF TypeInv, TypeOK, NodeType, LogType, CallType, SnapReq
<1>2. /\ Observe(s, m.term) /\ elected' = elected
      /\ status' = [status EXCEPT ![s] = IF current THEN Follower ELSE status[s]]
      /\ \A p \in Server : p # s \/ ~current => logs'[p] = logs[p] /\ snapshot'[p] = snapshot[p]
  BY <1>1 DEF HandleInstallSnapshot, voteVars
<1>3. \A p \in Server : status'[p] = Leader =>
        /\ status[p] = Leader /\ currentTerm'[p] = currentTerm[p]
        /\ Len(Log(p)') = Len(Log(p))
  <2> SUFFICES ASSUME NEW p \in Server, status'[p] = Leader
               PROVE  /\ status[p] = Leader /\ currentTerm'[p] = currentTerm[p]
                      /\ Len(Log(p)') = Len(Log(p))
    OBVIOUS
  <2>1. CASE p = s
    <3>1. ~current /\ status[p] = Leader
      BY <1>1, <1>2, <2>1 DEF Follower, Leader
    <3>2. currentTerm'[p] = currentTerm[p]
      BY <1>1, <1>2, <2>1, <3>1 DEF Observe, MaxOf
    <3> QED
      BY <1>2, <3>1, <3>2 DEF Log
  <2>2. CASE p # s
    BY <1>1, <1>2, <2>2 DEF Log, Observe
  <2> QED
    BY <2>1, <2>2
<1> QED
  BY <1>2, <1>3, HandleInstallSnapshotPlaced, EntriesKept

LEMMA NextEntries ==
  ASSUME TypeInv, VoteInv, TypeInv', VoteInv', EntriesInv, [Next]_vars
  PROVE  EntriesInv'
<1> USE DEF logVars, callVars, nodeVars, voteVars
<1>1. ASSUME UNCHANGED <<logs, snapshot>>
      PROVE  \A p \in Server : Len(Log(p)') = Len(Log(p))
  BY <1>1 DEF Log
<1>2. ASSUME NEW s \in Server, DoElection(s) PROVE EntriesInv'
  BY <1>2, DoElectionEntries
<1>3. ASSUME NEW m \in voteReqs, HandleRequestVote(m) PROVE EntriesInv'
  BY <1>3, HandleRequestVoteEntries
<1>4. ASSUME NEW m \in voteReps, HandleRequestVoteReply(m) PROVE EntriesInv'
  BY <1>4, HandleRequestVoteReplyEntries
<1>5. ASSUME NEW s \in Server, NEW v \in Value, Start(s, v) PROVE EntriesInv'
  BY <1>5, StartEntries
<1>6. ASSUME NEW s \in Server, DoHeartBeat(s) PROVE EntriesInv'
  <2>1. elected' = elected /\ UNCHANGED <<currentTerm, status, logs, snapshot>>
    BY <1>6 DEF DoHeartBeat
  <2> QED
    BY <1>1, <1>6, <2>1, DoHeartBeatPlaced, SameEntries
<1>7. ASSUME NEW m \in appendReqs, RejectStaleAppend(m) PROVE EntriesInv'
  <2>1. /\ elected' = elected /\ UNCHANGED <<currentTerm, status, logs, snapshot, snapReqs>>
        /\ appendReqs' \subseteq appendReqs
    BY <1>7 DEF RejectStaleAppend
  <2> QED
    BY <1>1, <2>1, NothingPlaced, SameEntries
<1>8. ASSUME NEW m \in appendReqs, HandleAppendEntries(m) PROVE EntriesInv'
  BY <1>8, HandleAppendEntriesEntries
<1>9. ASSUME NEW m \in appendReps, HandleAppendRefusal(m) PROVE EntriesInv'
  <2>1. m.to \in Server /\ m.term \in Nat
    BY DEF TypeInv, TypeOK, CallType, AppendRep
  <2>2. /\ elected' = elected /\ UNCHANGED <<logs, snapshot, appendReqs, snapReqs>>
        /\ Observe(m.to, m.term)
        /\ status' = [status EXCEPT ![m.to] = IF m.term > currentTerm[m.to] THEN Follower ELSE @]
    BY <1>9 DEF HandleAppendRefusal
  <2>3. Placed' \subseteq Placed
    BY <2>2, NothingPlaced
  <2> QED
    BY <1>1, <2>1, <2>2, <2>3, FollowEntries
<1>10. ASSUME NEW m \in appendReps, HandleAppendSuccess(m) PROVE EntriesInv'
  <2>1. m.to \in Server /\ m.term \in Nat
    BY DEF TypeInv, TypeOK, CallType, AppendRep
  <2>2. /\ elected' = elected /\ UNCHANGED <<logs, snapshot, appendReqs, snapReqs>>
        /\ Observe(m.to, m.term)
        /\ status' = [status EXCEPT ![m.to] = IF m.term > currentTerm[m.to] THEN Follower ELSE @]
    BY <1>10 DEF HandleAppendSuccess
  <2>3. Placed' \subseteq Placed
    BY <2>2, NothingPlaced
  <2> QED
    BY <1>1, <2>1, <2>2, <2>3, FollowEntries
<1>11. ASSUME NEW s \in Server, ApplierTick(s) PROVE EntriesInv'
  <2>1. elected' = elected /\ UNCHANGED <<currentTerm, status, logs, snapshot, appendReqs, snapReqs>>
    BY <1>11 DEF ApplierTick
  <2> QED
    BY <1>1, <2>1, NothingPlaced, SameEntries
<1>12. ASSUME NEW s \in Server, NEW index \in 1 .. MaxLog, Snapshot(s, index) PROVE EntriesInv'
  <2>1. index \in Nat
    OBVIOUS
  <2>2. elected' = elected /\ UNCHANGED <<currentTerm, status>>
    BY <1>12 DEF Snapshot
  <2> QED
    BY <1>12, <2>1, <2>2, SnapshotPlaced, SameEntries
<1>13. ASSUME NEW s \in Server, NEW p \in Server, SendSnapShot(s, p) PROVE EntriesInv'
  <2>1. elected' = elected /\ UNCHANGED <<currentTerm, status, logs, snapshot>>
    BY <1>13 DEF SendSnapShot
  <2> QED
    BY <1>1, <1>13, <2>1, SendSnapShotPlaced, SameEntries
<1>14. ASSUME NEW m \in snapReqs, HandleInstallSnapshot(m) PROVE EntriesInv'
  BY <1>14, HandleInstallSnapshotEntries
<1>15. ASSUME NEW m \in snapReps, HandleInstallSnapshotReply(m) PROVE EntriesInv'
  <2> DEFINE s == m.to
             leads == status[s] = Leader /\ currentTerm[s] = m.sentTerm
  <2>1. s \in Server /\ m.term \in Nat /\ status \in [Server -> {Follower, Candidate, Leader}]
    BY DEF TypeInv, TypeOK, NodeType, CallType, SnapRep
  <2>2. elected' = elected /\ UNCHANGED <<logs, snapshot, appendReqs, snapReqs>>
    BY <1>15 DEF HandleInstallSnapshotReply
  <2>3. Placed' \subseteq Placed
    BY <2>2, NothingPlaced
  <2>4. CASE leads
    <3>1. /\ Observe(s, m.term)
          /\ status' = [status EXCEPT ![s] = IF m.term > currentTerm[s] THEN Follower ELSE @]
      BY <1>15, <2>4 DEF HandleInstallSnapshotReply
    <3> QED
      BY <1>1, <2>1, <2>2, <2>3, <3>1, FollowEntries
  <2>5. CASE ~leads
    <3>1. UNCHANGED <<currentTerm, status>>
      BY <1>15, <2>1, <2>5 DEF HandleInstallSnapshotReply
    <3> QED
      BY <1>1, <2>2, <2>3, <3>1, SameEntries
  <2> QED
    BY <2>4, <2>5
<1>16. CASE LoseCall
  <2>1. /\ elected' = elected /\ UNCHANGED <<currentTerm, status, logs, snapshot>>
        /\ appendReqs' \subseteq appendReqs /\ snapReqs' \subseteq snapReqs
    BY <1>16 DEF LoseCall
  <2> QED
    BY <1>1, <2>1, NothingPlaced, SameEntries
<1>17. CASE UNCHANGED vars
  <2>1. elected' = elected /\ UNCHANGED <<currentTerm, status, logs, snapshot, appendReqs, snapReqs>>
    BY <1>17 DEF vars
  <2> QED
    BY <1>1, <2>1, NothingPlaced, SameEntries
<1> QED
  BY <1>2, <1>3, <1>4, <1>5, <1>6, <1>7, <1>8, <1>9, <1>10, <1>11, <1>12, <1>13, <1>14,
     <1>15, <1>16, <1>17 DEF Next

LEMMA EntriesInvariant == Spec => []EntriesInv
<1>1. TypeInv /\ VoteInv /\ TypeInv' /\ VoteInv' /\ EntriesInv /\ [Next]_vars => EntriesInv'
  BY NextEntries
<1> QED
  BY <1>1, InitEntries, TypeInvariant, VotesConsistent, PTL DEF Spec

LEMMA EntriesAgree ==
  ASSUME TypeInv, EntriesInv
  PROVE  EntryUnique
<1> SUFFICES ASSUME NEW s \in Server, NEW p \in Server,
                    NEW k \in 1 .. MinOf(Len(Log(s)), Len(Log(p))),
                    Log(s)[k].term = Log(p)[k].term
             PROVE  Log(s)[k] = Log(p)[k]
  BY DEF EntryUnique
<1>1. \A q \in Server : Len(Log(q)) \in Nat
  BY LogAt DEF TypeInv, TypeOK, LogType, Log
<1>2. k \in 1 .. Len(Log(s)) /\ k \in 1 .. Len(Log(p))
  BY <1>1 DEF MinOf
<1>3. <<k, Log(s)[k]>> \in Placed /\ <<k, Log(p)[k]>> \in Placed
  BY <1>2, InPlaced
<1> QED
  BY <1>3 DEF EntriesInv

\* Two servers that hold entries of one term at one index hold the same command,
\* whatever was overwritten, compacted or installed in between.
THEOREM EntriesUnique == Spec => []EntryUnique
  BY EntriesAgree, EntriesInvariant, TypeInvariant, PTL

-----------------------------------------------------------------------------
(* No snapshots *)

LEMMA InitLead == Init => SendersInv /\ NoSnapshotsInv
  BY DEF Init, SendersInv, NoSnapshotsInv

\* A node whose log is not compacted finds a nextIndex of 0 out of range.
LEMMA NextNoSnapshots ==
  ASSUME Snapshots = FALSE, TypeInv, NoSnapshotsInv, [Next]_vars
  PROVE  NoSnapshotsInv' /\ snapshot' = snapshot
<1> USE DEF NoSnapshotsInv, nodeVars, logVars, leadVars, voteVars, callVars
<1>1. ASSUME NEW s \in Server, DoHeartBeat(s)
      PROVE  NoSnapshotsInv' /\ snapshot' = snapshot
  <2> DEFINE inRange == \A p \in Peers(s) : nextIndex[s][p] \in 1 .. LastLogIndex(s) + 1
             behind == {p \in Peers(s) : nextIndex[s][p] <= Base(s)}
  <2>1. /\ UNCHANGED <<snapshot, snapReqs, snapReps>>
        /\ snapThreads' = snapThreads \cup {<<s, p>> : p \in behind}
        /\ exited' = IF inRange THEN exited ELSE exited \cup {s}
    BY <1>1 DEF DoHeartBeat, MyAssert
  <2>2. Base(s) = 0
    BY EmptySeq DEF Base
  <2>3. ASSUME NEW p \in behind
        PROVE  s \in exited'
    <3>1. nextIndex[s][p] \in Nat
      BY DEF Peers, TypeInv, TypeOK, LeadType
    <3>2. ~(nextIndex[s][p] \in 1 .. LastLogIndex(s) + 1)
      BY <2>2, <2>3, <3>1
    <3>3. ~inRange
      BY <3>2
    <3> QED
      BY <2>1, <3>3
  <2>4. exited \subseteq exited'
    BY <2>1
  <2>5. \A x \in snapThreads' : x[1] \in exited'
    BY <2>1, <2>3, <2>4
  <2> QED
    BY <2>1, <2>5
<1>2. ASSUME NEW s \in Server, NEW p \in Server, SendSnapShot(s, p)
      PROVE  FALSE
  BY <1>2 DEF SendSnapShot, Running
<1>3. ASSUME UNCHANGED <<snapshot, snapThreads, snapReqs, snapReps>>, exited \subseteq exited'
      PROVE  NoSnapshotsInv' /\ snapshot' = snapshot
  BY <1>3
<1>4. ASSUME NEW s \in Server, DoElection(s)
      PROVE  NoSnapshotsInv' /\ snapshot' = snapshot
  BY <1>3, <1>4 DEF DoElection
<1>5. ASSUME NEW m \in voteReqs, HandleRequestVote(m)
      PROVE  NoSnapshotsInv' /\ snapshot' = snapshot
  BY <1>3, <1>5 DEF HandleRequestVote
<1>6. ASSUME NEW m \in voteReps, HandleRequestVoteReply(m)
      PROVE  NoSnapshotsInv' /\ snapshot' = snapshot
  BY <1>3, <1>6 DEF HandleRequestVoteReply, MyAssert
<1>7. ASSUME NEW s \in Server, NEW v \in Value, Start(s, v)
      PROVE  NoSnapshotsInv' /\ snapshot' = snapshot
  BY <1>3, <1>7 DEF Start
<1>8. ASSUME NEW m \in appendReqs, RejectStaleAppend(m)
      PROVE  NoSnapshotsInv' /\ snapshot' = snapshot
  BY <1>3, <1>8 DEF RejectStaleAppend
<1>9. ASSUME NEW m \in appendReqs, HandleAppendEntries(m)
      PROVE  NoSnapshotsInv' /\ snapshot' = snapshot
  BY <1>3, <1>9 DEF HandleAppendEntries, MyAssert
<1>10. ASSUME NEW m \in appendReps, HandleAppendRefusal(m)
       PROVE  NoSnapshotsInv' /\ snapshot' = snapshot
  BY <1>3, <1>10 DEF HandleAppendRefusal
<1>11. ASSUME NEW m \in appendReps, HandleAppendSuccess(m)
       PROVE  NoSnapshotsInv' /\ snapshot' = snapshot
  BY <1>3, <1>11 DEF HandleAppendSuccess, MyAssert
<1>12. ASSUME NEW s \in Server, ApplierTick(s)
       PROVE  NoSnapshotsInv' /\ snapshot' = snapshot
  BY <1>3, <1>12 DEF ApplierTick, MyAssert
<1>13. ASSUME NEW s \in Server, NEW index, Snapshot(s, index)
       PROVE  FALSE
  BY <1>13 DEF Snapshot
<1>14. CASE LoseCall
  <2>1. UNCHANGED <<snapshot, snapThreads, exited>> /\ snapReqs' \subseteq snapReqs /\ snapReps' \subseteq snapReps
    BY <1>14 DEF LoseCall
  <2> QED
    BY <2>1
<1>15. CASE UNCHANGED vars
  BY <1>3, <1>15 DEF vars
<1> QED
  BY <1>1, <1>2, <1>4, <1>5, <1>6, <1>7, <1>8, <1>9, <1>10, <1>11, <1>12, <1>13, <1>14, <1>15 DEF Next

-----------------------------------------------------------------------------
(* Senders *)

\* Calls go away and elections stay won.
LEMMA SameSenders ==
  ASSUME SendersInv, appendReqs' \subseteq appendReqs, elected \subseteq elected'
  PROVE  SendersInv'
  BY DEF SendersInv

LEMMA NextSenders ==
  ASSUME TypeInv, VoteInv, SendersInv, [Next]_vars
  PROVE  SendersInv'
<1> USE DEF voteVars, callVars
<1>1. ASSUME NEW s \in Server, DoHeartBeat(s)
      PROVE  SendersInv'
  <2>1. status[s] = Leader /\ elected' = elected
    BY <1>1 DEF DoHeartBeat
  <2>2. \A m \in appendReqs' : m \in appendReqs \/ \E p \in Peers(s) : m = AppendArgs(s, p)
    BY <1>1 DEF DoHeartBeat
  <2>3. \A p \in Peers(s) : /\ AppendArgs(s, p).term = currentTerm[s]
                            /\ AppendArgs(s, p).from = s
                            /\ AppendArgs(s, p).to = p
    BY DEF AppendArgs
  <2>4. <<currentTerm[s], s>> \in elected /\ \A p \in Peers(s) : s # p
    BY <2>1 DEF VoteInv, ElectedInv, Peers
  <2> QED
    BY <2>1, <2>2, <2>3, <2>4 DEF SendersInv
<1>2. ASSUME NEW s \in Server, DoElection(s) PROVE SendersInv'
  BY <1>2, SameSenders DEF DoElection
<1>3. ASSUME NEW m \in voteReqs, HandleRequestVote(m) PROVE SendersInv'
  BY <1>3, SameSenders DEF HandleRequestVote
<1>4. ASSUME NEW m \in voteReps, HandleRequestVoteReply(m) PROVE SendersInv'
  <2>1. appendReqs' = appendReqs /\ elected \subseteq elected'
    BY <1>4 DEF HandleRequestVoteReply
  <2> QED
    BY <2>1, SameSenders
<1>5. ASSUME NEW s \in Server, NEW v \in Value, Start(s, v) PROVE SendersInv'
  BY <1>5, SameSenders DEF Start
<1>6. ASSUME NEW m \in appendReqs, RejectStaleAppend(m) PROVE SendersInv'
  BY <1>6, SameSenders DEF RejectStaleAppend
<1>7. ASSUME NEW m \in appendReqs, HandleAppendEntries(m) PROVE SendersInv'
  <2>1. appendReqs' \subseteq appendReqs /\ elected' = elected
    BY <1>7 DEF HandleAppendEntries
  <2> QED
    BY <2>1, SameSenders
<1>8. ASSUME NEW m \in appendReps, HandleAppendRefusal(m) PROVE SendersInv'
  BY <1>8, SameSenders DEF HandleAppendRefusal
<1>9. ASSUME NEW m \in appendReps, HandleAppendSuccess(m) PROVE SendersInv'
  <2>1. appendReqs' = appendReqs /\ elected' = elected
    BY <1>9 DEF HandleAppendSuccess
  <2> QED
    BY <2>1, SameSenders
<1>10. ASSUME NEW s \in Server, ApplierTick(s) PROVE SendersInv'
  BY <1>10, SameSenders DEF ApplierTick
<1>11. ASSUME NEW s \in Server, NEW index, Snapshot(s, index) PROVE SendersInv'
  BY <1>11, SameSenders DEF Snapshot
<1>12. ASSUME NEW s \in Server, NEW p \in Server, SendSnapShot(s, p) PROVE SendersInv'
  BY <1>12, SameSenders DEF SendSnapShot
<1>13. ASSUME NEW m \in snapReqs, HandleInstallSnapshot(m) PROVE SendersInv'
  BY <1>13, SameSenders DEF HandleInstallSnapshot
<1>14. ASSUME NEW m \in snapReps, HandleInstallSnapshotReply(m) PROVE SendersInv'
  BY <1>14, SameSenders DEF HandleInstallSnapshotReply
<1>15. CASE LoseCall
  <2>1. appendReqs' \subseteq appendReqs /\ elected' = elected
    BY <1>15 DEF LoseCall
  <2> QED
    BY <2>1, SameSenders
<1>16. CASE UNCHANGED vars
  BY <1>16, SameSenders DEF vars
<1> QED
  BY <1>1, <1>2, <1>3, <1>4, <1>5, <1>6, <1>7, <1>8, <1>9, <1>10, <1>11, <1>12, <1>13,
     <1>14, <1>15, <1>16 DEF Next

LEMMA SendersInvariant == Spec => []SendersInv
<1>1. TypeInv /\ VoteInv /\ SendersInv /\ [Next]_vars => SendersInv'
  BY NextSenders
<1> QED
  BY <1>1, InitLead, TypeInvariant, VotesConsistent, PTL DEF Spec

LEMMA NoSnapshotsInvariant ==
  ASSUME Snapshots = FALSE
  PROVE  Spec => []NoSnapshotsInv
<1>1. TypeInv /\ NoSnapshotsInv /\ [Next]_vars => NoSnapshotsInv'
  BY NextNoSnapshots
<1> QED
  BY <1>1, InitLead, TypeInvariant, PTL DEF Spec

-----------------------------------------------------------------------------
(* Leaders *)

\* An AppendEntries of a leader's own term never reaches it: only it sends them.
LEMMA NotFromOther ==
  ASSUME TypeInv, VoteInv, SendersInv, NEW m \in appendReqs, status[m.to] = Leader
  PROVE  m.term # currentTerm[m.to]
<1> SUFFICES ASSUME m.term = currentTerm[m.to]
             PROVE  FALSE
  OBVIOUS
<1>1. m.to \in Server /\ m.from \in Server
  BY DEF TypeInv, TypeOK, CallType, AppendReq
<1>2. <<m.term, m.to>> \in elected /\ <<m.term, m.from>> \in elected /\ m.from # m.to
  BY <1>1 DEF VoteInv, ElectedInv, SendersInv
<1>3. ElectionSafety
  BY VotesElectOne
<1> QED
  BY <1>2, <1>3 DEF ElectionSafety

\* What a step does to a leader: Start extends its log, a higher term ends its
\* leadership, and nothing else touches either.
LeadsOn(q) ==
  /\ currentTerm[q] <= currentTerm'[q]
  /\ status[q] = Leader =>
       /\ status'[q] # Leader => currentTerm[q] < currentTerm'[q]
       /\ currentTerm'[q] = currentTerm[q] =>
            logs'[q] = logs[q] \/ \E e \in Entry : logs'[q] = Append(logs[q], e)

LEMMA FollowLeads ==
  ASSUME TypeInv, NEW s \in Server, NEW term \in Nat, Observe(s, term), logs' = logs,
         status' = [status EXCEPT ![s] = IF term > currentTerm[s] THEN Follower ELSE @]
  PROVE  \A q \in Server : LeadsOn(q)
<1>1. currentTerm \in [Server -> Nat] /\ status \in [Server -> {Follower, Candidate, Leader}]
  BY DEF TypeInv, TypeOK, NodeType
<1> SUFFICES ASSUME NEW q \in Server PROVE LeadsOn(q)
  OBVIOUS
<1>2. CASE q = s
  BY <1>1, <1>2 DEF LeadsOn, Observe, MaxOf
<1>3. CASE q # s
  BY <1>1, <1>3 DEF LeadsOn, Observe, MaxOf
<1> QED
  BY <1>2, <1>3

LEMMA SameLeads ==
  ASSUME TypeInv, UNCHANGED <<currentTerm, status, logs>>
  PROVE  \A q \in Server : LeadsOn(q)
  BY DEF LeadsOn, TypeInv, TypeOK, NodeType

LEMMA NextLeads ==
  ASSUME Snapshots = FALSE, TypeInv, VoteInv, SendersInv, NoSnapshotsInv, [Next]_vars
  PROVE  \A q \in Server : LeadsOn(q)
<1> USE DEF nodeVars, logVars
<1>1. /\ currentTerm \in [Server -> Nat] /\ status \in [Server -> {Follower, Candidate, Leader}]
      /\ logs \in [Server -> Seq(Entry)]
  BY DEF TypeInv, TypeOK, NodeType, LogType
<1>2. ASSUME NEW s \in Server, DoElection(s), NEW q \in Server PROVE LeadsOn(q)
  BY <1>1, <1>2 DEF DoElection, LeadsOn
<1>3. ASSUME NEW m \in voteReqs, HandleRequestVote(m), NEW q \in Server PROVE LeadsOn(q)
  <2>1. m.to \in Server /\ m.term \in Nat
    BY DEF TypeInv, TypeOK, VoteType, VoteReq
  <2>2. /\ currentTerm' = [currentTerm EXCEPT ![m.to] = MaxOf(@, m.term)]
        /\ status' = [status EXCEPT ![m.to] = IF m.term > currentTerm[m.to] THEN Follower ELSE @]
        /\ logs' = logs
    BY <1>3 DEF HandleRequestVote
  <2> QED
    BY <1>1, <2>1, <2>2 DEF LeadsOn, MaxOf
<1>4. ASSUME NEW m \in voteReps, HandleRequestVoteReply(m), NEW q \in Server PROVE LeadsOn(q)
  <2>1. m.to \in Server /\ m.term \in Nat
    BY DEF TypeInv, TypeOK, VoteType, VoteRep
  <2>2. /\ Observe(m.to, m.term) /\ logs' = logs
        /\ \A p \in Server \ {m.to} : status'[p] = status[p]
        /\ \/ m.term > currentTerm[m.to]
           \/ status'[m.to] \in {Leader, status[m.to]}
    BY <1>1, <1>4, <2>1 DEF HandleRequestVoteReply
  <2> QED
    BY <1>1, <2>1, <2>2 DEF LeadsOn, Observe, MaxOf
<1>5. ASSUME NEW s \in Server, NEW v \in Value, Start(s, v), NEW q \in Server PROVE LeadsOn(q)
  <2> DEFINE e == [term |-> currentTerm[s], command |-> v]
  <2>1. e \in Entry
    BY <1>1 DEF Entry
  <2>2. logs' = [logs EXCEPT ![s] = Append(logs[s], e)] /\ UNCHANGED <<currentTerm, status>>
    BY <1>5 DEF Start
  <2> HIDE DEF e
  <2>3. logs'[q] = logs[q] \/ logs'[q] = Append(logs[q], e)
    BY <1>1, <2>2
  <2> QED
    BY <1>1, <2>1, <2>2, <2>3 DEF LeadsOn
<1>6. ASSUME NEW s \in Server, DoHeartBeat(s), NEW q \in Server PROVE LeadsOn(q)
  BY <1>6, SameLeads DEF DoHeartBeat
<1>7. ASSUME NEW m \in appendReqs, RejectStaleAppend(m), NEW q \in Server PROVE LeadsOn(q)
  BY <1>7, SameLeads DEF RejectStaleAppend
<1>8. ASSUME NEW m \in appendReqs, HandleAppendEntries(m), NEW q \in Server PROVE LeadsOn(q)
  <2>1. m.to \in Server /\ m.term \in Nat
    BY DEF TypeInv, TypeOK, CallType, AppendReq
  <2>2. /\ Observe(m.to, m.term) /\ ~(m.term < currentTerm[m.to])
        /\ \A p \in Server \ {m.to} : status'[p] = status[p] /\ logs'[p] = logs[p]
    BY <1>1, <1>8, <2>1 DEF HandleAppendEntries, StaleTerm
  <2>3. CASE q = m.to
    <3>1. status[q] = Leader => m.term # currentTerm[q]
      BY <2>3, NotFromOther
    <3> QED
      BY <1>1, <2>1, <2>2, <2>3, <3>1 DEF LeadsOn, Observe, MaxOf
  <2>4. CASE q # m.to
    BY <1>1, <2>1, <2>2, <2>4 DEF LeadsOn, Observe, MaxOf
  <2> QED
    BY <2>3, <2>4
<1>9. ASSUME NEW m \in appendReps, HandleAppendRefusal(m), NEW q \in Server PROVE LeadsOn(q)
  <2>1. m.to \in Server /\ m.term \in Nat
    BY DEF TypeInv, TypeOK, CallType, AppendRep
  <2> QED
    BY <1>9, <2>1, FollowLeads DEF HandleAppendRefusal
<1>10. ASSUME NEW m \in appendReps, HandleAppendSuccess(m), NEW q \in Server PROVE LeadsOn(q)
  <2>1. m.to \in Server /\ m.term \in Nat
    BY DEF TypeInv, TypeOK, CallType, AppendRep
  <2> QED
    BY <1>10, <2>1, FollowLeads DEF HandleAppendSuccess
<1>11. ASSUME NEW s \in Server, ApplierTick(s), NEW q \in Server PROVE LeadsOn(q)
  BY <1>11, SameLeads DEF ApplierTick
<1>12. ASSUME NEW s \in Server, NEW index, Snapshot(s, index) PROVE FALSE
  BY <1>12 DEF Snapshot
<1>13. ASSUME NEW s \in Server, NEW p \in Server, SendSnapShot(s, p), NEW q \in Server PROVE LeadsOn(q)
  BY <1>13, SameLeads DEF SendSnapShot
<1>14. snapReqs = {} /\ snapReps = {}
  BY DEF NoSnapshotsInv
<1>15. ASSUME LoseCall, NEW q \in Server PROVE LeadsOn(q)
  BY <1>15, SameLeads DEF LoseCall
<1>16. ASSUME UNCHANGED vars, NEW q \in Server PROVE LeadsOn(q)
  BY <1>16, SameLeads DEF vars
<1> QED
  BY <1>2, <1>3, <1>4, <1>5, <1>6, <1>7, <1>8, <1>9, <1>10, <1>11, <1>12, <1>13, <1>14,
     <1>15, <1>16 DEF Next

\* What StepDownForHigherTerm says of a step.
LEMMA NextStepsDown ==
  ASSUME Snapshots = FALSE, TypeInv, VoteInv, SendersInv, NoSnapshotsInv, [Next]_vars,
         NEW s \in Server, status[s] = Leader, status'[s] # Leader
  PROVE  currentTerm'[s] > currentTerm[s]
<1>1. LeadsOn(s)
  BY NextLeads
<1>2. currentTerm[s] \in Nat /\ currentTerm'[s] \in Nat
  BY NextType DEF TypeInv, TypeOK, NodeType
<1> QED
  BY <1>1, <1>2 DEF LeadsOn

\* Where no snapshots are taken a leader gives up its leadership only for a
\* higher term: a late AppendEntries or reply never makes it step down.
THEOREM LeaderStepsDownForHigherTerm ==
  ASSUME Snapshots = FALSE
  PROVE  Spec => StepDownForHigherTerm
<1>1. TypeInv /\ VoteInv /\ SendersInv /\ NoSnapshotsInv /\ [Next]_vars
      => [\A s \in Server : (status[s] = Leader /\ status'[s] # Leader) =>
                               currentTerm'[s] > currentTerm[s]]_vars
  BY NextStepsDown
<1> QED
  BY <1>1, TypeInvariant, VotesConsistent, SendersInvariant, NoSnapshotsInvariant, PTL
     DEF Spec, StepDownForHigherTerm

\* A log that is appended to keeps its entries.
LEMMA AppendKeepsEach ==
  ASSUME NEW log \in Seq(Entry), NEW new,
         new = log \/ \E e \in Entry : new = Append(log, e)
  PROVE  /\ new \in Seq(Entry) /\ Len(new) \in Nat /\ Len(log) <= Len(new)
         /\ \A k \in 1 .. Len(log) : new[k] = log[k]
<1>1. Len(log) \in Nat
  BY LenProperties
<1>2. CASE new = log
  BY <1>1, <1>2
<1>3. ASSUME NEW e \in Entry, new = Append(log, e)
      PROVE  /\ new \in Seq(Entry) /\ Len(new) \in Nat /\ Len(log) <= Len(new)
             /\ \A k \in 1 .. Len(log) : new[k] = log[k]
  <2>1. /\ new \in Seq(Entry) /\ Len(new) = Len(log) + 1
        /\ \A k \in 1 .. Len(log) : new[k] = log[k]
    BY <1>3, AppendProperties
  <2> QED
    BY <1>1, <2>1
<1> QED
  BY <1>2, <1>3

LEMMA AppendKeeps ==
  ASSUME NEW log \in Seq(Entry), NEW new,
         new = log \/ \E e \in Entry : new = Append(log, e)
  PROVE  Len(new) >= Len(log) /\ SubSeq(new, 1, Len(log)) = log
<1>1. /\ new \in Seq(Entry) /\ Len(new) \in Nat /\ Len(log) <= Len(new)
      /\ \A k \in 1 .. Len(log) : new[k] = log[k]
  BY AppendKeepsEach
<1>2. Len(log) \in Nat /\ Len(log) \in 0 .. Len(new) /\ Len(new) >= Len(log)
  BY <1>1, LenProperties
<1>3. /\ SubSeq(new, 1, Len(log)) \in Seq(Entry)
      /\ Len(SubSeq(new, 1, Len(log))) = Len(log)
      /\ \A k \in 1 .. Len(log) : SubSeq(new, 1, Len(log))[k] = new[k]
  BY <1>1, <1>2, PrefixAt
<1>4. SubSeq(new, 1, Len(log)) = log
  BY <1>1, <1>3, SeqEqual
<1> QED
  BY <1>2, <1>4

\* What LeaderAppendOnly says of a step.
LEMMA NextAppendsOnly ==
  ASSUME Snapshots = FALSE, TypeInv, VoteInv, SendersInv, NoSnapshotsInv, [Next]_vars,
         NEW s \in Server, status[s] = Leader, currentTerm'[s] = currentTerm[s]
  PROVE  /\ Len(Log(s)') >= Len(Log(s))
         /\ SubSeq(Log(s)', 1, Len(Log(s))) = Log(s)
<1>1. /\ snapshot[s] = <<>> /\ snapshot'[s] = <<>>
      /\ logs[s] \in Seq(Entry) /\ logs'[s] \in Seq(Entry)
  BY NextNoSnapshots, NextType DEF NoSnapshotsInv, TypeInv, TypeOK, LogType
<1>2. Log(s) = logs[s] /\ Log(s)' = logs'[s]
  <2>1. \A l \in Seq(Entry) : <<>> \o l = l
    BY ConcatEmptySeq
  <2> QED
    BY <1>1, <2>1 DEF Log
<1>3. logs'[s] = logs[s] \/ \E e \in Entry : logs'[s] = Append(logs[s], e)
  BY NextLeads DEF LeadsOn
<1>4. Len(logs'[s]) >= Len(logs[s]) /\ SubSeq(logs'[s], 1, Len(logs[s])) = logs[s]
  BY <1>1, <1>3, AppendKeeps
<1> QED
  BY <1>2, <1>4

\* Where no snapshots are taken the log of a leader only grows at the end as long
\* as it leads its term, in both versions of the source.
THEOREM LeaderAppendsOnly ==
  ASSUME Snapshots = FALSE
  PROVE  Spec => LeaderAppendOnly
<1>1. TypeInv /\ VoteInv /\ SendersInv /\ NoSnapshotsInv /\ [Next]_vars
      => [\A s \in Server :
            (status[s] = Leader /\ currentTerm'[s] = currentTerm[s]) =>
              /\ Len(Log(s)') >= Len(Log(s))
              /\ SubSeq(Log(s)', 1, Len(Log(s))) = Log(s)]_vars
  BY NextAppendsOnly
<1> QED
  BY <1>1, TypeInvariant, VotesConsistent, SendersInvariant, NoSnapshotsInvariant, PTL
     DEF Spec, LeaderAppendOnly

-----------------------------------------------------------------------------
(* Leaders and snapshots *)

\* What a step does to a leader when snapshots are taken: what can make it step
\* down in its own term is a snapshot under that term.
DeposesOnlyHigher(q) ==
  (status[q] = Leader /\ status'[q] # Leader) => currentTerm'[q] > currentTerm[q]

LEMMA FollowDeposes ==
  ASSUME TypeInv, NEW s \in Server, NEW term \in Nat, Observe(s, term),
         \A q \in Server \ {s} : status'[q] = status[q],
         term > currentTerm[s] \/ status'[s] = status[s] \/ status[s] # Leader
  PROVE  \A q \in Server : DeposesOnlyHigher(q)
<1>1. currentTerm \in [Server -> Nat] /\ status \in [Server -> {Follower, Candidate, Leader}]
  BY DEF TypeInv, TypeOK, NodeType
<1> QED
  BY <1>1 DEF DeposesOnlyHigher, Observe, MaxOf

LEMMA NextDeposes ==
  ASSUME TypeInv, VoteInv, SendersInv, SnapshotsGoToFollowers, [Next]_vars
  PROVE  \A q \in Server : DeposesOnlyHigher(q)
<1> USE DEF nodeVars
<1>1. /\ currentTerm \in [Server -> Nat] /\ status \in [Server -> {Follower, Candidate, Leader}]
      /\ voteReqs \subseteq VoteReq /\ voteReps \subseteq VoteRep
      /\ appendReqs \subseteq AppendReq /\ appendReps \subseteq AppendRep
      /\ snapReqs \subseteq SnapReq /\ snapReps \subseteq SnapRep
  BY DEF TypeInv, TypeOK, NodeType, VoteType, CallType
<1>2. status' = status => \A q \in Server : DeposesOnlyHigher(q)
  BY DEF DeposesOnlyHigher
<1>3. ASSUME NEW s \in Server, DoElection(s) PROVE \A q \in Server : DeposesOnlyHigher(q)
  BY <1>1, <1>3 DEF DoElection, DeposesOnlyHigher
<1>4. ASSUME NEW m \in voteReqs, HandleRequestVote(m) PROVE \A q \in Server : DeposesOnlyHigher(q)
  <2>1. m.to \in Server /\ m.term \in Nat
    BY <1>1 DEF VoteReq
  <2>2. /\ currentTerm' = [currentTerm EXCEPT ![m.to] = MaxOf(@, m.term)]
        /\ status' = [status EXCEPT ![m.to] = IF m.term > currentTerm[m.to] THEN Follower ELSE @]
    BY <1>4 DEF HandleRequestVote
  <2> QED
    BY <1>1, <2>1, <2>2 DEF DeposesOnlyHigher, MaxOf
<1>5. ASSUME NEW m \in voteReps, HandleRequestVoteReply(m) PROVE \A q \in Server : DeposesOnlyHigher(q)
  <2>1. m.to \in Server /\ m.term \in Nat
    BY <1>1 DEF VoteRep
  <2>2. /\ Observe(m.to, m.term)
        /\ \A p \in Server \ {m.to} : status'[p] = status[p]
        /\ \/ m.term > currentTerm[m.to]
           \/ status'[m.to] \in {Leader, status[m.to]}
    BY <1>1, <1>5, <2>1 DEF HandleRequestVoteReply
  <2> QED
    BY <1>1, <2>1, <2>2 DEF DeposesOnlyHigher, Observe, MaxOf
<1>6. ASSUME NEW m \in appendReqs, HandleAppendEntries(m) PROVE \A q \in Server : DeposesOnlyHigher(q)
  <2>1. m.to \in Server /\ m.term \in Nat
    BY <1>1 DEF AppendReq
  <2>2. /\ Observe(m.to, m.term) /\ ~(m.term < currentTerm[m.to])
        /\ \A p \in Server \ {m.to} : status'[p] = status[p]
    BY <1>1, <1>6, <2>1 DEF HandleAppendEntries, StaleTerm
  <2>3. status[m.to] = Leader => m.term > currentTerm[m.to]
    BY <1>1, <2>1, <2>2, NotFromOther
  <2> QED
    BY <2>1, <2>2, <2>3, FollowDeposes
<1>7. ASSUME NEW m \in appendReps, HandleAppendRefusal(m) \/ HandleAppendSuccess(m)
      PROVE  \A q \in Server : DeposesOnlyHigher(q)
  <2>1. m.to \in Server /\ m.term \in Nat
    BY <1>1 DEF AppendRep
  <2>2. /\ Observe(m.to, m.term)
        /\ status' = [status EXCEPT ![m.to] = IF m.term > currentTerm[m.to] THEN Follower ELSE @]
    BY <1>7 DEF HandleAppendRefusal, HandleAppendSuccess
  <2> QED
    BY <1>1, <2>1, <2>2, FollowDeposes
<1>8. ASSUME NEW m \in snapReqs, HandleInstallSnapshot(m) PROVE \A q \in Server : DeposesOnlyHigher(q)
  <2>1. m.to \in Server /\ m.term \in Nat
    BY <1>1 DEF SnapReq
  <2>2. /\ Observe(m.to, m.term)
        /\ status' = [status EXCEPT ![m.to] =
                        IF m.term >= currentTerm[m.to] THEN Follower ELSE @]
    BY <1>8 DEF HandleInstallSnapshot
  <2>3. status[m.to] = Leader => m.term # currentTerm[m.to]
    BY DEF SnapshotsGoToFollowers
  <2> QED
    BY <1>1, <2>1, <2>2, <2>3, FollowDeposes
<1>9. ASSUME NEW m \in snapReps, HandleInstallSnapshotReply(m) PROVE \A q \in Server : DeposesOnlyHigher(q)
  <2> DEFINE leads == status[m.to] = Leader /\ currentTerm[m.to] = m.sentTerm
  <2>1. m.to \in Server /\ m.term \in Nat
    BY <1>1 DEF SnapRep
  <2>2. CASE leads
    <3>1. /\ Observe(m.to, m.term)
          /\ status' = [status EXCEPT ![m.to] = IF m.term > currentTerm[m.to] THEN Follower ELSE @]
      BY <1>9, <2>2 DEF HandleInstallSnapshotReply
    <3> QED
      BY <1>1, <2>1, <3>1, FollowDeposes
  <2>3. CASE ~leads
    <3>1. status' = status
      BY <1>1, <1>9, <2>3 DEF HandleInstallSnapshotReply
    <3> QED
      BY <1>2, <3>1
  <2> QED
    BY <2>2, <2>3
<1>10. ASSUME NEW s \in Server, DoHeartBeat(s) \/ ApplierTick(s) PROVE status' = status
  BY <1>10 DEF DoHeartBeat, ApplierTick
<1>11. ASSUME NEW s \in Server, NEW v \in Value, Start(s, v) PROVE status' = status
  BY <1>11 DEF Start
<1>12. ASSUME NEW s \in Server, NEW index, Snapshot(s, index) PROVE status' = status
  BY <1>12 DEF Snapshot
<1>13. ASSUME NEW s \in Server, NEW p \in Server, SendSnapShot(s, p) PROVE status' = status
  BY <1>13 DEF SendSnapShot
<1>14. ASSUME NEW m \in appendReqs, RejectStaleAppend(m) PROVE status' = status
  BY <1>14 DEF RejectStaleAppend
<1>15. LoseCall \/ UNCHANGED vars => status' = status
  BY DEF LoseCall, vars
<1> QED
  BY <1>2, <1>3, <1>4, <1>5, <1>6, <1>7, <1>8, <1>9, <1>10, <1>11, <1>12,
     <1>13, <1>14, <1>15 DEF Next

\* With snapshots, in both versions of the source: as long as no snapshot is under
\* way to a leader under its own term, only a higher term ends a leadership:
\* nothing else that late threads do takes it from a node in its own term.
THEOREM OnlyLateSnapshotsDepose ==
  Spec => [][SnapshotsGoToFollowers =>
               \A s \in Server : (status[s] = Leader /\ status'[s] # Leader) =>
                                    currentTerm'[s] > currentTerm[s]]_vars
<1>1. TypeInv /\ VoteInv /\ SendersInv /\ [Next]_vars
      => [SnapshotsGoToFollowers =>
            \A s \in Server : (status[s] = Leader /\ status'[s] # Leader) =>
                                 currentTerm'[s] > currentTerm[s]]_vars
  BY NextDeposes DEF DeposesOnlyHigher
<1> QED
  BY <1>1, TypeInvariant, VotesConsistent, SendersInvariant, PTL DEF Spec

-----------------------------------------------------------------------------
(* Restarts *)

\* A node that starts again has forgotten everything, its index ranges included.
LEMMA RestartType ==
  ASSUME TypeInv, NEW s \in Server, Restart(s)
  PROVE  TypeInv'
<1>1. <<>> \in Seq(Entry) /\ <<>> \in Seq(Nat) /\ Len(<<>>) = 0
  BY EmptySeq
<1>2. NodeType'
  BY DEF TypeInv, TypeOK, Restart, NodeType, Follower
<1>3. LogType'
  BY <1>1 DEF TypeInv, TypeOK, Restart, LogType
<1>4. LeadType'
  BY <1>1 DEF TypeInv, TypeOK, Restart, LeadType
<1>5. VoteType' /\ CallType' /\ exited' \subseteq Server
  BY DEF TypeInv, TypeOK, Restart, VoteType, CallType
<1>6. AppliedInRange'
  <2> SUFFICES ASSUME NEW p \in Server, p \notin exited'
               PROVE  /\ Base(p)' <= lastApplied'[p]
                      /\ lastApplied'[p] <= commitIndex'[p]
                      /\ commitIndex'[p] <= LastLogIndex(p)'
    BY DEF AppliedInRange
  <2>1. CASE p = s
    <3>1. /\ snapshot'[p] = <<>> /\ logs'[p] = <<>>
          /\ lastApplied'[p] = 0 /\ commitIndex'[p] = 0
      BY <2>1 DEF TypeInv, TypeOK, Restart, LogType
    <3>2. Base(p)' = 0 /\ LastLogIndex(p)' = 0
      BY <1>1, <3>1 DEF Base, LastLogIndex, GetLastLogIndex
    <3> QED
      BY <3>1, <3>2
  <2>2. CASE p # s
    <3>1. /\ snapshot'[p] = snapshot[p] /\ logs'[p] = logs[p]
          /\ lastApplied'[p] = lastApplied[p] /\ commitIndex'[p] = commitIndex[p]
          /\ p \notin exited
      BY <2>2 DEF TypeInv, TypeOK, Restart, LogType
    <3> QED
      BY <3>1 DEF TypeInv, AppliedInRange, Base, LastLogIndex
  <2> QED
    BY <2>1, <2>2
<1> QED
  BY <1>2, <1>3, <1>4, <1>5, <1>6 DEF TypeInv, TypeOK

LEMMA RestartTypeInvariant == SpecR => []TypeInv
<1>1. InitR => TypeInv
  BY InitType DEF InitR
<1>2. TypeInv /\ [NextR]_varsR => TypeInv'
  BY NextType, RestartType DEF NextR, varsR
<1> QED
  BY <1>1, <1>2, PTL DEF SpecR

\* Restarts cost a term its leader and a server its log, but on a node that runs the
\* order of the indices holds however often it and its peers restart: the replies
\* and snapshots of its peers cannot commit or apply what it no longer holds.
THEOREM RestartsKeepTheRange == SpecR => []AppliedInRange
<1>1. TypeInv => AppliedInRange
  BY DEF TypeInv
<1> QED
  BY <1>1, RestartTypeInvariant, PTL
=============================================================================
