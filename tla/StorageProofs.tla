---------------------------- MODULE StorageProofs ----------------------------
(***************************************************************************)
(* What holds of the files and the skip list of a server for any Raft      *)
(* states, keys, values and levels.                                        *)
(***************************************************************************)
EXTENDS Storage, SkipListProofs

-----------------------------------------------------------------------------
(* The files *)

Token == {"archive", "empty", "full"} \cup State
Blob == {<<>>} \cup {<<"archive", v>> : v \in Token}

\* A file and its buffer together are the beginning of a blob.
Begins(file, buf, blob) ==
  file \in Seq(Token) /\ buf \in Seq(Token) /\ IsPrefix(file \o buf, blob)

\* They are the beginning of what was written last.  A save finds the files that
\* it is to write empty; the snapshot is that of the last Save begun, except
\* where one has cleared the state only, or the process ended there.
FilesInv ==
  /\ savedState \in Blob /\ Begins(stateFile, stateBuf, savedState)
  /\ savedSnap \in Blob /\ Begins(snapFile, snapBuf, savedSnap)
  /\ begun \in Blob
  /\ call \in [at : {"idle", "clearSnapshot", "writeState", "writeSnapshot"},
               raftstate : Blob, snapshot : Blob]
  /\ call.at \in {"clearSnapshot", "writeState"} => stateFile = <<>> /\ stateBuf = <<>>
  /\ call.at = "writeSnapshot" \/ (call.at = "writeState" /\ call.snapshot # <<>>) =>
       snapFile = <<>> /\ snapBuf = <<>>
  /\ call.snapshot \in {<<>>, begun}
  /\ call.at = "clearSnapshot" => call.snapshot # <<>>
  /\ \/ Begins(snapFile, snapBuf, begun)
     \/ stateFile = <<>> /\ stateBuf = <<>> /\ (~alive \/ call.at = "clearSnapshot")

LEMMA BlobType == Blob \subseteq Seq(Token)
<1>1. \A v \in Token : <<"archive", v>> \in Seq(Token)
  BY DEF Token
<1> QED
  BY <1>1, EmptySeq DEF Blob

\* A beginning of t is a sequence that agrees with it as far as it goes.
LEMMA PrefixAt ==
  ASSUME NEW s \in Seq(Token), NEW t \in Seq(Token),
         Len(s) <= Len(t), \A i \in 1 .. Len(s) : s[i] = t[i]
  PROVE  IsPrefix(s, t)
<1>1. SubSeq(s, 1, Len(s)) = s
  BY SubSeqFull
<1>2. Len(s) \in Nat /\ Len(t) \in Nat /\ \A i \in 1 .. Len(t) : t[i] \in Token
  BY LenProperties, ElementOfSeq
<1>3. /\ SubSeq(t, 1, Len(s)) \in Seq(Token)
      /\ Len(SubSeq(t, 1, Len(s))) = IF 1 <= Len(s) THEN Len(s) - 1 + 1 ELSE 0
      /\ \A i \in 1 .. Len(s) - 1 + 1 : SubSeq(t, 1, Len(s))[i] = t[1 + i - 1]
  <2>1. \A i \in 1 .. Len(s) : t[i] \in Token
    BY <1>2
  <2> QED
    BY <1>2, <2>1, SubSeqProperties
<1>4. Len(SubSeq(t, 1, Len(s))) = Len(s) /\ \A i \in 1 .. Len(s) : SubSeq(t, 1, Len(s))[i] = t[i]
  BY <1>2, <1>3
<1>5. s = SubSeq(t, 1, Len(s))
  BY <1>3, <1>4, SeqEqual
<1> QED
  BY <1>1, <1>5 DEF IsPrefix

LEMMA PrefixHas ==
  ASSUME NEW s \in Seq(Token), NEW t \in Seq(Token), IsPrefix(s, t)
  PROVE  /\ Len(s) \in Nat /\ Len(t) \in Nat /\ Len(s) <= Len(t)
         /\ \A i \in 1 .. Len(s) : s[i] = t[i]
<1>1. Len(s) \in Nat /\ Len(t) \in Nat /\ \A i \in 1 .. Len(t) : t[i] \in Token
  BY LenProperties, ElementOfSeq
<1>2. SubSeq(s, 1, Len(s)) = s /\ Len(s) <= Len(t) /\ SubSeq(s, 1, Len(s)) = SubSeq(t, 1, Len(s))
  BY SubSeqFull DEF IsPrefix
<1>3. \A i \in 1 .. Len(s) - 1 + 1 : SubSeq(t, 1, Len(s))[i] = t[1 + i - 1]
  <2>1. \A i \in 1 .. Len(s) : t[i] \in Token
    BY <1>1, <1>2
  <2> QED
    BY <1>1, <2>1, SubSeqProperties
<1> QED
  BY <1>1, <1>2, <1>3

\* A blob is written in two parts: one in the file, the rest in the buffer.
LEMMA WrittenInParts ==
  ASSUME NEW blob \in Seq(Token), NEW k \in 0 .. Len(blob)
  PROVE  Begins(SubSeq(blob, 1, k), SubSeq(blob, k + 1, Len(blob)), blob)
<1>1. Len(blob) \in Nat /\ \A i \in 1 .. Len(blob) : blob[i] \in Token
  BY LenProperties, ElementOfSeq
<1>2. SubSeq(blob, 1, k) \in Seq(Token)
  <2>1. \A i \in 1 .. k : blob[i] \in Token
    BY <1>1
  <2> QED
    BY <1>1, <2>1, SubSeqProperties
<1>3. SubSeq(blob, k + 1, Len(blob)) \in Seq(Token)
  <2>1. \A i \in k + 1 .. Len(blob) : blob[i] \in Token
    BY <1>1
  <2> QED
    BY <1>1, <2>1, SubSeqProperties
<1>4. SubSeq(blob, 1, k) \o SubSeq(blob, k + 1, Len(blob)) = SubSeq(blob, 1, Len(blob))
  <2>1. 1 \in 1 .. Len(blob) + 1 /\ k \in 1 - 1 .. Len(blob) /\ Len(blob) \in k .. Len(blob)
    BY <1>1
  <2> QED
    BY <2>1, ConcatAdjacentSubSeq
<1>5. SubSeq(blob, 1, Len(blob)) = blob
  BY SubSeqFull
<1>6. IsPrefix(blob, blob)
  BY <1>1, PrefixAt
<1> QED
  BY <1>2, <1>3, <1>4, <1>5, <1>6 DEF Begins

\* What is in the file alone is still a beginning, and so is nothing.
LEMMA FilePart ==
  ASSUME NEW file, NEW buf, NEW blob \in Seq(Token), Begins(file, buf, blob)
  PROVE  Begins(file, <<>>, blob)
<1>1. <<>> \in Seq(Token) /\ file \in Seq(Token) /\ buf \in Seq(Token) /\ file \o <<>> = file
  BY ConcatEmptySeq, EmptySeq DEF Begins
<1>2. /\ file \o buf \in Seq(Token) /\ Len(file) \in Nat /\ Len(buf) \in Nat
      /\ Len(file \o buf) = Len(file) + Len(buf)
      /\ \A i \in 1 .. Len(file) + Len(buf) :
           (file \o buf)[i] = IF i <= Len(file) THEN file[i] ELSE buf[i - Len(file)]
  BY <1>1, ConcatProperties, LenProperties
<1>3. /\ Len(blob) \in Nat /\ Len(file \o buf) <= Len(blob)
      /\ \A i \in 1 .. Len(file \o buf) : (file \o buf)[i] = blob[i]
  BY <1>2, PrefixHas DEF Begins
<1>4. Len(file) <= Len(blob) /\ \A i \in 1 .. Len(file) : file[i] = blob[i]
  BY <1>2, <1>3
<1>5. IsPrefix(file, blob)
  BY <1>1, <1>4, PrefixAt
<1> QED
  BY <1>1, <1>5 DEF Begins

LEMMA NoPart ==
  ASSUME NEW blob \in Seq(Token)
  PROVE  Begins(<<>>, <<>>, blob)
<1>1. <<>> \in Seq(Token) /\ Len(<<>>) = 0 /\ <<>> \o <<>> = <<>>
  BY EmptySeq, ConcatEmptySeq
<1>2. Len(<<>>) <= Len(blob) /\ \A i \in 1 .. Len(<<>>) : <<>>[i] = blob[i]
  BY <1>1, LenProperties
<1>3. IsPrefix(<<>>, blob)
  BY <1>1, <1>2, PrefixAt
<1> QED
  BY <1>1, <1>3 DEF Begins

\* What the destructor leaves: all of it is in the file.
LEMMA AllWritten ==
  ASSUME NEW file, NEW buf, NEW blob, Begins(file, buf, blob)
  PROVE  Begins(file \o buf, <<>>, blob)
<1>1. file \o buf \in Seq(Token) /\ (file \o buf) \o <<>> = file \o buf
  BY ConcatProperties, ConcatEmptySeq DEF Begins
<1> QED
  BY <1>1, EmptySeq DEF Begins

LEMMA EmptyBegins ==
  ASSUME NEW file, NEW buf, Begins(file, buf, <<>>)
  PROVE  file = <<>> /\ buf = <<>>
<1>1. file \in Seq(Token) /\ buf \in Seq(Token) /\ Len(file \o buf) = Len(file) + Len(buf)
  BY ConcatProperties DEF Begins
<1>2. Len(file \o buf) <= 0
  BY <1>1, EmptySeq, ConcatProperties, PrefixHas DEF Begins
<1>3. Len(file) = 0 /\ Len(buf) = 0
  BY <1>1, <1>2, LenProperties
<1> QED
  BY <1>1, <1>3, EmptySeq

\* A blob written to a file that has been cleared.
LEMMA WrittenWhole ==
  ASSUME NEW blob \in Seq(Token), NEW k \in 0 .. Len(<<>> \o blob), NEW file, NEW buf,
         file = <<>> \o SubSeq(<<>> \o blob, 1, k),
         buf = SubSeq(<<>> \o blob, k + 1, Len(<<>> \o blob))
  PROVE  Begins(file, buf, blob)
<1>1. <<>> \o blob = blob
  BY ConcatEmptySeq
<1>2. Begins(SubSeq(blob, 1, k), SubSeq(blob, k + 1, Len(blob)), blob)
  BY <1>1, WrittenInParts
<1>3. <<>> \o SubSeq(blob, 1, k) = SubSeq(blob, 1, k)
  BY <1>2, ConcatEmptySeq DEF Begins
<1> QED
  BY <1>1, <1>2, <1>3

LEMMA FilesStep == FilesInv /\ [NextS]_<<list, fileVars>> => FilesInv'
<1> SUFFICES ASSUME FilesInv, [NextS]_<<list, fileVars>>
             PROVE  FilesInv'
  OBVIOUS
<1>1. /\ savedState \in Seq(Token) /\ savedSnap \in Seq(Token) /\ begun \in Seq(Token)
      /\ call.raftstate \in Seq(Token) /\ call.snapshot \in Seq(Token)
  BY BlobType DEF FilesInv
<1>2. ASSUME NEW v \in Token
      PROVE  Files!Archive(v) \in Blob /\ Files!Archive(v) # <<>>
  BY DEF Files!Archive, Blob
<1>3. /\ Begins(<<>>, <<>>, savedState) /\ Begins(<<>>, <<>>, savedSnap)
      /\ \A blob \in Blob : Begins(<<>>, <<>>, blob)
  BY <1>1, NoPart, BlobType
<1>4. <<>> \in Blob
  BY DEF Blob
<1> USE DEF FilesInv, Files!None
<1>5. CASE UNCHANGED <<list, fileVars>>
  BY <1>5 DEF fileVars
<1>6. CASE StartProcess
  BY <1>3, <1>6 DEF StartProcess, Files!Construct
<1>7. CASE Serve
  BY <1>7 DEF Serve, fileVars
<1>8. ASSUME NEW v \in State, MakeSnapShot(v)
      PROVE  FilesInv'
  <2>1. PICK w \in {"empty", "full"} : Files!Save(v, w)
    BY <1>8 DEF MakeSnapShot, ImageOf
  <2>2. Files!Archive(v) \in Blob /\ Files!Archive(w) \in Blob /\ Files!Archive(w) # <<>>
    BY <1>2 DEF Token
  <2> QED
    BY <1>3, <2>1, <2>2 DEF Files!Save, Files!ClearState, Files!snapVars
<1>9. ASSUME NEW v \in State, Files!SaveRaftState(v)
      PROVE  FilesInv'
  <2>1. Files!Archive(v) \in Blob
    BY <1>2 DEF Token
  <2>2. Begins(snapFile, snapBuf, begun)
    BY <1>9 DEF Files!SaveRaftState, Files!Free, Files!NoCall
  <2> QED
    BY <1>3, <1>4, <1>9, <2>1, <2>2 DEF Files!SaveRaftState, Files!ClearState, Files!snapVars
<1>10. ASSUME Files!ClearSnapshot
       PROVE  FilesInv'
  BY <1>3, <1>10 DEF Files!ClearSnapshot, Files!stateVars
<1>11. ASSUME Files!WriteState
       PROVE  FilesInv'
  <2>1. /\ alive /\ call.at = "writeState" /\ savedState' = call.raftstate
        /\ call' = IF call.snapshot = <<>> THEN Files!NoCall ELSE [call EXCEPT !.at = "writeSnapshot"]
        /\ UNCHANGED <<snapFile, snapBuf, savedSnap, alive, begun>>
    BY <1>11 DEF Files!WriteState, Files!snapVars
  <2>2. Begins(stateFile', stateBuf', call.raftstate)
    <3>1. /\ stateFile = <<>> /\ stateBuf = <<>>
          /\ Files!Write(stateFile, stateBuf, call.raftstate)
      BY <1>11, <2>1 DEF Files!WriteState
    <3>2. PICK k \in 0 .. Len(<<>> \o call.raftstate) :
            /\ stateFile' = <<>> \o SubSeq(<<>> \o call.raftstate, 1, k)
            /\ stateBuf' = SubSeq(<<>> \o call.raftstate, k + 1, Len(<<>> \o call.raftstate))
      BY <3>1 DEF Files!Write
    <3> HIDE DEF FilesInv
    <3> QED
      BY <1>1, <3>2, WrittenWhole
  <2>3. Begins(snapFile, snapBuf, begun)
    BY <2>1
  <2> QED
    BY <1>4, <2>1, <2>2, <2>3 DEF Files!NoCall
<1>12. ASSUME Files!WriteSnapshot
       PROVE  FilesInv'
  <2>1. /\ alive /\ call.at = "writeSnapshot" /\ savedSnap' = call.snapshot
        /\ call' = Files!NoCall
        /\ UNCHANGED <<stateFile, stateBuf, savedState, alive, begun>>
    BY <1>12 DEF Files!WriteSnapshot, Files!stateVars
  <2>2. Begins(snapFile', snapBuf', call.snapshot)
    <3>1. /\ snapFile = <<>> /\ snapBuf = <<>>
          /\ Files!Write(snapFile, snapBuf, call.snapshot)
      BY <1>12, <2>1 DEF Files!WriteSnapshot
    <3>2. PICK k \in 0 .. Len(<<>> \o call.snapshot) :
            /\ snapFile' = <<>> \o SubSeq(<<>> \o call.snapshot, 1, k)
            /\ snapBuf' = SubSeq(<<>> \o call.snapshot, k + 1, Len(<<>> \o call.snapshot))
      BY <3>1 DEF Files!Write
    <3> HIDE DEF FilesInv
    <3> QED
      BY <1>1, <3>2, WrittenWhole
  <2>3. Begins(snapFile', snapBuf', begun)
    <3>1. CASE call.snapshot = begun
      BY <2>2, <3>1
    <3>2. CASE call.snapshot = <<>>
      <4>1. snapFile' = <<>> /\ snapBuf' = <<>>
        BY <2>2, <3>2, EmptyBegins
      <4> QED
        BY <1>3, <4>1
    <3> QED
      BY <3>1, <3>2
  <2> QED
    BY <1>4, <2>1, <2>2, <2>3 DEF Files!NoCall
<1>13. ASSUME Files!ReadSnapshot
       PROVE  FilesInv'
  BY <1>3, <1>13 DEF Files!ReadSnapshot, Files!stateVars
<1>14. ASSUME Files!ReadRaftState
       PROVE  FilesInv'
  BY <1>14 DEF Files!ReadRaftState, Files!stateVars, Files!snapVars
<1>15. ASSUME Files!Stop
       PROVE  FilesInv'
  <2>1. Begins(snapFile, snapBuf, begun)
    BY <1>15 DEF Files!Stop, Files!Free, Files!NoCall
  <2>2. /\ Begins(stateFile \o stateBuf, <<>>, savedState)
        /\ Begins(snapFile \o snapBuf, <<>>, savedSnap)
        /\ Begins(snapFile \o snapBuf, <<>>, begun)
    BY <2>1, AllWritten
  <2> QED
    BY <1>4, <1>15, <2>2 DEF Files!Stop, Files!Free, Files!NoCall
<1>16. ASSUME Files!Crash
       PROVE  FilesInv'
  <2>1. /\ Begins(stateFile, <<>>, savedState) /\ Begins(snapFile, <<>>, savedSnap)
        /\ Begins(snapFile, snapBuf, begun) => Begins(snapFile, <<>>, begun)
    BY <1>1, FilePart
  <2> QED
    BY <1>4, <1>16, <2>1 DEF Files!Crash, Files!NoCall
<1> HIDE DEF FilesInv, Files!None
<1> QED
  BY <1>5, <1>6, <1>7, <1>8, <1>9, <1>10, <1>11, <1>12, <1>13, <1>14, <1>15, <1>16
  DEF NextS, UseFiles

LEMMA FilesInvariant == SpecS => []FilesInv
<1>1. InitS => FilesInv
  <2>1. <<>> \in Blob /\ Begins(<<>>, <<>>, <<>>)
    BY EmptySeq, NoPart DEF Blob
  <2> QED
    BY <2>1 DEF InitS, Files!Init, Files!None, Files!NoCall, FilesInv
<1> QED
  BY <1>1, FilesStep, PTL DEF SpecS

\* Whatever is flushed, read or lost in a crash, and wherever a crash cuts a save
\* off, a file holds the beginning of what was written in it last, never parts of
\* two saves.
THEOREM SavesNeverMix == SpecS => []NoMixedSaves
<1>1. FilesInv => NoMixedSaves
  BY DEF FilesInv, Begins, NoMixedSaves, Files!NoMixedSaves, Files!StateNow, Files!SnapNow,
         IsPrefix, Files!IsPrefix
<1> QED
  BY <1>1, FilesInvariant, PTL

\* Wherever a crash cuts Save off, the state that is left never stands beside an
\* older snapshot.
THEOREM SnapshotsNeverLag == SpecS => []NoOlderSnapshot
<1>1. FilesInv => NoOlderSnapshot
  <2> SUFFICES ASSUME FilesInv, stateFile \o stateBuf # <<>>
               PROVE  IsPrefix(snapFile \o snapBuf, begun)
    BY DEF NoOlderSnapshot, Files!NoOlderSnapshot, Files!StateNow, Files!SnapNow, Files!None,
           IsPrefix, Files!IsPrefix
  <2>1. <<>> \o <<>> = <<>>
    BY EmptySeq, ConcatEmptySeq
  <2> QED
    BY <2>1 DEF FilesInv, Begins
<1> QED
  BY <1>1, FilesInvariant, PTL

-----------------------------------------------------------------------------
(* The list *)

\* A server treats its list as a skip list's callers do: a new process makes a
\* new one, requests change it, and saves and crashes leave it alone.
THEOREM ServerKeepsAList == SpecS => Spec
<1>1. InitS => Init
  BY DEF InitS
<1>2. [NextS]_<<list, fileVars>> => [Next]_list
  <2> SUFFICES ASSUME [NextS]_<<list, fileVars>> PROVE [Next]_list
    OBVIOUS
  <2>1. CASE StartProcess
    BY <2>1 DEF StartProcess, Next
  <2>2. CASE Serve
    BY <2>2 DEF Serve, Next
  <2>3. ASSUME NEW v \in State, MakeSnapShot(v)
        PROVE  UNCHANGED list
    BY <2>3 DEF MakeSnapShot
  <2>4. CASE UseFiles
    BY <2>4 DEF UseFiles
  <2>5. CASE UNCHANGED <<list, fileVars>>
    BY <2>5
  <2>q. QED
    BY <2>1, <2>2, <2>3, <2>4, <2>5 DEF NextS
<1>q. QED
  BY <1>1, <1>2, PTL DEF SpecS, Spec

\* So what holds of a skip list holds of the list of a server, whose snapshots
\* are its dumps: the state that a dump stands for is what loading it restores.
THEOREM ServerListIsSound == SpecS => [](WellFormed /\ OperationsAgree /\ DumpLoads)
  BY ServerKeepsAList, ListIsWellFormed, ListIsAMap, DumpsRestore, PTL
=============================================================================
