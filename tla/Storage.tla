------------------------------ MODULE Storage ------------------------------
(***************************************************************************)
(* What one KvServer keeps: the skip list in memory and the two files of   *)
(* its Persister.  A snapshot is the dump of the list.                     *)
(***************************************************************************)
EXTENDS SkipList

CONSTANT State   \* Raft states

VARIABLES stateFile, stateBuf, snapFile, snapBuf, call, alive,
          savedState, savedSnap, begun, read

fileVars == <<stateFile, stateBuf, snapFile, snapBuf, call, alive,
              savedState, savedSnap, begun, read>>

Files == INSTANCE Persister WITH Header <- "archive", Image <- {"empty", "full"}

InitS == Init /\ Files!Init

\* A new process: KvServer makes an empty list and a Persister.
StartProcess == Files!Construct /\ NewList

\* A client's write, or a snapshot another server took: the list changes.
Serve == alive /\ Operation /\ UNCHANGED fileVars

\* What a dump is for the files: that of an empty list, or another.
ImageOf(l) == IF Dump(l) = << >> THEN "empty" ELSE "full"

\* IfNeedToSendSnapShotCommand: MakeSnapShot dumps the list, and Raft::Snapshot
\* begins to save the dump with its own state.
MakeSnapShot(v) == Files!Save(v, ImageOf(list)) /\ UNCHANGED list

\* What Raft does with the files by itself, and how the process ends.
UseFiles ==
  /\ \/ \E v \in State : Files!SaveRaftState(v)
     \/ Files!ClearSnapshot \/ Files!WriteState \/ Files!WriteSnapshot
     \/ Files!ReadSnapshot \/ Files!ReadRaftState
     \/ Files!Stop \/ Files!Crash
  /\ UNCHANGED list

NextS ==
  \/ StartProcess
  \/ Serve
  \/ \E v \in State : MakeSnapShot(v)
  \/ UseFiles

SpecS == InitS /\ [][NextS]_<<list, fileVars>>

\* For the run: Raft states are alike.
Symmetry == Permutations(State)

\* A bound for the run, on steps: a server that has saved something, or does so,
\* has no more than one key in its list, and always the same with the same value.
FilesOrKeys ==
  call' # Files!NoCall \/ savedState' # Files!None =>
    \A k \in Nodes(list') :
      k = (CHOOSE x \in Key : TRUE) /\ list'.value[k] = (CHOOSE x \in Val : TRUE)

-----------------------------------------------------------------------------
(* The properties of module Persister, for this server's files.            *)

\* The files never mix two saves, whatever was flushed, read or lost in a crash
\* (see Persister).
NoMixedSaves == Files!NoMixedSaves

\* A state never stands beside an older snapshot, wherever a crash cuts a save off
\* (see Persister).
NoOlderSnapshot == Files!NoOlderSnapshot
=============================================================================
