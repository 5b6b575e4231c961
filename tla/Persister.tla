----------------------------- MODULE Persister -----------------------------
(***************************************************************************)
(* raftCore/Persister.cpp: two files, one for the Raft state and one for   *)
(* the snapshot, each behind a std::ofstream.                              *)
(*                                                                         *)
(* What is saved is a text archive, of which only its division by white    *)
(* space matters here: a sequence of tokens, the first of which (the       *)
(* archive's header) is the same in all of them.  What the program writes  *)
(* is in the file or still in the stream's buffer, which is written out as *)
(* it fills up and when the stream is closed, and is lost if the process   *)
(* ends otherwise (myAssert calls exit, which destroys no local object).   *)
(*                                                                         *)
(* m_mtx keeps the operations apart, but the process may end inside one:   *)
(* Save and SaveRaftState are a step for each file they clear or write.    *)
(* The cached m_raftStateSize is left out: the one decision that reads it, *)
(* when to take a snapshot, may go either way here.                        *)
(***************************************************************************)
EXTENDS Naturals, SequencesExt

CONSTANTS Header, State, Image   \* the first token; Raft states; snapshots

VARIABLES
  stateFile, stateBuf, snapFile, snapBuf,  \* the files and the streams' buffers
  call,                                    \* the Save or SaveRaftState under way
  alive,                                   \* a process with a Persister runs
  savedState, savedSnap,                   \* history: what was written last
  begun,                                   \* history: the snapshot of the last Save
  read                                     \* history: what a Read returned last

stateVars == <<stateFile, stateBuf, savedState>>
snapVars == <<snapFile, snapBuf, savedSnap>>
vars == <<stateVars, snapVars, call, alive, begun, read>>

None == <<>>                      \* an empty file, or nothing saved yet
Archive(v) == <<Header, v>>
FirstToken(blob) == IF blob = None THEN None ELSE <<Head(blob)>>

\* What is still to be done, in this order; the parameters.
NoCall == [at |-> "idle", raftstate |-> None, snapshot |-> None]
Free == alive /\ call = NoCall

Init ==
  /\ stateFile = None /\ stateBuf = None /\ snapFile = None /\ snapBuf = None
  /\ call = NoCall
  /\ alive = FALSE
  /\ savedState = None /\ savedSnap = None /\ begun = None /\ read = None

\* A blob written to a stream: some of what the buffer then has may reach the
\* file at once.
Write(file, buf, blob) ==
  LET all == buf \o blob IN
  \E k \in 0 .. Len(all) : /\ file' = file \o SubSeq(all, 1, k)
                           /\ buf' = SubSeq(all, k + 1, Len(all))

\* The constructor empties both files.
Construct ==
  /\ ~alive /\ alive' = TRUE
  /\ stateFile' = None /\ stateBuf' = None /\ snapFile' = None /\ snapBuf' = None
  /\ UNCHANGED <<call, savedState, savedSnap, begun, read>>

-----------------------------------------------------------------------------
(* Saving *)

SaveRaftStateNoClear(v) ==   \* faulty: the old state is not cleared
  /\ Free
  /\ call' = [at |-> "writeState", raftstate |-> Archive(v), snapshot |-> None]
  /\ UNCHANGED <<stateVars, snapVars, alive, begun, read>>

\* clearRaftState.
ClearState == stateFile' = None /\ stateBuf' = None /\ UNCHANGED savedState

\* SaveRaftState, up to the write.
SaveRaftState(v) ==
  /\ Free /\ ClearState
  /\ call' = [at |-> "writeState", raftstate |-> Archive(v), snapshot |-> None]
  /\ UNCHANGED <<snapVars, alive, begun, read>>

SaveNoClear(v, w) ==   \* faulty: the old snapshot is not cleared
  /\ Free /\ ClearState
  /\ call' = [at |-> "writeState", raftstate |-> Archive(v), snapshot |-> Archive(w)]
  /\ begun' = Archive(w)
  /\ UNCHANGED <<snapVars, alive, read>>

\* Save, which clears both files before it writes them: the first one.
Save(v, w) ==
  /\ Free /\ ClearState
  /\ call' = [at |-> "clearSnapshot", raftstate |-> Archive(v), snapshot |-> Archive(w)]
  /\ begun' = Archive(w)
  /\ UNCHANGED <<snapVars, alive, read>>

ClearSnapshot ==
  /\ alive /\ call.at = "clearSnapshot"
  /\ snapFile' = None /\ snapBuf' = None
  /\ call' = [call EXCEPT !.at = "writeState"]
  /\ UNCHANGED <<stateVars, savedSnap, alive, begun, read>>

WriteState ==
  /\ alive /\ call.at = "writeState"
  /\ Write(stateFile, stateBuf, call.raftstate)
  /\ savedState' = call.raftstate
  /\ call' = IF call.snapshot = None THEN NoCall ELSE [call EXCEPT !.at = "writeSnapshot"]
  /\ UNCHANGED <<snapVars, alive, begun, read>>

WriteSnapshot ==
  /\ alive /\ call.at = "writeSnapshot"
  /\ Write(snapFile, snapBuf, call.snapshot)
  /\ savedSnap' = call.snapshot
  /\ call' = NoCall
  /\ UNCHANGED <<stateVars, alive, begun, read>>

-----------------------------------------------------------------------------
(* Reading, and the end of the process *)

\* ReadSnapshot closes the stream, reads one token and opens the stream again
\* in its default mode, which empties the file.
ReadSnapshot ==
  /\ Free
  /\ read' = FirstToken(snapFile \o snapBuf)
  /\ snapFile' = None /\ snapBuf' = None
  /\ UNCHANGED <<stateVars, savedSnap, call, alive, begun>>

\* ReadRaftState reads one token of what has reached the file.
ReadRaftState ==
  /\ Free
  /\ read' = FirstToken(stateFile)
  /\ UNCHANGED <<stateVars, snapVars, call, alive, begun>>

\* The process ends: orderly, when the destructor closes the streams, or not.
Stop ==
  /\ Free /\ alive' = FALSE
  /\ stateFile' = stateFile \o stateBuf /\ snapFile' = snapFile \o snapBuf
  /\ stateBuf' = None /\ snapBuf' = None
  /\ UNCHANGED <<call, savedState, savedSnap, begun, read>>

Crash ==
  /\ alive /\ alive' = FALSE
  /\ stateBuf' = None /\ snapBuf' = None
  /\ call' = NoCall
  /\ UNCHANGED <<stateFile, snapFile, savedState, savedSnap, begun, read>>

Next ==
  \/ Construct
  \/ \E v \in State : SaveRaftState(v)
  \/ \E v \in State, w \in Image : Save(v, w)
  \/ ClearSnapshot
  \/ WriteState
  \/ WriteSnapshot
  \/ ReadSnapshot
  \/ ReadRaftState
  \/ Stop
  \/ Crash

Spec == Init /\ [][Next]_vars

-----------------------------------------------------------------------------
(* Properties *)

StateNow == stateFile \o stateBuf
SnapNow == snapFile \o snapBuf

\* The files never mix two saves: whatever was flushed, read or lost in a crash,
\* and wherever a crash cuts a save off, each holds the beginning of what was
\* written last (clearRaftState and clearSnapshot come before every write).
NoMixedSaves == IsPrefix(StateNow, savedState) /\ IsPrefix(SnapNow, savedSnap)

\* A state never stands beside a snapshot from before it, not even where a crash
\* cuts Save off between the files: that state lacks the entries which only the
\* newer snapshot has.
NoOlderSnapshot == StateNow # None => IsPrefix(SnapNow, begun)
=============================================================================
