---------------------------- MODULE RaftRestart ----------------------------
(***************************************************************************)
(* Raft nodes that crash and are started again.                            *)
(*                                                                         *)
(* Raft::init reads the persisted state back, but the Persister that it is *)
(* given truncated both of its files when it was constructed, a moment     *)
(* before (Persister::Persister; module Persister has the detail).  A node *)
(* therefore restarts as it started the first time, with an empty log and  *)
(* in term 0.  The calls it was making die with their connections, its     *)
(* peers' calls to it stay on their way.                                   *)
(***************************************************************************)
EXTENDS Raft

CONSTANT MaxRestarts   \* bound: restarts of all servers together

VARIABLE restarts

varsR == <<vars, restarts>>

InitR == Init /\ restarts = 0

\* The process of s ends, on an assertion or otherwise, and KvServer starts
\* again: a new Persister, then Raft::init.
Restart(s) ==
  /\ restarts < MaxRestarts
  /\ restarts' = restarts + 1
  /\ currentTerm' = [currentTerm EXCEPT ![s] = 0]
  /\ votedFor' = [votedFor EXCEPT ![s] = Nil]
  /\ status' = [status EXCEPT ![s] = Follower]
  /\ logs' = [logs EXCEPT ![s] = <<>>]
  /\ snapshot' = [snapshot EXCEPT ![s] = <<>>]
  /\ commitIndex' = [commitIndex EXCEPT ![s] = 0]
  /\ lastApplied' = [lastApplied EXCEPT ![s] = 0]
  /\ nextIndex' = [nextIndex EXCEPT ![s] = [p \in Server |-> 0]]
  /\ matchIndex' = [matchIndex EXCEPT ![s] = [p \in Server |-> 0]]
  /\ votedNum' = [votedNum EXCEPT ![s] = 0]
  /\ appendNums' = [appendNums EXCEPT ![s] = <<>>]
  /\ voteReqs' = {m \in voteReqs : m.from # s}
  /\ voteReps' = {m \in voteReps : m.to # s}
  /\ appendReqs' = {m \in appendReqs : m.from # s}
  /\ appendReps' = {m \in appendReps : m.to # s}
  /\ snapThreads' = {t \in snapThreads : t[1] # s}
  /\ snapReqs' = {m \in snapReqs : m.from # s}
  /\ snapReps' = {m \in snapReps : m.to # s}
  /\ exited' = exited \ {s}
  /\ UNCHANGED <<ballots, counted, elected>>

NextR == (Next /\ UNCHANGED restarts) \/ \E s \in Server : Restart(s)

SpecR == InitR /\ [][NextR]_varsR
=============================================================================
