------------------------------ MODULE RaftRpc ------------------------------
(***************************************************************************)
(* Raft nodes on the RPC framework as it is.  Raft.tla gives every call    *)
(* the reply to that call.  But sendAppendEntries is called by a detached  *)
(* thread per heartbeat and peer, all the threads of a peer share one      *)
(* MprpcChannel, and module RpcChannel shows what several callers get: a   *)
(* reply goes to the thread that is in recv first, and requests that       *)
(* arrive together are answered once.                                      *)
(*                                                                         *)
(* What is here is enough for what the module is for, to show that a       *)
(* commit need not be backed; nothing is claimed to survive it.  Left out: *)
(* two replies in one buffer, which Protobuf merges into one; a reply to a *)
(* call of another kind; and the threads of RequestVote, which share the   *)
(* channels too.  sendRequestVote compares the term of the reply with      *)
(* m_currentTerm, not with that of its own call, so a thread of an earlier *)
(* election may count a vote of the present one into its own counter.      *)
(***************************************************************************)
EXTENDS Raft

\* Two AppendEntries of s reach p together.  OnMessage answers the first (m) and
\* drops the other (r), and the thread that sent r is the one that reads the
\* answer: sendAppendEntries takes it for the answer to its own arguments.
TakeOthersReply(m, r) ==
  /\ m \in appendReps /\ r \in appendReqs
  /\ r.from = m.to /\ r.to = m.from
  /\ appendReqs' = appendReqs \ {r}
  /\ appendReps' = (appendReps \ {m}) \cup {AppendReply(m.from, r, m.term, m.success, m.update)}
  /\ UNCHANGED <<nodeVars, logVars, leadVars, voteVars, snapThreads, snapReqs, snapReps, exited>>

\* The call that m answers, with the answer to another.
WithAnswerOf(m, other) ==
  [m EXCEPT !.term = other.term, !.success = other.success, !.update = other.update]

\* Two calls of s to p are answered, and each thread reads the other's answer.
ExchangeReplies(m, n) ==
  /\ {m, n} \subseteq appendReps
  /\ m.from = n.from /\ m.to = n.to
  /\ appendReps' = (appendReps \ {m, n}) \cup {WithAnswerOf(m, n), WithAnswerOf(n, m)}
  /\ UNCHANGED <<nodeVars, logVars, leadVars, voteVars, appendReqs, snapThreads, snapReqs,
                 snapReps, exited>>

NextRpc ==
  \/ Next
  \/ \E m \in appendReps, r \in appendReqs : TakeOthersReply(m, r)
  \/ \E m, n \in appendReps : ExchangeReplies(m, n)

SpecRpc == Init /\ [][NextRpc]_vars
=============================================================================
