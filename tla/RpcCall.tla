------------------------------ MODULE RpcCall ------------------------------
(***************************************************************************)
(* What the RPC framework (rpc/) promises the threads of a process that    *)
(* call one peer through one channel: the peer executes a call at most     *)
(* once, perhaps after the caller has given up; the call fails, comes back *)
(* with nothing (the peer has gone, and the caller takes that for an       *)
(* answer) or comes back with replies nobody has had before.  With one     *)
(* caller the reply is the reply to the call; with several it is the reply *)
(* to any of their calls, or several run together.                         *)
(***************************************************************************)
EXTENDS Naturals, Bags

CONSTANT MaxCalls     \* bound on the calls of one thread

VARIABLES
  callers,    \* the threads that share the channel
  issued,     \* the calls made: pairs of caller and number
  runs,       \* bag: the calls the peer has executed
  answers     \* what each call that returned came back with

vars == <<callers, issued, runs, answers>>

\* The calls whose replies have been handed to some caller.
Taken == UNION {answers[k].from : k \in DOMAIN answers}

Init == issued = {} /\ runs = EmptyBag /\ answers = << >>

Issue ==
  /\ \E c \in callers, i \in 1..MaxCalls :
       /\ <<c, i>> \notin issued
       /\ \A k \in issued : k[1] = c => k \in DOMAIN answers
       /\ issued' = issued \cup {<<c, i>>}
  /\ UNCHANGED <<callers, runs, answers>>

Execute ==
  /\ \E k \in issued \ BagToSet(runs) : runs' = SetToBag(BagToSet(runs) \cup {k})
  /\ UNCHANGED <<callers, issued, answers>>

Return ==
  /\ \E k \in issued \ DOMAIN answers, ok \in BOOLEAN :
       \E from \in SUBSET IF ok THEN BagToSet(runs) \ Taken ELSE {} :
         /\ callers = {k[1]} => from \subseteq {k}
         /\ answers' = [j \in DOMAIN answers \cup {k} |->
                          IF j = k THEN [ok |-> ok, from |-> from] ELSE answers[j]]
  /\ UNCHANGED <<callers, issued, runs>>

Next == Issue \/ Execute \/ Return
Spec == Init /\ [][Next]_vars
=============================================================================
