----------------------------- MODULE RpcProofs -----------------------------
(***************************************************************************)
(* Module RpcChannel implements RpcCall, for any number of threads, calls  *)
(* and connections.                                                        *)
(*                                                                         *)
(* A call is sent once, so it is on one connection at most and runs at     *)
(* most once; its reply is on one connection at most until somebody takes  *)
(* it.  With one caller, what is on the connection m_clientFd stands for   *)
(* belongs to the call under way: replies that come too late stay on       *)
(* connections that have been given up.                                    *)
(***************************************************************************)
EXTENDS RpcChannel, TLAPS

Calls == Threads \X (1 .. MaxCalls)

\* The calls that have a message on connection k.
On(wire, k) == {wire[k][i] : i \in DOMAIN wire[k]}

\* No call has two messages.
Distinct(wire) ==
  \A k, l \in Conns : \A i \in DOMAIN wire[k], j \in DOMAIN wire[l] :
    wire[k][i] = wire[l][j] => k = l /\ i = j

TypeInv ==
  /\ callers \in Groups
  /\ pc \in [Threads -> {"idle", "connect", "send", "close", "sent", "recv"}]
  /\ n \in [Threads -> 0 .. MaxCalls]
  /\ sock \in [Threads -> 0 .. MaxConns]
  /\ conns \in 0 .. MaxConns
  /\ fd \in 0 .. conns
  /\ alive \subseteq 1 .. conns
  /\ toServer \in [Conns -> Seq(Calls)]
  /\ toClient \in [Conns -> Seq(Calls)]
  /\ DOMAIN runs \subseteq Issued
  /\ DOMAIN answers \subseteq Issued

\* A thread makes one call at a time; all but the one under way have returned.
CallsInv ==
  \A c \in Threads :
    /\ \A i \in 1 .. n[c] : (i = n[c] /\ pc[c] # "idle") \/ <<c, i>> \in DOMAIN answers
    /\ pc[c] # "idle" => n[c] > 0 /\ CallOf(c) \notin DOMAIN answers
    /\ n[c] > 0 => c \in callers
    /\ pc[c] = "recv" => sock[c] # 0

\* A connection nobody has made yet carries nothing.
WiresInv == \A k \in Conns : k > conns => toServer[k] = << >> /\ toClient[k] = << >>

\* What waits for the peer has not been run, and a call has not been sent before
\* CallMethod sends it.
RequestsInv ==
  /\ runs = [k \in DOMAIN runs |-> 1]
  /\ Distinct(toServer)
  /\ \A k \in Conns : On(toServer, k) \subseteq Issued \ DOMAIN runs
  /\ \A c \in Threads : pc[c] \in {"connect", "send", "close"} =>
       /\ CallOf(c) \notin DOMAIN runs
       /\ \A k \in Conns : CallOf(c) \notin On(toServer, k)

\* A reply is to a call that has been run, and has not been handed out.
RepliesInv ==
  /\ Distinct(toClient)
  /\ \A k \in Conns : On(toClient, k) \subseteq DOMAIN runs \ Abs!Taken
  /\ Abs!Taken \subseteq DOMAIN runs

\* The only caller waits on the connection of m_clientFd, where there is nothing
\* but its call and the reply to it.
LoneInv ==
  \A c \in Threads : callers = {c} =>
    /\ pc[c] = "recv" => sock[c] = fd
    /\ fd # 0 =>
         /\ On(toServer, fd) \cup On(toClient, fd) \subseteq
              IF pc[c] \in {"sent", "recv"} THEN {CallOf(c)} ELSE {}
         /\ fd \notin alive => On(toServer, fd) = {}

RpcInv ==
  /\ TypeInv /\ CallsInv /\ WiresInv
  /\ RequestsInv /\ RepliesInv /\ LoneInv

-----------------------------------------------------------------------------
(* Lemmas about the wires *)

\* Reading from the front of a connection, or losing what comes last, adds no
\* message: position i now holds what position i + d held.
Shrinks(wire, less, k, s, d) ==
  /\ {wire, less} \subseteq [Conns -> Seq(Calls)] /\ k \in Conns
  /\ Distinct(wire)
  /\ less[k] = s /\ \A l \in Conns \ {k} : less[l] = wire[l]
  /\ s \in Seq(Calls) /\ d \in Nat /\ d + Len(s) <= Len(wire[k])
  /\ \A i \in 1 .. Len(s) : s[i] = wire[k][i + d]

LEMMA Shrink ==
  ASSUME NEW wire, NEW less, NEW k, NEW s, NEW d, Shrinks(wire, less, k, s, d)
  PROVE  /\ Distinct(less)
         /\ \A l \in Conns : On(less, l) \subseteq On(wire, l)
         /\ \A l \in Conns, i \in 1 .. d : wire[k][i] \notin On(less, l)
         /\ \A l \in Conns : wire[l] = << >> => less[l] = << >>
<1> USE DEF Shrinks
<1> DEFINE from(l, i) == IF l = k THEN i + d ELSE i
<1>1. less \in [Conns -> Seq(Calls)] /\ less[k] = s /\ \A l \in Conns \ {k} : less[l] = wire[l]
  OBVIOUS
<1>2. Len(s) \in Nat /\ DOMAIN s = 1 .. Len(s) /\ Len(wire[k]) \in Nat /\ DOMAIN wire[k] = 1 .. Len(wire[k])
  OBVIOUS
<1>3. \A l \in Conns : \A i \in DOMAIN less[l] :
        i \in Nat /\ from(l, i) \in DOMAIN wire[l] /\ less[l][i] = wire[l][from(l, i)]
  <2> SUFFICES ASSUME NEW l \in Conns, NEW i \in DOMAIN less[l]
               PROVE  i \in Nat /\ from(l, i) \in DOMAIN wire[l] /\ less[l][i] = wire[l][from(l, i)]
    OBVIOUS
  <2>1. CASE l = k
    BY <1>1, <1>2, <2>1
  <2>2. CASE l # k
    <3>1. less[l] = wire[l] /\ wire[l] \in Seq(Calls)
      BY <1>1, <2>2
    <3> QED
      BY <2>2, <3>1
  <2> QED
    BY <2>1, <2>2
<1>4. Distinct(less)
  <2> SUFFICES ASSUME NEW l \in Conns, NEW m \in Conns, NEW i \in DOMAIN less[l],
                      NEW j \in DOMAIN less[m], less[l][i] = less[m][j]
               PROVE  l = m /\ i = j
    BY DEF Distinct
  <2>1. l = m /\ from(l, i) = from(m, j)
    <3> HIDE DEF from
    <3> QED
      BY <1>3 DEF Distinct
  <2> QED
    BY <1>3, <2>1
<1>5. \A l \in Conns : On(less, l) \subseteq On(wire, l)
  <2> HIDE DEF from
  <2> QED
    BY <1>3 DEF On
<1>6. \A l \in Conns, i \in 1 .. d : wire[k][i] \notin On(less, l)
  <2> SUFFICES ASSUME NEW l \in Conns, NEW i \in 1 .. d, NEW j \in DOMAIN less[l],
                      wire[k][i] = less[l][j]
               PROVE  FALSE
    BY DEF On
  <2>1. i \in DOMAIN wire[k]
    BY <1>2
  <2>2. k = l /\ i = from(l, j)
    <3>1. from(l, j) \in DOMAIN wire[l] /\ wire[k][i] = wire[l][from(l, j)]
      BY <1>3
    <3> HIDE DEF from
    <3> QED
      BY <2>1, <3>1 DEF Distinct
  <2>3. j \in 1 .. Len(s)
    BY <1>1, <1>2, <2>2
  <2> QED
    BY <2>2, <2>3
<1>7. \A l \in Conns : wire[l] = << >> => less[l] = << >>
  <2>1. wire[k] = << >> => s = << >>
    BY <1>2
  <2> QED
    BY <1>1, <2>1
<1> QED
  BY <1>1, <1>4, <1>5, <1>6, <1>7

\* A message of a call that has none is added at the end.
Grows(wire, more, k, x) ==
  /\ {wire, more} \subseteq [Conns -> Seq(Calls)] /\ k \in Conns
  /\ Distinct(wire)
  /\ more[k] = Append(wire[k], x) /\ \A l \in Conns \ {k} : more[l] = wire[l]
  /\ x \in Calls /\ \A l \in Conns : x \notin On(wire, l)

LEMMA Grow ==
  ASSUME NEW wire, NEW more, NEW k, NEW x, Grows(wire, more, k, x)
  PROVE  /\ Distinct(more)
         /\ On(more, k) = On(wire, k) \cup {x}
         /\ \A l \in Conns \ {k} : more[l] = wire[l] /\ On(more, l) = On(wire, l)
<1> USE DEF Grows
<1>1. /\ more \in [Conns -> Seq(Calls)]
      /\ more[k] = Append(wire[k], x)
      /\ \A l \in Conns \ {k} : more[l] = wire[l]
  OBVIOUS
<1>2. /\ Len(wire[k]) \in Nat /\ DOMAIN wire[k] = 1 .. Len(wire[k])
      /\ DOMAIN more[k] = 1 .. Len(wire[k]) + 1
      /\ more[k][Len(wire[k]) + 1] = x
      /\ \A i \in DOMAIN wire[k] : more[k][i] = wire[k][i]
  BY <1>1
<1>3. \A l \in Conns : \A i \in DOMAIN more[l] :
        \/ i \in DOMAIN wire[l] /\ more[l][i] = wire[l][i]
        \/ l = k /\ i = Len(wire[k]) + 1 /\ more[l][i] = x
  BY <1>1, <1>2
<1>4. Distinct(more)
  <2> SUFFICES ASSUME NEW l \in Conns, NEW m \in Conns, NEW i \in DOMAIN more[l],
                      NEW j \in DOMAIN more[m], more[l][i] = more[m][j]
               PROVE  l = m /\ i = j
    BY DEF Distinct
  <2>1. \A a \in Conns : \A b \in DOMAIN wire[a] : wire[a][b] # x
    BY DEF On
  <2> QED
    BY <1>3, <2>1 DEF Distinct
<1>5. On(more, k) = On(wire, k) \cup {x}
  <2>1. \A i \in DOMAIN more[k] : more[k][i] \in On(wire, k) \cup {x}
    BY <1>3 DEF On
  <2>2. x \in On(more, k)
    <3>1. Len(wire[k]) + 1 \in DOMAIN more[k]
      BY <1>2
    <3> QED
      BY <1>2, <3>1 DEF On
  <2>3. \A i \in DOMAIN wire[k] : wire[k][i] \in On(more, k)
    <3>1. \A i \in DOMAIN wire[k] : i \in DOMAIN more[k]
      BY <1>2
    <3> QED
      BY <1>2, <3>1 DEF On
  <2> QED
    BY <2>1, <2>2, <2>3 DEF On
<1>6. \A l \in Conns \ {k} : more[l] = wire[l] /\ On(more, l) = On(wire, l)
  BY <1>1 DEF On
<1> QED
  BY <1>1, <1>4, <1>5, <1>6

\* The two ways in which a connection loses messages.
LEMMA Suffix ==
  ASSUME NEW s \in Seq(Calls), NEW j \in 0 .. Len(s)
  PROVE  LET t == SubSeq(s, j + 1, Len(s))
         IN  /\ t \in Seq(Calls) /\ j + Len(t) = Len(s)
             /\ \A i \in 1 .. Len(t) : t[i] = s[i + j]
  OBVIOUS

LEMMA Prefix ==
  ASSUME NEW s \in Seq(Calls), NEW j \in 0 .. Len(s)
  PROVE  LET t == SubSeq(s, 1, j)
         IN  /\ t \in Seq(Calls) /\ Len(t) = j
             /\ \A i \in 1 .. Len(t) : t[i] = s[i]
  OBVIOUS

-----------------------------------------------------------------------------
(* RpcInv is inductive, and each step is one of RpcCall or none *)

LEMMA InitInv == Init => RpcInv /\ Abs!Init
<1> SUFFICES ASSUME Init PROVE RpcInv /\ Abs!Init
  OBVIOUS
<1>1. runs = << >> /\ answers = << >> /\ DOMAIN runs = {} /\ DOMAIN answers = {}
  BY DEF Init, EmptyBag, SetToBag
<1>2. Issued = {}
  BY DEF Init, Issued
<1>3. Abs!Taken = {}
  BY <1>1 DEF Abs!Taken
<1>4. \A k \in Conns : On(toServer, k) = {} /\ On(toClient, k) = {}
  BY DEF Init, On
<1>5. TypeInv
  BY <1>1, RpcAssumption DEF Init, TypeInv, Threads
<1>6. CallsInv /\ WiresInv
  BY DEF Init, CallsInv, WiresInv
<1>7. RequestsInv /\ RepliesInv
  BY <1>1, <1>3, <1>4 DEF Init, RequestsInv, RepliesInv, Distinct
<1>8. LoneInv
  BY DEF Init, LoneInv
<1> QED
  BY <1>2, <1>5, <1>6, <1>7, <1>8 DEF RpcInv, Abs!Init, Init, EmptyBag, SetToBag, Abs!EmptyBag, Abs!SetToBag

\* The numbers of what a thread has issued.
LEMMA CallIssued ==
  ASSUME TypeInv, CallsInv, NEW c \in Threads, pc[c] # "idle"
  PROVE  CallOf(c) \in Issued
<1>1. n[c] \in 1 .. MaxCalls
  BY DEF TypeInv, CallsInv
<1> QED
  BY <1>1 DEF CallOf, Issued

LEMMA CallersAreThreads ==
  ASSUME TypeInv
  PROVE  callers \subseteq Threads /\ Issued \subseteq Calls
  BY DEF TypeInv, Threads, Issued, Calls

\* A call begins: in RpcCall it is issued.
LEMMA CallStep ==
  ASSUME RpcInv, NEW c \in callers, Call(c)
  PROVE  RpcInv' /\ Abs!Issue
<1> DEFINE new == <<c, n[c] + 1>>
<1>1. /\ c \in Threads /\ pc[c] = "idle" /\ n[c] \in 0 .. MaxCalls /\ n[c] < MaxCalls
      /\ n' = [n EXCEPT ![c] = n[c] + 1]
      /\ pc' = [pc EXCEPT ![c] = IF fd = 0 THEN "connect" ELSE "send"]
      /\ UNCHANGED <<callers, sock, connVars, wireVars, runs, answers>>
  BY CallersAreThreads DEF RpcInv, TypeInv, Call, Goto
<1>2. MaxCalls \in Nat /\ n[c] + 1 \in 1 .. MaxCalls
  BY <1>1, RpcAssumption
<1>3. Issued' = Issued \cup {new} /\ new \notin Issued /\ CallOf(c)' = new
  <2>1. n \in [Threads -> 0 .. MaxCalls] /\ n'[c] = n[c] + 1 /\ \A d \in Threads \ {c} : n'[d] = n[d]
    BY <1>1 DEF RpcInv, TypeInv
  <2>2. \A k \in Threads \X (1 .. MaxCalls) : k \in Issued' <=> k \in Issued \/ k = new
    <3> SUFFICES ASSUME NEW d \in Threads, NEW i \in 1 .. MaxCalls
                 PROVE  <<d, i>> \in Issued' <=> <<d, i>> \in Issued \/ <<d, i>> = new
      OBVIOUS
    <3>1. (<<d, i>> \in Issued' <=> i <= n'[d]) /\ (<<d, i>> \in Issued <=> i <= n[d])
      BY DEF Issued
    <3>2. CASE d = c
      BY <1>1, <2>1, <3>1, <3>2
    <3>3. CASE d # c
      BY <2>1, <3>1, <3>3
    <3> QED
      BY <3>2, <3>3
  <2>3. new \in Threads \X (1 .. MaxCalls)
    BY <1>1, <1>2
  <2>4. new \notin Issued
    BY <1>1 DEF Issued
  <2>5. Issued \subseteq Threads \X (1 .. MaxCalls) /\ Issued' \subseteq Threads \X (1 .. MaxCalls)
    BY DEF Issued
  <2> QED
    BY <2>1, <2>2, <2>3, <2>4, <2>5 DEF CallOf
<1>4. TypeInv'
  BY <1>1, <1>2, <1>3 DEF RpcInv, TypeInv, connVars, wireVars, Conns, Calls
<1>5. CallsInv'
  <2> SUFFICES ASSUME NEW d \in Threads
               PROVE  /\ \A i \in 1 .. n'[d] : (i = n'[d] /\ pc'[d] # "idle") \/ <<d, i>> \in DOMAIN answers'
                      /\ pc'[d] # "idle" => n'[d] > 0 /\ <<d, n'[d]>> \notin DOMAIN answers'
                      /\ n'[d] > 0 => d \in callers'
                      /\ pc'[d] = "recv" => sock'[d] # 0
    BY DEF CallsInv, CallOf
  <2>1. CASE d = c
    <3>1. n'[c] = n[c] + 1 /\ pc'[c] \in {"connect", "send"}
      BY <1>1 DEF RpcInv, TypeInv
    <3>2. \A i \in 1 .. n[c] : <<c, i>> \in DOMAIN answers
      BY <1>1 DEF RpcInv, CallsInv
    <3>3. new \notin DOMAIN answers
      BY <1>3 DEF RpcInv, TypeInv
    <3> QED
      BY <1>1, <1>2, <2>1, <3>1, <3>2, <3>3
  <2>2. CASE d # c
    <3>1. n'[d] = n[d] /\ pc'[d] = pc[d]
      BY <1>1, <2>2 DEF RpcInv, TypeInv
    <3> QED
      BY <1>1, <3>1 DEF RpcInv, CallsInv, CallOf
  <2> QED
    BY <2>1, <2>2
<1>6. WiresInv'
  BY <1>1 DEF RpcInv, WiresInv, connVars, wireVars
<1>7. RequestsInv'
  <2>1. \A d \in Threads : pc'[d] \in {"connect", "send", "close"} =>
          /\ CallOf(d)' \notin DOMAIN runs
          /\ \A k \in Conns : CallOf(d)' \notin On(toServer, k)
    <3> SUFFICES ASSUME NEW d \in Threads, pc'[d] \in {"connect", "send", "close"}
                 PROVE  /\ CallOf(d)' \notin DOMAIN runs
                        /\ \A k \in Conns : CallOf(d)' \notin On(toServer, k)
      OBVIOUS
    <3>1. CASE d = c
      BY <1>3, <3>1 DEF RpcInv, TypeInv, RequestsInv
    <3>2. CASE d # c
      <4>1. n'[d] = n[d] /\ pc'[d] = pc[d]
        BY <1>1, <3>2 DEF RpcInv, TypeInv
      <4> QED
        BY <4>1 DEF RpcInv, RequestsInv, CallOf
    <3> QED
      BY <3>1, <3>2
  <2> QED
    BY <1>1, <1>3, <2>1 DEF RpcInv, RequestsInv, wireVars, Distinct, On, Conns
<1>8. RepliesInv'
  BY <1>1 DEF RpcInv, RepliesInv, wireVars, Distinct, On, Conns, Abs!Taken
<1>9. LoneInv'
  <2> SUFFICES ASSUME NEW d \in Threads, callers = {d}
               PROVE  /\ pc'[d] = "recv" => sock[d] = fd
                      /\ fd # 0 =>
                           /\ On(toServer, fd) \cup On(toClient, fd) \subseteq
                                IF pc'[d] \in {"sent", "recv"} THEN {CallOf(d)'} ELSE {}
                           /\ fd \notin alive => On(toServer, fd) = {}
    BY <1>1 DEF LoneInv, connVars, wireVars, On
  <2>1. d = c
    OBVIOUS
  <2>2. pc'[c] \notin {"sent", "recv"}
    BY <1>1 DEF RpcInv, TypeInv
  <2> QED
    BY <1>1, <2>1, <2>2 DEF RpcInv, LoneInv
<1>10. Abs!Issue
  <2>1. new \notin Issued
    BY <1>3
  <2>2. \A k \in Issued : k[1] = c => k \in DOMAIN answers
    <3> SUFFICES ASSUME NEW i \in 1 .. MaxCalls, <<c, i>> \in Issued
                 PROVE  <<c, i>> \in DOMAIN answers
      BY DEF Issued
    <3>1. i \in 1 .. n[c]
      BY <1>1 DEF Issued
    <3> QED
      BY <1>1, <3>1 DEF RpcInv, CallsInv
  <2> QED
    BY <1>1, <1>2, <1>3, <2>1, <2>2 DEF Abs!Issue
<1> QED
  BY <1>4, <1>5, <1>6, <1>7, <1>8, <1>9, <1>10 DEF RpcInv

\* Steps inside CallMethod that send, take and return nothing: RpcCall does not
\* see them.  A connection the thread moves to carries nothing.
Local(c, l) ==
  /\ pc[c] # "idle" /\ Goto(c, l)
  /\ l \in {"connect", "send", "close", "sent", "recv"}
  /\ pc[c] \in {"sent", "recv"} <=> l \in {"sent", "recv"}
  /\ conns' \in conns .. MaxConns /\ fd' \in 0 .. conns' /\ alive' \subseteq 1 .. conns'
  /\ fd' \in {0, fd, conns + 1}
  /\ callers = {c} /\ fd' = fd => alive' = alive
  /\ sock' \in [Threads -> 0 .. MaxConns] /\ \A d \in Threads \ {c} : sock'[d] = sock[d]
  /\ l = "recv" => sock'[c] = fd' /\ fd' # 0
  /\ UNCHANGED <<callers, n, wireVars, runs, answers>>

LEMMA LocalStep ==
  ASSUME RpcInv, NEW c \in callers, NEW l, Local(c, l)
  PROVE  RpcInv' /\ UNCHANGED Abs!vars
<1>1. /\ c \in Threads /\ pc' = [pc EXCEPT ![c] = l]
      /\ UNCHANGED <<callers, n, toServer, toClient, runs, answers>>
  BY CallersAreThreads DEF RpcInv, Local, Goto, wireVars
<1> USE DEF Local
<1>2. Issued' = Issued /\ Abs!Taken' = Abs!Taken /\ \A d \in Threads : CallOf(d)' = CallOf(d)
  BY <1>1 DEF Issued, Abs!Taken, CallOf
<1>3. pc'[c] = l /\ \A d \in Threads \ {c} : pc'[d] = pc[d]
  BY <1>1 DEF RpcInv, TypeInv
<1>4. TypeInv'
  BY <1>1, <1>2, RpcAssumption DEF RpcInv, TypeInv, Conns, Calls
<1>5. CallsInv'
  <2> SUFFICES ASSUME NEW d \in Threads
               PROVE  /\ \A i \in 1 .. n[d] : (i = n[d] /\ pc'[d] # "idle") \/ <<d, i>> \in DOMAIN answers
                      /\ pc'[d] # "idle" => n[d] > 0 /\ CallOf(d) \notin DOMAIN answers
                      /\ n[d] > 0 => d \in callers
                      /\ pc'[d] = "recv" => sock'[d] # 0
    BY <1>1, <1>2 DEF CallsInv
  <2>1. CASE d = c
    BY <1>3, <2>1 DEF RpcInv, CallsInv
  <2>2. CASE d # c
    BY <1>3, <2>2 DEF RpcInv, CallsInv
  <2> QED
    BY <2>1, <2>2
<1>6. WiresInv'
  <2>1. \A k \in Conns : k > conns' => k > conns
    BY RpcAssumption DEF RpcInv, TypeInv, Conns
  <2> QED
    BY <1>1, <2>1 DEF RpcInv, WiresInv, Conns
<1>7. RequestsInv'
  <2>1. \A d \in Threads : pc'[d] \in {"connect", "send", "close"} => pc[d] \in {"connect", "send", "close"}
    <3>1. pc[c] \in {"idle", "connect", "send", "close", "sent", "recv"}
      BY <1>1 DEF RpcInv, TypeInv
    <3> QED
      BY <1>3, <3>1
  <2> QED
    BY <1>1, <1>2, <2>1 DEF RpcInv, RequestsInv, Distinct, On, Conns
<1>8. RepliesInv'
  BY <1>1, <1>2 DEF RpcInv, RepliesInv, Distinct, On, Conns
<1>9. LoneInv'
  <2> SUFFICES ASSUME NEW d \in Threads, callers = {d}
               PROVE  /\ pc'[d] = "recv" => sock'[d] = fd'
                      /\ fd' # 0 =>
                           /\ On(toServer, fd') \cup On(toClient, fd') \subseteq
                                IF pc'[d] \in {"sent", "recv"} THEN {CallOf(d)} ELSE {}
                           /\ fd' \notin alive' => On(toServer, fd') = {}
    BY <1>1, <1>2 DEF LoneInv, On
  <2>1. d = c
    OBVIOUS
  <2>2. CASE fd' = fd
    BY <1>3, <2>1, <2>2 DEF RpcInv, LoneInv
  <2>3. CASE fd' = 0
    BY <1>3, <2>1, <2>3
  <2>4. CASE fd' = conns + 1
    <3>1. fd' \in Conns /\ fd' > conns
      BY <2>4, RpcAssumption DEF RpcInv, TypeInv, Conns
    <3>2. On(toServer, fd') = {} /\ On(toClient, fd') = {}
      BY <3>1 DEF RpcInv, WiresInv, On
    <3> QED
      BY <1>3, <2>1, <3>2
  <2> QED
    BY <2>2, <2>3, <2>4
<1>10. UNCHANGED Abs!vars
  BY <1>1, <1>2 DEF Abs!vars
<1> QED
  BY <1>4, <1>5, <1>6, <1>7, <1>8, <1>9, <1>10 DEF RpcInv

LEMMA ConnectStep ==
  ASSUME RpcInv, NEW c \in callers, Connect(c)
  PROVE  RpcInv' /\ UNCHANGED Abs!vars
<1>1. conns \in 0 .. MaxConns /\ fd \in 0 .. conns /\ alive \subseteq 1 .. conns
      /\ sock \in [Threads -> 0 .. MaxConns] /\ MaxConns \in Nat
  BY RpcAssumption DEF RpcInv, TypeInv
<1>2. /\ conns' = conns + 1 /\ conns < MaxConns /\ fd' = conns + 1
      /\ alive' = alive \cup {conns + 1} /\ sock' = sock
      /\ pc[c] = "connect" /\ Goto(c, "send")
      /\ UNCHANGED <<callers, n, wireVars, runs, answers>>
  BY DEF Connect
<1>3. /\ conns' \in conns .. MaxConns /\ fd' \in 0 .. conns' /\ alive' \subseteq 1 .. conns'
      /\ fd' # fd
  BY <1>1, <1>2
<1>4. Local(c, "send")
  BY <1>1, <1>2, <1>3 DEF Local
<1> QED
  BY <1>4, LocalStep

LEMMA SendFailsStep ==
  ASSUME RpcInv, NEW c \in callers, SendFails(c)
  PROVE  RpcInv' /\ UNCHANGED Abs!vars
<1>1. conns \in 0 .. MaxConns /\ fd \in 0 .. conns /\ alive \subseteq 1 .. conns
      /\ sock \in [Threads -> 0 .. MaxConns] /\ MaxConns \in Nat
  BY RpcAssumption DEF RpcInv, TypeInv
<1>2. /\ pc[c] = "send" /\ Goto(c, "close") /\ conns' \in conns .. MaxConns
      /\ UNCHANGED <<callers, n, sock, fd, conns, alive, wireVars, runs, answers>>
  BY <1>1 DEF SendFails, connVars
<1>3. Local(c, "close")
  BY <1>1, <1>2 DEF Local
<1> QED
  BY <1>3, LocalStep

LEMMA CloseAfterSendStep ==
  ASSUME RpcInv, NEW c \in callers, CloseAfterSend(c)
  PROVE  RpcInv' /\ UNCHANGED Abs!vars
<1>1. conns \in 0 .. MaxConns /\ fd \in 0 .. conns /\ alive \subseteq 1 .. conns
      /\ sock \in [Threads -> 0 .. MaxConns] /\ MaxConns \in Nat
  BY RpcAssumption DEF RpcInv, TypeInv
<1>2. /\ pc[c] = "close" /\ Goto(c, "connect") /\ conns' \in conns .. MaxConns
      /\ fd' = 0 /\ conns' = conns /\ alive' \subseteq 1 .. conns'
      /\ fd' = fd => alive' = alive
      /\ UNCHANGED <<callers, n, sock, wireVars, runs, answers>>
  <2>1. fd = 0 => fd \notin alive
    BY <1>1
  <2> QED
    BY <1>1, <2>1 DEF CloseAfterSend, CloseFd
<1>3. Local(c, "connect")
  BY <1>1, <1>2 DEF Local
<1> QED
  BY <1>3, LocalStep

LEMMA EnterRecvStep ==
  ASSUME RpcInv, NEW c \in callers, EnterRecv(c)
  PROVE  RpcInv' /\ UNCHANGED Abs!vars
<1>1. conns \in 0 .. MaxConns /\ fd \in 0 .. conns /\ alive \subseteq 1 .. conns
      /\ sock \in [Threads -> 0 .. MaxConns] /\ MaxConns \in Nat /\ c \in Threads
  BY RpcAssumption, CallersAreThreads DEF RpcInv, TypeInv
<1>2. /\ pc[c] = "sent" /\ Goto(c, "recv") /\ conns' \in conns .. MaxConns /\ fd # 0
      /\ sock' = [sock EXCEPT ![c] = fd]
      /\ UNCHANGED <<callers, n, fd, conns, alive, wireVars, runs, answers>>
  BY <1>1 DEF EnterRecv, connVars
<1>3. /\ sock' \in [Threads -> 0 .. MaxConns] /\ sock'[c] = fd'
      /\ \A d \in Threads \ {c} : sock'[d] = sock[d]
  BY <1>1, <1>2
<1>4. Local(c, "recv")
  BY <1>1, <1>2, <1>3 DEF Local
<1> QED
  BY <1>4, LocalStep

\* A call returns: in RpcCall it returns as well.  What it comes back with must be
\* replies nobody has had, that leave the wire.
LEMMA ReturnStep ==
  ASSUME RpcInv, NEW c \in callers, pc[c] # "idle", NEW ok \in BOOLEAN, NEW from,
         Return(c, [ok |-> ok, from |-> from]),
         from \subseteq DOMAIN runs \ Abs!Taken, ~ok => from = {},
         callers = {c} => from \subseteq {CallOf(c)},
         fd' \in {0, fd}, alive' \subseteq alive, callers = {c} /\ fd' = fd => alive' = alive,
         toClient' \in [Conns -> Seq(Calls)], Distinct(toClient'),
         \A k \in Conns : On(toClient', k) \subseteq On(toClient, k) \ from,
         \A k \in Conns : toClient[k] = << >> => toClient'[k] = << >>,
         callers = {c} /\ fd' # 0 => On(toServer, fd) = {} /\ On(toClient', fd) = {},
         UNCHANGED <<callers, n, sock, conns, toServer, runs>>
  PROVE  RpcInv' /\ Abs!Return
<1>1. /\ c \in Threads /\ pc' = [pc EXCEPT ![c] = "idle"]
      /\ answers' = [k \in DOMAIN answers \cup {CallOf(c)} |->
                       IF k = CallOf(c) THEN [ok |-> ok, from |-> from] ELSE answers[k]]
  BY CallersAreThreads DEF RpcInv, Return, Goto
<1>2. /\ CallOf(c) \in Issued /\ CallOf(c) \notin DOMAIN answers
      /\ Issued' = Issued /\ \A d \in Threads : CallOf(d)' = CallOf(d)
  BY <1>1, CallIssued DEF RpcInv, CallsInv, CallOf, Issued
<1>3. DOMAIN answers' = DOMAIN answers \cup {CallOf(c)}
  BY <1>1
<1>4. Abs!Taken' = Abs!Taken \cup from
  <2>1. answers'[CallOf(c)].from = from
    BY <1>1
  <2>2. \A k \in DOMAIN answers : answers'[k] = answers[k]
    BY <1>1, <1>2
  <2> QED
    BY <1>3, <2>1, <2>2 DEF Abs!Taken
<1>5. pc'[c] = "idle" /\ \A d \in Threads \ {c} : pc'[d] = pc[d]
  BY <1>1 DEF RpcInv, TypeInv
<1>6. TypeInv'
  BY <1>1, <1>2, <1>3 DEF RpcInv, TypeInv, Conns, Calls
<1>7. CallsInv'
  <2> SUFFICES ASSUME NEW d \in Threads
               PROVE  /\ \A i \in 1 .. n[d] : (i = n[d] /\ pc'[d] # "idle") \/ <<d, i>> \in DOMAIN answers'
                      /\ pc'[d] # "idle" => n[d] > 0 /\ CallOf(d) \notin DOMAIN answers'
                      /\ n[d] > 0 => d \in callers
                      /\ pc'[d] = "recv" => sock[d] # 0
    BY <1>2 DEF CallsInv
  <2>1. CASE d = c
    <3>1. \A i \in 1 .. n[c] : i = n[c] \/ <<c, i>> \in DOMAIN answers
      BY <1>1 DEF RpcInv, CallsInv
    <3> QED
      BY <1>3, <1>5, <2>1, <3>1 DEF RpcInv, CallsInv, CallOf
  <2>2. CASE d # c
    <3>1. CallOf(d) # CallOf(c)
      BY <2>2 DEF CallOf
    <3> QED
      BY <1>3, <1>5, <2>2, <3>1 DEF RpcInv, CallsInv
  <2> QED
    BY <2>1, <2>2
<1>8. WiresInv'
  BY DEF RpcInv, WiresInv, Conns
<1>9. RequestsInv'
  <2>1. \A d \in Threads : pc'[d] \in {"connect", "send", "close"} => pc[d] \in {"connect", "send", "close"}
    BY <1>5
  <2> QED
    BY <1>2, <2>1 DEF RpcInv, RequestsInv, Distinct, On, Conns
<1>10. RepliesInv'
  <2>1. \A k \in Conns : On(toClient', k) \subseteq DOMAIN runs \ Abs!Taken'
    BY <1>4 DEF RpcInv, RepliesInv
  <2>2. Abs!Taken' \subseteq DOMAIN runs
    BY <1>4 DEF RpcInv, RepliesInv
  <2> QED
    BY <2>1, <2>2 DEF RepliesInv, Distinct, On, Conns
<1>11. LoneInv'
  <2>0. /\ On(toServer, fd)' = On(toServer, fd') /\ On(toClient, fd)' = On(toClient', fd')
        /\ callers' = callers /\ sock' = sock
    BY DEF On
  <2> SUFFICES ASSUME NEW d \in Threads, callers = {d}
               PROVE  /\ pc'[d] = "recv" => sock[d] = fd'
                      /\ fd' # 0 =>
                           /\ On(toServer, fd') \cup On(toClient', fd') \subseteq
                                IF pc'[d] \in {"sent", "recv"} THEN {CallOf(d)} ELSE {}
                           /\ fd' \notin alive' => On(toServer, fd') = {}
    BY <1>2, <2>0 DEF LoneInv
  <2>1. d = c /\ pc'[d] = "idle"
    BY <1>5
  <2>2. CASE fd' = 0
    BY <2>1, <2>2
  <2>3. CASE fd' # 0
    <3>1. fd' = fd /\ callers = {c}
      BY <2>1, <2>3
    <3>2. On(toServer, fd) = {} /\ On(toClient', fd) = {}
      BY <2>3, <3>1
    <3>3. On(toServer, fd') = {} /\ On(toClient', fd') = {}
      BY <3>1, <3>2
    <3> QED
      BY <2>1, <2>3, <3>3
  <2> QED
    BY <2>2, <2>3
<1>12. Abs!Return
  <2>1. from \in SUBSET IF ok THEN Abs!BagToSet(runs) \ Abs!Taken ELSE {}
    BY DEF Abs!BagToSet
  <2>2. callers = {CallOf(c)[1]} => from \subseteq {CallOf(c)}
    BY DEF CallOf
  <2>3. CallOf(c) \in Issued \ DOMAIN answers
    BY <1>2
  <2>4. UNCHANGED <<callers, Issued, runs>>
    BY <1>2
  <2> QED
    <3> SUFFICES \E k \in Issued \ DOMAIN answers, good \in BOOLEAN :
                   \E taken \in SUBSET IF good THEN Abs!BagToSet(runs) \ Abs!Taken ELSE {} :
                     /\ callers = {k[1]} => taken \subseteq {k}
                     /\ answers' = [j \in DOMAIN answers \cup {k} |->
                                      IF j = k THEN [ok |-> good, from |-> taken] ELSE answers[j]]
      BY <2>4 DEF Abs!Return
    <3> WITNESS CallOf(c) \in Issued \ DOMAIN answers, ok \in BOOLEAN
    <3> WITNESS from \in SUBSET IF ok THEN Abs!BagToSet(runs) \ Abs!Taken ELSE {}
    <3> QED
      BY <1>1, <2>2
<1> QED
  BY <1>6, <1>7, <1>8, <1>9, <1>10, <1>11, <1>12 DEF RpcInv

\* A call that comes back with nothing leaves the wires alone.
LEMMA ReturnNothing ==
  ASSUME RpcInv, NEW c \in callers, pc[c] # "idle", NEW ok \in BOOLEAN,
         Return(c, [ok |-> ok, from |-> {}]),
         fd' \in {0, fd}, alive' \subseteq alive, callers = {c} /\ fd' = fd => alive' = alive,
         callers = {c} /\ fd' # 0 => On(toServer, fd) = {} /\ On(toClient, fd) = {},
         UNCHANGED <<callers, n, sock, conns, wireVars, runs>>
  PROVE  RpcInv' /\ Abs!Return
<1>1. /\ toClient' = toClient /\ toServer' = toServer
      /\ toClient \in [Conns -> Seq(Calls)] /\ Distinct(toClient)
  BY DEF wireVars, RpcInv, TypeInv, RepliesInv
<1>2. /\ toClient' \in [Conns -> Seq(Calls)] /\ Distinct(toClient')
      /\ \A k \in Conns : On(toClient', k) \subseteq On(toClient, k) \ {}
      /\ \A k \in Conns : toClient[k] = << >> => toClient'[k] = << >>
      /\ callers = {c} /\ fd' # 0 => On(toServer, fd) = {} /\ On(toClient', fd) = {}
  BY <1>1
<1>3. UNCHANGED <<callers, n, sock, conns, toServer, runs>>
  BY <1>1
<1> QED
  BY <1>2, <1>3, ReturnStep

LEMMA FailStep ==
  ASSUME RpcInv, NEW c \in callers, ConnectFails(c) \/ RecvNoFd(c) \/ RecvError(c)
  PROVE  RpcInv' /\ Abs!Return
<1>1. fd = 0 => fd \notin alive
  BY DEF RpcInv, TypeInv
<1>2. /\ pc[c] # "idle" /\ Return(c, [ok |-> FALSE, from |-> {}])
      /\ fd' = 0 /\ alive' \subseteq alive /\ (fd' = fd => alive' = alive)
      /\ UNCHANGED <<callers, n, sock, conns, wireVars, runs>>
  BY <1>1 DEF ConnectFails, RecvNoFd, RecvError, Failed, CloseFd, connVars
<1> QED
  BY <1>2, ReturnNothing

\* The peer has closed the connection: the caller takes nothing for an answer.
LEMMA RecvEmptyStep ==
  ASSUME RpcInv, NEW c \in callers, RecvEmpty(c)
  PROVE  RpcInv' /\ Abs!Return
<1>1. /\ c \in Threads /\ pc[c] = "recv" /\ Return(c, [ok |-> TRUE, from |-> {}])
      /\ UNCHANGED <<callers, n, sock, fd, conns, alive, wireVars, runs>>
  BY CallersAreThreads DEF RecvEmpty, connVars, RpcInv
<1>2. callers = {c} /\ fd # 0 => On(toServer, fd) = {} /\ On(toClient, fd) = {}
  <2> SUFFICES ASSUME callers = {c}, fd # 0 PROVE On(toServer, fd) = {} /\ On(toClient, fd) = {}
    OBVIOUS
  <2>1. sock[c] = fd
    BY <1>1 DEF RpcInv, LoneInv
  <2>2. fd \notin alive /\ toClient[fd] = << >>
    BY <2>1 DEF RecvEmpty
  <2>3. On(toServer, fd) = {}
    BY <1>1, <2>2 DEF RpcInv, LoneInv
  <2>4. On(toClient, fd) = {}
    BY <2>2 DEF On
  <2> QED
    BY <2>3, <2>4
<1> QED
  BY <1>1, <1>2, ReturnNothing

\* The replies that recv returns leave the wire, and with one caller the only one
\* there can be is its own.
LEMMA RecvReplyStep ==
  ASSUME RpcInv, NEW c \in callers, RecvReply(c)
  PROVE  RpcInv' /\ Abs!Return
<1> DEFINE k == sock[c]
<1>1. /\ c \in Threads /\ pc[c] = "recv" /\ k \in Conns
      /\ toClient \in [Conns -> Seq(Calls)] /\ Distinct(toClient)
  BY CallersAreThreads, RpcAssumption DEF RecvReply, RpcInv, TypeInv, CallsInv, RepliesInv, Conns
<1>2. PICK j \in 1 .. Len(toClient[k]) :
        /\ toClient' = [toClient EXCEPT ![k] = SubSeq(@, j + 1, Len(@))]
        /\ Return(c, [ok |-> TRUE, from |-> ToSet(SubSeq(toClient[k], 1, j))])
  BY DEF RecvReply
<1> DEFINE from == ToSet(SubSeq(toClient[k], 1, j))
           rest == SubSeq(toClient[k], j + 1, Len(toClient[k]))
<1>3. toClient[k] \in Seq(Calls) /\ j \in 0 .. Len(toClient[k]) /\ j \in Nat
  BY <1>1, <1>2
<1>4. from = {toClient[k][i] : i \in 1 .. j}
  <2> DEFINE first == SubSeq(toClient[k], 1, j)
  <2>1. first \in Seq(Calls) /\ Len(first) = j /\ \A i \in 1 .. j : first[i] = toClient[k][i]
    BY <1>3, Prefix
  <2>2. from = {first[i] : i \in 1 .. j}
    <3> HIDE DEF first
    <3>1. DOMAIN first = 1 .. j
      BY <1>3, <2>1
    <3> QED
      BY <3>1 DEF ToSet, first
  <2> HIDE DEF first
  <2> QED
    BY <2>1, <2>2
<1>5. rest \in Seq(Calls) /\ j + Len(rest) = Len(toClient[k])
      /\ \A i \in 1 .. Len(rest) : rest[i] = toClient[k][i + j]
  BY <1>3, Suffix
<1>6. /\ toClient' \in [Conns -> Seq(Calls)] /\ Distinct(toClient')
      /\ \A l \in Conns : On(toClient', l) \subseteq On(toClient, l)
      /\ \A l \in Conns, i \in 1 .. j : toClient[k][i] \notin On(toClient', l)
      /\ \A l \in Conns : toClient[l] = << >> => toClient'[l] = << >>
  <2>1. /\ toClient' \in [Conns -> Seq(Calls)] /\ toClient'[k] = rest
        /\ \A l \in Conns \ {k} : toClient'[l] = toClient[l]
        /\ j + Len(rest) <= Len(toClient[k])
    <3>1. toClient' = [toClient EXCEPT ![k] = rest]
      BY <1>2
    <3>2. Len(rest) \in Nat /\ Len(toClient[k]) \in Nat
      BY <1>3, <1>5
    <3> HIDE DEF rest, k
    <3> QED
      BY <1>1, <1>3, <1>5, <3>1, <3>2
  <2> HIDE DEF rest, k
  <2>2. Shrinks(toClient, toClient', k, rest, j)
    BY <1>1, <1>3, <1>5, <2>1 DEF Shrinks
  <2> QED
    BY <2>1, <2>2, Shrink
<1>7. \A i \in 1 .. j : toClient[k][i] \in On(toClient, k)
  BY <1>3 DEF On
<1>8. from \subseteq DOMAIN runs \ Abs!Taken
  BY <1>1, <1>4, <1>7 DEF RpcInv, RepliesInv
<1>9. \A l \in Conns : On(toClient', l) \subseteq On(toClient, l) \ from
  BY <1>4, <1>6
<1>10. callers = {c} => /\ from \subseteq {CallOf(c)} /\ k = fd
                        /\ On(toServer, fd) = {} /\ On(toClient', fd) = {}
  <2> SUFFICES ASSUME callers = {c}
               PROVE  /\ from \subseteq {CallOf(c)} /\ k = fd
                      /\ On(toServer, fd) = {} /\ On(toClient', fd) = {}
    OBVIOUS
  <2>1. k = fd /\ fd # 0 /\ fd \in Conns
    BY <1>1 DEF RpcInv, LoneInv, Conns
  <2>2. On(toServer, fd) \subseteq {CallOf(c)} /\ On(toClient, fd) \subseteq {CallOf(c)}
    BY <1>1, <2>1 DEF RpcInv, LoneInv
  <2>3. 1 \in 1 .. j /\ toClient[k][1] \in On(toClient, k)
    BY <1>2, <1>3, <1>7
  <2>4. toClient[k][1] = CallOf(c)
    BY <2>1, <2>2, <2>3
  <2>5. CallOf(c) \in DOMAIN runs /\ CallOf(c) \notin On(toClient', fd)
    BY <1>6, <2>1, <2>3, <2>4 DEF RpcInv, RepliesInv
  <2>6. CallOf(c) \notin On(toServer, fd)
    BY <2>1, <2>5 DEF RpcInv, RequestsInv
  <2>7. from \subseteq {CallOf(c)}
    BY <1>4, <1>7, <2>1, <2>2
  <2> QED
    BY <1>6, <2>1, <2>2, <2>5, <2>6, <2>7
<1>11. /\ Return(c, [ok |-> TRUE, from |-> from])
       /\ UNCHANGED <<callers, n, sock, fd, alive, conns, toServer, runs>>
  BY <1>2 DEF RecvReply, connVars
<1> HIDE DEF k, from, rest
<1> QED
  BY <1>1, <1>6, <1>8, <1>9, <1>10, <1>11, ReturnStep

\* A request is put on the wire, or lost: RpcCall does not see it.
LEMMA SendStep ==
  ASSUME RpcInv, NEW c \in callers, Send(c)
  PROVE  RpcInv' /\ UNCHANGED Abs!vars
<1>1. /\ c \in Threads /\ pc[c] = "send" /\ fd # 0 /\ fd \in Conns /\ fd <= conns
      /\ pc' = [pc EXCEPT ![c] = "sent"]
      /\ toServer' = IF fd \in alive
                     THEN [toServer EXCEPT ![fd] = Append(@, CallOf(c))] ELSE toServer
      /\ UNCHANGED <<callers, n, sock, fd, conns, alive, toClient, runs, answers>>
      /\ toServer \in [Conns -> Seq(Calls)] /\ Distinct(toServer)
  BY CallersAreThreads, RpcAssumption
  DEF Send, Goto, connVars, RpcInv, TypeInv, RequestsInv, Conns
<1>2. /\ Issued' = Issued /\ Abs!Taken' = Abs!Taken /\ \A d \in Threads : CallOf(d)' = CallOf(d)
      /\ CallOf(c) \in Issued /\ CallOf(c) \in Calls
  BY <1>1, CallIssued, CallersAreThreads DEF RpcInv, Issued, Abs!Taken, CallOf
<1>3. pc'[c] = "sent" /\ \A d \in Threads \ {c} : pc'[d] = pc[d]
  BY <1>1 DEF RpcInv, TypeInv
<1>4. /\ CallOf(c) \notin DOMAIN runs
      /\ \A k \in Conns : CallOf(c) \notin On(toServer, k)
  BY <1>1 DEF RpcInv, RequestsInv
<1>5. /\ toServer' \in [Conns -> Seq(Calls)] /\ Distinct(toServer')
      /\ \A k \in Conns : On(toServer', k) \subseteq On(toServer, k) \cup {CallOf(c)}
      /\ \A k \in Conns \ {fd} : toServer'[k] = toServer[k]
      /\ fd \notin alive => toServer' = toServer
  <2>1. CASE fd \in alive
    <3>1. /\ toServer' \in [Conns -> Seq(Calls)]
          /\ toServer'[fd] = Append(toServer[fd], CallOf(c))
          /\ \A l \in Conns \ {fd} : toServer'[l] = toServer[l]
      BY <1>1, <1>2, <2>1
    <3>2. Grows(toServer, toServer', fd, CallOf(c))
      BY <1>1, <1>2, <1>4, <3>1 DEF Grows
    <3> QED
      BY <2>1, <3>1, <3>2, Grow
  <2>2. CASE fd \notin alive
    BY <1>1, <2>2
  <2> QED
    BY <2>1, <2>2
<1>6. TypeInv'
  BY <1>1, <1>2, <1>5 DEF RpcInv, TypeInv, Conns, Calls
<1>7. CallsInv'
  BY <1>1, <1>2, <1>3 DEF RpcInv, CallsInv
<1>8. WiresInv'
  <2>1. \A k \in Conns : k > conns => k # fd
    BY <1>1 DEF RpcInv, TypeInv, Conns
  <2> QED
    BY <1>1, <1>5, <2>1 DEF RpcInv, WiresInv, Conns
<1>9. RequestsInv'
  <2>1. \A d \in Threads : pc'[d] \in {"connect", "send", "close"} =>
          /\ CallOf(d) \notin DOMAIN runs
          /\ \A k \in Conns : CallOf(d) \notin On(toServer', k)
    <3> SUFFICES ASSUME NEW d \in Threads, pc'[d] \in {"connect", "send", "close"}
                 PROVE  /\ CallOf(d) \notin DOMAIN runs
                        /\ \A k \in Conns : CallOf(d) \notin On(toServer', k)
      OBVIOUS
    <3>1. d # c /\ pc[d] \in {"connect", "send", "close"}
      BY <1>3
    <3>2. CallOf(d) # CallOf(c)
      BY <3>1 DEF CallOf
    <3> QED
      BY <1>5, <3>1, <3>2 DEF RpcInv, RequestsInv
  <2>2. \A k \in Conns : On(toServer', k) \subseteq Issued \ DOMAIN runs
    BY <1>2, <1>4, <1>5 DEF RpcInv, RequestsInv
  <2> QED
    BY <1>1, <1>2, <1>5, <2>1, <2>2 DEF RpcInv, RequestsInv, Distinct, On, Conns
<1>10. RepliesInv'
  BY <1>1, <1>2 DEF RpcInv, RepliesInv, Distinct, On, Conns
<1>11. LoneInv'
  <2>1. /\ On(toServer, fd)' = On(toServer', fd) /\ On(toClient, fd)' = On(toClient, fd)
    BY <1>1 DEF On
  <2> SUFFICES ASSUME NEW d \in Threads, callers = {d}
               PROVE  /\ pc'[d] = "recv" => sock[d] = fd
                      /\ fd # 0 =>
                           /\ On(toServer', fd) \cup On(toClient, fd) \subseteq
                                IF pc'[d] \in {"sent", "recv"} THEN {CallOf(d)} ELSE {}
                           /\ fd \notin alive => On(toServer', fd) = {}
    BY <1>1, <1>2, <2>1 DEF LoneInv
  <2>2. d = c
    OBVIOUS
  <2>3. On(toServer, fd) = {} /\ On(toClient, fd) = {}
    BY <1>1, <2>2 DEF RpcInv, LoneInv
  <2> QED
    BY <1>1, <1>3, <1>5, <2>2, <2>3
<1>12. UNCHANGED Abs!vars
  BY <1>1, <1>2 DEF Abs!vars
<1> QED
  BY <1>6, <1>7, <1>8, <1>9, <1>10, <1>11, <1>12 DEF RpcInv

\* A connection breaks: messages are lost, which RpcCall does not see.
LEMMA PeerGoneStep ==
  ASSUME RpcInv, NEW k \in Conns, PeerGone(k)
  PROVE  RpcInv' /\ UNCHANGED Abs!vars
<1>1. /\ toServer \in [Conns -> Seq(Calls)] /\ Distinct(toServer)
      /\ toClient \in [Conns -> Seq(Calls)] /\ Distinct(toClient)
  BY DEF RpcInv, TypeInv, RequestsInv, RepliesInv
<1>2. /\ k \in alive /\ alive' = alive \ {k}
      /\ toServer' = [toServer EXCEPT ![k] = << >>]
      /\ UNCHANGED <<callers, pc, n, sock, fd, conns, runs, answers>>
  BY DEF PeerGone, threadVars
<1>3. PICK j \in 0 .. Len(toClient[k]) :
        toClient' = [toClient EXCEPT ![k] = SubSeq(@, 1, j)]
  BY DEF PeerGone
<1>4. /\ toServer' \in [Conns -> Seq(Calls)] /\ Distinct(toServer')
      /\ \A l \in Conns : On(toServer', l) \subseteq On(toServer, l)
      /\ \A l \in Conns : toServer[l] = << >> => toServer'[l] = << >>
      /\ On(toServer', k) = {}
  <2>1. << >> \in Seq(Calls) /\ Len(<< >>) = 0 /\ 0 \in Nat /\ 0 + Len(<< >>) <= Len(toServer[k])
    BY <1>1
  <2>2. \A i \in 1 .. Len(<< >>) : << >>[i] = toServer[k][i + 0]
    BY <2>1
  <2>3. /\ toServer' \in [Conns -> Seq(Calls)] /\ toServer'[k] = << >>
        /\ \A l \in Conns \ {k} : toServer'[l] = toServer[l]
    BY <1>1, <1>2, <2>1
  <2>4. On(toServer', k) = {}
    BY <2>3 DEF On
  <2>5. Shrinks(toServer, toServer', k, << >>, 0)
    BY <1>1, <2>1, <2>2, <2>3 DEF Shrinks
  <2> QED
    BY <2>3, <2>4, <2>5, Shrink
<1>5. /\ toClient' \in [Conns -> Seq(Calls)] /\ Distinct(toClient')
      /\ \A l \in Conns : On(toClient', l) \subseteq On(toClient, l)
      /\ \A l \in Conns : toClient[l] = << >> => toClient'[l] = << >>
  <2> DEFINE t == SubSeq(toClient[k], 1, j)
  <2>1. toClient[k] \in Seq(Calls) /\ Len(toClient[k]) \in Nat /\ 0 \in Nat
    BY <1>1
  <2>2. t \in Seq(Calls) /\ Len(t) = j /\ \A i \in 1 .. Len(t) : t[i] = toClient[k][i]
    BY <2>1, Prefix
  <2>3. /\ toClient' \in [Conns -> Seq(Calls)] /\ toClient'[k] = t
        /\ \A l \in Conns \ {k} : toClient'[l] = toClient[l]
    BY <1>1, <1>3, <2>2
  <2> HIDE DEF t
  <2>4. 0 + Len(t) <= Len(toClient[k]) /\ \A i \in 1 .. Len(t) : t[i] = toClient[k][i + 0]
    BY <1>3, <2>1, <2>2
  <2>5. Shrinks(toClient, toClient', k, t, 0)
    BY <1>1, <2>1, <2>2, <2>3, <2>4 DEF Shrinks
  <2> QED
    BY <2>3, <2>5, Shrink
<1>6. Issued' = Issued /\ Abs!Taken' = Abs!Taken /\ \A d \in Threads : CallOf(d)' = CallOf(d)
  BY <1>2 DEF Issued, Abs!Taken, CallOf
<1>7. TypeInv'
  BY <1>2, <1>4, <1>5, <1>6 DEF RpcInv, TypeInv, Conns, Calls
<1>8. CallsInv' /\ WiresInv'
  BY <1>2, <1>4, <1>5, <1>6 DEF RpcInv, CallsInv, WiresInv, Conns
<1>9. RequestsInv'
  <2>1. \A l \in Conns : On(toServer', l) \subseteq Issued \ DOMAIN runs
    BY <1>4 DEF RpcInv, RequestsInv
  <2>2. \A d \in Threads : pc[d] \in {"connect", "send", "close"} =>
          \A l \in Conns : CallOf(d) \notin On(toServer', l)
    BY <1>4 DEF RpcInv, RequestsInv
  <2> QED
    BY <1>2, <1>4, <1>6, <2>1, <2>2 DEF RpcInv, RequestsInv, Distinct, On, Conns
<1>10. RepliesInv'
  <2>1. \A l \in Conns : On(toClient', l) \subseteq DOMAIN runs \ Abs!Taken
    BY <1>5 DEF RpcInv, RepliesInv
  <2> QED
    BY <1>2, <1>5, <1>6, <2>1 DEF RpcInv, RepliesInv, Distinct, On, Conns
<1>11. LoneInv'
  <2>1. On(toServer, fd)' = On(toServer', fd) /\ On(toClient, fd)' = On(toClient', fd)
    BY <1>2 DEF On
  <2> SUFFICES ASSUME NEW d \in Threads, callers = {d}
               PROVE  /\ pc[d] = "recv" => sock[d] = fd
                      /\ fd # 0 =>
                           /\ On(toServer', fd) \cup On(toClient', fd) \subseteq
                                IF pc[d] \in {"sent", "recv"} THEN {CallOf(d)} ELSE {}
                           /\ fd \notin alive' => On(toServer', fd) = {}
    BY <1>2, <1>6, <2>1 DEF LoneInv
  <2>2. fd # 0 => fd \in Conns
    BY RpcAssumption DEF RpcInv, TypeInv, Conns
  <2>3. fd # 0 => On(toServer', fd) \subseteq On(toServer, fd) /\ On(toClient', fd) \subseteq On(toClient, fd)
    BY <1>4, <1>5, <2>2
  <2>4. fd # 0 /\ fd \notin alive' => On(toServer', fd) = {}
    <3>1. CASE fd = k
      BY <1>4, <3>1
    <3>2. CASE fd # k
      BY <1>2, <2>3, <3>2 DEF RpcInv, LoneInv
    <3> QED
      BY <3>1, <3>2
  <2> QED
    BY <2>3, <2>4 DEF RpcInv, LoneInv
<1>12. UNCHANGED Abs!vars
  BY <1>2, <1>6 DEF Abs!vars
<1> QED
  BY <1>7, <1>8, <1>9, <1>10, <1>11, <1>12 DEF RpcInv

\* The method of the first request runs: in RpcCall the call is executed.
LEMMA OnMessageStep ==
  ASSUME RpcInv, NEW k \in Conns, OnMessage(k)
  PROVE  RpcInv' /\ Abs!Execute
<1> DEFINE x == Head(toServer[k])
<1>1. /\ toServer \in [Conns -> Seq(Calls)] /\ Distinct(toServer)
      /\ toClient \in [Conns -> Seq(Calls)] /\ Distinct(toClient)
      /\ runs = [q \in DOMAIN runs |-> 1]
  BY DEF RpcInv, TypeInv, RequestsInv, RepliesInv
<1>2. PICK j \in 1 .. Len(toServer[k]) :
        toServer' = [toServer EXCEPT ![k] = SubSeq(@, j + 1, Len(@))]
  BY DEF OnMessage
<1>3. /\ runs' = runs (+) SetToBag({x})
      /\ toClient' = [toClient EXCEPT ![k] = Append(@, x)]
      /\ UNCHANGED <<callers, pc, n, sock, fd, conns, alive, answers>>
  BY DEF OnMessage, threadVars, connVars
<1>4. /\ toServer[k] \in Seq(Calls) /\ Len(toServer[k]) \in Nat
      /\ j \in Nat /\ j >= 1 /\ j <= Len(toServer[k])
  BY <1>1, <1>2
<1>5. x = toServer[k][1] /\ 1 \in DOMAIN toServer[k] /\ x \in On(toServer, k)
  <2>1. x = toServer[k][1] /\ 1 \in DOMAIN toServer[k]
    BY <1>4
  <2> QED
    BY <2>1 DEF On
<1>6. x \in Issued /\ x \notin DOMAIN runs /\ x \in Calls
  BY <1>5, CallersAreThreads DEF RpcInv, RequestsInv
<1> HIDE DEF x
<1>7. /\ toServer' \in [Conns -> Seq(Calls)] /\ Distinct(toServer')
      /\ \A l \in Conns : On(toServer', l) \subseteq On(toServer, l) \ {x}
      /\ \A l \in Conns : toServer[l] = << >> => toServer'[l] = << >>
  <2> DEFINE rest == SubSeq(toServer[k], j + 1, Len(toServer[k]))
  <2>1. rest \in Seq(Calls) /\ j + Len(rest) = Len(toServer[k])
        /\ \A i \in 1 .. Len(rest) : rest[i] = toServer[k][i + j]
    BY <1>4, Suffix
  <2>2. toServer' = [toServer EXCEPT ![k] = rest]
    BY <1>2
  <2>3. Len(rest) \in Nat
    BY <2>1
  <2> HIDE DEF rest
  <2>4. /\ toServer' \in [Conns -> Seq(Calls)] /\ toServer'[k] = rest
        /\ \A l \in Conns \ {k} : toServer'[l] = toServer[l]
        /\ j + Len(rest) <= Len(toServer[k])
    BY <1>1, <1>4, <2>1, <2>2, <2>3
  <2>5. Shrinks(toServer, toServer', k, rest, j)
    BY <1>1, <1>4, <2>1, <2>4 DEF Shrinks
  <2>6. 1 \in 1 .. j
    BY <1>4
  <2> QED
    BY <1>5, <2>4, <2>5, <2>6, Shrink
<1>8. /\ toClient' \in [Conns -> Seq(Calls)] /\ Distinct(toClient')
      /\ On(toClient', k) = On(toClient, k) \cup {x}
      /\ \A l \in Conns \ {k} : toClient'[l] = toClient[l] /\ On(toClient', l) = On(toClient, l)
  <2>1. /\ toClient' \in [Conns -> Seq(Calls)]
        /\ toClient'[k] = Append(toClient[k], x)
        /\ \A l \in Conns \ {k} : toClient'[l] = toClient[l]
    BY <1>1, <1>3, <1>6
  <2>2. \A l \in Conns : x \notin On(toClient, l)
    BY <1>6 DEF RpcInv, RepliesInv
  <2>3. Grows(toClient, toClient', k, x)
    BY <1>1, <1>6, <2>1, <2>2 DEF Grows
  <2> QED
    BY <2>1, <2>3, Grow
<1>9. /\ runs' = [q \in DOMAIN runs \cup {x} |-> 1]
      /\ DOMAIN runs' = DOMAIN runs \cup {x}
  BY <1>1, <1>3, <1>6 DEF (+), SetToBag
<1>10. Issued' = Issued /\ Abs!Taken' = Abs!Taken /\ \A d \in Threads : CallOf(d)' = CallOf(d)
  BY <1>3 DEF Issued, Abs!Taken, CallOf
<1>11. TypeInv'
  BY <1>3, <1>6, <1>7, <1>8, <1>9, <1>10 DEF RpcInv, TypeInv, Conns, Calls
<1>12. CallsInv'
  BY <1>3, <1>10 DEF RpcInv, CallsInv
<1>13. WiresInv'
  <2>1. \A l \in Conns : l > conns => l # k
    <3>1. toServer[k] # << >>
      BY <1>4
    <3> QED
      BY <3>1 DEF RpcInv, WiresInv
  <2> QED
    BY <1>3, <1>7, <1>8, <2>1 DEF RpcInv, WiresInv, Conns
<1>14. RequestsInv'
  <2>1. \A l \in Conns : On(toServer', l) \subseteq Issued \ DOMAIN runs'
    BY <1>7, <1>9 DEF RpcInv, RequestsInv
  <2>2. \A d \in Threads : pc[d] \in {"connect", "send", "close"} =>
          /\ CallOf(d) \notin DOMAIN runs'
          /\ \A l \in Conns : CallOf(d) \notin On(toServer', l)
    BY <1>5, <1>7, <1>9 DEF RpcInv, RequestsInv
  <2>3. runs' = [q \in DOMAIN runs' |-> 1]
    BY <1>9
  <2>4. pc' = pc /\ Distinct(toServer)'
    BY <1>3, <1>7 DEF Distinct, Conns
  <2> QED
    BY <1>10, <2>1, <2>2, <2>3, <2>4 DEF RequestsInv, On, Conns
<1>15. RepliesInv'
  <2>1. \A l \in Conns : On(toClient', l) \subseteq DOMAIN runs' \ Abs!Taken
    BY <1>6, <1>8, <1>9 DEF RpcInv, RepliesInv
  <2>2. Abs!Taken \subseteq DOMAIN runs'
    BY <1>9 DEF RpcInv, RepliesInv
  <2> QED
    BY <1>8, <1>10, <2>1, <2>2 DEF RepliesInv, Distinct, On, Conns
<1>16. LoneInv'
  <2>1. On(toServer, fd)' = On(toServer', fd) /\ On(toClient, fd)' = On(toClient', fd)
    BY <1>3 DEF On
  <2> SUFFICES ASSUME NEW d \in Threads, callers = {d}
               PROVE  /\ pc[d] = "recv" => sock[d] = fd
                      /\ fd # 0 =>
                           /\ On(toServer', fd) \cup On(toClient', fd) \subseteq
                                IF pc[d] \in {"sent", "recv"} THEN {CallOf(d)} ELSE {}
                           /\ fd \notin alive => On(toServer', fd) = {}
    BY <1>3, <1>10, <2>1 DEF LoneInv
  <2>2. fd # 0 => fd \in Conns
    BY RpcAssumption DEF RpcInv, TypeInv, Conns
  <2>3. fd # 0 => On(toServer', fd) \subseteq On(toServer, fd)
    BY <1>7, <2>2
  <2>4. fd # 0 => On(toClient', fd) \subseteq On(toClient, fd) \cup On(toServer, fd)
    BY <1>5, <1>8, <2>2
  <2> QED
    BY <2>3, <2>4 DEF RpcInv, LoneInv
<1>17. Abs!Execute
  <2>1. x \in Issued \ Abs!BagToSet(runs)
    BY <1>6 DEF Abs!BagToSet
  <2>2. runs' = Abs!SetToBag(Abs!BagToSet(runs) \cup {x})
    BY <1>9 DEF Abs!BagToSet, Abs!SetToBag
  <2> QED
    BY <1>3, <1>10, <2>1, <2>2 DEF Abs!Execute
<1> QED
  BY <1>11, <1>12, <1>13, <1>14, <1>15, <1>16, <1>17 DEF RpcInv

LEMMA NextStep == RpcInv /\ [Next]_vars => RpcInv' /\ [Abs!Next]_(Abs!vars)
<1> SUFFICES ASSUME RpcInv, [Next]_vars PROVE RpcInv' /\ [Abs!Next]_(Abs!vars)
  OBVIOUS
<1>1. ASSUME NEW c \in callers, Call(c) PROVE RpcInv' /\ Abs!Issue
  BY <1>1, CallStep
<1>2. ASSUME NEW c \in callers, CallMethod(c)
      PROVE  RpcInv' /\ (Abs!Return \/ UNCHANGED Abs!vars)
  <2>1. CASE Connect(c)
    BY <2>1, ConnectStep
  <2>2. CASE SendFails(c)
    BY <2>2, SendFailsStep
  <2>3. CASE CloseAfterSend(c)
    BY <2>3, CloseAfterSendStep
  <2>4. CASE EnterRecv(c)
    BY <2>4, EnterRecvStep
  <2>5. CASE Send(c)
    BY <2>5, SendStep
  <2>6. CASE ConnectFails(c) \/ RecvNoFd(c) \/ RecvError(c)
    BY <2>6, FailStep
  <2>7. CASE RecvReply(c)
    BY <2>7, RecvReplyStep
  <2>8. CASE RecvEmpty(c)
    BY <2>8, RecvEmptyStep
  <2> QED
    BY <1>2, <2>1, <2>2, <2>3, <2>4, <2>5, <2>6, <2>7, <2>8 DEF CallMethod
<1>3. ASSUME NEW k \in Conns, OnMessage(k) PROVE RpcInv' /\ Abs!Execute
  BY <1>3, OnMessageStep
<1>4. ASSUME NEW k \in Conns, PeerGone(k) PROVE RpcInv' /\ UNCHANGED Abs!vars
  BY <1>4, PeerGoneStep
<1>5. CASE UNCHANGED vars
  <2>1. UNCHANGED <<callers, pc, n, sock, fd, conns, alive, toServer, toClient, runs, answers>>
    BY <1>5 DEF vars, threadVars, connVars, wireVars
  <2>2. Issued' = Issued /\ Abs!Taken' = Abs!Taken /\ \A d \in Threads : CallOf(d)' = CallOf(d)
    BY <2>1 DEF Issued, Abs!Taken, CallOf
  <2>3. RpcInv'
    <3>1. TypeInv' /\ CallsInv' /\ WiresInv'
      BY <2>1, <2>2 DEF RpcInv, TypeInv, CallsInv, WiresInv, Conns, Calls
    <3>2. RequestsInv' /\ RepliesInv'
      BY <2>1, <2>2 DEF RpcInv, RequestsInv, RepliesInv, Distinct, On, Conns
    <3>3. LoneInv'
      BY <2>1, <2>2 DEF RpcInv, LoneInv, On
    <3> QED
      BY <3>1, <3>2, <3>3 DEF RpcInv
  <2> QED
    BY <2>1, <2>2, <2>3 DEF Abs!vars
<1> QED
  BY <1>1, <1>2, <1>3, <1>4, <1>5 DEF Next, Abs!Next

\* The channel and the provider (mprpcchannel.cpp, rpcprovider.cpp) keep the
\* promise of RpcCall: no call runs twice, no reply is handed out twice or before
\* its method has run, and a channel's only caller never gets the reply to another
\* of its calls, whatever connections break.
THEOREM ChannelImplementsRpcCall == Spec => ImplementsRpcCall
<1>1. Init => RpcInv /\ Abs!Init
  BY InitInv
<1>2. RpcInv /\ [Next]_vars => RpcInv' /\ [Abs!Next]_(Abs!vars)
  BY NextStep
<1> QED
  BY <1>1, <1>2, PTL DEF Spec, ImplementsRpcCall, Abs!Spec
=============================================================================
