-------------------------- MODULE IOManagerProofs --------------------------
(***************************************************************************)
(* Proofs about module IOManager: the invariant FiberInv of IOInv is       *)
(* inductive, no CondPanic fails, a fiber is woken in one way and less     *)
(* than two milliseconds before its time at most, and the pool does not    *)
(* sleep past a timer while an idle fiber is left.                         *)
(***************************************************************************)
EXTENDS IOInv, FiniteSetTheorems, SequenceTheorems, NaturalsInduction, WellFoundedInduction, TLAPS

-----------------------------------------------------------------------------
(* Lemmas on the operators of the model *)

\* A sequence without its i-th element, as Take leaves the queue.
Cut(s, i) == SubSeq(s, 1, i - 1) \o SubSeq(s, i + 1, Len(s))

LEMMA CutFacts ==
  ASSUME NEW S, NEW s \in Seq(S), NEW i \in DOMAIN s
  PROVE  /\ Cut(s, i) \in Seq(S)
         /\ Len(Cut(s, i)) = Len(s) - 1
         /\ \A k \in 1 .. Len(s) - 1 : Cut(s, i)[k] = IF k < i THEN s[k] ELSE s[k + 1]
<1> DEFINE a == SubSeq(s, 1, i - 1)  b == SubSeq(s, i + 1, Len(s))
<1>1. i \in 1 .. Len(s)
  OBVIOUS
<1>2. a \in Seq(S) /\ Len(a) = i - 1 /\ \A k \in 1 .. i - 1 : a[k] = s[k]
  BY <1>1
<1>3. b \in Seq(S) /\ Len(b) = Len(s) - i /\ \A k \in 1 .. Len(s) - i : b[k] = s[i + k]
  BY <1>1
<1>4. Cut(s, i) = a \o b
  BY DEF Cut
<1> HIDE DEF a, b
<1>5. /\ Cut(s, i) \in Seq(S) /\ Len(Cut(s, i)) = Len(s) - 1
      /\ \A k \in 1 .. Len(s) - 1 : Cut(s, i)[k] = IF k <= i - 1 THEN a[k] ELSE b[k - (i - 1)]
  BY <1>1, <1>2, <1>3, <1>4
<1>6. ASSUME NEW k \in 1 .. Len(s) - 1, ~(k <= i - 1)
      PROVE  b[k - (i - 1)] = s[k + 1]
  BY <1>1, <1>3, <1>6
<1>q. QED
  BY <1>1, <1>2, <1>5, <1>6

\* The pool is a thread at least; a pool of one thread is that thread.
LEMMA PoolFacts ==
  ASSUME pool \in Pools
  PROVE  /\ pool \subseteq Thread /\ pool # {} /\ IsFiniteSet(pool)
         /\ OneThread => \A t \in pool : pool = {t}
<1>1. pool \subseteq Thread /\ pool # {} /\ IsFiniteSet(pool)
  BY IOAssumption
<1>2. ASSUME OneThread PROVE \E x : pool = {x}
  BY <1>1, <1>2, FS_Singleton DEF OneThread
<1>q. QED
  BY <1>1, <1>2

\* In a pool of one thread the others do nothing, and all tasks are for it.
LEMMA Alone ==
  ASSUME TypeInv, ThreadInv, OneThread, NEW t \in pool
  PROVE  /\ pool = {t}
         /\ \A u \in Thread \ {t} : pc[u] = "exited" /\ cbs[u] = {} /\ report[u] = {} /\ task[u] = NoTask
         /\ Runnable(t) = DOMAIN tasks
<1>1. pool = {t}
  BY PoolFacts DEF TypeInv
<1>q. QED
  BY <1>1 DEF ThreadInv, Runnable

\* A thread that does anything is one of the pool.
LEMMA FreeFacts ==
  ASSUME TypeInv, ThreadInv, NEW t \in Thread,
         NEW w \in {"scan", "run", "yield", "enter", "ask", "pending", "stopping", "wait", "handle"},
         Free(t, w)
  PROVE  t \in pool /\ pc[t] = w /\ t \notin owes
BY DEF ThreadInv, Free

LEMMA TaskType ==
  ASSUME TypeInv, NEW op \in Op, NEW f \in Fiber, NEW th \in Thread \cup {Any}
  PROVE  Task(op, f, th) \in Item
BY DEF TypeInv, Task, Item

LEMMA Joined ==
  ASSUME NEW u, NEW v
  PROVE  /\ <<>> \o <<>> = <<>> /\ <<u>> \o <<>> = <<u>> /\ <<>> \o <<v>> = <<v>>
         /\ <<u>> \o <<v>> = <<u, v>>
<1> DEFINE S == {u, v}
<1>1. <<>> \in Seq(S) /\ <<u>> \in Seq(S) /\ <<v>> \in Seq(S) /\ <<u, v>> \in Seq(S)
  OBVIOUS
<1>2. <<>> \o <<>> = <<>> /\ <<u>> \o <<>> = <<u>> /\ <<>> \o <<v>> = <<v>>
  BY <1>1
<1>3. <<u>> \o <<v>> = <<u, v>>
  <2> DEFINE a == <<u>>  b == <<v>>  c == <<u, v>>
  <2>1. Len(a) = 1 /\ a[1] = u /\ Len(b) = 1 /\ b[1] = v /\ Len(c) = 2 /\ c[1] = u /\ c[2] = v
    OBVIOUS
  <2>2. a \in Seq(S) /\ b \in Seq(S) /\ c \in Seq(S)
    BY <1>1
  <2> HIDE DEF a, b, c, S
  <2>3. a \o b \in Seq(S) /\ Len(a \o b) = 2 /\ \A i \in 1 .. 2 : (a \o b)[i] = c[i]
    BY <2>1, <2>2, ConcatProperties
  <2>4. a \o b = c
    BY <2>1, <2>2, <2>3, SeqEqual
  <2>q. QED
    BY <2>4 DEF a, b, c
<1>q. QED
  BY <1>2, <1>3

\* What a triggered event queues: its waiters, to be resumed.
LEMMA TriggeredFacts ==
  ASSUME TypeInv, NEW fd \in Fd, NEW E \in SUBSET Event
  PROVE  LET q == Triggered(fd, E) IN
         /\ q \in Seq(Item)
         /\ \A i \in DOMAIN q :
              /\ q[i].op = "resume" /\ q[i].thread = Any /\ q[i].fiber \in Fiber
              /\ \E e \in E : waiter[fd][e] = q[i].fiber
         /\ \A e \in E : waiter[fd][e] # None => \E i \in DOMAIN q : q[i].fiber = waiter[fd][e]
         /\ waiter[fd]["READ"] # waiter[fd]["WRITE"] \/ waiter[fd]["READ"] = None =>
              \A i, j \in DOMAIN q : q[i].fiber = q[j].fiber => i = j
<1> DEFINE one(e) == IF e \in E /\ waiter[fd][e] # None
                       THEN <<Task("resume", waiter[fd][e], Any)>> ELSE <<>>
<1>1. \A e \in Event : waiter[fd][e] \in Fiber \cup {None}
  BY DEF TypeInv
<1>2. None \notin Fiber
  BY IOAssumption
<1>3. \A f \in Fiber : LET x == Task("resume", f, Any) IN
        x \in Item /\ x.op = "resume" /\ x.thread = Any /\ x.fiber = f
  BY TaskType DEF Task, Op
<1>4. Triggered(fd, E) = one("READ") \o one("WRITE")
  BY DEF Triggered
<1> HIDE DEF one
<1>5. \A e \in Event :
        IF e \in E /\ waiter[fd][e] # None
          THEN one(e) = <<Task("resume", waiter[fd][e], Any)>> /\ waiter[fd][e] \in Fiber
          ELSE one(e) = <<>>
  BY <1>1 DEF one
<1> DEFINE r == waiter[fd]["READ"]  w == waiter[fd]["WRITE"]
           x(f) == Task("resume", f, Any)
           q == Triggered(fd, E)
<1>6. "READ" \in Event /\ "WRITE" \in Event /\ \A e \in E : e = "READ" \/ e = "WRITE"
  BY DEF Event
<1>7. \A f \in Fiber : x(f) \in Item /\ x(f).op = "resume" /\ x(f).thread = Any /\ x(f).fiber = f
  BY <1>3
<1>8. \/ q = <<>> /\ \A e \in E : waiter[fd][e] = None
      \/ /\ r \in Fiber /\ "READ" \in E /\ q = <<x(r)>>
         /\ "WRITE" \in E => w = None
      \/ /\ w \in Fiber /\ "WRITE" \in E /\ q = <<x(w)>>
         /\ "READ" \in E => r = None
      \/ r \in Fiber /\ w \in Fiber /\ {"READ", "WRITE"} \subseteq E /\ q = <<x(r), x(w)>>
  <2>1. one("READ") = <<>> \/ (one("READ") = <<x(r)>> /\ r \in Fiber /\ "READ" \in E)
    BY <1>5, <1>6
  <2>2. one("WRITE") = <<>> \/ (one("WRITE") = <<x(w)>> /\ w \in Fiber /\ "WRITE" \in E)
    BY <1>5, <1>6
  <2>3. one("READ") = <<>> /\ "READ" \in E => r = None
    BY <1>5, <1>6
  <2>4. one("WRITE") = <<>> /\ "WRITE" \in E => w = None
    BY <1>5, <1>6
  <2>5. <<>> \o <<>> = <<>> /\ <<x(r)>> \o <<>> = <<x(r)>> /\ <<>> \o <<x(w)>> = <<x(w)>>
        /\ <<x(r)>> \o <<x(w)>> = <<x(r), x(w)>>
    BY Joined
  <2> HIDE DEF x
  <2>q. QED
    BY <2>1, <2>2, <2>3, <2>4, <2>5, <1>2, <1>4, <1>6
<1>9. SUFFICES /\ q \in Seq(Item)
               /\ \A i \in DOMAIN q :
                    /\ q[i].op = "resume" /\ q[i].thread = Any /\ q[i].fiber \in Fiber
                    /\ \E e \in E : waiter[fd][e] = q[i].fiber
               /\ \A e \in E : waiter[fd][e] # None => \E i \in DOMAIN q : q[i].fiber = waiter[fd][e]
               /\ r # w \/ r = None => \A i, j \in DOMAIN q : q[i].fiber = q[j].fiber => i = j
  OBVIOUS
<1> HIDE DEF x, q
<1>10. CASE q = <<>> /\ \A e \in E : waiter[fd][e] = None
  BY <1>10
<1>11. ASSUME NEW f \in Fiber, q = <<x(f)>>, NEW e \in E, waiter[fd][e] = f,
              \A d \in E : waiter[fd][d] # None => d = e
       PROVE  /\ q \in Seq(Item)
              /\ \A i \in DOMAIN q :
                   /\ q[i].op = "resume" /\ q[i].thread = Any /\ q[i].fiber \in Fiber
                   /\ \E d \in E : waiter[fd][d] = q[i].fiber
              /\ \A d \in E : waiter[fd][d] # None => \E i \in DOMAIN q : q[i].fiber = waiter[fd][d]
              /\ r # w \/ r = None => \A i, j \in DOMAIN q : q[i].fiber = q[j].fiber => i = j
  <2>1. q \in Seq(Item) /\ DOMAIN q = {1} /\ q[1] = x(f)
    BY <1>7, <1>11
  <2>q. QED
    BY <2>1, <1>7, <1>11
<1>12. CASE r \in Fiber /\ w \in Fiber /\ {"READ", "WRITE"} \subseteq E /\ q = <<x(r), x(w)>>
  <2>1. q \in Seq(Item) /\ DOMAIN q = {1, 2} /\ q[1] = x(r) /\ q[2] = x(w)
    BY <1>7, <1>12
  <2>q. QED
    BY <2>1, <1>2, <1>6, <1>7, <1>12
<1>q. QED
  BY <1>2, <1>6, <1>8, <1>10, <1>11, <1>12

\* addTimer: whoever sets a timer and need not tickle leaves an earlier one.
LEMMA AddTimerFacts ==
  ASSUME TypeInv, NEW who, NEW others \in SUBSET Timer, NEW tm \in Timer, AddTimer(who, others, tm)
  PROVE  /\ timers' = others \cup {tm} /\ timers' \subseteq Timer
         /\ tickled' \in BOOLEAN
         /\ owes \subseteq owes' /\ owes' \subseteq owes \cup {who}
         /\ owes' = {} => tickled' = tickled /\ (tickled \/ \E x \in others : x.left <= tm.left)
<1>1. timers' = others \cup {tm}
  BY DEF AddTimer
<1>2. PICK atFront \in {\A x \in others : tm.left <= x.left, \A x \in others : tm.left < x.left} :
        /\ tickled' = (tickled \/ (atFront /\ ~tickled))
        /\ owes' = IF atFront /\ ~tickled THEN owes \cup {who} ELSE owes
  BY DEF AddTimer
<1>3. tm.left \in Nat /\ \A x \in others : x.left \in Nat
  BY DEF Timer
<1>4. CASE atFront /\ ~tickled
  <2>1. tickled' = TRUE /\ owes' = owes \cup {who}
    BY <1>2, <1>4
  <2>q. QED
    BY <1>1, <2>1
<1>5. CASE ~(atFront /\ ~tickled)
  <2>1. tickled' = tickled /\ owes' = owes
    <3>1. tickled' = tickled
      BY <1>2, <1>5, Zenon DEF TypeInv
    <3>q. QED
      BY <1>2, <1>5, <3>1
  <2>2. (\A x \in others : tm.left < x.left) => (\A x \in others : tm.left <= x.left)
    BY <1>3
  <2>3. (\A x \in others : tm.left < x.left) => tickled
    BY <1>2, <1>5, <2>2, Zenon
  <2>4. tickled \/ \E x \in others : x.left <= tm.left
    BY <1>3, <2>3
  <2>q. QED
    BY <1>1, <2>1, <2>4 DEF TypeInv
<1>q. QED
  BY <1>4, <1>5

\* Every nonempty set of numbers has a least element.
LEMMA NatMin ==
  ASSUME NEW T \in SUBSET Nat, T # {}
  PROVE  \E m \in T : \A k \in T : m <= k
<1>1. \E x \in T : \A y \in T : ~(<<y, x>> \in OpToRel(<, Nat))
  BY WFMin, NatLessThanWellFounded
<1>2. \A x, y \in Nat : <<y, x>> \in OpToRel(<, Nat) <=> y < x
  BY DEF OpToRel
<1>3. PICK x \in T : \A y \in T : ~(<<y, x>> \in OpToRel(<, Nat))
  BY <1>1
<1>4. \A y \in T : ~(y < x)
  BY <1>2, <1>3
<1>q. QED
  BY <1>4

\* The task that is taken is the first for its thread.
LEMMA TakeFacts ==
  ASSUME TypeInv, ThreadInv, NEW t \in Thread, Take(t)
  PROVE  \E i \in DOMAIN tasks :
           /\ i \in Runnable(t) /\ \A l \in Runnable(t) : i <= l
           /\ tasks[i] \in Item
           /\ tasks' = Cut(tasks, i)
           /\ task' = [task EXCEPT ![t] = tasks[i]]
           /\ panicked' = (panicked \/ ~(tasks[i].op \in {"start", "resume"} => state[tasks[i].fiber] = "READY"))
           /\ state' = IF tasks[i].op \in {"start", "resume"}
                         THEN [state EXCEPT ![tasks[i].fiber] = "RUNNING"] ELSE state
           /\ at' = IF tasks[i].op \in {"start", "resume"} /\ at[tasks[i].fiber] # "io"
                      THEN [at EXCEPT ![tasks[i].fiber] = "user"] ELSE at
<1> DEFINE i == CHOOSE k \in Runnable(t) : \A l \in Runnable(t) : k <= l
<1>1. Runnable(t) # {} /\ Runnable(t) \subseteq DOMAIN tasks /\ DOMAIN tasks \subseteq Nat
  <2>1. tasks \in Seq(Item)
    BY DEF TypeInv
  <2>2. DOMAIN tasks = 1 .. Len(tasks) /\ Len(tasks) \in Nat
    BY <2>1
  <2>3. Runnable(t) # {}
    BY DEF Take
  <2>4. Runnable(t) \subseteq DOMAIN tasks
    BY DEF Runnable
  <2>q. QED
    BY <2>2, <2>3, <2>4
<1>2. i \in Runnable(t) /\ \A l \in Runnable(t) : i <= l
  BY <1>1, NatMin
<1>3. i \in DOMAIN tasks /\ tasks[i] \in Item
  BY <1>1, <1>2 DEF TypeInv
<1>4. /\ tasks' = Cut(tasks, i)
      /\ task' = [task EXCEPT ![t] = tasks[i]]
      /\ panicked' = (panicked \/ ~(tasks[i].op \in {"start", "resume"} => state[tasks[i].fiber] = "READY"))
      /\ state' = IF tasks[i].op \in {"start", "resume"}
                    THEN [state EXCEPT ![tasks[i].fiber] = "RUNNING"] ELSE state
      /\ at' = IF tasks[i].op \in {"start", "resume"} /\ at[tasks[i].fiber] # "io"
                 THEN [at EXCEPT ![tasks[i].fiber] = "user"] ELSE at
  BY DEF Take, Cut, CondPanic
<1>q. QED
  BY <1>2, <1>3, <1>4

\* The wait that idle asks for ends by the time of the first timer.
LEMMA NextTimeoutFacts ==
  ASSUME TypeInv
  PROVE  NextTimeout \in Nat /\ \A x \in timers : NextTimeout <= x.left
<1>1. MaxTimeout \in Nat
  BY IOAssumption
<1>2. CASE timers = {}
  BY <1>1, <1>2 DEF NextTimeout
<1>3. CASE timers # {}
  <2> DEFINE T == {x.left : x \in timers}
             x0 == CHOOSE x \in timers : \A y \in timers : x.left <= y.left
  <2>1. \A x \in timers : x.left \in Nat
    BY DEF TypeInv, Timer
  <2>2. \E m \in T : \A k \in T : m <= k
    BY <1>3, <2>1, NatMin
  <2>3. \E x \in timers : \A y \in timers : x.left <= y.left
    BY <2>2
  <2>4. x0 \in timers /\ \A y \in timers : x0.left <= y.left
    BY <2>3
  <2>5. NextTimeout = Earlier(MaxTimeout, x0.left)
    BY <1>3 DEF NextTimeout
  <2> HIDE DEF x0
  <2>q. QED
    BY <1>1, <2>1, <2>4, <2>5 DEF Earlier
<1>q. QED
  BY <1>2, <1>3

\* The questions of stopping(): they lead to a wait or to the end of the idle fiber.
Ask(t) == AskNextTimer(t) \/ AskPending(t) \/ AskStopping(t)

LEMMA AskFacts ==
  ASSUME TypeInv, ThreadInv, NEW t \in Thread, Ask(t)
  PROVE  /\ t \in pool /\ t \notin owes /\ pc[t] \in {"ask", "pending", "stopping"}
         /\ waitLeft' \in [Thread -> Nat] /\ \A u \in Thread \ {t} : waitLeft'[u] = waitLeft[u]
         /\ tickled' \in {tickled, FALSE}
         /\ \/ /\ \E w \in {"pending", "stopping", "wait"} : pc' = [pc EXCEPT ![t] = w]
               /\ UNCHANGED <<over, idleCnt>>
            \/ /\ pc' = [pc EXCEPT ![t] = "scan"] /\ over' = over \cup {t} /\ idleCnt' = idleCnt - 1
               /\ Stopping /\ UNCHANGED waitLeft
         /\ UNCHANGED <<pool, task, cbs, report, tasks, activeCnt, stopped, pipe, owes, timers, fdVars,
                        fiberVars, panicked>>
<1>1. CASE AskNextTimer(t)
  <2>1. t \in pool /\ t \notin owes /\ pc[t] = "ask"
    BY <1>1, FreeFacts DEF AskNextTimer
  <2>2. waitLeft' = waitLeft \/ waitLeft' = [waitLeft EXCEPT ![t] = NextTimeout]
    BY <1>1 DEF AskNextTimer
  <2>3. waitLeft' \in [Thread -> Nat] /\ \A u \in Thread \ {t} : waitLeft'[u] = waitLeft[u]
    BY <2>2, NextTimeoutFacts DEF TypeInv
  <2>q. QED
    BY <1>1, <2>1, <2>3 DEF AskNextTimer, schedVars
<1>2. CASE AskPending(t) \/ (AskStopping(t) /\ ~Stopping)
  <2>1. t \in pool /\ t \notin owes /\ pc[t] \in {"pending", "stopping"}
    BY <1>2, FreeFacts DEF AskPending, AskStopping
  <2>2. waitLeft' = waitLeft \/ waitLeft' = [waitLeft EXCEPT ![t] = MaxTimeout]
    BY <1>2 DEF AskPending, AskStopping, WaitLong
  <2>3. waitLeft' \in [Thread -> Nat] /\ \A u \in Thread \ {t} : waitLeft'[u] = waitLeft[u]
    <3>1. MaxTimeout \in Nat /\ waitLeft \in [Thread -> Nat]
      BY IOAssumption DEF TypeInv
    <3>q. QED
      BY <2>2, <3>1
  <2>q. QED
    BY <1>2, <2>1, <2>3 DEF AskPending, AskStopping, WaitLong, schedVars, timerVars
<1>3. CASE AskStopping(t) /\ Stopping
  <2>1. t \in pool /\ t \notin owes /\ pc[t] = "stopping"
    BY <1>3, FreeFacts DEF AskStopping
  <2>2. /\ pc' = [pc EXCEPT ![t] = "scan"] /\ over' = over \cup {t} /\ idleCnt' = idleCnt - 1
        /\ tickled' = tickled /\ UNCHANGED waitLeft
        /\ UNCHANGED <<pool, task, cbs, report, tasks, activeCnt, stopped, pipe, owes, timers, fdVars,
                       fiberVars, panicked>>
    BY <1>3 DEF AskStopping, timerVars
  <2>q. QED
    BY <1>3, <2>1, <2>2 DEF TypeInv
<1>q. QED
  BY <1>1, <1>2, <1>3 DEF Ask

-----------------------------------------------------------------------------
(* The types *)

LEMMA InitInv == Init => FiberInv
<1> SUFFICES ASSUME Init PROVE FiberInv
  OBVIOUS
<1> USE DEF Init
<1>1. TypeInv
  <2>1. pool \in Pools /\ pool \subseteq Thread
    BY IOAssumption
  <2>2. /\ pc \in [Thread -> {"scan", "run", "yield", "enter", "ask", "pending", "stopping", "wait",
                         "handle", "exited"}]
        /\ task \in [Thread -> Item \cup {NoTask}]
        /\ cbs \in [Thread -> SUBSET Item]
        /\ report \in [Thread -> SUBSET Report]
        /\ waitLeft \in [Thread -> Nat]
    OBVIOUS
  <2>6. tasks \in Seq(Item) /\ idleCnt \in Nat
    OBVIOUS
  <2>3. stopped \in BOOLEAN /\ pipe \in BOOLEAN /\ tickled \in BOOLEAN /\ panicked \in BOOLEAN
    OBVIOUS
  <2>4. /\ owes \subseteq pool \cup {Main} /\ timers \subseteq Timer /\ edge \subseteq Fd /\ over \subseteq pool
        /\ waiter \in [Fd -> [Event -> Fiber \cup {None}]]
        /\ ready \in [Fd -> SUBSET Event]
    OBVIOUS
  <2>5. /\ state \in [Fiber -> {"READY", "RUNNING", "TERM"}]
        /\ at \in [Fiber -> {"new", "queued", "timer", "sleep", "io", "user", "done"}]
        /\ call \in [Fiber -> Call \cup {NoCall}]
        /\ calls \in [Fiber -> Nat] /\ cancelled \in [Fiber -> BOOLEAN] /\ due \in [Fiber -> Nat]
    OBVIOUS
  <2>q. QED
    BY <2>1, <2>2, <2>3, <2>4, <2>5, <2>6 DEF TypeInv
<1>2. ThreadInv
  <2>1. Idlers = {}
    BY IOAssumption DEF Idlers
  <2>2. idleCnt = Cardinality(Idlers)
    BY <2>1, FS_EmptySet
  <2>q. QED
    BY <2>2 DEF ThreadInv
<1>3. OneThreadInv
  BY IOAssumption DEF OneThreadInv
<1>4. OverInv /\ SleepInv
  BY IOAssumption, PoolFacts DEF OverInv, SleepInv, Awake
<1>5. \A f \in Fiber : /\ TimerWakes(f) = {} /\ ListWakes(f) = {} /\ QueueWakes(f) = {}
                       /\ EventWakes(f) = {} /\ RunWakes(f) = {}
  BY IOAssumption DEF TimerWakes, ListWakes, QueueWakes, EventWakes, RunWakes, NoTask
<1>6. WakeInv
  BY <1>5 DEF WakeInv, Waiting, Lone
<1>7. FitInv /\ CallInv /\ StateInv /\ ReportInv
  BY IOAssumption DEF FitInv, CallInv, StateInv, ReportInv, On, NoTask
<1>8. OrderInv /\ TimeInv
  BY DEF OrderInv, TimeInv, Resumes
<1>q. QED
  BY <1>1, <1>2, <1>3, <1>4, <1>6, <1>7, <1>8 DEF FiberInv

LEMMA DelayType == Delay \subseteq Nat /\ \A c \in Call : c.fd \in Fd /\ c.event \in Event /\ c.timeout \in Nat
<1>1. MaxDelay \in Nat
  BY IOAssumption
<1>2. Delay \subseteq Nat
  BY <1>1 DEF Delay
<1>3. ASSUME NEW c \in Call
      PROVE  c.fd \in Fd /\ c.event \in Event /\ c.timeout \in Nat
  <2>1. CASE c \in [fd : Fd, event : Event, timed : {TRUE}, timeout : Delay]
    BY <1>2, <2>1
  <2>2. CASE c \in [fd : Fd, event : Event, timed : {FALSE}, timeout : {0}]
    BY <2>2
  <2>q. QED
    BY <2>1, <2>2 DEF Call
<1>q. QED
  BY <1>2, <1>3

\* What Schedule, Unregister and a blocked call leave is of its type.
LEMMA ScheduleType ==
  ASSUME TypeInv, NEW who, NEW more \in Seq(Item), Schedule(who, more)
  PROVE  tasks' \in Seq(Item) /\ owes \subseteq owes' /\ owes' \subseteq owes \cup {who}
<1>1. tasks \in Seq(Item)
  BY DEF TypeInv
<1>2. tasks' = tasks \o more
  BY DEF Schedule
<1>3. tasks \o more \in Seq(Item)
  BY <1>1, ConcatProperties
<1>q. QED
  BY <1>2, <1>3 DEF Schedule

LEMMA UnregisterType ==
  ASSUME TypeInv, NEW fd \in Fd, NEW E, Unregister(fd, E)
  PROVE  waiter' \in [Fd -> [Event -> Fiber \cup {None}]] /\ edge' \subseteq Fd
BY DEF TypeInv, Unregister, Rearm

LEMMA BlockType ==
  ASSUME TypeInv, NEW t \in Thread, NEW f \in Fiber, NEW c \in Call, NEW n \in Nat, NEW others \in SUBSET Timer,
         Block(t, f, c, n, others), t \in pool
  PROVE  /\ timers' \subseteq Timer /\ tickled' \in BOOLEAN
         /\ owes \subseteq owes' /\ owes' \subseteq owes \cup {t}
         /\ waiter' \in [Fd -> [Event -> Fiber \cup {None}]] /\ edge' \subseteq Fd
         /\ due' \in [Fiber -> Nat]
         /\ pc' = [pc EXCEPT ![t] = "yield"]
<1>1. c.fd \in Fd /\ c.event \in Event /\ c.timeout \in Nat
  BY DelayType
<1> DEFINE tm == [op |-> "timeout", fiber |-> f, n |-> n, left |-> c.timeout, ms |-> c.timeout]
<1>2. tm \in Timer
  BY <1>1 DEF Timer
<1>3. /\ timers' \subseteq Timer /\ tickled' \in BOOLEAN
      /\ owes \subseteq owes' /\ owes' \subseteq owes \cup {t}
  <2>1. CASE c.timed
    <3>1. AddTimer(t, others, tm)
      BY <2>1 DEF Block
    <3>q. QED
      BY <1>2, <3>1, AddTimerFacts
  <2>2. CASE ~c.timed
    BY <2>2 DEF Block, TypeInv
  <2>q. QED
    BY <2>1, <2>2
<1>4. /\ AddEvent(c.fd, c.event, f) /\ pc' = [pc EXCEPT ![t] = "yield"]
      /\ due' = [due EXCEPT ![f] = IF c.timed THEN Asked(c.timeout) ELSE 0]
  BY DEF Block
<1>6. Asked(c.timeout) \in Nat
  BY <1>1 DEF Asked
<1>5. waiter' \in [Fd -> [Event -> Fiber \cup {None}]] /\ edge' \subseteq Fd
  BY <1>1, <1>4 DEF AddEvent, Rearm, TypeInv
<1>q. QED
  BY <1>1, <1>3, <1>4, <1>5, <1>6 DEF TypeInv

\* The types are kept by every step.
LEMMA TypeKept ==
  ASSUME TypeInv, ThreadInv, CallInv, Next
  PROVE  TypeInv'
<1> USE DEF threadVars, schedVars, timerVars, fdVars, fiberVars
<1>1. ASSUME NEW t \in Thread \cup {Main}, Tickle(t)
      PROVE  TypeInv'
  BY <1>1 DEF TypeInv, Tickle
<1>2. ASSUME NEW t \in Thread, Take(t)
      PROVE  TypeInv'
  <2>1. PICK i \in DOMAIN tasks :
          /\ tasks[i] \in Item
          /\ tasks' = Cut(tasks, i)
          /\ task' = [task EXCEPT ![t] = tasks[i]]
          /\ panicked' = (panicked \/ ~(tasks[i].op \in {"start", "resume"} => state[tasks[i].fiber] = "READY"))
          /\ state' = IF tasks[i].op \in {"start", "resume"}
                        THEN [state EXCEPT ![tasks[i].fiber] = "RUNNING"] ELSE state
          /\ at' = IF tasks[i].op \in {"start", "resume"} /\ at[tasks[i].fiber] # "io"
                     THEN [at EXCEPT ![tasks[i].fiber] = "user"] ELSE at
    BY <1>2, TakeFacts
  <2>2. tasks' \in Seq(Item)
    BY <2>1, CutFacts DEF TypeInv
  <2>3. t \in pool /\ pc' = [pc EXCEPT ![t] = "run"] /\ owes' = IF Len(tasks) > 1 THEN owes \cup {t} ELSE owes
    BY <1>2, FreeFacts DEF Take
  <2>4. UNCHANGED <<pool, cbs, report, waitLeft, over, idleCnt, stopped, pipe, timers, tickled,
                    waiter, edge, ready, call, calls, cancelled, due>>
    BY <1>2 DEF Take
  <2>q. QED
    BY <2>1, <2>2, <2>3, <2>4 DEF TypeInv
<1>3. ASSUME NEW t \in Thread, FindNothing(t)
      PROVE  TypeInv'
  BY <1>3, FreeFacts DEF TypeInv, FindNothing
<1>4. ASSUME NEW t \in Thread, EnterIdle(t)
      PROVE  TypeInv'
  <2>1. t \in pool
    BY <1>4, FreeFacts DEF EnterIdle
  <2>q. QED
    BY <1>4, <2>1 DEF TypeInv, EnterIdle
<1>4a. ASSUME NEW t \in Thread, Ask(t)
       PROVE  TypeInv'
  <2>1. /\ t \in pool /\ waitLeft' \in [Thread -> Nat] /\ tickled' \in BOOLEAN
        /\ UNCHANGED <<pool, task, cbs, report, tasks, stopped, pipe, owes, timers,
                       waiter, edge, ready, state, at, call, calls, cancelled, due, panicked>>
    BY <1>4a, AskFacts DEF TypeInv
  <2>2. over' \subseteq pool /\ \E w \in {"pending", "stopping", "wait", "scan"} : pc' = [pc EXCEPT ![t] = w]
    <3>1. over \subseteq pool
      BY DEF TypeInv
    <3>q. QED
      BY <1>4a, <3>1, AskFacts
  <2>3. idleCnt' \in Nat
    <3>1. idleCnt = Cardinality(Idlers) /\ IsFiniteSet(Idlers)
      BY PoolFacts, FS_Subset DEF ThreadInv, TypeInv, Idlers
    <3>2. t \in Idlers
      BY <1>4a, AskFacts DEF Idlers
    <3>3. idleCnt # 0 /\ idleCnt \in Nat
      BY <3>1, <3>2, FS_EmptySet DEF TypeInv
    <3>4. idleCnt' = idleCnt \/ idleCnt' = idleCnt - 1
      BY <1>4a, AskFacts
    <3>q. QED
      BY <3>3, <3>4
  <2>q. QED
    BY <2>1, <2>2, <2>3 DEF TypeInv
<1>5. ASSUME NEW t \in Thread, EpollWait(t)
      PROVE  TypeInv'
  <2>1. {[op |-> x.op, fiber |-> x.fiber, n |-> x.n, thread |-> Any] : x \in Expired} \subseteq Item
    BY DEF TypeInv, Expired, Timer, Item, Op
  <2>2. {[fd |-> d, events |-> Registered(d) \cap ready[d]] : d \in edge}
          \cup (IF pipe THEN {[fd |-> Pipe, events |-> {}]} ELSE {}) \subseteq Report
    BY DEF TypeInv, Report, Registered
  <2>q. QED
    BY <1>5, <2>1, <2>2 DEF TypeInv, EpollWait
<1>6. ASSUME NEW t \in Thread, ScheduleExpired(t)
      PROVE  TypeInv'
  <2>1. PICK c \in cbs[t] : Schedule(t, <<c>>) /\ cbs' = [cbs EXCEPT ![t] = @ \ {c}]
    BY <1>6 DEF ScheduleExpired
  <2>2. c \in Item /\ <<c>> \in Seq(Item) /\ t \in pool
    BY <1>6, FreeFacts DEF TypeInv, ScheduleExpired
  <2>3. tasks' \in Seq(Item) /\ owes' \subseteq pool \cup {Main}
    BY <2>1, <2>2, ScheduleType DEF TypeInv
  <2>q. QED
    BY <1>6, <2>1, <2>3 DEF TypeInv, ScheduleExpired
<1>7. ASSUME NEW t \in Thread, DrainPipe(t)
      PROVE  TypeInv'
  BY <1>7 DEF TypeInv, DrainPipe
<1>8. ASSUME NEW t \in Thread, HandleEvent(t)
      PROVE  TypeInv'
  <2>1. PICK r \in report[t] :
          /\ r.fd # Pipe
          /\ report' = [report EXCEPT ![t] = @ \ {r}]
          /\ CondPanic(Registered(r.fd) \cap r.events # {} => r.events \subseteq Registered(r.fd))
          /\ IF Registered(r.fd) \cap r.events # {}
               THEN Schedule(t, Triggered(r.fd, r.events)) /\ Unregister(r.fd, r.events)
               ELSE UNCHANGED <<tasks, owes, waiter, pendingEventCnt, edge>>
    BY <1>8 DEF HandleEvent
  <2>2. t \in pool /\ r.fd \in Fd /\ r.events \in SUBSET Event
    BY <1>8, <2>1, FreeFacts DEF TypeInv, HandleEvent, Report
  <2>3. tasks' \in Seq(Item) /\ owes' \subseteq pool \cup {Main}
        /\ waiter' \in [Fd -> [Event -> Fiber \cup {None}]] /\ edge' \subseteq Fd
    BY <2>1, <2>2, TriggeredFacts, ScheduleType, UnregisterType DEF TypeInv
  <2>4. panicked' \in BOOLEAN
    BY <2>1 DEF CondPanic
  <2>5. UNCHANGED <<pool, pc, task, cbs, waitLeft, over, idleCnt, stopped, pipe,
                    timers, tickled, ready, state, at, call, calls, cancelled, due>>
    BY <1>8 DEF HandleEvent
  <2>q. QED
    BY <2>1, <2>3, <2>4, <2>5 DEF TypeInv
<1>9. ASSUME NEW t \in Thread, LeaveIdle(t)
      PROVE  TypeInv'
  <2>1. t \in pool /\ pc[t] = "handle"
    BY <1>9, FreeFacts DEF LeaveIdle
  <2>2. idleCnt - 1 \in Nat
    <3>1. t \in Idlers /\ IsFiniteSet(Idlers)
      BY <2>1, PoolFacts, FS_Subset DEF TypeInv, Idlers
    <3>2. Cardinality(Idlers) # 0
      BY <3>1, FS_EmptySet
    <3>q. QED
      BY <3>2 DEF TypeInv, ThreadInv
  <2>q. QED
    BY <1>9, <2>2 DEF TypeInv, LeaveIdle
<1>10. ASSUME NEW t \in Thread, WakeSleeper(t)
       PROVE  TypeInv'
  <2>1. t \in pool /\ task[t] \in Item
    BY <1>10, FreeFacts DEF WakeSleeper, Runs, ThreadInv, TypeInv
  <2>2. Task("resume", task[t].fiber, Any) \in Item
    BY <2>1, TaskType DEF Item, Op
  <2>3. tasks' \in Seq(Item) /\ owes' \subseteq pool \cup {Main}
    <3>1. <<Task("resume", task[t].fiber, Any)>> \in Seq(Item)
      BY <2>2
    <3>2. Schedule(t, <<Task("resume", task[t].fiber, Any)>>)
      BY <1>10 DEF WakeSleeper
    <3>q. QED
      BY <2>1, <3>1, <3>2, ScheduleType DEF TypeInv
  <2>q. QED
    BY <1>10, <2>3 DEF TypeInv, WakeSleeper, EndTask
<1>11. ASSUME NEW t \in Thread, TimeOutCall(t)
       PROVE  TypeInv'
  <2> DEFINE f == task[t].fiber
             c == call[f]
             current == at[f] = "io" /\ calls[f] = task[t].n /\ ~cancelled[f]
             cancels == current /\ waiter[c.fd][c.event] # None
  <2>1. t \in pool /\ f \in Fiber
    BY <1>11, FreeFacts DEF TimeOutCall, Runs, ThreadInv, TypeInv, Item
  <2>2. /\ tasks' \in Seq(Item) /\ owes' \subseteq pool \cup {Main}
        /\ waiter' \in [Fd -> [Event -> Fiber \cup {None}]] /\ edge' \subseteq Fd
    <3>1. CASE cancels
      <4>1. c.fd \in Fd /\ {c.event} \in SUBSET Event
        BY <2>1, <3>1, DelayType DEF CallInv
      <4>q. QED
        BY <1>11, <2>1, <3>1, <4>1, TriggeredFacts, ScheduleType, UnregisterType DEF TimeOutCall, TypeInv
    <3>2. CASE ~cancels
      BY <1>11, <3>2 DEF TimeOutCall, TypeInv
    <3>q. QED
      BY <3>1, <3>2
  <2>3. cancelled' = [cancelled EXCEPT ![f] = @ \/ current] /\ EndTask(t)
        /\ UNCHANGED <<timers, tickled, ready, state, at, call, calls, due, panicked>>
    BY <1>11 DEF TimeOutCall
  <2>4. cancelled' \in [Fiber -> BOOLEAN]
    BY <2>3 DEF TypeInv
  <2>q. QED
    BY <2>2, <2>3, <2>4 DEF TypeInv, EndTask
<1>12. ASSUME NEW t \in Thread, Finish(t)
       PROVE  TypeInv'
  BY <1>12 DEF TypeInv, Finish, EndTask
<1>13. ASSUME NEW t \in Thread, NEW d \in Delay, Sleep(t, d)
       PROVE  TypeInv'
  <2> DEFINE f == task[t].fiber
             tm == [op |-> "wake", fiber |-> f, n |-> calls[f] + 1, left |-> d, ms |-> d]
  <2>1. t \in pool /\ f \in Fiber /\ d \in Nat
    BY <1>13, FreeFacts, DelayType DEF Sleep, MayWait, InUser, Runs, ThreadInv, TypeInv, Item
  <2>2. tm \in Timer /\ AddTimer(t, timers, tm)
    BY <1>13, <2>1 DEF Sleep, TypeInv, Timer
  <2>3. timers' \subseteq Timer /\ tickled' \in BOOLEAN /\ owes' \subseteq pool \cup {Main}
    <3>1. timers \in SUBSET Timer /\ owes \subseteq pool \cup {Main}
      BY DEF TypeInv
    <3>q. QED
      BY <2>1, <2>2, <3>1, AddTimerFacts
  <2>4. /\ at' = [at EXCEPT ![f] = "sleep"] /\ calls' = [calls EXCEPT ![f] = @ + 1]
        /\ due' = [due EXCEPT ![f] = Asked(d)] /\ pc' = [pc EXCEPT ![t] = "yield"]
        /\ UNCHANGED <<pool, task, cbs, report, waitLeft, over, tasks, idleCnt, stopped, pipe,
                       waiter, edge, ready, state, call, cancelled, panicked>>
    BY <1>13 DEF Sleep
  <2>5. Asked(d) \in Nat
    BY <2>1 DEF Asked
  <2>q. QED
    BY <2>1, <2>3, <2>4, <2>5 DEF TypeInv
<1>14. ASSUME NEW t \in Thread, NEW c \in Call, DoIo(t, c)
       PROVE  TypeInv'
  <2> DEFINE f == task[t].fiber
  <2>1. t \in pool /\ f \in Fiber /\ c.fd \in Fd
    BY <1>14, FreeFacts, DelayType DEF DoIo, MayWait, InUser, Runs, ThreadInv, TypeInv, Item
  <2>2. /\ call' = [call EXCEPT ![f] = IF c.event \notin ready[c.fd] THEN c ELSE NoCall]
        /\ calls' = [calls EXCEPT ![f] = @ + 1]
        /\ at' = [at EXCEPT ![f] = IF c.event \notin ready[c.fd] THEN "io" ELSE @]
        /\ UNCHANGED <<pool, task, cbs, report, waitLeft, over, tasks, idleCnt, activeCnt, stopped, pipe,
                       open, state, cancelled, panicked>>
    BY <1>14 DEF DoIo
  <2>3. CASE c.event \notin ready[c.fd]
    <3>1. Block(t, f, c, calls[f] + 1, timers)
      BY <1>14, <2>3 DEF DoIo
    <3>2. calls[f] + 1 \in Nat /\ timers \in SUBSET Timer /\ ready' = ready
      BY <2>1, <3>1 DEF TypeInv, Block
    <3>3. /\ timers' \subseteq Timer /\ tickled' \in BOOLEAN /\ owes' \subseteq pool \cup {Main}
          /\ waiter' \in [Fd -> [Event -> Fiber \cup {None}]] /\ edge' \subseteq Fd
          /\ due' \in [Fiber -> Nat] /\ pc' = [pc EXCEPT ![t] = "yield"]
      BY <2>1, <3>1, <3>2, BlockType DEF TypeInv
    <3>q. QED
      BY <2>1, <2>2, <3>2, <3>3 DEF TypeInv
  <2>4. CASE c.event \in ready[c.fd]
    <3>1. /\ ready' = [ready EXCEPT ![c.fd] = @ \ {c.event}]
          /\ UNCHANGED <<timers, tickled, owes, waiter, pendingEventCnt, edge, due, pc>>
      BY <1>14, <2>4 DEF DoIo, Through
    <3>q. QED
      BY <2>1, <2>2, <3>1 DEF TypeInv
  <2>q. QED
    BY <2>3, <2>4
<1>15. ASSUME NEW t \in Thread, ResumeIo(t)
       PROVE  TypeInv'
  <2> DEFINE f == task[t].fiber
             c == call[f]
             others == {x \in timers : ~(x.op = "timeout" /\ x.fiber = f)}
             blocks == ~cancelled[f] /\ c.fd \in open /\ c.event \notin ready[c.fd]
  <2>1. t \in pool /\ f \in Fiber /\ c \in Call /\ c.fd \in Fd
    BY <1>15, FreeFacts, DelayType DEF ResumeIo, Runs, ThreadInv, TypeInv, Item, CallInv
  <2>2. /\ call' = [call EXCEPT ![f] = IF blocks THEN @ ELSE NoCall]
        /\ at' = [at EXCEPT ![f] = IF blocks THEN @ ELSE "user"]
        /\ cancelled' = [cancelled EXCEPT ![f] = FALSE]
        /\ UNCHANGED <<pool, task, cbs, report, waitLeft, over, tasks, idleCnt, activeCnt, stopped, pipe,
                       open, state, calls, panicked>>
    BY <1>15 DEF ResumeIo
  <2>3. CASE blocks
    <3>1. Block(t, f, c, calls[f], others)
      BY <1>15, <2>3 DEF ResumeIo
    <3>2. calls[f] \in Nat /\ others \in SUBSET Timer /\ ready' = ready
      BY <2>1, <3>1 DEF TypeInv, Block
    <3>3. /\ timers' \subseteq Timer /\ tickled' \in BOOLEAN /\ owes' \subseteq pool \cup {Main}
          /\ waiter' \in [Fd -> [Event -> Fiber \cup {None}]] /\ edge' \subseteq Fd
          /\ due' \in [Fiber -> Nat] /\ pc' = [pc EXCEPT ![t] = "yield"]
      BY <2>1, <3>1, <3>2, BlockType DEF TypeInv
    <3>q. QED
      BY <2>1, <2>2, <3>2, <3>3 DEF TypeInv
  <2>4. CASE ~blocks
    <3>1. /\ ready' = ready \/ ready' = [ready EXCEPT ![c.fd] = @ \ {c.event}]
          /\ timers' = others /\ due' = [due EXCEPT ![f] = 0]
          /\ UNCHANGED <<tickled, owes, waiter, edge, pc>>
      BY <1>15, <2>4 DEF ResumeIo, Through
    <3>q. QED
      BY <2>1, <2>2, <3>1 DEF TypeInv
  <2>q. QED
    BY <2>3, <2>4
<1>16. ASSUME NEW t \in Thread, NEW fd \in Fd, Close(t, fd)
       PROVE  TypeInv'
  <2>1. t \in pool /\ Registered(fd) \in SUBSET Event
    BY <1>16, FreeFacts DEF Close, InUser, Runs, Registered
  <2>2. tasks' \in Seq(Item) /\ owes' \subseteq pool \cup {Main}
    BY <1>16, <2>1, TriggeredFacts, ScheduleType DEF Close, CancelAll, TypeInv
  <2>q. QED
    BY <1>16, <2>2 DEF TypeInv, Close, CancelAll
<1>17. ASSUME NEW t \in Thread, Yield(t)
       PROVE  TypeInv'
  BY <1>17 DEF TypeInv, Yield, EndTask
<1>18. ASSUME NEW f \in Fiber, NEW th \in Thread \cup {Any}, MainSchedule(f, th)
       PROVE  TypeInv'
  <2>1. <<Task("start", f, th)>> \in Seq(Item)
    BY TaskType DEF Op
  <2>2. tasks' \in Seq(Item) /\ owes' \subseteq pool \cup {Main}
    BY <1>18, <2>1, ScheduleType DEF MainSchedule, TypeInv
  <2>q. QED
    BY <1>18, <2>2 DEF TypeInv, MainSchedule
<1>19. ASSUME NEW f \in Fiber, NEW d \in Delay, MainAddTimer(f, d)
       PROVE  TypeInv'
  <2> DEFINE tm == [op |-> "start", fiber |-> f, n |-> 0, left |-> d, ms |-> d]
  <2>1. tm \in Timer /\ AddTimer(Main, timers, tm)
    BY <1>19, DelayType DEF MainAddTimer, Timer
  <2>2. timers' \subseteq Timer /\ tickled' \in BOOLEAN /\ owes' \subseteq pool \cup {Main}
    BY <2>1, AddTimerFacts DEF TypeInv
  <2>q. QED
    BY <1>19, <2>2 DEF TypeInv, MainAddTimer
<1>20. ASSUME NEW f \in Fiber, CancelTimer(f)
       PROVE  TypeInv'
  BY <1>20 DEF TypeInv, CancelTimer
<1>21. ASSUME NEW f \in Fiber, NEW d \in Delay, ResetTimer(f, d)
       PROVE  TypeInv'
  <2>1. PICK x \in OwnTimer(f) : AddTimer(Main, timers \ {x}, [x EXCEPT !.left = d, !.ms = d])
    BY <1>21 DEF ResetTimer
  <2>2. [x EXCEPT !.left = d, !.ms = d] \in Timer
    BY <2>1, DelayType DEF OwnTimer, TypeInv, Timer
  <2>3. timers' \subseteq Timer /\ tickled' \in BOOLEAN /\ owes' \subseteq pool \cup {Main}
    BY <2>1, <2>2, AddTimerFacts DEF TypeInv
  <2>q. QED
    BY <1>21, <2>3 DEF TypeInv, ResetTimer
<1>22. ASSUME NEW f \in Fiber, RefreshTimer(f)
       PROVE  TypeInv'
  <2>1. PICK x \in OwnTimer(f) : timers' = (timers \ {x}) \cup {[x EXCEPT !.left = x.ms]}
    BY <1>22 DEF RefreshTimer
  <2>2. timers' \subseteq Timer
    BY <2>1 DEF OwnTimer, TypeInv, Timer
  <2>q. QED
    BY <1>22, <2>2 DEF TypeInv, RefreshTimer
<1>23. ASSUME Stop
       PROVE  TypeInv'
  BY <1>23 DEF TypeInv, Stop
<1>24. ASSUME Tick
       PROVE  TypeInv'
  <2>1. \A k \in Nat : Less(k) \in Nat
    BY DEF Less
  <2>2. {[x EXCEPT !.left = Less(@)] : x \in timers} \subseteq Timer
    <3>1. ASSUME NEW x \in timers PROVE [x EXCEPT !.left = Less(@)] \in Timer
      BY <2>1 DEF TypeInv, Timer
    <3>q. QED
      BY <3>1
  <2>q. QED
    BY <1>24, <2>1, <2>2 DEF TypeInv, Tick
<1>25. ASSUME NEW fd \in Fd, NEW e \in Event, Arrive(fd, e)
       PROVE  TypeInv'
  BY <1>25 DEF TypeInv, Arrive
<1>q. QED
  BY <1>1, <1>2, <1>3, <1>4, <1>4a, <1>5, <1>6, <1>7, <1>8, <1>9, <1>10, <1>11, <1>12, <1>13, <1>14,
     <1>15, <1>16, <1>17, <1>18, <1>19, <1>20, <1>21, <1>22, <1>23, <1>24, <1>25, IOAssumption
     DEF Next, ThreadStep, MainStep, Ask

-----------------------------------------------------------------------------
(* What the longer actions do *)

\* A longer queue.
LEMMA QueueGrows ==
  ASSUME TypeInv, NEW more \in Seq(Item), tasks' = tasks \o more
  PROVE  /\ \A i \in DOMAIN tasks : i \in DOMAIN tasks' /\ tasks'[i] = tasks[i]
         /\ \A i \in DOMAIN tasks' : i \in DOMAIN tasks \/ (/\ i - Len(tasks) \in DOMAIN more
                                                            /\ tasks'[i] = more[i - Len(tasks)]
                                                            /\ \A j \in DOMAIN tasks : j < i)
         /\ \A k \in DOMAIN more : Len(tasks) + k \in DOMAIN tasks' /\ tasks'[Len(tasks) + k] = more[k]
         /\ DOMAIN tasks \subseteq Nat /\ DOMAIN tasks' \subseteq Nat /\ Len(tasks) \in Nat
<1>1. tasks \in Seq(Item)
  BY DEF TypeInv
<1>2. /\ tasks' \in Seq(Item) /\ Len(tasks') = Len(tasks) + Len(more)
      /\ \A i \in 1 .. Len(tasks) + Len(more) :
           tasks'[i] = IF i <= Len(tasks) THEN tasks[i] ELSE more[i - Len(tasks)]
  BY <1>1, ConcatProperties
<1>3. /\ DOMAIN tasks = 1 .. Len(tasks) /\ DOMAIN more = 1 .. Len(more)
      /\ DOMAIN tasks' = 1 .. Len(tasks) + Len(more)
      /\ Len(tasks) \in Nat /\ Len(more) \in Nat
  BY <1>1, <1>2
<1>q. QED
  BY <1>2, <1>3

\* A task less.
LEMMA QueueShrinks ==
  ASSUME TypeInv, NEW i \in DOMAIN tasks, tasks' = Cut(tasks, i)
  PROVE  /\ \A k \in DOMAIN tasks' :
              LET j == IF k < i THEN k ELSE k + 1 IN j \in DOMAIN tasks \ {i} /\ tasks'[k] = tasks[j]
         /\ \A j \in DOMAIN tasks \ {i} :
              LET k == IF j < i THEN j ELSE j - 1 IN k \in DOMAIN tasks' /\ tasks'[k] = tasks[j]
         /\ DOMAIN tasks \subseteq Nat /\ DOMAIN tasks' \subseteq Nat
<1>1. tasks \in Seq(Item)
  BY DEF TypeInv
<1>2. /\ tasks' \in Seq(Item) /\ Len(tasks') = Len(tasks) - 1
      /\ \A k \in 1 .. Len(tasks) - 1 : tasks'[k] = IF k < i THEN tasks[k] ELSE tasks[k + 1]
  BY <1>1, CutFacts
<1>3. /\ DOMAIN tasks = 1 .. Len(tasks) /\ DOMAIN tasks' = 1 .. Len(tasks) - 1
      /\ Len(tasks) \in Nat
  BY <1>1, <1>2
<1>q. QED
  BY <1>2, <1>3

\* The callback that is queued.
LEMMA ScheduleExpiredFacts ==
  ASSUME TypeInv, ThreadInv, NEW t \in Thread, ScheduleExpired(t)
  PROVE  /\ t \in pool /\ pc[t] = "handle"
         /\ \E c \in cbs[t] :
              /\ c \in Item /\ <<c>> \in Seq(Item) /\ tasks' = tasks \o <<c>> /\ Len(<<c>>) = 1 /\ <<c>>[1] = c
              /\ cbs' = [cbs EXCEPT ![t] = @ \ {c}]
<1>1. PICK c \in cbs[t] : Schedule(t, <<c>>) /\ cbs' = [cbs EXCEPT ![t] = @ \ {c}]
  BY DEF ScheduleExpired
<1>2. c \in Item /\ <<c>> \in Seq(Item) /\ Len(<<c>>) = 1 /\ <<c>>[1] = c
  BY DEF TypeInv
<1>3. t \in pool /\ pc[t] = "handle"
  BY FreeFacts DEF ScheduleExpired
<1>q. QED
  BY <1>1, <1>2, <1>3 DEF Schedule

\* The waiters of events of a descriptor go to the queue.
Triggers(fd, E) ==
  /\ tasks' = tasks \o Triggered(fd, E)
  /\ waiter' = [waiter EXCEPT ![fd] = [e \in Event |-> IF e \in E THEN None ELSE @[e]]]

LEMMA HandleEventFacts ==
  ASSUME TypeInv, ThreadInv, NEW t \in Thread, HandleEvent(t)
  PROVE  /\ t \in pool /\ pc[t] = "handle" /\ cbs[t] = {}
         /\ \E r \in report[t] :
              /\ r.fd \in Fd /\ r.events \in SUBSET Event
              /\ report' = [report EXCEPT ![t] = @ \ {r}]
              /\ CondPanic(Registered(r.fd) \cap r.events # {} => r.events \subseteq Registered(r.fd))
              /\ Triggers(r.fd, r.events) \/ (tasks' = tasks /\ waiter' = waiter)
         /\ UNCHANGED <<pool, pc, task, cbs, waitLeft, over, idleCnt, activeCnt, stopped, pipe,
                        timerVars, ready, open, fiberVars>>
<1>1. t \in pool /\ pc[t] = "handle" /\ cbs[t] = {}
  BY FreeFacts DEF HandleEvent
<1>2. PICK r \in report[t] :
        /\ r.fd # Pipe
        /\ report' = [report EXCEPT ![t] = @ \ {r}]
        /\ CondPanic(Registered(r.fd) \cap r.events # {} => r.events \subseteq Registered(r.fd))
        /\ IF Registered(r.fd) \cap r.events # {}
             THEN Schedule(t, Triggered(r.fd, r.events)) /\ Unregister(r.fd, r.events)
             ELSE UNCHANGED <<tasks, owes, waiter, pendingEventCnt, edge>>
  BY DEF HandleEvent
<1>3. r.fd \in Fd /\ r.events \in SUBSET Event
  BY <1>2 DEF TypeInv, Report
<1>4. Triggers(r.fd, r.events) \/ (tasks' = tasks /\ waiter' = waiter)
  BY <1>2 DEF Triggers, Schedule, Unregister
<1>5. UNCHANGED <<pool, pc, task, cbs, waitLeft, over, idleCnt, activeCnt, stopped, pipe,
                  timerVars, ready, open, fiberVars>>
  BY DEF HandleEvent
<1>q. QED
  BY <1>1, <1>2, <1>3, <1>4, <1>5

\* A thread that has something to run.
LEMMA RunsFacts ==
  ASSUME TypeInv, ThreadInv, NEW t \in Thread, NEW ops, Runs(t, ops)
  PROVE  t \in pool /\ pc[t] = "run" /\ task[t] \in Item /\ task[t].op \in ops /\ task[t].fiber \in Fiber
BY FreeFacts DEF Runs, ThreadInv, TypeInv, Item

LEMMA WakeSleeperFacts ==
  ASSUME TypeInv, ThreadInv, NEW t \in Thread, WakeSleeper(t)
  PROVE  LET x == Task("resume", task[t].fiber, Any) IN
         /\ t \in pool /\ pc[t] = "run" /\ task[t] \in Item /\ task[t].op = "wake" /\ task[t].fiber \in Fiber
         /\ x \in Item /\ x.op = "resume" /\ x.fiber = task[t].fiber /\ x.thread = Any
         /\ <<x>> \in Seq(Item) /\ tasks' = tasks \o <<x>> /\ Len(<<x>>) = 1 /\ <<x>>[1] = x
         /\ due' = [due EXCEPT ![task[t].fiber] = 0]
         /\ EndTask(t)
         /\ UNCHANGED <<timerVars, fdVars, state, at, call, calls, cancelled, panicked>>
<1> DEFINE x == Task("resume", task[t].fiber, Any)
<1>1. t \in pool /\ pc[t] = "run" /\ task[t] \in Item /\ task[t].op = "wake" /\ task[t].fiber \in Fiber
  BY RunsFacts DEF WakeSleeper
<1>2. x \in Item
  BY <1>1, TaskType DEF Op
<1>3. x.op = "resume" /\ x.fiber = task[t].fiber /\ x.thread = Any
  BY DEF Task
<1>4. /\ tasks' = tasks \o <<x>> /\ EndTask(t) /\ due' = [due EXCEPT ![task[t].fiber] = 0]
      /\ UNCHANGED <<timerVars, fdVars, state, at, call, calls, cancelled, panicked>>
  BY DEF WakeSleeper, Schedule
<1> HIDE DEF x
<1>5. <<x>> \in Seq(Item) /\ Len(<<x>>) = 1 /\ <<x>>[1] = x
  BY <1>2
<1>q. QED
  BY <1>1, <1>2, <1>3, <1>4, <1>5 DEF x

LEMMA TimeOutCallFacts ==
  ASSUME TypeInv, ThreadInv, CallInv, NEW t \in Thread, TimeOutCall(t)
  PROVE  LET f == task[t].fiber IN
         /\ t \in pool /\ pc[t] = "run" /\ task[t] \in Item /\ task[t].op = "timeout" /\ f \in Fiber
         /\ cancelled' = [cancelled EXCEPT ![f] = @ \/ (at[f] = "io" /\ calls[f] = task[t].n /\ ~cancelled[f])]
         /\ \/ tasks' = tasks /\ waiter' = waiter
            \/ call[f].fd \in Fd /\ Triggers(call[f].fd, {call[f].event}) /\ {call[f].event} \in SUBSET Event
         /\ EndTask(t)
         /\ UNCHANGED <<timerVars, ready, open, state, at, call, calls, due, panicked>>
<1> DEFINE f == task[t].fiber
           c == call[f]
           current == at[f] = "io" /\ calls[f] = task[t].n /\ ~cancelled[f]
           cancels == current /\ waiter[c.fd][c.event] # None
<1>1. t \in pool /\ pc[t] = "run" /\ task[t] \in Item /\ task[t].op = "timeout" /\ f \in Fiber
  BY RunsFacts DEF TimeOutCall
<1>2. CASE cancels
  <2>1. c.fd \in Fd /\ {c.event} \in SUBSET Event
    BY <1>1, <1>2, DelayType DEF CallInv
  <2>2. Triggers(c.fd, {c.event})
    BY <1>2 DEF TimeOutCall, Triggers, Schedule, Unregister
  <2>q. QED
    BY <1>1, <2>1, <2>2 DEF TimeOutCall
<1>3. CASE ~cancels
  BY <1>1, <1>3 DEF TimeOutCall
<1>q. QED
  BY <1>2, <1>3

\* A fiber that runs, alone, and waits.
LEMMA MayWaitFacts ==
  ASSUME TypeInv, ThreadInv, NEW t \in Thread, MayWait(t)
  PROVE  /\ t \in pool /\ pc[t] = "run" /\ OneThread
         /\ task[t] \in Item /\ task[t].op \in {"start", "resume"}
         /\ task[t].fiber \in Fiber /\ at[task[t].fiber] = "user"
BY RunsFacts DEF MayWait, InUser

LEMMA SleepFacts ==
  ASSUME TypeInv, ThreadInv, NEW t \in Thread, NEW d \in Delay, Sleep(t, d)
  PROVE  LET f == task[t].fiber
             tm == [op |-> "wake", fiber |-> f, n |-> calls[f] + 1, left |-> d, ms |-> d]
         IN
         /\ tm \in Timer /\ d \in Nat /\ timers' = timers \cup {tm}
         /\ at' = [at EXCEPT ![f] = "sleep"]
         /\ calls' = [calls EXCEPT ![f] = @ + 1]
         /\ due' = [due EXCEPT ![f] = Asked(d)] /\ Asked(d) \in Nat
         /\ pc' = [pc EXCEPT ![t] = "yield"]
         /\ UNCHANGED <<pool, task, cbs, report, waitLeft, over, tasks, idleCnt, activeCnt, stopped, pipe,
                        fdVars, state, call, cancelled, panicked>>
<1> DEFINE f == task[t].fiber
           tm == [op |-> "wake", fiber |-> f, n |-> calls[f] + 1, left |-> d, ms |-> d]
<1>1. f \in Fiber /\ d \in Nat
  BY MayWaitFacts, DelayType DEF Sleep
<1>2. tm \in Timer /\ Asked(d) \in Nat
  BY <1>1 DEF Timer, TypeInv, Asked
<1>q. QED
  BY <1>1, <1>2 DEF Sleep, AddTimer

\* A call blocks, for the first time or again.
Blocked(t, f, c, n, others) ==
  LET tm == [op |-> "timeout", fiber |-> f, n |-> n, left |-> c.timeout, ms |-> c.timeout] IN
  /\ timers' = IF c.timed THEN others \cup {tm} ELSE others
  /\ waiter' = [waiter EXCEPT ![c.fd][c.event] = f]
  /\ due' = [due EXCEPT ![f] = IF c.timed THEN Asked(c.timeout) ELSE 0]
  /\ pc' = [pc EXCEPT ![t] = "yield"]

LEMMA DoIoFacts ==
  ASSUME TypeInv, ThreadInv, NEW t \in Thread, NEW c \in Call, DoIo(t, c)
  PROVE  LET f == task[t].fiber IN
         /\ c.fd \in Fd /\ c.event \in Event /\ c.timeout \in Nat
         /\ \A g \in Fiber : at[g] = "io" => <<call[g].fd, call[g].event>> # <<c.fd, c.event>>
         /\ calls' = [calls EXCEPT ![f] = @ + 1]
         /\ \/ /\ at' = [at EXCEPT ![f] = "io"]
               /\ call' = [call EXCEPT ![f] = c]
               /\ Blocked(t, f, c, calls[f] + 1, timers)
            \/ /\ at' = at
               /\ call' = [call EXCEPT ![f] = NoCall]
               /\ UNCHANGED <<timers, waiter, due, pc>>
         /\ UNCHANGED <<pool, task, cbs, report, waitLeft, over, tasks, idleCnt, activeCnt, stopped, pipe,
                        open, state, cancelled, panicked>>
<1> DEFINE f == task[t].fiber
           blocks == c.event \notin ready[c.fd]
<1>1. c.fd \in Fd /\ c.event \in Event /\ c.timeout \in Nat
  BY DelayType
<1>2. /\ \A g \in Fiber : at[g] = "io" => <<call[g].fd, call[g].event>> # <<c.fd, c.event>>
      /\ calls' = [calls EXCEPT ![f] = @ + 1]
      /\ call' = [call EXCEPT ![f] = IF blocks THEN c ELSE NoCall]
      /\ at' = [at EXCEPT ![f] = IF blocks THEN "io" ELSE @]
      /\ UNCHANGED <<pool, task, cbs, report, waitLeft, over, tasks, idleCnt, activeCnt, stopped, pipe,
                     open, state, cancelled, panicked>>
  BY DEF DoIo
<1>3. CASE blocks
  BY <1>1, <1>2, <1>3 DEF DoIo, Block, Blocked, AddTimer, AddEvent
<1>4. CASE ~blocks
  <2>1. at' = at
    BY <1>2, <1>4, MayWaitFacts DEF TypeInv, DoIo
  <2>q. QED
    BY <1>1, <1>2, <1>4, <2>1 DEF DoIo, timerVars
<1>q. QED
  BY <1>3, <1>4

LEMMA ResumeIoFacts ==
  ASSUME TypeInv, ThreadInv, CallInv, OneThreadInv, NEW t \in Thread, ResumeIo(t)
  PROVE  LET f == task[t].fiber
             c == call[f]
             others == {x \in timers : ~(x.op = "timeout" /\ x.fiber = f)}
         IN
         /\ t \in pool /\ pc[t] = "run" /\ OneThread
         /\ task[t] \in Item /\ task[t].op = "resume" /\ f \in Fiber /\ at[f] = "io"
         /\ c \in Call /\ c.fd \in Fd /\ c.event \in Event /\ c.timeout \in Nat
         /\ cancelled' = [cancelled EXCEPT ![f] = FALSE]
         /\ \/ /\ UNCHANGED <<at, call>>
               /\ Blocked(t, f, c, calls[f], others)
            \/ /\ at' = [at EXCEPT ![f] = "user"]
               /\ call' = [call EXCEPT ![f] = NoCall]
               /\ timers' = others
               /\ due' = [due EXCEPT ![f] = 0]
               /\ UNCHANGED <<waiter, pc>>
         /\ UNCHANGED <<pool, task, cbs, report, waitLeft, over, tasks, idleCnt, activeCnt, stopped, pipe,
                        open, state, calls, panicked>>
<1> DEFINE f == task[t].fiber
           c == call[f]
           others == {x \in timers : ~(x.op = "timeout" /\ x.fiber = f)}
           blocks == ~cancelled[f] /\ c.fd \in open /\ c.event \notin ready[c.fd]
<1>1. t \in pool /\ pc[t] = "run" /\ task[t] \in Item /\ task[t].op = "resume" /\ f \in Fiber
  BY RunsFacts DEF ResumeIo
<1>2. at[f] = "io" /\ OneThread
  BY <1>1 DEF ResumeIo, OneThreadInv
<1>3. c \in Call /\ c.fd \in Fd /\ c.event \in Event /\ c.timeout \in Nat
  BY <1>1, <1>2, DelayType DEF CallInv
<1>4. /\ call' = [call EXCEPT ![f] = IF blocks THEN @ ELSE NoCall]
      /\ at' = [at EXCEPT ![f] = IF blocks THEN @ ELSE "user"]
      /\ cancelled' = [cancelled EXCEPT ![f] = FALSE]
      /\ UNCHANGED <<pool, task, cbs, report, waitLeft, over, tasks, idleCnt, activeCnt, stopped, pipe,
                     open, state, calls, panicked>>
  BY DEF ResumeIo
<1>5. CASE blocks
  <2>1. UNCHANGED <<at, call>>
    BY <1>1, <1>4, <1>5 DEF TypeInv
  <2>2. Blocked(t, f, c, calls[f], others)
    BY <1>5 DEF ResumeIo, Block, Blocked, AddTimer, AddEvent
  <2>q. QED
    BY <1>1, <1>2, <1>3, <1>4, <2>1, <2>2
<1>6. CASE ~blocks
  BY <1>1, <1>2, <1>3, <1>4, <1>6 DEF ResumeIo
<1>q. QED
  BY <1>5, <1>6

LEMMA CloseFacts ==
  ASSUME TypeInv, ThreadInv, NEW t \in Thread, NEW fd \in Fd, Close(t, fd)
  PROVE  /\ t \in pool /\ pc[t] = "run" /\ OneThread /\ Registered(fd) \in SUBSET Event
         /\ Triggers(fd, Registered(fd))
         /\ UNCHANGED <<threadVars, idleCnt, activeCnt, stopped, pipe, timerVars, fiberVars, panicked>>
<1>1. t \in pool /\ pc[t] = "run" /\ OneThread
  BY RunsFacts DEF Close, InUser
<1>2. waiter' = [waiter EXCEPT ![fd] = [e \in Event |-> None]] /\ tasks' = tasks \o Triggered(fd, Registered(fd))
  BY DEF Close, CancelAll, Schedule
<1>3. waiter' = [waiter EXCEPT ![fd] = [e \in Event |-> IF e \in Registered(fd) THEN None ELSE @[e]]]
  BY <1>2 DEF Registered
<1>q. QED
  BY <1>1, <1>2, <1>3 DEF Close, Registered, Triggers

LEMMA MainScheduleFacts ==
  ASSUME TypeInv, NEW f \in Fiber, NEW th \in Thread \cup {Any}, MainSchedule(f, th)
  PROVE  LET x == Task("start", f, th) IN
         /\ ~stopped /\ at[f] = "new"
         /\ x \in Item /\ x.op = "start" /\ x.fiber = f /\ x.thread = th
         /\ <<x>> \in Seq(Item) /\ tasks' = tasks \o <<x>> /\ Len(<<x>>) = 1 /\ <<x>>[1] = x
         /\ at' = [at EXCEPT ![f] = "queued"]
         /\ UNCHANGED <<threadVars, idleCnt, activeCnt, stopped, pipe, timerVars, fdVars,
                        state, call, calls, cancelled, due, panicked>>
<1> DEFINE x == Task("start", f, th)
<1>1. x \in Item /\ x.op = "start" /\ x.fiber = f /\ x.thread = th
  BY TaskType DEF Op, Task
<1>2. tasks' = tasks \o <<x>>
  BY DEF MainSchedule, Schedule
<1>3. <<x>> \in Seq(Item) /\ Len(<<x>>) = 1 /\ <<x>>[1] = x
  <2> HIDE DEF x
  <2>q. QED
    BY <1>1
<1>q. QED
  BY <1>1, <1>2, <1>3 DEF MainSchedule

\* A timer of the main thread is set or moved.
LEMMA ResetTimerFacts ==
  ASSUME TypeInv, NEW f \in Fiber, NEW d \in Delay, ResetTimer(f, d)
  PROVE  \E x \in timers, y \in Timer :
           /\ x \in OwnTimer(f) /\ x.op = "start" /\ x.fiber = f
           /\ y.op = "start" /\ y.fiber = f /\ y.left = d /\ y.ms = d /\ d \in Nat
           /\ timers' = (timers \ {x}) \cup {y}
<1>1. PICK x \in OwnTimer(f) : AddTimer(Main, timers \ {x}, [x EXCEPT !.left = d, !.ms = d])
  BY DEF ResetTimer
<1>2. x \in timers /\ x \in Timer /\ x.op = "start" /\ x.fiber = f /\ d \in Nat
  BY DelayType DEF OwnTimer, TypeInv
<1> DEFINE y == [x EXCEPT !.left = d, !.ms = d]
<1>3. y \in Timer /\ y.op = "start" /\ y.fiber = f /\ y.left = d /\ y.ms = d
  BY <1>2 DEF Timer
<1>4. timers' = (timers \ {x}) \cup {y}
  BY <1>1 DEF AddTimer
<1> HIDE DEF y
<1>q. QED
  BY <1>1, <1>2, <1>3, <1>4

LEMMA ResetTimerAdds ==
  ASSUME TypeInv, NEW f \in Fiber, NEW d \in Delay, ResetTimer(f, d)
  PROVE  \E x \in timers, y \in Timer : AddTimer(Main, timers \ {x}, y)
<1>1. PICK x \in OwnTimer(f) : AddTimer(Main, timers \ {x}, [x EXCEPT !.left = d, !.ms = d])
  BY DEF ResetTimer
<1>2. x \in timers /\ x \in Timer /\ d \in Nat
  BY DelayType DEF OwnTimer, TypeInv
<1> DEFINE y == [x EXCEPT !.left = d, !.ms = d]
<1>3. y \in Timer
  BY <1>2 DEF Timer
<1> HIDE DEF y
<1>4. AddTimer(Main, timers \ {x}, y)
  BY <1>1 DEF y
<1>q. QED
  BY <1>2, <1>3, <1>4

LEMMA RefreshTimerFacts ==
  ASSUME TypeInv, NEW f \in Fiber, RefreshTimer(f)
  PROVE  \E x \in timers, y \in Timer :
           /\ x \in OwnTimer(f) /\ x.op = "start" /\ x.fiber = f
           /\ y.op = "start" /\ y.fiber = f /\ y.left = x.ms /\ y.ms = x.ms
           /\ timers' = (timers \ {x}) \cup {y}
<1>1. PICK x \in OwnTimer(f) : timers' = (timers \ {x}) \cup {[x EXCEPT !.left = x.ms]}
  BY DEF RefreshTimer
<1>2. x \in timers /\ x \in Timer /\ x.op = "start" /\ x.fiber = f
  BY DEF OwnTimer, TypeInv
<1> DEFINE y == [x EXCEPT !.left = x.ms]
<1>3. y \in Timer /\ y.op = "start" /\ y.fiber = f /\ y.left = x.ms /\ y.ms = x.ms
  BY <1>2 DEF Timer
<1>4. timers' = (timers \ {x}) \cup {y}
  BY <1>1
<1> HIDE DEF y
<1>q. QED
  BY <1>1, <1>2, <1>3, <1>4

\* Time passes.
LEMMA TickFacts ==
  ASSUME TypeInv, Tick
  PROVE  /\ \A k \in Nat : Less(k) \in Nat /\ Less(k) <= k
         /\ \A k, l \in Nat : k <= l => Less(k) <= Less(l)
         /\ \A x \in timers : LET y == [x EXCEPT !.left = Less(@)] IN
              /\ y \in timers' /\ y \in Timer
              /\ y.op = x.op /\ y.fiber = x.fiber /\ y.n = x.n /\ y.ms = x.ms /\ y.left = Less(x.left)
         /\ \A y \in timers' : \E x \in timers : y = [x EXCEPT !.left = Less(@)]
<1>1. \A k \in Nat : Less(k) \in Nat /\ Less(k) <= k
  BY DEF Less
<1>2. \A k, l \in Nat : k <= l => Less(k) <= Less(l)
  BY DEF Less
<1>3. timers' = {[x EXCEPT !.left = Less(@)] : x \in timers}
  BY DEF Tick
<1>4. ASSUME NEW x \in timers
      PROVE  LET y == [x EXCEPT !.left = Less(@)] IN
             /\ y \in Timer
             /\ y.op = x.op /\ y.fiber = x.fiber /\ y.n = x.n /\ y.ms = x.ms /\ y.left = Less(x.left)
  BY <1>1 DEF TypeInv, Timer
<1>q. QED
  BY <1>1, <1>2, <1>3, <1>4

-----------------------------------------------------------------------------
(* The threads *)

\* Tasks are for a thread of the pool, or for any.
QueueFor == \A i \in DOMAIN tasks : tasks[i].thread \in pool \cup {Any}

LEMMA QueueForMore ==
  ASSUME TypeInv, QueueFor, pool' = pool, NEW more \in Seq(Item), tasks' = tasks \o more,
         \A k \in DOMAIN more : more[k].thread \in pool \cup {Any}
  PROVE  QueueFor'
BY QueueGrows DEF QueueFor

LEMMA QueueForTriggers ==
  ASSUME TypeInv, QueueFor, pool' = pool, NEW fd \in Fd, NEW E \in SUBSET Event, Triggers(fd, E)
  PROVE  QueueFor'
<1>1. /\ Triggered(fd, E) \in Seq(Item)
      /\ \A k \in DOMAIN Triggered(fd, E) : Triggered(fd, E)[k].thread = Any
  BY TriggeredFacts
<1>q. QED
  BY <1>1, QueueForMore DEF Triggers

LEMMA ThreadKept ==
  ASSUME TypeInv, ThreadInv, OneThreadInv, CallInv, Next
  PROVE  ThreadInv'
<1> DEFINE Local(t) ==
      /\ t \notin pool => pc[t] = "exited"
      /\ pc[t] # "handle" => cbs[t] = {} /\ report[t] = {}
      /\ pc[t] \notin {"run", "yield"} => task[t] = NoTask
      /\ pc[t] = "run" => task[t] # NoTask
      /\ pc[t] = "yield" => task[t].op \in {"start", "resume"}
      /\ \A c \in cbs[t] : c.thread = Any /\ c.op # "resume"
<1> USE DEF threadVars, schedVars, timerVars, fdVars, fiberVars
<1>0. (\A t \in Thread : Local(t)) /\ idleCnt = Cardinality(Idlers) /\ QueueFor
  BY DEF ThreadInv, QueueFor
<1>a. IsFiniteSet(Idlers)
  BY PoolFacts, FS_Subset DEF TypeInv, Idlers
<1>b. SUFFICES (\A t \in Thread : Local(t)') /\ (idleCnt = Cardinality(Idlers))' /\ QueueFor'
  BY DEF ThreadInv, QueueFor
<1>1. CASE UNCHANGED <<pool, pc, task, cbs, report, idleCnt, tasks>>
  <2>1. \A t \in Thread : Local(t)'
    BY <1>0, <1>1
  <2>q. QED
    BY <1>0, <1>1, <2>1 DEF Idlers, QueueFor
<1>2. ASSUME NEW t \in Thread, Take(t)
      PROVE  (\A u \in Thread : Local(u)') /\ (idleCnt = Cardinality(Idlers))' /\ QueueFor'
  <2>1. PICK i \in DOMAIN tasks :
          tasks[i] \in Item /\ tasks' = Cut(tasks, i) /\ task' = [task EXCEPT ![t] = tasks[i]]
    BY <1>2, TakeFacts
  <2>2. t \in pool /\ pc[t] = "scan" /\ pc' = [pc EXCEPT ![t] = "run"] /\ UNCHANGED <<pool, cbs, report, idleCnt>>
    BY <1>2, FreeFacts DEF Take
  <2>3. QueueFor'
    BY <1>0, <2>1, <2>2, QueueShrinks DEF QueueFor
  <2>4. Idlers' = Idlers
    BY <2>2 DEF Idlers, TypeInv
  <2>5. tasks[i] # NoTask
    BY <2>1 DEF Item, Op, NoTask
  <2>6. \A u \in Thread : Local(u)'
    BY <1>0, <2>1, <2>2, <2>5 DEF TypeInv
  <2>q. QED
    BY <1>0, <2>2, <2>3, <2>4, <2>6
<1>3. ASSUME NEW t \in Thread, FindNothing(t)
      PROVE  (\A u \in Thread : Local(u)') /\ (idleCnt = Cardinality(Idlers))' /\ QueueFor'
  <2>1. t \in pool /\ pc[t] = "scan" /\ UNCHANGED <<pool, task, cbs, report, idleCnt, tasks>>
        /\ pc' = [pc EXCEPT ![t] = IF t \in over THEN "exited" ELSE "enter"]
    BY <1>3, FreeFacts DEF FindNothing
  <2>2. Idlers' = Idlers
    BY <2>1 DEF Idlers, TypeInv
  <2>3. \A u \in Thread : Local(u)'
    BY <1>0, <2>1 DEF TypeInv
  <2>q. QED
    BY <1>0, <2>1, <2>2, <2>3 DEF QueueFor
<1>4. ASSUME NEW t \in Thread, EnterIdle(t)
      PROVE  (\A u \in Thread : Local(u)') /\ (idleCnt = Cardinality(Idlers))' /\ QueueFor'
  <2>1. t \in pool /\ pc[t] = "enter" /\ UNCHANGED <<pool, task, cbs, report, tasks>>
        /\ pc' = [pc EXCEPT ![t] = "ask"] /\ idleCnt' = idleCnt + 1
    BY <1>4, FreeFacts DEF EnterIdle
  <2>2. Idlers' = Idlers \cup {t} /\ t \notin Idlers
    BY <2>1 DEF Idlers, TypeInv
  <2>3. \A u \in Thread : Local(u)'
    BY <1>0, <2>1 DEF TypeInv
  <2>4. Cardinality(Idlers') = Cardinality(Idlers) + 1
    BY <1>a, <2>2, FS_AddElement
  <2>q. QED
    BY <1>0, <2>1, <2>3, <2>4 DEF QueueFor
<1>4a. ASSUME NEW t \in Thread, Ask(t)
       PROVE  (\A u \in Thread : Local(u)') /\ (idleCnt = Cardinality(Idlers))' /\ QueueFor'
  <2>1. t \in pool /\ pc[t] \in {"ask", "pending", "stopping"} /\ UNCHANGED <<pool, task, cbs, report, tasks>>
    BY <1>4a, AskFacts
  <2>2. CASE idleCnt' = idleCnt /\ \E w \in {"pending", "stopping", "wait"} : pc' = [pc EXCEPT ![t] = w]
    <3>1. Idlers' = Idlers
      BY <2>1, <2>2 DEF Idlers, TypeInv
    <3>2. \A u \in Thread : Local(u)'
      BY <1>0, <2>1, <2>2 DEF TypeInv
    <3>q. QED
      BY <1>0, <2>1, <2>2, <3>1, <3>2 DEF QueueFor
  <2>3. CASE idleCnt' = idleCnt - 1 /\ pc' = [pc EXCEPT ![t] = "scan"]
    <3>1. Idlers' = Idlers \ {t} /\ t \in Idlers
      BY <2>1, <2>3 DEF Idlers, TypeInv
    <3>2. \A u \in Thread : Local(u)'
      BY <1>0, <2>1, <2>3 DEF TypeInv
    <3>3. Cardinality(Idlers') = Cardinality(Idlers) - 1
      BY <1>a, <3>1, FS_RemoveElement
    <3>q. QED
      BY <1>0, <2>1, <2>3, <3>2, <3>3 DEF QueueFor
  <2>q. QED
    BY <1>4a, <2>2, <2>3, AskFacts
<1>5. ASSUME NEW t \in Thread, EpollWait(t)
      PROVE  (\A u \in Thread : Local(u)') /\ (idleCnt = Cardinality(Idlers))' /\ QueueFor'
  <2> DEFINE C == {[op |-> x.op, fiber |-> x.fiber, n |-> x.n, thread |-> Any] : x \in Expired}
  <2>1. /\ t \in pool /\ pc[t] = "wait" /\ pc' = [pc EXCEPT ![t] = "handle"]
        /\ cbs' = [cbs EXCEPT ![t] = C] /\ \E R : report' = [report EXCEPT ![t] = R]
        /\ UNCHANGED <<pool, task, idleCnt, tasks>>
    BY <1>5, FreeFacts DEF EpollWait
  <2>2. \A c \in C : c.thread = Any /\ c.op # "resume"
    <3>1. \A x \in Expired : x.op # "resume"
      BY DEF TypeInv, Expired, Timer
    <3>q. QED
      BY <3>1
  <2> HIDE DEF C
  <2>3. Idlers' = Idlers
    BY <2>1 DEF Idlers, TypeInv
  <2>4. \A u \in Thread : Local(u)'
    BY <1>0, <2>1, <2>2 DEF TypeInv
  <2>q. QED
    BY <1>0, <2>1, <2>3, <2>4 DEF QueueFor
<1>6. ASSUME NEW t \in Thread, ScheduleExpired(t)
      PROVE  (\A u \in Thread : Local(u)') /\ (idleCnt = Cardinality(Idlers))' /\ QueueFor'
  <2>1. UNCHANGED <<pool, pc, task, report, idleCnt>>
    BY <1>6 DEF ScheduleExpired
  <2>2. PICK c \in cbs[t] :
          /\ c \in Item /\ <<c>> \in Seq(Item) /\ tasks' = tasks \o <<c>> /\ Len(<<c>>) = 1 /\ <<c>>[1] = c
          /\ cbs' = [cbs EXCEPT ![t] = @ \ {c}]
    BY <1>6, ScheduleExpiredFacts
  <2>3. pc[t] = "handle"
    BY <1>6, ScheduleExpiredFacts
  <2>4. \A k \in DOMAIN <<c>> : <<c>>[k].thread \in pool \cup {Any}
    BY <1>0, <2>2
  <2>5. QueueFor'
    BY <1>0, <2>1, <2>2, <2>4, QueueForMore
  <2>6. \A u \in Thread : Local(u)'
    BY <1>0, <2>1, <2>2, <2>3 DEF TypeInv
  <2>q. QED
    BY <1>0, <2>1, <2>5, <2>6 DEF Idlers
<1>7. ASSUME NEW t \in Thread, DrainPipe(t)
      PROVE  (\A u \in Thread : Local(u)') /\ (idleCnt = Cardinality(Idlers))' /\ QueueFor'
  <2>1. pc[t] = "handle" /\ (\E R : report' = [report EXCEPT ![t] = R]) /\ UNCHANGED <<pool, pc, task, cbs, idleCnt, tasks>>
    BY <1>7 DEF DrainPipe, Free
  <2>2. \A u \in Thread : Local(u)'
    BY <1>0, <2>1 DEF TypeInv
  <2>q. QED
    BY <1>0, <2>1, <2>2 DEF Idlers, QueueFor
<1>8. ASSUME NEW t \in Thread, HandleEvent(t)
      PROVE  (\A u \in Thread : Local(u)') /\ (idleCnt = Cardinality(Idlers))' /\ QueueFor'
  <2>1. pc[t] = "handle" /\ UNCHANGED <<pool, pc, task, cbs, idleCnt>>
    BY <1>8, HandleEventFacts
  <2>2. PICK r \in report[t] :
          /\ r.fd \in Fd /\ r.events \in SUBSET Event
          /\ report' = [report EXCEPT ![t] = @ \ {r}]
          /\ Triggers(r.fd, r.events) \/ (tasks' = tasks /\ waiter' = waiter)
    BY <1>8, HandleEventFacts
  <2>3. QueueFor'
    <3>1. CASE Triggers(r.fd, r.events)
      BY <1>0, <2>1, <2>2, <3>1, QueueForTriggers
    <3>2. CASE tasks' = tasks
      BY <1>0, <2>1, <3>2 DEF QueueFor
    <3>q. QED
      BY <2>2, <3>1, <3>2
  <2>4. \A u \in Thread : Local(u)'
    BY <1>0, <2>1, <2>2 DEF TypeInv
  <2>q. QED
    BY <1>0, <2>1, <2>3, <2>4 DEF Idlers
<1>9. ASSUME NEW t \in Thread, LeaveIdle(t)
      PROVE  (\A u \in Thread : Local(u)') /\ (idleCnt = Cardinality(Idlers))' /\ QueueFor'
  <2>1. t \in pool /\ pc[t] = "handle" /\ cbs[t] = {} /\ report[t] = {} /\ UNCHANGED <<pool, task, cbs, report, tasks>>
        /\ pc' = [pc EXCEPT ![t] = "scan"] /\ idleCnt' = idleCnt - 1
    BY <1>9, FreeFacts DEF LeaveIdle
  <2>2. Idlers' = Idlers \ {t} /\ t \in Idlers
    BY <2>1 DEF Idlers, TypeInv
  <2>3. Cardinality(Idlers') = Cardinality(Idlers) - 1
    BY <1>a, <2>2, FS_RemoveElement
  <2>4. \A u \in Thread : Local(u)'
    BY <1>0, <2>1 DEF TypeInv
  <2>q. QED
    BY <1>0, <2>1, <2>3, <2>4 DEF QueueFor
<1>10. ASSUME NEW t \in pool, pc[t] \in {"run", "yield"}, EndTask(t)
       PROVE  (\A u \in Thread : Local(u)') /\ (idleCnt = Cardinality(Idlers))'
  <2>1. t \in Thread /\ pc' = [pc EXCEPT ![t] = "scan"] /\ task' = [task EXCEPT ![t] = NoTask]
        /\ UNCHANGED <<pool, cbs, report, idleCnt>>
    BY <1>10, PoolFacts DEF EndTask, TypeInv
  <2>2. Idlers' = Idlers
    BY <1>10, <2>1 DEF Idlers, TypeInv
  <2>3. \A u \in Thread : Local(u)'
    BY <1>0, <1>10, <2>1 DEF TypeInv
  <2>q. QED
    BY <1>0, <2>1, <2>2, <2>3
<1>11. ASSUME NEW t \in Thread, WakeSleeper(t)
       PROVE  (\A u \in Thread : Local(u)') /\ (idleCnt = Cardinality(Idlers))' /\ QueueFor'
  <2> DEFINE x == Task("resume", task[t].fiber, Any)
  <2>1. /\ t \in pool /\ pc[t] = "run" /\ EndTask(t) /\ x \in Item /\ x.thread = Any
        /\ <<x>> \in Seq(Item) /\ tasks' = tasks \o <<x>> /\ Len(<<x>>) = 1 /\ <<x>>[1] = x
    BY <1>11, WakeSleeperFacts
  <2> HIDE DEF x
  <2>2. \A k \in DOMAIN <<x>> : <<x>>[k].thread \in pool \cup {Any}
    BY <2>1
  <2>3. QueueFor'
    BY <1>0, <2>1, <2>2, QueueForMore DEF EndTask
  <2>q. QED
    BY <1>10, <2>1, <2>3
<1>12. ASSUME NEW t \in Thread, TimeOutCall(t)
       PROVE  (\A u \in Thread : Local(u)') /\ (idleCnt = Cardinality(Idlers))' /\ QueueFor'
  <2> DEFINE c == call[task[t].fiber]
  <2>1. /\ t \in pool /\ pc[t] = "run" /\ EndTask(t)
        /\ \/ tasks' = tasks /\ waiter' = waiter
           \/ c.fd \in Fd /\ Triggers(c.fd, {c.event}) /\ {c.event} \in SUBSET Event
    BY <1>12, TimeOutCallFacts
  <2>2. QueueFor'
    <3>1. CASE c.fd \in Fd /\ Triggers(c.fd, {c.event}) /\ {c.event} \in SUBSET Event
      BY <1>0, <2>1, <3>1, QueueForTriggers DEF EndTask
    <3>2. CASE tasks' = tasks
      BY <1>0, <2>1, <3>2 DEF QueueFor, EndTask
    <3>q. QED
      BY <2>1, <3>1, <3>2
  <2>q. QED
    BY <1>10, <2>1, <2>2
<1>13. ASSUME NEW t \in Thread, Finish(t)
       PROVE  (\A u \in Thread : Local(u)') /\ (idleCnt = Cardinality(Idlers))' /\ QueueFor'
  <2>1. t \in pool /\ pc[t] = "run" /\ EndTask(t) /\ tasks' = tasks
    BY <1>13, RunsFacts DEF Finish, InUser
  <2>q. QED
    BY <1>0, <1>10, <2>1 DEF QueueFor, EndTask
<1>14. ASSUME NEW t \in Thread, Yield(t)
       PROVE  (\A u \in Thread : Local(u)') /\ (idleCnt = Cardinality(Idlers))' /\ QueueFor'
  <2>1. t \in pool /\ pc[t] = "yield" /\ EndTask(t) /\ tasks' = tasks
    BY <1>14, FreeFacts DEF Yield
  <2>q. QED
    BY <1>0, <1>10, <2>1 DEF QueueFor, EndTask
<1>15. ASSUME NEW t \in pool, pc[t] = "run", task[t].op \in {"start", "resume"}, pc' = [pc EXCEPT ![t] = "yield"],
              UNCHANGED <<pool, task, cbs, report, idleCnt, tasks>>
       PROVE  (\A u \in Thread : Local(u)') /\ (idleCnt = Cardinality(Idlers))' /\ QueueFor'
  <2>1. t \in Thread
    BY PoolFacts DEF TypeInv
  <2>2. Idlers' = Idlers
    BY <1>15, <2>1 DEF Idlers, TypeInv
  <2>3. \A u \in Thread : Local(u)'
    BY <1>0, <1>15, <2>1 DEF TypeInv
  <2>q. QED
    BY <1>0, <1>15, <2>2, <2>3 DEF QueueFor
<1>16. ASSUME NEW t \in Thread, NEW d \in Delay, Sleep(t, d)
       PROVE  (\A u \in Thread : Local(u)') /\ (idleCnt = Cardinality(Idlers))' /\ QueueFor'
  <2>1. t \in pool /\ pc[t] = "run" /\ task[t].op \in {"start", "resume"}
    BY <1>16, MayWaitFacts DEF Sleep
  <2>2. pc' = [pc EXCEPT ![t] = "yield"] /\ UNCHANGED <<pool, task, cbs, report, idleCnt, tasks>>
    BY <1>16 DEF Sleep
  <2>q. QED
    BY <1>15, <2>1, <2>2
<1>17. ASSUME NEW t \in Thread, NEW c \in Call, DoIo(t, c)
       PROVE  (\A u \in Thread : Local(u)') /\ (idleCnt = Cardinality(Idlers))' /\ QueueFor'
  <2>1. t \in pool /\ pc[t] = "run" /\ task[t].op \in {"start", "resume"}
    BY <1>17, MayWaitFacts DEF DoIo
  <2>2. pc' = [pc EXCEPT ![t] = "yield"] \/ pc' = pc
    BY <1>17, DoIoFacts DEF Blocked
  <2>3. UNCHANGED <<pool, task, cbs, report, idleCnt, tasks>>
    BY <1>17 DEF DoIo
  <2>q. QED
    BY <1>1, <1>15, <2>1, <2>2, <2>3
<1>18. ASSUME NEW t \in Thread, ResumeIo(t)
       PROVE  (\A u \in Thread : Local(u)') /\ (idleCnt = Cardinality(Idlers))' /\ QueueFor'
  <2>1. t \in pool /\ pc[t] = "run" /\ task[t].op \in {"start", "resume"}
    BY <1>18, ResumeIoFacts
  <2>2. pc' = [pc EXCEPT ![t] = "yield"] \/ pc' = pc
    BY <1>18, ResumeIoFacts DEF Blocked
  <2>3. UNCHANGED <<pool, task, cbs, report, idleCnt, tasks>>
    BY <1>18 DEF ResumeIo
  <2>q. QED
    BY <1>1, <1>15, <2>1, <2>2, <2>3
<1>19. ASSUME NEW t \in Thread, NEW fd \in Fd, Close(t, fd)
       PROVE  (\A u \in Thread : Local(u)') /\ (idleCnt = Cardinality(Idlers))' /\ QueueFor'
  <2>1. Triggers(fd, Registered(fd)) /\ Registered(fd) \in SUBSET Event /\ UNCHANGED <<threadVars, idleCnt>>
    BY <1>19, CloseFacts
  <2>2. QueueFor'
    BY <1>0, <2>1, QueueForTriggers
  <2>3. \A u \in Thread : Local(u)'
    BY <1>0, <2>1
  <2>q. QED
    BY <1>0, <2>1, <2>2, <2>3 DEF Idlers
<1>20. ASSUME NEW f \in Fiber, NEW th \in pool \cup {Any}, MainSchedule(f, th)
       PROVE  (\A u \in Thread : Local(u)') /\ (idleCnt = Cardinality(Idlers))' /\ QueueFor'
  <2> DEFINE x == Task("start", f, th)
  <2>0. th \in Thread \cup {Any}
    BY PoolFacts DEF TypeInv
  <2>1. /\ x \in Item /\ x.thread = th /\ UNCHANGED <<threadVars, idleCnt>>
        /\ <<x>> \in Seq(Item) /\ tasks' = tasks \o <<x>> /\ Len(<<x>>) = 1 /\ <<x>>[1] = x
    BY <1>20, <2>0, MainScheduleFacts
  <2> HIDE DEF x
  <2>2. \A k \in DOMAIN <<x>> : <<x>>[k].thread \in pool \cup {Any}
    BY <2>1
  <2>3. QueueFor'
    BY <1>0, <2>1, <2>2, QueueForMore
  <2>4. \A u \in Thread : Local(u)'
    BY <1>0, <2>1
  <2>q. QED
    BY <1>0, <2>1, <2>3, <2>4 DEF Idlers
<1>21. ASSUME \/ \E t \in Thread \cup {Main} : Tickle(t)
              \/ \E f \in Fiber, d \in Delay : MainAddTimer(f, d) \/ ResetTimer(f, d)
              \/ \E f \in Fiber : CancelTimer(f) \/ RefreshTimer(f)
              \/ Stop \/ Tick
              \/ \E fd \in Fd, e \in Event : Arrive(fd, e)
       PROVE  UNCHANGED <<pool, pc, task, cbs, report, idleCnt, tasks>>
  BY <1>21 DEF Tickle, MainAddTimer, ResetTimer, CancelTimer, RefreshTimer, Stop, Tick, Arrive
<1> HIDE DEF Local, threadVars, schedVars, timerVars, fdVars, fiberVars
<1>q. QED
  BY <1>1, <1>2, <1>3, <1>4, <1>4a, <1>5, <1>6, <1>7, <1>8, <1>9, <1>11, <1>12, <1>13, <1>14,
     <1>16, <1>17, <1>18, <1>19, <1>20, <1>21, IOAssumption
     DEF Next, ThreadStep, MainStep, Ask

\* The pool does not change.
LEMMA PoolKept == ASSUME Next PROVE pool' = pool /\ (OneThread' <=> OneThread)
<1> USE DEF threadVars, schedVars, timerVars, fdVars, fiberVars
<1>1. ASSUME NEW t \in Thread, ThreadStep(t)
      PROVE  pool' = pool
  BY <1>1 DEF ThreadStep, Tickle, Take, FindNothing, EnterIdle, AskNextTimer, AskPending, AskStopping, EpollWait,
     ScheduleExpired, DrainPipe, HandleEvent, LeaveIdle, WakeSleeper, TimeOutCall, Finish, Sleep, DoIo, ResumeIo, Close, Yield, EndTask
<1>2. ASSUME MainStep
      PROVE  pool' = pool
  BY <1>2 DEF MainStep, Tickle, MainSchedule, MainAddTimer, CancelTimer, ResetTimer, RefreshTimer, Stop
<1>3. pool' = pool
  BY <1>1, <1>2 DEF Next, Tick, Arrive
<1>q. QED
  BY <1>3 DEF OneThread

\* In a larger pool nobody waits, and there is nothing for those who do.
LEMMA OneThreadKept ==
  ASSUME TypeInv, ThreadInv, OneThreadInv, CallInv, Next
  PROVE  OneThreadInv'
<1> USE DEF threadVars, schedVars, timerVars, fdVars, fiberVars
<1> SUFFICES ASSUME ~OneThread, ~OneThread' PROVE OneThreadInv'
  BY PoolKept DEF OneThreadInv
<1>0. /\ \A t \in Thread : /\ pc[t] # "yield"
                           /\ task[t] = NoTask \/ task[t].op = "start"
                           /\ \A c \in cbs[t] : c.op = "start"
      /\ \A i \in DOMAIN tasks : tasks[i].op = "start"
      /\ \A x \in timers : x.op = "start"
      /\ \A d \in Fd, e \in Event : waiter[d][e] = None
      /\ \A f \in Fiber : at[f] \notin {"sleep", "io"}
  BY DEF OneThreadInv, PlainItem
<1>1. ASSUME NEW t \in Thread, Take(t)
      PROVE  OneThreadInv'
  <2>1. PICK i \in DOMAIN tasks :
          /\ tasks[i] \in Item /\ tasks' = Cut(tasks, i) /\ task' = [task EXCEPT ![t] = tasks[i]]
          /\ at' = IF tasks[i].op \in {"start", "resume"} /\ at[tasks[i].fiber] # "io"
                     THEN [at EXCEPT ![tasks[i].fiber] = "user"] ELSE at
    BY <1>1, TakeFacts
  <2>2. pc' = [pc EXCEPT ![t] = "run"] /\ UNCHANGED <<cbs, timers, waiter>>
    BY <1>1 DEF Take
  <2>3. \A k \in DOMAIN tasks' : tasks'[k].op = "start"
    BY <1>0, <2>1, QueueShrinks
  <2>4. \A f \in Fiber : at'[f] \notin {"sleep", "io"}
    BY <1>0, <2>1 DEF TypeInv
  <2>q. QED
    BY <1>0, <2>1, <2>2, <2>3, <2>4 DEF TypeInv, OneThreadInv, PlainItem
<1>2. ASSUME NEW t \in Thread, FindNothing(t) \/ EnterIdle(t) \/ Ask(t) \/ LeaveIdle(t)
      PROVE  OneThreadInv'
  <2>1. (\E w \in {"exited", "enter", "ask", "pending", "stopping", "scan", "wait"} : pc' = [pc EXCEPT ![t] = w])
        /\ UNCHANGED <<task, cbs, tasks, timers, waiter, at>>
    BY <1>2, AskFacts DEF FindNothing, EnterIdle, LeaveIdle
  <2>q. QED
    BY <1>0, <2>1 DEF TypeInv, OneThreadInv, PlainItem
<1>3. ASSUME NEW t \in Thread, EpollWait(t)
      PROVE  OneThreadInv'
  <2> DEFINE C == {[op |-> x.op, fiber |-> x.fiber, n |-> x.n, thread |-> Any] : x \in Expired}
  <2>1. /\ pc' = [pc EXCEPT ![t] = "handle"] /\ cbs' = [cbs EXCEPT ![t] = C]
        /\ timers' \subseteq timers /\ UNCHANGED <<task, tasks, waiter, at>>
    BY <1>3 DEF EpollWait
  <2>2. \A c \in C : c.op = "start"
    BY <1>0 DEF Expired
  <2> HIDE DEF C
  <2>q. QED
    BY <1>0, <2>1, <2>2 DEF TypeInv, OneThreadInv, PlainItem
<1>4. ASSUME NEW t \in Thread, ScheduleExpired(t)
      PROVE  OneThreadInv'
  <2>1. PICK c \in cbs[t] :
          /\ c \in Item /\ <<c>> \in Seq(Item) /\ tasks' = tasks \o <<c>> /\ Len(<<c>>) = 1 /\ <<c>>[1] = c
          /\ cbs' = [cbs EXCEPT ![t] = @ \ {c}]
    BY <1>4, ScheduleExpiredFacts
  <2>2. UNCHANGED <<pc, task, timers, waiter, at>>
    BY <1>4 DEF ScheduleExpired
  <2>3. \A k \in DOMAIN tasks' : tasks'[k].op = "start"
    BY <1>0, <2>1, QueueGrows
  <2>q. QED
    BY <1>0, <2>1, <2>2, <2>3 DEF TypeInv, OneThreadInv, PlainItem
<1>5. ASSUME NEW t \in Thread, HandleEvent(t)
      PROVE  OneThreadInv'
  <2>1. PICK r \in report[t] :
          /\ r.fd \in Fd /\ r.events \in SUBSET Event
          /\ Triggers(r.fd, r.events) \/ (tasks' = tasks /\ waiter' = waiter)
    BY <1>5, HandleEventFacts
  <2>2. UNCHANGED <<pc, task, cbs, timers, at>>
    BY <1>5 DEF HandleEvent
  <2>3. CASE Triggers(r.fd, r.events)
    <3>1. Triggered(r.fd, r.events) \in Seq(Item) /\ DOMAIN Triggered(r.fd, r.events) = {}
      BY <1>0, <2>1, TriggeredFacts, IOAssumption
    <3>2. \A k \in DOMAIN tasks' : tasks'[k].op = "start"
      BY <1>0, <2>3, <3>1, QueueGrows DEF Triggers
    <3>3. \A d \in Fd, e \in Event : waiter'[d][e] = None
      BY <1>0, <2>1, <2>3 DEF Triggers, TypeInv
    <3>q. QED
      BY <1>0, <2>2, <3>2, <3>3 DEF OneThreadInv, PlainItem
  <2>4. CASE tasks' = tasks /\ waiter' = waiter
    BY <1>0, <2>2, <2>4 DEF OneThreadInv, PlainItem
  <2>q. QED
    BY <2>1, <2>3, <2>4
<1>6. ASSUME NEW t \in Thread, Finish(t)
      PROVE  OneThreadInv'
  <2>1. pc' = [pc EXCEPT ![t] = "scan"] /\ task' = [task EXCEPT ![t] = NoTask]
        /\ at' = [at EXCEPT ![task[t].fiber] = "done"] /\ UNCHANGED <<cbs, tasks, timers, waiter>>
    BY <1>6 DEF Finish, EndTask
  <2>q. QED
    BY <1>0, <2>1 DEF TypeInv, OneThreadInv, PlainItem
<1>7. ASSUME NEW t \in Thread, WakeSleeper(t) \/ TimeOutCall(t) \/ ResumeIo(t) \/ Yield(t)
                                 \/ (\E d \in Delay : Sleep(t, d)) \/ (\E c \in Call : DoIo(t, c))
                                 \/ (\E fd \in Fd : Close(t, fd))
      PROVE  FALSE
  <2>1. WakeSleeper(t) => task[t].op = "wake"
    BY WakeSleeperFacts
  <2>2. TimeOutCall(t) => task[t].op = "timeout"
    BY TimeOutCallFacts
  <2>3. NoTask.op = "none"
    BY DEF NoTask
  <2>q. QED
    BY <1>0, <1>7, <2>1, <2>2, <2>3, ResumeIoFacts, MayWaitFacts, CloseFacts DEF Yield, Free, Sleep, DoIo
<1>8. ASSUME NEW f \in Fiber, NEW th \in Thread \cup {Any}, MainSchedule(f, th)
      PROVE  OneThreadInv'
  <2> DEFINE x == Task("start", f, th)
  <2>1. /\ x \in Item /\ x.op = "start" /\ UNCHANGED <<pc, task, cbs, timers, waiter>>
        /\ <<x>> \in Seq(Item) /\ tasks' = tasks \o <<x>> /\ Len(<<x>>) = 1 /\ <<x>>[1] = x
        /\ at' = [at EXCEPT ![f] = "queued"]
    BY <1>8, MainScheduleFacts
  <2> HIDE DEF x
  <2>2. \A k \in DOMAIN tasks' : tasks'[k].op = "start"
    BY <1>0, <2>1, QueueGrows
  <2>q. QED
    BY <1>0, <2>1, <2>2 DEF TypeInv, OneThreadInv, PlainItem
<1>9. ASSUME UNCHANGED <<pc, task, cbs, tasks, waiter>>,
             \A x \in timers' : x.op = "start",
             \A f \in Fiber : at'[f] # at[f] => at'[f] \in {"timer", "done"}
      PROVE  OneThreadInv'
  BY <1>0, <1>9 DEF OneThreadInv, PlainItem
<1>10. ASSUME NEW f \in Fiber, NEW d \in Delay, MainAddTimer(f, d)
       PROVE  OneThreadInv'
  <2>1. UNCHANGED <<pc, task, cbs, tasks, waiter>> /\ at' = [at EXCEPT ![f] = "timer"]
        /\ timers' = timers \cup {[op |-> "start", fiber |-> f, n |-> 0, left |-> d, ms |-> d]}
    BY <1>10 DEF MainAddTimer, AddTimer
  <2>2. \A x \in timers' : x.op = "start"
    BY <1>0, <2>1
  <2>3. \A g \in Fiber : at'[g] # at[g] => at'[g] \in {"timer", "done"}
    BY <2>1 DEF TypeInv
  <2>q. QED
    BY <1>9, <2>1, <2>2, <2>3
<1>11. ASSUME NEW f \in Fiber, CancelTimer(f)
       PROVE  OneThreadInv'
  <2>1. UNCHANGED <<pc, task, cbs, tasks, waiter>> /\ at' = [at EXCEPT ![f] = "done"] /\ timers' \subseteq timers
    BY <1>11 DEF CancelTimer
  <2>2. \A g \in Fiber : at'[g] # at[g] => at'[g] \in {"timer", "done"}
    BY <2>1 DEF TypeInv
  <2>q. QED
    BY <1>0, <1>9, <2>1, <2>2
<1>12. ASSUME NEW f \in Fiber, NEW d \in Delay, ResetTimer(f, d)
       PROVE  OneThreadInv'
  <2>1. UNCHANGED <<pc, task, cbs, tasks, waiter, at>>
    BY <1>12 DEF ResetTimer
  <2>2. \A x \in timers' : x.op = "start"
    <3>1. \E x \in timers : \E y : y.op = "start" /\ timers' = (timers \ {x}) \cup {y}
      BY <1>12, ResetTimerFacts
    <3>q. QED
      BY <1>0, <3>1
  <2>q. QED
    BY <1>9, <2>1, <2>2
<1>13. ASSUME NEW f \in Fiber, RefreshTimer(f)
       PROVE  OneThreadInv'
  <2>1. UNCHANGED <<pc, task, cbs, tasks, waiter, at>>
    BY <1>13 DEF RefreshTimer
  <2>2. \A x \in timers' : x.op = "start"
    <3>1. \E x \in timers : \E y : y.op = "start" /\ timers' = (timers \ {x}) \cup {y}
      BY <1>13, RefreshTimerFacts
    <3>q. QED
      BY <1>0, <3>1
  <2>q. QED
    BY <1>9, <2>1, <2>2
<1>14. ASSUME Tick
       PROVE  OneThreadInv'
  <2>1. UNCHANGED <<pc, task, cbs, tasks, waiter, at>>
    BY <1>14 DEF Tick
  <2>2. \A x \in timers' : x.op = "start"
    <3>1. \A y \in timers' : \E x \in timers : y.op = x.op
      BY <1>14, TickFacts
    <3>q. QED
      BY <1>0, <3>1
  <2>q. QED
    BY <1>9, <2>1, <2>2
<1>15. ASSUME \/ \E t \in Thread \cup {Main} : Tickle(t)
              \/ \E t \in Thread : DrainPipe(t)
              \/ Stop
              \/ \E fd \in Fd, e \in Event : Arrive(fd, e)
       PROVE  UNCHANGED <<pc, task, cbs, tasks, waiter, at, timers>>
  BY <1>15 DEF Tickle, DrainPipe, Stop, Arrive
<1> HIDE DEF threadVars, schedVars, timerVars, fdVars, fiberVars
<1>16. pool \subseteq Thread /\ Timed \subseteq Fiber
  BY PoolFacts, IOAssumption DEF TypeInv
<1>q. QED
  BY <1>0, <1>1, <1>2, <1>3, <1>4, <1>5, <1>6, <1>7, <1>8, <1>9, <1>10, <1>11, <1>12, <1>13, <1>14, <1>15, <1>16
     DEF Next, ThreadStep, MainStep, Ask

-----------------------------------------------------------------------------
(* Threads that sleep, and threads that are done *)

\* What a thread does other than find no task, go to idle or tickle: it stays
\* awake, and in a larger pool what runs goes on to look for a task.
LEMMA StaysAwake ==
  ASSUME TypeInv, ThreadInv, OneThreadInv, CallInv, NEW t \in Thread,
         \/ Take(t) \/ EpollWait(t) \/ ScheduleExpired(t) \/ DrainPipe(t) \/ HandleEvent(t) \/ LeaveIdle(t)
         \/ WakeSleeper(t) \/ TimeOutCall(t) \/ Finish(t) \/ ResumeIo(t) \/ Yield(t)
         \/ (\E d \in Delay : Sleep(t, d)) \/ (\E c \in Call : DoIo(t, c)) \/ (\E fd \in Fd : Close(t, fd))
  PROVE  /\ t \in pool /\ pool' = pool
         /\ pc[t] \in {"scan", "run", "yield", "wait", "handle"} /\ (pc[t] = "scan" => Take(t))
         /\ pc'[t] \in {"scan", "run", "yield", "handle"}
         /\ pc[t] \in {"scan", "run"} => pc'[t] \in {"scan", "run"} \/ OneThread
         /\ \A u \in Thread \ {t} : pc'[u] = pc[u]
         /\ over' = over /\ stopped' = stopped
<1> USE DEF threadVars, schedVars, timerVars, fdVars, fiberVars
<1>0. pc \in [Thread -> {"scan", "run", "yield", "enter", "ask", "pending", "stopping", "wait", "handle", "exited"}]
  BY DEF TypeInv
<1>1. CASE Take(t)
  BY <1>0, <1>1, FreeFacts DEF Take
<1>2. CASE EpollWait(t)
  BY <1>0, <1>2, FreeFacts DEF EpollWait
<1>3. CASE ScheduleExpired(t)
  BY <1>0, <1>3, FreeFacts DEF ScheduleExpired
<1>4. CASE DrainPipe(t)
  BY <1>0, <1>4, FreeFacts DEF DrainPipe
<1>5. CASE HandleEvent(t)
  BY <1>0, <1>5, HandleEventFacts
<1>6. CASE LeaveIdle(t)
  BY <1>0, <1>6, FreeFacts DEF LeaveIdle
<1>7. CASE WakeSleeper(t)
  BY <1>0, <1>7, WakeSleeperFacts DEF EndTask, WakeSleeper
<1>8. CASE TimeOutCall(t)
  <2>1. t \in pool /\ pc[t] = "run" /\ EndTask(t)
    BY <1>8, TimeOutCallFacts
  <2>q. QED
    BY <1>0, <2>1 DEF EndTask
<1>9. CASE Finish(t)
  <2>1. t \in pool /\ pc[t] = "run" /\ EndTask(t)
    BY <1>9, RunsFacts DEF Finish, InUser
  <2>q. QED
    BY <1>0, <2>1 DEF EndTask
<1>10. CASE ResumeIo(t)
  <2>1. t \in pool /\ pc[t] = "run" /\ OneThread /\ UNCHANGED <<pool, over, stopped>>
    BY <1>10, ResumeIoFacts
  <2>2. pc' = [pc EXCEPT ![t] = "yield"] \/ pc' = pc
    BY <1>10, ResumeIoFacts DEF Blocked
  <2>q. QED
    BY <1>0, <2>1, <2>2
<1>11. CASE Yield(t)
  BY <1>0, <1>11, FreeFacts DEF EndTask, Yield
<1>12. ASSUME NEW d \in Delay, Sleep(t, d)
       PROVE  /\ t \in pool /\ pool' = pool
              /\ pc[t] = "run" /\ OneThread
              /\ pc'[t] \in {"run", "yield"}
              /\ \A u \in Thread \ {t} : pc'[u] = pc[u]
              /\ over' = over /\ stopped' = stopped
  <2>1. t \in pool /\ pc[t] = "run" /\ OneThread
    BY <1>12, MayWaitFacts DEF Sleep
  <2>q. QED
    BY <1>0, <1>12, <2>1 DEF Sleep
<1>13. ASSUME NEW c \in Call, DoIo(t, c)
       PROVE  /\ t \in pool /\ pool' = pool
              /\ pc[t] = "run" /\ OneThread
              /\ pc'[t] \in {"run", "yield"}
              /\ \A u \in Thread \ {t} : pc'[u] = pc[u]
              /\ over' = over /\ stopped' = stopped
  <2>1. t \in pool /\ pc[t] = "run" /\ OneThread
    BY <1>13, MayWaitFacts DEF DoIo
  <2>2. pc' = pc \/ pc' = [pc EXCEPT ![t] = "yield"]
    BY <1>13, DoIoFacts DEF Blocked
  <2>3. pool' = pool /\ over' = over /\ stopped' = stopped
    BY <1>13 DEF DoIo
  <2>q. QED
    BY <1>0, <2>1, <2>2, <2>3
<1>14. ASSUME NEW fd \in Fd, Close(t, fd)
       PROVE  /\ t \in pool /\ pool' = pool
              /\ pc[t] = "run" /\ OneThread
              /\ pc'[t] \in {"run", "yield"}
              /\ \A u \in Thread \ {t} : pc'[u] = pc[u]
              /\ over' = over /\ stopped' = stopped
  BY <1>0, <1>14, CloseFacts
<1>q. QED
  BY <1>1, <1>2, <1>3, <1>4, <1>5, <1>6, <1>7, <1>8, <1>9, <1>10, <1>11, <1>12, <1>13, <1>14

LEMMA OverKept ==
  ASSUME TypeInv, ThreadInv, OneThreadInv, CallInv, OverInv, Next
  PROVE  OverInv'
<1> USE DEF threadVars, schedVars, timerVars, fdVars, fiberVars
<1>0. /\ over \subseteq pool /\ pool' = pool /\ OneThread' = OneThread /\ pool \subseteq Thread
      /\ \A t \in pool : pc[t] = "exited" => t \in over
      /\ \A t \in over : pc[t] \in {"scan", "run", "exited"}
      /\ over # {} => stopped
      /\ over # {} /\ OneThread => tasks = <<>> /\ \A t \in pool : pc[t] \in {"scan", "exited"}
  BY PoolKept, PoolFacts DEF OverInv, TypeInv, OneThread
<1>a. ASSUME over' = over, stopped => stopped',
             \A u \in pool : pc'[u] = "exited" => u \in over,
             \A u \in over : pc'[u] \in {"scan", "run", "exited"},
             over # {} /\ OneThread => tasks' = <<>> /\ \A t \in pool : pc'[t] \in {"scan", "exited"}
      PROVE  OverInv'
  BY <1>0, <1>a DEF OverInv
<1>1. ASSUME NEW t \in Thread,
             \/ Take(t) \/ EpollWait(t) \/ ScheduleExpired(t) \/ DrainPipe(t) \/ HandleEvent(t) \/ LeaveIdle(t)
             \/ WakeSleeper(t) \/ TimeOutCall(t) \/ Finish(t) \/ ResumeIo(t) \/ Yield(t)
             \/ (\E d \in Delay : Sleep(t, d)) \/ (\E c \in Call : DoIo(t, c)) \/ (\E fd \in Fd : Close(t, fd))
      PROVE  OverInv'
  <2>1. /\ t \in pool /\ pc[t] \in {"scan", "run", "yield", "wait", "handle"} /\ (pc[t] = "scan" => Take(t))
        /\ pc'[t] \in {"scan", "run", "yield", "handle"}
        /\ pc[t] \in {"scan", "run"} => pc'[t] \in {"scan", "run"} \/ OneThread
        /\ \A u \in Thread \ {t} : pc'[u] = pc[u]
        /\ over' = over /\ stopped' = stopped
    BY <1>1, StaysAwake
  <2>2. ~(over # {} /\ OneThread)
    <3>1. SUFFICES ASSUME over # {}, OneThread, Take(t) PROVE FALSE
      BY <1>0, <2>1
    <3>2. tasks = <<>> /\ Runnable(t) # {}
      BY <1>0, <3>1 DEF Take
    <3>q. QED
      BY <3>2 DEF Runnable
  <2>3. \A u \in pool : pc'[u] = "exited" => u \in over
    BY <1>0, <2>1
  <2>4. \A u \in over : pc'[u] \in {"scan", "run", "exited"}
    BY <1>0, <2>1, <2>2
  <2>q. QED
    BY <1>a, <2>1, <2>2, <2>3, <2>4
<1>2. ASSUME NEW t \in Thread, FindNothing(t)
      PROVE  OverInv'
  <2>1. /\ t \in pool /\ pc[t] = "scan" /\ Runnable(t) = {}
        /\ pc' = [pc EXCEPT ![t] = IF t \in over THEN "exited" ELSE "enter"]
        /\ UNCHANGED <<over, stopped, tasks>>
    BY <1>2, FreeFacts DEF FindNothing
  <2>2. /\ \A u \in pool : pc'[u] = "exited" => u \in over
        /\ \A u \in over : pc'[u] \in {"scan", "run", "exited"}
    BY <1>0, <2>1 DEF TypeInv
  <2>3. ASSUME over # {}, OneThread
        PROVE  tasks = <<>> /\ \A u \in pool : pc'[u] \in {"scan", "exited"}
    <3>1. pool = {t}
      BY <2>1, <2>3, Alone
    <3>q. QED
      BY <1>0, <2>1, <2>3, <3>1 DEF TypeInv
  <2>q. QED
    BY <1>0, <1>a, <2>1, <2>2, <2>3
<1>3. ASSUME NEW t \in Thread, EnterIdle(t)
      PROVE  OverInv'
  <2>1. t \in pool /\ pc[t] = "enter" /\ pc' = [pc EXCEPT ![t] = "ask"] /\ UNCHANGED <<over, stopped>>
    BY <1>3, FreeFacts DEF EnterIdle
  <2>q. QED
    BY <1>0, <1>a, <2>1 DEF TypeInv
<1>3a. ASSUME NEW t \in Thread, Ask(t)
       PROVE  OverInv'
  <2>1. t \in pool /\ pc[t] \in {"ask", "pending", "stopping"} /\ UNCHANGED <<stopped, tasks>>
    BY <1>3a, AskFacts
  <2>2. CASE over' = over /\ \E w \in {"pending", "stopping", "wait"} : pc' = [pc EXCEPT ![t] = w]
    BY <1>0, <1>a, <2>1, <2>2 DEF TypeInv
  <2>3. CASE pc' = [pc EXCEPT ![t] = "scan"] /\ over' = over \cup {t} /\ Stopping
    <3>1. stopped /\ tasks = <<>>
      BY <2>3 DEF Stopping
    <3>2. \A u \in pool : u # t => pc'[u] = pc[u]
      BY <1>0, <2>3 DEF TypeInv
    <3>3. pc'[t] = "scan"
      BY <1>0, <2>1, <2>3 DEF TypeInv
    <3>4. OneThread => pool = {t}
      BY <2>1, Alone
    <3>q. QED
      BY <1>0, <2>1, <2>3, <3>1, <3>2, <3>3, <3>4 DEF OverInv
  <2>q. QED
    BY <1>3a, <2>2, <2>3, AskFacts
<1>4. ASSUME NEW f \in Fiber, NEW th, MainSchedule(f, th)
      PROVE  OverInv'
  BY <1>0, <1>a, <1>4 DEF MainSchedule
<1>5. ASSUME \/ \E t \in Thread \cup {Main} : Tickle(t)
             \/ \E f \in Fiber : CancelTimer(f) \/ RefreshTimer(f)
             \/ \E f \in Fiber, d \in Delay : MainAddTimer(f, d) \/ ResetTimer(f, d)
             \/ Stop \/ Tick
             \/ \E fd \in Fd, e \in Event : Arrive(fd, e)
      PROVE  UNCHANGED <<over, pc, tasks>> /\ (stopped => stopped')
  <2>1. ASSUME NEW f \in Fiber, CancelTimer(f) \/ RefreshTimer(f)
        PROVE  UNCHANGED <<over, pc, tasks, stopped>>
    BY <2>1 DEF CancelTimer, RefreshTimer
  <2>3. ASSUME NEW f \in Fiber, NEW d \in Delay, MainAddTimer(f, d) \/ ResetTimer(f, d)
        PROVE  UNCHANGED <<over, pc, tasks, stopped>>
    BY <2>3 DEF MainAddTimer, ResetTimer
  <2>2. CASE \/ \E t \in Thread \cup {Main} : Tickle(t)
             \/ Stop \/ Tick
             \/ \E fd \in Fd, e \in Event : Arrive(fd, e)
    BY <2>2 DEF Tickle, Stop, Tick, Arrive
  <2>q. QED
    BY <1>5, <2>1, <2>2, <2>3
<1> HIDE DEF threadVars, schedVars, timerVars, fdVars, fiberVars
<1>6. ASSUME UNCHANGED <<over, pc, tasks>> /\ (stopped => stopped')
      PROVE  OverInv'
  BY <1>0, <1>a, <1>6
<1>7. Timed \subseteq Fiber
  BY IOAssumption
<1>q. QED
  BY <1>1, <1>2, <1>3, <1>3a, <1>4, <1>5, <1>6, <1>7 DEF Next, ThreadStep, MainStep, Ask

\* tickled_ may be set, or a timer be far off, only as long as somebody looks again.
LEMMA SleepKept ==
  ASSUME TypeInv, ThreadInv, OneThreadInv, CallInv, OverInv, SleepInv, TimeInv, Next
  PROVE  SleepInv'
<1> USE DEF threadVars, schedVars, timerVars, fdVars, fiberVars
<1>0. /\ pool' = pool /\ pool \subseteq Thread /\ pool # {} /\ owes \subseteq pool \cup {Main}
      /\ pc \in [Thread -> {"scan", "run", "yield", "enter", "ask", "pending", "stopping", "wait", "handle", "exited"}]
      /\ waitLeft \in [Thread -> Nat] /\ timers \subseteq Timer
  BY PoolKept, PoolFacts DEF TypeInv
<1>a. \A x \in timers : x.left \in Nat /\ x.ms \in Nat /\ x.left <= x.ms
  BY <1>0 DEF TimeInv, Timer
<1> DEFINE InTimeFor(t) == pc[t] = "wait" /\ \A x \in timers : waitLeft[t] <= x.left
<1>b. ASSUME NEW t \in pool, ~Awake(t) \/ t \in over, pc[t] # "wait",
             \A u \in pool \ {t} : pc'[u] = pc[u] /\ waitLeft'[u] = waitLeft[u],
             over \subseteq over', over' \subseteq over \cup {t},
             UNCHANGED <<timers, tickled, pipe>>, owes \subseteq owes'
      PROVE  SleepInv'
  <2>1. CASE \E u \in pool \ over : Awake(u)
    BY <1>0, <1>b, <2>1 DEF SleepInv, Awake
  <2>2. CASE pool \subseteq over \/ pipe \/ owes # {}
    BY <1>0, <1>b, <2>2 DEF SleepInv
  <2>3. CASE ~tickled /\ (timers # {} => \E u \in pool : InTimeFor(u))
    BY <1>0, <1>b, <2>3 DEF SleepInv
  <2>q. QED
    BY <2>1, <2>2, <2>3 DEF SleepInv
<1>1. ASSUME NEW t \in Thread,
             \/ Take(t) \/ EpollWait(t) \/ ScheduleExpired(t) \/ DrainPipe(t) \/ HandleEvent(t) \/ LeaveIdle(t)
             \/ WakeSleeper(t) \/ TimeOutCall(t) \/ Finish(t) \/ ResumeIo(t) \/ Yield(t)
             \/ (\E d \in Delay : Sleep(t, d)) \/ (\E c \in Call : DoIo(t, c)) \/ (\E fd \in Fd : Close(t, fd))
      PROVE  SleepInv'
  <2>1. /\ t \in pool /\ pc[t] \in {"scan", "run", "yield", "wait", "handle"}
        /\ pc'[t] \in {"scan", "run", "yield", "handle"}
        /\ \A u \in Thread \ {t} : pc'[u] = pc[u]
        /\ over' = over
    BY <1>1, StaysAwake
  <2>2. CASE t \notin over
    BY <1>0, <2>1, <2>2 DEF SleepInv, Awake
  <2>3. CASE t \in over /\ OneThread
    BY <1>0, <2>1, <2>3, Alone DEF SleepInv
  <2>4. CASE t \in over /\ ~OneThread
    <3>1. pc[t] \in {"scan", "run"}
      BY <2>1, <2>4 DEF OverInv
    <3>2. Take(t) \/ WakeSleeper(t) \/ TimeOutCall(t) \/ Finish(t)
      BY <1>1, <2>4, <3>1, ResumeIoFacts, MayWaitFacts, CloseFacts
         DEF EpollWait, ScheduleExpired, DrainPipe, HandleEvent, LeaveIdle, Yield, Free, Sleep, DoIo
    <3>3. UNCHANGED <<timers, tickled, pipe, waitLeft>> /\ owes \subseteq owes'
      BY <3>2 DEF Take, WakeSleeper, TimeOutCall, Finish, EndTask, Schedule
    <3>q. QED
      BY <1>0, <1>b, <2>1, <2>4, <3>1, <3>3
  <2>q. QED
    BY <2>2, <2>3, <2>4
<1>2. ASSUME NEW t \in Thread, FindNothing(t)
      PROVE  SleepInv'
  <2>1. /\ t \in pool /\ pc[t] = "scan" /\ pc' = [pc EXCEPT ![t] = IF t \in over THEN "exited" ELSE "enter"]
        /\ UNCHANGED <<waitLeft, over, timers, tickled, pipe>> /\ owes \subseteq owes'
    BY <1>2, FreeFacts DEF FindNothing
  <2>2. CASE t \in over
    BY <1>0, <1>b, <2>1, <2>2
  <2>3. CASE t \notin over
    BY <1>0, <2>1, <2>3 DEF SleepInv, Awake
  <2>q. QED
    BY <2>2, <2>3
<1>3. ASSUME NEW t \in Thread, EnterIdle(t)
      PROVE  SleepInv'
  <2>1. t \in pool /\ pc[t] = "enter" /\ pc' = [pc EXCEPT ![t] = "ask"] /\ over' = over
    BY <1>3, FreeFacts DEF EnterIdle
  <2>2. t \notin over
    BY <2>1 DEF OverInv
  <2>q. QED
    BY <1>0, <2>1, <2>2 DEF SleepInv, Awake
<1>3a. ASSUME NEW t \in Thread, AskNextTimer(t)
       PROVE  SleepInv'
  <2>1. t \in pool /\ tickled' = FALSE /\ timers' = timers
    BY <1>3a, FreeFacts DEF AskNextTimer
  <2>2. CASE timers = {}
    BY <2>1, <2>2 DEF SleepInv
  <2>3. CASE timers # {}
    <3>1. waitLeft' = [waitLeft EXCEPT ![t] = NextTimeout] /\ pc' = [pc EXCEPT ![t] = "wait"]
      BY <1>3a, <2>3 DEF AskNextTimer
    <3>2. pc'[t] = "wait" /\ \A x \in timers' : waitLeft'[t] <= x.left
      BY <1>0, <2>1, <3>1, NextTimeoutFacts
    <3>q. QED
      BY <1>0, <2>1, <3>2 DEF SleepInv
  <2>q. QED
    BY <2>2, <2>3
<1>3b. ASSUME NEW t \in Thread, AskPending(t) \/ AskStopping(t)
       PROVE  SleepInv'
  <2>1. pc[t] \in {"pending", "stopping"} /\ tickled' = tickled
    BY <1>3b DEF AskPending, AskStopping, Free
  <2>2. /\ t \in pool /\ \A u \in Thread \ {t} : waitLeft'[u] = waitLeft[u]
        /\ UNCHANGED <<timers, pipe, owes>>
        /\ \E w \in {"pending", "stopping", "wait", "scan"} : pc' = [pc EXCEPT ![t] = w]
        /\ over' = over \/ over' = over \cup {t}
    BY <1>3b, AskFacts DEF Ask
  <2>3. \A u \in Thread \ {t} : pc'[u] = pc[u]
    BY <1>0, <2>2
  <2>q. QED
    BY <1>0, <1>b, <2>1, <2>2, <2>3 DEF Awake
<1>4. ASSUME NEW t \in Thread \cup {Main}, Tickle(t)
      PROVE  SleepInv'
  <2>1. /\ owes' = owes \ {t} /\ pipe' = (pipe \/ idleCnt > 0)
        /\ UNCHANGED <<pc, waitLeft, over, timers, tickled>>
    BY <1>4 DEF Tickle
  <2>2. CASE idleCnt > 0
    BY <2>1, <2>2 DEF SleepInv
  <2>3. CASE ~(idleCnt > 0)
    <3>1. Idlers = {}
      <4>1. IsFiniteSet(Idlers) /\ Cardinality(Idlers) = 0
        BY <1>0, <2>3, PoolFacts, FS_Subset DEF TypeInv, ThreadInv, Idlers
      <4>q. QED
        BY <4>1, FS_EmptySet
    <3>2. \A u \in pool \ over : Awake(u)
      BY <1>0, <3>1 DEF Idlers, OverInv, Awake
    <3>q. QED
      BY <1>0, <2>1, <3>2 DEF SleepInv, Awake
  <2>q. QED
    BY <2>2, <2>3
<1>5. ASSUME UNCHANGED <<pc, waitLeft, over, pipe>>, NEW others \in SUBSET Timer, NEW tm \in Timer,
             AddTimer(Main, others, tm), others \subseteq timers
      PROVE  SleepInv'
  <2>1. CASE owes' # {} \/ pipe' \/ pool \subseteq over \/ \E t \in pool \ over : Awake(t)
    BY <1>0, <1>5, <2>1 DEF SleepInv, Awake
  <2>2. CASE owes' = {} /\ ~pipe' /\ ~(pool \subseteq over) /\ ~\E t \in pool \ over : Awake(t)
    <3>1. /\ timers' = others \cup {tm} /\ owes = {}
          /\ tickled' = tickled /\ (tickled \/ \E x \in others : x.left <= tm.left)
      BY <1>5, <2>2, AddTimerFacts
    <3>2. ~tickled /\ (timers # {} => \E t \in pool : InTimeFor(t))
      BY <1>5, <2>2, <3>1 DEF SleepInv
    <3>3. PICK x \in others : x.left <= tm.left
      BY <3>1, <3>2
    <3>4. PICK t \in pool : InTimeFor(t)
      BY <1>5, <3>2, <3>3
    <3>5. waitLeft[t] \in Nat /\ waitLeft[t] <= x.left /\ x.left \in Nat /\ tm.left \in Nat
      BY <1>0, <1>5, <3>3, <3>4 DEF Timer
    <3>6. pc'[t] = "wait" /\ \A y \in timers' : waitLeft'[t] <= y.left
      BY <1>5, <3>1, <3>3, <3>4, <3>5
    <3>q. QED
      BY <1>0, <3>1, <3>2, <3>6 DEF SleepInv
  <2>q. QED
    BY <2>1, <2>2
<1>6. ASSUME NEW f \in Fiber, NEW d \in Delay, MainAddTimer(f, d)
      PROVE  SleepInv'
  <2> DEFINE tm == [op |-> "start", fiber |-> f, n |-> 0, left |-> d, ms |-> d]
  <2>1. tm \in Timer
    BY DelayType DEF Timer
  <2>2. AddTimer(Main, timers, tm) /\ UNCHANGED <<pc, waitLeft, over, pipe>>
    BY <1>6 DEF MainAddTimer
  <2>q. QED
    BY <1>0, <1>5, <2>1, <2>2
<1>7. ASSUME NEW f \in Fiber, NEW d \in Delay, ResetTimer(f, d)
      PROVE  SleepInv'
  <2>1. \E x \in timers, y \in Timer : AddTimer(Main, timers \ {x}, y)
    BY <1>7, ResetTimerAdds
  <2>2. UNCHANGED <<pc, waitLeft, over, pipe>>
    BY <1>7 DEF ResetTimer
  <2>q. QED
    BY <1>0, <1>5, <2>1, <2>2
<1>8. ASSUME UNCHANGED <<pc, waitLeft, over, pipe, owes, tickled>>,
             \A y \in timers' : \E x \in timers : x.left <= y.left /\ y.left \in Nat
      PROVE  SleepInv'
  <2>1. CASE owes # {} \/ pipe \/ pool \subseteq over \/ \E t \in pool \ over : Awake(t)
    BY <1>0, <1>8, <2>1 DEF SleepInv, Awake
  <2>2. CASE owes = {} /\ ~pipe /\ ~(pool \subseteq over) /\ ~\E t \in pool \ over : Awake(t)
    <3>1. ~tickled /\ (timers # {} => \E t \in pool : InTimeFor(t))
      BY <2>2 DEF SleepInv
    <3>2. CASE timers' = {}
      BY <1>8, <3>1, <3>2 DEF SleepInv
    <3>3. CASE timers' # {}
      <4>1. PICK t \in pool : InTimeFor(t)
        BY <1>8, <3>1, <3>3
      <4>2. waitLeft[t] \in Nat
        BY <1>0, <4>1
      <4>3. pc'[t] = "wait" /\ \A y \in timers' : waitLeft'[t] <= y.left
        BY <1>8, <1>a, <4>1, <4>2
      <4>q. QED
        BY <1>0, <1>8, <3>1, <4>3 DEF SleepInv
    <3>q. QED
      BY <3>2, <3>3
  <2>q. QED
    BY <2>1, <2>2
<1>9. ASSUME NEW f \in Fiber, CancelTimer(f)
      PROVE  SleepInv'
  <2>1. timers' \subseteq timers /\ UNCHANGED <<pc, waitLeft, over, pipe, owes, tickled>>
    BY <1>9 DEF CancelTimer
  <2>q. QED
    BY <1>8, <1>a, <2>1
<1>10. ASSUME NEW f \in Fiber, RefreshTimer(f)
       PROVE  SleepInv'
  <2>1. UNCHANGED <<pc, waitLeft, over, pipe, owes, tickled>>
    BY <1>10 DEF RefreshTimer
  <2>2. \E x \in timers : \E y : y.left = x.ms /\ timers' = (timers \ {x}) \cup {y}
    BY <1>10, RefreshTimerFacts
  <2>q. QED
    BY <1>8, <1>a, <2>1, <2>2
<1>11. ASSUME Stop
       PROVE  SleepInv'
  BY <1>11 DEF Stop, SleepInv
<1>12. ASSUME Tick
       PROVE  SleepInv'
  <2>1. /\ UNCHANGED <<pc, over, pipe, owes, tickled>>
        /\ waitLeft' = [t \in Thread |-> Less(waitLeft[t])]
    BY <1>12 DEF Tick
  <2>2. \A k, l \in Nat : k <= l => Less(k) <= Less(l)
    BY <1>12, TickFacts
  <2>3. \A y \in timers' : \E x \in timers : y.left = Less(x.left)
    BY <1>12, TickFacts
  <2>4. CASE owes # {} \/ pipe \/ pool \subseteq over \/ \E t \in pool \ over : Awake(t)
    BY <1>0, <2>1, <2>4 DEF SleepInv, Awake
  <2>5. CASE owes = {} /\ ~pipe /\ ~(pool \subseteq over) /\ ~\E t \in pool \ over : Awake(t)
    <3>1. ~tickled /\ (timers # {} => \E t \in pool : InTimeFor(t))
      BY <2>5 DEF SleepInv
    <3>2. CASE timers' = {}
      BY <2>1, <3>1, <3>2 DEF SleepInv
    <3>3. CASE timers' # {}
      <4>1. PICK t \in pool : InTimeFor(t)
        BY <2>3, <3>1, <3>3
      <4>2. waitLeft[t] \in Nat /\ waitLeft'[t] = Less(waitLeft[t])
        BY <1>0, <2>1, <4>1
      <4>3. pc'[t] = "wait" /\ \A y \in timers' : waitLeft'[t] <= y.left
        BY <1>a, <2>1, <2>2, <2>3, <4>1, <4>2
      <4>q. QED
        BY <1>0, <2>1, <3>1, <4>3 DEF SleepInv
    <3>q. QED
      BY <3>2, <3>3
  <2>q. QED
    BY <2>4, <2>5
<1>13. ASSUME NEW f \in Fiber, NEW th, MainSchedule(f, th)
       PROVE  SleepInv'
  <2>1. UNCHANGED <<pc, waitLeft, over, pipe, tickled, timers>> /\ (owes' = owes \/ owes' = owes \cup {Main})
    BY <1>13 DEF MainSchedule, Schedule
  <2>q. QED
    BY <1>0, <2>1 DEF SleepInv, Awake
<1>14. ASSUME NEW fd \in Fd, NEW e \in Event, Arrive(fd, e)
       PROVE  SleepInv'
  BY <1>0, <1>14 DEF Arrive, SleepInv, Awake
<1> HIDE DEF threadVars, schedVars, timerVars, fdVars, fiberVars
<1>15. Timed \subseteq Fiber
  BY IOAssumption
<1>q. QED
  BY <1>1, <1>2, <1>3, <1>3a, <1>3b, <1>4, <1>6, <1>7, <1>9, <1>10, <1>11, <1>12, <1>13, <1>14, <1>15
     DEF Next, ThreadStep, MainStep

-----------------------------------------------------------------------------
(* What the invariant says of a state *)

\* WakeInv of one fiber.
WakeOf(f) ==
  LET T == TimerWakes(f)
      L == ListWakes(f)
      Q == QueueWakes(f)
      E == EventWakes(f)
      R == RunWakes(f)
  IN
  /\ Lone(T) /\ Lone(L) /\ Lone(Q) /\ Lone(E) /\ Lone(R)
  /\ T # {} => L = {} /\ Q = {} /\ E = {} /\ R = {}
  /\ L # {} => Q = {} /\ E = {} /\ R = {}
  /\ Q # {} => E = {} /\ R = {}
  /\ E # {} => R = {}
  /\ Waiting(f) <=> T # {} \/ L # {} \/ Q # {} \/ E # {} \/ R # {}

LEMMA WakeUnfold == WakeInv => \A f \in Fiber : WakeOf(f)
<1> SUFFICES ASSUME WakeInv, NEW f \in Fiber PROVE WakeOf(f)
  OBVIOUS
<1> DEFINE kinds == <<TimerWakes(f), ListWakes(f), QueueWakes(f), EventWakes(f), RunWakes(f)>>
<1>1. /\ \A k \in 1 .. 5 : Lone(kinds[k])
      /\ \A k, l \in 1 .. 5 : kinds[k] # {} /\ kinds[l] # {} => k = l
      /\ Waiting(f) <=> \E k \in 1 .. 5 : kinds[k] # {}
  BY DEF WakeInv
<1>2. /\ kinds[1] = TimerWakes(f) /\ kinds[2] = ListWakes(f) /\ kinds[3] = QueueWakes(f)
      /\ kinds[4] = EventWakes(f) /\ kinds[5] = RunWakes(f)
  OBVIOUS
<1> HIDE DEF kinds
<1>3. Lone(kinds[1]) /\ Lone(kinds[2]) /\ Lone(kinds[3]) /\ Lone(kinds[4]) /\ Lone(kinds[5])
  BY <1>1
<1>4. /\ kinds[1] # {} => kinds[2] = {} /\ kinds[3] = {} /\ kinds[4] = {} /\ kinds[5] = {}
      /\ kinds[2] # {} => kinds[3] = {} /\ kinds[4] = {} /\ kinds[5] = {}
      /\ kinds[3] # {} => kinds[4] = {} /\ kinds[5] = {}
      /\ kinds[4] # {} => kinds[5] = {}
  BY <1>1
<1>5. Waiting(f) <=> kinds[1] # {} \/ kinds[2] # {} \/ kinds[3] # {} \/ kinds[4] # {} \/ kinds[5] # {}
  <2>1. \A k \in 1 .. 5 : k = 1 \/ k = 2 \/ k = 3 \/ k = 4 \/ k = 5
    OBVIOUS
  <2>q. QED
    BY <1>1, <2>1
<1>q. QED
  BY <1>2, <1>3, <1>4, <1>5 DEF WakeOf

LEMMA WakeFold == (\A f \in Fiber : WakeOf(f)') => WakeInv'
<1> SUFFICES ASSUME \A f \in Fiber : WakeOf(f)' PROVE WakeInv'
  OBVIOUS
<1> SUFFICES ASSUME NEW f \in Fiber
             PROVE  LET kinds == <<TimerWakes(f)', ListWakes(f)', QueueWakes(f)', EventWakes(f)', RunWakes(f)'>> IN
                    /\ \A k \in 1 .. 5 : Lone(kinds[k])
                    /\ \A k, l \in 1 .. 5 : kinds[k] # {} /\ kinds[l] # {} => k = l
                    /\ Waiting(f)' <=> \E k \in 1 .. 5 : kinds[k] # {}
  BY DEF WakeInv, Lone
<1> DEFINE kinds == <<TimerWakes(f)', ListWakes(f)', QueueWakes(f)', EventWakes(f)', RunWakes(f)'>>
<1>1. /\ kinds[1] = TimerWakes(f)' /\ kinds[2] = ListWakes(f)' /\ kinds[3] = QueueWakes(f)'
      /\ kinds[4] = EventWakes(f)' /\ kinds[5] = RunWakes(f)'
  OBVIOUS
<1> HIDE DEF kinds
<1>2. /\ Lone(kinds[1]) /\ Lone(kinds[2]) /\ Lone(kinds[3]) /\ Lone(kinds[4]) /\ Lone(kinds[5])
      /\ kinds[1] # {} => kinds[2] = {} /\ kinds[3] = {} /\ kinds[4] = {} /\ kinds[5] = {}
      /\ kinds[2] # {} => kinds[3] = {} /\ kinds[4] = {} /\ kinds[5] = {}
      /\ kinds[3] # {} => kinds[4] = {} /\ kinds[5] = {}
      /\ kinds[4] # {} => kinds[5] = {}
      /\ Waiting(f)' <=> kinds[1] # {} \/ kinds[2] # {} \/ kinds[3] # {} \/ kinds[4] # {} \/ kinds[5] # {}
  BY <1>1 DEF WakeOf, Lone
<1>3. \A k \in 1 .. 5 : k = 1 \/ k = 2 \/ k = 3 \/ k = 4 \/ k = 5
  OBVIOUS
<1>4. \A k \in 1 .. 5 : Lone(kinds[k])
  BY <1>2, <1>3
<1>5. \A k, l \in 1 .. 5 : kinds[k] # {} /\ kinds[l] # {} => k = l
  BY <1>2, <1>3
<1>6. Waiting(f)' <=> \E k \in 1 .. 5 : kinds[k] # {}
  BY <1>2, <1>3
<1>q. QED
  BY <1>4, <1>5, <1>6 DEF kinds

\* A fiber that does not wait is woken by nothing.
LEMMA NothingWakes ==
  ASSUME TypeInv, WakeInv, NEW f \in Fiber, ~Waiting(f)
  PROVE  /\ TimerWakes(f) = {} /\ ListWakes(f) = {} /\ QueueWakes(f) = {} /\ EventWakes(f) = {} /\ RunWakes(f) = {}
         /\ \A x \in timers : x.fiber = f => x.op = "timeout"
         /\ \A t \in Thread : \A c \in cbs[t] : c.fiber = f => c.op = "timeout"
         /\ \A i \in DOMAIN tasks : tasks[i].fiber = f => tasks[i].op = "timeout"
         /\ \A d \in Fd, e \in Event : waiter[d][e] # f
         /\ \A t \in Thread : task[t].fiber = f => task[t].op # "wake"
<1>1. WakeOf(f)
  BY WakeUnfold
<1>2. TimerWakes(f) = {} /\ ListWakes(f) = {} /\ QueueWakes(f) = {} /\ EventWakes(f) = {} /\ RunWakes(f) = {}
  BY <1>1 DEF WakeOf
<1>3. \A x \in timers : x.fiber = f => x.op = "timeout"
  BY <1>2 DEF TimerWakes, Wakeful
<1>4. \A t \in Thread : \A c \in cbs[t] : c.fiber = f => c.op = "timeout"
  <2>1. ASSUME NEW t \in Thread, NEW c \in cbs[t], c.fiber = f, c.op # "timeout"
        PROVE  <<t, c>> \in ListWakes(f)
    BY <2>1 DEF ListWakes, Wakeful
  <2>q. QED
    BY <1>2, <2>1
<1>5. \A i \in DOMAIN tasks : tasks[i].fiber = f => tasks[i].op = "timeout"
  BY <1>2 DEF QueueWakes, Wakeful
<1>6. \A d \in Fd, e \in Event : waiter[d][e] # f
  <2>1. ASSUME NEW d \in Fd, NEW e \in Event, waiter[d][e] = f
        PROVE  <<d, e>> \in EventWakes(f)
    BY <2>1 DEF EventWakes
  <2>q. QED
    BY <1>2, <2>1
<1>7. \A t \in Thread : task[t].fiber = f => task[t].op # "wake"
  BY <1>2 DEF RunWakes
<1>q. QED
  BY <1>2, <1>3, <1>4, <1>5, <1>6, <1>7

\* A fiber that a thread runs does not wait.
LEMMA RunningFacts ==
  ASSUME TypeInv, NEW t \in Thread, pc[t] = "run", task[t].op \in {"start", "resume"}, NEW f, task[t].fiber = f
  PROVE  On(t, f) /\ ~Waiting(f)
BY DEF On, Resumed, Waiting

LEMMA OnFacts ==
  ASSUME ThreadInv, NEW t \in Thread, NEW f \in Fiber, On(t, f)
  PROVE  pc[t] \in {"run", "yield"}
<1>1. task[t] # NoTask
  BY IOAssumption DEF On, NoTask
<1>q. QED
  BY <1>1 DEF ThreadInv

\* A fiber that is taken is READY and run by nobody.
LEMMA TakenFacts ==
  ASSUME TypeInv, ThreadInv, OneThreadInv, WakeInv, StateInv, NEW t \in Thread, Free(t, "scan"),
         NEW i \in DOMAIN tasks, NEW f \in Fiber, tasks[i].fiber = f, tasks[i].op \in {"start", "resume"}
  PROVE  /\ Waiting(f) /\ state[f] = "READY" /\ \A u \in Thread : ~On(u, f)
         /\ QueueWakes(f) = {i}
         /\ TimerWakes(f) = {} /\ ListWakes(f) = {} /\ EventWakes(f) = {} /\ RunWakes(f) = {}
<1>1. i \in QueueWakes(f)
  BY DEF QueueWakes, Wakeful
<1>2. WakeOf(f)
  BY WakeUnfold
<1>3. /\ Waiting(f) /\ QueueWakes(f) = {i}
      /\ TimerWakes(f) = {} /\ ListWakes(f) = {} /\ EventWakes(f) = {} /\ RunWakes(f) = {}
  <2>1. QueueWakes(f) = {i}
    BY <1>1, <1>2 DEF WakeOf, Lone
  <2>q. QED
    BY <1>2, <2>1 DEF WakeOf
<1>4. ASSUME NEW u \in Thread, On(u, f)
      PROVE  FALSE
  <2>2. pc[u] \in {"run", "yield"}
    BY <1>4, OnFacts
  <2>3. CASE pc[u] = "run"
    BY <1>3, <1>4, <2>3 DEF Waiting, Resumed
  <2>4. CASE pc[u] = "yield"
    <3>1. OneThread /\ t \in pool /\ pc[t] = "scan"
      BY <2>4, FreeFacts DEF OneThreadInv
    <3>2. u = t
      BY <2>4, <3>1, Alone
    <3>q. QED
      BY <2>4, <3>1, <3>2
  <2>q. QED
    BY <2>2, <2>3, <2>4
<1>5. at[f] # "done"
  BY <1>3 DEF Waiting
<1>6. state[f] = "READY"
  BY <1>4, <1>5 DEF StateInv, TypeInv
<1>q. QED
  BY <1>3, <1>4, <1>6

\* A timer of the main thread is of a fiber that has not started.
LEMMA OwnTimerFacts ==
  ASSUME TypeInv, ThreadInv, WakeInv, FitInv, StateInv, NEW f \in Fiber, OwnTimer(f) # {}
  PROVE  /\ at[f] \in {"queued", "timer"} /\ \A t \in Thread : ~On(t, f)
         /\ OwnTimer(f) = TimerWakes(f) /\ Lone(TimerWakes(f))
         /\ ListWakes(f) = {} /\ QueueWakes(f) = {} /\ EventWakes(f) = {} /\ RunWakes(f) = {}
<1>1. PICK x \in timers : x.op = "start" /\ x.fiber = f
  BY DEF OwnTimer
<1>2. at[f] \in {"queued", "timer"}
  BY <1>1 DEF FitInv, Fits
<1>3. WakeOf(f) /\ x \in TimerWakes(f) /\ OwnTimer(f) \subseteq TimerWakes(f)
  BY <1>1, WakeUnfold DEF TimerWakes, Wakeful, OwnTimer
<1>4. /\ Lone(TimerWakes(f))
      /\ ListWakes(f) = {} /\ QueueWakes(f) = {} /\ EventWakes(f) = {} /\ RunWakes(f) = {}
  BY <1>3 DEF WakeOf
<1>5. OwnTimer(f) = TimerWakes(f)
  BY <1>1, <1>3, <1>4 DEF Lone, OwnTimer
<1>6. ASSUME NEW t \in Thread, On(t, f)
      PROVE  FALSE
  BY <1>2, <1>6, OnFacts DEF StateInv
<1>q. QED
  BY <1>2, <1>4, <1>5, <1>6

-----------------------------------------------------------------------------
(* What a fiber is at, its call, its state and what epoll reported *)

LEMMA FitKept ==
  ASSUME TypeInv, ThreadInv, OneThreadInv, CallInv, WakeInv, FitInv, StateInv, Next
  PROVE  FitInv'
<1> USE DEF threadVars, schedVars, timerVars, fdVars, fiberVars
<1> DEFINE OkAt(x) == /\ x.op = "start" => at'[x.fiber] \in {"queued", "timer"}
                      /\ x.op = "wake" => at'[x.fiber] = "sleep"
                      /\ x.op = "resume" => at'[x.fiber] \in {"sleep", "io"}
<1>0. /\ \A x \in timers : Fits(x) /\ x.fiber \in Fiber
      /\ \A t \in Thread : \A c \in cbs[t] : Fits(c) /\ c.fiber \in Fiber
      /\ \A i \in DOMAIN tasks : Fits(tasks[i]) /\ tasks[i].fiber \in Fiber
      /\ \A t \in Thread : task[t].op = "wake" => Fits(task[t]) /\ task[t].fiber \in Fiber
      /\ at \in [Fiber -> {"new", "queued", "timer", "sleep", "io", "user", "done"}]
      /\ cbs \in [Thread -> SUBSET Item] /\ task \in [Thread -> Item \cup {NoTask}]
  <2>1. /\ \A x \in Timer : x.fiber \in Fiber
        /\ \A x \in Item : x.fiber \in Fiber
        /\ \A t \in Thread : task[t].op = "wake" => task[t] \in Item
        /\ \A i \in DOMAIN tasks : tasks[i] \in Item
        /\ timers \subseteq Timer /\ \A t \in Thread : cbs[t] \subseteq Item
    <3>1. (\A x \in Timer : x.fiber \in Fiber) /\ \A x \in Item : x.fiber \in Fiber
      BY DEF Item, Timer
    <3>2. \A t \in Thread : task[t].op = "wake" => task[t] \in Item
      BY DEF TypeInv, NoTask
    <3>3. \A i \in DOMAIN tasks : tasks[i] \in Item
      BY DEF TypeInv
    <3>4. timers \subseteq Timer /\ \A t \in Thread : cbs[t] \subseteq Item
      BY DEF TypeInv
    <3>q. QED
      BY <3>1, <3>2, <3>3, <3>4
  <2>2. /\ at \in [Fiber -> {"new", "queued", "timer", "sleep", "io", "user", "done"}]
        /\ cbs \in [Thread -> SUBSET Item] /\ task \in [Thread -> Item \cup {NoTask}]
    BY DEF TypeInv
  <2>q. QED
    BY <2>1, <2>2 DEF FitInv
<1>a. SUFFICES /\ \A x \in timers' : OkAt(x)
               /\ \A t \in Thread : \A c \in cbs'[t] : OkAt(c)
               /\ \A i \in DOMAIN tasks' : OkAt(tasks'[i])
               /\ \A t \in Thread : task'[t].op = "wake" => OkAt(task'[t])
  BY DEF FitInv, Fits
<1> DEFINE Goal == /\ \A x \in timers' : OkAt(x)
                   /\ \A t \in Thread : \A c \in cbs'[t] : OkAt(c)
                   /\ \A i \in DOMAIN tasks' : OkAt(tasks'[i])
                   /\ \A t \in Thread : task'[t].op = "wake" => OkAt(task'[t])
\* What was fitting stays so, if only a fiber that nothing wakes is moved.
<1>b. ASSUME NEW f \in Fiber, NEW w, at' = [at EXCEPT ![f] = w] \/ at' = at, ~Waiting(f)
      PROVE  /\ \A x \in timers : OkAt(x)
             /\ \A t \in Thread : \A c \in cbs[t] : OkAt(c)
             /\ \A i \in DOMAIN tasks : OkAt(tasks[i])
             /\ \A t \in Thread : task[t].op = "wake" => OkAt(task[t])
  <2>1. \A g \in Fiber : g # f => at'[g] = at[g]
    BY <1>0, <1>b
  <2>2. /\ \A x \in timers : x.fiber = f => x.op = "timeout"
        /\ \A t \in Thread : \A c \in cbs[t] : c.fiber = f => c.op = "timeout"
        /\ \A i \in DOMAIN tasks : tasks[i].fiber = f => tasks[i].op = "timeout"
        /\ \A t \in Thread : task[t].fiber = f => task[t].op # "wake"
    BY <1>b, NothingWakes
  <2>q. QED
    BY <1>0, <2>1, <2>2 DEF Fits
<1>c. ASSUME at' = at
      PROVE  /\ \A x \in timers : OkAt(x)
             /\ \A t \in Thread : \A c \in cbs[t] : OkAt(c)
             /\ \A i \in DOMAIN tasks : OkAt(tasks[i])
             /\ \A t \in Thread : task[t].op = "wake" => OkAt(task[t])
  BY <1>0, <1>c DEF Fits
\* The waiters of events are in a call.
<1>d. ASSUME NEW fd \in Fd, NEW E \in SUBSET Event, Triggers(fd, E), at' = at
      PROVE  \A i \in DOMAIN tasks' : OkAt(tasks'[i])
  <2> DEFINE q == Triggered(fd, E)
  <2>1. /\ q \in Seq(Item)
        /\ \A i \in DOMAIN q : q[i].op = "resume" /\ q[i].fiber \in Fiber /\ \E e \in E : waiter[fd][e] = q[i].fiber
    BY TriggeredFacts
  <2>2. \A i \in DOMAIN q : OkAt(q[i])
    BY <1>d, <2>1, IOAssumption DEF CallInv
  <2>3. tasks' = tasks \o q
    BY <1>d DEF Triggers
  <2> HIDE DEF q, OkAt
  <2>q. QED
    BY <1>c, <1>d, <2>1, <2>2, <2>3, QueueGrows
<1>1. ASSUME NEW t \in Thread, Take(t)
      PROVE  Goal
  <2>1. PICK i \in DOMAIN tasks :
          /\ tasks[i] \in Item /\ tasks' = Cut(tasks, i) /\ task' = [task EXCEPT ![t] = tasks[i]]
          /\ at' = IF tasks[i].op \in {"start", "resume"} /\ at[tasks[i].fiber] # "io"
                     THEN [at EXCEPT ![tasks[i].fiber] = "user"] ELSE at
    BY <1>1, TakeFacts
  <2>2. Free(t, "scan") /\ UNCHANGED <<cbs, timers>>
    BY <1>1 DEF Take
  <2>3. CASE at' = at
    BY <1>c, <2>1, <2>2, <2>3, <1>0, QueueShrinks
  <2>4. CASE tasks[i].op \in {"start", "resume"} /\ at' = [at EXCEPT ![tasks[i].fiber] = "user"]
    <3> DEFINE f == tasks[i].fiber
    <3>1. /\ QueueWakes(f) = {i} /\ TimerWakes(f) = {} /\ ListWakes(f) = {} /\ RunWakes(f) = {} /\ f \in Fiber
      BY <1>0, <2>2, <2>4, TakenFacts
    <3>2. \A g \in Fiber : g # f => at'[g] = at[g]
      BY <1>0, <2>4
    <3>3. \A x \in timers : x.fiber = f => x.op = "timeout"
      BY <3>1 DEF TimerWakes, Wakeful
    <3>4. \A j \in DOMAIN tasks \ {i} : tasks[j].fiber = f => tasks[j].op = "timeout"
      BY <3>1 DEF QueueWakes, Wakeful
    <3>5. ASSUME NEW u \in Thread, NEW c \in cbs[u], c.fiber = f, c.op # "timeout"
          PROVE  FALSE
      <4>1. <<u, c>> \in ListWakes(f)
        BY <3>5 DEF ListWakes, Wakeful
      <4>q. QED
        BY <3>1, <4>1
    <3>6. \A u \in Thread : task[u].fiber = f => task[u].op # "wake"
      BY <3>1 DEF RunWakes
    <3> HIDE DEF f
    <3>7. \A x \in timers' : OkAt(x)
      BY <1>0, <2>2, <3>2, <3>3 DEF Fits
    <3>8. \A u \in Thread : \A c \in cbs'[u] : OkAt(c)
      BY <1>0, <2>2, <3>2, <3>5 DEF Fits
    <3>9. \A j \in DOMAIN tasks \ {i} : OkAt(tasks[j])
      BY <1>0, <3>2, <3>4 DEF Fits
    <3>10. \A k \in DOMAIN tasks' : OkAt(tasks'[k])
      <4> HIDE DEF OkAt
      <4>q. QED
        BY <2>1, <3>9, QueueShrinks
    <3>11. \A u \in Thread : task'[u].op = "wake" => OkAt(task'[u])
      BY <1>0, <2>1, <2>4, <3>2, <3>6 DEF Fits
    <3>q. QED
      BY <3>7, <3>8, <3>10, <3>11
  <2>q. QED
    BY <2>1, <2>3, <2>4
<1>2. ASSUME NEW t \in Thread, EpollWait(t)
      PROVE  Goal
  <2> DEFINE C == {[op |-> x.op, fiber |-> x.fiber, n |-> x.n, thread |-> Any] : x \in Expired}
  <2>1. cbs' = [cbs EXCEPT ![t] = C] /\ timers' \subseteq timers /\ UNCHANGED <<task, tasks, at>>
    BY <1>2 DEF EpollWait
  <2>2. \A c \in C : OkAt(c)
    <3>1. \A x \in Expired : OkAt(x)
      BY <1>c, <2>1 DEF Expired
    <3>q. QED
      BY <3>1
  <2> HIDE DEF C, OkAt
  <2>q. QED
    BY <1>0, <1>c, <2>1, <2>2
<1>3. ASSUME NEW t \in Thread, ScheduleExpired(t)
      PROVE  Goal
  <2>1. PICK c \in cbs[t] :
          /\ c \in Item /\ <<c>> \in Seq(Item) /\ tasks' = tasks \o <<c>> /\ Len(<<c>>) = 1 /\ <<c>>[1] = c
          /\ cbs' = [cbs EXCEPT ![t] = @ \ {c}]
    BY <1>3, ScheduleExpiredFacts
  <2>2. UNCHANGED <<task, timers, at>>
    BY <1>3 DEF ScheduleExpired
  <2> HIDE DEF OkAt
  <2>3. \A k \in DOMAIN tasks' : OkAt(tasks'[k])
    BY <1>c, <2>1, <2>2, QueueGrows
  <2>q. QED
    BY <1>0, <1>c, <2>1, <2>2, <2>3
<1>4. ASSUME NEW t \in Thread, HandleEvent(t)
      PROVE  Goal
  <2>1. PICK r \in report[t] :
          /\ r.fd \in Fd /\ r.events \in SUBSET Event
          /\ Triggers(r.fd, r.events) \/ (tasks' = tasks /\ waiter' = waiter)
    BY <1>4, HandleEventFacts
  <2>2. UNCHANGED <<task, cbs, timers, at>>
    BY <1>4 DEF HandleEvent
  <2> HIDE DEF OkAt
  <2>q. QED
    BY <1>c, <1>d, <2>1, <2>2
<1>5. ASSUME NEW t \in Thread, WakeSleeper(t)
      PROVE  Goal
  <2> DEFINE x == Task("resume", task[t].fiber, Any)
  <2>1. /\ x \in Item /\ x.op = "resume" /\ x.fiber = task[t].fiber
        /\ <<x>> \in Seq(Item) /\ tasks' = tasks \o <<x>> /\ Len(<<x>>) = 1 /\ <<x>>[1] = x
        /\ task[t].op = "wake"
    BY <1>5, WakeSleeperFacts
  <2>2. task' = [task EXCEPT ![t] = NoTask] /\ UNCHANGED <<cbs, timers, at>>
    BY <1>5 DEF WakeSleeper, EndTask
  <2> HIDE DEF x
  <2>3. OkAt(x)
    BY <1>c, <2>1, <2>2
  <2> HIDE DEF OkAt
  <2>4. \A k \in DOMAIN tasks' : OkAt(tasks'[k])
    BY <1>c, <2>1, <2>2, <2>3, QueueGrows
  <2>q. QED
    BY <1>0, <1>c, <2>2, <2>4 DEF NoTask
<1>6. ASSUME NEW t \in Thread, TimeOutCall(t)
      PROVE  Goal
  <2> DEFINE c == call[task[t].fiber]
  <2>1. \/ tasks' = tasks /\ waiter' = waiter
        \/ c.fd \in Fd /\ Triggers(c.fd, {c.event}) /\ {c.event} \in SUBSET Event
    BY <1>6, TimeOutCallFacts
  <2>2. task' = [task EXCEPT ![t] = NoTask] /\ UNCHANGED <<cbs, timers, at>>
    BY <1>6 DEF TimeOutCall, EndTask
  <2> HIDE DEF OkAt, c
  <2>3. \A k \in DOMAIN tasks' : OkAt(tasks'[k])
    BY <1>c, <1>d, <2>1, <2>2
  <2>q. QED
    BY <1>0, <1>c, <2>2, <2>3 DEF NoTask
<1>7. ASSUME NEW t \in Thread, Finish(t)
      PROVE  Goal
  <2> DEFINE f == task[t].fiber
  <2>1. f \in Fiber /\ ~Waiting(f)
    BY <1>7, RunsFacts, RunningFacts DEF Finish, InUser
  <2>2. /\ task' = [task EXCEPT ![t] = NoTask] /\ UNCHANGED <<cbs, timers, tasks>>
        /\ at' = [at EXCEPT ![f] = "done"]
    BY <1>7 DEF Finish, EndTask
  <2> HIDE DEF OkAt, f
  <2>q. QED
    BY <1>0, <1>b, <2>1, <2>2 DEF NoTask
<1>8. ASSUME NEW t \in Thread, NEW d \in Delay, Sleep(t, d)
      PROVE  Goal
  <2> DEFINE f == task[t].fiber
             tm == [op |-> "wake", fiber |-> f, n |-> calls[f] + 1, left |-> d, ms |-> d]
  <2>1. f \in Fiber /\ ~Waiting(f)
    BY <1>8, MayWaitFacts, RunningFacts DEF Sleep
  <2>2. timers' = timers \cup {tm} /\ UNCHANGED <<task, cbs, tasks>> /\ at' = [at EXCEPT ![f] = "sleep"]
    BY <1>8, SleepFacts
  <2>3. OkAt(tm)
    BY <1>0, <2>1, <2>2
  <2> HIDE DEF OkAt, f, tm
  <2>q. QED
    BY <1>b, <2>1, <2>2, <2>3
<1>9. ASSUME NEW t \in Thread, NEW f \in Fiber, NEW c, NEW n, NEW others \in SUBSET timers, NEW w,
             ~Waiting(f), Blocked(t, f, c, n, others), at' = [at EXCEPT ![f] = w] \/ at' = at,
             UNCHANGED <<task, cbs, tasks>>
      PROVE  Goal
  <2> DEFINE tm == [op |-> "timeout", fiber |-> f, n |-> n, left |-> c.timeout, ms |-> c.timeout]
  <2>1. timers' \subseteq others \cup {tm} /\ OkAt(tm)
    BY <1>9 DEF Blocked
  <2> HIDE DEF OkAt, tm
  <2>q. QED
    BY <1>b, <1>9, <2>1
<1>10. ASSUME NEW t \in Thread, NEW c \in Call, DoIo(t, c)
       PROVE  Goal
  <2> DEFINE f == task[t].fiber
  <2>1. f \in Fiber /\ ~Waiting(f)
    BY <1>10, MayWaitFacts, RunningFacts DEF DoIo
  <2>2. /\ \/ at' = [at EXCEPT ![f] = "io"] /\ Blocked(t, f, c, calls[f] + 1, timers)
           \/ at' = at /\ timers' = timers
        /\ UNCHANGED <<task, cbs, tasks>>
    BY <1>10, DoIoFacts
  <2> HIDE DEF OkAt, f
  <2>q. QED
    BY <1>9, <1>c, <2>1, <2>2
<1>11. ASSUME NEW t \in Thread, ResumeIo(t)
       PROVE  Goal
  <2> DEFINE f == task[t].fiber
             others == {x \in timers : ~(x.op = "timeout" /\ x.fiber = f)}
  <2>1. f \in Fiber /\ ~Waiting(f)
    BY <1>11, ResumeIoFacts, RunningFacts
  <2>2. /\ \/ at' = at /\ Blocked(t, f, call[f], calls[f], others)
           \/ at' = [at EXCEPT ![f] = "user"] /\ timers' = others
        /\ UNCHANGED <<task, cbs, tasks>>
    BY <1>11, ResumeIoFacts
  <2>3. others \in SUBSET timers
    OBVIOUS
  <2> HIDE DEF OkAt, f, others
  <2>q. QED
    BY <1>9, <1>b, <2>1, <2>2, <2>3
<1>12. ASSUME NEW t \in Thread, NEW fd \in Fd, Close(t, fd)
       PROVE  Goal
  <2>1. Triggers(fd, Registered(fd)) /\ Registered(fd) \in SUBSET Event /\ UNCHANGED <<task, cbs, timers, at>>
    BY <1>12, CloseFacts
  <2> HIDE DEF OkAt
  <2>q. QED
    BY <1>c, <1>d, <2>1
<1>13. ASSUME NEW f \in Fiber, NEW th \in Thread \cup {Any}, MainSchedule(f, th)
       PROVE  Goal
  <2> DEFINE x == Task("start", f, th)
  <2>1. /\ at[f] = "new" /\ x \in Item /\ x.op = "start" /\ x.fiber = f
        /\ <<x>> \in Seq(Item) /\ tasks' = tasks \o <<x>> /\ Len(<<x>>) = 1 /\ <<x>>[1] = x
        /\ at' = [at EXCEPT ![f] = "queued"] /\ UNCHANGED <<task, cbs, timers>>
    BY <1>13, MainScheduleFacts
  <2>2. ~Waiting(f)
    BY <2>1 DEF Waiting
  <2> HIDE DEF x
  <2>3. OkAt(x)
    BY <1>0, <2>1
  <2> HIDE DEF OkAt
  <2>5. \A i \in DOMAIN tasks : OkAt(tasks[i])
    BY <1>b, <2>1, <2>2
  <2>4. \A i \in DOMAIN tasks' : OkAt(tasks'[i])
    BY <2>1, <2>3, <2>5, QueueGrows
  <2>q. QED
    BY <1>b, <2>1, <2>2, <2>4
<1>14. ASSUME NEW f \in Fiber, NEW d \in Delay, MainAddTimer(f, d)
       PROVE  Goal
  <2> DEFINE tm == [op |-> "start", fiber |-> f, n |-> 0, left |-> d, ms |-> d]
  <2>1. timers' = timers \cup {tm} /\ at[f] = "new" /\ at' = [at EXCEPT ![f] = "timer"]
        /\ UNCHANGED <<task, cbs, tasks>>
    BY <1>14 DEF MainAddTimer, AddTimer
  <2>2. ~Waiting(f)
    BY <2>1 DEF Waiting
  <2>3. OkAt(tm)
    BY <1>0, <2>1
  <2> HIDE DEF OkAt, tm
  <2>q. QED
    BY <1>b, <2>1, <2>2, <2>3
<1>15. ASSUME NEW f \in Fiber, CancelTimer(f)
       PROVE  Goal
  <2>1. timers' = timers \ OwnTimer(f) /\ OwnTimer(f) # {} /\ at' = [at EXCEPT ![f] = "done"]
        /\ UNCHANGED <<task, cbs, tasks>>
    BY <1>15 DEF CancelTimer
  <2>2. OwnTimer(f) = TimerWakes(f) /\ ListWakes(f) = {} /\ QueueWakes(f) = {} /\ RunWakes(f) = {}
    BY <2>1, OwnTimerFacts
  <2>3. \A g \in Fiber : g # f => at'[g] = at[g]
    BY <1>0, <2>1
  <2>4. \A x \in timers' : x.fiber = f => x.op = "timeout"
    BY <2>1, <2>2 DEF TimerWakes, Wakeful
  <2>5. \A i \in DOMAIN tasks : tasks[i].fiber = f => tasks[i].op = "timeout"
    BY <2>2 DEF QueueWakes, Wakeful
  <2>6. ASSUME NEW t \in Thread, NEW c \in cbs[t], c.fiber = f, c.op # "timeout"
        PROVE  FALSE
    <3>1. <<t, c>> \in ListWakes(f)
      BY <2>6 DEF ListWakes, Wakeful
    <3>q. QED
      BY <2>2, <3>1
  <2>7. \A t \in Thread : task[t].fiber = f => task[t].op # "wake"
    BY <2>2 DEF RunWakes
  <2>q. QED
    BY <1>0, <2>1, <2>3, <2>4, <2>5, <2>6, <2>7 DEF Fits
<1>16. ASSUME \A y \in timers' : \E x \in timers : y.op = x.op /\ y.fiber = x.fiber, UNCHANGED <<task, cbs, tasks, at>>
       PROVE  Goal
  BY <1>c, <1>16
<1>17. ASSUME NEW f \in Fiber, NEW d \in Delay, ResetTimer(f, d)
       PROVE  Goal
  <2>1. \E x \in timers : \E y : y.op = x.op /\ y.fiber = x.fiber /\ timers' = (timers \ {x}) \cup {y}
    <3>1. PICK x \in timers, y \in Timer :
            x.op = "start" /\ x.fiber = f /\ y.op = "start" /\ y.fiber = f /\ timers' = (timers \ {x}) \cup {y}
      BY <1>17, ResetTimerFacts
    <3>q. QED
      BY <3>1
  <2>2. UNCHANGED <<task, cbs, tasks, at>>
    BY <1>17 DEF ResetTimer
  <2>q. QED
    BY <1>16, <2>1, <2>2
<1>18. ASSUME NEW f \in Fiber, RefreshTimer(f)
       PROVE  Goal
  <2>1. \E x \in timers : \E y : y.op = x.op /\ y.fiber = x.fiber /\ timers' = (timers \ {x}) \cup {y}
    BY <1>18, RefreshTimerFacts
  <2>2. UNCHANGED <<task, cbs, tasks, at>>
    BY <1>18 DEF RefreshTimer
  <2>q. QED
    BY <1>16, <2>1, <2>2
<1>19. ASSUME Tick
       PROVE  Goal
  <2>1. \A y \in timers' : \E x \in timers : y.op = x.op /\ y.fiber = x.fiber
    BY <1>19, TickFacts
  <2>2. UNCHANGED <<task, cbs, tasks, at>>
    BY <1>19 DEF Tick
  <2>q. QED
    BY <1>16, <2>1, <2>2
<1>20. ASSUME NEW t \in Thread, Yield(t)
       PROVE  Goal
  <2>1. task' = [task EXCEPT ![t] = NoTask] /\ UNCHANGED <<cbs, timers, tasks, at>>
    BY <1>20 DEF Yield, EndTask
  <2> HIDE DEF OkAt
  <2>q. QED
    BY <1>0, <1>c, <2>1 DEF NoTask
<1>21. ASSUME \/ \E t \in Thread \cup {Main} : Tickle(t)
              \/ \E t \in Thread : DrainPipe(t) \/ FindNothing(t) \/ EnterIdle(t) \/ Ask(t) \/ LeaveIdle(t)
              \/ Stop
              \/ \E fd \in Fd, e \in Event : Arrive(fd, e)
       PROVE  UNCHANGED <<task, cbs, tasks, at, timers>>
  BY <1>21, AskFacts DEF Tickle, DrainPipe, FindNothing, EnterIdle, LeaveIdle, Stop, Arrive
<1>22. pool \subseteq Thread /\ Timed \subseteq Fiber
  BY PoolFacts, IOAssumption DEF TypeInv
<1> HIDE DEF Goal, threadVars, schedVars, timerVars, fdVars, fiberVars
<1>23. ASSUME UNCHANGED <<task, cbs, tasks, at, timers>>
       PROVE  Goal
  BY <1>16, <1>23
<1>24. Goal
  BY <1>1, <1>2, <1>3, <1>4, <1>5, <1>6, <1>7, <1>8, <1>10, <1>11, <1>12, <1>13, <1>14, <1>15, <1>17, <1>18, <1>19,
     <1>20, <1>21, <1>22, <1>23 DEF Next, ThreadStep, MainStep, Ask
<1>q. QED
  BY <1>24 DEF Goal

LEMMA CallKept ==
  ASSUME TypeInv, ThreadInv, OneThreadInv, CallInv, WakeInv, FitInv, StateInv, Next
  PROVE  CallInv'
<1> USE DEF threadVars, schedVars, timerVars, fdVars, fiberVars
<1>0. /\ \A f \in Fiber : at[f] = "io" => call[f] \in Call
      /\ \A f, g \in Fiber :
           at[f] = "io" /\ at[g] = "io" /\ call[f].fd = call[g].fd /\ call[f].event = call[g].event => f = g
      /\ \A d \in Fd, e \in Event : waiter[d][e] # None =>
           /\ waiter[d][e] \in Fiber /\ at[waiter[d][e]] = "io"
           /\ call[waiter[d][e]].fd = d /\ call[waiter[d][e]].event = e
      /\ at \in [Fiber -> {"new", "queued", "timer", "sleep", "io", "user", "done"}]
      /\ waiter \in [Fd -> [Event -> Fiber \cup {None}]] /\ None \notin Fiber
      /\ call \in [Fiber -> Call \cup {NoCall}]
  BY IOAssumption DEF CallInv, TypeInv
\* No new call, and no new waiter.
<1>a. ASSUME call' = call, \A f \in Fiber : at'[f] # at[f] => at[f] # "io" /\ at'[f] # "io",
             \A d \in Fd, e \in Event : waiter'[d][e] = waiter[d][e] \/ waiter'[d][e] = None
      PROVE  CallInv'
  BY <1>0, <1>a DEF CallInv
<1>b. ASSUME NEW fd \in Fd, NEW E, Triggers(fd, E)
      PROVE  \A d \in Fd, e \in Event : waiter'[d][e] = waiter[d][e] \/ waiter'[d][e] = None
  BY <1>0, <1>b DEF Triggers
<1>1. ASSUME NEW t \in Thread, Take(t)
      PROVE  CallInv'
  <2>1. PICK i \in DOMAIN tasks :
          at' = IF tasks[i].op \in {"start", "resume"} /\ at[tasks[i].fiber] # "io"
                  THEN [at EXCEPT ![tasks[i].fiber] = "user"] ELSE at
    BY <1>1, TakeFacts
  <2>2. UNCHANGED <<call, waiter>>
    BY <1>1 DEF Take
  <2>q. QED
    BY <1>0, <1>a, <2>1, <2>2
<1>2. ASSUME NEW t \in Thread, HandleEvent(t)
      PROVE  CallInv'
  <2>1. PICK r \in report[t] : r.fd \in Fd /\ (Triggers(r.fd, r.events) \/ waiter' = waiter)
    BY <1>2, HandleEventFacts
  <2>2. UNCHANGED <<call, at>>
    BY <1>2 DEF HandleEvent
  <2>q. QED
    BY <1>a, <1>b, <2>1, <2>2
<1>3. ASSUME NEW t \in Thread, TimeOutCall(t)
      PROVE  CallInv'
  <2> DEFINE c == call[task[t].fiber]
  <2>1. waiter' = waiter \/ (c.fd \in Fd /\ Triggers(c.fd, {c.event}))
    BY <1>3, TimeOutCallFacts
  <2>2. UNCHANGED <<call, at>>
    BY <1>3 DEF TimeOutCall
  <2> HIDE DEF c
  <2>q. QED
    BY <1>a, <1>b, <2>1, <2>2
<1>4. ASSUME NEW t \in Thread, NEW fd \in Fd, Close(t, fd)
      PROVE  CallInv'
  <2>1. Triggers(fd, Registered(fd)) /\ UNCHANGED <<call, at>>
    BY <1>4, CloseFacts
  <2>q. QED
    BY <1>a, <1>b, <2>1
<1>5. ASSUME NEW t \in Thread, Finish(t)
      PROVE  CallInv'
  <2>1. at[task[t].fiber] = "user" /\ at' = [at EXCEPT ![task[t].fiber] = "done"] /\ UNCHANGED <<call, waiter>>
    BY <1>5 DEF Finish, InUser
  <2>q. QED
    BY <1>0, <1>a, <2>1
<1>6. ASSUME NEW t \in Thread, NEW d \in Delay, Sleep(t, d)
      PROVE  CallInv'
  <2>1. at[task[t].fiber] = "user"
    BY <1>6, MayWaitFacts DEF Sleep
  <2>2. at' = [at EXCEPT ![task[t].fiber] = "sleep"] /\ UNCHANGED <<call, waiter>>
    BY <1>6, SleepFacts
  <2>q. QED
    BY <1>0, <1>a, <2>1, <2>2
<1>7. ASSUME NEW t \in Thread, NEW c \in Call, DoIo(t, c)
      PROVE  CallInv'
  <2> DEFINE f == task[t].fiber
  <2>1. f \in Fiber /\ at[f] = "user"
    BY <1>7, MayWaitFacts DEF DoIo
  <2>2. /\ c.fd \in Fd /\ c.event \in Event
        /\ \A g \in Fiber : at[g] = "io" => <<call[g].fd, call[g].event>> # <<c.fd, c.event>>
        /\ \/ /\ at' = [at EXCEPT ![f] = "io"] /\ call' = [call EXCEPT ![f] = c]
              /\ waiter' = [waiter EXCEPT ![c.fd][c.event] = f]
           \/ at' = at /\ call' = [call EXCEPT ![f] = NoCall] /\ waiter' = waiter
    BY <1>7, DoIoFacts DEF Blocked
  <2> HIDE DEF f
  <2>3. \A g \in Fiber : at[g] = "io" => ~(call[g].fd = c.fd /\ call[g].event = c.event)
    BY <2>2
  <2>4. CASE /\ at' = [at EXCEPT ![f] = "io"] /\ call' = [call EXCEPT ![f] = c]
             /\ waiter' = [waiter EXCEPT ![c.fd][c.event] = f]
    <3>1. /\ at'[f] = "io" /\ call'[f] = c /\ \A g \in Fiber \ {f} : at'[g] = at[g] /\ call'[g] = call[g]
      BY <1>0, <2>1, <2>4
    <3>2. \A d \in Fd, e \in Event : waiter'[d][e] = IF d = c.fd /\ e = c.event THEN f ELSE waiter[d][e]
      BY <1>0, <2>2, <2>4
    <3>3. \A d \in Fd, e \in Event : waiter[d][e] # f
      BY <1>0, <2>1
    <3>q. QED
      BY <1>0, <2>1, <2>3, <3>1, <3>2, <3>3 DEF CallInv
  <2>5. CASE at' = at /\ call' = [call EXCEPT ![f] = NoCall] /\ waiter' = waiter
    <3>1. at[f] # "io" /\ \A g \in Fiber \ {f} : call'[g] = call[g]
      BY <1>0, <2>1, <2>5
    <3>q. QED
      BY <1>0, <2>1, <2>5, <3>1 DEF CallInv
  <2>q. QED
    BY <2>2, <2>4, <2>5
<1>8. ASSUME NEW t \in Thread, ResumeIo(t)
      PROVE  CallInv'
  <2> DEFINE f == task[t].fiber
             c == call[f]
  <2>1. f \in Fiber /\ at[f] = "io" /\ ~Waiting(f) /\ c.fd \in Fd /\ c.event \in Event
    BY <1>8, ResumeIoFacts, RunningFacts
  <2>2. \/ at' = at /\ call' = call /\ waiter' = [waiter EXCEPT ![c.fd][c.event] = f]
        \/ at' = [at EXCEPT ![f] = "user"] /\ call' = [call EXCEPT ![f] = NoCall] /\ waiter' = waiter
    BY <1>8, ResumeIoFacts DEF Blocked
  <2> HIDE DEF f
  <2>3. CASE at' = at /\ call' = call /\ waiter' = [waiter EXCEPT ![c.fd][c.event] = f]
    <3>1. \A d \in Fd, e \in Event : waiter'[d][e] = IF d = c.fd /\ e = c.event THEN f ELSE waiter[d][e]
      BY <1>0, <2>1, <2>3
    <3>q. QED
      BY <1>0, <2>1, <2>3, <3>1 DEF CallInv
  <2>4. CASE at' = [at EXCEPT ![f] = "user"] /\ call' = [call EXCEPT ![f] = NoCall] /\ waiter' = waiter
    <3>1. at'[f] = "user" /\ \A g \in Fiber \ {f} : at'[g] = at[g] /\ call'[g] = call[g]
      BY <1>0, <2>1, <2>4
    <3>2. \A d \in Fd, e \in Event : waiter[d][e] # f
      BY <2>1, NothingWakes
    <3>q. QED
      BY <1>0, <2>1, <2>4, <3>1, <3>2 DEF CallInv
  <2>q. QED
    BY <2>2, <2>3, <2>4
<1>9. ASSUME NEW f \in Fiber, NEW th, MainSchedule(f, th)
      PROVE  CallInv'
  <2>1. at[f] = "new" /\ at' = [at EXCEPT ![f] = "queued"] /\ UNCHANGED <<call, waiter>>
    BY <1>9 DEF MainSchedule
  <2>q. QED
    BY <1>0, <1>a, <2>1
<1>10. ASSUME NEW f \in Fiber, NEW d \in Delay, MainAddTimer(f, d)
       PROVE  CallInv'
  <2>1. at[f] = "new" /\ at' = [at EXCEPT ![f] = "timer"] /\ UNCHANGED <<call, waiter>>
    BY <1>10 DEF MainAddTimer
  <2>q. QED
    BY <1>0, <1>a, <2>1
<1>11. ASSUME NEW f \in Fiber, CancelTimer(f)
       PROVE  CallInv'
  <2>1. OwnTimer(f) # {} /\ at' = [at EXCEPT ![f] = "done"] /\ UNCHANGED <<call, waiter>>
    BY <1>11 DEF CancelTimer
  <2>2. at[f] # "io"
    BY <2>1, OwnTimerFacts
  <2>q. QED
    BY <1>0, <1>a, <2>1, <2>2
<1>12. ASSUME \/ \E t \in Thread \cup {Main} : Tickle(t)
              \/ \E t \in Thread : \/ FindNothing(t) \/ EnterIdle(t) \/ Ask(t) \/ EpollWait(t) \/ ScheduleExpired(t)
                                   \/ DrainPipe(t) \/ LeaveIdle(t) \/ WakeSleeper(t) \/ Yield(t)
              \/ \E f \in Fiber : RefreshTimer(f) \/ \E d \in Delay : ResetTimer(f, d)
              \/ Stop \/ Tick
              \/ \E fd \in Fd, e \in Event : Arrive(fd, e)
       PROVE  UNCHANGED <<call, at, waiter>>
  BY <1>12, AskFacts DEF Tickle, FindNothing, EnterIdle, EpollWait, ScheduleExpired, DrainPipe, LeaveIdle, WakeSleeper, Yield,
       RefreshTimer, ResetTimer, Stop, Tick, Arrive
<1> HIDE DEF threadVars, schedVars, timerVars, fdVars, fiberVars
<1>13. ASSUME UNCHANGED <<call, at, waiter>>
       PROVE  CallInv'
  BY <1>a, <1>13
<1>14. Timed \subseteq Fiber
  BY IOAssumption
<1>q. QED
  BY <1>1, <1>2, <1>3, <1>4, <1>5, <1>6, <1>7, <1>8, <1>9, <1>10, <1>11, <1>12, <1>13, <1>14
     DEF Next, ThreadStep, MainStep, Ask

LEMMA StateKept ==
  ASSUME TypeInv, ThreadInv, OneThreadInv, CallInv, WakeInv, FitInv, StateInv, Next
  PROVE  StateInv'
<1> USE DEF threadVars, schedVars, timerVars, fdVars, fiberVars
<1> DEFINE Runs2(x, f) == x.fiber = f /\ x.op \in {"start", "resume"}
<1>0. /\ \A t \in Thread, f \in Fiber : Runs2(task[t], f) =>
           /\ state[f] = "RUNNING" /\ pc[t] \in {"run", "yield"}
           /\ pc[t] = "run" => at[f] \in {"user", "io"}
           /\ pc[t] = "yield" => at[f] \in {"sleep", "io"}
      /\ \A t, u \in Thread, f \in Fiber : Runs2(task[t], f) /\ Runs2(task[u], f) => t = u
      /\ \A f \in Fiber : state[f] = "RUNNING" => \E t \in Thread : Runs2(task[t], f)
      /\ \A f \in Fiber : state[f] = "TERM" => at[f] = "done"
      /\ at \in [Fiber -> {"new", "queued", "timer", "sleep", "io", "user", "done"}]
      /\ state \in [Fiber -> {"READY", "RUNNING", "TERM"}]
      /\ task \in [Thread -> Item \cup {NoTask}]
      /\ pc \in [Thread -> {"scan", "run", "yield", "enter", "ask", "pending", "stopping", "wait", "handle", "exited"}]
      /\ \A f \in Fiber : ~Runs2(NoTask, f)
  BY OnFacts, IOAssumption DEF StateInv, TypeInv, On, NoTask
<1>a. SUFFICES
      /\ \A t \in Thread, f \in Fiber : Runs2(task'[t], f) =>
           /\ state'[f] = "RUNNING"
           /\ pc'[t] = "run" => at'[f] \in {"user", "io"}
           /\ pc'[t] = "yield" => at'[f] \in {"sleep", "io"}
      /\ \A t, u \in Thread, f \in Fiber : Runs2(task'[t], f) /\ Runs2(task'[u], f) => t = u
      /\ \A f \in Fiber : state'[f] = "RUNNING" => \E t \in Thread : Runs2(task'[t], f)
      /\ \A f \in Fiber : state'[f] = "TERM" => at'[f] = "done"
  BY DEF StateInv, On
<1> DEFINE Goal ==
      /\ \A t \in Thread, f \in Fiber : Runs2(task'[t], f) =>
           /\ state'[f] = "RUNNING"
           /\ pc'[t] = "run" => at'[f] \in {"user", "io"}
           /\ pc'[t] = "yield" => at'[f] \in {"sleep", "io"}
      /\ \A t, u \in Thread, f \in Fiber : Runs2(task'[t], f) /\ Runs2(task'[u], f) => t = u
      /\ \A f \in Fiber : state'[f] = "RUNNING" => \E t \in Thread : Runs2(task'[t], f)
      /\ \A f \in Fiber : state'[f] = "TERM" => at'[f] = "done"
<1> HIDE DEF Runs2
<1>1. ASSUME NEW t \in Thread, Take(t)
      PROVE  Goal
  <2>1. PICK i \in DOMAIN tasks :
          /\ tasks[i] \in Item /\ task' = [task EXCEPT ![t] = tasks[i]]
          /\ state' = IF tasks[i].op \in {"start", "resume"}
                        THEN [state EXCEPT ![tasks[i].fiber] = "RUNNING"] ELSE state
          /\ at' = IF tasks[i].op \in {"start", "resume"} /\ at[tasks[i].fiber] # "io"
                     THEN [at EXCEPT ![tasks[i].fiber] = "user"] ELSE at
    BY <1>1, TakeFacts
  <2>2. Free(t, "scan") /\ pc' = [pc EXCEPT ![t] = "run"]
    BY <1>1 DEF Take
  <2>3. pc[t] = "scan" /\ tasks[i].fiber \in Fiber
    BY <2>1, <2>2 DEF Free, Item
  <2>4. \A f \in Fiber : ~Runs2(task[t], f)
    BY <1>0, <2>3
  <2>5. CASE tasks[i].op \notin {"start", "resume"}
    <3>1. state' = state /\ at' = at
      BY <2>1, <2>5
    <3>2. \A u \in Thread, f \in Fiber : Runs2(task'[u], f) <=> Runs2(task[u], f) /\ u # t
      BY <1>0, <2>1, <2>4, <2>5 DEF Runs2
    <3>3. \A u \in Thread \ {t} : pc'[u] = pc[u]
      BY <1>0, <2>2
    <3>4. ASSUME NEW f \in Fiber, state[f] = "RUNNING"
          PROVE  \E u \in Thread : Runs2(task'[u], f)
      BY <1>0, <2>4, <3>2, <3>4
    <3>5. \A u \in Thread, f \in Fiber : Runs2(task'[u], f) =>
            /\ state'[f] = "RUNNING"
            /\ pc'[u] = "run" => at'[f] \in {"user", "io"}
            /\ pc'[u] = "yield" => at'[f] \in {"sleep", "io"}
      BY <1>0, <3>1, <3>2, <3>3
    <3>6. \A u, v \in Thread, f \in Fiber : Runs2(task'[u], f) /\ Runs2(task'[v], f) => u = v
      BY <1>0, <3>2
    <3>q. QED
      BY <1>0, <3>1, <3>4, <3>5, <3>6
  <2>6. CASE tasks[i].op \in {"start", "resume"}
    <3> DEFINE f == tasks[i].fiber
    <3>1. state[f] = "READY" /\ Waiting(f) /\ \A u \in Thread : ~On(u, f)
      BY <2>2, <2>3, <2>6, TakenFacts
    <3>2. \A u \in Thread : ~Runs2(task[u], f)
      BY <3>1 DEF On, Runs2
    <3>3. \A u \in Thread, g \in Fiber : Runs2(task'[u], g) <=> (u # t /\ Runs2(task[u], g)) \/ (u = t /\ g = f)
      BY <1>0, <2>1, <2>3, <2>4, <2>6 DEF Runs2
    <3>4. /\ state'[f] = "RUNNING" /\ at'[f] \in {"user", "io"}
          /\ \A g \in Fiber \ {f} : state'[g] = state[g] /\ at'[g] = at[g]
      BY <1>0, <2>1, <2>3, <2>6
    <3> HIDE DEF f
    <3>5. f \in Fiber
      BY <2>3 DEF f
    <3>6. \A u \in Thread \ {t} : pc'[u] = pc[u]
      BY <1>0, <2>2
    <3>7. pc'[t] = "run"
      BY <1>0, <2>2
    <3>q. QED
      BY <1>0, <2>4, <3>2, <3>3, <3>4, <3>5, <3>6, <3>7
  <2>q. QED
    BY <2>5, <2>6
\* A thread that does something else than run a fiber.
<1>2. ASSUME NEW t \in Thread, pc[t] \notin {"run", "yield"}, NEW w, pc' = [pc EXCEPT ![t] = w],
             UNCHANGED <<task, state, at>>
      PROVE  Goal
  <2>1. \A f \in Fiber : ~Runs2(task[t], f)
    BY <1>0, <1>2
  <2>2. \A u \in Thread \ {t} : pc'[u] = pc[u]
    BY <1>0, <1>2
  <2>q. QED
    BY <1>0, <1>2, <2>1, <2>2
<1>3. ASSUME NEW t \in Thread, FindNothing(t) \/ EnterIdle(t) \/ Ask(t) \/ EpollWait(t) \/ LeaveIdle(t)
      PROVE  Goal
  <2>1. pc[t] \notin {"run", "yield"}
    BY <1>3, AskFacts DEF FindNothing, EnterIdle, EpollWait, LeaveIdle, Free
  <2>2. UNCHANGED <<task, state, at>> /\ \E w : pc' = [pc EXCEPT ![t] = w]
    BY <1>3, AskFacts DEF FindNothing, EnterIdle, EpollWait, LeaveIdle
  <2>q. QED
    BY <1>2, <2>1, <2>2
\* A thread that is done with a timer's callback.
<1>4. ASSUME NEW t \in Thread, task[t].op \notin {"start", "resume"}, EndTask(t), UNCHANGED <<state, at>>
      PROVE  Goal
  <2>1. \A f \in Fiber : ~Runs2(task[t], f)
    BY <1>4 DEF Runs2
  <2>2. \A u \in Thread \ {t} : pc'[u] = pc[u] /\ task'[u] = task[u]
    BY <1>0, <1>4 DEF EndTask
  <2>3. task'[t] = NoTask
    BY <1>0, <1>4 DEF EndTask
  <2>q. QED
    BY <1>0, <1>4, <2>1, <2>2, <2>3
<1>5. ASSUME NEW t \in Thread, WakeSleeper(t) \/ TimeOutCall(t)
      PROVE  Goal
  <2>1. task[t].op \in {"wake", "timeout"} /\ EndTask(t)
    BY <1>5, WakeSleeperFacts, TimeOutCallFacts
  <2>2. UNCHANGED <<state, at>>
    BY <1>5 DEF WakeSleeper, TimeOutCall
  <2>q. QED
    BY <1>4, <2>1, <2>2
\* A thread that is done with its fiber.
<1>6. ASSUME NEW t \in Thread, NEW f \in Fiber, Runs2(task[t], f), EndTask(t),
             \/ state' = [state EXCEPT ![f] = "READY"] /\ at' = at
             \/ state' = [state EXCEPT ![f] = "TERM"] /\ at' = [at EXCEPT ![f] = "done"]
      PROVE  Goal
  <2>1. \A g \in Fiber \ {f} : ~Runs2(task[t], g)
    BY <1>6 DEF Runs2
  <2>2. \A u \in Thread \ {t} : pc'[u] = pc[u] /\ task'[u] = task[u]
    BY <1>0, <1>6 DEF EndTask
  <2>3. task'[t] = NoTask
    BY <1>0, <1>6 DEF EndTask
  <2>4. \A g \in Fiber \ {f} : state'[g] = state[g] /\ at'[g] = at[g]
    BY <1>0, <1>6
  <2>5. state'[f] = "READY" \/ (state'[f] = "TERM" /\ at'[f] = "done")
    BY <1>0, <1>6
  <2>q. QED
    BY <1>0, <1>6, <2>1, <2>2, <2>3, <2>4, <2>5
<1>7. ASSUME NEW t \in Thread, Finish(t)
      PROVE  Goal
  <2> DEFINE f == task[t].fiber
  <2>1. f \in Fiber /\ Runs2(task[t], f)
    BY <1>7, RunsFacts DEF Finish, InUser, Runs2
  <2>2. EndTask(t) /\ state' = [state EXCEPT ![f] = "TERM"] /\ at' = [at EXCEPT ![f] = "done"]
    BY <1>7 DEF Finish
  <2>q. QED
    BY <1>6, <2>1, <2>2
<1>8. ASSUME NEW t \in Thread, Yield(t)
      PROVE  Goal
  <2> DEFINE f == task[t].fiber
  <2>1. task[t].op \in {"start", "resume"}
    BY <1>8 DEF Yield, Free, ThreadInv
  <2>2. task[t] \in Item
    BY <1>0, <2>1 DEF NoTask
  <2>3. f \in Fiber /\ Runs2(task[t], f)
    BY <2>1, <2>2 DEF Item, Runs2
  <2>4. EndTask(t) /\ state' = [state EXCEPT ![f] = "READY"] /\ at' = at
    BY <1>8 DEF Yield
  <2>q. QED
    BY <1>6, <2>3, <2>4
\* A fiber that runs goes on, or waits.
<1>9. ASSUME NEW t \in Thread, NEW f \in Fiber, pc[t] = "run", Runs2(task[t], f), UNCHANGED <<task, state>>,
             \/ pc' = [pc EXCEPT ![t] = "yield"] /\ at' = [at EXCEPT ![f] = "sleep"]
             \/ pc' = [pc EXCEPT ![t] = "yield"] /\ at' = [at EXCEPT ![f] = "io"]
             \/ pc' = [pc EXCEPT ![t] = "yield"] /\ at' = at /\ at[f] = "io"
             \/ pc' = pc /\ at' = [at EXCEPT ![f] = "user"]
             \/ pc' = pc /\ at' = at
      PROVE  Goal
  <2>1. \A g \in Fiber \ {f} : ~Runs2(task[t], g)
    BY <1>9 DEF Runs2
  <2>2. \A u \in Thread \ {t} : pc'[u] = pc[u] /\ ~Runs2(task[u], f)
    BY <1>0, <1>9
  <2>3. \A g \in Fiber \ {f} : at'[g] = at[g]
    BY <1>0, <1>9
  <2>4. \/ pc'[t] = "yield" /\ at'[f] \in {"sleep", "io"}
        \/ pc'[t] = "run" /\ at'[f] \in {"user", "io"}
    BY <1>0, <1>9
  <2>5. state[f] = "RUNNING"
    BY <1>0, <1>9
  <2>q. QED
    BY <1>0, <1>9, <2>1, <2>2, <2>3, <2>4, <2>5
<1>10. ASSUME NEW t \in Thread, NEW d \in Delay, Sleep(t, d)
       PROVE  Goal
  <2> DEFINE f == task[t].fiber
  <2>1. f \in Fiber /\ pc[t] = "run" /\ Runs2(task[t], f)
    BY <1>10, MayWaitFacts DEF Sleep, Runs2
  <2>2. pc' = [pc EXCEPT ![t] = "yield"] /\ at' = [at EXCEPT ![f] = "sleep"] /\ UNCHANGED <<task, state>>
    BY <1>10 DEF Sleep
  <2> HIDE DEF f
  <2>q. QED
    BY <1>9, <2>1, <2>2
<1>11. ASSUME NEW t \in Thread, NEW c \in Call, DoIo(t, c)
       PROVE  Goal
  <2> DEFINE f == task[t].fiber
  <2>1. f \in Fiber /\ pc[t] = "run" /\ Runs2(task[t], f)
    BY <1>11, MayWaitFacts DEF DoIo, Runs2
  <2>2. /\ \/ pc' = [pc EXCEPT ![t] = "yield"] /\ at' = [at EXCEPT ![f] = "io"]
           \/ pc' = pc /\ at' = at
        /\ UNCHANGED <<task, state>>
    BY <1>11, DoIoFacts DEF Blocked
  <2> HIDE DEF f
  <2>q. QED
    BY <1>9, <2>1, <2>2
<1>12. ASSUME NEW t \in Thread, ResumeIo(t)
       PROVE  Goal
  <2> DEFINE f == task[t].fiber
  <2>1. f \in Fiber /\ pc[t] = "run" /\ Runs2(task[t], f) /\ at[f] = "io"
    BY <1>12, ResumeIoFacts DEF Runs2
  <2>2. /\ \/ pc' = [pc EXCEPT ![t] = "yield"] /\ at' = at
           \/ pc' = pc /\ at' = [at EXCEPT ![f] = "user"]
        /\ UNCHANGED <<task, state>>
    BY <1>12, ResumeIoFacts DEF Blocked
  <2> HIDE DEF f
  <2>q. QED
    BY <1>9, <2>1, <2>2
\* A fiber that has not started is scheduled, or given up.
<1>13. ASSUME NEW f \in Fiber, NEW w, at' = [at EXCEPT ![f] = w], UNCHANGED <<task, state, pc>>,
              at[f] \in {"new", "queued", "timer"}
       PROVE  Goal
  <2>1. \A t \in Thread : ~Runs2(task[t], f)
    BY <1>0, <1>13
  <2>2. \A g \in Fiber \ {f} : at'[g] = at[g]
    BY <1>0, <1>13
  <2>3. state[f] # "TERM"
    BY <1>0, <1>13
  <2>q. QED
    BY <1>0, <1>13, <2>1, <2>2, <2>3
<1>14. ASSUME NEW f \in Fiber, (\E th : MainSchedule(f, th)) \/ (\E d \in Delay : MainAddTimer(f, d)) \/ CancelTimer(f)
       PROVE  Goal
  <2>1. (at[f] = "new" \/ OwnTimer(f) # {}) /\ UNCHANGED <<task, state, pc>> /\ \E w : at' = [at EXCEPT ![f] = w]
    BY <1>14 DEF MainSchedule, MainAddTimer, CancelTimer
  <2>2. at[f] \in {"new", "queued", "timer"}
    BY <2>1, OwnTimerFacts
  <2>q. QED
    BY <1>13, <2>1, <2>2
<1>15. ASSUME \/ \E t \in Thread \cup {Main} : Tickle(t)
              \/ \E t \in Thread : ScheduleExpired(t) \/ DrainPipe(t) \/ HandleEvent(t) \/ \E fd \in Fd : Close(t, fd)
              \/ \E f \in Fiber : RefreshTimer(f) \/ \E d \in Delay : ResetTimer(f, d)
              \/ Stop \/ Tick
              \/ \E fd \in Fd, e \in Event : Arrive(fd, e)
       PROVE  UNCHANGED <<task, state, at, pc>>
  BY <1>15 DEF Tickle, ScheduleExpired, DrainPipe, HandleEvent, Close, RefreshTimer, ResetTimer, Stop, Tick, Arrive
<1>16. ASSUME UNCHANGED <<task, state, at, pc>>
       PROVE  Goal
  BY <1>0, <1>16
<1>17. Timed \subseteq Fiber
  BY IOAssumption
<1> HIDE DEF Goal, threadVars, schedVars, timerVars, fdVars, fiberVars
<1>18. Goal
  BY <1>1, <1>3, <1>5, <1>7, <1>8, <1>10, <1>11, <1>12, <1>14, <1>15, <1>16, <1>17
     DEF Next, ThreadStep, MainStep, Ask
<1>q. QED
  BY <1>18 DEF Goal

LEMMA ReportKept ==
  ASSUME TypeInv, ThreadInv, OneThreadInv, CallInv, ReportInv, Next
  PROVE  ReportInv'
<1> USE DEF threadVars, schedVars, timerVars, fdVars, fiberVars
<1> DEFINE Goal == \A u \in Thread : \A r \in report'[u] : r.fd # Pipe =>
                     /\ r.events \subseteq Registered(r.fd)'
                     /\ \A s \in report'[u] : s.fd = r.fd => s = r
<1>0. /\ report \in [Thread -> SUBSET Report]
      /\ \A u \in Thread : \A r \in report[u] : r.fd # Pipe =>
           /\ r.events \subseteq Registered(r.fd)
           /\ \A s \in report[u] : s.fd = r.fd => s = r
  BY DEF ReportInv, TypeInv
<1>a. SUFFICES Goal
  BY DEF ReportInv
<1>1. ASSUME waiter' = waiter, \A u \in Thread : report'[u] \subseteq report[u]
      PROVE  Goal
  BY <1>0, <1>1 DEF Registered
<1>2. ASSUME NEW t \in Thread, EpollWait(t)
      PROVE  Goal
  <2> DEFINE R == {[fd |-> d, events |-> Registered(d) \cap ready[d]] : d \in edge}
                    \cup (IF pipe THEN {[fd |-> Pipe, events |-> {}]} ELSE {})
  <2>1. report' = [report EXCEPT ![t] = R] /\ waiter' = waiter
    BY <1>2 DEF EpollWait
  <2>2. \A r \in R : r.fd # Pipe => r.events \subseteq Registered(r.fd) /\ \A s \in R : s.fd = r.fd => s = r
    OBVIOUS
  <2> HIDE DEF R
  <2>3. \A d : Registered(d)' = Registered(d)
    BY <2>1 DEF Registered
  <2>q. QED
    BY <1>0, <2>1, <2>2, <2>3
\* Alone, a thread that runs a fiber has nothing to report.
<1>3. ASSUME OneThread, NEW t \in pool, pc[t] = "run", report' = report
      PROVE  Goal
  <2>1. \A u \in Thread : report[u] = {}
    BY <1>3, Alone DEF ThreadInv
  <2>q. QED
    BY <1>3, <2>1
<1>4. ASSUME NEW t \in Thread, TimeOutCall(t)
      PROVE  Goal
  <2>1. t \in pool /\ pc[t] = "run" /\ task[t].op = "timeout"
    BY <1>4, TimeOutCallFacts
  <2>2. OneThread
    BY <2>1, TimeOutCallFacts DEF OneThreadInv, PlainItem, NoTask
  <2>3. report' = report
    BY <1>4 DEF TimeOutCall, EndTask
  <2>q. QED
    BY <1>3, <2>1, <2>2, <2>3
<1>5. ASSUME NEW t \in Thread, (\E c \in Call : DoIo(t, c)) \/ ResumeIo(t) \/ (\E fd \in Fd : Close(t, fd))
      PROVE  Goal
  <2>1. t \in pool /\ pc[t] = "run" /\ OneThread
    BY <1>5, MayWaitFacts, ResumeIoFacts, CloseFacts DEF DoIo
  <2>2. report' = report
    BY <1>5 DEF DoIo, ResumeIo, Close
  <2>q. QED
    BY <1>3, <2>1, <2>2
<1>6. ASSUME NEW t \in Thread, HandleEvent(t)
      PROVE  Goal
  <2>1. pc[t] = "handle" /\ t \in pool
    BY <1>6, HandleEventFacts
  <2>2. PICK r \in report[t] :
          /\ r.fd \in Fd /\ r.events \in SUBSET Event
          /\ report' = [report EXCEPT ![t] = @ \ {r}]
          /\ Triggers(r.fd, r.events) \/ (tasks' = tasks /\ waiter' = waiter)
    BY <1>6, HandleEventFacts
  <2>3. CASE OneThread
    <3>1. \A u \in Thread \ {t} : report[u] = {}
      BY <2>1, <2>3, Alone
    <3>2. report'[t] = report[t] \ {r} /\ \A u \in Thread \ {t} : report'[u] = {}
      BY <1>0, <2>2, <3>1
    <3>3. r.fd # Pipe
      BY <2>2, IOAssumption
    <3>4. \A s \in report'[t] : s.fd # r.fd
      BY <1>0, <3>2, <3>3
    <3>5. \A s \in report'[t] : s.fd # Pipe => Registered(s.fd)' = Registered(s.fd)
      <4>1. ASSUME NEW s \in report'[t], s.fd # Pipe
            PROVE  waiter'[s.fd] = waiter[s.fd]
        <5>1. s.fd \in Fd /\ s.fd # r.fd
          BY <1>0, <3>2, <3>4, <4>1 DEF Report
        <5>q. QED
          BY <2>2, <5>1 DEF Triggers, TypeInv
      <4>q. QED
        BY <4>1 DEF Registered
    <3>q. QED
      BY <1>0, <3>2, <3>5
  <2>4. CASE ~OneThread
    <3>1. \A d \in Fd, e \in Event : waiter[d][e] = None
      BY <2>4 DEF OneThreadInv
    <3>2. \A d \in Fd, e \in Event : waiter'[d][e] = None
      BY <2>2, <3>1 DEF Triggers, TypeInv
    <3>3. \A d \in Fd : Registered(d)' = Registered(d)
      BY <3>1, <3>2 DEF Registered
    <3>4. \A u \in Thread : report'[u] \subseteq report[u]
      BY <1>0, <2>2
    <3>5. \A u \in Thread : \A s \in report[u] : s.fd = Pipe \/ s.fd \in Fd
      BY <1>0 DEF Report
    <3>q. QED
      BY <1>0, <3>3, <3>4, <3>5
  <2>q. QED
    BY <2>3, <2>4
<1>7. ASSUME NEW t \in Thread, DrainPipe(t)
      PROVE  Goal
  <2>1. waiter' = waiter /\ \E r : report' = [report EXCEPT ![t] = @ \ {r}]
    BY <1>7 DEF DrainPipe
  <2>q. QED
    BY <1>0, <1>1, <2>1
<1>8. ASSUME \/ \E t \in Thread \cup {Main} : Tickle(t)
             \/ \E t \in Thread : \/ Take(t) \/ FindNothing(t) \/ EnterIdle(t) \/ Ask(t) \/ ScheduleExpired(t)
                                  \/ LeaveIdle(t) \/ WakeSleeper(t) \/ Finish(t) \/ Yield(t) \/ \E d \in Delay : Sleep(t, d)
             \/ \E f \in Fiber : \/ RefreshTimer(f) \/ CancelTimer(f) \/ (\E th : MainSchedule(f, th))
                                 \/ \E d \in Delay : ResetTimer(f, d) \/ MainAddTimer(f, d)
             \/ Stop \/ Tick
             \/ \E fd \in Fd, e \in Event : Arrive(fd, e)
      PROVE  waiter' = waiter /\ report' = report
  BY <1>8, AskFacts DEF Tickle, Take, FindNothing, EnterIdle, ScheduleExpired, LeaveIdle, WakeSleeper, Finish, Yield, Sleep, EndTask,
       RefreshTimer, CancelTimer, MainSchedule, ResetTimer, MainAddTimer, Stop, Tick, Arrive
<1> HIDE DEF Goal, threadVars, schedVars, timerVars, fdVars, fiberVars
<1>9. ASSUME waiter' = waiter /\ report' = report
      PROVE  Goal
  BY <1>1, <1>9
<1>10. Timed \subseteq Fiber
  BY IOAssumption
<1>q. QED
  BY <1>2, <1>4, <1>5, <1>6, <1>7, <1>8, <1>9, <1>10 DEF Next, ThreadStep, MainStep, Ask


-----------------------------------------------------------------------------
(* Time *)

LEMMA OrderKept ==
  ASSUME TypeInv, ThreadInv, OneThreadInv, CallInv, OrderInv, Next, OneThreadInv', pool' = pool
  PROVE  OrderInv'
<1> USE DEF threadVars, schedVars, timerVars, fdVars, fiberVars
<1> DEFINE IdlePc == {"enter", "ask", "pending", "stopping", "wait"}
<1> DEFINE Sorted == \A i, j \in DOMAIN tasks' : i < j /\ tasks'[i].op = "resume" => tasks'[j].op # "timeout"
           NoResume == \A i \in DOMAIN tasks' : tasks'[i].op # "resume"
           NoTimeout == \A i \in DOMAIN tasks' : tasks'[i].op # "timeout"
           Idle(u) == pc'[u] \in IdlePc \/ cbs'[u] # {}
           Busy(u) == pc'[u] = "run" /\ task'[u].op = "resume"
           Goal == /\ Sorted
                   /\ \A u \in Thread : Idle(u) => NoResume
                   /\ \A u \in Thread : Busy(u) => NoTimeout
<1>a. SUFFICES Goal
  BY DEF OrderInv, Resumes
<1>0. /\ \A i, j \in DOMAIN tasks : i < j /\ tasks[i].op = "resume" => tasks[j].op # "timeout"
      /\ \A u \in Thread : pc[u] \in IdlePc \/ cbs[u] # {} =>
           \A i \in DOMAIN tasks : tasks[i].op # "resume"
      /\ \A u \in Thread : pc[u] = "run" /\ task[u].op = "resume" =>
           \A i \in DOMAIN tasks : tasks[i].op # "timeout"
      /\ tasks \in Seq(Item) /\ DOMAIN tasks \subseteq Nat
      /\ cbs \in [Thread -> SUBSET Item] /\ task \in [Thread -> Item \cup {NoTask}]
      /\ pc \in [Thread -> {"scan", "run", "yield", "enter", "ask", "pending", "stopping", "wait", "handle", "exited"}]
  BY DEF OrderInv, Resumes, TypeInv
<1>1. CASE ~OneThread
  <2>1. ~OneThread'
    BY <1>1 DEF OneThread
  <2>2. /\ \A u \in Thread : (task'[u] = NoTask \/ task'[u].op = "start") /\ \A c \in cbs'[u] : c.op = "start"
        /\ \A i \in DOMAIN tasks' : tasks'[i].op = "start"
    BY <2>1 DEF OneThreadInv, PlainItem
  <2>q. QED
    BY <2>2 DEF NoTask
<1> SUFFICES ASSUME OneThread PROVE Goal
  BY <1>1
<1>b. ASSUME NEW t \in pool
      PROVE  /\ t \in Thread /\ Runnable(t) = DOMAIN tasks
             /\ \A u \in Thread \ {t} : pc[u] = "exited" /\ cbs[u] = {} /\ task[u] = NoTask
             /\ pc[t] # "handle" => cbs[t] = {}
  BY Alone, PoolFacts DEF ThreadInv, TypeInv
\* The queue stays, and nobody becomes idle or busy.
<1>2. ASSUME tasks' = tasks, \A u \in Thread : cbs'[u] \subseteq cbs[u],
             \A u \in Thread : pc'[u] \in IdlePc => pc[u] \in IdlePc,
             \A u \in Thread : Busy(u) => pc[u] = "run" /\ task[u].op = "resume"
      PROVE  Goal
  BY <1>0, <1>2
\* What is queued is no timeout.
<1>3. ASSUME NEW more \in Seq(Item), \A k \in DOMAIN more : more[k].op # "timeout", tasks' = tasks \o more
      PROVE  Sorted /\ ((\A i \in DOMAIN tasks : tasks[i].op # "timeout") => NoTimeout)
  <2>1. \A i \in DOMAIN tasks' : i \in DOMAIN tasks => tasks'[i] = tasks[i]
    BY <1>3, QueueGrows
  <2>2. \A i \in DOMAIN tasks' : i \notin DOMAIN tasks =>
          tasks'[i].op # "timeout" /\ \A j \in DOMAIN tasks : j < i
    BY <1>3, QueueGrows
  <2>3. DOMAIN tasks' \subseteq Nat
    BY <1>3, QueueGrows
  <2>4. NoTimeout <=> \A i \in DOMAIN tasks : i \in DOMAIN tasks' => tasks[i].op # "timeout"
    BY <2>1, <2>2
  <2>5. ASSUME NEW i \in DOMAIN tasks', NEW j \in DOMAIN tasks', i < j, tasks'[i].op = "resume"
        PROVE  tasks'[j].op # "timeout"
    <3>1. CASE j \notin DOMAIN tasks
      BY <2>2, <3>1
    <3>2. CASE j \in DOMAIN tasks
      <4>1. i \in DOMAIN tasks
        BY <2>2, <2>3, <2>5, <3>2
      <4>q. QED
        BY <1>0, <2>1, <2>5, <3>2, <4>1
    <3>q. QED
      BY <3>1, <3>2
  <2>q. QED
    BY <2>4, <2>5
<1>c. ASSUME NEW fd \in Fd, NEW E \in SUBSET Event, Triggers(fd, E) \/ tasks' = tasks
      PROVE  Sorted /\ ((\A i \in DOMAIN tasks : tasks[i].op # "timeout") => NoTimeout)
  <2> DEFINE q == Triggered(fd, E)
  <2>1. q \in Seq(Item) /\ \A k \in DOMAIN q : q[k].op = "resume"
    BY TriggeredFacts
  <2>2. tasks' = tasks \o q \/ tasks' = tasks
    BY <1>c DEF Triggers
  <2> HIDE DEF q
  <2>q. QED
    BY <1>0, <1>3, <2>1, <2>2
\* The only thread is neither idle nor busy.
<1>4. ASSUME NEW t \in pool, cbs' = cbs, pc[t] # "handle" \/ cbs[t] = {},
             pc'[t] \notin IdlePc, \A u \in Thread \ {t} : pc'[u] = pc[u],
             Sorted, Busy(t) => NoTimeout
      PROVE  Goal
  <2>1. \A u \in Thread : cbs'[u] = {}
    BY <1>4, <1>b
  <2>2. \A u \in Thread \ {t} : pc'[u] = "exited"
    BY <1>4, <1>b
  <2>q. QED
    BY <1>4, <2>1, <2>2
<1>5. ASSUME NEW t \in Thread, Take(t)
      PROVE  Goal
  <2>1. t \in pool /\ pc[t] = "scan"
    BY <1>5, FreeFacts DEF Take
  <2>2. PICK i \in DOMAIN tasks :
          /\ \A l \in Runnable(t) : i <= l
          /\ tasks' = Cut(tasks, i) /\ task' = [task EXCEPT ![t] = tasks[i]]
    BY <1>5, TakeFacts
  <2>3. \A l \in DOMAIN tasks : i <= l
    BY <1>b, <2>1, <2>2
  <2>4. \A k \in DOMAIN tasks' : k + 1 \in DOMAIN tasks /\ k + 1 > i /\ tasks'[k] = tasks[k + 1] /\ k \in Nat
    <3>1. /\ DOMAIN tasks \subseteq Nat /\ DOMAIN tasks' \subseteq Nat
          /\ \A k \in DOMAIN tasks' :
               LET j == IF k < i THEN k ELSE k + 1 IN j \in DOMAIN tasks \ {i} /\ tasks'[k] = tasks[j]
      BY <2>2, QueueShrinks
    <3>2. \A k \in DOMAIN tasks' : ~(k < i)
      BY <2>3, <3>1
    <3>q. QED
      BY <3>1, <3>2
  <2>5. pc' = [pc EXCEPT ![t] = "run"] /\ cbs' = cbs
    BY <1>5 DEF Take
  <2>6. Sorted
    <3>1. \A k, l \in Nat : k < l => k + 1 < l + 1
      OBVIOUS
    <3>q. QED
      BY <1>0, <2>4, <3>1
  <2>7. Busy(t) => NoTimeout
    BY <1>0, <2>2, <2>4
  <2>8. pc'[t] = "run" /\ \A u \in Thread \ {t} : pc'[u] = pc[u]
    BY <1>0, <2>5
  <2> HIDE DEF Sorted, Goal
  <2>q. QED
    BY <1>4, <2>1, <2>5, <2>6, <2>7, <2>8
<1>6. ASSUME NEW t \in Thread, FindNothing(t)
      PROVE  Goal
  <2>1. t \in pool /\ tasks' = tasks /\ Runnable(t) = {}
    BY <1>6, FreeFacts DEF FindNothing
  <2>2. DOMAIN tasks' = {}
    BY <1>b, <2>1
  <2>q. QED
    BY <2>2
<1>7. ASSUME NEW t \in Thread, EpollWait(t)
      PROVE  Goal
  <2>1. pc[t] = "wait" /\ pc' = [pc EXCEPT ![t] = "handle"] /\ UNCHANGED <<tasks, task>>
    BY <1>7 DEF EpollWait, Free
  <2>2. NoResume
    BY <1>0, <2>1
  <2>3. \A u \in Thread : Busy(u) => pc[u] = "run" /\ task[u].op = "resume"
    BY <1>0, <2>1
  <2>q. QED
    BY <1>0, <2>1, <2>2, <2>3
<1>8. ASSUME NEW t \in Thread, ScheduleExpired(t)
      PROVE  Goal
  <2>1. t \in pool /\ pc[t] = "handle" /\ pc' = pc
    BY <1>8, ScheduleExpiredFacts DEF ScheduleExpired
  <2>2. PICK c \in cbs[t] : c \in Item /\ <<c>> \in Seq(Item) /\ tasks' = tasks \o <<c>> /\ Len(<<c>>) = 1 /\ <<c>>[1] = c
    BY <1>8, ScheduleExpiredFacts
  <2>3. c.op # "resume" /\ \A i \in DOMAIN tasks : tasks[i].op # "resume"
    BY <1>0, <2>2 DEF ThreadInv
  <2>4. NoResume
    BY <2>2, <2>3, QueueGrows
  <2>5. \A u \in Thread : pc'[u] # "run"
    BY <1>b, <2>1
  <2>q. QED
    BY <2>4, <2>5
<1>9. ASSUME NEW t \in Thread, HandleEvent(t)
      PROVE  Goal
  <2>1. t \in pool /\ pc[t] = "handle" /\ cbs[t] = {} /\ pc' = pc /\ cbs' = cbs
    BY <1>9, HandleEventFacts
  <2>2. PICK r \in report[t] :
          /\ r.fd \in Fd /\ r.events \in SUBSET Event
          /\ Triggers(r.fd, r.events) \/ (tasks' = tasks /\ waiter' = waiter)
    BY <1>9, HandleEventFacts
  <2>3. Sorted
    BY <1>c, <2>2
  <2> HIDE DEF Sorted, Goal
  <2>q. QED
    BY <1>4, <2>1, <2>3
\* A timer's callback that has been run.
<1>10. ASSUME NEW t \in pool, pc[t] = "run", EndTask(t), Sorted
       PROVE  Goal
  <2>1. cbs' = cbs /\ pc'[t] = "scan" /\ \A u \in Thread \ {t} : pc'[u] = pc[u]
    BY <1>0, <1>10, <1>b DEF EndTask
  <2> HIDE DEF Sorted, Goal
  <2>q. QED
    BY <1>4, <1>10, <2>1
<1>11. ASSUME NEW t \in Thread, WakeSleeper(t)
       PROVE  Goal
  <2> DEFINE x == Task("resume", task[t].fiber, Any)
  <2>1. /\ t \in pool /\ pc[t] = "run" /\ EndTask(t) /\ x.op = "resume"
        /\ <<x>> \in Seq(Item) /\ tasks' = tasks \o <<x>> /\ Len(<<x>>) = 1 /\ <<x>>[1] = x
    BY <1>11, WakeSleeperFacts
  <2> HIDE DEF x
  <2>2. \A k \in DOMAIN <<x>> : <<x>>[k].op # "timeout"
    BY <2>1
  <2>3. Sorted
    BY <1>3, <2>1, <2>2
  <2> HIDE DEF Sorted, Goal
  <2>q. QED
    BY <1>10, <2>1, <2>3
<1>12. ASSUME NEW t \in Thread, TimeOutCall(t)
       PROVE  Goal
  <2> DEFINE c == call[task[t].fiber]
  <2>1. /\ t \in pool /\ pc[t] = "run" /\ EndTask(t)
        /\ \/ tasks' = tasks /\ waiter' = waiter
           \/ c.fd \in Fd /\ Triggers(c.fd, {c.event}) /\ {c.event} \in SUBSET Event
    BY <1>12, TimeOutCallFacts
  <2> HIDE DEF c
  <2>2. Sorted
    BY <1>0, <1>c, <2>1
  <2> HIDE DEF Sorted, Goal
  <2>q. QED
    BY <1>10, <2>1, <2>2
<1>13. ASSUME NEW t \in Thread, NEW fd \in Fd, Close(t, fd)
       PROVE  Goal
  <2>1. t \in pool /\ pc[t] = "run" /\ UNCHANGED <<pc, task, cbs>>
    BY <1>13, CloseFacts
  <2>2. Registered(fd) \in SUBSET Event /\ Triggers(fd, Registered(fd))
    BY <1>13, CloseFacts
  <2>3. Sorted /\ ((\A i \in DOMAIN tasks : tasks[i].op # "timeout") => NoTimeout)
    BY <1>c, <2>2
  <2>4. Busy(t) => NoTimeout
    BY <1>0, <2>1, <2>3
  <2> HIDE DEF Sorted, Goal
  <2>q. QED
    BY <1>4, <2>1, <2>3, <2>4
<1>14. ASSUME NEW f \in Fiber, NEW th \in Thread \cup {Any}, MainSchedule(f, th)
       PROVE  Goal
  <2> DEFINE x == Task("start", f, th)
  <2>1. /\ x.op = "start" /\ <<x>> \in Seq(Item) /\ tasks' = tasks \o <<x>> /\ Len(<<x>>) = 1 /\ <<x>>[1] = x
        /\ UNCHANGED <<pc, task, cbs>>
    BY <1>14, MainScheduleFacts
  <2> HIDE DEF x
  <2>2. \A k \in DOMAIN <<x>> : <<x>>[k].op # "timeout"
    BY <2>1
  <2>3. Sorted /\ ((\A i \in DOMAIN tasks : tasks[i].op # "timeout") => NoTimeout)
    BY <1>3, <2>1, <2>2
  <2>4. (\A i \in DOMAIN tasks : tasks[i].op # "resume") => NoResume
    BY <2>1, QueueGrows
  <2>q. QED
    BY <1>0, <2>1, <2>3, <2>4
<1>15. ASSUME NEW t \in Thread, NEW w, pc' = [pc EXCEPT ![t] = w] \/ pc' = pc, w \notin IdlePc \cup {"run"},
              tasks' = tasks, cbs' = cbs, task' = task \/ EndTask(t)
       PROVE  Goal
  <2>1. \A u \in Thread : pc'[u] \in IdlePc => pc[u] \in IdlePc
    BY <1>0, <1>15
  <2>2. \A u \in Thread : Busy(u) => pc[u] = "run" /\ task[u].op = "resume"
    BY <1>0, <1>15 DEF EndTask
  <2>q. QED
    BY <1>2, <1>15, <2>1, <2>2
<1>16. ASSUME NEW t \in Thread, LeaveIdle(t) \/ Finish(t) \/ Yield(t) \/ (\E d \in Delay : Sleep(t, d))
                                  \/ (\E c \in Call : DoIo(t, c)) \/ ResumeIo(t)
       PROVE  Goal
  <2>1. tasks' = tasks /\ cbs' = cbs /\ (task' = task \/ EndTask(t))
    BY <1>16 DEF LeaveIdle, Finish, Yield, Sleep, DoIo, ResumeIo, EndTask
  <2>2. pc' = pc \/ pc' = [pc EXCEPT ![t] = "yield"] \/ pc' = [pc EXCEPT ![t] = "scan"]
    BY <1>16 DEF LeaveIdle, Finish, Yield, Sleep, DoIo, ResumeIo, Block, EndTask
  <2> HIDE DEF Goal
  <2>q. QED
    BY <1>15, <2>1, <2>2
<1>17. ASSUME NEW t \in Thread, EnterIdle(t)
       PROVE  Goal
  <2>1. UNCHANGED <<tasks, cbs, task>> /\ pc[t] = "enter"
        /\ pc' = [pc EXCEPT ![t] = "ask"]
    BY <1>17 DEF EnterIdle, Free
  <2>q. QED
    BY <1>0, <1>2, <2>1
<1>17a. ASSUME NEW t \in Thread, Ask(t)
       PROVE  Goal
  <2>1. /\ UNCHANGED <<tasks, cbs, task>> /\ pc[t] \in {"ask", "pending", "stopping"}
        /\ \E w \in {"pending", "stopping", "wait", "scan"} : pc' = [pc EXCEPT ![t] = w]
    BY <1>17a, AskFacts
  <2>q. QED
    BY <1>0, <1>2, <2>1
<1>18. ASSUME \/ \E t \in Thread \cup {Main} : Tickle(t)
              \/ \E t \in Thread : DrainPipe(t)
              \/ \E f \in Fiber : \/ RefreshTimer(f) \/ CancelTimer(f)
                                  \/ \E d \in Delay : ResetTimer(f, d) \/ MainAddTimer(f, d)
              \/ Stop \/ Tick
              \/ \E fd \in Fd, e \in Event : Arrive(fd, e)
       PROVE  UNCHANGED <<tasks, cbs, task, pc>>
  BY <1>18 DEF Tickle, DrainPipe, RefreshTimer, CancelTimer, ResetTimer, MainAddTimer, Stop, Tick, Arrive
<1>19. ASSUME UNCHANGED <<tasks, cbs, task, pc>>
       PROVE  Goal
  BY <1>2, <1>19
<1>20. Timed \subseteq Fiber /\ pool \subseteq Thread
  BY PoolFacts, IOAssumption DEF TypeInv
<1> HIDE DEF Goal, threadVars, schedVars, timerVars, fdVars, fiberVars
<1>q. QED
  BY <1>5, <1>6, <1>7, <1>8, <1>9, <1>11, <1>12, <1>13, <1>14, <1>16, <1>17, <1>17a, <1>18, <1>19,
     <1>20 DEF Next, ThreadStep, MainStep, Ask

LEMMA TimeKept ==
  ASSUME TypeInv, ThreadInv, OneThreadInv, CallInv, WakeInv, FitInv, StateInv, OrderInv, TimeInv, Next
  PROVE  TimeInv'
<1> USE DEF threadVars, schedVars, timerVars, fdVars, fiberVars
<1> DEFINE Ok(x, left) == /\ x.op = "wake" => due'[x.fiber] <= left + 2
                          /\ x.op = "timeout" =>
                               /\ x.n <= calls'[x.fiber]
                               /\ at'[x.fiber] = "io" /\ calls'[x.fiber] = x.n => due'[x.fiber] <= left + 2
           Was(x, left) == /\ x.op = "wake" => due[x.fiber] <= left + 2
                           /\ x.op = "timeout" =>
                                /\ x.n <= calls[x.fiber]
                                /\ at[x.fiber] = "io" /\ calls[x.fiber] = x.n => due[x.fiber] <= left + 2
           Cancelled == \A f \in Fiber : cancelled'[f] => at'[f] = "io" /\ due'[f] <= 2
           Goal == /\ \A x \in timers' : Ok(x, x.left) /\ x.left <= x.ms
                   /\ \A t \in Thread : \A c \in cbs'[t] : Ok(c, 0)
                   /\ \A i \in DOMAIN tasks' : Ok(tasks'[i], 0)
                   /\ \A t \in Thread : task'[t] # NoTask => Ok(task'[t], 0)
                   /\ Cancelled
           Old == /\ \A x \in timers : Ok(x, x.left)
                  /\ \A t \in Thread : \A c \in cbs[t] : Ok(c, 0)
                  /\ \A i \in DOMAIN tasks : Ok(tasks[i], 0)
                  /\ \A t \in Thread : task[t] # NoTask => Ok(task[t], 0)
           NoWake(f) == /\ \A x \in timers : x.fiber = f => x.op # "wake"
                        /\ \A t \in Thread : \A c \in cbs[t] : c.fiber = f => c.op # "wake"
                        /\ \A i \in DOMAIN tasks : tasks[i].fiber = f => tasks[i].op # "wake"
                        /\ \A t \in Thread : task[t].fiber = f => task[t].op # "wake"
<1>a. SUFFICES Goal
  BY DEF TimeInv, InTime, Current
<1>0. /\ \A x \in timers : Was(x, x.left) /\ x.left <= x.ms /\ x.fiber \in Fiber /\ x.n \in Nat /\ x.left \in Nat /\ x.ms \in Nat
      /\ \A t \in Thread : \A c \in cbs[t] : Was(c, 0) /\ c.fiber \in Fiber /\ c.n \in Nat
      /\ \A i \in DOMAIN tasks : Was(tasks[i], 0) /\ tasks[i].fiber \in Fiber /\ tasks[i].n \in Nat
      /\ \A t \in Thread : task[t] # NoTask => Was(task[t], 0) /\ task[t].fiber \in Fiber /\ task[t].n \in Nat
      /\ \A f \in Fiber : cancelled[f] => at[f] = "io" /\ due[f] <= 2
  <2>1. /\ \A x \in timers : x.fiber \in Fiber /\ x.n \in Nat /\ x.left \in Nat /\ x.ms \in Nat
        /\ \A t \in Thread : \A c \in cbs[t] : c.fiber \in Fiber /\ c.n \in Nat
        /\ \A i \in DOMAIN tasks : tasks[i].fiber \in Fiber /\ tasks[i].n \in Nat
        /\ \A t \in Thread : task[t] # NoTask => task[t].fiber \in Fiber /\ task[t].n \in Nat
    <3>1. \A x \in Item : x.fiber \in Fiber /\ x.n \in Nat
      BY DEF Item
    <3>2. \A x \in Timer : x.fiber \in Fiber /\ x.n \in Nat /\ x.left \in Nat /\ x.ms \in Nat
      BY DEF Timer
    <3>3. /\ timers \subseteq Timer /\ \A t \in Thread : cbs[t] \subseteq Item
          /\ \A t \in Thread : task[t] # NoTask => task[t] \in Item
      BY DEF TypeInv
    <3>4. \A i \in DOMAIN tasks : tasks[i] \in Item
      BY DEF TypeInv
    <3>q. QED
      BY <3>1, <3>2, <3>3, <3>4
  <2>q. QED
    BY <2>1 DEF TimeInv, InTime, Current
<1>t. /\ at \in [Fiber -> {"new", "queued", "timer", "sleep", "io", "user", "done"}]
      /\ calls \in [Fiber -> Nat] /\ due \in [Fiber -> Nat] /\ cancelled \in [Fiber -> BOOLEAN]
      /\ cbs \in [Thread -> SUBSET Item] /\ task \in [Thread -> Item \cup {NoTask}]
  BY DEF TypeInv
\* What was in time is so, if no fiber is moved, or one that nothing wakes.
<1>b. ASSUME UNCHANGED <<at, calls, due>>
      PROVE  Old
  BY <1>0, <1>b
<1>c. ASSUME NEW f \in Fiber, \A g \in Fiber \ {f} : at'[g] = at[g] /\ calls'[g] = calls[g] /\ due'[g] = due[g],
             calls'[f] \in Nat, calls[f] <= calls'[f], calls[f] < calls'[f] \/ at'[f] # "io",
             NoWake(f) \/ due' = due
      PROVE  Old
  <2>1. ASSUME NEW x, NEW left, Was(x, left), x.fiber \in Fiber, x.n \in Nat, (x.fiber = f => x.op # "wake") \/ due' = due
        PROVE  Ok(x, left)
    <3>1. calls[f] \in Nat
      BY <1>t
    <3>q. QED
      BY <1>c, <2>1, <3>1
  <2> HIDE DEF Ok, Was
  <2>q. QED
    BY <1>0, <1>c, <2>1
<1>d. ASSUME NEW f \in Fiber, ~Waiting(f) \/ OwnTimer(f) # {}
      PROVE  NoWake(f)
  <2>1. CASE ~Waiting(f)
    BY <2>1, NothingWakes
  <2>2. CASE OwnTimer(f) # {}
    <3>1. at[f] # "sleep"
      BY <2>2, OwnTimerFacts
    <3>q. QED
      BY <3>1 DEF FitInv, Fits
  <2>q. QED
    BY <1>d, <2>1, <2>2
\* Nobody was cancelled who is not in a call.
<1>e. ASSUME NEW f \in Fiber, at[f] # "io", cancelled' = cancelled,
             \A g \in Fiber \ {f} : at'[g] = at[g] /\ due'[g] = due[g]
      PROVE  Cancelled
  BY <1>0, <1>e
<1>f. ASSUME NEW x, x.op \notin {"wake", "timeout"}, NEW left
      PROVE  Ok(x, left)
  BY <1>f
<1>1. ASSUME NEW t \in Thread, Take(t)
      PROVE  Goal
  <2>1. PICK i \in DOMAIN tasks :
          /\ tasks' = Cut(tasks, i) /\ task' = [task EXCEPT ![t] = tasks[i]]
          /\ at' = IF tasks[i].op \in {"start", "resume"} /\ at[tasks[i].fiber] # "io"
                     THEN [at EXCEPT ![tasks[i].fiber] = "user"] ELSE at
    BY <1>1, TakeFacts
  <2>2. Free(t, "scan") /\ UNCHANGED <<cbs, timers, calls, due, cancelled>>
    BY <1>1 DEF Take
  <2>3. Old /\ Cancelled
    <3>1. CASE at' = at
      BY <1>b, <1>0, <2>2, <3>1
    <3>2. CASE at' # at
      <4> DEFINE f == tasks[i].fiber
      <4>1. tasks[i].op \in {"start", "resume"} /\ at[f] # "io" /\ at' = [at EXCEPT ![f] = "user"] /\ f \in Fiber
        BY <1>0, <2>1, <3>2
      <4>2. \A g \in Fiber \ {f} : at'[g] = at[g]
        BY <1>t, <4>1
      <4>3. at'[f] = "user" /\ calls[f] \in Nat
        BY <1>t, <4>1
      <4> HIDE DEF f, Old, Cancelled, NoWake
      <4>4. Old
        BY <1>c, <2>2, <4>1, <4>2, <4>3
      <4>5. Cancelled
        BY <1>e, <2>2, <4>1, <4>2
      <4>q. QED
        BY <4>4, <4>5
    <3>q. QED
      BY <3>1, <3>2
  <2> HIDE DEF Ok, Cancelled
  <2>4. \A k \in DOMAIN tasks' : Ok(tasks'[k], 0)
    BY <2>1, <2>3, QueueShrinks
  <2>q. QED
    BY <1>0, <1>t, <2>1, <2>2, <2>3, <2>4
<1>2. ASSUME NEW t \in Thread, EpollWait(t)
      PROVE  Goal
  <2> DEFINE C == {[op |-> x.op, fiber |-> x.fiber, n |-> x.n, thread |-> Any] : x \in Expired}
  <2>1. cbs' = [cbs EXCEPT ![t] = C] /\ timers' \subseteq timers /\ UNCHANGED <<task, tasks, at, calls, due, cancelled>>
    BY <1>2 DEF EpollWait
  <2>2. Old /\ Cancelled
    BY <1>0, <1>b, <2>1
  <2>3. \A c \in C : Ok(c, 0)
    <3>1. \A x \in Expired : Ok(x, 0)
      BY <2>2 DEF Expired
    <3>q. QED
      BY <3>1
  <2> HIDE DEF C, Ok, Cancelled
  <2>q. QED
    BY <1>0, <1>t, <2>1, <2>2, <2>3
<1>3. ASSUME NEW t \in Thread, ScheduleExpired(t)
      PROVE  Goal
  <2>1. PICK c \in cbs[t] :
          /\ <<c>> \in Seq(Item) /\ tasks' = tasks \o <<c>> /\ Len(<<c>>) = 1 /\ <<c>>[1] = c
          /\ cbs' = [cbs EXCEPT ![t] = @ \ {c}]
    BY <1>3, ScheduleExpiredFacts
  <2>2. UNCHANGED <<task, timers, at, calls, due, cancelled>>
    BY <1>3 DEF ScheduleExpired
  <2>3. Old /\ Cancelled
    BY <1>0, <1>b, <2>2
  <2> HIDE DEF Ok, Cancelled
  <2>4. \A k \in DOMAIN tasks' : Ok(tasks'[k], 0)
    BY <2>1, <2>3, QueueGrows
  <2>q. QED
    BY <1>0, <1>t, <2>1, <2>2, <2>3, <2>4
\* What is resumed is in time.
<1>g. ASSUME NEW more \in Seq(Item), \A k \in DOMAIN more : more[k].op \notin {"wake", "timeout"},
             tasks' = tasks \o more, Old
      PROVE  \A i \in DOMAIN tasks' : Ok(tasks'[i], 0)
  <2>1. \A k \in DOMAIN more : Ok(more[k], 0)
    BY <1>f, <1>g
  <2> HIDE DEF Ok
  <2>q. QED
    BY <1>g, <2>1, QueueGrows
<1>h. ASSUME NEW fd \in Fd, NEW E \in SUBSET Event, Triggers(fd, E) \/ tasks' = tasks, Old
      PROVE  \A i \in DOMAIN tasks' : Ok(tasks'[i], 0)
  <2> DEFINE q == Triggered(fd, E)
  <2>1. q \in Seq(Item) /\ \A k \in DOMAIN q : q[k].op = "resume"
    BY TriggeredFacts
  <2>2. tasks' = tasks \o q \/ tasks' = tasks
    BY <1>h DEF Triggers
  <2> HIDE DEF q, Ok
  <2>q. QED
    BY <1>g, <1>h, <2>1, <2>2
<1>4. ASSUME NEW t \in Thread, HandleEvent(t)
      PROVE  Goal
  <2>1. PICK r \in report[t] :
          /\ r.fd \in Fd /\ r.events \in SUBSET Event
          /\ Triggers(r.fd, r.events) \/ (tasks' = tasks /\ waiter' = waiter)
    BY <1>4, HandleEventFacts
  <2>2. UNCHANGED <<task, cbs, timers, at, calls, due, cancelled>>
    BY <1>4 DEF HandleEvent
  <2>3. Old /\ Cancelled
    BY <1>0, <1>b, <2>2
  <2> HIDE DEF Ok, Cancelled
  <2>4. \A i \in DOMAIN tasks' : Ok(tasks'[i], 0)
    BY <1>h, <2>1, <2>3
  <2>q. QED
    BY <1>0, <2>2, <2>3, <2>4
<1>5. ASSUME NEW t \in Thread, WakeSleeper(t)
      PROVE  Goal
  <2> DEFINE x == Task("resume", task[t].fiber, Any)
  <2>1. x.op = "resume" /\ <<x>> \in Seq(Item) /\ tasks' = tasks \o <<x>> /\ Len(<<x>>) = 1 /\ <<x>>[1] = x
    BY <1>5, WakeSleeperFacts
  <2>2. task' = [task EXCEPT ![t] = NoTask] /\ UNCHANGED <<cbs, timers, at, calls, cancelled>>
    BY <1>5 DEF WakeSleeper, EndTask
  <2>2a. \A g \in Fiber : due[g] \in Nat /\ due'[g] \in Nat /\ due'[g] <= due[g]
    <3>1. task[t].fiber \in Fiber /\ due' = [due EXCEPT ![task[t].fiber] = 0]
      BY <1>5, WakeSleeperFacts
    <3>q. QED
      BY <1>t, <3>1
  <2>3. Old /\ Cancelled
    <3>1. Old
      BY <1>0, <2>2, <2>2a
    <3>2. Cancelled
      BY <1>0, <2>2, <2>2a
    <3>q. QED
      BY <3>1, <3>2
  <2> HIDE DEF x, Ok, Cancelled
  <2>4. \A k \in DOMAIN <<x>> : <<x>>[k].op \notin {"wake", "timeout"}
    BY <2>1
  <2>5. \A i \in DOMAIN tasks' : Ok(tasks'[i], 0)
    BY <1>g, <2>1, <2>3, <2>4
  <2>q. QED
    BY <1>0, <1>t, <2>2, <2>3, <2>5
<1>6. ASSUME NEW t \in Thread, TimeOutCall(t)
      PROVE  Goal
  <2> DEFINE f == task[t].fiber
             c == call[f]
  <2>1. /\ task[t] # NoTask /\ task[t].op = "timeout" /\ f \in Fiber
        /\ cancelled' = [cancelled EXCEPT ![f] = @ \/ (at[f] = "io" /\ calls[f] = task[t].n /\ ~cancelled[f])]
        /\ \/ tasks' = tasks /\ waiter' = waiter
           \/ c.fd \in Fd /\ Triggers(c.fd, {c.event}) /\ {c.event} \in SUBSET Event
    BY <1>6, TimeOutCallFacts DEF NoTask
  <2>2. task' = [task EXCEPT ![t] = NoTask] /\ UNCHANGED <<cbs, timers, at, calls, due>>
    BY <1>6 DEF TimeOutCall, EndTask
  <2>3. Old
    BY <1>b, <2>2
  <2>4. Cancelled
    <3>1. at[f] = "io" /\ calls[f] = task[t].n => due[f] <= 2
      BY <1>0, <2>1
    <3>2. due[f] \in Nat
      BY <1>t, <2>1
    <3>q. QED
      BY <1>0, <1>t, <2>1, <2>2, <3>1, <3>2
  <2> HIDE DEF Ok, Cancelled, c, f
  <2>5. \A i \in DOMAIN tasks' : Ok(tasks'[i], 0)
    BY <1>h, <2>1, <2>3
  <2>q. QED
    BY <1>0, <1>t, <2>2, <2>3, <2>4, <2>5
<1>7. ASSUME NEW t \in Thread, NEW fd \in Fd, Close(t, fd)
      PROVE  Goal
  <2>1. /\ Registered(fd) \in SUBSET Event /\ Triggers(fd, Registered(fd))
        /\ UNCHANGED <<task, cbs, timers, at, calls, due, cancelled>>
    BY <1>7, CloseFacts
  <2>2. Old /\ Cancelled
    BY <1>0, <1>b, <2>1
  <2> HIDE DEF Ok, Cancelled
  <2>3. \A i \in DOMAIN tasks' : Ok(tasks'[i], 0)
    BY <1>h, <2>1, <2>2
  <2>q. QED
    BY <1>0, <2>1, <2>2, <2>3
\* A fiber that runs, or has not started, goes on; it may leave a timer.
<1>8. ASSUME NEW f \in Fiber, at[f] # "io", ~Waiting(f), cancelled' = cancelled,
             \A g \in Fiber \ {f} : at'[g] = at[g] /\ calls'[g] = calls[g] /\ due'[g] = due[g],
             calls'[f] \in Nat, calls[f] <= calls'[f], calls[f] < calls'[f] \/ at'[f] # "io"
      PROVE  Old /\ Cancelled
  <2>1. NoWake(f)
    BY <1>8, <1>d
  <2> HIDE DEF Old, Cancelled, NoWake
  <2>q. QED
    BY <1>c, <1>e, <1>8, <2>1
<1>9. ASSUME NEW t \in Thread, Finish(t)
      PROVE  Goal
  <2> DEFINE f == task[t].fiber
  <2>1. f \in Fiber /\ ~Waiting(f) /\ at[f] = "user"
    BY <1>9, RunsFacts, RunningFacts DEF Finish, InUser
  <2>2. /\ task' = [task EXCEPT ![t] = NoTask] /\ UNCHANGED <<cbs, timers, tasks, calls, due, cancelled>>
        /\ at' = [at EXCEPT ![f] = "done"]
    BY <1>9 DEF Finish, EndTask
  <2> HIDE DEF f
  <2>3. at'[f] = "done" /\ (\A g \in Fiber \ {f} : at'[g] = at[g]) /\ calls[f] \in Nat
    BY <1>t, <2>1, <2>2
  <2>4. Old /\ Cancelled
    <3> HIDE DEF Old, Cancelled
    <3>q. QED
      BY <1>8, <2>1, <2>2, <2>3
  <2> HIDE DEF Ok, Cancelled
  <2>q. QED
    BY <1>0, <1>t, <2>2, <2>4
<1>10. ASSUME NEW t \in Thread, NEW d \in Delay, Sleep(t, d)
       PROVE  Goal
  <2> DEFINE f == task[t].fiber
             tm == [op |-> "wake", fiber |-> f, n |-> calls[f] + 1, left |-> d, ms |-> d]
  <2>1. f \in Fiber /\ ~Waiting(f) /\ at[f] = "user"
    BY <1>10, MayWaitFacts, RunningFacts DEF Sleep
  <2>2. /\ timers' = timers \cup {tm} /\ UNCHANGED <<task, cbs, tasks, cancelled>> /\ d \in Nat
        /\ at' = [at EXCEPT ![f] = "sleep"] /\ calls' = [calls EXCEPT ![f] = @ + 1] /\ due' = [due EXCEPT ![f] = d + 2]
    BY <1>10, SleepFacts DEF Asked
  <2>3. /\ at'[f] = "sleep" /\ calls'[f] = calls[f] + 1 /\ due'[f] = d + 2 /\ calls[f] \in Nat
        /\ \A g \in Fiber \ {f} : at'[g] = at[g] /\ calls'[g] = calls[g] /\ due'[g] = due[g]
    BY <1>t, <2>1, <2>2
  <2>4. Ok(tm, tm.left) /\ tm.left <= tm.ms
    BY <2>1, <2>2, <2>3
  <2> HIDE DEF f, tm
  <2>5. Old /\ Cancelled
    <3> HIDE DEF Old, Cancelled
    <3>q. QED
      BY <1>8, <2>1, <2>2, <2>3
  <2> HIDE DEF Ok, Cancelled
  <2>q. QED
    BY <1>0, <2>2, <2>4, <2>5
<1>11. ASSUME NEW t \in Thread, NEW c \in Call, DoIo(t, c)
       PROVE  Goal
  <2> DEFINE f == task[t].fiber
             tm == [op |-> "timeout", fiber |-> f, n |-> calls[f] + 1, left |-> c.timeout, ms |-> c.timeout]
  <2>1. f \in Fiber /\ ~Waiting(f) /\ at[f] = "user"
    BY <1>11, MayWaitFacts, RunningFacts DEF DoIo
  <2>2. /\ c.timeout \in Nat /\ calls' = [calls EXCEPT ![f] = @ + 1]
        /\ \/ /\ at' = [at EXCEPT ![f] = "io"]
              /\ \/ timers' = timers \cup {tm} /\ due' = [due EXCEPT ![f] = c.timeout + 2]
                 \/ timers' = timers /\ due' = [due EXCEPT ![f] = 0]
           \/ UNCHANGED <<at, due, timers>>
        /\ UNCHANGED <<task, cbs, tasks, cancelled>>
    <3>1. /\ c.timeout \in Nat /\ calls' = [calls EXCEPT ![f] = @ + 1]
          /\ \/ at' = [at EXCEPT ![f] = "io"] /\ Blocked(t, f, c, calls[f] + 1, timers)
             \/ UNCHANGED <<at, due, timers>>
          /\ UNCHANGED <<task, cbs, tasks, cancelled>>
      BY <1>11, DoIoFacts
    <3>2. Blocked(t, f, c, calls[f] + 1, timers) =>
            \/ timers' = timers \cup {tm} /\ due' = [due EXCEPT ![f] = c.timeout + 2]
            \/ timers' = timers /\ due' = [due EXCEPT ![f] = 0]
      BY DEF Blocked, Asked
    <3> HIDE DEF f, tm
    <3>q. QED
      BY <3>1, <3>2
  <2>3. /\ calls'[f] = calls[f] + 1 /\ calls[f] \in Nat
        /\ \A g \in Fiber \ {f} : at'[g] = at[g] /\ calls'[g] = calls[g] /\ due'[g] = due[g]
    BY <1>t, <2>1, <2>2
  <2>4. timers' = timers \/ (timers' = timers \cup {tm} /\ Ok(tm, tm.left) /\ tm.left <= tm.ms)
    <3>1. CASE due' = [due EXCEPT ![f] = c.timeout + 2] /\ timers' = timers \cup {tm}
      <4>1. due'[f] = c.timeout + 2
        BY <1>t, <2>1, <3>1
      <4>q. QED
        BY <2>2, <2>3, <3>1, <4>1
    <3>q. QED
      BY <2>2, <3>1
  <2> HIDE DEF f, tm
  <2>5. Old /\ Cancelled
    <3> HIDE DEF Old, Cancelled
    <3>q. QED
      BY <1>8, <2>1, <2>2, <2>3
  <2> HIDE DEF Ok, Cancelled
  <2>q. QED
    BY <1>0, <2>2, <2>4, <2>5
<1>12. ASSUME NEW t \in Thread, ResumeIo(t)
       PROVE  Goal
  <2> DEFINE f == task[t].fiber
             c == call[f]
             others == {x \in timers : ~(x.op = "timeout" /\ x.fiber = f)}
             tm == [op |-> "timeout", fiber |-> f, n |-> calls[f], left |-> c.timeout, ms |-> c.timeout]
  <2>1. /\ t \in pool /\ pc[t] = "run" /\ OneThread /\ task[t].op = "resume" /\ f \in Fiber /\ ~Waiting(f)
        /\ c.timeout \in Nat /\ cancelled' = [cancelled EXCEPT ![f] = FALSE]
    BY <1>12, ResumeIoFacts, RunningFacts
  <2>2. /\ UNCHANGED <<task, cbs, tasks, calls>>
        /\ \/ /\ at' = at
              /\ \/ timers' = others \cup {tm} /\ due' = [due EXCEPT ![f] = c.timeout + 2]
                 \/ timers' = others /\ due' = [due EXCEPT ![f] = 0]
           \/ at' = [at EXCEPT ![f] = "user"] /\ timers' = others /\ due' = [due EXCEPT ![f] = 0]
    BY <1>12, ResumeIoFacts DEF Blocked, Asked
  <2>3. /\ \A u \in Thread : cbs[u] = {}
        /\ \A u \in Thread : task[u] # NoTask => task[u].op = "resume"
        /\ \A i \in DOMAIN tasks : tasks[i].op # "timeout"
    BY <2>1, Alone DEF ThreadInv, OrderInv
  <2>4. \A x \in others : x.fiber = f => x.op # "timeout" /\ x.op # "wake"
    BY <2>1, NothingWakes
  <2>5. \A i \in DOMAIN tasks : tasks[i].fiber = f => tasks[i].op # "wake"
    BY <2>1, NothingWakes
  <2>6. \A g \in Fiber \ {f} : at'[g] = at[g] /\ calls'[g] = calls[g] /\ due'[g] = due[g] /\ cancelled'[g] = cancelled[g]
    BY <1>t, <2>1, <2>2
  <2>7. ~cancelled'[f]
    BY <1>t, <2>1
  <2>8. Cancelled
    BY <1>0, <2>6, <2>7
  <2>9. timers' = others \/ (timers' = others \cup {tm} /\ Ok(tm, tm.left) /\ tm.left <= tm.ms)
    <3>1. CASE due' = [due EXCEPT ![f] = c.timeout + 2] /\ timers' = others \cup {tm}
      <4>1. due'[f] = c.timeout + 2 /\ calls'[f] = calls[f] /\ calls[f] \in Nat
        BY <1>t, <2>1, <2>2, <3>1
      <4>q. QED
        BY <2>1, <2>2, <3>1, <4>1
    <3>q. QED
      BY <2>2, <3>1
  <2>10. others \subseteq timers
    OBVIOUS
  <2> HIDE DEF f, c, others, tm
  <2>11. \A x \in others : Ok(x, x.left)
    BY <1>0, <2>4, <2>6, <2>10
  <2>12. \A i \in DOMAIN tasks : Ok(tasks[i], 0)
    BY <1>0, <2>3, <2>5, <2>6
  <2>13. \A u \in Thread : task[u] # NoTask => Ok(task[u], 0)
    BY <2>3
  <2>14. \A u \in Thread : cbs'[u] = {}
    BY <2>2, <2>3
  <2> HIDE DEF Ok, Cancelled
  <2>q. QED
    BY <1>0, <2>2, <2>8, <2>9, <2>10, <2>11, <2>12, <2>13, <2>14
<1>13. ASSUME NEW f \in Fiber, NEW th \in Thread \cup {Any}, MainSchedule(f, th)
       PROVE  Goal
  <2> DEFINE x == Task("start", f, th)
  <2>1. /\ at[f] = "new" /\ x.op = "start" /\ <<x>> \in Seq(Item) /\ tasks' = tasks \o <<x>> /\ Len(<<x>>) = 1 /\ <<x>>[1] = x
        /\ at' = [at EXCEPT ![f] = "queued"] /\ UNCHANGED <<task, cbs, timers, calls, due, cancelled>>
    BY <1>13, MainScheduleFacts
  <2> HIDE DEF x
  <2>2. ~Waiting(f) /\ at'[f] = "queued" /\ (\A g \in Fiber \ {f} : at'[g] = at[g]) /\ calls[f] \in Nat
    BY <1>t, <2>1 DEF Waiting
  <2>3. Old /\ Cancelled
    <3> HIDE DEF Old, Cancelled
    <3>q. QED
      BY <1>8, <2>1, <2>2
  <2> HIDE DEF Ok, Cancelled
  <2>4. \A k \in DOMAIN <<x>> : <<x>>[k].op \notin {"wake", "timeout"}
    BY <2>1
  <2>5. \A i \in DOMAIN tasks' : Ok(tasks'[i], 0)
    BY <1>g, <2>1, <2>3, <2>4
  <2>q. QED
    BY <1>0, <2>1, <2>3, <2>5
<1>14. ASSUME NEW f \in Fiber, NEW d \in Delay, MainAddTimer(f, d)
       PROVE  Goal
  <2> DEFINE tm == [op |-> "start", fiber |-> f, n |-> 0, left |-> d, ms |-> d]
  <2>1. /\ timers' = timers \cup {tm} /\ at[f] = "new" /\ at' = [at EXCEPT ![f] = "timer"]
        /\ UNCHANGED <<task, cbs, tasks, calls, due, cancelled>>
    BY <1>14 DEF MainAddTimer, AddTimer
  <2>2. ~Waiting(f) /\ at'[f] = "timer" /\ (\A g \in Fiber \ {f} : at'[g] = at[g]) /\ calls[f] \in Nat
    BY <1>t, <2>1 DEF Waiting
  <2>3. Ok(tm, tm.left) /\ tm.left <= tm.ms
    BY DelayType
  <2> HIDE DEF tm
  <2>4. Old /\ Cancelled
    <3> HIDE DEF Old, Cancelled
    <3>q. QED
      BY <1>8, <2>1, <2>2
  <2> HIDE DEF Ok, Cancelled
  <2>q. QED
    BY <1>0, <2>1, <2>3, <2>4
\* A timer of the main thread is cancelled or moved.
<1>15. ASSUME NEW f \in Fiber, OwnTimer(f) # {}, cancelled' = cancelled,
              \A g \in Fiber \ {f} : at'[g] = at[g] /\ calls'[g] = calls[g], at'[f] # "io", due' = due,
              calls'[f] \in Nat, calls[f] <= calls'[f]
       PROVE  Old /\ Cancelled
  <2>1. at[f] # "io"
    BY <1>15, OwnTimerFacts
  <2> HIDE DEF Old, Cancelled, NoWake
  <2>q. QED
    BY <1>c, <1>e, <1>15, <2>1
<1>16. ASSUME NEW f \in Fiber, CancelTimer(f)
       PROVE  Goal
  <2>1. /\ timers' \subseteq timers /\ OwnTimer(f) # {} /\ at' = [at EXCEPT ![f] = "done"]
        /\ UNCHANGED <<task, cbs, tasks, calls, due, cancelled>>
    BY <1>16 DEF CancelTimer
  <2>2. at'[f] = "done" /\ (\A g \in Fiber \ {f} : at'[g] = at[g]) /\ calls[f] \in Nat
    BY <1>t, <2>1
  <2>3. Old /\ Cancelled
    <3> HIDE DEF Old, Cancelled
    <3>q. QED
      BY <1>15, <2>1, <2>2
  <2> HIDE DEF Ok, Cancelled
  <2>q. QED
    BY <1>0, <2>1, <2>3
<1>17. ASSUME NEW f \in Fiber, OwnTimer(f) # {}, NEW x \in timers, NEW y \in Timer, y.op = "start", y.left <= y.ms,
              timers' = (timers \ {x}) \cup {y}, calls' = [calls EXCEPT ![f] = @ + 1],
              UNCHANGED <<task, cbs, tasks, at, due, cancelled>>
       PROVE  Goal
  <2>1. /\ calls[f] \in Nat /\ calls'[f] = calls[f] + 1 /\ \A g \in Fiber \ {f} : calls'[g] = calls[g]
    BY <1>t, <1>17
  <2>2. at[f] # "io"
    BY <1>17, OwnTimerFacts
  <2>3. Old /\ Cancelled
    <3> HIDE DEF Old, Cancelled
    <3>q. QED
      BY <1>15, <1>17, <2>1, <2>2
  <2>4. Ok(y, y.left)
    BY <1>17
  <2> HIDE DEF Ok, Cancelled
  <2>q. QED
    BY <1>0, <1>17, <2>3, <2>4
<1>18. ASSUME NEW f \in Fiber, NEW d \in Delay, ResetTimer(f, d)
       PROVE  Goal
  <2>1. PICK x \in timers, y \in Timer :
          /\ x \in OwnTimer(f) /\ y.op = "start" /\ y.left = d /\ y.ms = d /\ d \in Nat
          /\ timers' = (timers \ {x}) \cup {y}
    BY <1>18, ResetTimerFacts
  <2>2. calls' = [calls EXCEPT ![f] = @ + 1] /\ UNCHANGED <<task, cbs, tasks, at, due, cancelled>>
    BY <1>18 DEF ResetTimer
  <2>3. OwnTimer(f) # {} /\ y.left <= y.ms
    BY <2>1
  <2> HIDE DEF Goal
  <2>q. QED
    BY <1>17, <2>1, <2>2, <2>3
<1>19. ASSUME NEW f \in Fiber, RefreshTimer(f)
       PROVE  Goal
  <2>1. PICK x \in timers, y \in Timer :
          /\ x \in OwnTimer(f) /\ y.op = "start" /\ y.left = x.ms /\ y.ms = x.ms
          /\ timers' = (timers \ {x}) \cup {y}
    BY <1>19, RefreshTimerFacts
  <2>2. calls' = [calls EXCEPT ![f] = @ + 1] /\ UNCHANGED <<task, cbs, tasks, at, due, cancelled>>
    BY <1>19 DEF RefreshTimer
  <2>3. y.left <= y.ms
    BY <2>1, <1>0
  <2> HIDE DEF Goal
  <2>q. QED
    BY <1>17, <2>1, <2>2, <2>3
<1>20. ASSUME Tick
       PROVE  Goal
  <2>1. due' = [g \in Fiber |-> Less(due[g])] /\ UNCHANGED <<task, cbs, tasks, at, calls, cancelled>>
    BY <1>20 DEF Tick
  <2>2. /\ \A k \in Nat : Less(k) \in Nat /\ Less(k) <= k
        /\ \A k, l \in Nat : k <= l + 2 => Less(k) <= Less(l) + 2
    BY <1>20, TickFacts DEF Less
  <2>3. \A y \in timers' : \E x \in timers :
          y.op = x.op /\ y.fiber = x.fiber /\ y.n = x.n /\ y.ms = x.ms /\ y.left = Less(x.left)
    BY <1>20, TickFacts
  <2>4. ASSUME NEW x, NEW left \in Nat, Was(x, left), x.fiber \in Fiber
        PROVE  Ok(x, Less(left))
    <3>1. due[x.fiber] \in Nat /\ due'[x.fiber] = Less(due[x.fiber])
      BY <1>t, <2>1, <2>4
    <3>q. QED
      BY <2>1, <2>2, <2>4, <3>1
  <2>5. Less(0) = 0
    BY DEF Less
  <2>6. Cancelled
    <3>1. \A f \in Fiber : due'[f] = Less(due[f])
      BY <2>1
    <3>q. QED
      BY <1>0, <1>t, <2>1, <2>2, <3>1
  <2>7. \A y \in timers' : Ok(y, y.left) /\ y.left <= y.ms
    <3>1. ASSUME NEW y \in timers'
          PROVE  Ok(y, y.left) /\ y.left <= y.ms
      <4>1. PICK x \in timers : y.op = x.op /\ y.fiber = x.fiber /\ y.n = x.n /\ y.ms = x.ms /\ y.left = Less(x.left)
        BY <2>3
      <4>2. Ok(x, Less(x.left))
        BY <1>0, <2>4
      <4>3. Less(x.left) \in Nat /\ Less(x.left) <= x.left /\ x.left \in Nat /\ x.ms \in Nat /\ x.left <= x.ms
        BY <1>0, <2>2
      <4>q. QED
        BY <4>1, <4>2, <4>3
    <3>q. QED
      BY <3>1
  <2>8. 0 \in Nat
    OBVIOUS
  <2> HIDE DEF Ok, Was, Cancelled
  <2>9. /\ \A t \in Thread : \A c \in cbs[t] : Ok(c, 0)
        /\ \A i \in DOMAIN tasks : Ok(tasks[i], 0)
        /\ \A t \in Thread : task[t] # NoTask => Ok(task[t], 0)
    BY <1>0, <2>4, <2>5, <2>8
  <2>q. QED
    BY <2>1, <2>6, <2>7, <2>9
<1>21. ASSUME \/ \E t \in Thread \cup {Main} : Tickle(t)
              \/ \E t \in Thread : DrainPipe(t) \/ FindNothing(t) \/ EnterIdle(t) \/ Ask(t) \/ LeaveIdle(t)
              \/ Stop
              \/ \E fd \in Fd, e \in Event : Arrive(fd, e)
       PROVE  UNCHANGED <<task, cbs, tasks, at, timers, calls, due, cancelled>>
  BY <1>21, AskFacts DEF Tickle, DrainPipe, FindNothing, EnterIdle, LeaveIdle, Stop, Arrive
<1>22. ASSUME NEW t \in Thread, Yield(t)
       PROVE  Goal
  <2>1. task' = [task EXCEPT ![t] = NoTask] /\ UNCHANGED <<cbs, timers, tasks, at, calls, due, cancelled>>
    BY <1>22 DEF Yield, EndTask
  <2>2. Old /\ Cancelled
    BY <1>0, <1>b, <2>1
  <2> HIDE DEF Ok, Cancelled
  <2>q. QED
    BY <1>0, <1>t, <2>1, <2>2
<1>23. ASSUME UNCHANGED <<task, cbs, tasks, at, timers, calls, due, cancelled>>
       PROVE  Goal
  BY <1>0, <1>b, <1>23
<1>24. pool \subseteq Thread /\ Timed \subseteq Fiber
  BY PoolFacts, IOAssumption DEF TypeInv
<1> HIDE DEF Goal, threadVars, schedVars, timerVars, fdVars, fiberVars
<1>25. Goal
  BY <1>1, <1>2, <1>3, <1>4, <1>5, <1>6, <1>7, <1>9, <1>10, <1>11, <1>12, <1>13, <1>14, <1>16, <1>18, <1>19,
     <1>20, <1>21, <1>22, <1>23, <1>24 DEF Next, ThreadStep, MainStep, Ask
<1>q. QED
  BY <1>25 DEF Goal

-----------------------------------------------------------------------------
(* What wakes a fiber *)

Like(X, Y) == (X = {} <=> Y = {}) /\ (Lone(X) => Lone(Y))
Sole(X, A, B, C, D) == X # {} /\ Lone(X) /\ A = {} /\ B = {} /\ C = {} /\ D = {}

\* A fiber is woken as before, by one thing now, or by nothing now.
LEMMA WakeStays ==
  ASSUME NEW g \in Fiber, WakeOf(g), Waiting(g)' <=> Waiting(g),
         Like(TimerWakes(g), TimerWakes(g)'), Like(ListWakes(g), ListWakes(g)'), Like(QueueWakes(g), QueueWakes(g)'),
         Like(EventWakes(g), EventWakes(g)'), Like(RunWakes(g), RunWakes(g)')
  PROVE  WakeOf(g)'
BY DEF WakeOf, Like, Lone

LEMMA WakeNow ==
  ASSUME NEW g \in Fiber, Waiting(g)',
         \/ Sole(TimerWakes(g)', ListWakes(g)', QueueWakes(g)', EventWakes(g)', RunWakes(g)')
         \/ Sole(ListWakes(g)', TimerWakes(g)', QueueWakes(g)', EventWakes(g)', RunWakes(g)')
         \/ Sole(QueueWakes(g)', TimerWakes(g)', ListWakes(g)', EventWakes(g)', RunWakes(g)')
         \/ Sole(EventWakes(g)', TimerWakes(g)', ListWakes(g)', QueueWakes(g)', RunWakes(g)')
         \/ Sole(RunWakes(g)', TimerWakes(g)', ListWakes(g)', QueueWakes(g)', EventWakes(g)')
  PROVE  WakeOf(g)'
BY DEF WakeOf, Sole, Lone

LEMMA WakeNone ==
  ASSUME NEW g \in Fiber, ~Waiting(g)', TimerWakes(g)' = {}, ListWakes(g)' = {}, QueueWakes(g)' = {},
         EventWakes(g)' = {}, RunWakes(g)' = {}
  PROVE  WakeOf(g)'
BY DEF WakeOf, Lone

\* What wakes a fiber depends on where it may be.
LEMMA WakesSame ==
  ASSUME NEW g \in Fiber
  PROVE  /\ timers' = timers => TimerWakes(g)' = TimerWakes(g)
         /\ cbs' = cbs => ListWakes(g)' = ListWakes(g)
         /\ tasks' = tasks => QueueWakes(g)' = QueueWakes(g)
         /\ waiter' = waiter => EventWakes(g)' = EventWakes(g)
         /\ task' = task => RunWakes(g)' = RunWakes(g)
         /\ \A X : Like(X, X)
BY DEF TimerWakes, ListWakes, QueueWakes, EventWakes, RunWakes, Like, Lone

LEMMA WaitingSame ==
  ASSUME NEW g \in Fiber, at'[g] = at[g],
         \A u \in Thread : pc'[u] = "run" /\ task'[u].fiber = g /\ task'[u].op \in {"start", "resume"}
                       <=> pc[u] = "run" /\ On(u, g)
  PROVE  Waiting(g)' <=> Waiting(g)
BY DEF Waiting, Resumed, On

\* A task more wakes its fiber.
LEMMA QueueOne ==
  ASSUME TypeInv, NEW x \in Item, tasks' = tasks \o <<x>>, NEW g \in Fiber
  PROVE  QueueWakes(g)' = IF x.fiber = g /\ Wakeful(x) THEN QueueWakes(g) \cup {Len(tasks) + 1} ELSE QueueWakes(g)
<1>1. tasks \in Seq(Item)
  BY DEF TypeInv
<1>2. <<x>> \in Seq(Item) /\ Len(<<x>>) = 1 /\ <<x>>[1] = x
  OBVIOUS
<1>3. /\ DOMAIN tasks' = 1 .. Len(tasks) + 1 /\ DOMAIN tasks = 1 .. Len(tasks) /\ Len(tasks) \in Nat
      /\ \A i \in 1 .. Len(tasks) : tasks'[i] = tasks[i]
      /\ tasks'[Len(tasks) + 1] = x
  <2> DEFINE q == <<x>>
  <2> HIDE DEF q
  <2>1. q \in Seq(Item) /\ Len(q) = 1 /\ q[1] = x /\ tasks' = tasks \o q
    BY <1>2 DEF q
  <2>2. /\ tasks' \in Seq(Item) /\ Len(tasks') = Len(tasks) + 1
        /\ \A i \in 1 .. Len(tasks) + 1 : tasks'[i] = IF i <= Len(tasks) THEN tasks[i] ELSE q[i - Len(tasks)]
    BY <1>1, <2>1, ConcatProperties
  <2>q. QED
    BY <1>1, <2>1, <2>2
<1>4. QueueWakes(g)' = {i \in DOMAIN tasks' : tasks'[i].fiber = g /\ Wakeful(tasks'[i])}
  BY DEF QueueWakes, Wakeful
<1>5. \A i : i \in 1 .. Len(tasks) + 1 <=> i \in 1 .. Len(tasks) \/ i = Len(tasks) + 1
  BY <1>3
<1>q. QED
  BY <1>3, <1>4, <1>5 DEF QueueWakes

\* A task less wakes no more.
LEMMA QueueCut ==
  ASSUME TypeInv, NEW i \in DOMAIN tasks, tasks' = Cut(tasks, i), NEW g \in Fiber
  PROVE  /\ QueueWakes(g)' = {} <=> QueueWakes(g) \subseteq {i}
         /\ Lone(QueueWakes(g)) => Lone(QueueWakes(g)')
<1> DEFINE old(k) == IF k < i THEN k ELSE k + 1
<1>1. /\ \A k \in DOMAIN tasks' : old(k) \in DOMAIN tasks \ {i} /\ tasks'[k] = tasks[old(k)]
      /\ \A j \in DOMAIN tasks \ {i} : \E k \in DOMAIN tasks' : tasks'[k] = tasks[j]
      /\ DOMAIN tasks \subseteq Nat /\ DOMAIN tasks' \subseteq Nat
  BY QueueShrinks
<1>2. \A k, l \in Nat : old(k) = old(l) => k = l
  BY <1>1
<1>3. QueueWakes(g)' = {k \in DOMAIN tasks' : tasks'[k].fiber = g /\ Wakeful(tasks'[k])}
  BY DEF QueueWakes, Wakeful
<1> HIDE DEF old
<1>4. \A k \in QueueWakes(g)' : old(k) \in QueueWakes(g) /\ old(k) # i /\ k \in Nat
  BY <1>1, <1>3 DEF QueueWakes
<1>5. \A j \in QueueWakes(g) : j # i => QueueWakes(g)' # {}
  BY <1>1, <1>3 DEF QueueWakes
<1>q. QED
  BY <1>2, <1>4, <1>5 DEF Lone

\* An event that is triggered gives its fiber a task instead.
LEMMA QueueTriggers ==
  ASSUME TypeInv, WakeInv, NEW fd \in Fd, NEW E \in SUBSET Event, Triggers(fd, E), NEW g \in Fiber
  PROVE  \/ EventWakes(g)' = EventWakes(g) /\ QueueWakes(g)' = QueueWakes(g)
         \/ EventWakes(g) # {} /\ EventWakes(g)' = {} /\ QueueWakes(g)' # {} /\ Lone(QueueWakes(g)')
<1> DEFINE q == Triggered(fd, E)
<1>0. /\ tasks \in Seq(Item) /\ waiter \in [Fd -> [Event -> Fiber \cup {None}]] /\ None \notin Fiber
      /\ "READ" \in Event /\ "WRITE" \in Event
  BY IOAssumption DEF TypeInv, Event
<1>1. waiter[fd]["READ"] # waiter[fd]["WRITE"] \/ waiter[fd]["READ"] = None
  <2>1. SUFFICES ASSUME waiter[fd]["READ"] \in Fiber, waiter[fd]["READ"] = waiter[fd]["WRITE"] PROVE FALSE
    BY <1>0
  <2> DEFINE h == waiter[fd]["READ"]
  <2>2. <<fd, "READ">> \in EventWakes(h) /\ <<fd, "WRITE">> \in EventWakes(h)
    BY <1>0, <2>1 DEF EventWakes
  <2>3. Lone(EventWakes(h))
    BY <2>1, WakeUnfold DEF WakeOf
  <2> HIDE DEF h
  <2>4. <<fd, "READ">> = <<fd, "WRITE">>
    BY <2>2, <2>3 DEF Lone
  <2>q. QED
    BY <2>4
<1>2. /\ q \in Seq(Item)
      /\ \A i \in DOMAIN q : q[i].op = "resume" /\ \E e \in E : waiter[fd][e] = q[i].fiber
      /\ \A e \in E : waiter[fd][e] # None => \E i \in DOMAIN q : q[i].fiber = waiter[fd][e]
      /\ \A i, j \in DOMAIN q : q[i].fiber = q[j].fiber => i = j
  BY <1>1, TriggeredFacts
<1>3. tasks' = tasks \o q
  BY DEF Triggers
<1> HIDE DEF q
<1>4. /\ \A i \in DOMAIN tasks : i \in DOMAIN tasks' /\ tasks'[i] = tasks[i]
      /\ \A i \in DOMAIN tasks' : i \in DOMAIN tasks \/ (i - Len(tasks) \in DOMAIN q /\ tasks'[i] = q[i - Len(tasks)])
      /\ \A k \in DOMAIN q : Len(tasks) + k \in DOMAIN tasks' /\ tasks'[Len(tasks) + k] = q[k]
      /\ DOMAIN tasks' \subseteq Nat /\ Len(tasks) \in Nat
  BY <1>2, <1>3, QueueGrows
<1>5. QueueWakes(g)' = {i \in DOMAIN tasks' : tasks'[i].fiber = g /\ Wakeful(tasks'[i])}
  BY DEF QueueWakes, Wakeful
<1>6. EventWakes(g)' = {x \in Fd \X Event : waiter'[x[1]][x[2]] = g}
  BY DEF EventWakes
<1>7. \A d \in Fd, e \in Event : waiter'[d][e] = IF d = fd /\ e \in E THEN None ELSE waiter[d][e]
  BY <1>0 DEF Triggers
<1>8. \A x \in Fd \X Event : x[1] \in Fd /\ x[2] \in Event /\ x = <<x[1], x[2]>>
  OBVIOUS
<1>9. CASE \A e \in E : waiter[fd][e] # g
  <2>1. \A k \in DOMAIN q : q[k].fiber # g
    BY <1>2, <1>9
  <2>2. QueueWakes(g)' = QueueWakes(g)
    <3>1. \A i \in QueueWakes(g)' : i \in QueueWakes(g)
      BY <1>4, <1>5, <2>1 DEF QueueWakes
    <3>2. \A i \in QueueWakes(g) : i \in QueueWakes(g)'
      BY <1>4, <1>5 DEF QueueWakes
    <3>q. QED
      BY <3>1, <3>2
  <2>3. \A x \in Fd \X Event : waiter'[x[1]][x[2]] = g <=> waiter[x[1]][x[2]] = g
    BY <1>0, <1>7, <1>8, <1>9
  <2>4. EventWakes(g)' = EventWakes(g)
    BY <1>6, <2>3 DEF EventWakes
  <2>q. QED
    BY <2>2, <2>4
<1>10. ASSUME NEW e \in E, waiter[fd][e] = g
       PROVE  EventWakes(g) # {} /\ EventWakes(g)' = {} /\ QueueWakes(g)' # {} /\ Lone(QueueWakes(g)')
  <2>1. <<fd, e>> \in EventWakes(g)
    BY <1>0, <1>10 DEF EventWakes
  <2>2. Lone(EventWakes(g)) /\ QueueWakes(g) = {}
    BY <2>1, WakeUnfold DEF WakeOf
  <2>3. ASSUME NEW x \in EventWakes(g)'
        PROVE  FALSE
    <3>1. x \in Fd \X Event /\ waiter'[x[1]][x[2]] = g
      BY <1>6
    <3>2. waiter[x[1]][x[2]] = g /\ ~(x[1] = fd /\ x[2] \in E)
      BY <1>0, <1>7, <1>8, <3>1
    <3>3. x \in EventWakes(g)
      BY <3>1, <3>2 DEF EventWakes
    <3>4. x = <<fd, e>>
      BY <2>1, <2>2, <3>3 DEF Lone
    <3>q. QED
      BY <3>2, <3>4
  <2>4. PICK k \in DOMAIN q : q[k].fiber = g
    BY <1>0, <1>2, <1>10
  <2>5. Len(tasks) + k \in QueueWakes(g)'
    BY <1>2, <1>4, <1>5, <2>4 DEF Wakeful
  <2>6. \A i \in QueueWakes(g)' : i - Len(tasks) \in DOMAIN q /\ q[i - Len(tasks)].fiber = g /\ i \in Nat
    <3>1. ASSUME NEW i \in QueueWakes(g)'
          PROVE  i \notin DOMAIN tasks
      <4>1. i \in DOMAIN tasks => i \in QueueWakes(g)
        BY <1>4, <1>5 DEF QueueWakes
      <4>q. QED
        BY <2>2, <4>1
    <3>q. QED
      BY <1>4, <1>5, <3>1
  <2>7. Lone(QueueWakes(g)')
    <3>1. SUFFICES ASSUME NEW i \in QueueWakes(g)', NEW j \in QueueWakes(g)' PROVE i = j
      BY DEF Lone
    <3>2. i - Len(tasks) = j - Len(tasks) /\ i \in Nat /\ j \in Nat
      BY <1>2, <2>6
    <3>q. QED
      BY <1>4, <3>2
  <2>q. QED
    BY <2>1, <2>3, <2>5, <2>7
<1>q. QED
  BY <1>9, <1>10

LEMMA WakeKept ==
  ASSUME TypeInv, ThreadInv, OneThreadInv, CallInv, WakeInv, FitInv, StateInv, Next
  PROVE  WakeInv'
<1> USE DEF threadVars, schedVars, timerVars, fdVars, fiberVars
<1>w. \A g \in Fiber : WakeOf(g)
  BY WakeUnfold
<1>s. \A X : Like(X, X)
  BY DEF Like
<1>t. /\ at \in [Fiber -> {"new", "queued", "timer", "sleep", "io", "user", "done"}]
      /\ pc \in [Thread -> {"scan", "run", "yield", "enter", "ask", "pending", "stopping", "wait", "handle", "exited"}]
      /\ cbs \in [Thread -> SUBSET Item] /\ task \in [Thread -> Item \cup {NoTask}]
      /\ waiter \in [Fd -> [Event -> Fiber \cup {None}]] /\ timers \subseteq Timer
      /\ None \notin Fiber /\ NoTask.op = "none"
  BY IOAssumption DEF TypeInv, NoTask
<1>u. SUFFICES \A g \in Fiber : WakeOf(g)'
  BY WakeFold
<1> DEFINE Goal == \A g \in Fiber : WakeOf(g)'
           Runs2(x, g) == x.fiber = g /\ x.op \in {"start", "resume"}
\* A thread that is not seen to run a fiber, before or after.
<1>a. ASSUME NEW t \in Thread, NEW w, pc' = [pc EXCEPT ![t] = w] \/ pc' = pc, at' = at,
             task' = task \/ \E x : task' = [task EXCEPT ![t] = x],
             \A g \in Fiber : ~(pc[t] = "run" /\ Runs2(task[t], g)) /\ ~(pc'[t] = "run" /\ Runs2(task'[t], g))
      PROVE  \A g \in Fiber : Waiting(g)' <=> Waiting(g)
  <2>1. \A u \in Thread \ {t} : pc'[u] = pc[u] /\ task'[u] = task[u]
    BY <1>a, <1>t
  <2>q. QED
    BY <1>a, <2>1, WaitingSame DEF On
<1>b. ASSUME UNCHANGED <<timers, cbs, tasks, waiter, task, at, pc>>
      PROVE  Goal
  <2>1. ASSUME NEW g \in Fiber PROVE WakeOf(g)'
    <3>1. Waiting(g)' <=> Waiting(g)
      BY <1>b, WaitingSame DEF On
    <3>q. QED
      BY <1>b, <1>w, <1>s, <3>1, WakesSame, WakeStays
  <2>q. QED
    BY <2>1
<1>c. ASSUME UNCHANGED <<timers, cbs, tasks, waiter, task>>, \A g \in Fiber : Waiting(g)' <=> Waiting(g)
      PROVE  Goal
  <2>1. ASSUME NEW g \in Fiber PROVE WakeOf(g)'
    BY <1>c, <1>w, <1>s, WakesSame, WakeStays
  <2>q. QED
    BY <2>1
\* What tasks a thread's own task was.
<1>d. ASSUME NEW t \in Thread, NEW x, task' = [task EXCEPT ![t] = x], NEW g \in Fiber
      PROVE  /\ task[t].op # "wake" /\ x.op # "wake" => RunWakes(g)' = RunWakes(g)
             /\ task[t].fiber # g /\ x.op # "wake" => RunWakes(g)' = RunWakes(g)
             /\ task[t].op # "wake" /\ x.fiber # g => RunWakes(g)' = RunWakes(g)
             /\ x.op # "wake" => t \notin RunWakes(g)' /\ RunWakes(g)' \subseteq RunWakes(g)
             /\ x.op = "wake" /\ x.fiber = g => RunWakes(g)' = RunWakes(g) \cup {t}
  <2>1. task'[t] = x /\ \A u \in Thread \ {t} : task'[u] = task[u]
    BY <1>d, <1>t
  <2>2. RunWakes(g)' = {u \in Thread : task'[u].fiber = g /\ task'[u].op = "wake"}
    BY DEF RunWakes
  <2>q. QED
    BY <2>1, <2>2 DEF RunWakes
<1>e. NoTask.op # "wake" /\ \A g \in Fiber : ~Runs2(NoTask, g)
  BY <1>t
<1>1. ASSUME NEW t \in Thread, Take(t)
      PROVE  Goal
  <2>1. PICK i \in DOMAIN tasks :
          /\ tasks[i] \in Item /\ tasks' = Cut(tasks, i) /\ task' = [task EXCEPT ![t] = tasks[i]]
          /\ at' = IF tasks[i].op \in {"start", "resume"} /\ at[tasks[i].fiber] # "io"
                     THEN [at EXCEPT ![tasks[i].fiber] = "user"] ELSE at
    BY <1>1, TakeFacts
  <2>2. Free(t, "scan") /\ pc[t] = "scan" /\ pc' = [pc EXCEPT ![t] = "run"] /\ UNCHANGED <<cbs, timers, waiter>>
    BY <1>1 DEF Take, Free
  <2>r. PICK x \in Item : x = tasks[i]
    BY <2>1
  <2>f. PICK f \in Fiber : f = x.fiber
    BY DEF Item
  <2>3. f = tasks[i].fiber /\ f \in Fiber /\ task[t] = NoTask /\ x.op \in Op
    BY <2>1, <2>2, <2>r, <2>f DEF ThreadInv, Item
  <2>4. ASSUME NEW g \in Fiber
        PROVE  /\ TimerWakes(g)' = TimerWakes(g) /\ ListWakes(g)' = ListWakes(g) /\ EventWakes(g)' = EventWakes(g)
               /\ QueueWakes(g)' = {} <=> QueueWakes(g) \subseteq {i}
               /\ Lone(QueueWakes(g)) => Lone(QueueWakes(g)')
    BY <2>1, <2>2, WakesSame, QueueCut
  <2>5. /\ pc'[t] = "run" /\ task'[t] = x
        /\ \A u \in Thread \ {t} : pc'[u] = pc[u] /\ task'[u] = task[u]
        /\ \A g \in Fiber \ {f} : at'[g] = at[g]
    BY <1>t, <2>1, <2>2, <2>3, <2>r
  <2>6. ASSUME NEW g \in Fiber
        PROVE  i \in QueueWakes(g) <=> g = f /\ x.op # "timeout"
    BY <2>3, <2>r DEF QueueWakes, Wakeful
\* The others are woken as before.
  <2>7. ASSUME NEW g \in Fiber, g # f \/ x.op = "timeout"
        PROVE  WakeOf(g)'
    <3>1. Like(QueueWakes(g), QueueWakes(g)')
      BY <2>4, <2>6, <2>7 DEF Like
    <3>2. RunWakes(g)' = RunWakes(g)
      BY <1>d, <1>e, <2>1, <2>3, <2>7, <2>r
    <3>3. at'[g] = at[g]
      BY <2>1, <2>3, <2>5, <2>7, <2>r
    <3>4. Waiting(g)' <=> Waiting(g)
      <4>1. ~Runs2(task[t], g) /\ ~Runs2(task'[t], g)
        BY <1>e, <2>3, <2>5, <2>7, <2>f
      <4>q. QED
        BY <2>2, <2>5, <3>3, <4>1, WaitingSame DEF On
    <3>q. QED
      BY <1>w, <1>s, <2>4, <3>1, <3>2, <3>4, WakeStays
\* A fiber that is taken waits no more.
  <2>8. CASE x.op \in {"start", "resume"}
    <3>1. /\ QueueWakes(f) = {i} /\ TimerWakes(f) = {} /\ ListWakes(f) = {} /\ EventWakes(f) = {} /\ RunWakes(f) = {}
      BY <2>2, <2>3, <2>8, <2>r, TakenFacts
    <3>2. Resumed(f)'
      BY <2>5, <2>8, <2>f DEF Resumed, On
    <3>3. ~Waiting(f)'
      BY <3>2 DEF Waiting
    <3>4. RunWakes(f)' = {}
      BY <1>d, <1>e, <2>1, <2>3, <2>8, <2>r, <3>1
    <3>5. QueueWakes(f)' = {} /\ TimerWakes(f)' = {} /\ ListWakes(f)' = {} /\ EventWakes(f)' = {}
      BY <2>3, <2>4, <3>1
    <3>6. WakeOf(f)'
      BY <2>3, <3>3, <3>4, <3>5, WakeNone
    <3>q. QED
      BY <2>7, <3>6
\* One whose callback is taken waits for that to be run.
  <2>9. CASE x.op = "wake"
    <3>1. i \in QueueWakes(f)
      BY <2>3, <2>6, <2>9
    <3>2. QueueWakes(f) = {i} /\ TimerWakes(f) = {} /\ ListWakes(f) = {} /\ EventWakes(f) = {} /\ RunWakes(f) = {}
          /\ Waiting(f)
      <4>1. WakeOf(f) /\ QueueWakes(f) # {}
        BY <1>w, <2>3, <3>1
      <4>2. Lone(QueueWakes(f))
        BY <4>1 DEF WakeOf
      <4>3. QueueWakes(f) = {i}
        BY <3>1, <4>2 DEF Lone
      <4>q. QED
        BY <4>1, <4>3 DEF WakeOf
    <3>3. RunWakes(f)' = {t}
      BY <1>d, <1>e, <2>1, <2>3, <2>9, <2>r, <3>2
    <3>4. QueueWakes(f)' = {} /\ TimerWakes(f)' = {} /\ ListWakes(f)' = {} /\ EventWakes(f)' = {}
      BY <2>3, <2>4, <3>2
    <3>5. Waiting(f)'
      <4>1. at' = at
        BY <2>1, <2>9, <2>r
      <4>2. ~Runs2(task[t], f) /\ ~Runs2(task'[t], f)
        BY <1>e, <2>3, <2>5, <2>9
      <4>3. Waiting(f)' <=> Waiting(f)
        BY <2>2, <2>3, <2>5, <4>1, <4>2, WaitingSame DEF On
      <4>q. QED
        BY <3>2, <4>3
    <3>6. Sole(RunWakes(f)', TimerWakes(f)', ListWakes(f)', QueueWakes(f)', EventWakes(f)')
      BY <3>3, <3>4 DEF Sole, Lone
    <3>7. WakeOf(f)'
      BY <2>3, <3>5, <3>6, WakeNow
    <3>q. QED
      BY <2>7, <3>7
  <2>q. QED
    BY <2>3, <2>7, <2>8, <2>9 DEF Op
\* A timer that has expired is on a list of callbacks.
<1>2. ASSUME NEW t \in Thread, EpollWait(t)
      PROVE  Goal
  <2> DEFINE cb(x) == [op |-> x.op, fiber |-> x.fiber, n |-> x.n, thread |-> Any]
             C == {cb(x) : x \in Expired}
  <2>1. /\ pc[t] = "wait" /\ pc' = [pc EXCEPT ![t] = "handle"] /\ timers' = timers \ Expired
        /\ cbs' = [cbs EXCEPT ![t] = C] /\ UNCHANGED <<task, tasks, waiter, at>>
    BY <1>2 DEF EpollWait, Free
  <2>2. cbs[t] = {} /\ pc'[t] = "handle"
    BY <1>t, <2>1 DEF ThreadInv
  <2>3. \A g \in Fiber : Waiting(g)' <=> Waiting(g)
    BY <1>a, <2>1, <2>2
  <2>4. \A c \in C : \E x \in Expired : c = cb(x) /\ c.fiber = x.fiber /\ (Wakeful(c) <=> Wakeful(x))
    BY DEF Wakeful
  <2>5. \A x \in Expired : cb(x) \in C /\ cb(x).fiber = x.fiber /\ (Wakeful(cb(x)) <=> Wakeful(x))
    BY DEF Wakeful
  <2>6. Expired \subseteq timers
    BY DEF Expired
  <2> HIDE DEF C, cb
  <2>7. cbs'[t] = C /\ \A u \in Thread \ {t} : cbs'[u] = cbs[u]
    BY <1>t, <2>1
  <2>8. ASSUME NEW g \in Fiber
        PROVE  WakeOf(g)'
    <3>1. ListWakes(g)' = UNION {{u} \X {c \in cbs'[u] : c.fiber = g /\ Wakeful(c)} : u \in Thread}
      BY DEF ListWakes, Wakeful
    <3>2. \A p \in ListWakes(g)' : p \in ListWakes(g) \/ \E c \in C : p = <<t, c>> /\ c.fiber = g /\ Wakeful(c)
      <4>1. ASSUME NEW u \in Thread, NEW c \in cbs'[u], c.fiber = g, Wakeful(c)
            PROVE  <<u, c>> \in ListWakes(g) \/ (u = t /\ c \in C)
        BY <2>7, <4>1 DEF ListWakes
      <4>2. \A p \in ListWakes(g)' : \E u \in Thread : \E c \in cbs'[u] : p = <<u, c>> /\ c.fiber = g /\ Wakeful(c)
        BY <3>1
      <4>q. QED
        BY <4>1, <4>2
    <3>3. \A p \in ListWakes(g) : p \in ListWakes(g)'
      <4>1. \A p \in ListWakes(g) : \E u \in Thread : \E c \in cbs[u] : p = <<u, c>> /\ c.fiber = g /\ Wakeful(c)
        BY DEF ListWakes
      <4>2. ASSUME NEW u \in Thread, NEW c \in cbs[u], c.fiber = g, Wakeful(c)
            PROVE  <<u, c>> \in ListWakes(g)'
        <5>1. c \in cbs'[u]
          BY <2>2, <2>7
        <5>q. QED
          BY <3>1, <4>2, <5>1
      <4>q. QED
        BY <4>1, <4>2
    <3>4. TimerWakes(g)' = TimerWakes(g) \ Expired
      BY <2>1 DEF TimerWakes, Wakeful
    <3>5. QueueWakes(g)' = QueueWakes(g) /\ EventWakes(g)' = EventWakes(g) /\ RunWakes(g)' = RunWakes(g)
      BY <2>1, WakesSame
    <3>6. CASE \A x \in TimerWakes(g) : x \notin Expired
      <4>1. TimerWakes(g)' = TimerWakes(g)
        BY <3>4, <3>6
      <4>2. ASSUME NEW c \in C, c.fiber = g, Wakeful(c)
            PROVE  FALSE
        <5>1. PICK x \in Expired : c = cb(x) /\ c.fiber = x.fiber /\ (Wakeful(c) <=> Wakeful(x))
          BY <2>4
        <5>2. x \in TimerWakes(g)
          BY <2>6, <4>2, <5>1 DEF TimerWakes
        <5>q. QED
          BY <3>6, <5>2
      <4>3. ListWakes(g)' = ListWakes(g)
        BY <3>2, <3>3, <4>2
      <4>q. QED
        BY <1>w, <1>s, <2>3, <3>5, <4>1, <4>3, WakeStays
    <3>7. CASE \E x \in TimerWakes(g) : x \in Expired
      <4>1. PICK x \in TimerWakes(g) : x \in Expired
        BY <3>7
      <4>2. TimerWakes(g) = {x} /\ ListWakes(g) = {} /\ QueueWakes(g) = {} /\ EventWakes(g) = {} /\ RunWakes(g) = {}
            /\ Waiting(g)
        <5>1. WakeOf(g)
          BY <1>w
        <5>2. Lone(TimerWakes(g))
          BY <5>1 DEF WakeOf
        <5>3. TimerWakes(g) = {x}
          BY <4>1, <5>2 DEF Lone
        <5>q. QED
          BY <5>1, <5>3 DEF WakeOf
      <4>3. x.fiber = g /\ Wakeful(x)
        BY <4>1 DEF TimerWakes
      <4>4. ASSUME NEW c \in C, c.fiber = g, Wakeful(c)
            PROVE  c = cb(x)
        <5>1. PICK y \in Expired : c = cb(y) /\ c.fiber = y.fiber /\ (Wakeful(c) <=> Wakeful(y))
          BY <2>4
        <5>2. y \in TimerWakes(g)
          BY <2>6, <4>4, <5>1 DEF TimerWakes
        <5>q. QED
          BY <4>2, <5>1, <5>2
      <4>5. <<t, cb(x)>> \in ListWakes(g)'
        <5>1. cb(x) \in cbs'[t] /\ cb(x).fiber = g /\ Wakeful(cb(x))
          BY <2>5, <2>7, <4>1, <4>3
        <5>q. QED
          BY <3>1, <5>1
      <4>6. ListWakes(g)' = {<<t, cb(x)>>}
        BY <3>2, <4>2, <4>4, <4>5
      <4>7. TimerWakes(g)' = {}
        BY <3>4, <4>1, <4>2
      <4>8. Sole(ListWakes(g)', TimerWakes(g)', QueueWakes(g)', EventWakes(g)', RunWakes(g)')
        BY <3>5, <4>2, <4>6, <4>7 DEF Sole, Lone
      <4>9. Waiting(g)'
        BY <2>3, <4>2
      <4>q. QED
        BY <4>8, <4>9, WakeNow
    <3>q. QED
      BY <3>6, <3>7
  <2>q. QED
    BY <2>8
\* A callback that is queued.
<1>3. ASSUME NEW t \in Thread, ScheduleExpired(t)
      PROVE  Goal
  <2>1. PICK c \in cbs[t] : c \in Item /\ tasks' = tasks \o <<c>> /\ cbs' = [cbs EXCEPT ![t] = @ \ {c}]
    BY <1>3, ScheduleExpiredFacts
  <2>2. UNCHANGED <<task, timers, waiter, at, pc>>
    BY <1>3 DEF ScheduleExpired
  <2>3. \A g \in Fiber : Waiting(g)' <=> Waiting(g)
    BY <2>2, WaitingSame DEF On
  <2>4. ASSUME NEW g \in Fiber
        PROVE  ListWakes(g)' = ListWakes(g) \ {<<t, c>>}
    <3>1. \A u \in Thread : cbs'[u] = IF u = t THEN cbs[u] \ {c} ELSE cbs[u]
      BY <1>t, <2>1
    <3>2. ListWakes(g)' = UNION {{u} \X {b \in cbs'[u] : b.fiber = g /\ Wakeful(b)} : u \in Thread}
      BY DEF ListWakes, Wakeful
    <3>3. \A p : p \in ListWakes(g)' <=> \E u \in Thread : \E b \in cbs'[u] : p = <<u, b>> /\ b.fiber = g /\ Wakeful(b)
      BY <3>2
    <3>4. \A p : p \in ListWakes(g) <=> \E u \in Thread : \E b \in cbs[u] : p = <<u, b>> /\ b.fiber = g /\ Wakeful(b)
      BY DEF ListWakes
    <3>5. ASSUME NEW u \in Thread, NEW b \in cbs[u]
          PROVE  b \in cbs'[u] <=> <<u, b>> # <<t, c>>
      BY <3>1, <3>5
    <3>6. \A p : p \in ListWakes(g)' <=> p \in ListWakes(g) /\ p # <<t, c>>
      <4>1. ASSUME NEW p \in ListWakes(g)'
            PROVE  p \in ListWakes(g) /\ p # <<t, c>>
        <5>1. PICK u \in Thread : \E b \in cbs'[u] : p = <<u, b>> /\ b.fiber = g /\ Wakeful(b)
          BY <3>3
        <5>2. PICK b \in cbs'[u] : p = <<u, b>> /\ b.fiber = g /\ Wakeful(b)
          BY <5>1
        <5>3. b \in cbs[u]
          BY <3>1
        <5>q. QED
          BY <3>4, <3>5, <5>2, <5>3
      <4>2. ASSUME NEW p \in ListWakes(g), p # <<t, c>>
            PROVE  p \in ListWakes(g)'
        BY <3>3, <3>4, <3>5, <4>2
      <4>q. QED
        BY <4>1, <4>2
    <3>q. QED
      BY <3>6
  <2>5. ASSUME NEW g \in Fiber
        PROVE  <<t, c>> \in ListWakes(g) <=> c.fiber = g /\ Wakeful(c)
    BY DEF ListWakes
  <2>6. ASSUME NEW g \in Fiber
        PROVE  /\ TimerWakes(g)' = TimerWakes(g) /\ EventWakes(g)' = EventWakes(g) /\ RunWakes(g)' = RunWakes(g)
               /\ QueueWakes(g)' = IF c.fiber = g /\ Wakeful(c) THEN QueueWakes(g) \cup {Len(tasks) + 1} ELSE QueueWakes(g)
    BY <2>1, <2>2, WakesSame, QueueOne
  <2>7. ASSUME NEW g \in Fiber, ~(c.fiber = g /\ Wakeful(c))
        PROVE  WakeOf(g)'
    <3>1. ListWakes(g)' = ListWakes(g)
      BY <2>4, <2>5, <2>7
    <3>2. QueueWakes(g)' = QueueWakes(g)
      BY <2>6, <2>7
    <3>q. QED
      BY <1>w, <1>s, <2>3, <2>6, <3>1, <3>2, WakeStays
  <2>8. ASSUME NEW g \in Fiber, c.fiber = g, Wakeful(c)
        PROVE  WakeOf(g)'
    <3>1. WakeOf(g) /\ <<t, c>> \in ListWakes(g)
      BY <1>w, <2>5, <2>8
    <3>2. Lone(ListWakes(g))
      BY <3>1 DEF WakeOf
    <3>3. ListWakes(g) = {<<t, c>>}
      BY <3>1, <3>2 DEF Lone
    <3>4. TimerWakes(g) = {} /\ QueueWakes(g) = {} /\ EventWakes(g) = {} /\ RunWakes(g) = {} /\ Waiting(g)
      BY <3>1, <3>3 DEF WakeOf
    <3>5. QueueWakes(g)' = {Len(tasks) + 1} /\ ListWakes(g)' = {}
      BY <2>4, <2>6, <2>8, <3>3, <3>4
    <3>6. Sole(QueueWakes(g)', TimerWakes(g)', ListWakes(g)', EventWakes(g)', RunWakes(g)')
      BY <2>6, <3>4, <3>5 DEF Sole, Lone
    <3>q. QED
      BY <2>3, <3>4, <3>6, WakeNow
  <2>q. QED
    BY <2>7, <2>8
\* The waiters of an event are queued.
<1>f. ASSUME NEW fd \in Fd, NEW E \in SUBSET Event, Triggers(fd, E), \A g \in Fiber : Waiting(g)' <=> Waiting(g),
             UNCHANGED <<timers, cbs>>, \A g \in Fiber : RunWakes(g)' = RunWakes(g)
      PROVE  Goal
  <2>1. ASSUME NEW g \in Fiber
        PROVE  WakeOf(g)'
    <3>1. TimerWakes(g)' = TimerWakes(g) /\ ListWakes(g)' = ListWakes(g)
      BY <1>f, WakesSame
    <3>2. CASE EventWakes(g)' = EventWakes(g) /\ QueueWakes(g)' = QueueWakes(g)
      BY <1>f, <1>w, <1>s, <3>1, <3>2, WakeStays
    <3>3. CASE EventWakes(g) # {} /\ EventWakes(g)' = {} /\ QueueWakes(g)' # {} /\ Lone(QueueWakes(g)')
      <4>1. TimerWakes(g) = {} /\ ListWakes(g) = {} /\ RunWakes(g) = {} /\ Waiting(g)
        BY <1>w, <3>3 DEF WakeOf
      <4>2. Sole(QueueWakes(g)', TimerWakes(g)', ListWakes(g)', EventWakes(g)', RunWakes(g)')
        BY <1>f, <3>1, <3>3, <4>1 DEF Sole
      <4>q. QED
        BY <1>f, <4>1, <4>2, WakeNow
    <3>q. QED
      BY <1>f, <3>2, <3>3, QueueTriggers
  <2>q. QED
    BY <2>1
<1>4. ASSUME NEW t \in Thread, HandleEvent(t)
      PROVE  Goal
  <2>1. PICK r \in report[t] :
          /\ r.fd \in Fd /\ r.events \in SUBSET Event
          /\ Triggers(r.fd, r.events) \/ (tasks' = tasks /\ waiter' = waiter)
    BY <1>4, HandleEventFacts
  <2>2. UNCHANGED <<task, cbs, timers, at, pc>>
    BY <1>4 DEF HandleEvent
  <2>3. \A g \in Fiber : (Waiting(g)' <=> Waiting(g)) /\ RunWakes(g)' = RunWakes(g)
    BY <2>2, WaitingSame, WakesSame DEF On
  <2> HIDE DEF Goal
  <2>q. QED
    BY <1>b, <1>f, <2>1, <2>2, <2>3
\* A callback that has been run.
<1>g. ASSUME NEW t \in Thread, task[t].op \notin {"start", "resume"}, EndTask(t), at' = at
      PROVE  \A g \in Fiber : Waiting(g)' <=> Waiting(g)
  <2>1. pc' = [pc EXCEPT ![t] = "scan"] /\ task' = [task EXCEPT ![t] = NoTask]
    BY <1>g DEF EndTask
  <2>2. pc'[t] = "scan"
    BY <1>t, <2>1
  <2>q. QED
    BY <1>a, <1>g, <2>1, <2>2
<1>5. ASSUME NEW t \in Thread, TimeOutCall(t)
      PROVE  Goal
  <2> DEFINE c == call[task[t].fiber]
  <2>1. /\ task[t].op = "timeout" /\ EndTask(t)
        /\ \/ tasks' = tasks /\ waiter' = waiter
           \/ c.fd \in Fd /\ Triggers(c.fd, {c.event}) /\ {c.event} \in SUBSET Event
    BY <1>5, TimeOutCallFacts
  <2>2. task' = [task EXCEPT ![t] = NoTask] /\ UNCHANGED <<cbs, timers, at>>
    BY <1>5 DEF TimeOutCall, EndTask
  <2>3. \A g \in Fiber : Waiting(g)' <=> Waiting(g)
    BY <1>g, <2>1, <2>2
  <2>4. \A g \in Fiber : RunWakes(g)' = RunWakes(g)
    BY <1>d, <1>e, <2>1, <2>2
  <2> HIDE DEF c, Goal
  <2>5. CASE tasks' = tasks /\ waiter' = waiter
    <3>1. ASSUME NEW g \in Fiber PROVE WakeOf(g)'
      BY <1>w, <1>s, <2>2, <2>3, <2>4, <2>5, WakesSame, WakeStays
    <3>q. QED
      BY <3>1 DEF Goal
  <2>q. QED
    BY <1>f, <2>1, <2>2, <2>3, <2>4, <2>5
<1>6. ASSUME NEW t \in Thread, NEW fd \in Fd, Close(t, fd)
      PROVE  Goal
  <2>1. /\ Registered(fd) \in SUBSET Event /\ Triggers(fd, Registered(fd))
        /\ UNCHANGED <<task, cbs, timers, at, pc>>
    BY <1>6, CloseFacts
  <2>2. \A g \in Fiber : (Waiting(g)' <=> Waiting(g)) /\ RunWakes(g)' = RunWakes(g)
    BY <2>1, WaitingSame, WakesSame DEF On
  <2> HIDE DEF Goal
  <2>q. QED
    BY <1>f, <2>1, <2>2
<1>7. ASSUME NEW t \in Thread, WakeSleeper(t)
      PROVE  Goal
  <2>f. PICK f \in Fiber : f = task[t].fiber
    BY <1>7, WakeSleeperFacts
  <2> DEFINE x == Task("resume", f, Any)
  <2>1. /\ task[t].op = "wake" /\ EndTask(t) /\ f = task[t].fiber
        /\ x \in Item /\ x.op = "resume" /\ x.fiber = f /\ tasks' = tasks \o <<x>>
    BY <1>7, <2>f, WakeSleeperFacts
  <2>2. task' = [task EXCEPT ![t] = NoTask] /\ UNCHANGED <<cbs, timers, waiter, at>>
    BY <1>7 DEF WakeSleeper, EndTask
  <2>3. \A g \in Fiber : Waiting(g)' <=> Waiting(g)
    BY <1>g, <2>1, <2>2
  <2>4. t \in RunWakes(f)
    BY <2>1 DEF RunWakes
  <2>5. ASSUME NEW g \in Fiber
        PROVE  /\ TimerWakes(g)' = TimerWakes(g) /\ EventWakes(g)' = EventWakes(g) /\ ListWakes(g)' = ListWakes(g)
               /\ g # f => RunWakes(g)' = RunWakes(g)
               /\ t \notin RunWakes(g)' /\ RunWakes(g)' \subseteq RunWakes(g)
    BY <1>d, <1>e, <2>1, <2>2, WakesSame
  <2> HIDE DEF x
  <2>6. \A g \in Fiber : QueueWakes(g)' = IF g = f THEN QueueWakes(g) \cup {Len(tasks) + 1} ELSE QueueWakes(g)
    BY <2>1, QueueOne DEF Wakeful
  <2>7. ASSUME NEW g \in Fiber, g # f
        PROVE  WakeOf(g)'
    <3>1. QueueWakes(g)' = QueueWakes(g)
      BY <2>6, <2>7
    <3>q. QED
      BY <1>w, <1>s, <2>3, <2>5, <2>7, <3>1, WakeStays
  <2>8. WakeOf(f)'
    <3>1. WakeOf(f) /\ RunWakes(f) # {}
      BY <1>w, <2>1, <2>4
    <3>2. Lone(RunWakes(f)) /\ Waiting(f)
      BY <3>1 DEF WakeOf
    <3>3. TimerWakes(f) = {} /\ ListWakes(f) = {} /\ QueueWakes(f) = {} /\ EventWakes(f) = {}
      BY <3>1 DEF WakeOf
    <3>4. RunWakes(f)' = {}
      BY <2>1, <2>4, <2>5, <3>2 DEF Lone
    <3>5. QueueWakes(f)' = {Len(tasks) + 1}
      BY <2>1, <2>6, <3>3
    <3>6. Sole(QueueWakes(f)', TimerWakes(f)', ListWakes(f)', EventWakes(f)', RunWakes(f)')
      BY <2>1, <2>5, <3>3, <3>4, <3>5 DEF Sole, Lone
    <3>q. QED
      BY <2>1, <2>3, <3>2, <3>6, WakeNow
  <2>q. QED
    BY <2>7, <2>8
\* Only the fiber that the thread runs is moved.
<1>h. ASSUME NEW t \in Thread, NEW f \in Fiber, On(t, f), NEW w, pc' = [pc EXCEPT ![t] = w] \/ pc' = pc,
             task' = task \/ task' = [task EXCEPT ![t] = NoTask], \A g \in Fiber \ {f} : at'[g] = at[g]
      PROVE  \A g \in Fiber \ {f} : Waiting(g)' <=> Waiting(g)
  <2>1. \A u \in Thread \ {t} : pc'[u] = pc[u] /\ task'[u] = task[u]
    BY <1>h, <1>t
  <2>2. task'[t] = task[t] \/ task'[t] = NoTask
    BY <1>h, <1>t
  <2>3. \A g \in Fiber \ {f} : ~Runs2(task[t], g) /\ ~Runs2(task'[t], g)
    BY <1>e, <1>h, <2>2 DEF On
  <2>q. QED
    BY <1>h, <2>1, <2>3, WaitingSame DEF On
\* Once it is about to yield nobody runs it; it waits if it is at something.
<1>i. ASSUME NEW t \in Thread, NEW f \in Fiber, On(t, f), task' = task, pc' = [pc EXCEPT ![t] = "yield"],
             at'[f] \in {"sleep", "io"}
      PROVE  Waiting(f)'
  <2>1. pc'[t] = "yield"
    BY <1>i, <1>t
  <2>2. \A u \in Thread : On(u, f) => u = t
    BY <1>i DEF StateInv
  <2>3. ~Resumed(f)'
    BY <1>i, <2>1, <2>2 DEF Resumed, On
  <2>q. QED
    BY <1>i, <2>3 DEF Waiting
<1>j. ASSUME NEW f \in Fiber, ~Waiting(f)
      PROVE  TimerWakes(f) = {} /\ ListWakes(f) = {} /\ QueueWakes(f) = {} /\ EventWakes(f) = {} /\ RunWakes(f) = {}
  BY <1>j, NothingWakes
<1>8. ASSUME NEW t \in Thread, Finish(t)
      PROVE  Goal
  <2>f. PICK f \in Fiber : f = task[t].fiber
    BY <1>8, RunsFacts DEF Finish, InUser
  <2>1. On(t, f) /\ ~Waiting(f)
    BY <1>8, <2>f, RunsFacts, RunningFacts DEF Finish, InUser
  <2>2. /\ pc' = [pc EXCEPT ![t] = "scan"] /\ task' = [task EXCEPT ![t] = NoTask] /\ UNCHANGED <<cbs, timers, tasks, waiter>>
        /\ at' = [at EXCEPT ![f] = "done"]
    BY <1>8, <2>f DEF Finish, EndTask
  <2>3. task[t].op # "wake"
    BY <2>1 DEF On
  <2>4. at'[f] = "done" /\ \A g \in Fiber \ {f} : at'[g] = at[g]
    BY <1>t, <2>1, <2>2
  <2>5. \A g \in Fiber \ {f} : Waiting(g)' <=> Waiting(g)
    BY <1>h, <2>1, <2>2, <2>4
  <2>6. ASSUME NEW g \in Fiber
        PROVE  /\ TimerWakes(g)' = TimerWakes(g) /\ ListWakes(g)' = ListWakes(g) /\ QueueWakes(g)' = QueueWakes(g)
               /\ EventWakes(g)' = EventWakes(g) /\ RunWakes(g)' = RunWakes(g)
    BY <1>d, <1>e, <2>2, <2>3, WakesSame
  <2>7. \A g \in Fiber \ {f} : WakeOf(g)'
    BY <1>w, <1>s, <2>5, <2>6, WakeStays
  <2>8. ~Waiting(f)'
    BY <2>4 DEF Waiting
  <2>9. WakeOf(f)'
    BY <1>j, <2>1, <2>6, <2>8, WakeNone
  <2>q. QED
    BY <2>7, <2>9
<1>9. ASSUME NEW t \in Thread, Yield(t)
      PROVE  Goal
  <2>1. /\ pc[t] = "yield" /\ pc' = [pc EXCEPT ![t] = "scan"] /\ task' = [task EXCEPT ![t] = NoTask]
        /\ UNCHANGED <<cbs, timers, tasks, waiter, at>>
    BY <1>9 DEF Yield, EndTask, Free
  <2>2. task[t].op \in {"start", "resume"} /\ pc'[t] = "scan"
    BY <1>t, <2>1 DEF ThreadInv
  <2>3. \A g \in Fiber : Waiting(g)' <=> Waiting(g)
    BY <1>a, <2>1, <2>2
  <2>4. ASSUME NEW g \in Fiber
        PROVE  /\ TimerWakes(g)' = TimerWakes(g) /\ ListWakes(g)' = ListWakes(g) /\ QueueWakes(g)' = QueueWakes(g)
               /\ EventWakes(g)' = EventWakes(g) /\ RunWakes(g)' = RunWakes(g)
    BY <1>d, <1>e, <2>1, <2>2, WakesSame
  <2>q. QED
    BY <1>w, <1>s, <2>3, <2>4, WakeStays
<1>10. ASSUME NEW t \in Thread, NEW d \in Delay, Sleep(t, d)
       PROVE  Goal
  <2>f. PICK f \in Fiber : f = task[t].fiber
    BY <1>10, MayWaitFacts DEF Sleep
  <2>1. On(t, f) /\ ~Waiting(f)
    BY <1>10, <2>f, MayWaitFacts, RunningFacts DEF Sleep
  <2>m. PICK tm \in Timer : tm = [op |-> "wake", fiber |-> f, n |-> calls[f] + 1, left |-> d, ms |-> d]
    BY <1>10, <2>f, SleepFacts
  <2>2. /\ timers' = timers \cup {tm} /\ UNCHANGED <<task, cbs, tasks, waiter>>
        /\ pc' = [pc EXCEPT ![t] = "yield"] /\ at' = [at EXCEPT ![f] = "sleep"]
    BY <1>10, <2>f, <2>m, SleepFacts
  <2>3. tm.fiber = f /\ Wakeful(tm)
    BY <2>m DEF Wakeful
  <2>4. at'[f] = "sleep" /\ \A g \in Fiber \ {f} : at'[g] = at[g]
    BY <1>t, <2>1, <2>2
  <2>5. \A g \in Fiber \ {f} : Waiting(g)' <=> Waiting(g)
    BY <1>h, <2>1, <2>2, <2>4
  <2>6. ASSUME NEW g \in Fiber
        PROVE  /\ ListWakes(g)' = ListWakes(g) /\ QueueWakes(g)' = QueueWakes(g)
               /\ EventWakes(g)' = EventWakes(g) /\ RunWakes(g)' = RunWakes(g)
               /\ TimerWakes(g)' = IF g = f THEN TimerWakes(g) \cup {tm} ELSE TimerWakes(g)
    <3>1. TimerWakes(g)' = {x \in timers' : x.fiber = g /\ Wakeful(x)}
      BY DEF TimerWakes, Wakeful
    <3>2. TimerWakes(g)' = IF g = f THEN TimerWakes(g) \cup {tm} ELSE TimerWakes(g)
      BY <2>2, <2>3, <3>1 DEF TimerWakes
    <3>q. QED
      BY <2>2, <3>2, WakesSame
  <2>7. ASSUME NEW g \in Fiber \ {f}
        PROVE  WakeOf(g)'
    <3>1. TimerWakes(g)' = TimerWakes(g)
      BY <2>6, <2>7
    <3>q. QED
      BY <1>w, <1>s, <2>5, <2>6, <2>7, <3>1, WakeStays
  <2>8. Waiting(f)'
    BY <1>i, <2>1, <2>2, <2>4
  <2>9. Sole(TimerWakes(f)', ListWakes(f)', QueueWakes(f)', EventWakes(f)', RunWakes(f)')
    BY <1>j, <2>1, <2>6 DEF Sole, Lone
  <2>10. WakeOf(f)'
    BY <2>1, <2>8, <2>9, WakeNow
  <2>q. QED
    BY <2>7, <2>10
\* A fiber registers for an event nobody is registered for.
<1>k. ASSUME NEW t \in Thread, NEW f \in Fiber, On(t, f), ~Waiting(f), NEW c, c.fd \in Fd, c.event \in Event,
             waiter[c.fd][c.event] = None,
             NEW n, NEW others, others = {x \in timers : ~(x.op = "timeout" /\ x.fiber = f)} \/ others = timers,
             Blocked(t, f, c, n, others), at'[f] = "io", \A g \in Fiber \ {f} : at'[g] = at[g],
             UNCHANGED <<task, cbs, tasks>>
      PROVE  Goal
  <2>1. /\ pc' = [pc EXCEPT ![t] = "yield"]
        /\ waiter' = [waiter EXCEPT ![c.fd][c.event] = f]
        /\ timers' \subseteq others \cup {[op |-> "timeout", fiber |-> f, n |-> n, left |-> c.timeout, ms |-> c.timeout]}
        /\ others \subseteq timers'
    BY <1>k DEF Blocked
  <2>2. \A g \in Fiber \ {f} : Waiting(g)' <=> Waiting(g)
    BY <1>h, <1>k, <2>1
  <2>3. \A d \in Fd, e \in Event : waiter'[d][e] = IF d = c.fd /\ e = c.event THEN f ELSE waiter[d][e]
    BY <1>k, <1>t, <2>1
  <2>4. \A x \in Fd \X Event : x[1] \in Fd /\ x[2] \in Event /\ (x[1] = c.fd /\ x[2] = c.event <=> x = <<c.fd, c.event>>)
    OBVIOUS
  <2>5. <<c.fd, c.event>> \in Fd \X Event
    BY <1>k
  <2>6. ASSUME NEW g \in Fiber
        PROVE  EventWakes(g)' = IF g = f THEN EventWakes(g) \cup {<<c.fd, c.event>>} ELSE EventWakes(g)
    <3>1. EventWakes(g)' = {x \in Fd \X Event : waiter'[x[1]][x[2]] = g}
      BY DEF EventWakes
    <3>2. \A x \in Fd \X Event : waiter'[x[1]][x[2]] = IF x = <<c.fd, c.event>> THEN f ELSE waiter[x[1]][x[2]]
      BY <2>3, <2>4
    <3>3. waiter[<<c.fd, c.event>>[1]][<<c.fd, c.event>>[2]] # g
      BY <1>k, <1>t
    <3> DEFINE p == <<c.fd, c.event>>
    <3>4. p \in Fd \X Event /\ waiter[p[1]][p[2]] # g
      BY <2>5, <3>3
    <3> HIDE DEF p
    <3>5. \A x \in Fd \X Event : waiter'[x[1]][x[2]] = IF x = p THEN f ELSE waiter[x[1]][x[2]]
      BY <3>2 DEF p
    <3>6. EventWakes(g)' = IF g = f THEN EventWakes(g) \cup {p} ELSE EventWakes(g)
      BY <3>1, <3>4, <3>5 DEF EventWakes
    <3>q. QED
      BY <3>6 DEF p
  <2>7. ASSUME NEW g \in Fiber
        PROVE  /\ ListWakes(g)' = ListWakes(g) /\ QueueWakes(g)' = QueueWakes(g)
               /\ RunWakes(g)' = RunWakes(g) /\ TimerWakes(g)' = TimerWakes(g)
    <3>1. TimerWakes(g)' = {x \in timers' : x.fiber = g /\ x.op # "timeout"}
      BY DEF TimerWakes, Wakeful
    <3>2. TimerWakes(g) = {x \in timers : x.fiber = g /\ x.op # "timeout"}
      BY DEF TimerWakes, Wakeful
    <3>3. TimerWakes(g)' = TimerWakes(g)
      BY <1>k, <2>1, <3>1, <3>2
    <3>q. QED
      BY <1>k, <3>3, WakesSame
  <2>8. ASSUME NEW g \in Fiber \ {f}
        PROVE  WakeOf(g)'
    <3>1. EventWakes(g)' = EventWakes(g)
      BY <2>6, <2>8
    <3>q. QED
      BY <1>w, <1>s, <2>2, <2>7, <2>8, <3>1, WakeStays
  <2>9. Waiting(f)'
    BY <1>i, <1>k, <2>1
  <2>10. Sole(EventWakes(f)', TimerWakes(f)', ListWakes(f)', QueueWakes(f)', RunWakes(f)')
    <3>1. EventWakes(f)' = {<<c.fd, c.event>>}
      BY <1>j, <1>k, <2>6
    <3>q. QED
      BY <1>j, <1>k, <2>7, <3>1 DEF Sole, Lone
  <2>11. WakeOf(f)'
    BY <2>9, <2>10, WakeNow
  <2>q. QED
    BY <2>8, <2>11
<1>11. ASSUME NEW t \in Thread, NEW c \in Call, DoIo(t, c)
       PROVE  Goal
  <2> DEFINE f == task[t].fiber
  <2>1. f \in Fiber /\ On(t, f) /\ ~Waiting(f) /\ at[f] = "user"
    BY <1>11, MayWaitFacts, RunningFacts DEF DoIo
  <2>2. /\ c.fd \in Fd /\ c.event \in Event
        /\ \A g \in Fiber : at[g] = "io" => <<call[g].fd, call[g].event>> # <<c.fd, c.event>>
        /\ \/ at' = [at EXCEPT ![f] = "io"] /\ Blocked(t, f, c, calls[f] + 1, timers)
           \/ UNCHANGED <<at, timers, waiter, pc>>
        /\ UNCHANGED <<task, cbs, tasks>>
    BY <1>11, DoIoFacts
  <2>3. waiter[c.fd][c.event] = None
    <3>1. SUFFICES ASSUME waiter[c.fd][c.event] # None PROVE FALSE
      OBVIOUS
    <3> DEFINE g == waiter[c.fd][c.event]
    <3>2. g \in Fiber /\ at[g] = "io" /\ call[g].fd = c.fd /\ call[g].event = c.event
      BY <1>t, <2>2, <3>1 DEF CallInv
    <3>q. QED
      BY <2>2, <3>2
  <2> HIDE DEF f, Goal
  <2>4. CASE at' = [at EXCEPT ![f] = "io"] /\ Blocked(t, f, c, calls[f] + 1, timers)
    <3>1. at'[f] = "io" /\ \A g \in Fiber \ {f} : at'[g] = at[g]
      BY <1>t, <2>1, <2>4
    <3> DEFINE n == calls[f] + 1
               others == timers
    <3>2. Blocked(t, f, c, n, others) /\ others = timers
      BY <2>4
    <3> HIDE DEF n, others
    <3>q. QED
      BY <1>k, <2>1, <2>2, <2>3, <3>1, <3>2
  <2>q. QED
    BY <1>b, <2>2, <2>4
<1>12. ASSUME NEW t \in Thread, ResumeIo(t)
       PROVE  Goal
  <2> DEFINE f == task[t].fiber
             c == call[f]
             others == {x \in timers : ~(x.op = "timeout" /\ x.fiber = f)}
  <2>1. f \in Fiber /\ pc[t] = "run" /\ On(t, f) /\ ~Waiting(f) /\ at[f] = "io" /\ c.fd \in Fd /\ c.event \in Event
    BY <1>12, ResumeIoFacts, RunningFacts
  <2>2. /\ \/ at' = at /\ Blocked(t, f, c, calls[f], others)
           \/ at' = [at EXCEPT ![f] = "user"] /\ timers' = others /\ UNCHANGED <<waiter, pc>>
        /\ UNCHANGED <<task, cbs, tasks>>
    BY <1>12, ResumeIoFacts
  <2>3. waiter[c.fd][c.event] = None
    <3>1. SUFFICES ASSUME waiter[c.fd][c.event] # None PROVE FALSE
      OBVIOUS
    <3> DEFINE g == waiter[c.fd][c.event]
    <3>2. g \in Fiber /\ at[g] = "io" /\ call[g].fd = c.fd /\ call[g].event = c.event
      BY <1>t, <2>1, <3>1 DEF CallInv
    <3>3. g = f
      BY <2>1, <3>2 DEF CallInv
    <3>4. \A d \in Fd, e \in Event : waiter[d][e] # f
      BY <2>1, NothingWakes
    <3>q. QED
      BY <2>1, <3>3, <3>4
  <2> HIDE DEF Goal
  <2>4. CASE at' = at /\ Blocked(t, f, c, calls[f], others)
    <3> DEFINE n == calls[f]
    <3>1. Blocked(t, f, c, n, others)
      BY <2>4
    <3>2. others = {x \in timers : ~(x.op = "timeout" /\ x.fiber = f)}
      OBVIOUS
    <3> HIDE DEF n, others, c, f
    <3>q. QED
      BY <1>k, <2>1, <2>2, <2>3, <2>4, <3>1, <3>2
  <2>5. CASE at' = [at EXCEPT ![f] = "user"] /\ timers' = others /\ UNCHANGED <<waiter, pc>>
    <3>1. at'[f] = "user" /\ \A g \in Fiber \ {f} : at'[g] = at[g]
      BY <1>t, <2>1, <2>5
    <3>2. \A g \in Fiber \ {f} : Waiting(g)' <=> Waiting(g)
      <4>1. pc' = [pc EXCEPT ![t] = "run"] \/ pc' = pc
        BY <2>5
      <4> HIDE DEF f
      <4>q. QED
        BY <1>h, <2>1, <2>2, <3>1, <4>1
    <3>3. ASSUME NEW g \in Fiber
          PROVE  TimerWakes(g)' = TimerWakes(g)
      BY <2>5 DEF TimerWakes, Wakeful
    <3>g. PICK h \in Fiber : h = f
      BY <2>1
    <3> HIDE DEF f, others
    <3>4. ASSUME NEW g \in Fiber
          PROVE  /\ ListWakes(g)' = ListWakes(g) /\ QueueWakes(g)' = QueueWakes(g)
                 /\ EventWakes(g)' = EventWakes(g) /\ RunWakes(g)' = RunWakes(g)
      BY <2>2, <2>5, WakesSame
    <3>5. \A g \in Fiber \ {f} : WakeOf(g)'
      BY <1>w, <1>s, <3>2, <3>3, <3>4, WakeStays
    <3>6. ~Waiting(h)'
      BY <3>1, <3>g DEF Waiting
    <3>7. WakeOf(h)'
      BY <1>j, <2>1, <3>3, <3>4, <3>6, <3>g, WakeNone
    <3>q. QED
      BY <3>5, <3>7, <3>g DEF Goal
  <2>q. QED
    BY <2>2, <2>4, <2>5
\* A fiber that has not started.
<1>l. ASSUME NEW f \in Fiber, at[f] \in {"new", "queued", "timer"}, UNCHANGED <<task, pc>>,
             NEW w, at' = [at EXCEPT ![f] = w]
      PROVE  /\ \A g \in Fiber \ {f} : Waiting(g)' <=> Waiting(g)
             /\ Waiting(f)' <=> w \in {"queued", "timer", "sleep", "io"}
  <2>1. at'[f] = w /\ \A g \in Fiber \ {f} : at'[g] = at[g]
    BY <1>l, <1>t
  <2>2. \A g \in Fiber \ {f} : Waiting(g)' <=> Waiting(g)
    BY <1>l, <2>1, WaitingSame DEF On
  <2>3. \A u \in Thread : ~(pc[u] = "run" /\ On(u, f))
    BY <1>l DEF StateInv
  <2>4. ~Resumed(f)'
    BY <1>l, <2>3 DEF Resumed, On
  <2>q. QED
    BY <2>1, <2>2, <2>4 DEF Waiting
<1>13. ASSUME NEW f \in Fiber, NEW th \in Thread \cup {Any}, MainSchedule(f, th)
       PROVE  Goal
  <2> DEFINE x == Task("start", f, th)
  <2>1. /\ at[f] = "new" /\ x \in Item /\ x.op = "start" /\ x.fiber = f /\ tasks' = tasks \o <<x>>
        /\ at' = [at EXCEPT ![f] = "queued"] /\ UNCHANGED <<task, pc, cbs, timers, waiter>>
    BY <1>13, MainScheduleFacts
  <2> HIDE DEF x
  <2>2. (\A g \in Fiber \ {f} : Waiting(g)' <=> Waiting(g)) /\ Waiting(f)' /\ ~Waiting(f)
    BY <1>l, <2>1 DEF Waiting
  <2>3. ASSUME NEW g \in Fiber
        PROVE  /\ TimerWakes(g)' = TimerWakes(g) /\ ListWakes(g)' = ListWakes(g)
               /\ EventWakes(g)' = EventWakes(g) /\ RunWakes(g)' = RunWakes(g)
               /\ QueueWakes(g)' = IF g = f THEN QueueWakes(g) \cup {Len(tasks) + 1} ELSE QueueWakes(g)
    BY <2>1, WakesSame, QueueOne DEF Wakeful
  <2>4. ASSUME NEW g \in Fiber \ {f}
        PROVE  WakeOf(g)'
    <3>1. QueueWakes(g)' = QueueWakes(g)
      BY <2>3, <2>4
    <3>q. QED
      BY <1>w, <1>s, <2>2, <2>3, <2>4, <3>1, WakeStays
  <2>5. Sole(QueueWakes(f)', TimerWakes(f)', ListWakes(f)', EventWakes(f)', RunWakes(f)')
    <3>1. QueueWakes(f)' = {Len(tasks) + 1}
      BY <1>j, <2>2, <2>3
    <3>q. QED
      BY <1>j, <2>2, <2>3, <3>1 DEF Sole, Lone
  <2>6. WakeOf(f)'
    BY <2>2, <2>5, WakeNow
  <2>q. QED
    BY <2>4, <2>6
<1>14. ASSUME NEW f \in Fiber, NEW d \in Delay, MainAddTimer(f, d)
       PROVE  Goal
  <2> DEFINE tm == [op |-> "start", fiber |-> f, n |-> 0, left |-> d, ms |-> d]
  <2>1. /\ timers' = timers \cup {tm} /\ at[f] = "new" /\ at' = [at EXCEPT ![f] = "timer"]
        /\ UNCHANGED <<task, pc, cbs, tasks, waiter>>
    BY <1>14 DEF MainAddTimer, AddTimer
  <2>2. tm.fiber = f /\ Wakeful(tm)
    BY DEF Wakeful
  <2> HIDE DEF tm
  <2>3. (\A g \in Fiber \ {f} : Waiting(g)' <=> Waiting(g)) /\ Waiting(f)' /\ ~Waiting(f)
    BY <1>l, <2>1 DEF Waiting
  <2>4. ASSUME NEW g \in Fiber
        PROVE  /\ ListWakes(g)' = ListWakes(g) /\ QueueWakes(g)' = QueueWakes(g)
               /\ EventWakes(g)' = EventWakes(g) /\ RunWakes(g)' = RunWakes(g)
               /\ TimerWakes(g)' = IF g = f THEN TimerWakes(g) \cup {tm} ELSE TimerWakes(g)
    <3>1. TimerWakes(g)' = {x \in timers' : x.fiber = g /\ Wakeful(x)}
      BY DEF TimerWakes, Wakeful
    <3>2. TimerWakes(g)' = IF g = f THEN TimerWakes(g) \cup {tm} ELSE TimerWakes(g)
      BY <2>1, <2>2, <3>1 DEF TimerWakes
    <3>q. QED
      BY <2>1, <3>2, WakesSame
  <2>5. ASSUME NEW g \in Fiber \ {f}
        PROVE  WakeOf(g)'
    <3>1. TimerWakes(g)' = TimerWakes(g)
      BY <2>4, <2>5
    <3>q. QED
      BY <1>w, <1>s, <2>3, <2>4, <2>5, <3>1, WakeStays
  <2>6. Sole(TimerWakes(f)', ListWakes(f)', QueueWakes(f)', EventWakes(f)', RunWakes(f)')
    BY <1>j, <2>3, <2>4 DEF Sole, Lone
  <2>7. WakeOf(f)'
    BY <2>3, <2>6, WakeNow
  <2>q. QED
    BY <2>5, <2>7
<1>15. ASSUME NEW f \in Fiber, CancelTimer(f)
       PROVE  Goal
  <2>1. /\ timers' = timers \ OwnTimer(f) /\ OwnTimer(f) # {} /\ at' = [at EXCEPT ![f] = "done"]
        /\ UNCHANGED <<task, pc, cbs, tasks, waiter>>
    BY <1>15 DEF CancelTimer
  <2>2. /\ at[f] \in {"queued", "timer"} /\ OwnTimer(f) = TimerWakes(f)
        /\ ListWakes(f) = {} /\ QueueWakes(f) = {} /\ EventWakes(f) = {} /\ RunWakes(f) = {}
    BY <2>1, OwnTimerFacts
  <2>3. (\A g \in Fiber \ {f} : Waiting(g)' <=> Waiting(g)) /\ ~Waiting(f)'
    <3>1. Waiting(f)' <=> "done" \in {"queued", "timer", "sleep", "io"}
      BY <1>l, <2>1, <2>2
    <3>q. QED
      BY <1>l, <2>1, <2>2, <3>1
  <2>4. ASSUME NEW g \in Fiber
        PROVE  /\ ListWakes(g)' = ListWakes(g) /\ QueueWakes(g)' = QueueWakes(g)
               /\ EventWakes(g)' = EventWakes(g) /\ RunWakes(g)' = RunWakes(g)
               /\ TimerWakes(g)' = IF g = f THEN {} ELSE TimerWakes(g)
    <3>1. TimerWakes(g)' = {x \in timers' : x.fiber = g /\ Wakeful(x)}
      BY DEF TimerWakes, Wakeful
    <3>2. TimerWakes(g)' = IF g = f THEN {} ELSE TimerWakes(g)
      BY <2>1, <2>2, <3>1 DEF TimerWakes
    <3>q. QED
      BY <2>1, <3>2, WakesSame
  <2>5. ASSUME NEW g \in Fiber \ {f}
        PROVE  WakeOf(g)'
    <3>1. TimerWakes(g)' = TimerWakes(g)
      BY <2>4, <2>5
    <3>q. QED
      BY <1>w, <1>s, <2>3, <2>4, <2>5, <3>1, WakeStays
  <2>6. WakeOf(f)'
    BY <2>2, <2>3, <2>4, WakeNone
  <2>q. QED
    BY <2>5, <2>6
\* The timer of a fiber is replaced.
<1>m. ASSUME NEW f \in Fiber, NEW x \in OwnTimer(f), NEW y, y.op = "start", y.fiber = f,
             timers' = (timers \ {x}) \cup {y}, UNCHANGED <<task, pc, cbs, tasks, waiter, at>>
      PROVE  Goal
  <2>1. OwnTimer(f) = TimerWakes(f) /\ Lone(TimerWakes(f))
    BY <1>m, OwnTimerFacts
  <2>2. TimerWakes(f) = {x} /\ x.fiber = f /\ Wakeful(x) /\ Wakeful(y)
    BY <1>m, <2>1 DEF Lone, TimerWakes, Wakeful
  <2>3. ASSUME NEW g \in Fiber
        PROVE  Like(TimerWakes(g), TimerWakes(g)')
    <3>1. TimerWakes(g)' = {z \in timers' : z.fiber = g /\ Wakeful(z)}
      BY DEF TimerWakes, Wakeful
    <3>2. CASE g = f
      <4>1. TimerWakes(g)' = {y}
        BY <1>m, <2>2, <3>1, <3>2 DEF TimerWakes
      <4>q. QED
        BY <2>2, <3>2, <4>1 DEF Like, Lone
    <3>3. CASE g # f
      <4>1. TimerWakes(g)' = TimerWakes(g)
        BY <1>m, <2>2, <3>1, <3>3 DEF TimerWakes
      <4>q. QED
        BY <1>s, <4>1
    <3>q. QED
      BY <3>2, <3>3
  <2>4. ASSUME NEW g \in Fiber PROVE WakeOf(g)'
    <3>1. Waiting(g)' <=> Waiting(g)
      BY <1>m, WaitingSame DEF On
    <3>q. QED
      BY <1>m, <1>w, <1>s, <2>3, <3>1, WakesSame, WakeStays
  <2>q. QED
    BY <2>4
<1>16. ASSUME NEW f \in Fiber, NEW d \in Delay, ResetTimer(f, d)
       PROVE  Goal
  <2>1. \E x \in OwnTimer(f) : \E y : y.op = "start" /\ y.fiber = f /\ timers' = (timers \ {x}) \cup {y}
    BY <1>16, ResetTimerFacts
  <2>2. UNCHANGED <<task, pc, cbs, tasks, waiter, at>>
    BY <1>16 DEF ResetTimer
  <2> HIDE DEF Goal
  <2>q. QED
    BY <1>m, <2>1, <2>2
<1>17. ASSUME NEW f \in Fiber, RefreshTimer(f)
       PROVE  Goal
  <2>1. \E x \in OwnTimer(f) : \E y : y.op = "start" /\ y.fiber = f /\ timers' = (timers \ {x}) \cup {y}
    BY <1>17, RefreshTimerFacts
  <2>2. UNCHANGED <<task, pc, cbs, tasks, waiter, at>>
    BY <1>17 DEF RefreshTimer
  <2> HIDE DEF Goal
  <2>q. QED
    BY <1>m, <2>1, <2>2
<1>18. ASSUME Tick
       PROVE  Goal
  <2>1. UNCHANGED <<task, pc, cbs, tasks, waiter, at>>
    BY <1>18 DEF Tick
  <2> DEFINE tk(x) == [x EXCEPT !.left = Less(@)]
  <2>2. /\ \A x \in timers : tk(x) \in timers' /\ tk(x).op = x.op /\ tk(x).fiber = x.fiber
        /\ \A y \in timers' : \E x \in timers : y = tk(x)
    BY <1>18, TickFacts
  <2> HIDE DEF tk
  <2>3. ASSUME NEW g \in Fiber
        PROVE  Like(TimerWakes(g), TimerWakes(g)')
    <3>1. TimerWakes(g)' = {z \in timers' : z.fiber = g /\ Wakeful(z)}
      BY DEF TimerWakes, Wakeful
    <3>2. \A x \in TimerWakes(g) : tk(x) \in TimerWakes(g)'
      BY <2>2, <3>1 DEF TimerWakes, Wakeful
    <3>3. \A y \in TimerWakes(g)' : \E x \in TimerWakes(g) : y = tk(x)
      BY <2>2, <3>1 DEF TimerWakes, Wakeful
    <3>q. QED
      BY <3>2, <3>3 DEF Like, Lone
  <2>4. ASSUME NEW g \in Fiber PROVE WakeOf(g)'
    <3>1. Waiting(g)' <=> Waiting(g)
      BY <2>1, WaitingSame DEF On
    <3>q. QED
      BY <1>w, <1>s, <2>1, <2>3, <3>1, WakesSame, WakeStays
  <2>q. QED
    BY <2>4
<1>19. ASSUME NEW t \in Thread, FindNothing(t) \/ EnterIdle(t) \/ Ask(t) \/ LeaveIdle(t)
       PROVE  Goal
  <2>1. UNCHANGED <<timers, cbs, tasks, waiter, task, at>> /\ pc[t] # "run"
        /\ \E w \in {"scan", "exited", "enter", "ask", "pending", "stopping", "wait"} : pc' = [pc EXCEPT ![t] = w]
    BY <1>19, AskFacts DEF FindNothing, EnterIdle, LeaveIdle, Free
  <2>2. PICK w \in {"scan", "exited", "enter", "ask", "pending", "stopping", "wait"} : pc' = [pc EXCEPT ![t] = w]
    BY <2>1
  <2>3. pc'[t] # "run"
    BY <1>t, <2>2
  <2>4. \A g \in Fiber : Waiting(g)' <=> Waiting(g)
    BY <1>a, <2>1, <2>2, <2>3
  <2> HIDE DEF Goal
  <2>q. QED
    BY <1>c, <2>1, <2>4
<1>20. ASSUME \/ \E t \in Thread \cup {Main} : Tickle(t)
              \/ \E t \in Thread : DrainPipe(t)
              \/ Stop
              \/ \E fd \in Fd, e \in Event : Arrive(fd, e)
       PROVE  UNCHANGED <<timers, cbs, tasks, waiter, task, at, pc>>
  BY <1>20 DEF Tickle, DrainPipe, Stop, Arrive
<1>21. pool \subseteq Thread /\ Timed \subseteq Fiber
  BY PoolFacts, IOAssumption DEF TypeInv
<1> HIDE DEF Goal, threadVars, schedVars, timerVars, fdVars, fiberVars
<1>22. Goal
  BY <1>b, <1>1, <1>2, <1>3, <1>4, <1>5, <1>6, <1>7, <1>8, <1>9, <1>10, <1>11, <1>12, <1>13, <1>14, <1>15, <1>16,
     <1>17, <1>18, <1>19, <1>20, <1>21 DEF Next, ThreadStep, MainStep, Ask
<1>q. QED
  BY <1>22 DEF Goal

-----------------------------------------------------------------------------
(* The invariant *)

LEMMA PanicKept ==
  ASSUME TypeInv, ThreadInv, OneThreadInv, WakeInv, StateInv, ReportInv, ~panicked, Next
  PROVE  ~panicked'
<1> USE DEF threadVars, schedVars, timerVars, fdVars, fiberVars
<1>1. ASSUME NEW t \in Thread, Take(t)
      PROVE  ~panicked'
  <2>1. PICK i \in DOMAIN tasks :
          /\ tasks[i] \in Item
          /\ panicked' = (panicked \/ ~(tasks[i].op \in {"start", "resume"} => state[tasks[i].fiber] = "READY"))
    BY <1>1, TakeFacts
  <2>2. Free(t, "scan") /\ tasks[i].fiber \in Fiber
    BY <1>1, <2>1 DEF Take, Item
  <2>3. tasks[i].op \in {"start", "resume"} => state[tasks[i].fiber] = "READY"
    BY <2>2, TakenFacts
  <2>q. QED
    BY <2>1, <2>3
<1>2. ASSUME NEW t \in Thread, HandleEvent(t)
      PROVE  ~panicked'
  <2>1. PICK r \in report[t] :
          /\ r.fd \in Fd
          /\ CondPanic(Registered(r.fd) \cap r.events # {} => r.events \subseteq Registered(r.fd))
    BY <1>2, HandleEventFacts
  <2>2. r.events \subseteq Registered(r.fd)
    BY <2>1, IOAssumption DEF ReportInv
  <2>q. QED
    BY <2>1, <2>2 DEF CondPanic
<1>3. ASSUME \/ \E t \in Thread \cup {Main} : Tickle(t)
             \/ \E t \in Thread : \/ FindNothing(t) \/ EnterIdle(t) \/ Ask(t) \/ EpollWait(t) \/ ScheduleExpired(t)
                                  \/ DrainPipe(t) \/ LeaveIdle(t) \/ WakeSleeper(t) \/ TimeOutCall(t)
                                  \/ Finish(t) \/ (\E d \in Delay : Sleep(t, d)) \/ (\E c \in Call : DoIo(t, c))
                                  \/ ResumeIo(t) \/ (\E fd \in Fd : Close(t, fd)) \/ Yield(t)
             \/ \E f \in Fiber : \/ \E th : MainSchedule(f, th)
                                 \/ \E d \in Delay : MainAddTimer(f, d) \/ ResetTimer(f, d)
                                 \/ CancelTimer(f) \/ RefreshTimer(f)
             \/ Stop \/ Tick
             \/ \E fd \in Fd, e \in Event : Arrive(fd, e)
      PROVE  panicked' = panicked
  BY <1>3, AskFacts DEF Tickle, FindNothing, EnterIdle, EpollWait, ScheduleExpired, DrainPipe, LeaveIdle, WakeSleeper, TimeOutCall,
     Finish, Sleep, DoIo, ResumeIo, Close, Yield, MainSchedule, MainAddTimer, ResetTimer, CancelTimer, RefreshTimer,
     Stop, Tick, Arrive
<1> HIDE DEF threadVars, schedVars, timerVars, fdVars, fiberVars
<1>4. Timed \subseteq Fiber
  BY IOAssumption
<1>q. QED
  BY <1>1, <1>2, <1>3, <1>4 DEF Next, ThreadStep, MainStep, Ask

LEMMA FiberStutter == ASSUME FiberInv, UNCHANGED vars PROVE FiberInv'
<1> USE DEF vars, threadVars, schedVars, timerVars, fdVars, fiberVars
<1>1. TypeInv'
  BY DEF FiberInv, TypeInv
<1>2. ThreadInv'
  BY DEF FiberInv, ThreadInv, Idlers
<1>3. OneThreadInv'
  BY DEF FiberInv, OneThreadInv, OneThread, PlainItem
<1>4. OverInv' /\ SleepInv'
  BY DEF FiberInv, OverInv, SleepInv, OneThread, Awake
<1>5. WakeInv'
  BY DEF FiberInv, WakeInv, Lone, TimerWakes, ListWakes, QueueWakes, EventWakes, RunWakes, Wakeful, Waiting, Resumed, On
<1>6. FitInv' /\ CallInv' /\ StateInv' /\ ReportInv'
  BY DEF FiberInv, FitInv, Fits, CallInv, StateInv, On, ReportInv, Registered
<1>7. OrderInv' /\ TimeInv'
  BY DEF FiberInv, OrderInv, Resumes, TimeInv, InTime, Current
<1>q. QED
  BY <1>1, <1>2, <1>3, <1>4, <1>5, <1>6, <1>7 DEF FiberInv

LEMMA FiberStep == ASSUME FiberInv, Next PROVE FiberInv'
<1>1. /\ TypeInv /\ ThreadInv /\ OneThreadInv /\ OverInv /\ SleepInv
      /\ WakeInv /\ FitInv /\ CallInv /\ StateInv /\ ReportInv
      /\ OrderInv /\ TimeInv /\ ~panicked
  BY DEF FiberInv
<1>2. OneThreadInv' /\ pool' = pool
  BY <1>1, OneThreadKept, PoolKept
<1>3. TypeInv' /\ ThreadInv'
  BY <1>1, TypeKept, ThreadKept
<1>4. OverInv' /\ SleepInv'
  BY <1>1, OverKept, SleepKept
<1>5. WakeInv' /\ FitInv' /\ CallInv' /\ StateInv' /\ ReportInv'
  BY <1>1, WakeKept, FitKept, CallKept, StateKept, ReportKept
<1>6. OrderInv' /\ TimeInv' /\ ~panicked'
  BY <1>1, <1>2, OrderKept, TimeKept, PanicKept
<1>q. QED
  BY <1>2, <1>3, <1>4, <1>5, <1>6 DEF FiberInv

\* FiberInv holds in every state of a behaviour.
THEOREM FiberInvHolds == Spec => []FiberInv
<1>1. FiberInv /\ [Next]_vars => FiberInv'
  BY FiberStep, FiberStutter
<1>q. QED
  BY <1>1, InitInv, PTL DEF Spec

-----------------------------------------------------------------------------
(* What it gives *)

\* No CondPanic fails, however many threads, fibers, descriptors and calls
\* there are: a fiber taken from the queue is READY (scheduler.cpp:131) and an
\* event that is triggered is registered (iomanager.cpp:32).
THEOREM NothingPanics == Spec => []NoPanic
<1>1. FiberInv => NoPanic
  BY DEF FiberInv, NoPanic
<1>q. QED
  BY <1>1, FiberInvHolds, PTL

LEMMA OneWakeHolds == ASSUME FiberInv PROVE OneWake
<1> SUFFICES ASSUME NEW f \in Fiber, at[f] \notin {"new", "user", "done"}, state[f] = "READY"
             PROVE  Cardinality(Wakes(f)) = 1
  BY DEF OneWake
<1>1. TypeInv /\ ThreadInv /\ StateInv /\ WakeOf(f)
  BY WakeUnfold DEF FiberInv
<1>2. \A t \in Thread : ~On(t, f)
  BY <1>1 DEF StateInv
<1>3. Waiting(f)
  BY <1>1, <1>2 DEF Waiting, Resumed, TypeInv
<1> DEFINE A == {<<"timer", x>> : x \in {y \in timers : y.fiber = f /\ y.op \in {"start", "wake"}}}
           B == {<<"listed", t>> : t \in {u \in Thread : \E c \in cbs[u] : c.fiber = f /\ c.op \in {"start", "wake"}}}
           C == {<<"queued", i>> : i \in {j \in DOMAIN tasks : tasks[j].fiber = f /\ tasks[j].op # "timeout"}}
           D == {<<"event", x>> : x \in {y \in Fd \X Event : waiter[y[1]][y[2]] = f}}
           E == {<<"runs", t>> : t \in {u \in Thread : task[u].fiber = f /\ task[u].op = "wake"}}
<1>4. Wakes(f) = A \cup B \cup C \cup D \cup E
  BY DEF Wakes
<1>5. (\A z \in A : \E x \in TimerWakes(f) : z = <<"timer", x>>) /\ \A x \in TimerWakes(f) : <<"timer", x>> \in A
  <2>1. \A x \in timers : Wakeful(x) <=> x.op \in {"start", "wake"}
    BY <1>1 DEF TypeInv, Timer, Wakeful
  <2>q. QED
    BY <2>1 DEF TimerWakes
<1>6. (\A z \in B : \E p \in ListWakes(f) : z = <<"listed", p[1]>>) /\ \A p \in ListWakes(f) : <<"listed", p[1]>> \in B
  <2>1. \A u \in Thread : \A c \in cbs[u] : Wakeful(c) <=> c.op \in {"start", "wake"}
    <3>1. \A u \in Thread : \A c \in cbs[u] : c.op \in Op /\ c.op # "resume"
      BY <1>1 DEF TypeInv, ThreadInv, Item
    <3>q. QED
      BY <3>1 DEF Op, Wakeful
  <2>2. ASSUME NEW u \in Thread, NEW c \in cbs[u], c.fiber = f, Wakeful(c)
        PROVE  <<u, c>> \in ListWakes(f) /\ <<u, c>>[1] = u
    BY <2>2 DEF ListWakes
  <2>3. \A p \in ListWakes(f) : \E u \in Thread : \E c \in cbs[u] : p[1] = u /\ c.fiber = f /\ Wakeful(c)
    BY DEF ListWakes
  <2>4. ASSUME NEW z \in B
        PROVE  \E p \in ListWakes(f) : z = <<"listed", p[1]>>
    <3>1. PICK u \in Thread : z = <<"listed", u>> /\ \E c \in cbs[u] : c.fiber = f /\ c.op \in {"start", "wake"}
      OBVIOUS
    <3>2. PICK c \in cbs[u] : c.fiber = f /\ c.op \in {"start", "wake"}
      BY <3>1
    <3>3. Wakeful(c)
      BY <3>2 DEF Wakeful
    <3>q. QED
      BY <2>2, <3>1, <3>2, <3>3
  <2>5. ASSUME NEW p \in ListWakes(f)
        PROVE  <<"listed", p[1]>> \in B
    BY <2>1, <2>3
  <2>q. QED
    BY <2>4, <2>5
<1>7. (\A z \in C : \E i \in QueueWakes(f) : z = <<"queued", i>>) /\ \A i \in QueueWakes(f) : <<"queued", i>> \in C
  BY DEF QueueWakes, Wakeful
<1>8. (\A z \in D : \E x \in EventWakes(f) : z = <<"event", x>>) /\ \A x \in EventWakes(f) : <<"event", x>> \in D
  BY DEF EventWakes
<1>9. (\A z \in E : \E t \in RunWakes(f) : z = <<"runs", t>>) /\ \A t \in RunWakes(f) : <<"runs", t>> \in E
  BY DEF RunWakes
<1> HIDE DEF A, B, C, D, E
<1>10. \E z : Wakes(f) = {z}
  <2>1. CASE TimerWakes(f) # {}
    <3>1. PICK x : TimerWakes(f) = {x}
      BY <1>1, <2>1 DEF WakeOf, Lone
    <3>2. ListWakes(f) = {} /\ QueueWakes(f) = {} /\ EventWakes(f) = {} /\ RunWakes(f) = {}
      BY <1>1, <2>1 DEF WakeOf
    <3>3. B = {} /\ C = {} /\ D = {} /\ E = {} /\ A = {<<"timer", x>>}
      BY <1>5, <1>6, <1>7, <1>8, <1>9, <3>1, <3>2
    <3>q. QED
      BY <1>4, <3>3
  <2>2. CASE ListWakes(f) # {}
    <3>1. PICK x : ListWakes(f) = {x}
      BY <1>1, <2>2 DEF WakeOf, Lone
    <3>2. TimerWakes(f) = {} /\ QueueWakes(f) = {} /\ EventWakes(f) = {} /\ RunWakes(f) = {}
      BY <1>1, <2>2 DEF WakeOf
    <3>3. A = {} /\ C = {} /\ D = {} /\ E = {} /\ B = {<<"listed", x[1]>>}
      BY <1>5, <1>6, <1>7, <1>8, <1>9, <3>1, <3>2
    <3>q. QED
      BY <1>4, <3>3
  <2>3. CASE QueueWakes(f) # {}
    <3>1. PICK x : QueueWakes(f) = {x}
      BY <1>1, <2>3 DEF WakeOf, Lone
    <3>2. TimerWakes(f) = {} /\ ListWakes(f) = {} /\ EventWakes(f) = {} /\ RunWakes(f) = {}
      BY <1>1, <2>3 DEF WakeOf
    <3>3. A = {} /\ B = {} /\ D = {} /\ E = {} /\ C = {<<"queued", x>>}
      BY <1>5, <1>6, <1>7, <1>8, <1>9, <3>1, <3>2
    <3>q. QED
      BY <1>4, <3>3
  <2>4. CASE EventWakes(f) # {}
    <3>1. PICK x : EventWakes(f) = {x}
      BY <1>1, <2>4 DEF WakeOf, Lone
    <3>2. TimerWakes(f) = {} /\ ListWakes(f) = {} /\ QueueWakes(f) = {} /\ RunWakes(f) = {}
      BY <1>1, <2>4 DEF WakeOf
    <3>3. A = {} /\ B = {} /\ C = {} /\ E = {} /\ D = {<<"event", x>>}
      BY <1>5, <1>6, <1>7, <1>8, <1>9, <3>1, <3>2
    <3>q. QED
      BY <1>4, <3>3
  <2>5. CASE RunWakes(f) # {}
    <3>1. PICK x : RunWakes(f) = {x}
      BY <1>1, <2>5 DEF WakeOf, Lone
    <3>2. TimerWakes(f) = {} /\ ListWakes(f) = {} /\ QueueWakes(f) = {} /\ EventWakes(f) = {}
      BY <1>1, <2>5 DEF WakeOf
    <3>3. A = {} /\ B = {} /\ C = {} /\ D = {} /\ E = {<<"runs", x>>}
      BY <1>5, <1>6, <1>7, <1>8, <1>9, <3>1, <3>2
    <3>q. QED
      BY <1>4, <3>3
  <2>q. QED
    BY <1>1, <1>3, <2>1, <2>2, <2>3, <2>4, <2>5 DEF WakeOf
<1>q. QED
  BY <1>10, FS_Singleton

\* A fiber that waits is woken by exactly one of its timer, that timer's
\* callback, its event and its place in the queue (do_io and usleep in hook.cpp,
\* IOManager::triggerEvent and cancelEvent).
THEOREM WokenOnce == Spec => []OneWake
<1>q. QED
  BY OneWakeHolds, FiberInvHolds, PTL

\* No sleep and no timeout ends two milliseconds before its time or earlier: a
\* timer that is left over is never of the call its fiber is in (the weak_ptr of
\* do_io), and what usec / 1000 and GetElapsedMS round away is less.
THEOREM NobodyEarly == Spec => []NotBeforeTime
<1>1. ASSUME FiberInv PROVE NotBeforeTime
  <2>1. TypeInv /\ TimeInv
    BY <1>1 DEF FiberInv
  <2>2. ASSUME NEW i \in DOMAIN tasks, tasks[i].op = "wake"
        PROVE  due[tasks[i].fiber] <= 2
    <3>1. due[tasks[i].fiber] <= 0 + 2
      BY <2>1, <2>2 DEF TimeInv, InTime
    <3>q. QED
      BY <3>1
  <2>q. QED
    BY <2>1, <2>2 DEF NotBeforeTime, TimeInv
<1>q. QED
  BY <1>1, FiberInvHolds, PTL

\* While the idle fiber of some thread has not ended, the pool never sleeps past
\* its first timer, although tickled_ keeps most timers from writing a byte, and
\* although idle() looks at the timers, at isStopped_ and waits in separate steps
\* (TimerManager::addTimer, IOManager::stopping, IOManager::idle).
THEOREM NobodyOversleeps == Spec => []NoOversleep
<1>1. ASSUME FiberInv, timers # {}, ~pipe, owes = {}, over # pool
      PROVE  \E t \in pool \ over : pc[t] \notin {"pending", "stopping", "wait"}
                                      \/ (pc[t] = "wait" /\ \A x \in timers : waitLeft[t] <= x.left)
  <2>1. TypeInv /\ OverInv /\ SleepInv
    BY <1>1 DEF FiberInv
  <2>2. ~(pool \subseteq over)
    BY <1>1, <2>1 DEF TypeInv
  <2>3. CASE \E t \in pool \ over : Awake(t)
    BY <2>3 DEF Awake
  <2>4. CASE \E t \in pool : pc[t] = "wait" /\ \A x \in timers : waitLeft[t] <= x.left
    <3>1. PICK t \in pool : pc[t] = "wait" /\ \A x \in timers : waitLeft[t] <= x.left
      BY <2>4
    <3>2. t \notin over
      BY <2>1, <3>1 DEF OverInv
    <3>q. QED
      BY <3>1, <3>2
  <2>q. QED
    BY <1>1, <2>1, <2>2, <2>3, <2>4 DEF SleepInv
<1>2. FiberInv => NoOversleep
  BY <1>1 DEF NoOversleep
<1>q. QED
  BY <1>2, FiberInvHolds, PTL
=============================================================================
