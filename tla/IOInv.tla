------------------------------- MODULE IOInv -------------------------------
(***************************************************************************)
(* The inductive invariant behind the safety properties of module          *)
(* IOManager.  It is model-checked with them and proved in                 *)
(* IOManagerProofs.                                                        *)
(***************************************************************************)
EXTENDS IOManager

Op == {"start", "resume", "wake", "timeout"}
Item == [op : Op, fiber : Fiber, n : Nat, thread : Thread \cup {Any}]
Timer == [op : {"start", "wake", "timeout"}, fiber : Fiber, n : Nat, left : Nat, ms : Nat]
Report == [fd : Fd \cup {Pipe}, events : SUBSET Event]

\* The types of the variables.
TypeInv ==
  /\ pool \in Pools
  /\ pc \in [Thread -> {"scan", "run", "yield", "enter", "ask", "pending", "stopping", "wait",
                   "handle", "exited"}]
  /\ task \in [Thread -> Item \cup {NoTask}]
  /\ cbs \in [Thread -> SUBSET Item]
  /\ report \in [Thread -> SUBSET Report]
  /\ waitLeft \in [Thread -> Nat]
  /\ tasks \in Seq(Item)
  /\ idleCnt \in Nat
  /\ stopped \in BOOLEAN /\ pipe \in BOOLEAN /\ tickled \in BOOLEAN /\ panicked \in BOOLEAN
  /\ owes \subseteq pool \cup {Main}
  /\ timers \subseteq Timer
  /\ waiter \in [Fd -> [Event -> Fiber \cup {None}]]
  /\ edge \subseteq Fd
  /\ ready \in [Fd -> SUBSET Event]
  /\ state \in [Fiber -> {"READY", "RUNNING", "TERM"}]
  /\ at \in [Fiber -> {"new", "queued", "timer", "sleep", "io", "user", "done"}]
  /\ call \in [Fiber -> Call \cup {NoCall}]
  /\ calls \in [Fiber -> Nat]
  /\ cancelled \in [Fiber -> BOOLEAN]
  /\ due \in [Fiber -> Nat]
  /\ over \subseteq pool

\* Where a thread is determines what it holds; idleThreadCnt_ counts those in
\* their idle fiber.
Idlers == {t \in pool : pc[t] \in {"ask", "pending", "stopping", "wait", "handle"}}
ThreadInv ==
  /\ \A t \in Thread :
       /\ t \notin pool => pc[t] = "exited"
       /\ pc[t] # "handle" => cbs[t] = {} /\ report[t] = {}
       /\ pc[t] \notin {"run", "yield"} => task[t] = NoTask
       /\ pc[t] = "run" => task[t] # NoTask
       /\ pc[t] = "yield" => task[t].op \in {"start", "resume"}
       /\ \A c \in cbs[t] : c.thread = Any /\ c.op # "resume"
  /\ idleCnt = Cardinality(Idlers)
  /\ \A i \in DOMAIN tasks : tasks[i].thread \in pool \cup {Any}

\* Only the fiber of a pool of one thread waits; elsewhere tasks start a fiber
\* that does not yield.
PlainItem(x) == x.op = "start"
OneThreadInv ==
  OneThread \/
    /\ \A t \in Thread : /\ pc[t] # "yield"
                         /\ task[t] = NoTask \/ PlainItem(task[t])
                         /\ \A c \in cbs[t] : PlainItem(c)
    /\ \A i \in DOMAIN tasks : PlainItem(tasks[i])
    /\ \A x \in timers : PlainItem(x)
    /\ \A d \in Fd, e \in Event : waiter[d][e] = None
    /\ \A f \in Fiber : at[f] \notin {"sleep", "io"}

-----------------------------------------------------------------------------
(* Sleeping threads *)

\* It will ask for the next timer before it waits.
Awake(t) == pc[t] \notin {"pending", "stopping", "wait", "exited"}

\* A thread's idle fiber ends when the pool is stopped; the thread may still take
\* tasks then, but in a pool of one thread there are none.
OverInv ==
  /\ \A t \in pool : pc[t] = "exited" => t \in over
  /\ \A t \in over : pc[t] \in {"scan", "run", "exited"}
  /\ over # {} => stopped
  /\ over # {} /\ OneThread => tasks = <<>> /\ \A t \in pool : pc[t] \in {"scan", "exited"}

\* If all threads sleep, a byte for them is in the pipe or on its way whenever
\* tickled_ says so; and whenever nobody's wait ends by the time of the first
\* timer, unless every idle fiber has ended.
SleepInv ==
  \/ \E t \in pool \ over : Awake(t)
  \/ pool \subseteq over
  \/ pipe
  \/ owes # {}
  \/ /\ ~tickled
     /\ timers # {} => \E t \in pool : pc[t] = "wait" /\ \A x \in timers : waitLeft[t] <= x.left

-----------------------------------------------------------------------------
(* Fibers and what wakes them *)

Wakeful(x) == x.op # "timeout"   \* of a timer, callback or task: it resumes its fiber

TimerWakes(f) == {x \in timers : x.fiber = f /\ Wakeful(x)}
ListWakes(f) == UNION {{t} \X {c \in cbs[t] : c.fiber = f /\ Wakeful(c)} : t \in Thread}
QueueWakes(f) == {i \in DOMAIN tasks : tasks[i].fiber = f /\ Wakeful(tasks[i])}
EventWakes(f) == {x \in Fd \X Event : waiter[x[1]][x[2]] = f}
RunWakes(f) == {t \in Thread : task[t].fiber = f /\ task[t].op = "wake"}

\* Thread t has resumed fiber f; it stays so until f has yielded.
On(t, f) == task[t].fiber = f /\ task[t].op \in {"start", "resume"}
Resumed(f) == \E t \in Thread : pc[t] = "run" /\ On(t, f)
Waiting(f) == at[f] \in {"queued", "timer", "sleep", "io"} /\ ~Resumed(f)

Lone(S) == \A x, y \in S : x = y

\* A fiber that waits is woken by one thing of one kind, any other by nothing.
WakeInv ==
  \A f \in Fiber :
    LET kinds == <<TimerWakes(f), ListWakes(f), QueueWakes(f), EventWakes(f), RunWakes(f)>> IN
    /\ \A k \in 1 .. 5 : Lone(kinds[k])
    /\ \A k, l \in 1 .. 5 : kinds[k] # {} /\ kinds[l] # {} => k = l
    /\ Waiting(f) <=> \E k \in 1 .. 5 : kinds[k] # {}

\* What wakes a fiber fits what it is at.
Fits(x) ==
  /\ x.op = "start" => at[x.fiber] \in {"queued", "timer"}
  /\ x.op = "wake" => at[x.fiber] = "sleep"
  /\ x.op = "resume" => at[x.fiber] \in {"sleep", "io"}
FitInv ==
  /\ \A x \in timers : Fits(x)
  /\ \A t \in Thread : \A c \in cbs[t] : Fits(c)
  /\ \A i \in DOMAIN tasks : Fits(tasks[i])
  /\ \A t \in Thread : task[t].op = "wake" => Fits(task[t])

\* A fiber that is in a call is the only one at its event, and what is
\* registered for an event is in that call.
CallInv ==
  /\ \A f \in Fiber : at[f] = "io" => call[f] \in Call
  /\ \A f, g \in Fiber :
       at[f] = "io" /\ at[g] = "io" /\ call[f].fd = call[g].fd /\ call[f].event = call[g].event => f = g
  /\ \A d \in Fd, e \in Event : waiter[d][e] # None =>
       LET f == waiter[d][e] IN at[f] = "io" /\ call[f].fd = d /\ call[f].event = e

\* The state of a fiber says whether a thread runs it, and which.
StateInv ==
  /\ \A t \in Thread, f \in Fiber : On(t, f) =>
       /\ state[f] = "RUNNING"
       /\ pc[t] = "run" => at[f] \in {"user", "io"}
       /\ pc[t] = "yield" => at[f] \in {"sleep", "io"}
  /\ \A t, u \in Thread, f \in Fiber : On(t, f) /\ On(u, f) => t = u
  /\ \A f \in Fiber : state[f] = "RUNNING" => \E t \in Thread : On(t, f)
  /\ \A f \in Fiber : state[f] = "TERM" => at[f] = "done"

\* What epoll reported is registered until it is handled.
ReportInv ==
  \A t \in Thread : \A r \in report[t] : r.fd # Pipe =>
    /\ r.events \subseteq Registered(r.fd)
    /\ \A s \in report[t] : s.fd = r.fd => s = r

-----------------------------------------------------------------------------
(* Time *)

Resumes == \E i \in DOMAIN tasks : tasks[i].op = "resume"

\* A timeout that is queued is taken before a fiber that is resumed: the
\* callbacks of an epoll_wait are queued first, on what was an empty queue.
OrderInv ==
  /\ \A i, j \in DOMAIN tasks : i < j /\ tasks[i].op = "resume" => tasks[j].op # "timeout"
  /\ \A t \in Thread : pc[t] \in {"enter", "ask", "pending", "stopping", "wait"} \/ cbs[t] # {} => ~Resumes
  /\ \A t \in Thread : pc[t] = "run" /\ task[t].op = "resume" =>
       \A i \in DOMAIN tasks : tasks[i].op # "timeout"

\* Of the call its fiber is in.
Current(x) == at[x.fiber] = "io" /\ calls[x.fiber] = x.n

\* What is due is due when its timer is, or two changes of the clock later; or has a
\* timer behind it.
InTime(x, left) ==
  /\ x.op = "wake" => due[x.fiber] <= left + 2
  /\ x.op = "timeout" => /\ x.n <= calls[x.fiber]
                         /\ Current(x) => due[x.fiber] <= left + 2
TimeInv ==
  /\ \A x \in timers : InTime(x, x.left) /\ x.left <= x.ms
  /\ \A t \in Thread : \A c \in cbs[t] : InTime(c, 0)
  /\ \A i \in DOMAIN tasks : InTime(tasks[i], 0)
  /\ \A t \in Thread : task[t] # NoTask => InTime(task[t], 0)
  /\ \A f \in Fiber : cancelled[f] => at[f] = "io" /\ due[f] <= 2

\* Threads that sleep or end, fibers that wait and what wakes them, calls, epoll's
\* reports and times stay consistent: what idle(), do_io and triggerEvent take for
\* granted of each other (iomanager.cpp 285-414, hook.cpp 87-176).
FiberInv ==
  /\ TypeInv /\ ThreadInv /\ OneThreadInv /\ OverInv /\ SleepInv
  /\ WakeInv /\ FitInv /\ CallInv /\ StateInv /\ ReportInv
  /\ OrderInv /\ TimeInv /\ ~panicked
=============================================================================
