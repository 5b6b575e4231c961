----------------------------- MODULE IOManager -----------------------------
(***************************************************************************)
(* The fiber library: Scheduler, IOManager, TimerManager, Fiber and the    *)
(* hooked system calls (fiber/*.cpp).                                      *)
(*                                                                         *)
(* Threads of the pool run tasks from one queue.  A thread without a task  *)
(* enters its idle fiber, which waits in epoll_wait for a byte in a pipe   *)
(* (tickle), an event of a file descriptor, or the time of the next timer. *)
(* Main is a thread outside the pool that schedules, sets timers and stops *)
(* the pool.  An action is one critical section, or what a thread does     *)
(* between two of them.                                                    *)
(*                                                                         *)
(* Time is what is left of each timer and each wait, counted in changes of *)
(* GetElapsedMS, the whole milliseconds since boot.  Fibers that wait      *)
(* (usleep, do_io) need a pool of one thread, as in Raft (FIBER_THREAD_NUM *)
(* is 1): with two, a fiber may be queued on one thread before it has      *)
(* yielded on the other.  A larger pool runs callbacks only, and leaves    *)
(* descriptors alone.                                                      *)
(***************************************************************************)
EXTENDS Naturals, Sequences, FiniteSets

CONSTANTS
  Thread, Fiber, Fd,
  Pools, Pins,  \* the pools to consider; the threads that tasks are pinned to
  Timed,        \* the fibers that Main may start by a timer
  MaxDelay,     \* bound: of a timer
  MaxTimeout,   \* MAX_TIMEOUT of idle, on the same scale
  MaxCalls,     \* bound: system calls of one fiber
  Any, None     \* no thread in particular; no fiber

Event == {"READ", "WRITE"}
Main == "main"
Pipe == "pipe"

ASSUME IOAssumption ==   \* a Scheduler is constructed with a thread at least
  /\ {MaxDelay, MaxTimeout, MaxCalls} \subseteq Nat
  /\ Pins \subseteq Thread /\ Timed \subseteq Fiber
  /\ Main \notin Thread /\ Any \notin Thread /\ None \notin Fiber /\ Pipe \notin Fd
  /\ \A P \in Pools : P \subseteq Thread /\ P # {} /\ IsFiniteSet(P)

VARIABLES
  pool,                   \* the threads there are
  pc, task, cbs, report,  \* of a thread: where it is, what it runs, what is left to do in idle
  waitLeft,               \* of a thread: the time its epoll_wait has left
  tasks,                  \* tasks_
  idleCnt, activeCnt,     \* idleThreadCnt_, activeThreadCnt_
  stopped,                \* isStopped_
  pipe,                   \* epoll has a byte in the pipe to report
  owes,                   \* who has queued something and calls tickle next
  timers, tickled,        \* timers_, tickled_
  waiter,                 \* of an fd and event: the fiber in its EventContext
  edge,                   \* fds for which epoll has something to report
  ready, open,            \* what an fd is ready for; the fds that are not closed
  pendingEventCnt,
  state, at, call, calls, \* of a fiber: state_, what it is at, its system call, their number
  cancelled,              \* tinfo->cnacelled of that call
  due,                    \* history: until the time it asked to wait has passed
  over,                   \* the threads whose idle fiber has ended
  panicked                \* a CondPanic has failed

threadVars == <<pool, pc, task, cbs, report, waitLeft, over>>
schedVars == <<tasks, idleCnt, activeCnt, stopped, pipe, owes>>
timerVars == <<timers, tickled>>
fdVars == <<waiter, edge, ready, open, pendingEventCnt>>
fiberVars == <<state, at, call, calls, cancelled, due>>
vars == <<threadVars, schedVars, timerVars, fdVars, fiberVars, panicked>>

NoTask == [op |-> "none", fiber |-> None, n |-> 0, thread |-> Any]
NoCall == [fd |-> None, event |-> "READ", timeout |-> 0, timed |-> FALSE]
Task(op, f, th) == [op |-> op, fiber |-> f, n |-> calls[f], thread |-> th]

Init ==
  /\ pool \in Pools
  /\ pc = [t \in Thread |-> IF t \in pool THEN "scan" ELSE "exited"]
  /\ task = [t \in Thread |-> NoTask]
  /\ cbs = [t \in Thread |-> {}]
  /\ report = [t \in Thread |-> {}]
  /\ waitLeft = [t \in Thread |-> 0]
  /\ tasks = <<>> /\ idleCnt = 0 /\ activeCnt = 0
  /\ stopped = FALSE /\ pipe = FALSE /\ owes = {}
  /\ timers = {} /\ tickled = FALSE
  /\ waiter = [d \in Fd |-> [e \in Event |-> None]]
  /\ edge = {} /\ ready = [d \in Fd |-> {}] /\ open = Fd
  /\ pendingEventCnt = 0
  /\ state = [f \in Fiber |-> "READY"]
  /\ at = [f \in Fiber |-> "new"]
  /\ call = [f \in Fiber |-> NoCall]
  /\ calls = [f \in Fiber |-> 0]
  /\ cancelled = [f \in Fiber |-> FALSE]
  /\ due = [f \in Fiber |-> 0]
  /\ over = {} /\ panicked = FALSE

-----------------------------------------------------------------------------
(* Helpers *)

CondPanic(ok) == panicked' = (panicked \/ ~ok)

\* Scheduler::scheduler: a task more; whoever finds the queue empty tickles.
Schedule(who, more) ==
  /\ tasks' = tasks \o more
  /\ owes' = IF tasks = <<>> /\ more # <<>> THEN owes \cup {who} ELSE owes

AddTimerSilent(who, others, tm) ==   \* faulty: tells nobody
  /\ timers' = others \cup {tm}
  /\ UNCHANGED <<tickled, owes>>

\* addTimer: a timer that comes to the front tickles, unless one has since the
\* next timer was last asked for.  Of two with one time either may come first.
AddTimer(who, others, tm) ==
  LET front == \A x \in others : tm.left <= x.left
      first == \A x \in others : tm.left < x.left
  IN
  /\ timers' = others \cup {tm}
  /\ \E atFront \in {front, first} :
       LET tickles == atFront /\ ~tickled IN
       /\ tickled' = (tickled \/ tickles)
       /\ owes' = IF tickles THEN owes \cup {who} ELSE owes

Registered(fd) == {e \in Event : waiter[fd][e] # None}

\* epoll_ctl with new interests: epoll looks at the descriptor again.
Rearm(fd, events) ==
  edge' = IF fd \in open /\ events \cap ready[fd] # {} THEN edge \cup {fd} ELSE edge \ {fd}

\* triggerEvent: what its waiter is queued as, READ before WRITE.
Triggered(fd, events) ==
  LET one(e) == IF e \in events /\ waiter[fd][e] # None
                  THEN <<Task("resume", waiter[fd][e], Any)>> ELSE <<>>
  IN  one("READ") \o one("WRITE")

UnregisterFlag(fd, events) ==   \* faulty: the waiter stays in its EventContext
  /\ pendingEventCnt' = pendingEventCnt - Cardinality(events)
  /\ Rearm(fd, Registered(fd) \ events)
  /\ UNCHANGED waiter

UnregisterLeak(fd, events) ==   \* faulty: the count is forgotten
  /\ waiter' = [waiter EXCEPT ![fd] = [e \in Event |-> IF e \in events THEN None ELSE @[e]]]
  /\ Rearm(fd, Registered(fd) \ events)
  /\ UNCHANGED pendingEventCnt

\* What is left of an fd context when events have been triggered or removed.
Unregister(fd, events) ==
  /\ waiter' = [waiter EXCEPT ![fd] = [e \in Event |-> IF e \in events THEN None ELSE @[e]]]
  /\ pendingEventCnt' = pendingEventCnt - Cardinality(events)
  /\ Rearm(fd, Registered(fd) \ events)

-----------------------------------------------------------------------------
(* Scheduler *)

\* tickle: a byte for the pipe, if some thread is in its idle fiber.
Tickle(who) ==
  /\ who \in owes
  /\ owes' = owes \ {who}
  /\ pipe' = (pipe \/ idleCnt > 0)
  /\ UNCHANGED <<threadVars, tasks, idleCnt, activeCnt, stopped, timerVars, fdVars, fiberVars, panicked>>

Free(t, where) == pc[t] = where /\ t \notin owes

RunnablePinned(t) == {i \in DOMAIN tasks : tasks[i].thread = t}   \* faulty: skips what is for any
Runnable(t) == {i \in DOMAIN tasks : tasks[i].thread \in {Any, t}}

\* run: the first task that is not for another thread.  The others are told if
\* there are more.  A fiber that is resumed must be READY.
Take(t) ==
  LET i == CHOOSE k \in Runnable(t) : \A l \in Runnable(t) : k <= l
      x == tasks[i]
      runs == x.op \in {"start", "resume"}
  IN
  /\ Free(t, "scan") /\ Runnable(t) # {}
  /\ tasks' = SubSeq(tasks, 1, i - 1) \o SubSeq(tasks, i + 1, Len(tasks))
  /\ owes' = IF Len(tasks) > 1 THEN owes \cup {t} ELSE owes
  /\ activeCnt' = activeCnt + 1
  /\ task' = [task EXCEPT ![t] = x]
  /\ pc' = [pc EXCEPT ![t] = "run"]
  /\ CondPanic(runs => state[x.fiber] = "READY")
  /\ state' = IF runs THEN [state EXCEPT ![x.fiber] = "RUNNING"] ELSE state
  /\ at' = IF runs /\ at[x.fiber] # "io" THEN [at EXCEPT ![x.fiber] = "user"] ELSE at
  /\ UNCHANGED <<pool, cbs, report, waitLeft, over, idleCnt, stopped, pipe, timerVars, fdVars,
                 call, calls, cancelled, due>>

\* run without a task: on to the idle fiber, or out if that has ended.
FindNothing(t) ==
  /\ Free(t, "scan") /\ Runnable(t) = {}
  /\ owes' = IF tasks # <<>> THEN owes \cup {t} ELSE owes
  /\ pc' = [pc EXCEPT ![t] = IF t \in over THEN "exited" ELSE "enter"]
  /\ UNCHANGED <<pool, task, cbs, report, waitLeft, over, tasks, idleCnt, activeCnt, stopped, pipe,
                 timerVars, fdVars, fiberVars, panicked>>

-----------------------------------------------------------------------------
(* IOManager::idle *)

StoppingWithTasks == stopped /\ activeCnt = 0   \* faulty: forgets the queue

\* Scheduler::stopping.
Stopping == stopped /\ tasks = <<>> /\ activeCnt = 0

Earlier(k, l) == IF k < l THEN k ELSE l

\* How long epoll_wait may take: until the next timer, MAX_TIMEOUT at most.
NextTimeout ==
  IF timers = {} THEN MaxTimeout
  ELSE Earlier(MaxTimeout, (CHOOSE x \in timers : \A y \in timers : x.left <= y.left).left)

\* The idle fiber is resumed.
EnterIdle(t) ==
  /\ Free(t, "enter")
  /\ idleCnt' = idleCnt + 1
  /\ pc' = [pc EXCEPT ![t] = "ask"]
  /\ UNCHANGED <<pool, task, cbs, report, waitLeft, over, tasks, activeCnt, stopped, pipe, owes,
                 timerVars, fdVars, fiberVars, panicked>>

\* IOManager::stopping reads the timers, the pending events and the scheduler one
\* after the other, each under its own lock.  What ends it is remembered: a timer
\* that is added meanwhile neither keeps the fiber nor shortens its wait.
AskNextTimer(t) ==
  /\ Free(t, "ask")
  /\ tickled' = FALSE
  /\ IF timers = {}
       THEN pc' = [pc EXCEPT ![t] = "pending"] /\ UNCHANGED waitLeft
       ELSE /\ pc' = [pc EXCEPT ![t] = "wait"]
            /\ waitLeft' = [waitLeft EXCEPT ![t] = NextTimeout]
  /\ UNCHANGED <<pool, task, cbs, report, over, schedVars, timers, fdVars, fiberVars, panicked>>

WaitLong(t) ==
  /\ pc' = [pc EXCEPT ![t] = "wait"]
  /\ waitLeft' = [waitLeft EXCEPT ![t] = MaxTimeout]

AskPending(t) ==
  /\ Free(t, "pending")
  /\ IF pendingEventCnt = 0
       THEN pc' = [pc EXCEPT ![t] = "stopping"] /\ UNCHANGED waitLeft
       ELSE WaitLong(t)
  /\ UNCHANGED <<pool, task, cbs, report, over, schedVars, timerVars, fdVars, fiberVars, panicked>>

\* The idle fiber ends, or waits.
AskStopping(t) ==
  /\ Free(t, "stopping")
  /\ IF Stopping
       THEN /\ over' = over \cup {t}
            /\ idleCnt' = idleCnt - 1
            /\ pc' = [pc EXCEPT ![t] = "scan"] /\ UNCHANGED waitLeft
       ELSE WaitLong(t) /\ UNCHANGED <<over, idleCnt>>
  /\ UNCHANGED <<pool, task, cbs, report, tasks, activeCnt, stopped, pipe, owes, timerVars,
                 fdVars, fiberVars, panicked>>

ExpiredAll == timers   \* faulty: takes the clock for set back
Expired == {x \in timers : x.left = 0}

\* epoll_wait returns with all there is to report, or because time is up; what
\* it has reported once it reports no more (EPOLLET).  listExpiredCb follows.
EpollWait(t) ==
  /\ Free(t, "wait")
  /\ pipe \/ edge # {} \/ waitLeft[t] = 0
  /\ report' = [report EXCEPT ![t] =
       {[fd |-> d, events |-> Registered(d) \cap ready[d]] : d \in edge}
         \cup (IF pipe THEN {[fd |-> Pipe, events |-> {}]} ELSE {})]
  /\ pipe' = FALSE /\ edge' = {}
  /\ waitLeft' = [waitLeft EXCEPT ![t] = 0]
  /\ timers' = timers \ Expired
  /\ cbs' = [cbs EXCEPT ![t] =
       {[op |-> x.op, fiber |-> x.fiber, n |-> x.n, thread |-> Any] : x \in Expired}]
  /\ pc' = [pc EXCEPT ![t] = "handle"]
  /\ UNCHANGED <<pool, task, over, tasks, idleCnt, activeCnt, stopped, owes, tickled,
                 waiter, ready, open, pendingEventCnt, fiberVars, panicked>>

ScheduleExpired(t) ==
  /\ Free(t, "handle")
  /\ \E c \in cbs[t] : /\ Schedule(t, <<c>>)
                       /\ cbs' = [cbs EXCEPT ![t] = @ \ {c}]
  /\ UNCHANGED <<pool, pc, task, report, waitLeft, over, idleCnt, activeCnt, stopped, pipe,
                 timerVars, fdVars, fiberVars, panicked>>

DrainPipe(t) ==
  LET r == [fd |-> Pipe, events |-> {}] IN
  /\ Free(t, "handle") /\ cbs[t] = {} /\ r \in report[t]
  /\ report' = [report EXCEPT ![t] = @ \ {r}]
  /\ pipe' = FALSE
  /\ UNCHANGED <<pool, pc, task, cbs, waitLeft, over, tasks, idleCnt, activeCnt, stopped, owes,
                 timerVars, fdVars, fiberVars, panicked>>

\* An event that epoll reported: its waiters are queued, what else is registered
\* is armed again.
HandleEvent(t) ==
  /\ Free(t, "handle") /\ cbs[t] = {}
  /\ \E r \in report[t] :
       /\ r.fd # Pipe
       /\ report' = [report EXCEPT ![t] = @ \ {r}]
       /\ CondPanic(Registered(r.fd) \cap r.events # {} => r.events \subseteq Registered(r.fd))
       /\ IF Registered(r.fd) \cap r.events # {}
            THEN Schedule(t, Triggered(r.fd, r.events)) /\ Unregister(r.fd, r.events)
            ELSE UNCHANGED <<tasks, owes, waiter, pendingEventCnt, edge>>
  /\ UNCHANGED <<pool, pc, task, cbs, waitLeft, over, idleCnt, activeCnt, stopped, pipe,
                 timerVars, ready, open, fiberVars>>

LeaveIdle(t) ==
  /\ Free(t, "handle") /\ cbs[t] = {} /\ report[t] = {}
  /\ idleCnt' = idleCnt - 1
  /\ pc' = [pc EXCEPT ![t] = "scan"]
  /\ UNCHANGED <<pool, task, cbs, report, waitLeft, over, tasks, activeCnt, stopped, pipe, owes,
                 timerVars, fdVars, fiberVars, panicked>>

-----------------------------------------------------------------------------
(* What a thread of the pool runs *)

Runs(t, ops) == Free(t, "run") /\ task[t].op \in ops

EndTask(t) ==
  /\ pc' = [pc EXCEPT ![t] = "scan"]
  /\ task' = [task EXCEPT ![t] = NoTask]
  /\ activeCnt' = activeCnt - 1
  /\ UNCHANGED <<pool, cbs, report, waitLeft, over, idleCnt, stopped, pipe>>

\* The callback of a usleep's timer queues the fiber.
WakeSleeper(t) ==
  /\ Runs(t, {"wake"})
  /\ Schedule(t, <<Task("resume", task[t].fiber, Any)>>)
  /\ due' = [due EXCEPT ![task[t].fiber] = 0]
  /\ EndTask(t)
  /\ UNCHANGED <<timerVars, fdVars, state, at, call, calls, cancelled, panicked>>

\* The callback of do_io's timer, unless that call is over (the weak_ptr) or
\* cancelled: cancelEvent queues whoever waits for the event.
TimeOutCall(t) ==
  LET f == task[t].fiber
      c == call[f]
      current == at[f] = "io" /\ calls[f] = task[t].n /\ ~cancelled[f]
      cancels == current /\ waiter[c.fd][c.event] # None
  IN
  /\ Runs(t, {"timeout"})
  /\ cancelled' = [cancelled EXCEPT ![f] = @ \/ current]
  /\ IF cancels
       THEN Schedule(t, Triggered(c.fd, {c.event})) /\ Unregister(c.fd, {c.event})
       ELSE UNCHANGED <<tasks, owes, waiter, pendingEventCnt, edge>>
  /\ EndTask(t)
  /\ UNCHANGED <<timerVars, ready, open, state, at, call, calls, due, panicked>>

InUser(t) == Runs(t, {"start", "resume"}) /\ at[task[t].fiber] = "user"
OneThread == Cardinality(pool) = 1
MayWait(t) == InUser(t) /\ calls[task[t].fiber] < MaxCalls /\ OneThread

Finish(t) ==
  LET f == task[t].fiber IN
  /\ InUser(t)
  /\ state' = [state EXCEPT ![f] = "TERM"]
  /\ at' = [at EXCEPT ![f] = "done"]
  /\ EndTask(t)
  /\ UNCHANGED <<tasks, owes, timerVars, fdVars, call, calls, cancelled, due, panicked>>

\* At most so many changes of the clock until the time asked for has passed, when d
\* whole milliseconds are asked for: usec / 1000 drops the rest, and GetElapsedMS
\* what has passed of the current one.
Asked(d) == d + 2

\* usleep up to its yield.
Sleep(t, d) ==
  LET f == task[t].fiber IN
  /\ MayWait(t)
  /\ AddTimer(t, timers, [op |-> "wake", fiber |-> f, n |-> calls[f] + 1, left |-> d, ms |-> d])
  /\ at' = [at EXCEPT ![f] = "sleep"]
  /\ calls' = [calls EXCEPT ![f] = @ + 1]
  /\ due' = [due EXCEPT ![f] = Asked(d)]
  /\ pc' = [pc EXCEPT ![t] = "yield"]
  /\ UNCHANGED <<pool, task, cbs, report, waitLeft, over, tasks, idleCnt, activeCnt, stopped, pipe,
                 fdVars, state, call, cancelled, panicked>>

\* addEvent: the fiber that runs becomes the waiter of the event.
AddEvent(fd, event, f) ==
  /\ waiter' = [waiter EXCEPT ![fd][event] = f]
  /\ pendingEventCnt' = pendingEventCnt + 1
  /\ Rearm(fd, Registered(fd) \cup {event})

\* do_io when the call would block: a timer if there is a timeout, the event,
\* and the yield.
Block(t, f, c, n, others) ==
  /\ IF c.timed
       THEN AddTimer(t, others, [op |-> "timeout", fiber |-> f, n |-> n,
                                 left |-> c.timeout, ms |-> c.timeout])
       ELSE timers' = others /\ UNCHANGED <<tickled, owes>>
  /\ AddEvent(c.fd, c.event, f)
  /\ due' = [due EXCEPT ![f] = IF c.timed THEN Asked(c.timeout) ELSE 0]
  /\ pc' = [pc EXCEPT ![t] = "yield"]
  /\ UNCHANGED <<ready>>

\* The call goes through and takes what there is.
Through(c) == ready' = [ready EXCEPT ![c.fd] = @ \ {c.event}]

\* do_io: a read or write of an open descriptor, one fiber at a time for each
\* (a second one is refused by the CondPanic of addEvent).
DoIo(t, c) ==
  LET f == task[t].fiber
      blocks == c.event \notin ready[c.fd]
  IN
  /\ MayWait(t) /\ c.fd \in open
  /\ \A g \in Fiber : at[g] = "io" => <<call[g].fd, call[g].event>> # <<c.fd, c.event>>
  /\ call' = [call EXCEPT ![f] = IF blocks THEN c ELSE NoCall]
  /\ calls' = [calls EXCEPT ![f] = @ + 1]
  /\ at' = [at EXCEPT ![f] = IF blocks THEN "io" ELSE @]
  /\ IF blocks THEN Block(t, f, c, calls[f] + 1, timers)
     ELSE /\ Through(c)
          /\ UNCHANGED <<timerVars, owes, waiter, pendingEventCnt, edge, due, pc>>
  /\ UNCHANGED <<pool, task, cbs, report, waitLeft, over, tasks, idleCnt, activeCnt, stopped, pipe,
                 open, state, cancelled, panicked>>

\* do_io after its yield: the timer is cancelled; the call has timed out, or is
\* tried again on what may be a closed descriptor by now.
ResumeIo(t) ==
  LET f == task[t].fiber
      c == call[f]
      others == {x \in timers : ~(x.op = "timeout" /\ x.fiber = f)}
      blocks == ~cancelled[f] /\ c.fd \in open /\ c.event \notin ready[c.fd]
  IN
  /\ Runs(t, {"resume"}) /\ at[f] = "io"
  /\ at' = [at EXCEPT ![f] = IF blocks THEN @ ELSE "user"]
  /\ IF blocks THEN Block(t, f, c, calls[f], others)
     ELSE /\ timers' = others
          /\ IF cancelled[f] \/ c.fd \notin open THEN UNCHANGED ready ELSE Through(c)
          /\ due' = [due EXCEPT ![f] = 0]
          /\ UNCHANGED <<tickled, owes, waiter, pendingEventCnt, edge, pc>>
  /\ call' = [call EXCEPT ![f] = IF blocks THEN @ ELSE NoCall]
  /\ cancelled' = [cancelled EXCEPT ![f] = FALSE]
  /\ UNCHANGED <<pool, task, cbs, report, waitLeft, over, tasks, idleCnt, activeCnt, stopped, pipe,
                 open, state, calls, panicked>>

\* cancelAll: all who wait are queued, and epoll forgets the descriptor.
CancelAll(t, fd) ==
  /\ Schedule(t, Triggered(fd, Registered(fd)))
  /\ waiter' = [waiter EXCEPT ![fd] = [e \in Event |-> None]]
  /\ pendingEventCnt' = pendingEventCnt - Cardinality(Registered(fd))
  /\ edge' = edge \ {fd}

Close(t, fd) ==
  /\ InUser(t) /\ OneThread /\ fd \in open
  /\ CancelAll(t, fd)
  /\ open' = open \ {fd}
  /\ ready' = [ready EXCEPT ![fd] = {}]
  /\ UNCHANGED <<threadVars, idleCnt, activeCnt, stopped, pipe, timerVars, fiberVars, panicked>>

\* Fiber::yield.
Yield(t) ==
  /\ Free(t, "yield")
  /\ state' = [state EXCEPT ![task[t].fiber] = "READY"]
  /\ EndTask(t)
  /\ UNCHANGED <<tasks, owes, timerVars, fdVars, at, call, calls, cancelled, due, panicked>>

-----------------------------------------------------------------------------
(* The main thread, time, and the descriptors *)

MainFree == Main \notin owes

MainSchedule(f, th) ==
  /\ MainFree /\ ~stopped /\ at[f] = "new"
  /\ at' = [at EXCEPT ![f] = "queued"]
  /\ Schedule(Main, <<Task("start", f, th)>>)
  /\ UNCHANGED <<threadVars, idleCnt, activeCnt, stopped, pipe, timerVars, fdVars,
                 state, call, calls, cancelled, due, panicked>>

MainAddTimer(f, d) ==
  /\ MainFree /\ ~stopped /\ at[f] = "new"
  /\ AddTimer(Main, timers, [op |-> "start", fiber |-> f, n |-> 0, left |-> d, ms |-> d])
  /\ at' = [at EXCEPT ![f] = "timer"]
  /\ UNCHANGED <<threadVars, tasks, idleCnt, activeCnt, stopped, pipe, fdVars,
                 state, call, calls, cancelled, due, panicked>>

OwnTimer(f) == {x \in timers : x.op = "start" /\ x.fiber = f}

\* Timer::cancel of a timer that has not been listed yet.
CancelTimer(f) ==
  /\ MainFree /\ OwnTimer(f) # {}
  /\ timers' = timers \ OwnTimer(f)
  /\ at' = [at EXCEPT ![f] = "done"]
  /\ UNCHANGED <<threadVars, schedVars, tickled, fdVars, state, call, calls, cancelled, due, panicked>>

\* Timer::reset from now on.
ResetTimer(f, d) ==
  /\ MainFree /\ calls[f] < MaxCalls
  /\ \E x \in OwnTimer(f) : AddTimer(Main, timers \ {x}, [x EXCEPT !.left = d, !.ms = d])
  /\ calls' = [calls EXCEPT ![f] = @ + 1]
  /\ UNCHANGED <<threadVars, tasks, idleCnt, activeCnt, stopped, pipe, fdVars,
                 state, at, call, cancelled, due, panicked>>

\* Timer::refresh: it can only move back, and tells nobody.
RefreshTimer(f) ==
  /\ MainFree /\ calls[f] < MaxCalls
  /\ \E x \in OwnTimer(f) : timers' = (timers \ {x}) \cup {[x EXCEPT !.left = x.ms]}
  /\ calls' = [calls EXCEPT ![f] = @ + 1]
  /\ UNCHANGED <<threadVars, schedVars, tickled, fdVars, state, at, call, cancelled, due, panicked>>

\* stop, up to the joins; its own look at stopping() asks for the next timer.
Stop ==
  /\ MainFree /\ ~stopped
  /\ stopped' = TRUE
  /\ tickled' = FALSE
  /\ owes' = owes \cup {Main}
  /\ UNCHANGED <<threadVars, tasks, idleCnt, activeCnt, pipe, timers, fdVars, fiberVars, panicked>>

\* A change of GetElapsedMS; it is left out when nothing waits for it.
Less(k) == IF k > 0 THEN k - 1 ELSE 0

Tick ==
  /\ \/ \E x \in timers : x.left > 0
     \/ \E t \in Thread : waitLeft[t] > 0
  /\ timers' = {[x EXCEPT !.left = Less(@)] : x \in timers}
  /\ waitLeft' = [t \in Thread |-> Less(waitLeft[t])]
  /\ due' = [f \in Fiber |-> Less(due[f])]
  /\ UNCHANGED <<pool, pc, task, cbs, report, over, schedVars, tickled, fdVars,
                 state, at, call, calls, cancelled, panicked>>

Arrive(fd, e) ==
  /\ OneThread /\ fd \in open /\ e \notin ready[fd]
  /\ ready' = [ready EXCEPT ![fd] = @ \cup {e}]
  /\ edge' = IF e \in Registered(fd) THEN edge \cup {fd} ELSE edge
  /\ UNCHANGED <<threadVars, schedVars, timerVars, waiter, open, pendingEventCnt, fiberVars, panicked>>

Delay == 0 .. MaxDelay
Call == [fd : Fd, event : Event, timed : {TRUE}, timeout : Delay]
          \cup [fd : Fd, event : Event, timed : {FALSE}, timeout : {0}]

ThreadStep(t) ==
  \/ Tickle(t)
  \/ Take(t)
  \/ FindNothing(t)
  \/ EnterIdle(t)
  \/ AskNextTimer(t)
  \/ AskPending(t)
  \/ AskStopping(t)
  \/ EpollWait(t)
  \/ ScheduleExpired(t)
  \/ DrainPipe(t)
  \/ HandleEvent(t)
  \/ LeaveIdle(t)
  \/ WakeSleeper(t)
  \/ TimeOutCall(t)
  \/ Finish(t)
  \/ \E d \in Delay : Sleep(t, d)
  \/ \E c \in Call : DoIo(t, c)
  \/ ResumeIo(t)
  \/ \E fd \in Fd : Close(t, fd)
  \/ Yield(t)

MainStep ==
  \/ Tickle(Main)
  \/ \E f \in Fiber, th \in (pool \cap Pins) \cup {Any} : MainSchedule(f, th)
  \/ \E f \in Timed, d \in Delay : MainAddTimer(f, d)
  \/ \E f \in Fiber : CancelTimer(f)
  \/ \E f \in Fiber, d \in Delay : ResetTimer(f, d)
  \/ \E f \in Fiber : RefreshTimer(f)
  \/ Stop

Next ==
  \/ \E t \in Thread : ThreadStep(t)
  \/ MainStep
  \/ Tick
  \/ \E fd \in Fd, e \in Event : Arrive(fd, e)

\* Every thread of the pool keeps running, and so do the clock and a call of
\* tickle; nobody has to call, to stop, or to send data.
Fairness ==
  /\ \A t \in Thread : WF_vars(ThreadStep(t))
  /\ WF_vars(Tickle(Main))
  /\ WF_vars(Tick)

Spec == Init /\ [][Next]_vars /\ Fairness

-----------------------------------------------------------------------------
(* Properties *)

\* No CondPanic fails: a fiber that is queued is READY when a thread takes it
\* ("fiber task state error"), and no event is triggered that nobody registered.
NoPanic == ~panicked

Wakes(f) ==
  {<<"timer", x>> : x \in {y \in timers : y.fiber = f /\ y.op \in {"start", "wake"}}}
    \cup {<<"listed", t>> : t \in {u \in Thread : \E c \in cbs[u] : c.fiber = f /\ c.op \in {"start", "wake"}}}
    \cup {<<"queued", i>> : i \in {j \in DOMAIN tasks : tasks[j].fiber = f /\ tasks[j].op # "timeout"}}
    \cup {<<"event", x>> : x \in {y \in Fd \X Event : waiter[y[1]][y[2]] = f}}
    \cup {<<"runs", t>> : t \in {u \in Thread : task[u].fiber = f /\ task[u].op = "wake"}}

\* A fiber that waits is woken in exactly one way: its timer, that timer's
\* callback, its event and its place in the queue never stand side by side,
\* although a timeout and its event may come together.
OneWake ==
  \A f \in Fiber : (at[f] \notin {"new", "user", "done"} /\ state[f] = "READY") => Cardinality(Wakes(f)) = 1

\* Nobody is woken two milliseconds before its time or earlier: neither out of
\* usleep, nor with ETIMEDOUT by the timer of an earlier wait of the same call.
\* (Before its time it may be: usec / 1000 and GetElapsedMS both round down.)
NotBeforeTime ==
  /\ \A f \in Fiber : cancelled[f] /\ at[f] = "io" => due[f] <= 2
  /\ \A i \in DOMAIN tasks : tasks[i].op = "wake" => due[tasks[i].fiber] <= 2

\* The pool never sleeps past a timer while the idle fiber of some thread has not
\* ended: unless a byte is in the pipe or on its way, a thread is awake, or will
\* be when the first timer is due (tickled_ saves bytes, not wake-ups, though a
\* thread may have found no timer and be on its way to wait for MAX_TIMEOUT).
NoOversleep ==
  (timers # {} /\ ~pipe /\ owes = {} /\ over # pool) =>
    \E t \in pool \ over : pc[t] \notin {"pending", "stopping", "wait"}
                              \/ (pc[t] = "wait" /\ \A x \in timers : waitLeft[t] <= x.left)

Waits(f) == \/ at[f] \in {"queued", "timer", "sleep"}
            \/ /\ at[f] = "io"
               /\ call[f].timed \/ call[f].fd \notin open \/ call[f].event \in ready[call[f].fd]

AllExited == \A t \in Thread : pc[t] = "exited"

\* Whatever is queued, timed or asleep runs; a call with a timeout returns, and so
\* does one whose descriptor is ready or closed: no edge of epoll is lost.  (The
\* wake-up for a queued task can be lost, between a thread's look at the queue
\* and its ++idleThreadCnt_; the task then waits for MAX_TIMEOUT.)  Only a timer
\* of Main's can be left, when every thread has gone: one that was added, before
\* stop(), while the last idle fiber was between its look at the timers and its
\* look at isStopped_.
WaitsEnd ==
  \A f \in Fiber : Waits(f) ~> ~Waits(f) \/ (stopped /\ AllExited /\ at[f] = "timer")

\* stop() returns, unless a fiber waits for an event that does not come.
StopReturns ==
  stopped ~> (AllExited \/ (\E f \in Fiber : at[f] = "io"))
=============================================================================
