# Verification of kvDB-raft

kvDB-raft is a replicated key-value store in C++: a Raft library, a key-value
server on top of it, a client, an RPC framework and a fiber library.  This
directory holds TLA+ models of it, the TLC configurations that check them on
small instances, and TLAPS proofs of what can be proved for every instance.

The repository contains two trees: `kvDB-Raft/` (the program) and
`KVstorageBaseRaft-cpp-main/` (the project it was derived from).  Their own
code is the same up to comments in all but three places: `Raft::matchLog`, the
overwrite test of `Raft::AppendEntries1`, and `SkipList::load_file`.  Lines
below are those of `kvDB-Raft/src/` unless said otherwise.

## 1. The system

| component | state | operations | talks to |
|---|---|---|---|
| Raft node (`raftCore/raft.cpp`) | term, vote, role, log, snapshot end, commitIndex, lastApplied, nextIndex, matchIndex | doElection, RequestVote, sendRequestVote, Start, doHeartBeat, AppendEntries1, sendAppendEntries, applierTicker, Snapshot, leaderSendSnapShot, InstallSnapshot | peers (RPC), Persister (calls), KvServer (applyChan) |
| Persister (`raftCore/Persister.cpp`) | two files, two streams with their buffers, a cached size | SaveRaftState, Save, ReadSnapshot, ReadRaftState, RaftStateSize | Raft, KvServer |
| KvServer (`raftCore/kvServer.cpp`) | skip list, m_lastRequestId, waitApplyCh, m_lastSnapshotRaftLogIndex | Get, PutAppend (RPC threads); ReadRaftApplyCommandLoop (one thread) | Raft (Start, GetState, Snapshot), Clerk (RPC) |
| LockQueue (`common/include/util.h`) | a queue, a mutex, a condition variable | Push, Pop, timeOutPop | applyChan, waitApplyCh |
| Clerk (`raftClerk/clerk.cpp`) | client id, request id, last leader | Get, Put, Append: retry on the next server until answered | KvServer (RPC) |
| RPC (`rpc/`) | one socket per peer; a muduo server with a table of services | CallMethod, newConnect; NotifyService, OnMessage, SendRpcResponse | everything above |
| Skip list (`skipList/`) | levels of linked nodes | insert, delete, search, dump_file, load_file | KvServer |
| Fiber library (`fiber/`) | fibers, a task queue, epoll contexts, timers, fd contexts, hooked system calls | schedule, run, tickle, idle, stop; addEvent, delEvent, cancelEvent, triggerEvent; addTimer, refresh, reset, cancel; do_io | the Raft tickers run on it |

What makes it hard:

* *Interleavings.*  All handlers of a Raft node hold `m_mtx` from start to end,
  but every outgoing call is made by a detached thread that holds no lock while
  it waits, and decides on the reply with the state of that moment.  KvServer's
  RPC threads and its apply loop share two maps.  All threads that call one
  peer share one socket.
* *Lost, late and reordered calls.*  Nothing orders the threads of two heartbeat
  rounds, nor a snapshot and the AppendEntries around it.
* *Crashes.*  A failed `myAssert` exits the process; a restart constructs the
  Persister again.
* *Boundaries.*  The empty log, the end of the snapshot, a nextIndex that backs
  off, a majority completed twice.

What correctness means, per component:

* elections: one leader per term, whatever votes are late or repeated;
* replication: what a leader believes replicated is there; a commit is backed by
  a majority and by an entry of the leader's term; nothing committed is ever
  overwritten; indices stay in the log, so that no assertion fails;
* compaction: applied, committed and compacted indices keep their order while
  snapshots race appends, and nothing is taken back;
* Persister: what is in a file is (the beginning of) what was saved last, and a
  restart finds it;
* KvServer and Clerk: each Put is applied once, and Gets see what was answered;
* RPC: a reply is delivered to the call it answers, and each call is answered or
  fails;
* skip list: it is a map; fiber library: no task, event or timer is lost, fired
  twice or fired after it was cancelled.

## 2. What is modelled

### RaftLog: operators on a log

A log is a pair `snap`, `logs`: the entries below the snapshot, which the code
keeps only as the bytes of the state machine plus the last index and term, and
`m_logs`.  Keeping the covered prefix is what lets properties speak of whole
logs; no guard looks into it except for its length and last term
(`m_lastSnapshotIncludeIndex`, `m_lastSnapshotIncludeTerm`).  `MatchLog`,
`BackOff`, `MergeEntries` and `MergeAsserts` are the loops of AppendEntries1 in
closed form.  The constant `Impl` is "kvDB" or "upstream" and selects `MatchLog`
and `MergeEntries`, the two places of raft.cpp where the trees differ.  In
kvDB-Raft, `return logTerm = ...` assigns where it should compare: matchLog then
says yes to every index above the snapshot and refuses index 0 of an empty log,
and nextIndex becomes 0.

### Raft: the node

One action per handler, since a handler holds `m_mtx` throughout:

| action | code |
|---|---|
| `DoElection` | `electionTimeOutTicker` + `doElection` (63-156) |
| `HandleRequestVote` | `RequestVote` (221-279) |
| `HandleRequestVoteReply` | `sendRequestVote` after the call (159-218) |
| `Start` | `Start` (831-859) |
| `DoHeartBeat` | `leaderHeartBeatTicker` + `doHeartBeat` (322-453) |
| `RejectStaleAppend`, `HandleAppendEntries` | `AppendEntries1` (557-676) |
| `HandleAppendRefusal`, `HandleAppendSuccess` | `sendAppendEntries` after the call (456-554) |
| `ApplierTick` | `applierTicker` + `getApplyLogs` (1025-1073) |
| `Snapshot` | `Snapshot` (870-909) |
| `SendSnapShot`, `HandleInstallSnapshotReply` | `leaderSendSnapShot` before and after the call (986-1023) |
| `HandleInstallSnapshot` | `InstallSnapshot` (917-978) |
| `LoseCall` | a call that fails: `if (!ok) return` |

A call is a request in a set, then a reply in a set; the caller's thread is the
reply's handler.  `sendAppendEntries` keeps its arguments while it waits, so the
reply carries what it needs of them (`round`, `sent`, `empty`, `lastTerm`).
`votedNum` and `appendNums` are the `shared_ptr<int>` counters that the threads
of one election and of one round share.  `snapThreads` are the threads that
doHeartBeat has started and that have not taken the lock.  A failed `myAssert`
puts the node into `exited`, and it takes no more steps; the effects of a handler
before its assertion are kept, though nobody sees them.  `ballots`, `counted` and
`elected` are history variables that no guard reads.

The tickers' random and fixed durations are left out: `DoElection` and
`DoHeartBeat` may happen whenever the node's role allows, which includes every
timing.  RPCs are not repeated by the transport (the code retries only the
connection, before a request is sent), so a request is delivered at most once.
A call that returns with no bytes (`recv` says 0 when the peer
has gone) is modelled as lost; `leaderSendSnapShot` takes it for an answer of default
values (raft.cpp 1004-1022), raises matchIndex and nextIndex, and so is then wrong
about that peer: `MatchIndexSound` says nothing of this case.  The model takes for granted that a reply reaches the thread whose call it
answers.  Threads that share a socket do not have that from `rpc/`: RpcChannel says
what they have, and RaftRpc what becomes of Raft with it.

### RaftRestart: crashes

Extends Raft by `Restart(s)`: the process of a node ends and `init` runs on a new
Persister, whose constructor has truncated the files, so that `readPersist`
returns at once.  `persist()` needs no variable of its own for that reason: what
it writes is never read.

### RpcCall, RpcChannel: the calls between processes

`RpcCall` is the abstract specification: what `rpc/` promises the threads of a
process that call one peer through one channel.  The peer executes a call at most
once, perhaps after its caller has given up.  The call then fails, comes back empty
(the peer has gone), or comes back with replies that nobody has had before; if the
caller is alone on the channel, with the reply to its own call.

`RpcChannel` is the code: `MprpcChannel::CallMethod` on one socket and, at its other
end, `RpcProvider`.

| action | code |
|---|---|
| `Call`, `Connect`, `ConnectFails` | `CallMethod` up to the connection, `newConnect` (mprpcchannel.cpp 18-86, 142-173) |
| `Send`, `SendFails`, `CloseAfterSend` | the loop around `send`, which reconnects and tries again (88-103) |
| `EnterRecv`, `RecvNoFd`, `RecvReply`, `RecvEmpty`, `RecvError` | `recv` and what follows it (105-134) |
| `OnMessage` | `RpcProvider::OnMessage` with the service and `SendRpcResponse` (rpcprovider.cpp 111-185) |
| `PeerGone` | the peer or the network ends a connection |

Nothing locks `m_clientFd`, so the threads interleave between any two of these steps:
one closes the connection another waits on, takes the reply of another, or finds two
replies together.  `toServer` and `toClient` are the two directions of each
connection; bytes are whole requests and replies.  `OnMessage` takes all requests
that have arrived for one and drops the rest, as the code does.

Two things are coarser than the code.  `OnMessage` always answers: the early returns
for a request it cannot parse or a service it does not know (rpcprovider.cpp 139-183),
and the reply of no bytes that Protobuf makes of default values, send nothing, and
their caller waits in `recv` as it does for a request that was dropped.  And `CloseFd`
is one step, although `close(m_clientFd)` and `m_clientFd = -1` are two
(mprpcchannel.cpp 92-93, 108-109), between which another thread may use, or the
process reuse, the number.

`RaftRpc` composes this with Raft, for two `sendAppendEntries` threads of one peer:
`TakeOthersReply` (the peer reads both requests at once, answers one, and the thread of
the other reads the answer) and `ExchangeReplies` (both are answered, and each thread
reads the other's answer).  That is enough for what the module is for, to show that a
commit need not be backed.  It leaves out replies that Protobuf merges, replies to calls
of another kind, and the `RequestVote` threads, which share the sockets too:
`sendRequestVote` compares the reply's term with `m_currentTerm` and not with that of
its own call (raft.cpp 164-198), so it may count a vote of another election.  Hence no
property is claimed, and no theorem stated, of Raft with swapped replies.

### KvServer: one server and the clients

| action | code |
|---|---|
| `Issue` | `Clerk::Get`, `PutAppend`: the next request (clerk.cpp 11-82) |
| `Commit`, `AnsweredElsewhere` | what Raft and the other servers do |
| `PopCommand`, `ExecutePut`, `SendMessageToWaitChan` | `GetCommandFromRaft` and the calls it makes, one action per lock of `m_mtx` (kvServer.cpp 149-182) |
| `StartRequest`, `Register`, `Pop`, `TimeOut`, `ExecuteGet`, `Finish` | `Get` (55-147) and `PutAppend` (195-273), one action per lock |

The committed log is taken from Raft as it should be: any issued request may be
committed next, twice if it was sent twice, at the index a handler waits for or at
another.  A handler is an RPC thread (`setThreadNum(4)`), and a request may reach
the server at any time after it was made, since a Clerk goes on to another server
while the connection still holds it.  The indices that `Start` returns on one node
only grow, because nothing truncates its log; therefore no two handlers of a node
share a queue.  The skip list, which is a map (section 4), is represented by the writes executed on it
(Append sets the value as Put does), a read by the writes it saw; `seen` in a
request is a history field.

A server knows a client by the id that its Clerk drew (`clientId`, from `ClientId`).
`Clerk::Uuid` (clerk.h 42-46) is four calls of `rand()`, which nobody seeds: the Clerks
of one process differ, and those of two processes draw the same ids, in the same order
(the notes, src/notes/Raft常见问题.md:4, take the ids for unique).  So any clients
may share an id in the model, and a server then takes a request of one for a repetition
of the other's: its Put is answered OK and never executed.  The three properties
therefore promise something to the clients alone with their id (`Alone`), while
others share theirs; about those nothing is claimed.

A snapshot from another server is not installed in this model.  What
`leaderSendSnapShot` delivers is the first token of an archive, at which the
archive's reader throws, or nothing, which is not installed; the entries it covers
are then missing from the state machine.  Storage has `load_file` itself.

### Persister, SkipList, Storage

`Persister`: the two files, the buffers of the two streams, and the end of the process
with (`Stop`) or without (`Crash`) the destructor.  `m_mtx` keeps its operations apart,
but not from the end of the process, so `Save` and `SaveRaftState` are a step for each
file they clear or write (`ClearSnapshot`, `WriteState`, `WriteSnapshot`), and `Crash` may
come between any two.  The cached `m_raftStateSize` is left out: its one reader decides
when to take a snapshot, which may go either way in the models.  An archive is a
sequence of tokens, because `ifs >> snapshot` reads up to the first white space.
A write leaves any prefix in the file and the rest in the buffer.  Two things the
module states are worth knowing, and no run is needed to see them: `Construct`
empties both files, so nothing survives a restart, and `ReadSnapshot` closes and
opens the snapshot file for writing, which empties it too.

`SkipList`: a node is its key; `list.forward[k][i]` is the pointer of level i, and
`Update` is the array that the walk from the top fills, the bottom level first, and
`Relink` the loop that sets the pointers of those nodes.  `Insert`, `Delete`,
`InsertSet` and `Load` are `insert_element`, `delete_element`, `insert_set_element`
and `load_file` pointer by pointer, for every level `get_random_level` may return.
The list's mutex makes each a single step.  `Dump` walks level 0.  The loops are
recursive functions, each over the nodes or levels it runs through (`OnLevel`), so
that they can be proved about.

`Storage` composes the two, as the constructor and `IfNeedToSendSnapShotCommand` of
KvServer do: a new process makes an empty list and opens the files, `MakeSnapShot`
saves a dump, requests change the list.  To the files a dump is one token after the
header, so it is there only as what tells two of them apart, an empty list or not.

### IOManager: the fiber library

One module for `Scheduler`, `IOManager`, `TimerManager`, `Fiber` and the hooked system
calls, because each is the environment of the others.  An action is a critical
section, or what a thread does between two.

| action | code |
|---|---|
| `MainSchedule`, `Schedule`, `Tickle` | `scheduler` (scheduler.hpp), `IOManager::tickle` (iomanager.cpp): queue, then a byte in the pipe if a thread is idle |
| `Take`, `FindNothing`, `EndTask` | one turn of `Scheduler::run` (scheduler.cpp) |
| `EnterIdle`, `AskNextTimer`, `AskPending`, `AskStopping` | the loop head of `IOManager::idle` and the three looks of `stopping()` (iomanager.cpp 423-427, scheduler.cpp 194-198) |
| `EpollWait`, `ScheduleExpired`, `DrainPipe`, `HandleEvent`, `LeaveIdle` | the rest of `IOManager::idle`, step by step |
| `MainAddTimer`, `CancelTimer`, `ResetTimer`, `RefreshTimer`, `AddTimer`, `Expired` | `addTimer`, `Timer::cancel`, `reset`, `refresh`, `listExpiredCb` (timer.cpp) |
| `Sleep`, `WakeSleeper` | `usleep`, `sleep`, `nanosleep` (hook.cpp) |
| `DoIo`, `ResumeIo`, `TimeOutCall`, `AddEvent`, `Unregister` | `do_io` with its timeout; `addEvent`, `cancelEvent`, `triggerEvent` |
| `Close`, `CancelAll` | `close`, `cancelAll` |
| `Yield`, `Finish`, `Stop` | `Fiber::yield`, the end of a fiber, `Scheduler::stop` |
| `Tick`, `Arrive` | the clock; data or room on a descriptor |

`epoll` is external and edge-triggered: `edge` holds the descriptors it has something
to report for.  Time is what is left of each timer and of each wait, counted in changes
of `GetElapsedMS`, and the clock may move whenever some of it is left, while threads are
awake too: a thread may be as slow as it likes, and what is left stays at 0 until
somebody looks.  A fiber does not sleep as long as it asks: `usec / 1000` (hook.cpp 210;
also 227 and 544) drops what is less than a millisecond, and `GetElapsedMS` what has passed of the
current one, so a wait of d whole milliseconds ends at the d-th change of the clock and
the time asked for only before the next but one.  `Asked(d)` counts those changes in the
history variable `due`.  `usleep(999)` does not wait at all.

`tickled_` and the count of idle threads decide whether a byte is sent, as in the code,
so a wake-up can be lost: a task queued between a thread's look at the queue and its
`++idleThreadCnt_` waits for the end of `epoll_wait`, at most `MAX_TIMEOUT`.  That is a
delay, and `WaitsEnd` says it is nothing more.  A timer can be lost for good, because
`stopping()` reads the timers, the pending events and the scheduler under three locks:
when a timer is added and `stop()` called after the last idle fiber has found no timer,
that fiber ends all the same, and the timer's callback never runs.  (The notes have the
scheduler exit only when all tasks are done, src/notes/协程库.md:97-99.)  `WaitsEnd`
excepts this one loss, and `NoOversleep` speaks of pools in which an idle fiber is left.

Fibers that wait are modelled for a pool of one thread, which is what the program
has (`FIBER_THREAD_NUM`).  With two threads the code does not hold: a fiber that has
registered its timer or event and not yet yielded can be queued and taken by the
other thread, where `CondPanic(task.fiber_->getState() == Fiber::READY)`
(scheduler.cpp 131) fails.  A pool of two therefore runs callbacks and timers only.

## 3. The runs

All Raft runs have three servers, a majority of which is two: enough for two
candidates to compete for the third, and for a follower that lags while the
others commit.  The bounds are constants of `Raft` (`MaxTerm`, `MaxLog`,
`MaxRounds` heartbeat rounds per leadership) and constraints of `MCRaft`:

* `FewInFlight` bounds the calls under way by `MaxInFlight`;
* `QuietElections`, where a run is about what leaders do, leaves one candidate per
  term and drops its superfluous votes;
* `EveryTermWrites` skips leaderships that write nothing, to spend the bound on
  logs that diverge;
* `CompetingOrQuiet` has both: candidates compete as long as there are no heartbeats
  (`NoHeartbeats`, with two more calls) or one, and no entries (`FirstHeartbeats`, with
  one more); from then on elections are quiet and every term writes;
* `NoRepeats`: a leader does not get the same command twice in a row;
* `NothingApplied` leaves out the applier, where no handler reads what it does;
* `LeadershipsOrCompaction` has two parts: three leaders who write, in one round each,
  with one more call under way when one of them is a heartbeat of an earlier term or its
  refusal (`LateHeartbeat`) and nothing applied (`ThreeLeaderships`), or two leaders and
  servers that compact the first entry before there is another (`Compaction`; there the
  threads that are to send a snapshot count as calls).  In the second part `SnapshotFirst` allows the second election only when a server has
  compacted entries that another one lacks.

Servers and values are symmetric.  Deadlock is not checked, since a bounded
behaviour ends, a pool may be stopped, and a client need not call.

| run | bounds | what it shows |
|---|---|---|
| core | 2 terms, log 2, 2 rounds, 2 commands, 2 calls (3 or 4 in elections) | contested elections: `ElectionSafety`, `NoSecondVictory`, the inductive `VoteInv` and `ReplicationInv` (section 4), `EntryUnique` (term and index determine an entry); overlapping rounds with reordered replies: `NoAssertionFails`, `LeaderAppendOnly`, `StepDownForHigherTerm`, `CommitBacked` |
| replication | log 2, 1 command, quiet; 3 terms, 1 round, 3 calls, every term writes, or 2 terms, 2 rounds, 2 calls, snapshot first | three leaders in a row on diverging logs; snapshots that race the appends of their own and of the next leader: `NextIndexInLog`, `MatchIndexSound`, `TypeOK`, `AppliedInRange`, `NothingTakenBack` |
| rpc | one or two threads, 2 calls each, 2 connections | the channel implements RpcCall (`ImplementsRpcCall`); a lone caller gets out of CallMethod (`LoneCallReturns`) |
| fibers | one or two threads, 2 fibers, 1 descriptor, times 0..1, 1 call each (half a million states) | `NoPanic`, `OneWake`, `NotBeforeTime`, `NoOversleep`, the inductive `FiberInv` (module IOInv, section 4), and the liveness properties `WaitsEnd`, `StopReturns` |
| kv | 3 clients, 3 ids, 3 requests in all and 2 of a client, 2 RPC threads, log 3 | late and repeated requests, timeouts, commands of others at the awaited index, clients that share an id next to one that does not: `AnsweredPutExecuted`, `NoWriteSkipped`, `ReadsFresh` |
| storage | 3 keys, 2 values, 2 levels, 2 Raft states | the skip list is a map and its dump loads: `WellFormed`, `OperationsAgree`, `DumpLoads`; files, with crashes between any two steps of a save: `NoMixedSaves`, `NoOlderSnapshot` |

The bounds are what the interesting cases need: four calls are the requests of two
candidates at once; three calls and three terms are the least in which the refusal
of a stale request reaches a server that leads again (`TypeOK`), three terms of
writes the least in which a follower backs off over a conflicting term, two rounds
the least in which replies overtake each other, and a snapshot takes two rounds (a
commit, then a call to the one that lags).  On a channel, one connection must break
and be replaced while a reply to an earlier call is under way (`MaxConns` = 2 ends the
reconnect loop, which has no end in the code).  A call of do_io needs a timer and an
event that come together, hence times of 0 and 1.  A walk over two levels with a
predecessor and a successor needs three keys.  In `storage`, `FilesOrKeys` keeps the
two parts from multiplying: once something is saved or being saved, the list holds one
key at most.  In `kv`, `FewRequests` has two parts, one with all clients different, two of
which make requests, and one in which two share an id, with a write each, next to a
third; there the server has one RPC thread.

The passing Raft runs use `Impl = "upstream"`: with the matchLog of kvDB-Raft the
first heartbeat after the first refusal ends the leader, and little would be
explored.  What kvDB-Raft's version breaks is in PROJECT.json as the mutant of
`MatchIndexSound` (`MatchLogKvDB` in place of `MatchLogUpstream`): the leader counts
entries the follower does not hold.  Section 4 says which theorems hold for both
versions and which for upstream's alone.

Every passing property has a mutant in PROJECT.json, a plausible bug in one
definition that makes the run fail; operators marked "faulty" in the modules are
these.

Six runs are expected to be violated, each by a property that a comment, a note
or an assertion of the repository states:

* `stale_tail`: `CommittedNeverOverwritten`.  AppendEntries1 overwrites entries in
  place and keeps what follows.  In term 1, a leads and writes three entries that
  reach nobody.  In term 2, b leads with the vote of c and commits two entries, the
  first held by b and c, the second by b and a: it overwrites a's first two entries
  and leaves a's third, so a's last term is still 1.  In term 3, c, which lacks the
  second entry but ends in term 2, gets the vote of a, leads, and replaces the
  committed second entry on b.  `MCRaftStaleTail` steers TLC to it: it bounds who
  may stand when, and adds no behaviour.
* `compacted`: `NoAssertionFails` with snapshots: the missing `return` at 596-602.
* `late_snapshot`: `SnapshotsGoToFollowers`.  Leader a compacts an entry that b holds,
  but whose acknowledgement by b was lost, and starts a thread to send b the snapshot.
  Before the thread runs, b is elected in the next term and a has voted for it.  The
  thread then sends the snapshot under b's own term, and InstallSnapshot makes b a
  follower: the term has lost its leader.
* `restart`: `ElectionSafety` with one restart: a vote cast twice.
* `kv_retry`: `ExecutedOnce`: a late Get on an RPC thread sets `m_lastRequestId`
  back to its own id, and the second copy of a Put in the log is executed again.
* `rpc_swapped`: `CommitBacked` on shared sockets: the answer to a heartbeat without
  entries is read by the thread that sent the entry, and the leader commits an entry
  its follower does not hold.

Because log matching fails in this code (stale_tail), properties that rest on it,
such as leader completeness and state machine safety, are not among the passing
ones; `EntryUnique`, `CommitBacked` and `MatchIndexSound` say what remains true.

### Fairness

* `fibers`: weak fairness of each thread of the pool, of the byte that a caller of
  `tickle` still owes, and of the clock.  Threads run; nobody has to schedule, stop, or
  send data, so `WaitsEnd` speaks of timed, queued and ready waits only, and
  `StopReturns` excepts a fiber that waits for data which does not come.
* `rpc`: weak fairness of a thread inside CallMethod and of the peer's event loop.
  Nobody has to call, and a connection need not break.  `LoneCallReturns` needs the
  peer to answer each request it reads; with several callers it is false, because a
  dropped request leaves its caller in `recv`, which has no time limit.
* Raft, KvServer and Storage state none.  Nothing there must happen: a call may be
  lost every time and a ticker may always be too late, so that no election need end.

## 4. The proofs

TLAPS proves, for any finite set of servers, any commands and any bounds:

* `RaftProofs!TypeCorrect`: `Spec => []TypeOK`.
* `RaftProofs!AppliedStaysInRange`: `Spec => []AppliedInRange`.  Both follow from
  one invariant, `TypeInv` (types plus the range of the indices on each node that
  has not exited), which is inductive: `AppliedInRange` alone is preserved only by
  well-typed states, and the type of `lastApplied` and of the sliced logs needs the
  range.  One lemma per action; `MergeType`, `BackOffType` and `SuffixType` state
  what the log operators return.
* `RaftProofs!VotesConsistent`: `Spec => []VoteInv`.
* `RaftProofs!OneLeaderPerTerm`: `Spec => []ElectionSafety`.
* `RaftProofs!NoSecondVictoryHolds`: `Spec => []NoSecondVictory`.

`ElectionSafety` is not inductive: it says nothing of the votes that have not been
counted.  `VoteInv` (module RaftInv) follows a vote from the ballot to the
victory: a voter casts one ballot per term and `votedFor` remembers it
(`BallotsInv`); a request under way has not been answered by a vote
(`RequestsInv`); a vote on its way is cast and uncounted (`GrantsInv`); the counter
never exceeds the counted votes, less a majority once elected (`CountInv`); a
victory rests on a counted majority (`ElectedInv`).  Two majorities meet
(`MajoritiesMeet`) in a voter with two ballots in one term.  For
`NoSecondVictory`, a second majority would need more votes than there are servers.

* `RaftProofs!NothingIsTakenBack`: `Spec => NothingTakenBack`, from `TypeInv`.
* `RaftEntryProofs!EntriesUnique`: `Spec => []EntryUnique`.

The theorems so far hold for both trees (`Impl`) and with snapshots.  `EntryUnique`
needs to know where entries come from (`EntriesInv`): of all entries placed anywhere
(in a log, below a snapshot, in a request), each was made by the server elected in its
term, who made no other at that index, and who, while it leads, has all of them, so
that `Start` makes the next one at a new index.  With `ElectionSafety` nobody else
makes entries of that term.  Overwriting in place, keeping a stale tail and installing
a snapshot only move entries that are placed already.

* `RaftEntryProofs!LeaderStepsDownForHigherTerm`: `Spec => StepDownForHigherTerm`.
* `RaftEntryProofs!LeaderAppendsOnly`: `Spec => LeaderAppendOnly`.

These assume `Snapshots = FALSE`, in both trees.  `SendersInv`: an AppendEntries of
term t comes from the server elected in t and goes to another one, so a leader of t
gets none; `NoSnapshotsInv`: no snapshot is taken or sent (a leader whose nextIndex is
0 starts a thread for one, but has failed the assertion of doHeartBeat).  The
assumption is needed for the argument: `leaderSendSnapShot` reads the term when its
thread runs, not when a leader started it, so a deposed leader can send a snapshot
under the term of its successor (run `late_snapshot`).

* `RaftEntryProofs!OnlyLateSnapshotsDepose`: with snapshots, in both trees, a step from a
  state in which `SnapshotsGoToFollowers` holds satisfies `StepDownForHigherTerm`.

So nothing deposes a leader in its own term but a snapshot sent under that term, like
the one the run shows.

* `RaftEntryProofs!RestartsKeepTheRange`: `SpecR => []AppliedInRange`: restarts cost
  election safety (run `restart`) and logs, but `TypeInv` survives them.

* `RaftReplicationProofs!NextIndexStaysInLog`: `Spec => []NextIndexInLog`.
* `RaftReplicationProofs!NoAssertionEverFails`: `Spec => []NoAssertionFails`.
* `RaftReplicationProofs!MatchIndexIsSound`: `Spec => []MatchIndexSound`.
* `RaftReplicationProofs!ReplicationConsistent`: `Spec => []ReplicationInv`.
* `RaftReplicationProofs!CommitsAreBacked`: `Spec => CommitBacked`.

These assume `Snapshots = FALSE` and `Impl = "upstream"`, and neither can be dropped
for all of them: the matchLog of kvDB-Raft breaks `MatchIndexSound` and sets nextIndex
to 0, and with snapshots the missing `return` fails an assertion (run `compacted`).
No log matching is needed, and none holds in this code; what is needed is agreement at
single indices, and `EntryUnique` to make a term into an entry:

* `ReachInv`: what a leader asks, is answered and believes lies inside its log, and a
  back-off stays in 1 .. end + 1, also when the answer is an old one.
* `AgreeInv`: a request carries the leader's own entries; what a follower has
  acknowledged, and what the leader believes of it, agrees with the leader's log as
  long as the follower is in the leader's term, since in that term it takes entries
  from nobody else and never drops one.
* `CallsInv`: in a round a leader calls each peer once and is answered by it once.
* `RoundsInv`: all calls of a round send the log up to one end, and the round's counter
  is at most one more than the number of peers that accepted it and are no longer
  under way (`MayCount`).  A counter that reaches a majority therefore stands for a
  majority that holds the last entry sent, or has moved to a later term.

`ReplicationInv` is their conjunction with `EntriesInv` and `SendersInv`; the run
`core` checks it as well.

* `KvProofs!NoWriteIsSkipped`: `Spec => []NoWriteSkipped`.
* `KvProofs!AnsweredPutsExecuted`: `Spec => []AnsweredPutExecuted`.
* `KvProofs!ReadsAreFresh`: `Spec => []ReadsFresh`.

These hold for any clients and ids, requests, RPC threads and length of the log, and
speak of the clients that are alone with their id.  None is inductive, because Get handlers and the apply loop both write `m_lastRequestId`.
`KvInv` has what makes that harmless to writes of such a client, which nobody joins
(`AloneStays`): it issues a request only when its last one was answered, and an answered
request of it is in the log, so the log has the first copies of its requests in their
order; its `m_lastRequestId` is always the id of a command of its own that the apply loop
has passed; hence a request above it has not been
executed, and a request at or below it has.  A reader has seen at least the log up to
where its own command stands, and that is behind every write answered before it was
issued.

* `RpcProofs!ChannelImplementsRpcCall`: `Spec => ImplementsRpcCall`, the refinement, for any
  threads, calls and connections.  `RpcInv` says that a call is sent once, so it
  stands on one connection at most and runs at most once; that a reply stays on its
  connection until one thread takes it; and that, on the connection `m_clientFd` of a
  lone caller, there is nothing but its current call: after any failure the socket is
  closed, so a late reply is never found on the next connection.  Each step of the
  channel then is a step of RpcCall (`Call` is Issue, `OnMessage` is Execute, what
  returns is Return) or a stutter.

* `SkipListProofs!ListIsWellFormed`: `Spec => []WellFormed`.
* `SkipListProofs!ListIsAMap`: `Spec => []OperationsAgree`.
* `SkipListProofs!DumpsRestore`: `Spec => []DumpLoads`.

For any finite set of keys, any values and any number of levels.  The invariant is
`Linked`: a node is on the levels up to the one it drew, on each level its pointer
leads to the next greater node of that level or is null (`Ordered`), and the top level
has a node.  From it follows what the loops compute, a lemma each: the walk on level i
ends at `Before(l, i, k)`, the greatest node of that level below k, wherever below k it
starts (`WalkEnds`), so `update[]` has these (`UpdateIs`), a key is found if it has a node
(`HasIs`), and the pointers that insert and delete set are those of the neighbours
(`InsertIs`, `DeleteIs`).  Each operation then keeps `Linked` and changes `list.value` as a
map changes; a dump is the pairs of `list.value` in ascending order (`DumpIs`, from
`ChainIs`), and loading it inserts them one after the other (`LoadIs`).  Not even `WellFormed`
would do as an invariant: it speaks of chains, and a step changes single pointers.

The prover has no induction theorem to offer for these recursive functions (see
below).  The module does without one: a nonempty set of numbers has a least element
(`NatMin`, from the library's `WFMin`), so a set that has 0 and with each number the next has
all up to a bound (`UpTo`), and one that has a number whenever it has all above it has all
of a finite set (`FromAbove`).  Applied to the numbers up to which a recursive
function exists, this gives the function (`DownRecursion`, `LoadIs`); applied to those
where its value is as claimed, the value.

* `StorageProofs!SavesNeverMix`: `SpecS => []NoMixedSaves`.
* `StorageProofs!SnapshotsNeverLag`: `SpecS => []NoOlderSnapshot`.
* `StorageProofs!ServerKeepsAList`: `SpecS => Spec`, the list of a server is a skip list, and
  `ServerListIsSound`: the three theorems above hold of it.

`FilesInv`: what is in a file and in its stream's buffer, one after the other, is the
beginning of the archive written last, and a save under way finds the file empty that it
is to write next.  A write moves an archive into the two parts, a crash drops the buffer;
each leaves a beginning of one archive.  The snapshot file holds the beginning of
what the last `Save` was given (`begun`) unless that Save has cleared the state and not
yet the snapshot, or the process ended there; the state file is empty then, and the next
process empties both.  Neither property is inductive, since neither says where a save is.

* `IOManagerProofs!FiberInvHolds`: `Spec => []FiberInv`.
* `IOManagerProofs!NothingPanics`: `Spec => []NoPanic`.
* `IOManagerProofs!WokenOnce`: `Spec => []OneWake`.
* `IOManagerProofs!NobodyEarly`: `Spec => []NotBeforeTime`.
* `IOManagerProofs!NobodyOversleeps`: `Spec => []NoOversleep`.

For any pools, fibers, descriptors and delays.  None of the four is inductive, because
a thread takes a timer, a report or a task in one step and acts on it in a later one.
`FiberInv` (module IOInv) says what is true in between:

* `ThreadInv`, `OneThreadInv`: what a thread holds where it is, and that only a pool of one
  thread has fibers that wait;
* `OverInv`: a thread leaves the pool only after its idle fiber has ended, and that ends
  only when the pool is stopped; in a pool of one thread nothing is queued then;
* `SleepInv`: if every thread that has an idle fiber left sleeps or is about to, either a
  byte is in the pipe or owed to it, or some such thread's wait ends no later than the
  first timer.  `tickled_`, which suppresses bytes, is
  set only in the first case.  `NobodyOversleeps` rests on this;
* `WakeInv`, `FitInv`: a waiting fiber has one thing that wakes it, a timer, a callback taken
  from one, a registered event or a task, and that thing is of the kind the fiber
  waits for;
* `CallInv`, `ReportInv`: what is registered for an event is the fiber in that call, and an
  event epoll has reported stays registered until it is handled;
* `StateInv`: a fiber is RUNNING on one thread, and READY where it is queued, which is what
  `CondPanic` in `run` wants (scheduler.cpp 131);
* `OrderInv`, `TimeInv`: a queued timeout is taken before the fiber it wakes, and what is due
  is due two changes of the clock after the timer behind it at the latest.  Timers of earlier calls may be left,
  because `do_io` cancels its timer only when it resumes (hook.cpp 87-176).

The assumptions are `ServerAssumption` (the cluster is finite, -1 is no server),
`ImplAssumption` (one of the two trees), `BoundAssumption`, `KvAssumption` and
`RpcAssumption` (the bounds are numbers), `ListAssumption` (keys are finitely many and
ordered as numbers are, the null pointer is none of them, the list has a level above 0),
`IOAssumption` (a pool is a nonempty finite set of threads, as the constructor of Scheduler
asserts, scheduler.cpp 18; the pipe is no user's descriptor, iomanager.cpp 47), besides
those named with the theorems.

Model-checked only: Raft's replication with snapshots where a theorem excludes them
(there the run `replication` says what holds, `compacted` and `late_snapshot` what does not); and the liveness
properties `LoneCallReturns`, `WaitsEnd` and `StopReturns`, since liveness under fairness is
outside the prover's reach.  So are the library's induction theorems, which take an operator
as a parameter: RaftLog defines the loops of the log in closed form for that reason, and
SkipListProofs brings its own argument.

## 5. What is not modelled, and the plan

* Raft: durations; the bytes of snapshots (Storage has them); `leaderUpdateCommitIndex`,
  which nobody calls.  `StepDownForHigherTerm` is checked and proved
  without snapshots only.
* Raft: an InstallSnapshot call that returns empty (section 2, Raft).
* KvServer: the installation of snapshots (see section 2).
* RPC: the framing of bytes (a reply over the 1024 bytes of `recv_buf`, a request
  that the stream splits), replies that are never sent or have no bytes, the registration
  of services, Protobuf.
* Raft on shared sockets, beyond what `rpc_swapped` shows (section 2, RpcChannel).
* Fiber library: recurring timers; the clock set back (timer.cpp 148-177); timers of more
  than 2^31 milliseconds, which `(int)next_timeout` (iomanager.cpp 309) turns into a wait
  without end; waiting fibers in a pool of several threads; `connect_with_timeout`; the flags of `fcntl` and `setsockopt`; the
  table of FdManager, whose bound test lets `fd == size()` through; `delEvent`, which
  has no caller; `use_caller`.
* Configuration parsing, logging, generated code and examples have no behaviour worth
  a model.  Most lines of the repository are of this kind: Protobuf's output stands in
  it twice, as does the program itself (`KVstorageBaseRaft-cpp-main/`), so the mapped
  share of all lines is small although every state-changing component is modelled.

What would come next, in order:

1. More proofs: the replication invariants with snapshots, for requests that do not
   reach below the follower's snapshot.
2. `ApplyPath`: what the applier, Snapshot and the detached InstallSnapshot thread
   push to applyChan, in the orders they may do it.
3. An abstract specification of the store, a map that each request changes at most
   once; KvServer would implement it once a Get no longer wrote `m_lastRequestId`.
4. `CommitRound`: one leader of five nodes with fairness: is what a majority holds
   committed?
