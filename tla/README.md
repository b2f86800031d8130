# HotSniper: a TLA+ model of scheduling, synchronisation and cache coherence

HotSniper is the Sniper multi-core simulator with an *open-system* scheduler:
tasks (multi-threaded applications, replayed from instruction traces) arrive
over time, queue for cores, are mapped, migrated and finished while a thermal
model runs beside them. This directory models the parts of the program in which
host threads meet: who may run on which simulated core, who waits for whom, how
simulated time goes on, and how the simulated caches and their directory, which
are run by one host thread per core and one simulation thread per node, agree on
who has a line of memory. Paths below are relative to the repository root (`src/`
in `PROJECT.json`), and memory paths to `common/core/memory_subsystem/`.

## 1. The system

### Parts and how they interact

| Part | Code | State | Operations |
|---|---|---|---|
| Thread manager | `common/system/thread_manager.cc`, `common/core/thread.cc` | status, stall reason and waiter of every thread; who is parked in `Thread::wait` | create, start, exit, join, stall, resume, move |
| Dynamic and pinned scheduler | `common/scheduler/scheduler_dynamic.cc`, `scheduler_pinned_base.cc` | runnable threads, affinity masks, thread of every core, core of every thread, quantum left | `reschedule`, `threadYield`, `threadSetAffinity`, hooks for start, stall, resume, exit |
| Open scheduler | `common/scheduler/scheduler_open.cc` | task table (four flags, arrival time), core table (task and thread of every core) | `schedule`, `fetchTasksIntoQueue`, `threadCreate`, `threadExit` with prefetching, migration, `periodic` |
| Barrier server | `common/system/barrier_sync_server.cc` | barrier time, clocks and entries of the cores, list of threads to release | `synchronize`, `barrierRelease`, `releaseThread`, `advance`, `setDisable` |
| Synchronisation server | `common/system/sync_server.cc` | owners and queues of mutexes, queues of condition variables and barriers | lock, trylock, unlock, wait, signal, broadcast, barrier wait |
| Syscall server | `common/system/syscall_server.cc` | queues of futexes and sleepers with timeouts | futex operations, sleep, periodic end of timeouts |
| DRAM directory | `pr_l1_pr_l2_dram_directory_msi/dram_directory_cntlr.cc`, `dram_directory_cache.cc`, `directory_schemes/` | state, sharers, owner and forwarder of a line; queue of requests for it; NUCA slice | requests of caches, their answers to invalidations, replacement of a directory entry, data from DRAM |
| Last-level cache | `parametric_dram_directory_msi/cache_cntlr.cc` | state of the line, waiting threads | misses, upgrades, evictions, messages of the directory |
| Cache stack | `cache_cntlr.cc`, `common/misc/setlock.cc` | the line in every level, lock of the cache set, semaphores between core and simulation thread | accesses, atomic accesses, prefetches, back-invalidation |
| Network | `common/network/network.cc`, `common/system/sim_thread.cc` | a queue of messages per receiver | send, handle |
| Syscall model, trace front end | `common/core/syscall_model.cc`, `common/trace_frontend/` | none of their own that matters here | what an application thread does |

Every handler of the scheduling and synchronisation parts runs under one lock,
`ThreadManager::m_thread_lock`. That makes single handlers atomic, but not the
conversations between them: a host thread gives the lock up in `Thread::wait`
and in the barrier, finds the world changed when it returns, and the last thread
to reach the barrier runs `HOOK_PERIODIC` (timeouts first, then the scheduler)
in the name of everybody. `stallThread` even runs that callback itself when
nobody else is left to do it.

The memory subsystem has no such lock. A core's host thread and the simulation
thread of its node exclude each other by the lock of a cache set only, which is
passed from the one to the other through a pair of semaphores; caches and
directory talk by messages, and caches evict lines at any time without asking.

The remaining parts (replacement policies, performance, power and thermal
models, policies, front ends, statistics) are listed with reasons in
`PROJECT.json` under `components`.

### What is hard about it

* The same fact is kept in several places: a core's thread and a thread's core,
  the open scheduler's table and the pinned scheduler's masks, four flags per
  task, thread status and the parked host thread.
* Wake-ups can come before the wait, for the wrong reason, or never.
* Threads are moved while they wait in the barrier.
* The simulation goes on only as long as somebody runs: each way of stopping
  must leave somebody to advance time or to start the next task.
* Timeouts, wake-ups and requeues compete for the same waiter.
* A cache can give a line up while the directory asks for it, upgrade a line that
  another cache is about to take away, or be asked for data it no longer has. The
  directory recognises the answer to its question only by what it finds when a
  message comes.
* The set lock is a row of mutexes; its upgrade lets go of everything first, and
  its owner changes while it is held.

`PROJECT.json` lists the hazards one by one, at their lines.

## 2. Modules

| Module | Models |
|---|---|
| `PinnedBase` | thread manager, dynamic and pinned scheduler, as operators from thread state to thread state |
| `SchedulerOpen` | open scheduler, trace front end and stalls on top of `PinnedBase`; one action per critical section |
| `TaskQueue` | abstract specification that `SchedulerOpen` implements: in which order tasks start |
| `BarrierSync` | barrier server with an arbitrary scheduler |
| `SyncServer` | synchronisation server |
| `SyscallServer` | syscall server |
| `ShmemNetwork` | messages between caches, directory and DRAM |
| `DramDirectory` | directory, NUCA slice and DRAM for one line |
| `LastLevelCache` | last-level caches and the threads that wait in them |
| `Coherence` | the three together |
| `LineAccess` | abstract specification that `Coherence` implements: who may read and who may write |
| `SetLock` | lock of a cache set |
| `StackLock` | abstract specification that `SetLock` implements: who shares the lock, who has it alone |
| `CacheStack` | first-level caches, their last level and its simulation thread, on top of `SetLock` |
| `MC*` | instances for TLC |
| `SchedulerOpenProofs`, `SchedulerPlacementProofs`, `BarrierSyncProofs`, `SyncServerProofs`, `SyscallServerProofs`, `CoherenceSteps`, `CoherenceProofs`, `CacheStackProofs` | lemmas and theorems |

Definitions keep the names of the functions they model; `PROJECT.json` maps each
to its lines. Operators introduced by a comment "Not the code" are wrong variants
of the definition that follows them. No specification uses them: each is there to
show that a property notices the mistake.

### PinnedBase and SchedulerOpen

`PinnedBase` describes the thread layer as a record `x` and every function of the
code as an operator that yields the record after the call, so that handlers that
call several of them (an exit wakes the joiner, takes the thread off its core,
ends the task, jumps in time and maps the next task) are one action each.
`Thread::m_core`, `Core::m_thread` and `ThreadInfo::m_core_running` always change
together and are one function. Affinity masks have one core or none, because
that is all the open scheduler ever sets; then at most one thread is eligible for
a core (`UncontestedCores`, proved), and the scores by which `reschedule` would
choose are left out.

`SchedulerOpen` adds the task table, the core table and the actions:

* `CreateFirst`, `Spawn`, `ThreadStart`, `ThreadExit`: the life of a thread;
* `Join`, `Sleep`, `StallUnscheduled` enter `stallThread`, `CallerReturns` leaves
  it; while the caller is inside and nothing runs, only time can advance;
* `BlockingSyscall`, `SyscallReturns`, `Yield`;
* `Tick` starts the periodic callback (and wakes at most one sleeper); `Move`,
  `Swap`, `EndMigration`, `MapStep`, `CoreStep` and `PeriodicEnd` are the steps of
  its loops, during which no other action is enabled.

Time is counted in barrier intervals; `due` is the arrival time of a task less
the current time. A mapping policy is any choice of available cores of the right
number, a migration policy any sequence of moves and swaps. What applications do
beyond spawning, joining, yielding and exiting is chosen by `Workload`. The core
requirement of a task is the largest number of threads it has at a time, as the
configuration of the benchmarks has it. A new thread that finds no core, a first
task that is not mapped, and the deadlock assertion of the barrier end the
program (`fault`).

### BarrierSync

A thread that comes to the barrier time enters its core in the barrier and
waits. `ahead` is a core's clock relative to the barrier, in intervals. Several
waiters on one core's condition variable are told apart by which came last; the
host is assumed to wake the one that came first, as Linux futexes do. The
periodic callback may resume, take away (`Preempt`) and place (`Dispatch`)
threads in any way that keeps one thread to a core. `Stall` and `Exit` may give
the core to another thread at once. Left out: groups of hardware threads,
fast-forward mode.

### SyncServer and SyscallServer

Each call is one action. Of the thread manager only "stalled until resumed" is
visible. A broadcast is a forced sequence of steps. Futex words have one bit, on
which the five operations of `FUTEX_WAKE_OP` are arithmetic modulo 2; `WakeOps` has
every operation and every comparison of it. A refused
call (`EWOULDBLOCK`, `EAGAIN`, a refused trylock) changes nothing and is no step.

### ShmemNetwork, DramDirectory, LastLevelCache and Coherence

One line of memory. Messages wait in a queue per receiver (the queue of the
node's simulation thread), so messages to one receiver are handled in the order
in which they were sent, and those to different receivers in any order. A handler
is one action; where it calls another at its end (`processNextReqFromL2Cache`,
the repeated `processShReqFromL2Cache` after an answer) the directory takes a
forced step, in which it handles no message. `config`, chosen at the start, has the
protocol (MSI, MESI, MESIF), whether there is a NUCA slice, and how many sharers
the directory has room for. Other lines are an environment: they can replace the
directory entry (`ReplaceEntry`, that is `processDirectoryEntryAllocationReq` and
the nullification it causes), the line in the NUCA slice (`NucaEvict`) and the
line in a cache (`Evict`) whenever the code would admit it. In
`LastLevelCache` what happens under the stack lock is one step, with a gap where
the simulation thread has passed the lock to a waiter and has not got it back;
the levels above are left to `CacheStack`. A failed assertion sets `failed` and
ends the behaviour.

`LineAccess` knows nothing of messages: each cache may write, read or do neither,
and gets the right to write only while no other cache has any.

Contents of lines are a parameter (`Values`, `Junk`), and the runs give them one
value: as section 3 lists, the code loses contents in several places, so that no
property of them holds.

### SetLock and CacheStack

`SetLock` is the code's row of mutexes, one per core: shared is one's own,
exclusive all of them, taken one at a time in order. `CacheStack` has a
first-level cache per core and one last level. A core's thread takes its shared
lock, tries its own cache, gives the lock up, takes the exclusive one, tries the
last level and waits for the directory if it must; the simulation thread takes
the exclusive lock for every message and hands it to the waiting cores in turn.
The directory is an environment that keeps to what `Coherence` shows of it.
First-level evictions, prefetches of the last level and atomic accesses, which
keep the shared lock between their two halves, may happen at any time.

## 3. What TLC checks

### Passing runs

| Run | Instance | Shows |
|---|---|---|
| `MCSchedulerOpen` | 3 cores, 3 tasks of 1, 2 and 2 cores arriving at 0, 0, 1, 4 threads, epoch 1, sleeps and system calls, any migrations | refinement of `TaskQueue` (every task is in one state, and goes through the four in order), core ownership, tables and masks agree, the two views of who runs where, threads run on their task's cores and follow their pins (`RunsWhereItBelongs`), a core for every thread that is created, unless a thread moved before its start is in the way (`ThreadsGetCores`), no lost wake-up |
| `MCSchedulerOpenLiveness` | 3 cores, 2 tasks, 3 threads | every task completes |
| `MCBarrierSync` | 4 cores, 4 threads, one host core, overshoot up to 1 interval, barrier switched off and on, no pre-emption | the assertions of the barrier hold, the release goes on |
| `MCBarrierSyncLiveness` | 2 cores, 3 threads that are moved between them (pre-emption), one host core | one wake-up to come for each waiter, entries belong to waiting threads, nobody runs beyond the barrier, waiters leave it, advancing time ends |
| `MCSyncServer` | 3 threads, 2 mutexes, 1 condition variable, 1 barrier of 3 | a stalled thread has one place in the queues (`OneEntryEach`), hand-over is direct and in order, barriers release all; every waiter of a mutex gets it unless an owner waits for something itself and never goes on |
| `MCSyscallServer` | 3 threads, 2 futexes, timeouts up to 1 | no waiter lost or doubled, no unasked timeout, wake-ups in order, the deadlock test asks the right question; every timeout ends unless waiters are requeued again and again |
| `MCCoherence` | 3 caches under MESIF; 2 under MSI; 2 under MESI and MESIF with NUCA; full map | no assertion of directory and caches fails, the directory's list is exactly the caches with a copy or about to get or give up one, refinement of `LineAccess`, waiting threads are served |
| `CacheStack` | 2 cores and the simulation thread | refinement of `StackLock` (the set lock excludes), no assertion fails, the last level includes the first, every access ends |

Bounds. In the scheduler run the first two tasks fill the cores and start together,
the third has to queue, and cores are handed from task to task while a thread may
still sit on a core it is moved from, or have been moved before it started; one
spawned thread lets a task join. Two cores would not do: no task could spawn while
another has not started. Two tasks in the queue at a time, where the order matters
in which they start, are in a larger instance and in the theorem. Epochs longer than a period are in the liveness run and in
the theorems. Four cores with
one host core leave up to three threads on the release list when one has been let
go, which is the case the assertions of the barrier are about; on this instance
pre-emption makes one of them fail (see below), so the run is about a scheduler
that does not pre-empt. In the other barrier run three threads
for two cores let a second thread come to wait on a core from which a waiting one
was taken. Three threads on a
futex give a woken, an expired and a requeued waiter at once. Three caches are
needed for a forwarder, a requester and a third that evicts or upgrades meanwhile.
Two cores of a stack and the simulation thread are three competitors for the set
lock. `MaxThreads`, `MaxSkew`, `MaxAhead`, `MaxTimeout` and `MaxQueue` are the
only bounds on otherwise unbounded quantities. `MaxQueue` = 0 lets a cache *start*
a miss only while no message is under way to a cache or to the DRAM; misses that
have started, evictions, replacements and all handlers are not held up by it.

The safety properties (and, for scheduler, coherence and cache stack, the
refinements) also hold on other instances, most of which take longer than is
convenient to repeat:

| Instance | Distinct states |
|---|---|
| scheduler, as `MCSchedulerOpen`, tasks of 2, 2 and 1 cores: the third fits and has to wait behind the second | 1,551,816 |
| barrier, 3 cores, 3 threads, pre-emption and switching off together, without symmetry reduction | 1,841,186 |
| barrier, 3 cores, 4 threads, pre-emption and switching off together | 160,721 |
| coherence, 3 caches, all protocols without NUCA | 1.8 million |
| coherence, 3 caches, all protocols with and without NUCA (without refinement) | 11.5 million |
| coherence, 3 caches, MESIF, `MaxQueue` = 1 | 2.6 million |
| coherence, 2 caches with 2 threads each, all configurations, `MaxQueue` = 1 | 4.3 million |
| cache stack, 3 cores | 806,324 |

Deadlock is checked in the liveness run of the scheduler and in all passing runs
of `BarrierSync`, `SyscallServer`, `Coherence` and `CacheStack`. It is not checked where the program may really
stop: sleeping or blocked threads in the other passing scheduler run (the hang is shown
by `MCSleepHang`), application threads that deadlock each other in `SyncServer`
(locking a mutex twice, or two mutexes in opposite orders).

Fairness. The host runs every thread that can run, and the lock is not withheld
for ever from a thread that asks again and again (strong fairness for actions
that need the lock, weak for the steps of the thread that holds it). In the
scheduler an application thread that executes again and again comes to its end,
as a finite trace does, and system calls return; in `BarrierSync` running takes
simulated time, so the clock of a core on which threads run gets to the barrier;
in `SyncServer` an owner that can run again and again unlocks. Timeouts pass as long as time goes on.
In the memory subsystem every simulation thread takes the messages of its queue
in turn (`SimThread::run`), so the handlers of each cache, of the directory and of
the DRAM are weakly fair; nothing is assumed about cores starting accesses,
evictions or replacements. In `CacheStack` a mutex that is free again and again
comes to each thread that waits for it, and the answer of the directory, which
waits in a first-in first-out queue, is not overtaken for ever by its requests
(strong fairness); that the directory answers at all is `WaitersServed` of
`Coherence`.

### Runs that show a disagreement

Each checks one property that a comment or an assertion of the code states, and
TLC finds a behaviour of the code that violates it.

| Run | Behaviour |
|---|---|
| `MCStrandedTask` | two tasks are there from the start, one fits; when it ends nothing maps the other, since prefetching asks for tasks that have not arrived (`scheduler_open.cc:956`) |
| `MCSleepHang` | the last running thread exits while another sleeps; nobody advances time (`thread_manager.cc:148`) |
| `MCCoherenceLimited` | `limited_no_broadcast`, one sharer too many: the invalidation that is to make room is overtaken by an eviction, arrives while its receiver upgrades the line, and the answer to the upgrade finds no line and brings no data (`cache_cntlr.cc:1907`) |
| `CacheStackReaders` | a core reads a line that is EXCLUSIVE in the last level: the other copies become SHARED ("will have shared state", `cache_cntlr.cc:878`), the reader's own gets the state of the last level (`:655`). The branch for a MODIFIED line (`:859`) does the same, so that the reader may write later while the others keep their copies |

### Disagreements without a run

The models have these behaviours too; a reader can see each by giving the
constants named here and checking the property.

* A task that arrived between two epochs gets a later arrival time, and so a
  shorter response time, when the next task is made to arrive "now"
  (`ArrivedStaysArrived` as an action property, `scheduler_open.cc:988`).
* A join before the start of the joined thread is forgotten ("early join" in
  `Workload`, `NoLostWakeup`, `thread_manager.cc:143`).
* A first thread exits before a sibling ("abandon" in `Workload`): the cores of the
  task are given away while the sibling is pinned to one, and the first thread of
  the next task finds none (`ThreadsGetCores`, `scheduler_open.cc:917`).
* A thread is migrated before it has started: its pin moves at once, but
  `reschedule()` leaves the thread where it is as long as it is INITIALIZING
  (`scheduler_pinned_base.cc:225`). If the core now belongs to a task that spawns a
  thread, `setAffinity()` reserves it and `findFreeCoreForThread` does not get it, so
  that the program exits with "failed to get a core" (`scheduler_open.cc:838`). The
  run `MCSchedulerOpen` reaches this (`fault = "no core for new thread"`);
  `ThreadsGetCores` says that it is the only way to get there.
* The last other thread stalls while a thread is in a blocking system call of the
  host: the assertion "Application has deadlocked" fails (`"syscall"` in `Workload`,
  `fault = "deadlocked"`, `barrier_sync_server.cc:279`).
* With one host core and four threads on four cores, three of which lose their cores
  in one periodic callback, the assertion "some threads haven't even restarted" fails
  (`NoAssertionFails` in `MCBarrierSync` with `Preempts` = TRUE,
  `barrier_sync_server.cc:249`). The open
  scheduler does this if a migration policy orders several moves at once.
* The barrier is switched off while `stallThread` advances time: the loop does not
  end (`AdvanceEnds` with `Disables`, `barrier_sync_server.cc:283`).
* An expired waiter that is requeued again and again is never woken, although
  others are to be woken "in the next barrier synchronization"
  (`syscall_server.cc:435`); `TimeoutsEnd` excepts this case.
* `FUTEX_WAKE_BITSET` compares the command with `FUTEX_WAIT_BITSET`, so that the mask
  of a wake-up is ignored (`syscall_server.cc:88`). Linux allows spurious wake-ups,
  so no property is about it; the model follows the code.
* Contents of a line, with more than one of `Values`: the data of a `WB_REP` is
  never written to the DRAM although the line is clean from then on
  (`processWbRepFromL2Cache`, `dram_directory_cntlr.cc:1158`); a line that is new
  in the NUCA slice is not marked as modified and is dropped later, although "it
  will be written to DRAM on eviction" (`:1241`, `nuca_cache.cc`); on a hit there
  `eviction` is read uninitialised (`:1204`); the data of a `FLUSH_REP` is kept by a
  pointer to a buffer that is deleted (`:1136`); a forwarder that is upgrading
  answers with a buffer that was not filled (`cache_cntlr.cc:2017`). The models
  have all of these as nondeterministic contents (`Junk`). The control flow, which
  is what the properties are about, does not depend on contents.

## 4. What is proved

TLAPS checks the theorems of this section for all values of the constants that the
named assumptions of the modules admit. "Always" in what follows means
`Spec => []...`. Each argument is an inductive invariant: it holds at first, every
action keeps it (one step of the proof per action), and it implies the property.

### Scheduler

Every number of cores, threads and tasks, every core requirement, arrival time and
epoch, any core mask, workload and migration policy (`ThreadLayerAssumption`,
`SchedulerAssumption`).

| Theorem | Statement |
|---|---|
| `TypeCorrect` | always `TypeOK` |
| `RunningInverseAlways` | always `RunningInverse` |
| `ArrivalsFetchedAlways` | always `ArrivalsFetched` |
| `TaskStatesPartitionAlways` | without "abandon", always `TaskStatesPartition` |
| `AssignedAffinityAlways` | without "abandon", always `AssignedAffinity` |
| `UncontestedCoresAlways` | without "abandon", always `UncontestedCores` |
| `RunsWhereItBelongsAlways` | without "abandon", always `RunsWhereItBelongs` |
| `CoreOwnershipAlways` | without "abandon", always `CoreOwnership` |
| `ThreadsGetCoresAlways` | without "abandon", always `ThreadsGetCores` |
| `Implements` | without "abandon", `ImplementsTaskQueue` |
| `NoLostWakeupAlways` | without "early join", always `NoLostWakeup` |

The first part of `SchedulerOpenProofs` shows for each operator of the thread layer
that it keeps the types and the agreement of the two views (`Consistent`), which
parts of the state it leaves alone (`Keeps`), and that a core whose time slice has
not been cut short runs a thread that is pinned to it (`OnPins`). The second part
lifts this to the operators on task table, core table and threads, and proves
`SoundInv` inductive: `TypeOK` and `RunningInverse` hold only together with the facts
that threads not created yet are on no core (`Fresh`), are in no table (`Known`), that
created threads have an application, and that the periodic callback starts after
all first threads exist. `ArrivalsFetched` needs the sharper bound `DueAbove`,
which relates the age of an unfetched task to the phase of the mapping epoch.
`SchedulerPlacementProofs` proves `PlacedInv` inductive relative to `SoundInv`:
`Placement` adds to the agreement of table and masks that a core reserved for a
thread belongs to the thread's task, that this thread is alive, that only active
tasks have cores, and that first threads of other tasks have none; `Alive`,
`FirstApps` and `Uncreated` tie task states to first threads. `RunsWhereItBelongs`
joins the two: what runs is pinned there, and what is pinned there belongs there.
`Owned` counts cores: the operators that hand cores over are shown to change the
number of a task's cores by what it asks for or by nothing, an exchange of two cores
among them. `ThreadsGetCores` needs all of these: a task with fewer live threads than
it asked for cores has a core to spare, since by `Owned` it has the cores and by
`Placement` no two of them have the same thread (`TaskHasFreeCore`); the thread that
asks runs, so it is pinned and its task is active (`PinnedInv`: a thread pinned nowhere
is on no core, and the first threads of active tasks are pinned); and if the core to
spare has no thread on it, the new thread runs there (`PlaceNewThreadRuns`). What is
left is a core occupied by a thread that is pinned elsewhere.
`Implements` goes through the handlers: each serves the queue at most once (`Serves`).
`schedule()` starts its task only if it is the front of the queue (`ScheduleServes`);
prefetching fetches tasks first, which makes one step of both (`PrefetchServes`); and
the task that `threadExit()` completes was active, since its first thread has a core
(`ExitServes`, from `Placement`).
`Waits`, at the end of `SchedulerOpenProofs`, says of each thread by its
status who is left to wake it. It is relative to `SoundInv`, and its lemmas rest on
`Moves`: rescheduling changes where threads run and signals those it gives a core,
and does nothing else to a thread that waits.
The assumptions that first threads exit last and that threads are joined after their
start are needed, see section 3.

### Barrier

Every number of cores, threads and host cores, an arbitrary scheduler
(`BarrierAssumption`).

| Theorem | Statement |
|---|---|
| `TypeCorrect` | always `TypeOK` |
| `WakeupsMatchWaiters` | always `WakeupForEachWaiter` |
| `ReleaseContinues` | always `ReleaseGoesOn` |
| `NeverEntersTwice` | the assertion of `synchronize()` never fails, with or without pre-emption |
| `NobodyRunsBeyond` | if the barrier is not switched off, always `NobodyBeyondBarrier` |
| `AssertionsHoldWithoutPreemption` | if threads are not pre-empted, always `NoAssertionFails` |

`BarrierInv` relates what the server knows of cores (who is entered, who is on the
list) to where threads really wait: the thread entered for a core waits there
(`EntriesWait`), besides it exactly one thread waits at each core of the list and none
at any other (`ListsWait`). These two together are what `WakeupForEachWaiter` counts.
They survive a release only because the list is empty when `barrierRelease()` begins
(`ListEmpty`) and because a core is entered only with its clock at the barrier
(`ClocksOfEntries`); `CallerEntered` and `NoEntries` follow the thread that called it
through the periodic callback, in which the barrier can be switched off.
The two conditional theorems add one conjunct each (`ClocksEntered`, `StayOnCores`).
Their conditions are needed: section 3 shows what happens with four threads that
lose their cores, and clocks are free while the barrier is off.

### Synchronisation server and syscall server

Every number of threads, mutexes, condition variables and barriers of every size
(`SyncAssumption`); every finite number of threads, any futexes, mask bits and
wake operations (`SyscallAssumption`).

| Theorem of `SyncServerProofs` | Statement |
|---|---|
| `TypeCorrect`, `EntriesUnique` | always `TypeOK`, `OneEntryEach` |
| `ServedInOrder` | `Spec => NoOvertaking` |
| `ReleasedTogether` | `Spec => BarrierReleasesAll` |
| `ResumedWithMutex` | `Spec => WokenOwnsMutex` |

| Theorem of `SyscallServerProofs` | Statement |
|---|---|
| `TypeCorrect`, `EntriesUnique` | always `TypeOK`, `OneEntryEach` |
| `TimeoutKnown` | always `NextTimeoutExists` |
| `NoTimeoutTooEarly` | `Spec => NoEarlyTimeout` |
| `WokenFirstComeFirst` | `Spec => WakesInOrder` |

Both invariants say that a queue holds a thread at most once (`QueuesOnce`) and that
the queues and the running threads are disjoint and cover all threads (`Apart`); the
syscall server needs besides that every sleep has an end (`SleepsEnd`). The work is in
what the operations do to queues: lining up, taking out the first `n` that match a
mask (`Dequeued`, `Without`), moving the rest to another queue. The lemmas about
these are stated for any queue. The action properties follow from the invariant and
the same lemmas: who was told that it had been woken stood in front, and a thread
that runs again stood in the one queue that the action touched.

### Coherence

Every number of last-level caches and of cores in each, every number of messages
that a queue may hold, and every protocol and directory scheme whose entries have
room for all caches (`NetworkAssumption`, `RoomForAll`).

| Theorem | Statement |
|---|---|
| `TypeCorrect` | always `TypeOK` |
| `AssertionsHold` | always `NoAssertionFails` |
| `CopiesTracked` | always `DirectoryTracksCopies` |
| `Implements` | `Spec => ImplementsLineAccess` |
| `WriterAlone` | always `SingleWriter` of `LineAccess` |

`RoomForAll` is needed: with fewer places than caches an assertion fails (run
`MCCoherenceLimited`). `CohInv` has a conjunct for each kind of message and says
what must be true of sender, receiver and directory while it is under way: a cache
that asked waits (`RequestsOK`); a line that is sent was promised by the entry
(`RepliesOK`); a demand reaches its cache behind the line it is about, and an answer
is on its way if the demand is not (`DemandsOK`, `AnswersOK`); at most one write-back is
expected (`WriteBacksOK`); and the request at the front of the directory's queue knows
which answers are still to come (`FrontOK`, `ReadsOK`). `DirectoryTracksCopies` alone is
not inductive, since the entry changes when an answer arrives and the cache
when it was sent; `SharersOK` and `HoldersOK` count a cache as a sharer from the
sending of the line until its answer has been taken. For the refinement, every step
is shown to be a step of `LineAccess` or to leave the permissions alone: a cache gets the
right to write only when the entry has no other sharer. `WriterAlone` follows: the
protocol never has a reader beside a writer. `CoherenceSteps` shows that each step
keeps `CohInv`, given only that an entry has a place for one more sharer (`RoomForOne`);
`CoherenceProofs` derives this from `RoomForAll` (`FullMapHasRoom`) and holds the
theorems.

### Cache stack

Any number of cores of a stack (`SharersAssumption`) and any caches.

| Theorem | Statement |
|---|---|
| `TypeCorrect` | always `TypeOK` |
| `LockExcludes` | always `StackLockExcludes` |
| `Implements` | `ImplementsStackLock` |
| `AssertionsHold` | always `NoAssertionFails` |
| `LastLevelIncludes` | always `Inclusion` |

`CacheStackProofs` first shows that every operation of the set lock keeps
`LockInv`: each mutex is with the thread that is entitled to it by its mode and by
how many mutexes it has. Mutual exclusion follows. Then `StackInv` is inductive.
Its conjuncts say what each thread has of the lock by how far it has come
(`LockOfPc`), who is in the queue of waiters (`QueueOK`), what the last level can
be while a request is outstanding (`LineOK`), and what a core has found in its own
cache and may rely on (`CopiesOK`). They need each other: inclusion can be
disturbed by an access between the look-up and the fill of a miss, which only the
lock prevents, and who has the lock depends on the queue.
`Implements` shows that each handler calls at most one operation of the lock
(`StepsOfTheLock`), and that each operation is a step of `StackLock` or none: a thread
that still collects mutexes has nothing of the lock (`Held`), and when it gets the last
mutex nobody else can have any of it, since everybody who shares the lock has a mutex
(`AllMutexes`).

### Only model-checked

* All liveness properties (`EveryTaskCompletes`, `WaitersLeave`, `AdvanceEnds`,
  `MutexWaitersServed`, `TimeoutsEnd`, `WaitersServed`, `AccessesEnd`): TLAPS does
  not treat fairness.

## 5. Not modelled

* Open scheduler: the priority queue policy with its pre-emption, DVFS, the choice
  of policies among the moves and cores that they may choose. Free cores are
  counted over all cores, while policies use those of `core_mask` only
  (`scheduler_open.cc:713`); the runs use masks that fit every task.
* Trace front end: applications that fork or restart, for which `endApplication`
  walks the table of threads without a lock (`trace_manager.cc:213`).
* Thread layer: masks of several cores and affinity calls of the application;
  identifiers of the operating system.
* Barrier: groups of hardware threads and fast-forward mode; the condition
  variable (`common/misc/cond.cc`) is assumed to wake in order of arrival.
* Coherence: more than one line at a time, so not the shortage of directory
  entries that the assertion at `dram_directory_cntlr.cc:286` is about; broadcast
  invalidations, which none of the directory schemes in the repository asks for;
  start-up and shut-down of the simulation threads; all latencies.
* Cache stack: three and more levels, write-through, perfect and pass-through
  caches, prefetchers of the first level, builds without
  `PRIVATE_L2_OPTIMIZATION`, last-level caches with DRAM and no directory.
* Replacement policies and prefetchers: the models allow every victim and every
  prefetch that the callers admit.
* Numerical and timing models (HotSpot, power, performance, DRAM, network), input
  and output, front ends, decoders, scripting, statistics, benchmarks. They make up
  most of the repository's lines; they have no concurrent state of their own or
  compute with real numbers, which neither TLC nor TLAPS treats.

## 6. Plan

In order of importance:

1. Open scheduler: the priority queue policy with pre-emption, and affinity calls
   of the application.
2. `Coherence`: two lines that compete for directory entries; what holds of limited
   directories.
3. `BarrierSync`: fast-forward mode and groups of hardware threads;
   `ConditionVariable` as a module of its own.
4. `SyncServer`: an abstract specification of mutex, condition variable and
   barrier (who may go on) that it implements.
5. `SyscallServer`: `FUTEX_WAKE_OP` as two accesses; composition with
   `SchedulerOpen` through the deadlock test of the barrier.
