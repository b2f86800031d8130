----------------------------- MODULE SchedulerOpen -----------------------------
(***************************************************************************)
(* The open-system scheduler (SchedulerOpen, FIFO queue policy) driven by  *)
(* the trace front end: tasks arrive over time, wait in a queue, get their *)
(* cores all at once, run their threads pinned one per core, and give the  *)
(* cores back when their first thread exits.                               *)
(*                                                                         *)
(* An action is one critical section of ThreadManager::m_thread_lock.  Two *)
(* of them contain loops and are several steps here, during which no other *)
(* action is enabled: the periodic callback (pc # "idle") and the loop of  *)
(* ThreadManager::stallThread that advances time while nothing runs        *)
(* (caller # None).                                                        *)
(*                                                                         *)
(* Time is counted in barrier intervals.  openTasks.due is a task's        *)
(* arrival time minus the current time, so that no clock is needed.        *)
(***************************************************************************)
EXTENDS PinnedBase, FiniteSetsExt

CONSTANTS
  NumTasks,         \* traceinput/num_apps
  CoreRequirement,  \* taskCoreRequirement of every task
  Arrival,          \* taskArrivalTime of every task
  MappingEpoch,     \* scheduler/open/epoch
  CoreMask,         \* scheduler/open/core_mask: the cores that may be mapped
  MaxSkew,          \* how far a core's clock may be ahead of the global time
  Workload,         \* what applications do besides spawn, join, yield and exit
  Migrates          \* the migration policy orders migrations

\* Workload:  "sleep"       a thread sleeps (nanosleep)
\*            "syscall"     a thread blocks in a host system call
\*            "early join"  a thread is joined before its host thread started
\*            "abandon"     a first thread exits while siblings are alive

Tasks == 0 .. NumTasks - 1

ASSUME SchedulerAssumption ==
  /\ NumTasks \in 1 .. MaxThreads
  /\ CoreRequirement \in [Tasks -> Nat \ {0}]
  /\ Arrival \in [Tasks -> Nat]
  /\ MappingEpoch \in Nat \ {0}
  /\ CoreMask \subseteq Cores
  /\ MaxSkew \in Nat
  /\ Workload \subseteq {"sleep", "syscall", "early join", "abandon"}
  /\ Migrates \in BOOLEAN

VARIABLES
  openTasks,    \* the task table
  systemCores,  \* assignedTaskID and assignedThreadID of every core
  threads,      \* the thread layer, see PinnedBase
  app,          \* application of every created thread
  numThreads,   \* threads created so far; the next thread id
  phase,        \* time modulo MappingEpoch
  pc,           \* where the periodic callback is
  nextCore,     \* loop variable of the periodic callback
  caller,       \* the thread inside stallThread() with the lock, or None
  fault         \* why the program gave up, or "none"

vars == <<openTasks, systemCores, threads, app, numThreads, phase, pc, nextCore,
          caller, fault>>

taskVars == <<openTasks, systemCores, threads>>

\* openTask: the flags of every task, as the sets of tasks that have them, and
\* the time left until it arrives.
TaskTable ==
  [ waitingToSchedule : SUBSET Tasks,
    waitingInQueue : SUBSET Tasks,
    active : SUBSET Tasks,
    completed : SUBSET Tasks,
    due : [Tasks -> Int] ]

\* systemCore.
CoreTable ==
  [ assignedTask : [Cores -> Tasks \cup {None}],
    assignedThread : [Cores -> Threads \cup {None}] ]

-----------------------------------------------------------------------------
(* The task table and the cores, as operators on st = [tk, sc, th].        *)

State == [tk |-> openTasks, sc |-> systemCores, th |-> threads]

Become(st) ==
  /\ openTasks' = st.tk
  /\ systemCores' = st.sc
  /\ threads' = st.th

\* taskFrontOfQueue() under the FIFO policy: the smallest task number.
taskFrontOfQueue(tk) == Min(tk.waitingInQueue)

FreeCores(sc) == {c \in Cores : sc.assignedTask[c] = None}

numberOfFreeCores(sc) == Cardinality(FreeCores(sc))

CoresOf(sc, k) == {c \in Cores : sc.assignedTask[c] = k}

\* A task enters the queue.
Enqueue(tk, ks) ==
  [tk EXCEPT !.waitingInQueue = @ \cup ks, !.waitingToSchedule = @ \ ks]

\* fetchTasksIntoQueue() by a thread whose clock is skew ahead.
fetchTasksIntoQueue(tk, skew) ==
  Enqueue(tk, {k \in tk.waitingToSchedule : tk.due[k] <= skew})

\* setAffinity(): pin thread t of task k to the first core of k that has no
\* thread, or to no core at all.
FirstOwnFreeCore(sc, k) ==
  LET own == {c \in CoresOf(sc, k) : sc.assignedThread[c] = None}
  IN  IF own = {} THEN None ELSE Min(own)

setAffinity(st, t, k) ==
  LET c == FirstOwnFreeCore(st.sc, k)
  IN  [ tk |-> st.tk,
        sc |-> IF c = None THEN st.sc
               ELSE [st.sc EXCEPT !.assignedThread[c] = t],
        th |-> threadSetAffinity(st.th, t, c) ]

\* executeMappingPolicy(): the sets of cores a mapping policy may choose.
\* Every policy picks taskCoreRequirement available cores if there are any.
Mappings(sc, k) == kSubset(CoreRequirement[k], FreeCores(sc) \cap CoreMask)

Assign(sc, k, cs) ==
  [sc EXCEPT !.assignedTask = [c \in Cores |-> IF c \in cs THEN k ELSE @[c]]]

\* Not the code: the task stays in the queue.
ActivateInQueue(tk, k) ==
  [tk EXCEPT !.active = @ \cup {k}]

Activate(tk, k) ==
  [tk EXCEPT !.active = @ \cup {k}, !.waitingInQueue = @ \ {k}]

\* schedule(): the possible outcomes for task k.
schedule(st, k, isInitialCall, skew) ==
  LET queued == [st EXCEPT !.tk = Enqueue(@, {k})]
      Mapped(cs) ==
        LET m == [queued EXCEPT !.sc = Assign(@, k, cs)]
            a == IF isInitialCall THEN m ELSE setAffinity(m, k, k)
        IN  [a EXCEPT !.tk = Activate(@, k)]
  IN  IF st.tk.due[k] > skew
      THEN {[ok |-> FALSE, st |-> st]}
      ELSE IF \/ taskFrontOfQueue(queued.tk) # k
              \/ numberOfFreeCores(st.sc) < CoreRequirement[k]
              \/ Mappings(st.sc, k) = {}
      THEN {[ok |-> FALSE, st |-> queued]}
      ELSE {[ok |-> TRUE, st |-> Mapped(cs)] : cs \in Mappings(st.sc, k)}

-----------------------------------------------------------------------------
Init ==
  /\ openTasks = [ waitingToSchedule |-> Tasks,
                   waitingInQueue |-> {},
                   active |-> {},
                   completed |-> {},
                   due |-> Arrival ]
  /\ systemCores = [ assignedTask |-> [c \in Cores |-> None],
                     assignedThread |-> [c \in Cores |-> None] ]
  /\ threads = ThreadLayerInit
  /\ app = [t \in Threads |-> None]
  /\ numThreads = 0
  /\ phase = 0
  /\ pc = "idle"
  /\ nextCore = 0
  /\ caller = None
  /\ fault = "none"

\* The lock is free and every first thread exists (TraceManager::init creates
\* them all before TraceManager::start lets any of them run).
LockFree ==
  /\ fault = "none"
  /\ pc = "idle"
  /\ caller = None
  /\ numThreads >= NumTasks

\* Thread t executes application code on a core.
Executes(t) ==
  /\ threads.status[t] = "RUNNING"
  /\ threads.coreRunning[t] # None
  /\ t \notin threads.parked

-----------------------------------------------------------------------------
(* Creation, start and exit of threads.                                    *)

\* The end of threadCreate(): pin the new thread t, and put it on its core.
PlaceNewThread(st, t, k) ==
  LET p == setAffinity([st EXCEPT !.th.status[t] = "INITIALIZING"], t, k)
      c == p.th.affinity[t]
  IN  IF c # None /\ p.th.threadRunning[c] = None
      THEN [p EXCEPT !.th.coreRunning[t] = c,
                     !.th.threadRunning[c] = t,
                     !.th.expired = @ \ {c}]
      ELSE p

\* TraceManager::init: the first thread of the next task.
CreateFirst ==
  /\ fault = "none"
  /\ numThreads < NumTasks
  /\ \E r \in schedule(State, numThreads, TRUE, 0) :
       IF numThreads = 0 /\ ~r.ok
       THEN /\ fault' = "task 0 not mapped"
            /\ UNCHANGED <<taskVars, app, numThreads>>
       ELSE /\ \E st \in {PlaceNewThread(r.st, numThreads, numThreads)} : Become(st)
            /\ app' = [app EXCEPT ![numThreads] = numThreads]
            /\ numThreads' = numThreads + 1
            /\ UNCHANGED fault
  /\ UNCHANGED <<phase, pc, nextCore, caller>>

\* Thread t creates a thread of its application.  The core requirement of a
\* task is the largest number of threads it has at a time.
Spawn(t) ==
  LET k == app[t]
      child == numThreads
      placed == PlaceNewThread(State, child, k)
      live == {u \in Threads : app[u] = k /\ threads.status[u] # "IDLE"}
  IN  /\ LockFree
      /\ Executes(t)
      /\ numThreads < MaxThreads
      /\ Cardinality(live) < CoreRequirement[k]
      /\ IF placed.th.coreRunning[child] = None
         THEN /\ fault' = "no core for new thread"
              /\ UNCHANGED <<taskVars, app, numThreads>>
         ELSE /\ Become(placed)
              /\ app' = [app EXCEPT ![child] = k]
              /\ numThreads' = numThreads + 1
              /\ UNCHANGED fault
      /\ UNCHANGED <<phase, pc, nextCore, caller>>

\* The host thread of t enters TraceThread::run.
ThreadStart(t) ==
  /\ LockFree
  /\ threads.status[t] = "INITIALIZING"
  /\ threads' = onThreadStart(threads, t)
  /\ UNCHANGED <<openTasks, systemCores, app, numThreads, phase, pc, nextCore,
                 caller, fault>>

\* Not the code: the core stays reserved for the thread.
ReleaseAffinityOnly(st, t) ==
  LET held == {c \in Cores : st.sc.assignedThread[c] = t}
  IN  [ tk |-> st.tk,
        sc |-> st.sc,
        th |-> IF held = {} THEN st.th ELSE threadSetAffinity(st.th, t, None) ]

\* threadExit(): take the core of t back from t ...
ReleaseThread(st, t) ==
  LET held == {c \in Cores : st.sc.assignedThread[c] = t}
  IN  [ tk |-> st.tk,
        sc |-> [st.sc EXCEPT !.assignedThread =
                  [c \in Cores |-> IF c \in held THEN None ELSE @[c]]],
        th |-> IF held = {} THEN st.th ELSE threadSetAffinity(st.th, t, None) ]

\* ... and, if t is a first thread, all cores from its task, which is done.
FinishTask(st, k) ==
  [ tk |-> [st.tk EXCEPT !.completed = @ \cup {k}, !.active = @ \ {k}],
    sc |-> [st.sc EXCEPT !.assignedTask =
              [c \in Cores |-> IF @[c] = k THEN None ELSE @[c]]],
    th |-> st.th ]

\* "Readjusting Arrival Time": the next task to arrive arrives now.
TimeJump(tk, skew) ==
  LET jump == Min({tk.due[k] : k \in tk.waitingToSchedule}) - skew
  IN  [tk EXCEPT !.due = [k \in Tasks |->
         IF k \in tk.waitingToSchedule THEN @[k] - jump ELSE @[k]]]

\* "System Going Empty ... Prefetching Tasks".
Prefetch(st, skew) ==
  LET jumped == [st EXCEPT !.tk = fetchTasksIntoQueue(TimeJump(@, skew), skew)]
      from == IF st.tk.waitingInQueue # {} THEN st ELSE jumped
  IN  IF FreeCores(st.sc) = Cores /\ st.tk.waitingToSchedule # {}
      THEN {r.st : r \in schedule(from, taskFrontOfQueue(from.tk), FALSE, skew)}
      ELSE {st}

\* (A quantifier over a one-element set names an intermediate state.)
ThreadExit(t) ==
  /\ LockFree
  /\ Executes(t)
  /\ "abandon" \notin Workload /\ t \in Tasks =>
       \A u \in Threads \ {t} : app[u] = t => threads.status[u] = "IDLE"
  /\ \E th \in {onThreadExit(threads, t)} :
       \E released \in {ReleaseThread([State EXCEPT !.th = th], t)} :
         \E done \in {IF t \in Tasks THEN FinishTask(released, t) ELSE released} :
           \E skew \in 0 .. MaxSkew :
             \E st \in Prefetch(done, skew) : Become(st)
  /\ UNCHANGED <<app, numThreads, phase, pc, nextCore, caller, fault>>

-----------------------------------------------------------------------------
(* Stalls.  Join, Sleep and StallUnscheduled enter stallThread() and leave *)
(* it with CallerReturns.                                                  *)

Stall(t, why, x) ==
  /\ threads' = stallThread_async(x, t, why)
  /\ caller' = t
  /\ UNCHANGED <<openTasks, systemCores, app, numThreads, phase, pc, nextCore,
                 fault>>

\* joinThread() returns at once if u has exited; otherwise t waits for u.
Join(t, u) ==
  /\ LockFree
  /\ Executes(t)
  /\ t < u
  /\ app[u] = app[t]
  /\ threads.status[u] # "IDLE"
  /\ "early join" \in Workload \/ threads.status[u] # "INITIALIZING"
  /\ threads.waiter[u] = None
  /\ Stall(t, "JOIN", [threads EXCEPT !.waiter[u] = t])

\* nanosleep.
Sleep(t) ==
  /\ "sleep" \in Workload
  /\ LockFree
  /\ Executes(t)
  /\ Stall(t, "SLEEP", threads)

Sleeping(x) ==
  {t \in Threads : x.status[t] = "STALLED" /\ x.reason[t] = "SLEEP"}

\* Thread::reschedule: the host thread of t finds that t has no core.
StallUnscheduled(t) ==
  /\ LockFree
  /\ \/ threads.status[t] = "RUNNING"
     \/ threads.status[t] = "STALLED" /\ threads.reason[t] # "SYSCALL"
  /\ threads.coreRunning[t] = None
  /\ t \notin threads.parked
  /\ Stall(t, "UNSCHEDULED", threads)

\* The end of stallThread(): some thread runs, so t waits to be signalled,
\* unless t was resumed in the meantime.
CallerReturns ==
  /\ fault = "none"
  /\ pc = "idle"
  /\ caller # None
  /\ anyThreadRunning(threads)
  /\ threads' = [threads EXCEPT !.parked =
                   IF threads.status[caller] = "RUNNING" THEN @
                   ELSE @ \cup {caller}]
  /\ caller' = None
  /\ UNCHANGED <<openTasks, systemCores, app, numThreads, phase, pc, nextCore,
                 fault>>

\* A blocking system call (read, poll, wait4, ...) is executed by the host.
BlockingSyscall(t) ==
  /\ "syscall" \in Workload
  /\ LockFree
  /\ Executes(t)
  /\ threads' = stallThread_async(threads, t, "SYSCALL")
  /\ UNCHANGED <<openTasks, systemCores, app, numThreads, phase, pc, nextCore,
                 caller, fault>>

SyscallReturns(t) ==
  /\ LockFree
  /\ threads.status[t] = "STALLED"
  /\ threads.reason[t] = "SYSCALL"
  /\ threads' = resumeThread_async(threads, t)
  /\ UNCHANGED <<openTasks, systemCores, app, numThreads, phase, pc, nextCore,
                 caller, fault>>

\* sched_yield.
Yield(t) ==
  /\ LockFree
  /\ Executes(t)
  /\ threads' = threadYield(threads, t)
  /\ UNCHANGED <<openTasks, systemCores, app, numThreads, phase, pc, nextCore,
                 caller, fault>>

-----------------------------------------------------------------------------
(* HOOK_PERIODIC.                                                          *)

RunningOnCore(x) ==
  \E t \in Threads : x.status[t] = "RUNNING" /\ x.coreRunning[t] # None

\* Not the code: the mapping epoch never comes again.
TickWithoutEpoch(w) ==
  /\ fault = "none"
  /\ pc = "idle"
  /\ numThreads >= NumTasks
  /\ \/ RunningOnCore(threads)
     \/ caller # None /\ ~anyThreadRunning(threads)
  /\ w # None => w \in Sleeping(threads)
  /\ threads' = IF w = None THEN threads ELSE resumeThread(threads, w)
  /\ openTasks' = [openTasks EXCEPT !.due = [k \in Tasks |->
                     IF k \in openTasks.waitingToSchedule \/ @[k] > 0
                     THEN @[k] - 1 ELSE @[k]]]
  /\ phase' = phase + 1
  /\ pc' = "migrate"
  /\ UNCHANGED <<systemCores, app, numThreads, nextCore, caller, fault>>

\* BarrierSyncServer releases the barrier: every running core has reached it,
\* or a thread inside stallThread() found no thread running.  The callback of
\* SyscallServer comes first and wakes at most one sleeper, w.
Tick(w) ==
  /\ fault = "none"
  /\ pc = "idle"
  /\ numThreads >= NumTasks
  /\ \/ RunningOnCore(threads)
     \/ caller # None /\ ~anyThreadRunning(threads)
  /\ w # None => w \in Sleeping(threads)
  /\ threads' = IF w = None THEN threads ELSE resumeThread(threads, w)
  /\ openTasks' = [openTasks EXCEPT !.due = [k \in Tasks |->
                     IF k \in openTasks.waitingToSchedule \/ @[k] > 0
                     THEN @[k] - 1 ELSE @[k]]]
  /\ phase' = (phase + 1) % MappingEpoch
  /\ pc' = "migrate"
  /\ UNCHANGED <<systemCores, app, numThreads, nextCore, caller, fault>>

\* executeMigrationPolicy().  A policy that names a core of the wrong kind ends
\* the program; such orders are left out.
Migration(a, b) ==
  /\ fault = "none"
  /\ pc = "migrate"
  /\ Migrates
  /\ a # b
  /\ systemCores.assignedTask[a] # None
  /\ UNCHANGED <<openTasks, app, numThreads, phase, pc, nextCore, caller, fault>>

\* Not the code: the thread keeps its affinity.
MigrateThreadNot(x, t, c) ==
  x

MigrateThread(x, t, c) == IF t = None THEN x ELSE threadSetAffinity(x, t, c)

\* Not the code: the task keeps its old core as well.
MoveKeepingCore(a, b) ==
  LET t == systemCores.assignedThread[a]
      MoveIn(f) == [f EXCEPT ![b] = f[a], ![a] = None]
  IN  /\ Migration(a, b)
      /\ systemCores.assignedTask[b] = None
      /\ threads' = MigrateThread(threads, t, b)
      /\ systemCores' = [systemCores EXCEPT
                           !.assignedTask = [@ EXCEPT ![b] = systemCores.assignedTask[a]],
                           !.assignedThread = IF t = None THEN @ ELSE MoveIn(@)]

\* Move what core a has to the unused core b.
Move(a, b) ==
  LET t == systemCores.assignedThread[a]
      MoveIn(f) == [f EXCEPT ![b] = f[a], ![a] = None]
  IN  /\ Migration(a, b)
      /\ systemCores.assignedTask[b] = None
      /\ threads' = MigrateThread(threads, t, b)
      /\ systemCores' = [systemCores EXCEPT
                           !.assignedTask = MoveIn(@),
                           !.assignedThread = IF t = None THEN @ ELSE MoveIn(@)]

\* Not the code: the thread of core b is not pinned to core a.
SwapOneWay(a, b) ==
  LET SwapIn(f) == [f EXCEPT ![a] = f[b], ![b] = f[a]]
  IN  /\ Migration(a, b)
      /\ systemCores.assignedTask[b] # None
      /\ threads' = MigrateThread(threads, systemCores.assignedThread[a], b)
      /\ systemCores' = [assignedTask |-> SwapIn(systemCores.assignedTask),
                         assignedThread |-> SwapIn(systemCores.assignedThread)]

\* Swap what cores a and b have.
Swap(a, b) ==
  LET SwapIn(f) == [f EXCEPT ![a] = f[b], ![b] = f[a]]
  IN  /\ Migration(a, b)
      /\ systemCores.assignedTask[b] # None
      /\ threads' = MigrateThread(
                       MigrateThread(threads, systemCores.assignedThread[a], b),
                       systemCores.assignedThread[b], a)
      /\ systemCores' = [assignedTask |-> SwapIn(systemCores.assignedTask),
                         assignedThread |-> SwapIn(systemCores.assignedThread)]

\* Not the code: no task is fetched.
EndMigrationWithoutFetch ==
  /\ fault = "none"
  /\ pc = "migrate"
  /\ openTasks' = openTasks
  /\ pc' = IF phase = 0 THEN "map" ELSE "cores"
  /\ UNCHANGED <<systemCores, threads, app, numThreads, phase, nextCore, caller,
                 fault>>

\* At a mapping epoch the scheduler fetches the tasks that have arrived.
EndMigration ==
  /\ fault = "none"
  /\ pc = "migrate"
  /\ openTasks' = IF phase = 0 THEN fetchTasksIntoQueue(openTasks, 0)
                  ELSE openTasks
  /\ pc' = IF phase = 0 THEN "map" ELSE "cores"
  /\ UNCHANGED <<systemCores, threads, app, numThreads, phase, nextCore, caller,
                 fault>>

\* One iteration of the loop that maps queued tasks until one does not fit.
MapStep ==
  /\ fault = "none"
  /\ pc = "map"
  /\ IF openTasks.waitingInQueue = {}
     THEN /\ pc' = "cores"
          /\ UNCHANGED taskVars
     ELSE \E r \in schedule(State, taskFrontOfQueue(openTasks), FALSE, 0) :
            /\ Become(r.st)
            /\ pc' = IF r.ok THEN "map" ELSE "cores"
  /\ UNCHANGED <<app, numThreads, phase, nextCore, caller, fault>>

\* One iteration of the loop over the cores.  The quantum of a core that is
\* not marked expired may or may not be over.
CoreStep ==
  /\ fault = "none"
  /\ pc = "cores"
  /\ nextCore < NumCores
  /\ \/ threads' = reschedule(threads, nextCore)
     \/ /\ nextCore \notin threads.expired
        /\ threads.threadRunning[nextCore] # None
        /\ UNCHANGED threads
  /\ nextCore' = nextCore + 1
  /\ UNCHANGED <<openTasks, systemCores, app, numThreads, phase, pc, caller,
                 fault>>

\* Back in barrierRelease(), which gives up if time cannot wake anyone.
PeriodicEnd ==
  /\ fault = "none"
  /\ pc = "cores"
  /\ nextCore = NumCores
  /\ nextCore' = 0
  /\ pc' = "idle"
  /\ fault' = IF /\ caller # None
                 /\ ~anyThreadRunning(threads)
                 /\ Sleeping(threads) = {}
              THEN "deadlocked" ELSE fault
  /\ UNCHANGED <<taskVars, app, numThreads, phase, caller>>

-----------------------------------------------------------------------------
\* The simulation is over, or has given up.
Stopped ==
  /\ fault # "none" \/ openTasks.completed = Tasks
  /\ UNCHANGED vars

Periodic ==
  \/ \E a, b \in Cores : Move(a, b)
  \/ \E a, b \in Cores : Swap(a, b)
  \/ EndMigration
  \/ MapStep
  \/ CoreStep
  \/ PeriodicEnd

Next ==
  \/ CreateFirst
  \/ \E t \in Threads : Spawn(t)
  \/ \E t \in Threads : ThreadStart(t)
  \/ \E t \in Threads : ThreadExit(t)
  \/ \E t, u \in Threads : Join(t, u)
  \/ \E t \in Threads : Sleep(t)
  \/ \E t \in Threads : StallUnscheduled(t)
  \/ CallerReturns
  \/ \E t \in Threads : BlockingSyscall(t)
  \/ \E t \in Threads : SyscallReturns(t)
  \/ \E t \in Threads : Yield(t)
  \/ \E w \in Threads \cup {None} : Tick(w)
  \/ Periodic
  \/ Stopped

Spec == Init /\ [][Next]_vars

\* The host runs every host thread that can run and lets every thread that asks
\* for the lock again and again have it; a system call returns; an application
\* thread that gets to execute again and again comes to its end.  A barrier
\* release nested in stallThread() ends when it has resumed a core, so the
\* caller returns.
Fairness ==
  /\ WF_vars(CreateFirst)
  /\ SF_vars(CallerReturns)
  /\ WF_vars(Periodic)
  /\ WF_vars(\E w \in Threads \cup {None} : Tick(w))
  /\ \A t \in Threads :
       /\ SF_vars(ThreadStart(t))
       /\ SF_vars(StallUnscheduled(t))
       /\ SF_vars(SyscallReturns(t))
       /\ SF_vars(ThreadExit(t))

\* If time goes on, the timeout of a sleeper passes.
TimeoutsPass == \A t \in Threads : SF_vars(Tick(t))

FairSpec == Spec /\ Fairness

FairSleepSpec == FairSpec /\ TimeoutsPass

-----------------------------------------------------------------------------
(* Properties.                                                             *)

\* Every variable has its type.
TypeOK ==
  /\ openTasks \in TaskTable
  /\ systemCores \in CoreTable
  /\ threads \in ThreadLayer
  /\ app \in [Threads -> Tasks \cup {None}]
  /\ numThreads \in 0 .. MaxThreads
  /\ phase \in 0 .. MappingEpoch - 1
  /\ pc \in {"idle", "migrate", "map", "cores"}
  /\ nextCore \in 0 .. NumCores
  /\ caller \in Threads \cup {None}
  /\ fault \in {"none", "task 0 not mapped", "no core for new thread",
                "deadlocked"}

\* A task is in exactly one of the four states.  The code keeps four flags per
\* task, sets them in five places, and only compares the four totals with the
\* number of tasks (periodic(), "Task State Does Not Match").
TaskStatesPartition ==
  LET tk == openTasks
  IN  /\ tk.waitingToSchedule \cup tk.waitingInQueue \cup tk.active
           \cup tk.completed = Tasks
      /\ \A k \in Tasks :
           /\ k \in tk.waitingToSchedule =>
                k \notin tk.waitingInQueue \cup tk.active \cup tk.completed
           /\ k \in tk.waitingInQueue => k \notin tk.active \cup tk.completed
           /\ k \in tk.active => k \notin tk.completed

Abstract == INSTANCE TaskQueue
              WITH arriving <- openTasks.waitingToSchedule,
                   queue <- openTasks.waitingInQueue,
                   active <- openTasks.active,
                   completed <- openTasks.completed

\* The scheduler implements TaskQueue.  schedule(), fetchTasksIntoQueue() and
\* threadExit() take every task through the four states once and in order, and
\* no task starts while one with a smaller number is in the queue, however
\* mapping, prefetching, migration and the exits of threads interleave.
ImplementsTaskQueue == Abstract!Spec

\* A task that has arrived is in the queue one mapping epoch later at the
\* latest: neither the epochs of periodic() nor a time jump overlooks one.
ArrivalsFetched ==
  \A k \in openTasks.waitingToSchedule : openTasks.due[k] >= -MappingEpoch

\* An active task has exactly the cores it asked for and any other task has
\* none, through mapping, migration and exit.
CoreOwnership ==
  \A k \in Tasks :
    Cardinality(CoresOf(systemCores, k)) =
      IF k \in openTasks.active THEN CoreRequirement[k] ELSE 0

\* The two views of who runs where agree: reschedule() keeps a core's thread
\* and a thread's core in step, and no two threads share a core.
RunningInverse ==
  \A t \in Threads, c \in Cores :
    threads.threadRunning[c] = t <=> threads.coreRunning[t] = c

\* The open scheduler's table and the affinity masks of the pinned scheduler
\* agree: a core is reserved for the thread that is pinned to it.
AssignedAffinity ==
  \A t \in Threads, c \in Cores :
    systemCores.assignedThread[c] = t <=> threads.affinity[t] = c

\* reschedule() never has to choose between two threads.
UncontestedCores ==
  \A c \in Cores, t, u \in Threads :
    t \in Eligible(threads, c) /\ u \in Eligible(threads, c) => t = u

\* A thread on a core whose quantum is not over is pinned to that core, and the
\* core is one of its own task's: through mapping, migration, stalls and exits
\* no thread runs where another task should, beyond the next periodic callback.
RunsWhereItBelongs ==
  \A c \in Cores :
    threads.threadRunning[c] # None /\ c \notin threads.expired
      => /\ threads.affinity[threads.threadRunning[c]] = c
         /\ systemCores.assignedTask[c] = app[threads.threadRunning[c]]

\* A task that keeps to its core requirement has a core for each of its threads:
\* the first thread of an active task is pinned to one of the task's cores
\* (setAffinity() "finds free core for a thread"), and the program exits with
\* "failed to get a core" for a spawned thread in one case only: the core
\* reserved for it is still occupied by a thread that was migrated away from it
\* before it had started (reschedule() leaves a core with an INITIALIZING thread).
ThreadsGetCores ==
  /\ fault = "no core for new thread" =>
       \E k \in openTasks.active, u \in Threads :
         LET c == FirstOwnFreeCore(systemCores, k)
         IN  /\ c # None
             /\ threads.threadRunning[c] = u
             /\ threads.affinity[u] # c
  /\ \A k \in openTasks.active :
       k < numThreads => threads.affinity[k] \in CoresOf(systemCores, k)

\* A thread parked in Thread::wait() has someone left to signal it: the thread
\* it joins, the clock, or the scheduler when it gives it a core (which
\* considers runnable threads only).
NoLostWakeup ==
  \A t \in threads.parked :
    /\ threads.status[t] = "STALLED"
    /\ threads.reason[t] \in {"JOIN", "SLEEP", "UNSCHEDULED"}
    /\ threads.reason[t] = "UNSCHEDULED" =>
         t \in threads.runnable /\ threads.coreRunning[t] = None
    /\ threads.reason[t] = "JOIN" =>
         \E u \in Threads : threads.waiter[u] = t /\ threads.status[u] # "IDLE"

\* Prefetching keeps the simulation alive: it never happens that nothing runs,
\* nothing sleeps and every core is free while a task is in the queue.
NoStrandedTask ==
  ~ /\ LockFree
    /\ openTasks.waitingInQueue # {}
    /\ FreeCores(systemCores) = Cores
    /\ ~anyThreadRunning(threads)

\* Readjusting the arrival times does not affect response times: a task that
\* has arrived already keeps its arrival time.
ArrivedStaysArrived ==
  [][\A k \in openTasks.waitingToSchedule :
       openTasks.due[k] < 0 => openTasks'.due[k] <= openTasks.due[k]]_vars

\* A sleeping thread wakes up.
SleepersWake ==
  \A t \in Threads :
    t \in Sleeping(threads) ~> t \notin Sleeping(threads)

\* Every task completes.
EveryTaskCompletes == <>(openTasks.completed = Tasks)

=============================================================================
