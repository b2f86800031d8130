------------------------------ MODULE PinnedBase ------------------------------
(***************************************************************************)
(* The thread layer of the simulator, as operators on a record x of        *)
(* thread state: ThreadManager (status, stall reason, the waiter of a      *)
(* join), SchedulerDynamic (which threads are runnable) and                *)
(* SchedulerPinnedBase (affinity, who runs where).  Every handler of the   *)
(* program that changes this state runs under ThreadManager::m_thread_lock *)
(* and calls several of these operations in a row, so each is written as a *)
(* function from state to state.                                           *)
(*                                                                         *)
(* Thread::m_core, Core::m_thread and ThreadInfo::m_core_running are set   *)
(* together by every handler and are the one function coreRunning here.    *)
(* The open scheduler gives a thread one core or none, so an affinity      *)
(* mask is that core or None.                                              *)
(***************************************************************************)
EXTENDS Integers, FiniteSets

CONSTANTS
  NumCores,     \* Config::getApplicationCores()
  MaxThreads    \* bound: threads ever created

ASSUME ThreadLayerAssumption ==
  /\ NumCores \in Nat \ {0}
  /\ MaxThreads \in Nat \ {0}

None == -1      \* INVALID_CORE_ID, INVALID_THREAD_ID and the open scheduler's -1

Cores == 0 .. NumCores - 1

Threads == 0 .. MaxThreads - 1

\* Core::State, for the values a thread takes.
Status == {"IDLE", "INITIALIZING", "RUNNING", "STALLED"}

\* ThreadManager::stall_type_t.  UNSCHEDULED: waiting for a core.  JOIN: in
\* pthread_join.  SLEEP: a stall that a timeout ends.  SYSCALL: blocked in a
\* host system call.
StallReason == {"UNSCHEDULED", "JOIN", "SLEEP", "SYSCALL"}

\* status, reason, waiter: ThreadManager::ThreadState
\* parked: the host threads inside Thread::wait()
\* runnable: SchedulerDynamic::m_threads_runnable
\* affinity, coreRunning: SchedulerPinnedBase::ThreadInfo
\* threadRunning: m_core_thread_running; expired: cores whose m_quantum_left
\* was set to zero
ThreadLayer ==
  [ status : [Threads -> Status],
    reason : [Threads -> StallReason],
    waiter : [Threads -> Threads \cup {None}],
    parked : SUBSET Threads,
    runnable : SUBSET Threads,
    affinity : [Threads -> Cores \cup {None}],
    coreRunning : [Threads -> Cores \cup {None}],
    threadRunning : [Cores -> Threads \cup {None}],
    expired : SUBSET Cores ]

ThreadLayerInit ==
  [ status |-> [t \in Threads |-> "IDLE"],
    reason |-> [t \in Threads |-> "UNSCHEDULED"],
    waiter |-> [t \in Threads |-> None],
    parked |-> {},
    runnable |-> {},
    affinity |-> [t \in Threads |-> None],
    coreRunning |-> [t \in Threads |-> None],
    threadRunning |-> [c \in Cores |-> None],
    expired |-> {} ]

-----------------------------------------------------------------------------
anyThreadRunning(x) ==
  \E t \in Threads : x.status[t] \in {"RUNNING", "INITIALIZING"}

\* The threads reschedule() may put on core c.
Eligible(x, c) ==
  {t \in x.runnable : x.affinity[t] = c /\ x.coreRunning[t] \in {None, c}}

\* The scores of reschedule() order several eligible threads.  At most one is
\* ever eligible for a core under the open scheduler (UncontestedCores), so
\* the scores and the times they are made of are left out.
PickThread(x, c) ==
  IF Eligible(x, c) = {} THEN None ELSE CHOOSE t \in Eligible(x, c) : TRUE

\* moveThread(t, INVALID_CORE_ID): the status is left alone.
MoveOff(x, t) ==
  IF t = None THEN x ELSE [x EXCEPT !.coreRunning[t] = None]

\* Not the code: the host thread is not signalled.
WakeWithoutSignal(x, t) ==
  [x EXCEPT !.status[t] = "RUNNING",
            !.runnable = @ \cup {t}]

\* Thread::signal() followed by the status change of resumeThread_async().
Wake(x, t) ==
  [x EXCEPT !.parked = @ \ {t},
            !.status[t] = "RUNNING",
            !.runnable = @ \cup {t}]

\* moveThread(t, c).  A thread that only waited for a core is resumed; the
\* HOOK_THREAD_RESUME this fires finds no further core, because t's only core
\* is taken (by t).
MoveOn(x, t, c) ==
  LET y == [x EXCEPT !.threadRunning[c] = t]
  IN  IF t = None THEN y
      ELSE LET z == [y EXCEPT !.coreRunning[t] = c]
           IN  IF x.status[t] = "STALLED" /\ x.reason[t] = "UNSCHEDULED"
               THEN Wake(z, t) ELSE z

\* Not the code: the old thread keeps its core.
rescheduleWithoutMoveOff(x, c) ==
  LET cur == x.threadRunning[c]
      new == PickThread(x, c)
      y   == IF cur = new THEN x ELSE MoveOn(x, new, c)
  IN  IF cur # None /\ x.status[cur] = "INITIALIZING"
      THEN x
      ELSE [y EXCEPT !.expired = @ \ {c}]

reschedule(x, c) ==
  LET cur == x.threadRunning[c]
      new == PickThread(x, c)
      y   == IF cur = new THEN x ELSE MoveOn(MoveOff(x, cur), new, c)
  IN  IF cur # None /\ x.status[cur] = "INITIALIZING"
      THEN x
      ELSE [y EXCEPT !.expired = @ \ {c}]

\* findFreeCoreForThread() found a core: reschedule it.
RescheduleFreeCore(x, t) ==
  LET c == x.affinity[t]
  IN  IF c # None /\ x.threadRunning[c] = None THEN reschedule(x, c) ELSE x

\* Not the code: the old core keeps its quantum.
threadSetAffinityWithoutExpiry(x, t, c) ==
  LET y == [x EXCEPT !.affinity[t] = c]
      cur == x.coreRunning[t]
  IN  CASE cur = None /\ t \in x.runnable -> RescheduleFreeCore(y, t)
        [] OTHER -> y

\* threadSetAffinity() called by the scheduler with a one-core or empty mask.
threadSetAffinity(x, t, c) ==
  LET y == [x EXCEPT !.affinity[t] = c]
      cur == x.coreRunning[t]
  IN  CASE cur # None /\ cur # c -> [y EXCEPT !.expired = @ \cup {cur}]
        [] cur = None /\ t \in x.runnable -> RescheduleFreeCore(y, t)
        [] OTHER -> y

\* threadYield(): t gives up its quantum; if it was pinned elsewhere since, it
\* moves there at once.
threadYield(x, t) ==
  LET c == x.coreRunning[t]
      y == reschedule([x EXCEPT !.expired = @ \cup {c}], c)
  IN  CASE c = None -> x
        [] c # None /\ x.affinity[t] # c -> RescheduleFreeCore(y, t)
        [] OTHER -> y

\* resumeThread(): signal, mark running, and let the scheduler place t.
resumeThread(x, t) == RescheduleFreeCore(Wake(x, t), t)

\* resumeThread_async(): as above, without a signal.
resumeThread_async(x, t) ==
  RescheduleFreeCore([x EXCEPT !.status[t] = "RUNNING",
                               !.runnable = @ \cup {t}], t)

\* stallThread_async(): the scheduler's hook ignores STALL_UNSCHEDULED.
stallThread_async(x, t, why) ==
  LET y == [x EXCEPT !.status[t] = "STALLED", !.reason[t] = why]
      z == [y EXCEPT !.runnable = @ \ {t}]
      c == x.coreRunning[t]
  IN  IF why = "UNSCHEDULED" THEN y
      ELSE IF c = None THEN z ELSE reschedule(z, c)

\* Not the code: the waiter is forgotten.
wakeUpWaiterWithoutResume(x, t) ==
  [x EXCEPT !.waiter[t] = None]

\* wakeUpWaiter(): resume the thread that joins t, if there is one.
wakeUpWaiter(x, t) ==
  LET w == x.waiter[t]
  IN  IF w = None THEN x
      ELSE [resumeThread(x, w) EXCEPT !.waiter[t] = None]

\* onThreadStart(), with SchedulerDynamic::__threadStart in the middle.
onThreadStart(x, t) ==
  LET y == RescheduleFreeCore([x EXCEPT !.status[t] = "RUNNING",
                                        !.runnable = @ \cup {t}], t)
      z == IF y.coreRunning[t] # None THEN y
           ELSE [y EXCEPT !.status[t] = "STALLED", !.reason[t] = "UNSCHEDULED"]
  IN  [z EXCEPT !.parked = @ \ {x.waiter[t]}, !.waiter[t] = None]

\* onThreadExit() up to the end of SchedulerDynamic::__threadExit's reschedule.
onThreadExit(x, t) ==
  LET y == wakeUpWaiter([x EXCEPT !.status[t] = "IDLE"], t)
      z == [y EXCEPT !.runnable = @ \ {t}]
  IN  reschedule(z, x.coreRunning[t])

=============================================================================
