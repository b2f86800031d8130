------------------------------ MODULE BarrierSync ------------------------------
(***************************************************************************)
(* BarrierSyncServer: the barrier that keeps the clocks of the simulated   *)
(* cores within one interval of each other.  A thread that comes to the    *)
(* end of the interval waits on its core's condition variable; the last    *)
(* one runs the periodic callback, moves the barrier and releases          *)
(* num_host_cores of the waiting threads, each of which releases one more  *)
(* when it comes to the barrier or stops.                                  *)
(*                                                                         *)
(* An action is one critical section of ThreadManager::m_thread_lock,      *)
(* except that barrierRelease() is several steps (pc # "idle"), because    *)
(* its periodic callback lets the scheduler resume and move threads.  The  *)
(* scheduler is any that keeps at most one thread on a core.  Hardware     *)
(* thread groups and fast-forwarding are left out.                         *)
(***************************************************************************)
EXTENDS Integers, FiniteSets, FiniteSetsExt

CONSTANTS
  Cores,
  Threads,
  None,        \* INVALID_CORE_ID, INVALID_THREAD_ID
  HostCores,   \* general/num_host_cores
  MaxAhead,    \* bound: intervals by which a thread overshoots the barrier
  Preempts,    \* the scheduler takes running threads off their cores
  Disables     \* the barrier is switched off and on (region of interest)

ASSUME BarrierAssumption ==
  /\ IsFiniteSet(Cores)
  /\ IsFiniteSet(Threads)
  /\ None \notin Cores \cup Threads
  /\ HostCores \in Nat \ {0}
  /\ MaxAhead \in Nat
  /\ Preempts \in BOOLEAN
  /\ Disables \in BOOLEAN

VARIABLES
  status,       \* ThreadManager's state of every thread
  coreOf,       \* the core a thread is on
  place,        \* the core whose barrier entry a thread is in synchronize() for
  ahead,        \* m_local_clock_list less m_next_barrier_time, in intervals; -1: below
  acquire,      \* m_barrier_acquire_list
  coreThread,   \* m_core_thread
  toRelease,    \* m_to_release, which is shuffled
  disable,      \* m_disable
  pc,           \* "release", "advance": in barrierRelease(), without and with
                \* continue_until_release
  caller,       \* the thread that called barrierRelease() from synchronize()
  fault         \* the assertion that failed, or "none"

threadVars == <<status, coreOf>>

vars == <<status, coreOf, place, ahead, acquire, coreThread, toRelease, disable,
          pc, caller, fault>>

\* Some threads have started, each on a core of its own.
Init ==
  /\ coreOf \in [Threads -> Cores \cup {None}]
  /\ \A t, u \in Threads : coreOf[t] # None /\ coreOf[t] = coreOf[u] => t = u
  /\ \E t \in Threads : coreOf[t] # None
  /\ status = [t \in Threads |-> IF coreOf[t] = None THEN "STALLED" ELSE "RUNNING"]
  /\ place = [t \in Threads |-> None]
  /\ ahead = [c \in Cores |-> -1]
  /\ acquire = {}
  /\ coreThread = [c \in Cores |-> None]
  /\ toRelease = {}
  /\ disable = FALSE
  /\ pc = "idle"
  /\ caller = None
  /\ fault = "none"

LockFree == pc = "idle" /\ fault = "none"

InPeriodic == pc # "idle" /\ fault = "none"

\* The host thread of t runs.
Executes(t) == status[t] = "RUNNING" /\ place[t] = None

FreeCores == {c \in Cores : \A t \in Threads : coreOf[t] # c}

\* Not the code: asks for all threads.
allThreadsRunning(st) == \A t \in Threads : st[t] = "RUNNING"

anyThreadRunning(st) == \E t \in Threads : st[t] = "RUNNING"

isCoreRunning(st, on, c) == \E t \in Threads : on[t] = c /\ st[t] = "RUNNING"

isBarrierReached(st, on, ah) ==
  /\ \A c \in Cores : isCoreRunning(st, on, c) => ah[c] >= 0
  /\ \E c \in Cores : isCoreRunning(st, on, c)

-----------------------------------------------------------------------------
(* Condition variables and the list of threads to release.                 *)

\* The threads that wait for core c's condition variable to be signalled.  The
\* caller of barrierRelease() does not wait yet.
Waiting(c) == {t \in Threads \ {caller} : place[t] = c}

\* The threads woken by a signal to each of the cores cs: one waiter each, the
\* one that has waited longest (the host's futexes are first in, first out;
\* coreThread is the thread that came last).
Woken(cs) ==
  LET Earlier(c) == Waiting(c) \ {coreThread[c]}
  IN  UNION {IF Earlier(c) = {} THEN Waiting(c) ELSE Earlier(c) : c \in cs}

\* doRelease(n), when the list is to.  The threads in entered come to wait and
\* those in left are not held back, in the same critical section.
doRelease(n, to, entered, left) ==
  \E R \in kSubset(Min({n, Cardinality(to)}), to) :
    /\ toRelease' = to \ R
    /\ place' = [t \in Threads |-> IF t \in Woken(R) \cup left THEN None
                                   ELSE IF t \in DOMAIN entered THEN entered[t]
                                   ELSE place[t]]

\* releaseThread(t): its entry counts as late.
Zeroed(ts) ==
  [c \in Cores |-> IF c \in acquire /\ coreThread[c] \in ts THEN -1 ELSE ahead[c]]

\* barrierRelease() is entered: every released thread must have restarted.
EnterRelease(how, t) ==
  /\ pc' = how
  /\ caller' = t
  /\ fault' = IF toRelease' = {} THEN fault ELSE "threads have not restarted"

\* signal(), and its like in synchronize().
CheckBarrier(st, on, ah, t) ==
  IF ~disable /\ isBarrierReached(st, on, ah)
  THEN EnterRelease("release", t)
  ELSE UNCHANGED <<pc, caller, fault>>

-----------------------------------------------------------------------------
\* Not the code: an arriving thread does not release another.
SynchronizeWithoutRelease(t, a) ==
  LET c == coreOf[t]
  IN  /\ LockFree
      /\ Executes(t)
      /\ c # None
      /\ ~disable
      /\ IF c \in acquire
         THEN /\ fault' = "already in the barrier"
              /\ UNCHANGED <<place, ahead, acquire, coreThread, toRelease, pc, caller>>
         ELSE /\ doRelease(0, toRelease, [u \in {t} |-> c], {})
              /\ ahead' = [ahead EXCEPT ![c] = a]
              /\ acquire' = acquire \cup {c}
              /\ coreThread' = [coreThread EXCEPT ![c] = t]
              /\ CheckBarrier(status, coreOf, ahead', t)
      /\ UNCHANGED <<threadVars, disable>>

\* Not the code: m_core_thread gets the number of the core (both are SInt32).
SynchronizeRecordingCore(t, a) ==
  LET c == coreOf[t]
  IN  /\ LockFree
      /\ Executes(t)
      /\ c # None
      /\ ~disable
      /\ IF c \in acquire
         THEN /\ fault' = "already in the barrier"
              /\ UNCHANGED <<place, ahead, acquire, coreThread, toRelease, pc, caller>>
         ELSE /\ doRelease(1, toRelease, [u \in {t} |-> c], {})
              /\ ahead' = [ahead EXCEPT ![c] = a]
              /\ acquire' = acquire \cup {c}
              /\ coreThread' = [coreThread EXCEPT ![c] = c]
              /\ CheckBarrier(status, coreOf, ahead', t)
      /\ UNCHANGED <<threadVars, disable>>

\* synchronize(), by a thread that has got to the barrier time or a intervals
\* beyond it.  (Below the barrier time, or if disabled, it does nothing.)
Synchronize(t, a) ==
  LET c == coreOf[t]
  IN  /\ LockFree
      /\ Executes(t)
      /\ c # None
      /\ ~disable
      /\ IF c \in acquire
         THEN /\ fault' = "already in the barrier"
              /\ UNCHANGED <<place, ahead, acquire, coreThread, toRelease, pc, caller>>
         ELSE /\ doRelease(1, toRelease, [u \in {t} |-> c], {})
              /\ ahead' = [ahead EXCEPT ![c] = a]
              /\ acquire' = acquire \cup {c}
              /\ coreThread' = [coreThread EXCEPT ![c] = t]
              /\ CheckBarrier(status, coreOf, ahead', t)
      /\ UNCHANGED <<threadVars, disable>>

\* Thread t stops running, and the scheduler gives its core to u, if u # None.
\* The barrier's hooks run for both migrations and for the stop itself.
StopRunning(t, u, how) ==
  LET c == coreOf[t]
      n == 1 + (IF c = None THEN 0 ELSE 1) + (IF u = None THEN 0 ELSE 1)
  IN  /\ LockFree
      /\ Executes(t)
      /\ u # None => c # None /\ u # t /\ coreOf[u] = None /\ status[u] # "IDLE"
      /\ status' = [s \in Threads |-> IF s = t THEN how
                                      ELSE IF s = u THEN "RUNNING" ELSE status[s]]
      /\ coreOf' = [s \in Threads |-> IF s = t THEN None
                                      ELSE IF s = u THEN c ELSE coreOf[s]]
      /\ doRelease(n, toRelease, << >>, {})
      /\ ahead' = Zeroed({t, u})
      /\ UNCHANGED <<acquire, coreThread, disable>>

\* stallThread() until the caller waits.  If nothing runs, it advances time.
Stall(t, u) ==
  /\ StopRunning(t, u, "STALLED")
  /\ IF anyThreadRunning(status')
     THEN CheckBarrier(status', coreOf', ahead', None)
     ELSE EnterRelease("advance", None)

\* onThreadExit().
Exit(t, u) ==
  /\ StopRunning(t, u, "IDLE")
  /\ CheckBarrier(status', coreOf', ahead', None)

\* resumeThread(), by another thread or in the periodic callback: t gets the
\* free core c or, if c = None, none.
Resume(t, c) ==
  /\ fault = "none"
  /\ pc = "idle" => \E u \in Threads : Executes(u)
  /\ status[t] = "STALLED"
  /\ c = None <=> FreeCores = {}
  /\ c # None => c \in FreeCores
  /\ status' = [status EXCEPT ![t] = "RUNNING"]
  /\ coreOf' = [coreOf EXCEPT ![t] = c]
  /\ doRelease(IF c = None THEN 0 ELSE 1, toRelease, << >>, {})
  /\ ahead' = IF c = None THEN ahead ELSE Zeroed({t})
  /\ UNCHANGED <<acquire, coreThread, disable, pc, caller, fault>>

\* moveThread() in the periodic callback: running threads lose their cores ...
Preempt(t) ==
  /\ Preempts
  /\ InPeriodic
  /\ coreOf[t] # None
  /\ status[t] = "RUNNING"
  /\ coreOf' = [coreOf EXCEPT ![t] = None]
  /\ doRelease(1, toRelease, << >>, {})
  /\ ahead' = Zeroed({t})
  /\ UNCHANGED <<status, acquire, coreThread, disable, pc, caller, fault>>

\* ... and running threads without a core get one.
Dispatch(t, c) ==
  /\ Preempts
  /\ InPeriodic
  /\ coreOf[t] = None
  /\ status[t] = "RUNNING"
  /\ c \in FreeCores
  /\ coreOf' = [coreOf EXCEPT ![t] = c]
  /\ doRelease(1, toRelease, << >>, {})
  /\ ahead' = Zeroed({t})
  /\ UNCHANGED <<status, acquire, coreThread, disable, pc, caller, fault>>

\* setDisable(TRUE) with abortBarrier(), from an application thread or from
\* the periodic callback.
Disable ==
  /\ Disables
  /\ fault = "none"
  /\ pc = "idle" => \E t \in Threads : Executes(t)
  /\ disable' = TRUE
  /\ acquire' = {}
  /\ place' = [t \in Threads |-> IF t \in Woken(acquire) THEN None ELSE place[t]]
  /\ UNCHANGED <<threadVars, ahead, coreThread, toRelease, pc, caller,
                 fault>>

\* setDisable(FALSE).
Enable ==
  /\ Disables
  /\ fault = "none"
  /\ pc = "idle" => \E t \in Threads : Executes(t)
  /\ disable' = FALSE
  /\ UNCHANGED <<threadVars, place, ahead, acquire, coreThread, toRelease,
                 pc, caller, fault>>

-----------------------------------------------------------------------------
(* barrierRelease(), after the periodic callback.                          *)

\* The loop ends without a release: somebody was resumed while the caller waits
\* for that, or the barrier was disabled.  stallThread() tries again until a
\* thread runs.
ReturnEarly ==
  /\ InPeriodic
  /\ \/ pc = "advance" /\ anyThreadRunning(status)
     \/ pc = "release" /\ disable
  /\ pc' = "idle"
  /\ caller' = None
  /\ place' = IF caller = None THEN place ELSE [place EXCEPT ![caller] = None]
  /\ UNCHANGED <<threadVars, ahead, acquire, coreThread, toRelease, disable, fault>>

\* The barrier moves: the clocks are relative to it as in now, the entries
\* entries are left, and the cores resumed are released, of which those in
\* listed have a thread that waits; the caller does not wait if it is one of
\* them.  If there are none, the loop goes on.
MoveTo(now, entries, resumed, listed) ==
  /\ InPeriodic
  /\ pc = "advance" => ~anyThreadRunning(status)
  /\ ~disable
  /\ ahead' = now
  /\ acquire' = entries
  /\ \/ /\ resumed = {}
        /\ UNCHANGED <<place, toRelease, pc, caller>>
     \/ /\ resumed # {}
        /\ doRelease(HostCores, toRelease \cup listed, << >>,
                     {t \in {caller} : \E c \in resumed : coreThread[c] = t})
        /\ pc' = "idle"
        /\ caller' = None
  /\ UNCHANGED <<threadVars, coreThread, disable, fault>>

\* The clocks relative to the next barrier time.
NextAhead == [c \in Cores |-> IF ahead[c] >= 0 THEN ahead[c] - 1 ELSE -1]

\* The cores whose threads are below the next barrier time.
Resumed == {c \in acquire : NextAhead[c] = -1}

Others(cs) == {c \in cs : coreThread[c] # caller}

\* Not the code: the entries stay in the barrier.
MoveBarrierKeepingEntries ==
  MoveTo(NextAhead, acquire, Resumed, Others(Resumed))

\* Not the code: threads at the new barrier time are released.
MoveBarrierEarly ==
  LET early == {c \in acquire : NextAhead[c] <= 0}
  IN  MoveTo(NextAhead, acquire \ early, early, Others(early))

\* Not the code: the caller is put on the list as well.
MoveBarrierQueueingCaller ==
  MoveTo(NextAhead, acquire \ Resumed, Resumed, Resumed)

\* Not the code: threads far ahead stay so.
MoveBarrierOnce ==
  LET now == [c \in Cores |-> IF ahead[c] > 0 THEN ahead[c] ELSE -1]
      late == {c \in acquire : now[c] = -1}
  IN  MoveTo(now, acquire \ late, late, Others(late))

\* The barrier moves by one interval and releases the threads below it.
MoveBarrier ==
  MoveTo(NextAhead, acquire \ Resumed, Resumed, Others(Resumed))

\* All threads are gone, or an assertion has failed.
Stopped ==
  /\ fault # "none" \/ (pc = "idle" /\ ~anyThreadRunning(status))
  /\ UNCHANGED vars

Next ==
  \/ \E t \in Threads, a \in 0 .. MaxAhead : Synchronize(t, a)
  \/ \E t \in Threads, u \in Threads \cup {None} : Stall(t, u)
  \/ \E t \in Threads, u \in Threads \cup {None} : Exit(t, u)
  \/ \E t \in Threads, c \in Cores \cup {None} : Resume(t, c)
  \/ \E t \in Threads : Preempt(t)
  \/ \E t \in Threads, c \in Cores : Dispatch(t, c)
  \/ Disable
  \/ Enable
  \/ ReturnEarly
  \/ MoveBarrier
  \/ Stopped

Spec == Init /\ [][Next]_vars

\* A thread without a core stops.
GivesUp(t) == coreOf[t] = None /\ Stall(t, None)

\* The clock of a core on which threads run gets to the barrier time, however
\* often they take turns: running takes simulated time.
ComesToBarrier(c) ==
  \E t \in Threads, a \in 0 .. MaxAhead : coreOf[t] = c /\ Synchronize(t, a)

\* While barrierRelease() advances time, the timeout of a stalled thread passes.
TimeoutPasses ==
  /\ pc = "advance"
  /\ ~disable
  /\ \E t \in Threads, c \in Cores \cup {None} : Resume(t, c)

\* The thread that holds the lock goes on, and the host runs every thread.
Fairness ==
  /\ WF_vars(ReturnEarly)
  /\ WF_vars(MoveBarrier)
  /\ SF_vars(TimeoutPasses)
  /\ \A t \in Threads : SF_vars(GivesUp(t))
  /\ \A c \in Cores : SF_vars(ComesToBarrier(c))

FairSpec == Spec /\ Fairness

-----------------------------------------------------------------------------
(* Properties.                                                             *)

\* Every variable has its type.
TypeOK ==
  /\ status \in [Threads -> {"RUNNING", "STALLED", "IDLE"}]
  /\ coreOf \in [Threads -> Cores \cup {None}]
  /\ place \in [Threads -> Cores \cup {None}]
  /\ ahead \in [Cores -> -1 .. MaxAhead]
  /\ acquire \subseteq Cores
  /\ coreThread \in [Cores -> Threads \cup {None}]
  /\ toRelease \subseteq Cores
  /\ disable \in BOOLEAN
  /\ pc \in {"idle", "release", "advance"}
  /\ caller \in Threads \cup {None}
  /\ fault \in {"none", "threads have not restarted", "already in the barrier"}

\* The assertions of the barrier hold.  synchronize(): a core enters the barrier
\* at most once.  barrierRelease(): when the barrier is reached, every thread
\* released from the last one has restarted.  The second needs a scheduler that
\* does not pre-empt threads (~Preempts): with one host core and four threads on
\* four cores, three of which lose their cores in one periodic callback, it fails.
NoAssertionFails == fault = "none"

\* Every thread that waits on a core's condition variable has a wake-up of its
\* own to come, from the core's entry in the barrier or from its place on the
\* list of threads to release, and no wake-up is for nobody: none is lost when
\* threads move, and two threads waiting on one core are both let go.  The
\* thread entered for a core is waiting there, so that the release of the entry
\* lets that thread go and not another.
WakeupForEachWaiter ==
  /\ \A c \in Cores :
       Cardinality(Waiting(c)) =
         (IF c \in acquire /\ (caller = None \/ coreThread[c] # caller) THEN 1 ELSE 0)
           + (IF c \in toRelease THEN 1 ELSE 0)
  /\ \A c \in acquire : \E t \in Threads :
       coreThread[c] = t /\ place[t] = c /\ status[t] = "RUNNING"

\* Somebody is left to release the threads on the list.
ReleaseGoesOn ==
  LockFree /\ toRelease # {} => \E t \in Threads : Executes(t)

\* No thread runs on a core whose clock is at or beyond the barrier (which is not
\* switched off).
NobodyBeyondBarrier ==
  LockFree => \A t \in Threads :
    Executes(t) /\ coreOf[t] # None => ahead[coreOf[t]] = -1

\* A thread that waits in the barrier gets out of it.  (Switched off while
\* stallThread() advances time, the barrier holds the threads on the list.)
WaitersLeave ==
  \A t \in Threads : place[t] # None ~> place[t] = None

\* "unless we let the barrier advance time which may wake up threads": the loop
\* of stallThread() that advances time ends, if the barrier is not switched off.
AdvanceEnds == pc = "advance" ~> pc = "idle"

=============================================================================
