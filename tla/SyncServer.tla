------------------------------ MODULE SyncServer ------------------------------
(***************************************************************************)
(* SyncServer: the simulated pthread mutexes, condition variables and      *)
(* barriers.  A call of an application thread runs under                   *)
(* ThreadManager::m_thread_lock and is one action, except that             *)
(* SimCond::broadcast wakes its waiters one per step (broadcasting # None),*)
(* during which nothing else can happen.                                   *)
(*                                                                         *)
(* Of the thread manager only this is visible here: stallThread() stops    *)
(* the caller until resumeThread() lets it go on.                          *)
(***************************************************************************)
EXTENDS Naturals, Sequences, FiniteSets, SequencesExt

CONSTANTS
  Threads,
  Mutexes,
  Conds,
  Barriers,
  BarrierCount,   \* m_count of every barrier
  None            \* NO_OWNER, and no broadcast going on

ASSUME SyncAssumption ==
  /\ BarrierCount \in [Barriers -> Nat \ {0}]
  /\ None \notin Threads
  /\ None \notin Conds

VARIABLES
  owner,          \* SimMutex::m_owner
  mutexWaiting,   \* SimMutex::m_waiting
  condWaiting,    \* SimCond::m_waiting: waiters and the mutex of each
  barrierWaiting, \* SimBarrier::m_waiting
  running,        \* the threads that are not stalled
  broadcasting    \* the condition variable being broadcast, or None

vars == <<owner, mutexWaiting, condWaiting, barrierWaiting, running, broadcasting>>

CondWaiter == [thread : Threads, mutex : Mutexes]

Init ==
  /\ owner = [m \in Mutexes |-> None]
  /\ mutexWaiting = [m \in Mutexes |-> << >>]
  /\ condWaiting = [c \in Conds |-> << >>]
  /\ barrierWaiting = [b \in Barriers |-> << >>]
  /\ running = Threads
  /\ broadcasting = None

\* Thread t makes a call.
Calls(t) ==
  /\ t \in running
  /\ broadcasting = None

-----------------------------------------------------------------------------
\* SimMutex::isLocked: owned by someone that is not t.
isLocked(t, m) == owner[m] \notin {None, t}

\* SimMutex::lock.
lock(t, m) ==
  IF owner[m] = None
  THEN /\ owner' = [owner EXCEPT ![m] = t]
       /\ UNCHANGED <<mutexWaiting, running>>
  ELSE /\ mutexWaiting' = [mutexWaiting EXCEPT ![m] = Append(@, t)]
       /\ running' = running \ {t}
       /\ UNCHANGED owner

\* Not the code: a signalled waiter goes to the front.
lock_asyncFirst(t, m) ==
  IF owner[m] = None
  THEN /\ owner' = [owner EXCEPT ![m] = t]
       /\ running' = running \cup {t}
       /\ UNCHANGED mutexWaiting
  ELSE /\ mutexWaiting' = [mutexWaiting EXCEPT ![m] = <<t>> \o @]
       /\ UNCHANGED <<owner, running>>

\* SimMutex::lock_async, in the name of thread t.
lock_async(t, m) ==
  IF owner[m] = None
  THEN /\ owner' = [owner EXCEPT ![m] = t]
       /\ running' = running \cup {t}
       /\ UNCHANGED mutexWaiting
  ELSE /\ mutexWaiting' = [mutexWaiting EXCEPT ![m] = Append(@, t)]
       /\ UNCHANGED <<owner, running>>

\* Not the code: m_owner is resumed even if nobody waits and it is NO_OWNER.
unlockResumingOwner(m, stay) ==
  IF mutexWaiting[m] = << >>
  THEN /\ owner' = [owner EXCEPT ![m] = None]
       /\ running' = stay \cup {None}
       /\ UNCHANGED mutexWaiting
  ELSE /\ owner' = [owner EXCEPT ![m] = Head(mutexWaiting[m])]
       /\ mutexWaiting' = [mutexWaiting EXCEPT ![m] = Tail(@)]
       /\ running' = stay \cup {Head(mutexWaiting[m])}

\* Not the code: the mutex is free while a waiter is resumed.
unlockToNobody(m, stay) ==
  IF mutexWaiting[m] = << >>
  THEN /\ owner' = [owner EXCEPT ![m] = None]
       /\ running' = stay
       /\ UNCHANGED mutexWaiting
  ELSE /\ owner' = [owner EXCEPT ![m] = None]
       /\ mutexWaiting' = [mutexWaiting EXCEPT ![m] = Tail(@)]
       /\ running' = stay \cup {Head(mutexWaiting[m])}

\* Not the code: the mutex goes to the last waiter.
unlockLast(m, stay) ==
  IF mutexWaiting[m] = << >>
  THEN /\ owner' = [owner EXCEPT ![m] = None]
       /\ running' = stay
       /\ UNCHANGED mutexWaiting
  ELSE /\ owner' = [owner EXCEPT ![m] = Last(mutexWaiting[m])]
       /\ mutexWaiting' = [mutexWaiting EXCEPT ![m] = Front(@)]
       /\ running' = stay \cup {Last(mutexWaiting[m])}

\* SimMutex::unlock, by a thread that stays in the set stay of running threads.
unlock(m, stay) ==
  IF mutexWaiting[m] = << >>
  THEN /\ owner' = [owner EXCEPT ![m] = None]
       /\ running' = stay
       /\ UNCHANGED mutexWaiting
  ELSE /\ owner' = [owner EXCEPT ![m] = Head(mutexWaiting[m])]
       /\ mutexWaiting' = [mutexWaiting EXCEPT ![m] = Tail(@)]
       /\ running' = stay \cup {Head(mutexWaiting[m])}

mutexLock(t, m) ==
  /\ Calls(t)
  /\ lock(t, m)
  /\ UNCHANGED <<condWaiting, barrierWaiting, broadcasting>>

\* mutexLock with tryLock set, when it is not refused (a refusal changes nothing).
mutexTryLock(t, m) ==
  /\ Calls(t)
  /\ ~isLocked(t, m)
  /\ lock(t, m)
  /\ UNCHANGED <<condWaiting, barrierWaiting, broadcasting>>

\* Unlocking a mutex of another thread fails an assertion and is left out.
mutexUnlock(t, m) ==
  /\ Calls(t)
  /\ owner[m] = t
  /\ unlock(m, running)
  /\ UNCHANGED <<condWaiting, barrierWaiting, broadcasting>>

\* The mutex is handed on, then t waits for a signal.
condWait(t, c, m) ==
  /\ Calls(t)
  /\ owner[m] = t
  /\ unlock(m, running \ {t})
  /\ condWaiting' = [condWaiting EXCEPT ![c] = Append(@, [thread |-> t, mutex |-> m])]
  /\ UNCHANGED <<barrierWaiting, broadcasting>>

\* Not the code: the waiter stays in the queue.
WakeFirstKeeping(c) ==
  /\ condWaiting[c] # << >>
  /\ lock_async(Head(condWaiting[c]).thread, Head(condWaiting[c]).mutex)
  /\ condWaiting' = [condWaiting EXCEPT ![c] = @]
  /\ UNCHANGED barrierWaiting

\* The first waiter of c leaves the queue and asks for its mutex.
WakeFirst(c) ==
  /\ condWaiting[c] # << >>
  /\ lock_async(Head(condWaiting[c]).thread, Head(condWaiting[c]).mutex)
  /\ condWaiting' = [condWaiting EXCEPT ![c] = Tail(@)]
  /\ UNCHANGED barrierWaiting

condSignal(t, c) ==
  /\ Calls(t)
  /\ WakeFirst(c)
  /\ UNCHANGED broadcasting

condBroadcast(t, c) ==
  /\ Calls(t)
  /\ broadcasting' = c
  /\ UNCHANGED <<owner, mutexWaiting, condWaiting, barrierWaiting, running>>

BroadcastStep ==
  /\ broadcasting # None
  /\ \/ /\ WakeFirst(broadcasting)
        /\ UNCHANGED broadcasting
     \/ /\ condWaiting[broadcasting] = << >>
        /\ broadcasting' = None
        /\ UNCHANGED <<owner, mutexWaiting, condWaiting, barrierWaiting, running>>

\* Not the code: only the first waiter is resumed.
barrierWaitHead(t, b) ==
  /\ Calls(t)
  /\ IF Len(barrierWaiting[b]) = BarrierCount[b] - 1
     THEN /\ barrierWaiting' = [barrierWaiting EXCEPT ![b] = << >>]
          /\ running' = running \cup {barrierWaiting[b][1]}
     ELSE /\ barrierWaiting' = [barrierWaiting EXCEPT ![b] = Append(@, t)]
          /\ running' = running \ {t}
  /\ UNCHANGED <<owner, mutexWaiting, condWaiting, broadcasting>>

\* SimBarrier::wait: the last thread to come resumes all others.
barrierWait(t, b) ==
  /\ Calls(t)
  /\ IF Len(barrierWaiting[b]) = BarrierCount[b] - 1
     THEN /\ barrierWaiting' = [barrierWaiting EXCEPT ![b] = << >>]
          /\ running' = running \cup ToSet(barrierWaiting[b])
     ELSE /\ barrierWaiting' = [barrierWaiting EXCEPT ![b] = Append(@, t)]
          /\ running' = running \ {t}
  /\ UNCHANGED <<owner, mutexWaiting, condWaiting, broadcasting>>

Next ==
  \/ \E t \in Threads, m \in Mutexes : mutexLock(t, m)
  \/ \E t \in Threads, m \in Mutexes : mutexTryLock(t, m)
  \/ \E t \in Threads, m \in Mutexes : mutexUnlock(t, m)
  \/ \E t \in Threads, c \in Conds, m \in Mutexes : condWait(t, c, m)
  \/ \E t \in Threads, c \in Conds : condSignal(t, c)
  \/ \E t \in Threads, c \in Conds : condBroadcast(t, c)
  \/ BroadcastStep
  \/ \E t \in Threads, b \in Barriers : barrierWait(t, b)

Spec == Init /\ [][Next]_vars

\* An owner that keeps running gives its mutex back, and a broadcast goes on.
Fairness ==
  /\ WF_vars(BroadcastStep)
  /\ \A t \in Threads, m \in Mutexes : SF_vars(mutexUnlock(t, m))

FairSpec == Spec /\ Fairness

-----------------------------------------------------------------------------
(* Properties.                                                             *)

\* Every variable has its type.
TypeOK ==
  /\ owner \in [Mutexes -> Threads \cup {None}]
  /\ mutexWaiting \in [Mutexes -> Seq(Threads)]
  /\ condWaiting \in [Conds -> Seq(CondWaiter)]
  /\ barrierWaiting \in [Barriers -> Seq(Threads)]
  /\ running \subseteq Threads
  /\ broadcasting \in Conds \cup {None}

\* Where thread t waits: the queues it stands in, and its places there.
Places(t) ==
  LET Mutex(m) == {i \in DOMAIN mutexWaiting[m] : mutexWaiting[m][i] = t}
      Cond(c) == {i \in DOMAIN condWaiting[c] : condWaiting[c][i].thread = t}
      Barrier(b) == {i \in DOMAIN barrierWaiting[b] : barrierWaiting[b][i] = t}
  IN  UNION ({{<<"mutex", m, i>> : i \in Mutex(m)} : m \in Mutexes}
               \cup {{<<"cond", c, i>> : i \in Cond(c)} : c \in Conds}
               \cup {{<<"barrier", b, i>> : i \in Barrier(b)} : b \in Barriers})

\* A stalled thread stands in exactly one queue, once, so that someone resumes
\* it, and a running one in none, so that no later wake-up hits it: condWait,
\* signal, broadcast and unlock move waiters between queues of two kinds.
OneEntryEach ==
  \A t \in Threads :
    IF t \in running THEN Places(t) = {} ELSE \E p \in Places(t) : Places(t) = {p}

\* A thread resumed from a mutex queue or out of a condition wait owns the
\* mutex it asked for at that moment.
WokenOwnsMutex ==
  [][\A t \in running' \ running, m \in Mutexes :
       (\/ t \in ToSet(mutexWaiting[m])
        \/ \E c \in Conds : [thread |-> t, mutex |-> m] \in ToSet(condWaiting[c]))
         => owner'[m] = t]_vars

\* Waiters of a mutex are served in the order of their arrival, those that
\* were moved there by signal and broadcast included: nobody is overtaken.
NoOvertaking ==
  [][\A m \in Mutexes :
       \/ IsPrefix(mutexWaiting[m], mutexWaiting'[m])
       \/ /\ mutexWaiting[m] # << >>
          /\ mutexWaiting'[m] = Tail(mutexWaiting[m])
          /\ owner'[m] = Head(mutexWaiting[m])]_vars

\* Threads leave a barrier all together, and only when the last one of them
\* has come: the queue empties at once from one short of the count.
BarrierReleasesAll ==
  [][\A b \in Barriers :
       Len(barrierWaiting'[b]) < Len(barrierWaiting[b]) =>
         /\ Len(barrierWaiting[b]) = BarrierCount[b] - 1
         /\ barrierWaiting'[b] = << >>
         /\ ToSet(barrierWaiting[b]) \subseteq running']_vars

\* A thread waiting for a mutex gets it, unless the owner in the end waits for
\* something itself and never goes on.
MutexWaitersServed ==
  \A t \in Threads, m \in Mutexes :
    \/ t \in ToSet(mutexWaiting[m]) ~> owner[m] = t
    \/ <>[](owner[m] \in Threads \ running)

=============================================================================
