-------------------------- MODULE SchedulerOpenProofs --------------------------
(***************************************************************************)
(* Invariants of the open-system scheduler for any number of cores, tasks  *)
(* and threads.                                                            *)
(***************************************************************************)
EXTENDS SchedulerOpen, WellFoundedInduction, TLAPS

-----------------------------------------------------------------------------
(* The thread layer: what each of its operations preserves, for any number *)
(* of cores and threads.                                                   *)

\* A core's thread and a thread's core agree.
Agree(x) ==
  \A t \in Threads, c \in Cores : x.threadRunning[c] = t <=> x.coreRunning[t] = c

\* A thread on a core whose quantum is not over is pinned to that core.
OnPins(x) ==
  \A c \in Cores :
    x.threadRunning[c] # None /\ c \notin x.expired => x.affinity[x.threadRunning[c]] = c

InStep(x) == Agree(x) /\ OnPins(x)

Consistent(x) == x \in ThreadLayer /\ InStep(x)

\* Thread t is pinned nowhere and on no core.
Detached(x, t) == x.affinity[t] = None /\ x.coreRunning[t] = None

\* A step of the layer from x to y that leaves the masks alone.
Keeps(x, y) ==
  /\ Consistent(y)
  /\ y.affinity = x.affinity
  /\ \A t \in Threads : Detached(x, t) => Detached(y, t)
  /\ \A t \in Threads : x.status[t] # "IDLE" => y.status[t] # "IDLE"

\* None is neither a core nor a thread.
LEMMA NoneIsNone == None \notin Cores /\ None \notin Threads /\ None \in Int
  BY DEF None, Cores, Threads

\* Several steps that keep the masks keep them together: handlers call one
\* operation of the layer after the other.
LEMMA KeepsTransitive ==
  ASSUME NEW x, NEW y, NEW z, Keeps(x, y), Keeps(y, z)
  PROVE  Keeps(x, z)
  BY Zenon DEF Keeps

\* An operation that returns early keeps everything.
LEMMA KeepsReflexive ==
  ASSUME NEW x, Consistent(x)
  PROVE  Keeps(x, x)
  BY Zenon DEF Keeps

\* PickThread() picks an eligible thread or nobody.
LEMMA PickThreadPicks ==
  ASSUME NEW x \in ThreadLayer, NEW c \in Cores
  PROVE  \/ PickThread(x, c) = None
         \/ /\ PickThread(x, c) \in Threads
            /\ x.affinity[PickThread(x, c)] = c
            /\ x.coreRunning[PickThread(x, c)] \in {None, c}
  <1>1. Eligible(x, c) = {} \/ PickThread(x, c) \in Eligible(x, c)
    BY Zenon DEF PickThread
  <1>2. x.runnable \subseteq Threads
    BY Zenon DEF ThreadLayer
  <1> QED BY <1>1, <1>2, Zenon DEF PickThread, Eligible

\* Waking a thread touches neither masks nor cores.
LEMMA WakeKeeps ==
  ASSUME NEW x, Consistent(x), NEW t \in Threads
  PROVE  Keeps(x, Wake(x, t))
  <1> DEFINE y == Wake(x, t)
  <1>1. y \in ThreadLayer
    BY Zenon DEF Consistent, Wake, ThreadLayer, Status
  <1>2. /\ y.affinity = x.affinity
        /\ y.coreRunning = x.coreRunning
        /\ y.threadRunning = x.threadRunning
        /\ y.expired = x.expired
        /\ y.status = [x.status EXCEPT ![t] = "RUNNING"]
    BY Zenon DEF Consistent, Wake, ThreadLayer
  <1>3. \A u \in Threads : x.status[u] # "IDLE" => y.status[u] # "IDLE"
    BY <1>2, Zenon DEF Consistent, ThreadLayer
  <1> HIDE DEF y
  <1>4. Keeps(x, y)
    BY <1>1, <1>2, <1>3 DEF Consistent, Keeps, InStep, Agree, OnPins, Detached
  <1> QED BY <1>4, Zenon DEF y

\* moveThread() to no core, then of another thread to the core that is free now.
LEMMA MoveKeeps ==
  ASSUME NEW x, Consistent(x), NEW c \in Cores,
         NEW new \in Threads \cup {None},
         new # None => x.affinity[new] = c /\ x.coreRunning[new] \in {None, c},
         x.threadRunning[c] # new
  PROVE  /\ Keeps(x, MoveOn(MoveOff(x, x.threadRunning[c]), new, c))
         /\ MoveOn(MoveOff(x, x.threadRunning[c]), new, c).threadRunning[c] = new
  <1> DEFINE cur == x.threadRunning[c]
             m == MoveOff(x, cur)
             y == [m EXCEPT !.threadRunning[c] = new]
             z == [y EXCEPT !.coreRunning[new] = c]
  <1> USE NoneIsNone
  <1>1. cur \in Threads \cup {None}
    BY Zenon DEF Consistent, ThreadLayer
  <1>2. /\ m \in ThreadLayer
        /\ m.affinity = x.affinity
        /\ m.status = x.status
        /\ m.expired = x.expired
        /\ m.threadRunning = x.threadRunning
        /\ m.coreRunning = IF cur = None THEN x.coreRunning
                           ELSE [x.coreRunning EXCEPT ![cur] = None]
    BY <1>1, Zenon DEF MoveOff, Consistent, ThreadLayer
  <1>3. /\ y \in ThreadLayer
        /\ y.affinity = x.affinity
        /\ y.status = x.status
        /\ y.expired = x.expired
        /\ y.threadRunning = [x.threadRunning EXCEPT ![c] = new]
        /\ y.coreRunning = m.coreRunning
    BY <1>2, Zenon DEF ThreadLayer
  <1>4. CASE new = None
    <2>1. MoveOn(m, new, c) = y
      BY <1>4, Zenon DEF MoveOn
    <2>2. Agree(y) /\ OnPins(y)
      <3>1. Agree(y)
        BY <1>1, <1>2, <1>3, <1>4 DEF Agree, InStep, Consistent, ThreadLayer
      <3>2. OnPins(y)
        BY <1>3, <1>4 DEF OnPins, InStep, Consistent, ThreadLayer
      <3> QED BY <3>1, <3>2, Zenon
    <2>3. \A t \in Threads : Detached(x, t) => Detached(y, t)
      BY <1>1, <1>2, <1>3 DEF Detached, Consistent, ThreadLayer
    <2>4. y.threadRunning[c] = new
      BY <1>3, Zenon DEF Consistent, ThreadLayer
    <2> QED BY <1>3, <2>1, <2>2, <2>3, <2>4, Zenon DEF Keeps, Consistent, InStep
  <1>5. CASE new # None
    <2>1. /\ z \in ThreadLayer
          /\ z.affinity = x.affinity
          /\ z.status = x.status
          /\ z.expired = x.expired
          /\ z.threadRunning = [x.threadRunning EXCEPT ![c] = new]
          /\ z.coreRunning = [m.coreRunning EXCEPT ![new] = c]
      BY <1>3, <1>5, Zenon DEF ThreadLayer
    <2>2. Agree(z) /\ OnPins(z)
      <3>1. Agree(z)
        BY <1>1, <1>2, <1>5, <2>1 DEF Agree, InStep, Consistent, ThreadLayer
      <3>2. OnPins(z)
        BY <1>5, <2>1 DEF OnPins, InStep, Consistent, ThreadLayer
      <3> QED BY <3>1, <3>2, Zenon
    <2>3. \A t \in Threads : Detached(x, t) => Detached(z, t)
      BY <1>1, <1>2, <1>5, <2>1 DEF Detached, Consistent, ThreadLayer
    <2>4. Keeps(x, z)
      BY <2>1, <2>2, <2>3, Zenon DEF Keeps, Consistent, InStep
    <2>5. Keeps(z, Wake(z, new))
      BY <2>4, <1>5, WakeKeeps, Zenon DEF Keeps
    <2>6. MoveOn(m, new, c) \in {z, Wake(z, new)}
      BY <1>5, Zenon DEF MoveOn
    <2> HIDE DEF z
    <2>7. z.threadRunning[c] = new
      BY <2>1, Zenon DEF Consistent, ThreadLayer
    <2>8. Wake(z, new).threadRunning = z.threadRunning
      BY <2>1, Zenon DEF Wake, ThreadLayer
    <2> QED BY <2>4, <2>5, <2>6, <2>7, <2>8, KeepsTransitive, SMTT(30)
  <1> QED BY <1>4, <1>5, Zenon

\* Setting the quantum of cores to zero, or giving a new one to cores whose
\* threads are pinned to them, changes nothing else.
LEMMA ExpiredKeeps ==
  ASSUME NEW x, Consistent(x), NEW cs \in SUBSET Cores,
         \A c \in x.expired \ cs :
           x.threadRunning[c] # None => x.affinity[x.threadRunning[c]] = c
  PROVE  Keeps(x, [x EXCEPT !.expired = cs])
  <1> DEFINE y == [x EXCEPT !.expired = cs]
  <1>1. /\ y \in ThreadLayer
        /\ y.affinity = x.affinity
        /\ y.coreRunning = x.coreRunning
        /\ y.threadRunning = x.threadRunning
        /\ y.status = x.status
        /\ y.expired = cs
    BY Zenon DEF Consistent, ThreadLayer
  <1> HIDE DEF y
  <1>2. Keeps(x, y)
    BY <1>1 DEF Consistent, Keeps, InStep, Agree, OnPins, Detached
  <1> QED BY <1>2, Zenon DEF y

\* reschedule() of a core keeps the two views of who runs where in step.
LEMMA RescheduleKeeps ==
  ASSUME NEW x, Consistent(x), NEW c \in Cores
  PROVE  Keeps(x, reschedule(x, c))
  <1> DEFINE cur == x.threadRunning[c]
             new == PickThread(x, c)
             y == IF cur = new THEN x ELSE MoveOn(MoveOff(x, cur), new, c)
  <1>1. /\ new \in Threads \cup {None}
        /\ new # None => x.affinity[new] = c /\ x.coreRunning[new] \in {None, c}
    BY PickThreadPicks, Zenon DEF Consistent
  <1>2. reschedule(x, c) \in {x, [y EXCEPT !.expired = y.expired \ {c}]}
    BY Zenon DEF reschedule
  <1> HIDE DEF new
  <1>3. Keeps(x, y) /\ y.threadRunning[c] = new
    <2>1. CASE cur = new
      BY <2>1, KeepsReflexive, Zenon
    <2>2. CASE cur # new
      BY <1>1, <2>2, MoveKeeps
    <2> QED BY <2>1, <2>2, Zenon
  <1> HIDE DEF y
  <1>4. Keeps(y, [y EXCEPT !.expired = y.expired \ {c}])
    <2>1. y.expired \ {c} \in SUBSET Cores
      BY <1>3, Zenon DEF Keeps, Consistent, ThreadLayer
    <2>2. y.threadRunning[c] # None => y.affinity[y.threadRunning[c]] = c
      BY <1>1, <1>3, Zenon DEF Keeps
    <2> QED BY <1>3, <2>1, <2>2, ExpiredKeeps DEF Keeps
  <1> QED BY <1>2, <1>3, <1>4, KeepsTransitive, KeepsReflexive

\* A step that changes neither masks nor cores nor makes a thread idle.
LEMMA SameCoresKeeps ==
  ASSUME NEW x, Consistent(x), NEW y \in ThreadLayer,
         y.affinity = x.affinity,
         y.coreRunning = x.coreRunning,
         y.threadRunning = x.threadRunning,
         y.expired = x.expired,
         \A t \in Threads : x.status[t] # "IDLE" => y.status[t] # "IDLE"
  PROVE  Keeps(x, y)
  BY DEF Keeps, Consistent, InStep, Agree, OnPins, Detached

\* Putting a thread on its core, if that core is free, keeps everything else.
LEMMA RescheduleFreeCoreKeeps ==
  ASSUME NEW x, Consistent(x), NEW t \in Threads
  PROVE  Keeps(x, RescheduleFreeCore(x, t))
  <1>1. x.affinity[t] \in Cores \cup {None}
    BY Zenon DEF Consistent, ThreadLayer
  <1> QED BY <1>1, RescheduleKeeps, KeepsReflexive, Zenon DEF RescheduleFreeCore

\* resumeThread() keeps masks, cores and threads consistent.
LEMMA ResumeThreadKeeps ==
  ASSUME NEW x, Consistent(x), NEW t \in Threads
  PROVE  Keeps(x, resumeThread(x, t))
  <1>1. Keeps(x, Wake(x, t))
    BY WakeKeeps, Zenon
  <1>2. Keeps(Wake(x, t), RescheduleFreeCore(Wake(x, t), t))
    BY <1>1, RescheduleFreeCoreKeeps, Zenon DEF Keeps
  <1> QED BY <1>1, <1>2, KeepsTransitive, Zenon DEF resumeThread

\* Marking a thread running and runnable, as resumeThread_async() does.
LEMMA MarkRunningKeeps ==
  ASSUME NEW x, Consistent(x), NEW t \in Threads
  PROVE  Keeps(x, [x EXCEPT !.status[t] = "RUNNING", !.runnable = @ \cup {t}])
  <1> DEFINE y == [x EXCEPT !.status[t] = "RUNNING", !.runnable = @ \cup {t}]
  <1>1. y \in ThreadLayer
    BY Zenon DEF Consistent, ThreadLayer, Status
  <1>2. /\ y.affinity = x.affinity
        /\ y.coreRunning = x.coreRunning
        /\ y.threadRunning = x.threadRunning
        /\ y.expired = x.expired
        /\ y.status = [x.status EXCEPT ![t] = "RUNNING"]
    BY Zenon DEF Consistent, ThreadLayer
  <1>3. \A u \in Threads : x.status[u] # "IDLE" => y.status[u] # "IDLE"
    BY <1>2, Zenon DEF Consistent, ThreadLayer
  <1> SUFFICES Keeps(x, y)
    BY Zenon
  <1> HIDE DEF y
  <1> QED BY <1>1, <1>2, <1>3, SameCoresKeeps, Zenon

\* So does resumeThread_async(), the end of a blocking system call.
LEMMA ResumeThreadAsyncKeeps ==
  ASSUME NEW x, Consistent(x), NEW t \in Threads
  PROVE  Keeps(x, resumeThread_async(x, t))
  <1> DEFINE y == [x EXCEPT !.status[t] = "RUNNING", !.runnable = @ \cup {t}]
  <1>1. Keeps(x, y)
    BY MarkRunningKeeps, Zenon
  <1> HIDE DEF y
  <1>2. Keeps(y, RescheduleFreeCore(y, t))
    BY <1>1, RescheduleFreeCoreKeeps, Zenon DEF Keeps
  <1>3. resumeThread_async(x, t) = RescheduleFreeCore(y, t)
    BY Zenon DEF resumeThread_async, y
  <1> QED BY <1>1, <1>2, <1>3, KeepsTransitive, Zenon

\* A stalling thread leaves its core to the next one consistently.
LEMMA StallThreadAsyncKeeps ==
  ASSUME NEW x, Consistent(x), NEW t \in Threads, NEW why \in StallReason
  PROVE  Keeps(x, stallThread_async(x, t, why))
  <1> DEFINE y == [x EXCEPT !.status[t] = "STALLED", !.reason[t] = why]
             z == [y EXCEPT !.runnable = @ \ {t}]
             c == x.coreRunning[t]
  <1>1. /\ y \in ThreadLayer
        /\ z \in ThreadLayer
    BY Zenon DEF Consistent, ThreadLayer, Status
  <1>2. /\ y.affinity = x.affinity
        /\ y.coreRunning = x.coreRunning
        /\ y.threadRunning = x.threadRunning
        /\ y.expired = x.expired
        /\ y.status = [x.status EXCEPT ![t] = "STALLED"]
    BY Zenon DEF Consistent, ThreadLayer
  <1>3. /\ z.affinity = x.affinity
        /\ z.coreRunning = x.coreRunning
        /\ z.threadRunning = x.threadRunning
        /\ z.expired = x.expired
        /\ z.status = [x.status EXCEPT ![t] = "STALLED"]
    BY Zenon DEF Consistent, ThreadLayer
  <1>4. \A u \in Threads : x.status[u] # "IDLE" =>
           y.status[u] # "IDLE" /\ z.status[u] # "IDLE"
    BY <1>2, <1>3, Zenon DEF Consistent, ThreadLayer
  <1>5. c \in Cores \cup {None}
    BY Zenon DEF Consistent, ThreadLayer
  <1>6. \/ stallThread_async(x, t, why) \in {y, z}
        \/ c # None /\ stallThread_async(x, t, why) = reschedule(z, c)
    BY Zenon DEF stallThread_async
  <1> HIDE DEF y, z
  <1>7. Keeps(x, y)
    BY <1>1, <1>2, <1>4, SameCoresKeeps, Zenon
  <1>8. Keeps(x, z)
    BY <1>1, <1>3, <1>4, SameCoresKeeps, Zenon
  <1>9. c # None => Keeps(x, reschedule(z, c))
    BY <1>5, <1>8, RescheduleKeeps, KeepsTransitive DEF Keeps
  <1> QED BY <1>6, <1>7, <1>8, <1>9, Zenon

\* Clearing the waiter of a thread.
LEMMA ClearWaiterKeeps ==
  ASSUME NEW x, Consistent(x), NEW t \in Threads
  PROVE  Keeps(x, [x EXCEPT !.waiter[t] = None])
  <1> DEFINE y == [x EXCEPT !.waiter[t] = None]
  <1>1. /\ y \in ThreadLayer
        /\ y.affinity = x.affinity
        /\ y.coreRunning = x.coreRunning
        /\ y.threadRunning = x.threadRunning
        /\ y.expired = x.expired
        /\ y.status = x.status
    BY Zenon DEF Consistent, ThreadLayer
  <1> SUFFICES Keeps(x, y)
    BY Zenon
  <1> HIDE DEF y
  <1> QED BY <1>1, SameCoresKeeps, Zenon

\* Waking the thread that joins an exiting one keeps everything else.
LEMMA WakeUpWaiterKeeps ==
  ASSUME NEW x, Consistent(x), NEW t \in Threads
  PROVE  Keeps(x, wakeUpWaiter(x, t))
  <1> DEFINE w == x.waiter[t]
             r == resumeThread(x, w)
  <1>1. w \in Threads \cup {None}
    BY Zenon DEF Consistent, ThreadLayer
  <1>2. CASE w = None
    BY <1>2, KeepsReflexive, Zenon DEF wakeUpWaiter
  <1>3. CASE w # None
    <2>1. Keeps(x, r)
      BY <1>1, <1>3, ResumeThreadKeeps, Zenon
    <2>2. wakeUpWaiter(x, t) = [r EXCEPT !.waiter[t] = None]
      BY <1>3, Zenon DEF wakeUpWaiter
    <2> HIDE DEF r
    <2>3. Keeps(r, [r EXCEPT !.waiter[t] = None])
      BY <2>1, ClearWaiterKeeps, Zenon DEF Keeps
    <2> QED BY <2>1, <2>2, <2>3, KeepsTransitive, Zenon
  <1> QED BY <1>2, <1>3, Zenon

\* A starting thread gets its core or is stalled; the rest is kept.
LEMMA OnThreadStartKeeps ==
  ASSUME NEW x, Consistent(x), NEW t \in Threads
  PROVE  Keeps(x, onThreadStart(x, t))
  <1> DEFINE r == [x EXCEPT !.status[t] = "RUNNING", !.runnable = @ \cup {t}]
             y == RescheduleFreeCore(r, t)
             z == IF y.coreRunning[t] # None THEN y
                  ELSE [y EXCEPT !.status[t] = "STALLED", !.reason[t] = "UNSCHEDULED"]
             u == [z EXCEPT !.parked = @ \ {x.waiter[t]}, !.waiter[t] = None]
  <1>1. Keeps(x, r)
    BY MarkRunningKeeps, Zenon
  <1>2. onThreadStart(x, t) = u
    BY Zenon DEF onThreadStart
  <1> HIDE DEF r
  <1>3. Keeps(x, y)
    BY <1>1, RescheduleFreeCoreKeeps, KeepsTransitive DEF Keeps
  <1> HIDE DEF y
  <1>4. Keeps(x, z)
    <2> DEFINE s == [y EXCEPT !.status[t] = "STALLED", !.reason[t] = "UNSCHEDULED"]
    <2>1. s \in ThreadLayer
      BY <1>3, Zenon DEF Keeps, Consistent, ThreadLayer, Status, StallReason
    <2>2. /\ s.affinity = y.affinity
          /\ s.coreRunning = y.coreRunning
          /\ s.threadRunning = y.threadRunning
          /\ s.expired = y.expired
          /\ s.status = [y.status EXCEPT ![t] = "STALLED"]
      BY <1>3, Zenon DEF Keeps, Consistent, ThreadLayer
    <2>3. \A v \in Threads : y.status[v] # "IDLE" => s.status[v] # "IDLE"
      BY <1>3, <2>2, Zenon DEF Keeps, Consistent, ThreadLayer
    <2>4. z \in {y, s}
      BY Zenon
    <2> HIDE DEF s, z
    <2>5. Keeps(y, s)
      BY <1>3, <2>1, <2>2, <2>3, SameCoresKeeps, Zenon DEF Keeps
    <2> QED BY <1>3, <2>4, <2>5, KeepsTransitive
  <1> HIDE DEF z
  <1>5. /\ u \in ThreadLayer
        /\ u.affinity = z.affinity
        /\ u.coreRunning = z.coreRunning
        /\ u.threadRunning = z.threadRunning
        /\ u.expired = z.expired
        /\ u.status = z.status
    BY <1>4, Zenon DEF Keeps, Consistent, ThreadLayer
  <1> HIDE DEF u
  <1>6. Keeps(z, u)
    BY <1>4, <1>5, SameCoresKeeps, Zenon DEF Keeps
  <1> QED BY <1>2, <1>4, <1>6, KeepsTransitive, Zenon

\* A thread that yields keeps its mask, whether or not it changes cores.
LEMMA ThreadYieldKeeps ==
  ASSUME NEW x, Consistent(x), NEW t \in Threads
  PROVE  Keeps(x, threadYield(x, t))
  <1> DEFINE c == x.coreRunning[t]
             e == [x EXCEPT !.expired = @ \cup {c}]
             y == reschedule(e, c)
  <1>1. c \in Cores \cup {None}
    BY Zenon DEF Consistent, ThreadLayer
  <1>2. CASE c = None
    BY <1>2, KeepsReflexive, Zenon DEF threadYield
  <1>3. CASE c # None
    <2>1. Keeps(x, e)
      <3>1. x.expired \cup {c} \in SUBSET Cores
        BY <1>1, <1>3, Zenon DEF Consistent, ThreadLayer
      <3>2. x.expired \ (x.expired \cup {c}) = {}
        BY Zenon
      <3> QED BY <3>1, <3>2, ExpiredKeeps, Zenon
    <2>2. threadYield(x, t) \in {y, RescheduleFreeCore(y, t)}
      BY <1>3, Zenon DEF threadYield
    <2> HIDE DEF e
    <2>3. Keeps(x, y)
      BY <1>1, <1>3, <2>1, RescheduleKeeps, KeepsTransitive DEF Keeps
    <2> HIDE DEF y
    <2>4. Keeps(y, RescheduleFreeCore(y, t))
      BY <2>3, RescheduleFreeCoreKeeps, Zenon DEF Keeps
    <2> QED BY <2>2, <2>3, <2>4, KeepsTransitive
  <1> QED BY <1>2, <1>3, Zenon

\* reschedule() of core c moves threads to or from c only.
LEMMA RescheduleLocal ==
  ASSUME NEW x, Consistent(x), NEW c \in Cores, NEW t \in Threads
  PROVE  reschedule(x, c).coreRunning[t] \in {x.coreRunning[t], None, c}
  <1> DEFINE cur == x.threadRunning[c]
             new == PickThread(x, c)
             m == MoveOff(x, cur)
             y == [m EXCEPT !.threadRunning[c] = new]
             z == [y EXCEPT !.coreRunning[new] = c]
             v == MoveOn(m, new, c)
             Near(w) == w \in ThreadLayer
                        /\ w.coreRunning[t] \in {x.coreRunning[t], None, c}
  <1> USE NoneIsNone
  <1>1. cur \in Threads \cup {None} /\ new \in Threads \cup {None}
    BY PickThreadPicks, Zenon DEF Consistent, ThreadLayer
  <1>2. reschedule(x, c) \in {x, [x EXCEPT !.expired = @ \ {c}],
                              [v EXCEPT !.expired = @ \ {c}]}
    BY Zenon DEF reschedule
  <1>3. v \in {y, z, Wake(z, new)} /\ (new = None => v = y)
    BY Zenon DEF MoveOn
  <1> HIDE DEF new, v
  <1>4. Near(m)
    BY <1>1, Zenon DEF MoveOff, Consistent, ThreadLayer
  <1> HIDE DEF m
  <1>5. Near(y)
    BY <1>1, <1>4, Zenon DEF ThreadLayer
  <1> HIDE DEF y
  <1>6. new # None => Near(z)
    BY <1>1, <1>5, Zenon DEF ThreadLayer
  <1> HIDE DEF z
  <1>7. new # None => Near(Wake(z, new))
    BY <1>1, <1>6, Zenon DEF ThreadLayer, Wake, Status
  <1>8. Near(v)
    BY <1>3, <1>5, <1>6, <1>7, Zenon
  <1>9. /\ [v EXCEPT !.expired = @ \ {c}].coreRunning = v.coreRunning
        /\ [x EXCEPT !.expired = @ \ {c}].coreRunning = x.coreRunning
    BY <1>8, Zenon DEF ThreadLayer, Consistent
  <1> QED BY <1>2, <1>8, <1>9, Zenon

\* threadSetAffinity() changes one mask and otherwise keeps everything.
LEMMA ThreadSetAffinityPins ==
  ASSUME NEW x, Consistent(x), NEW t \in Threads, NEW c \in Cores \cup {None}
  PROVE  LET r == threadSetAffinity(x, t, c)
         IN  /\ Consistent(r)
             /\ r.affinity = [x.affinity EXCEPT ![t] = c]
             /\ \A u \in Threads \ {t} : Detached(x, u) => Detached(r, u)
             /\ x.coreRunning[t] = None => r.coreRunning[t] \in {None, c}
             /\ \A u \in Threads : x.status[u] # "IDLE" => r.status[u] # "IDLE"
  <1> DEFINE y == [x EXCEPT !.affinity[t] = c]
             cur == x.coreRunning[t]
             e == [y EXCEPT !.expired = @ \cup {cur}]
             r == threadSetAffinity(x, t, c)
             Pinned(v) == /\ v \in ThreadLayer
                          /\ v.affinity = [x.affinity EXCEPT ![t] = c]
                          /\ v.coreRunning = x.coreRunning
                          /\ v.threadRunning = x.threadRunning
                          /\ v.status = x.status
  <1> USE NoneIsNone
  <1>1. Pinned(y) /\ y.expired = x.expired
    BY Zenon DEF Consistent, ThreadLayer
  <1>2. cur \in Cores \cup {None}
    BY Zenon DEF Consistent, ThreadLayer
  <1>3. \/ cur # None /\ cur # c /\ r = e
        \/ cur \in {None, c} /\ r \in {y, RescheduleFreeCore(y, t)}
    BY Zenon DEF threadSetAffinity
  <1> HIDE DEF y, r
  <1>4. cur # None => Pinned(e) /\ e.expired = x.expired \cup {cur}
    BY <1>1, <1>2, Zenon DEF ThreadLayer
  <1> HIDE DEF e
  <1>5. /\ x.threadRunning \in [Cores -> Threads \cup {None}]
        /\ x.affinity \in [Threads -> Cores \cup {None}]
    BY Zenon DEF Consistent, ThreadLayer
  <1>6. \A d \in Cores : x.threadRunning[d] = t => d = cur
    BY Zenon DEF Consistent, InStep, Agree
  <1>7. ASSUME NEW v, Pinned(v),
               \/ v.expired = x.expired /\ cur \in {None, c}
               \/ v.expired = x.expired \cup {cur}
        PROVE  Consistent(v)
    <2>1. Agree(v)
      BY <1>7 DEF Consistent, InStep, Agree
    <2>2. OnPins(v)
      <3> SUFFICES ASSUME NEW d \in Cores, v.threadRunning[d] # None, d \notin v.expired
                   PROVE  v.affinity[v.threadRunning[d]] = d
        BY Zenon DEF OnPins
      <3>1. x.affinity[x.threadRunning[d]] = d /\ v.threadRunning[d] = x.threadRunning[d]
        BY <1>7, Zenon DEF Consistent, InStep, OnPins
      <3>2. CASE x.threadRunning[d] = t
        BY <1>5, <1>6, <1>7, <3>1, <3>2
      <3>3. CASE x.threadRunning[d] # t
        BY <1>5, <1>7, <3>1, <3>3, Zenon
      <3> QED BY <3>2, <3>3, Zenon
    <2> QED BY <1>7, <2>1, <2>2, Zenon DEF Consistent, InStep
  <1>8. cur # None => Consistent(e)
    BY <1>4, <1>7, Zenon
  <1>9. cur \in {None, c} => Consistent(y)
    BY <1>1, <1>7, Zenon
  <1>10. ASSUME NEW v, Pinned(v), Keeps(v, r)
         PROVE  /\ Consistent(r)
                /\ r.affinity = [x.affinity EXCEPT ![t] = c]
                /\ \A u \in Threads \ {t} : Detached(x, u) => Detached(r, u)
                /\ \A u \in Threads : x.status[u] # "IDLE" => r.status[u] # "IDLE"
    <2>1. \A u \in Threads \ {t} : Detached(x, u) => Detached(v, u)
      BY <1>5, <1>10, Zenon DEF Detached
    <2> QED BY <1>10, <2>1, Zenon DEF Keeps
  <1>11. CASE cur # None /\ cur # c /\ r = e
    <2>1. Pinned(e) /\ Keeps(e, r)
      BY <1>4, <1>8, <1>11, KeepsReflexive, Zenon
    <2> HIDE DEF Pinned
    <2> QED BY <1>10, <1>11, <2>1, Zenon DEF r
  <1>12. CASE cur \in {None, c} /\ r \in {y, RescheduleFreeCore(y, t)}
    <2>1. Keeps(y, r)
      BY <1>9, <1>12, RescheduleFreeCoreKeeps, KeepsReflexive, Zenon
    <2>2. cur = None => r.coreRunning[t] \in {None, c}
      <3>1. y.affinity[t] = c /\ y.coreRunning = x.coreRunning
        BY <1>1, <1>5, Zenon
      <3>2. \/ RescheduleFreeCore(y, t) = y
            \/ c \in Cores /\ RescheduleFreeCore(y, t) = reschedule(y, c)
        BY <3>1, Zenon DEF RescheduleFreeCore
      <3>3. c \in Cores => reschedule(y, c).coreRunning[t] \in {y.coreRunning[t], None, c}
        BY <1>9, <1>12, RescheduleLocal, Zenon
      <3> QED BY <1>12, <3>1, <3>2, <3>3, Zenon
    <2> HIDE DEF Pinned
    <2> QED BY <1>1, <1>10, <2>1, <2>2, Zenon DEF r
  <1> QED BY <1>3, <1>11, <1>12, Zenon

\* A thread on another core stays there, with its status.
LEMMA RescheduleElsewhere ==
  ASSUME NEW x, Consistent(x), NEW c \in Cores, NEW t \in Threads,
         x.coreRunning[t] # None, x.coreRunning[t] # c
  PROVE  /\ reschedule(x, c).coreRunning[t] = x.coreRunning[t]
         /\ reschedule(x, c).status[t] = x.status[t]
  <1> DEFINE cur == x.threadRunning[c]
             new == PickThread(x, c)
             m == MoveOff(x, cur)
             y == [m EXCEPT !.threadRunning[c] = new]
             z == [y EXCEPT !.coreRunning[new] = c]
             w == Wake(z, new)
  <1> USE NoneIsNone
  <1>1. cur \in (Threads \ {t}) \cup {None}
    BY Zenon DEF Consistent, ThreadLayer, InStep, Agree
  <1>2. new \in (Threads \ {t}) \cup {None}
    BY PickThreadPicks DEF Consistent
  <1>3. reschedule(x, c) \in {x, [x EXCEPT !.expired = @ \ {c}],
                              [MoveOn(m, new, c) EXCEPT !.expired = @ \ {c}]}
    BY Zenon DEF reschedule
  <1>4. MoveOn(m, new, c) \in {y, z, w} /\ (new = None => MoveOn(m, new, c) = y)
    BY Zenon DEF MoveOn
  <1> HIDE DEF new
  <1>5. /\ m \in ThreadLayer
        /\ m.coreRunning[t] = x.coreRunning[t]
        /\ m.status = x.status
    BY <1>1, Zenon DEF MoveOff, Consistent, ThreadLayer
  <1> HIDE DEF m
  <1>6. /\ y \in ThreadLayer
        /\ y.coreRunning[t] = x.coreRunning[t]
        /\ y.status = x.status
    BY <1>2, <1>5, Zenon DEF ThreadLayer
  <1> HIDE DEF y
  <1>7. ASSUME new # None
        PROVE  /\ z \in ThreadLayer
               /\ z.coreRunning[t] = x.coreRunning[t]
               /\ z.status = x.status
    BY <1>2, <1>6, <1>7, Zenon DEF ThreadLayer
  <1> HIDE DEF z
  <1>8. ASSUME new # None
        PROVE  /\ w \in ThreadLayer
               /\ w.coreRunning[t] = x.coreRunning[t]
               /\ w.status[t] = x.status[t]
    BY <1>2, <1>7, <1>8, Zenon DEF ThreadLayer, Wake, Status
  <1> HIDE DEF w
  <1> DEFINE v == MoveOn(m, new, c)
  <1>9. /\ v \in ThreadLayer
        /\ v.coreRunning[t] = x.coreRunning[t]
        /\ v.status[t] = x.status[t]
    BY <1>4, <1>6, <1>7, <1>8, Zenon
  <1> HIDE DEF v
  <1>10. /\ [v EXCEPT !.expired = @ \ {c}].coreRunning = v.coreRunning
         /\ [v EXCEPT !.expired = @ \ {c}].status = v.status
         /\ [x EXCEPT !.expired = @ \ {c}].coreRunning = x.coreRunning
         /\ [x EXCEPT !.expired = @ \ {c}].status = x.status
    BY <1>9, Zenon DEF ThreadLayer, Consistent
  <1> QED BY <1>3, <1>9, <1>10, Zenon DEF v

\* A thread that is not runnable loses its core.
LEMMA RescheduleTakesOff ==
  ASSUME NEW x, Consistent(x), NEW c \in Cores, NEW t \in Threads,
         x.threadRunning[c] = t, t \notin x.runnable, x.status[t] # "INITIALIZING"
  PROVE  reschedule(x, c).coreRunning[t] = None
  <1> DEFINE new == PickThread(x, c)
             m == MoveOff(x, t)
             y == [m EXCEPT !.threadRunning[c] = new]
             z == [y EXCEPT !.coreRunning[new] = c]
             v == MoveOn(m, new, c)
  <1> USE NoneIsNone
  <1>1. new \in (Threads \ {t}) \cup {None}
    <2>1. new = None \/ new \in Eligible(x, c)
      BY Zenon DEF PickThread
    <2> QED BY <2>1, Zenon DEF Eligible, Consistent, ThreadLayer
  <1>2. reschedule(x, c) = [v EXCEPT !.expired = @ \ {c}]
    BY <1>1, Zenon DEF reschedule
  <1>3. v \in {y, z, Wake(z, new)} /\ (new = None => v = y)
    BY Zenon DEF MoveOn
  <1> HIDE DEF new, v
  <1>4. m \in ThreadLayer /\ m.coreRunning[t] = None
    BY Zenon DEF MoveOff, Consistent, ThreadLayer
  <1> HIDE DEF m
  <1>5. y \in ThreadLayer /\ y.coreRunning[t] = None
    BY <1>1, <1>4, Zenon DEF ThreadLayer
  <1> HIDE DEF y
  <1>6. new # None => z \in ThreadLayer /\ z.coreRunning[t] = None
    BY <1>1, <1>5, Zenon DEF ThreadLayer
  <1> HIDE DEF z
  <1>7. new # None =>
           Wake(z, new) \in ThreadLayer /\ Wake(z, new).coreRunning[t] = None
    BY <1>1, <1>6, Zenon DEF ThreadLayer, Wake, Status
  <1>8. v \in ThreadLayer /\ v.coreRunning[t] = None
    BY <1>3, <1>5, <1>6, <1>7, Zenon
  <1>9. [v EXCEPT !.expired = @ \ {c}].coreRunning = v.coreRunning
    BY <1>8, Zenon DEF ThreadLayer
  <1> QED BY <1>2, <1>8, <1>9, Zenon

\* Waking the thread that joins t leaves t where it is.
LEMMA WakeUpWaiterElsewhere ==
  ASSUME NEW x, Consistent(x), NEW t \in Threads, x.coreRunning[t] # None,
         x.status[t] # "INITIALIZING"
  PROVE  /\ wakeUpWaiter(x, t).coreRunning[t] = x.coreRunning[t]
         /\ wakeUpWaiter(x, t).status[t] # "INITIALIZING"
  <1> DEFINE w == x.waiter[t]
             y == Wake(x, w)
             d == y.affinity[w]
             r == resumeThread(x, w)
  <1> USE NoneIsNone
  <1>1. w \in Threads \cup {None}
    BY Zenon DEF Consistent, ThreadLayer
  <1>2. CASE w = None
    BY <1>2, Zenon DEF wakeUpWaiter
  <1>3. CASE w # None
    <2>1. wakeUpWaiter(x, t) = [r EXCEPT !.waiter[t] = None]
      BY <1>3, Zenon DEF wakeUpWaiter
    <2>2. Keeps(x, y)
      BY <1>1, <1>3, WakeKeeps, Zenon
    <2>3. y.coreRunning = x.coreRunning /\ y.status[t] # "INITIALIZING"
      BY <1>1, <1>3, Zenon DEF Wake, Consistent, ThreadLayer
    <2>4. d \in Cores \cup {None}
      BY <1>1, <1>3, <2>2, Zenon DEF Keeps, Consistent, ThreadLayer
    <2>5. r = IF d # None /\ y.threadRunning[d] = None THEN reschedule(y, d) ELSE y
      BY Zenon DEF resumeThread, RescheduleFreeCore
    <2>6. Keeps(x, r)
      BY <1>1, <1>3, ResumeThreadKeeps, Zenon
    <2> HIDE DEF y, r
    <2>7. d # None /\ y.threadRunning[d] = None => y.coreRunning[t] # d
      BY <2>2, <2>4 DEF Keeps, Consistent, InStep, Agree
    <2>8. r.coreRunning[t] = x.coreRunning[t] /\ r.status[t] # "INITIALIZING"
      <3>1. CASE d # None /\ y.threadRunning[d] = None
        <4>1. Consistent(y) /\ y.coreRunning[t] # None /\ y.coreRunning[t] # d
          BY <2>2, <2>3, <2>7, <3>1, Zenon DEF Keeps
        <4>2. /\ reschedule(y, d).coreRunning[t] = y.coreRunning[t]
              /\ reschedule(y, d).status[t] = y.status[t]
          BY <4>1, <2>4, <3>1, RescheduleElsewhere, Zenon
        <4> QED BY <2>3, <2>5, <3>1, <4>2, Zenon
      <3>2. CASE ~(d # None /\ y.threadRunning[d] = None)
        BY <2>3, <2>5, <3>2, Zenon
      <3> QED BY <3>1, <3>2, Zenon
    <2>9. /\ [r EXCEPT !.waiter[t] = None].coreRunning = r.coreRunning
          /\ [r EXCEPT !.waiter[t] = None].status = r.status
      BY <2>6, Zenon DEF Keeps, Consistent, ThreadLayer
    <2> QED BY <2>1, <2>8, <2>9, Zenon
  <1> QED BY <1>2, <1>3, Zenon

\* onThreadExit() takes the exiting thread off its core and keeps the rest.
LEMMA OnThreadExitDetaches ==
  ASSUME NEW x, Consistent(x), NEW t \in Threads, x.coreRunning[t] # None
  PROVE  LET r == onThreadExit(x, t)
         IN  /\ Consistent(r)
             /\ r.affinity = x.affinity
             /\ r.coreRunning[t] = None
             /\ \A u \in Threads : Detached(x, u) => Detached(r, u)
             /\ \A u \in Threads \ {t} :
                  x.status[u] # "IDLE" => r.status[u] # "IDLE"
  <1> DEFINE i == [x EXCEPT !.status[t] = "IDLE"]
             y == wakeUpWaiter(i, t)
             z == [y EXCEPT !.runnable = @ \ {t}]
             c == x.coreRunning[t]
             r == onThreadExit(x, t)
  <1>1. /\ i \in ThreadLayer
        /\ i.affinity = x.affinity
        /\ i.coreRunning = x.coreRunning
        /\ i.threadRunning = x.threadRunning
        /\ i.expired = x.expired
        /\ i.status = [x.status EXCEPT ![t] = "IDLE"]
    BY Zenon DEF Consistent, ThreadLayer, Status
  <1>2. r = reschedule(z, c) /\ c \in Cores
    BY Zenon DEF onThreadExit, Consistent, ThreadLayer
  <1> HIDE DEF i, r
  <1>3. Consistent(i)
    BY <1>1 DEF Consistent, InStep, Agree, OnPins
  <1>4. /\ Keeps(i, y)
        /\ y.coreRunning[t] = c
        /\ y.status[t] # "INITIALIZING"
    <2>1. i.coreRunning[t] = c /\ i.status[t] # "INITIALIZING"
      BY <1>1, Zenon DEF Consistent, ThreadLayer
    <2> QED BY <1>3, <2>1, WakeUpWaiterKeeps, WakeUpWaiterElsewhere, Zenon
  <1> HIDE DEF y
  <1>5. /\ z \in ThreadLayer
        /\ z.affinity = y.affinity
        /\ z.coreRunning = y.coreRunning
        /\ z.threadRunning = y.threadRunning
        /\ z.expired = y.expired
        /\ z.status = y.status
        /\ t \notin z.runnable
    BY <1>4, Zenon DEF Keeps, Consistent, ThreadLayer
  <1> HIDE DEF z
  <1>6. Keeps(i, z)
    BY <1>4, <1>5, SameCoresKeeps, KeepsTransitive, Zenon DEF Keeps
  <1>7. z.threadRunning[c] = t
    BY <1>2, <1>4, <1>5, <1>6 DEF Keeps, Consistent, InStep, Agree
  <1>8. r.coreRunning[t] = None
    BY <1>2, <1>4, <1>5, <1>6, <1>7, RescheduleTakesOff, Zenon DEF Keeps
  <1>9. Keeps(i, r)
    BY <1>2, <1>6, RescheduleKeeps, KeepsTransitive DEF Keeps
  <1>10. \A u \in Threads \ {t} : x.status[u] # "IDLE" => i.status[u] # "IDLE"
    BY <1>1, Zenon DEF Consistent, ThreadLayer
  <1> QED BY <1>1, <1>8, <1>9, <1>10, Zenon DEF Keeps, Detached, r

-----------------------------------------------------------------------------
(* Minima.                                                                 *)

\* A non-empty set of naturals has a least element, and Min is it: the front
\* of the queue and the first free core exist.
LEMMA MinNat ==
  ASSUME NEW S \in SUBSET Nat, S # {}
  PROVE  Min(S) \in S /\ \A y \in S : Min(S) <= y
  <1> DEFINE R == OpToRel(<, Nat)
  <1>1. \A x, y \in Nat : y < x => <<y, x>> \in R
    BY Zenon DEF OpToRel
  <1>2. IsWellFoundedOn(R, Nat)
    BY NatLessThanWellFounded, Zenon
  <1> HIDE DEF R
  <1>3. PICK x \in S : \A y \in S : ~(<<y, x>> \in R)
    BY <1>2, WFMin, Zenon
  <1>4. \A y \in S : x <= y
    <2> TAKE y \in S
    <2>1. x \in Nat /\ y \in Nat
      BY Zenon
    <2>2. ~(y < x)
      BY <1>1, <1>3, <2>1, Zenon
    <2> QED BY <2>1, <2>2
  <1> QED BY <1>4, Zenon DEF Min

\* So has a set of integers with a lower bound: the next arrival exists.
LEMMA MinBounded ==
  ASSUME NEW S \in SUBSET Int, S # {}, NEW b \in Nat, \A x \in S : x >= -b
  PROVE  Min(S) \in S /\ \A y \in S : Min(S) <= y
  <1> DEFINE T == {x + b : x \in S}
  <1>1. T \in SUBSET Nat /\ T # {}
    <2>1. \A x \in S : x + b \in Nat
      OBVIOUS
    <2> QED BY <2>1, Zenon
  <1>2. PICK m \in T : \A y \in T : m <= y
    BY <1>1, MinNat, Zenon
  <1>3. PICK x \in S : m = x + b
    BY <1>2, Zenon
  <1>4. \A y \in S : x <= y
    <2> TAKE y \in S
    <2>1. y + b \in T
      BY Zenon
    <2>2. m <= y + b
      BY <1>2, <2>1, Zenon
    <2> QED BY <1>3, <2>2
  <1> QED BY <1>4, Zenon DEF Min

\* There is at least one task and a thread for each.
LEMMA NumTasksIsNat ==
  MaxThreads \in Nat /\ NumTasks \in Nat \ {0} /\ NumTasks <= MaxThreads
  <1>1. MaxThreads \in Nat
    BY ThreadLayerAssumption, Zenon
  <1>2. NumTasks \in 1 .. MaxThreads
    BY SchedulerAssumption, Zenon
  <1> QED BY <1>1, <1>2

\* The first thread of a task has the number of the task.
LEMMA TasksAreThreads == Tasks \subseteq Threads /\ None \notin Tasks
  BY NumTasksIsNat DEF Tasks, Threads, None

-----------------------------------------------------------------------------
(* What the operations on st = [tk, sc, th] do.                            *)

States == [tk : TaskTable, sc : CoreTable, th : ThreadLayer]

\* Thread t is pinned to the first core of task k that had no thread, or to nothing.
PinsTo(st, r, t, k, c) ==
  /\ c = FirstOwnFreeCore(st.sc, k)
  /\ c # None => /\ st.sc.assignedTask[c] = k
                 /\ st.sc.assignedThread[c] = None
  /\ r.tk = st.tk
  /\ r.sc = IF c = None THEN st.sc ELSE [st.sc EXCEPT !.assignedThread[c] = t]
  /\ Consistent(r.th)
  /\ r.th.affinity = [st.th.affinity EXCEPT ![t] = c]
  /\ \A u \in Threads \ {t} : Detached(st.th, u) => Detached(r.th, u)
  /\ st.th.coreRunning[t] = None => r.th.coreRunning[t] \in {None, c}
  /\ \A u \in Threads : st.th.status[u] # "IDLE" => r.th.status[u] # "IDLE"

Pins(st, r, t, k) ==
  r \in States /\ \E c \in Cores \cup {None} : PinsTo(st, r, t, k, c)

\* The first free core of a task is a core of that task without a thread.
LEMMA FirstOwnFreeCoreIsFree ==
  ASSUME NEW sc \in CoreTable, NEW k \in Tasks
  PROVE  LET c == FirstOwnFreeCore(sc, k)
         IN  \/ c = None
             \/ /\ c \in Cores
                /\ sc.assignedTask[c] = k
                /\ sc.assignedThread[c] = None
  <1> DEFINE own == {c \in CoresOf(sc, k) : sc.assignedThread[c] = None}
  <1>1. own \in SUBSET Nat
    BY DEF CoresOf, Cores
  <1>2. CASE own = {}
    BY <1>2, Zenon DEF FirstOwnFreeCore
  <1>3. CASE own # {}
    <2>1. Min(own) \in own
      BY <1>1, <1>3, MinNat, Zenon
    <2> QED BY <1>3, <2>1, Zenon DEF FirstOwnFreeCore, CoresOf
  <1> QED BY <1>2, <1>3, Zenon

\* setAffinity() pins a thread to a core of its task.
LEMMA SetAffinityPins ==
  ASSUME NEW st \in States, InStep(st.th), NEW t \in Threads, NEW k \in Tasks
  PROVE  Pins(st, setAffinity(st, t, k), t, k)
  <1> DEFINE c == FirstOwnFreeCore(st.sc, k)
             a == threadSetAffinity(st.th, t, c)
             s == IF c = None THEN st.sc ELSE [st.sc EXCEPT !.assignedThread[c] = t]
             r == [tk |-> st.tk, sc |-> s, th |-> a]
  <1>1. st.tk \in TaskTable /\ st.sc \in CoreTable /\ Consistent(st.th)
    BY Zenon DEF States, Consistent
  <1>2. \/ c = None
        \/ c \in Cores /\ st.sc.assignedTask[c] = k /\ st.sc.assignedThread[c] = None
    BY <1>1, FirstOwnFreeCoreIsFree, Zenon
  <1>3. setAffinity(st, t, k) = r
    BY Zenon DEF setAffinity
  <1> HIDE DEF c
  <1>4. /\ Consistent(a)
        /\ a.affinity = [st.th.affinity EXCEPT ![t] = c]
        /\ \A u \in Threads \ {t} : Detached(st.th, u) => Detached(a, u)
        /\ st.th.coreRunning[t] = None => a.coreRunning[t] \in {None, c}
        /\ \A u \in Threads : st.th.status[u] # "IDLE" => a.status[u] # "IDLE"
    BY <1>1, <1>2, ThreadSetAffinityPins
  <1> HIDE DEF a
  <1>5. s \in CoreTable
    BY <1>1, <1>2, Zenon DEF CoreTable
  <1>6. PinsTo(st, r, t, k, c)
    BY <1>2, <1>4, Zenon DEF PinsTo, c
  <1>7. r \in States
    BY <1>1, <1>4, <1>5, Zenon DEF States, Consistent
  <1> QED BY <1>2, <1>3, <1>6, <1>7, Zenon DEF Pins

\* The end of threadCreate() pins a new thread like setAffinity() does; the
\* thread is no longer idle.
LEMMA PlaceNewThreadPins ==
  ASSUME NEW st \in States, InStep(st.th), NEW t \in Threads, NEW k \in Tasks,
         st.th.coreRunning[t] = None
  PROVE  /\ Pins(st, PlaceNewThread(st, t, k), t, k)
         /\ PlaceNewThread(st, t, k).th.status[t] # "IDLE"
  <1> DEFINE j == [st.th EXCEPT !.status[t] = "INITIALIZING"]
             i == [st EXCEPT !.th.status[t] = "INITIALIZING"]
             p == setAffinity(i, t, k)
             d == p.th.affinity[t]
             y == [p.th EXCEPT !.coreRunning[t] = d, !.threadRunning[d] = t,
                               !.expired = @ \ {d}]
             q == [p EXCEPT !.th.coreRunning[t] = d, !.th.threadRunning[d] = t,
                            !.th.expired = @ \ {d}]
             r == PlaceNewThread(st, t, k)
  <1>1. /\ j \in ThreadLayer
        /\ j.affinity = st.th.affinity
        /\ j.coreRunning = st.th.coreRunning
        /\ j.threadRunning = st.th.threadRunning
        /\ j.expired = st.th.expired
        /\ j.status = [st.th.status EXCEPT ![t] = "INITIALIZING"]
    BY Zenon DEF States, ThreadLayer, Status
  <1>2. i \in States /\ i.tk = st.tk /\ i.sc = st.sc /\ i.th = j
    BY <1>1, Zenon DEF States
  <1>3. r = IF d # None /\ p.th.threadRunning[d] = None THEN q ELSE p
    BY Zenon DEF PlaceNewThread
  <1>4. \A u \in Threads : Detached(st.th, u) => Detached(j, u)
    BY <1>1, Zenon DEF Detached
  <1>5. /\ j.status[t] # "IDLE"
        /\ \A u \in Threads : st.th.status[u] # "IDLE" => j.status[u] # "IDLE"
    BY <1>1, Zenon DEF States, ThreadLayer
  <1>6. InStep(j)
    BY <1>1 DEF InStep, Agree, OnPins
  <1> HIDE DEF i, j
  <1>7. Pins(i, p, t, k)
    BY <1>2, <1>6, SetAffinityPins, Zenon
  <1> HIDE DEF p
  <1>8. PICK c \in Cores \cup {None} : PinsTo(i, p, t, k, c)
    BY <1>7, Zenon DEF Pins
  <1>9. d = c /\ p.th \in ThreadLayer
    BY <1>1, <1>7, <1>8 DEF PinsTo, Pins, States, ThreadLayer
  <1>10. PinsTo(st, p, t, k, c)
    BY <1>1, <1>2, <1>4, <1>5, <1>8, Zenon DEF PinsTo
  <1>11. p.th.status[t] # "IDLE"
    BY <1>2, <1>5, <1>8, Zenon DEF PinsTo
  <1>12. CASE ~(d # None /\ p.th.threadRunning[d] = None)
    BY <1>3, <1>7, <1>10, <1>11, <1>12, Zenon DEF Pins
  <1>13. CASE d # None /\ p.th.threadRunning[d] = None
    <2>1. /\ y \in ThreadLayer
          /\ y.affinity = p.th.affinity
          /\ y.coreRunning = [p.th.coreRunning EXCEPT ![t] = c]
          /\ y.threadRunning = [p.th.threadRunning EXCEPT ![c] = t]
          /\ y.status = p.th.status
          /\ y.expired = p.th.expired \ {c}
      BY <1>9, <1>13, Zenon DEF ThreadLayer
    <2>2. q \in States /\ q.tk = p.tk /\ q.sc = p.sc /\ q.th = y
      BY <1>7, <1>9, <2>1, Zenon DEF Pins, States
    <2> HIDE DEF y, q, d
    <2>3. p.th.coreRunning[t] = None
      BY <1>9, <1>10, <1>13, NoneIsNone DEF PinsTo, Consistent, InStep, Agree
    <2>4. InStep(y)
      <3>1. Agree(y)
        BY <1>9, <1>10, <1>13, <2>1, <2>3, NoneIsNone
           DEF PinsTo, Consistent, InStep, Agree, ThreadLayer
      <3>2. y.affinity[t] = c
        BY <1>9, <2>1, Zenon DEF d
      <3>3. OnPins(y)
        BY <1>9, <1>10, <2>1, <3>2 DEF PinsTo, Consistent, InStep, OnPins, ThreadLayer
      <3> QED BY <3>1, <3>3, Zenon DEF InStep
    <2>5. \A u \in Threads \ {t} : Detached(p.th, u) => Detached(y, u)
      BY <1>9, <2>1, Zenon DEF Detached, ThreadLayer
    <2>6. y.coreRunning[t] = c
      BY <1>9, <2>1 DEF ThreadLayer
    <2>7. PinsTo(st, q, t, k, c)
      BY <1>10, <2>1, <2>2, <2>4, <2>5, <2>6, Zenon DEF PinsTo, Consistent
    <2> QED BY <1>3, <1>11, <1>13, <2>1, <2>2, <2>7, Zenon DEF Pins
  <1> QED BY <1>12, <1>13, Zenon

\* Task k has been queued, given the cores cs, and its first thread pinned
\* unless it does not exist yet.
Maps(st, r, k, isInitialCall, cs) ==
  \E m, a \in States :
    /\ m.tk = Enqueue(st.tk, {k})
    /\ m.sc = Assign(st.sc, k, cs)
    /\ m.th = st.th
    /\ Cardinality(cs) = CoreRequirement[k]
    /\ IF isInitialCall THEN a = m ELSE Pins(m, a, k, k) /\ a = setAffinity(m, k, k)
    /\ r \in States
    /\ r.tk = Activate(a.tk, k)
    /\ r.sc = a.sc
    /\ r.th = a.th

\* Queueing and activating a task leave a well-formed task table.
LEMMA TaskTableOps ==
  ASSUME NEW tk \in TaskTable, NEW ks \in SUBSET Tasks, NEW k \in Tasks
  PROVE  Enqueue(tk, ks) \in TaskTable /\ Activate(tk, k) \in TaskTable
  BY Zenon DEF TaskTable, Enqueue, Activate

\* Giving a task cores leaves a well-formed core table.
LEMMA AssignType ==
  ASSUME NEW sc \in CoreTable, NEW k \in Tasks, NEW cs \in SUBSET Cores
  PROVE  Assign(sc, k, cs) \in CoreTable
  BY Zenon DEF CoreTable, Assign

\* Replacing the task table leaves cores and threads alone.
LEMMA StateWithTasks ==
  ASSUME NEW st \in States, NEW tk \in TaskTable
  PROVE  LET r == [st EXCEPT !.tk = tk]
         IN  r \in States /\ r.tk = tk /\ r.sc = st.sc /\ r.th = st.th
  BY Zenon DEF States

\* schedule() does nothing, only queues the task, or maps it onto free cores.
LEMMA ScheduleOutcomes ==
  ASSUME NEW st \in States, InStep(st.th), NEW k \in Tasks,
         NEW init \in BOOLEAN, NEW skew, NEW r \in schedule(st, k, init, skew)
  PROVE  /\ r.ok \in BOOLEAN
         /\ \/ r.st = st
            \/ r.st = [st EXCEPT !.tk = Enqueue(@, {k})]
            \/ \E cs \in SUBSET FreeCores(st.sc) : Maps(st, r.st, k, init, cs)
  <1> DEFINE queued == [st EXCEPT !.tk = Enqueue(@, {k})]
             M(cs) == [queued EXCEPT !.sc = Assign(@, k, cs)]
             A(cs) == IF init THEN M(cs) ELSE setAffinity(M(cs), k, k)
             D(cs) == [A(cs) EXCEPT !.tk = Activate(@, k)]
  <1>1. \/ r = [ok |-> FALSE, st |-> st]
        \/ r = [ok |-> FALSE, st |-> queued]
        \/ \E cs \in Mappings(st.sc, k) : r = [ok |-> TRUE, st |-> D(cs)]
    <2> DEFINE late == st.tk.due[k] > skew
               waits == \/ taskFrontOfQueue(queued.tk) # k
                        \/ numberOfFreeCores(st.sc) < CoreRequirement[k]
                        \/ Mappings(st.sc, k) = {}
    <2>1. schedule(st, k, init, skew) =
            IF late THEN {[ok |-> FALSE, st |-> st]}
            ELSE IF waits THEN {[ok |-> FALSE, st |-> queued]}
            ELSE {[ok |-> TRUE, st |-> D(cs)] : cs \in Mappings(st.sc, k)}
      BY Zenon DEF schedule
    <2> HIDE DEF late, waits, queued, D
    <2> QED BY <2>1, Zenon
  <1>2. k \in Threads
    BY TasksAreThreads, Zenon
  <1>3. ASSUME NEW cs \in Mappings(st.sc, k)
        PROVE  cs \in SUBSET FreeCores(st.sc) /\ Maps(st, D(cs), k, init, cs)
    <2>1. cs \in SUBSET FreeCores(st.sc)
      BY Zenon DEF Mappings, kSubset
    <2>2. cs \in SUBSET Cores
      BY <2>1, Zenon DEF FreeCores
    <2>3. Enqueue(st.tk, {k}) \in TaskTable /\ Assign(st.sc, k, cs) \in CoreTable
      BY <2>2, TaskTableOps, AssignType, Zenon DEF States
    <2>4. /\ M(cs) \in States
          /\ M(cs).tk = Enqueue(st.tk, {k})
          /\ M(cs).sc = Assign(st.sc, k, cs)
          /\ M(cs).th = st.th
      BY <2>3, Zenon DEF States
    <2> HIDE DEF M
    <2>5. /\ A(cs) \in States
          /\ IF init THEN A(cs) = M(cs)
             ELSE Pins(M(cs), A(cs), k, k) /\ A(cs) = setAffinity(M(cs), k, k)
      BY <1>2, <2>4, SetAffinityPins, Zenon DEF Pins
    <2> HIDE DEF A
    <2>6. /\ D(cs) \in States
          /\ D(cs).tk = Activate(A(cs).tk, k)
          /\ D(cs).sc = A(cs).sc
          /\ D(cs).th = A(cs).th
      <3>1. Activate(A(cs).tk, k) \in TaskTable
        BY <2>5, TaskTableOps, Zenon DEF States
      <3> QED BY <2>5, <3>1, StateWithTasks, Zenon
    <2> HIDE DEF D
    <2>7. Cardinality(cs) = CoreRequirement[k]
      BY Zenon DEF Mappings, kSubset
    <2> QED BY <2>1, <2>4, <2>5, <2>6, <2>7, Zenon DEF Maps
  <1> HIDE DEF D
  <1>4. CASE r = [ok |-> FALSE, st |-> st]
    BY <1>4, Zenon
  <1>5. CASE r = [ok |-> FALSE, st |-> queued]
    BY <1>5, Zenon
  <1>6. ASSUME NEW cs \in Mappings(st.sc, k), r = [ok |-> TRUE, st |-> D(cs)]
        PROVE  r.ok \in BOOLEAN /\ r.st = D(cs)
    BY <1>6, Zenon
  <1> QED BY <1>1, <1>3, <1>4, <1>5, <1>6, Zenon

-----------------------------------------------------------------------------
(* The first invariant: types, who runs where, and no early arrivals.      *)

\* Threads that do not exist yet are nowhere, and no core has one.
Fresh(x, n) == \A t \in Threads : t >= n => Detached(x, t)

Known(sc, n) ==
  \A c \in Cores : sc.assignedThread[c] # None => sc.assignedThread[c] < n

Sound(st, n) ==
  st \in States /\ InStep(st.th) /\ Fresh(st.th, n) /\ Known(st.sc, n)

\* No task that is still to be fetched arrived more than b ago.
DueAbove(tk, b) == \A k \in tk.waitingToSchedule : tk.due[k] >= -b

\* Pinning an existing thread keeps the state sound.
LEMMA PinsSound ==
  ASSUME NEW st, NEW n \in Nat, Sound(st, n), NEW m \in Nat, n <= m,
         NEW t \in Threads, t < m, NEW k, NEW r, Pins(st, r, t, k)
  PROVE  Sound(r, m)
  <1> USE DEF Sound
  <1>1. r \in States
    BY Zenon DEF Pins
  <1>2. PICK c \in Cores \cup {None} : PinsTo(st, r, t, k, c)
    BY Zenon DEF Pins
  <1>3. InStep(r.th)
    BY <1>2, Zenon DEF PinsTo, Consistent
  <1>4. Fresh(r.th, m)
    <2> SUFFICES ASSUME NEW u \in Threads, u >= m PROVE Detached(r.th, u)
      BY Zenon DEF Fresh
    <2>1. u >= n /\ u # t
      BY DEF Threads
    <2> QED BY <1>2, <2>1, Zenon DEF Fresh, PinsTo
  <1>5. Known(r.sc, m)
    <2> SUFFICES ASSUME NEW d \in Cores, r.sc.assignedThread[d] # None
                 PROVE  r.sc.assignedThread[d] < m
      BY Zenon DEF Known
    <2>1. \/ r.sc.assignedThread[d] = t
          \/ r.sc.assignedThread[d] = st.sc.assignedThread[d]
      BY <1>2 DEF PinsTo, States, CoreTable
    <2>2. st.sc.assignedThread[d] \in Threads \cup {None}
      BY Zenon DEF States, CoreTable
    <2>3. st.sc.assignedThread[d] # None => st.sc.assignedThread[d] < n
      BY Zenon DEF Known
    <2> QED BY <2>1, <2>2, <2>3 DEF Threads
  <1> QED BY <1>1, <1>3, <1>4, <1>5, Zenon

\* schedule() keeps the state sound and puts no task back to be fetched.
LEMMA ScheduleSound ==
  ASSUME NEW st, NEW n \in Nat, Sound(st, n), NEW k \in Tasks,
         NEW init \in BOOLEAN, init \/ k < n, NEW skew,
         NEW r \in schedule(st, k, init, skew)
  PROVE  /\ Sound(r.st, n)
         /\ r.st.tk.due = st.tk.due
         /\ r.st.tk.waitingToSchedule \subseteq st.tk.waitingToSchedule
  <1> DEFINE q == Enqueue(st.tk, {k})
  <1>1. st \in States /\ InStep(st.th) /\ k \in Threads
    BY TasksAreThreads, Zenon DEF Sound
  <1>2. /\ q \in TaskTable
        /\ q.due = st.tk.due
        /\ q.waitingToSchedule \subseteq st.tk.waitingToSchedule
    BY <1>1, Zenon DEF Enqueue, States, TaskTable
  <1> HIDE DEF q
  <1>3. \/ r.st = st
        \/ r.st = [st EXCEPT !.tk = q]
        \/ \E cs \in SUBSET FreeCores(st.sc) : Maps(st, r.st, k, init, cs)
    BY <1>1, ScheduleOutcomes, Zenon DEF q
  <1>4. CASE r.st = st
    BY <1>4, Zenon
  <1>5. CASE r.st = [st EXCEPT !.tk = q]
    BY <1>1, <1>2, <1>5, StateWithTasks DEF Sound
  <1>6. ASSUME NEW cs \in SUBSET FreeCores(st.sc), Maps(st, r.st, k, init, cs)
        PROVE  /\ Sound(r.st, n)
               /\ r.st.tk.due = st.tk.due
               /\ r.st.tk.waitingToSchedule \subseteq st.tk.waitingToSchedule
    <2>1. PICK m, a \in States :
            /\ m.tk = q
            /\ m.sc = Assign(st.sc, k, cs)
            /\ m.th = st.th
            /\ IF init THEN a = m ELSE Pins(m, a, k, k)
            /\ r.st \in States
            /\ r.st.tk = Activate(a.tk, k)
            /\ r.st.sc = a.sc
            /\ r.st.th = a.th
      BY <1>6, Zenon DEF Maps, q
    <2>2. m.sc.assignedThread = st.sc.assignedThread
      BY <1>1, <2>1, Zenon DEF Assign, States, CoreTable
    <2>3. Sound(m, n)
      BY <2>1, <2>2, Zenon DEF Sound, Known
    <2>4. Sound(a, n) /\ a.tk = q
      <3>1. CASE init
        BY <2>1, <2>3, <3>1, Zenon
      <3>2. CASE ~init
        <4>1. Pins(m, a, k, k)
          BY <2>1, <3>2, Zenon
        <4>2. Sound(a, n)
          BY <1>1, <2>3, <3>2, <4>1, PinsSound
        <4> QED BY <2>1, <4>1, <4>2, Zenon DEF Pins, PinsTo
      <3> QED BY <3>1, <3>2, Zenon
    <2>5. /\ r.st.tk.due = q.due
          /\ r.st.tk.waitingToSchedule = q.waitingToSchedule
      BY <1>2, <2>1, <2>4 DEF Activate, TaskTable
    <2> QED BY <1>2, <2>1, <2>4, <2>5, Zenon DEF Sound
  <1> QED BY <1>3, <1>4, <1>5, <1>6, Zenon

\* threadExit() gives back the core of the exiting thread ...
LEMMA ReleaseThreadSound ==
  ASSUME NEW st, NEW n \in Nat, Sound(st, n), NEW t \in Threads, t < n
  PROVE  /\ Sound(ReleaseThread(st, t), n)
         /\ ReleaseThread(st, t).tk = st.tk
  <1> DEFINE held == {c \in Cores : st.sc.assignedThread[c] = t}
             s == [st.sc EXCEPT !.assignedThread =
                     [c \in Cores |-> IF c \in held THEN None ELSE @[c]]]
             a == threadSetAffinity(st.th, t, None)
             x == IF held = {} THEN st.th ELSE a
             r == [tk |-> st.tk, sc |-> s, th |-> x]
  <1>1. /\ st.tk \in TaskTable
        /\ st.sc \in CoreTable
        /\ Consistent(st.th)
    BY Zenon DEF Sound, States, Consistent
  <1>2. /\ s \in CoreTable
        /\ \A c \in Cores : s.assignedThread[c] \in {None, st.sc.assignedThread[c]}
    BY <1>1, Zenon DEF CoreTable
  <1>3. /\ Consistent(a)
        /\ \A u \in Threads \ {t} : Detached(st.th, u) => Detached(a, u)
    BY <1>1, ThreadSetAffinityPins, Zenon
  <1>4. ReleaseThread(st, t) = r
    BY Zenon DEF ReleaseThread
  <1> HIDE DEF a, s, held
  <1>5. Consistent(x) /\ Fresh(x, n)
    <2>1. Fresh(a, n)
      BY <1>3 DEF Fresh, Sound, Threads
    <2> QED BY <1>1, <1>3, <2>1, Zenon DEF Sound
  <1> HIDE DEF x
  <1>6. r \in States
    BY <1>1, <1>2, <1>5, Zenon DEF States, Consistent
  <1> QED BY <1>2, <1>4, <1>5, <1>6 DEF Sound, Known, Consistent

\* ... and, for a first thread, all cores of its task.
LEMMA FinishTaskSound ==
  ASSUME NEW st, NEW n \in Nat, Sound(st, n), NEW k \in Tasks
  PROVE  LET r == FinishTask(st, k)
         IN  /\ Sound(r, n)
             /\ r.tk.due = st.tk.due
             /\ r.tk.waitingToSchedule = st.tk.waitingToSchedule
             /\ r.tk.waitingInQueue = st.tk.waitingInQueue
  <1> DEFINE y == [st.tk EXCEPT !.completed = @ \cup {k}, !.active = @ \ {k}]
             s == [st.sc EXCEPT !.assignedTask =
                     [c \in Cores |-> IF @[c] = k THEN None ELSE @[c]]]
             r == [tk |-> y, sc |-> s, th |-> st.th]
  <1>1. st.tk \in TaskTable /\ st.sc \in CoreTable /\ st.th \in ThreadLayer
    BY Zenon DEF Sound, States
  <1>2. /\ y \in TaskTable
        /\ y.due = st.tk.due
        /\ y.waitingToSchedule = st.tk.waitingToSchedule
        /\ y.waitingInQueue = st.tk.waitingInQueue
    BY <1>1, Zenon DEF TaskTable
  <1>3. s \in CoreTable /\ s.assignedThread = st.sc.assignedThread
    BY <1>1, Zenon DEF CoreTable
  <1>4. FinishTask(st, k) = r
    BY Zenon DEF FinishTask
  <1> HIDE DEF y, s
  <1>5. r \in States
    BY <1>1, <1>2, <1>3, Zenon DEF States
  <1> QED BY <1>2, <1>3, <1>4, <1>5 DEF Sound, Known

\* Readjusting the arrival times makes some task arrive now and none earlier.
LEMMA TimeJumpArrives ==
  ASSUME NEW tk \in TaskTable, NEW b \in Nat, DueAbove(tk, b),
         tk.waitingToSchedule # {}, NEW skew \in Nat
  PROVE  LET r == TimeJump(tk, skew)
         IN  /\ r \in TaskTable
             /\ r.waitingToSchedule = tk.waitingToSchedule
             /\ r.waitingInQueue = tk.waitingInQueue
             /\ r.active = tk.active
             /\ r.completed = tk.completed
             /\ \A k \in tk.waitingToSchedule : r.due[k] >= skew
             /\ \E k \in tk.waitingToSchedule : r.due[k] = skew
  <1> DEFINE W == tk.waitingToSchedule
             D == {tk.due[k] : k \in W}
             jump == Min(D) - skew
             f == [k \in Tasks |-> IF k \in W THEN tk.due[k] - jump ELSE tk.due[k]]
             r == [tk EXCEPT !.due = f]
  <1>1. W \subseteq Tasks /\ tk.due \in [Tasks -> Int]
    BY Zenon DEF TaskTable
  <1>2. D \in SUBSET Int /\ D # {} /\ \A x \in D : x >= -b
    BY <1>1, Zenon DEF DueAbove
  <1>3. Min(D) \in D /\ \A y \in D : Min(D) <= y
    <2> HIDE DEF D
    <2> QED BY <1>2, MinBounded, Zenon
  <1>4. PICK k \in W : Min(D) = tk.due[k]
    BY <1>3, Zenon
  <1>5. \A j \in W : Min(D) <= tk.due[j]
    BY <1>3, Zenon
  <1>6. jump \in Int
    BY <1>1, <1>4
  <1>7. f \in [Tasks -> Int]
    <2> HIDE DEF jump
    <2> QED BY <1>1, <1>6
  <1>8. \A j \in W : f[j] >= skew
    BY <1>1, <1>4, <1>5
  <1>9. f[k] = skew
    BY <1>1, <1>4
  <1>10. TimeJump(tk, skew) = r
    BY Zenon DEF TimeJump
  <1> HIDE DEF f
  <1>11. /\ r \in TaskTable
         /\ r.waitingToSchedule = tk.waitingToSchedule
         /\ r.waitingInQueue = tk.waitingInQueue
         /\ r.active = tk.active
         /\ r.completed = tk.completed
         /\ r.due = f
    BY <1>7, Zenon DEF TaskTable
  <1> QED BY <1>8, <1>9, <1>10, <1>11, Zenon

\* fetchTasksIntoQueue() moves exactly the tasks that have arrived.
LEMMA FetchTasks ==
  ASSUME NEW tk \in TaskTable, NEW skew \in Int
  PROVE  LET r == fetchTasksIntoQueue(tk, skew)
             ks == {k \in tk.waitingToSchedule : tk.due[k] <= skew}
         IN  /\ r \in TaskTable
             /\ r.waitingToSchedule = tk.waitingToSchedule \ ks
             /\ r.waitingInQueue = tk.waitingInQueue \cup ks
             /\ r.active = tk.active
             /\ r.completed = tk.completed
             /\ r.due = tk.due
  <1> DEFINE ks == {k \in tk.waitingToSchedule : tk.due[k] <= skew}
  <1>1. ks \in SUBSET Tasks
    BY Zenon DEF TaskTable
  <1>2. fetchTasksIntoQueue(tk, skew) = Enqueue(tk, ks)
    BY Zenon DEF fetchTasksIntoQueue
  <1> HIDE DEF ks
  <1>3. LET r == Enqueue(tk, ks)
        IN  /\ r \in TaskTable
            /\ r.waitingToSchedule = tk.waitingToSchedule \ ks
            /\ r.waitingInQueue = tk.waitingInQueue \cup ks
            /\ r.active = tk.active
            /\ r.completed = tk.completed
            /\ r.due = tk.due
    BY <1>1, Zenon DEF Enqueue, TaskTable
  <1> QED BY <1>2, <1>3, Zenon DEF ks

\* The front of a non-empty queue is a queued task.
LEMMA FrontOfQueue ==
  ASSUME NEW tk \in TaskTable, tk.waitingInQueue # {}
  PROVE  taskFrontOfQueue(tk) \in tk.waitingInQueue
  <1>1. tk.waitingInQueue \in SUBSET Nat
    BY DEF TaskTable, Tasks
  <1> QED BY <1>1, MinNat, Zenon DEF taskFrontOfQueue

\* The state threadExit() prefetches from: the queue is not empty.
PrefetchFrom(st, skew) ==
  IF st.tk.waitingInQueue # {} THEN st
  ELSE [st EXCEPT !.tk = fetchTasksIntoQueue(TimeJump(@, skew), skew)]

\* State r is st with some of the tasks that had not arrived moved to the queue.
Fetched(st, r, b) ==
  /\ r \in States
  /\ r.sc = st.sc /\ r.th = st.th
  /\ r.tk.waitingInQueue # {}
  /\ r.tk.active = st.tk.active
  /\ r.tk.completed = st.tk.completed
  /\ DueAbove(r.tk, b)
  /\ \E ks \in SUBSET st.tk.waitingToSchedule :
       /\ r.tk.waitingToSchedule = st.tk.waitingToSchedule \ ks
       /\ r.tk.waitingInQueue = st.tk.waitingInQueue \cup ks

\* Prefetching starts with a task in the queue, after at most a time jump.
LEMMA PrefetchFromQueue ==
  ASSUME NEW st \in States, NEW b \in Nat, DueAbove(st.tk, b),
         st.tk.waitingToSchedule # {}, NEW skew \in Nat
  PROVE  Fetched(st, PrefetchFrom(st, skew), b)
  <1> DEFINE j == TimeJump(st.tk, skew)
             f == fetchTasksIntoQueue(j, skew)
             ks == {k \in j.waitingToSchedule : j.due[k] <= skew}
  <1>1. st.tk \in TaskTable
    BY Zenon DEF States
  <1>2. CASE st.tk.waitingInQueue # {}
    <2>1. PrefetchFrom(st, skew) = st
      BY <1>2, Zenon DEF PrefetchFrom
    <2>2. /\ {} \in SUBSET st.tk.waitingToSchedule
          /\ st.tk.waitingToSchedule = st.tk.waitingToSchedule \ {}
          /\ st.tk.waitingInQueue = st.tk.waitingInQueue \cup {}
      BY Zenon
    <2> QED BY <1>2, <2>1, <2>2, Zenon DEF Fetched
  <1>3. CASE st.tk.waitingInQueue = {}
    <2>1. PrefetchFrom(st, skew) = [st EXCEPT !.tk = f]
      BY <1>3, Zenon DEF PrefetchFrom
    <2>2. /\ j \in TaskTable
          /\ j.waitingToSchedule = st.tk.waitingToSchedule
          /\ j.waitingInQueue = st.tk.waitingInQueue
          /\ j.active = st.tk.active
          /\ j.completed = st.tk.completed
          /\ \A k \in st.tk.waitingToSchedule : j.due[k] >= skew
          /\ \E k \in st.tk.waitingToSchedule : j.due[k] = skew
      BY <1>1, TimeJumpArrives, Zenon
    <2> HIDE DEF j
    <2>3. /\ f \in TaskTable
          /\ f.waitingToSchedule = j.waitingToSchedule \ ks
          /\ f.waitingInQueue = j.waitingInQueue \cup ks
          /\ f.active = j.active
          /\ f.completed = j.completed
          /\ f.due = j.due
      BY <2>2, FetchTasks
    <2> HIDE DEF f
    <2>4. ks # {} /\ ks \in SUBSET st.tk.waitingToSchedule
      BY <2>2, Zenon
    <2>5. DueAbove(f, b)
      <3> SUFFICES ASSUME NEW k \in f.waitingToSchedule PROVE f.due[k] >= -b
        BY Zenon DEF DueAbove
      <3>1. f.due[k] >= skew /\ f.due[k] \in Int
        BY <2>2, <2>3, Zenon DEF TaskTable
      <3> QED BY <3>1
    <2> HIDE DEF ks
    <2>6. LET r == [st EXCEPT !.tk = f]
          IN  r \in States /\ r.tk = f /\ r.sc = st.sc /\ r.th = st.th
      BY <2>3, StateWithTasks, Zenon
    <2> QED BY <2>1, <2>2, <2>3, <2>4, <2>5, <2>6, Zenon DEF Fetched
  <1> QED BY <1>2, <1>3, Zenon

\* Prefetching keeps the state sound.
LEMMA PrefetchSound ==
  ASSUME NEW st, NEW n \in Nat, Sound(st, n), NumTasks <= n, NEW b \in Nat,
         DueAbove(st.tk, b), NEW skew \in Nat, NEW r \in Prefetch(st, skew)
  PROVE  Sound(r, n) /\ DueAbove(r.tk, b)
  <1> DEFINE from == PrefetchFrom(st, skew)
             k == taskFrontOfQueue(from.tk)
             go == FreeCores(st.sc) = Cores /\ st.tk.waitingToSchedule # {}
  <1>1. CASE ~go
    BY <1>1, Zenon DEF Prefetch
  <1>2. CASE go
    <2>1. PICK q \in schedule(from, k, FALSE, skew) : r = q.st
      BY <1>2, Zenon DEF Prefetch, PrefetchFrom
    <2>2. /\ from \in States
          /\ from.sc = st.sc /\ from.th = st.th
          /\ from.tk.waitingInQueue # {}
          /\ DueAbove(from.tk, b)
      <3>1. Fetched(st, from, b)
        BY <1>2, PrefetchFromQueue, Zenon DEF Sound
      <3> QED BY <3>1, Zenon DEF Fetched
    <2> HIDE DEF from
    <2>3. Sound(from, n)
      BY <2>2, Zenon DEF Sound
    <2>4. k \in Tasks
      BY <2>2, FrontOfQueue, Zenon DEF States, TaskTable
    <2> HIDE DEF k
    <2>5. k < n
      <3>1. NumTasks \in Nat
        BY NumTasksIsNat, Zenon
      <3> QED BY <2>4, <3>1 DEF Tasks
    <2>6. /\ Sound(r, n)
          /\ r.tk.due = from.tk.due
          /\ r.tk.waitingToSchedule \subseteq from.tk.waitingToSchedule
      <3>1. /\ Sound(q.st, n)
            /\ q.st.tk.due = from.tk.due
            /\ q.st.tk.waitingToSchedule \subseteq from.tk.waitingToSchedule
        BY <2>3, <2>4, <2>5, ScheduleSound, Zenon
      <3> QED BY <2>1, <3>1, Zenon
    <2> QED BY <2>2, <2>6, Zenon DEF DueAbove
  <1> QED BY <1>1, <1>2, Zenon

\* How long ago an unfetched task can have arrived: the tasks are fetched when
\* phase is 0, after the migrations.
Age == IF pc = "migrate" /\ phase = 0 THEN MappingEpoch ELSE phase

ThreadsHaveApps == \A t \in Threads : t < numThreads => app[t] \in Tasks

AllCreated == pc # "idle" => numThreads >= NumTasks

RunsInStep == InStep(threads)

\* The inductive invariant behind TypeOK, RunningInverse and ArrivalsFetched.
SoundInv ==
  /\ TypeOK
  /\ RunsInStep
  /\ Fresh(threads, numThreads)
  /\ Known(systemCores, numThreads)
  /\ ThreadsHaveApps
  /\ AllCreated
  /\ DueAbove(openTasks, Age)

\* In terms of the record the operators work on.
LEMMA StateIsSound ==
  ASSUME SoundInv
  PROVE  /\ State \in States
         /\ State.tk = openTasks /\ State.sc = systemCores /\ State.th = threads
         /\ Sound(State, numThreads)
         /\ Consistent(threads)
  <1>1. /\ State \in States
        /\ State.tk = openTasks /\ State.sc = systemCores /\ State.th = threads
    BY Zenon DEF SoundInv, TypeOK, State, States
  <1>2. InStep(threads) /\ threads \in ThreadLayer
    BY Zenon DEF SoundInv, TypeOK, RunsInStep
  <1> HIDE DEF State
  <1> QED BY <1>1, <1>2, Zenon DEF SoundInv, Sound, Consistent

\* A sound state may become the current one.
LEMMA BecomeSound ==
  ASSUME NEW st, Sound(st, numThreads'), Become(st)
  PROVE  /\ openTasks' = st.tk
         /\ openTasks' \in TaskTable
         /\ systemCores' \in CoreTable
         /\ threads' \in ThreadLayer
         /\ RunsInStep'
         /\ Fresh(threads, numThreads)'
         /\ Known(systemCores, numThreads)'
  <1>1. st.tk \in TaskTable /\ st.sc \in CoreTable /\ st.th \in ThreadLayer
    BY Zenon DEF Sound, States
  <1>2. openTasks' = st.tk /\ systemCores' = st.sc /\ threads' = st.th
    BY Zenon DEF Become
  <1> QED BY <1>1, <1>2, Zenon DEF Sound, RunsInStep, Fresh, Known, Detached

\* So may a new thread layer that keeps the masks.
LEMMA KeepsSound ==
  ASSUME SoundInv, Keeps(threads, threads'), numThreads' = numThreads
  PROVE  threads' \in ThreadLayer /\ RunsInStep' /\ Fresh(threads, numThreads)'
  BY Zenon DEF SoundInv, Keeps, Consistent, RunsInStep, Fresh, Detached

\* A handler that only changes the thread layer preserves the invariant.
LEMMA ThreadStepSound ==
  ASSUME SoundInv, Keeps(threads, threads'), caller' \in Threads \cup {None},
         UNCHANGED <<openTasks, systemCores, app, numThreads, phase, pc, nextCore,
                     fault>>
  PROVE  SoundInv'
  <1>1. threads' \in ThreadLayer /\ RunsInStep' /\ Fresh(threads, numThreads)'
    BY KeepsSound, Zenon
  <1> QED BY <1>1, Zenon DEF SoundInv, TypeOK, Known, ThreadsHaveApps, AllCreated,
                      DueAbove, Age

\* Giving up changes nothing else.
LEMMA FaultSound ==
  ASSUME SoundInv, UNCHANGED <<taskVars, app, numThreads>>,
         UNCHANGED <<phase, pc, nextCore, caller>>,
         fault' \in {"none", "task 0 not mapped", "no core for new thread",
                     "deadlocked"}
  PROVE  SoundInv'
  BY Zenon DEF SoundInv, TypeOK, taskVars, RunsInStep, Fresh, Known, Detached,
         ThreadsHaveApps, AllCreated, DueAbove, Age

\* The ranges of the counters.
LEMMA Counters ==
  ASSUME TypeOK
  PROVE  /\ numThreads \in Nat /\ numThreads <= MaxThreads
         /\ MappingEpoch \in Nat \ {0}
         /\ phase \in Nat /\ phase < MappingEpoch
         /\ NumCores \in Nat \ {0}
         /\ nextCore \in Nat /\ nextCore <= NumCores
  <1>1. MappingEpoch \in Nat \ {0}
    BY SchedulerAssumption, Zenon
  <1>2. NumCores \in Nat \ {0}
    BY ThreadLayerAssumption, Zenon
  <1>3. /\ numThreads \in 0 .. MaxThreads
        /\ phase \in 0 .. MappingEpoch - 1
        /\ nextCore \in 0 .. NumCores
    BY Zenon DEF TypeOK
  <1> QED BY <1>1, <1>2, <1>3, NumTasksIsNat

\* A thread that executes has been created.
LEMMA ExecutesCreated ==
  ASSUME SoundInv, NEW t \in Threads, Executes(t)
  PROVE  t < numThreads /\ app[t] \in Tasks
  <1>1. t < numThreads
    <2>1. ~(t >= numThreads)
      BY Zenon DEF SoundInv, Executes, Fresh, Detached
    <2>2. t \in Int /\ numThreads \in Int
      BY Counters, SMTT(30) DEF SoundInv, Threads
    <2> QED BY <2>1, <2>2
  <1> QED BY <1>1, Zenon DEF SoundInv, ThreadsHaveApps

\* migrateThread() pins a thread that exists, if the core has one.
LEMMA MigrateThreadPins ==
  ASSUME NEW x, Consistent(x), NEW t \in Threads \cup {None}, NEW c \in Cores
  PROVE  LET r == MigrateThread(x, t, c)
         IN  /\ Consistent(r)
             /\ r.affinity = IF t = None THEN x.affinity
                             ELSE [x.affinity EXCEPT ![t] = c]
             /\ \A u \in Threads \ {t} : Detached(x, u) => Detached(r, u)
             /\ \A u \in Threads : x.status[u] # "IDLE" => r.status[u] # "IDLE"
  <1>1. CASE t = None
    BY <1>1, Zenon DEF MigrateThread
  <1>2. CASE t # None
    BY <1>2, ThreadSetAffinityPins DEF MigrateThread
  <1> QED BY <1>1, <1>2, Zenon

\* Everything starts sound.
LEMMA InitSound == Init => SoundInv
  <1> SUFFICES ASSUME Init PROVE SoundInv
    BY Zenon
  <1>1. threads \in ThreadLayer
    BY Zenon DEF Init, ThreadLayerInit, ThreadLayer, Status, StallReason
  <1>2. openTasks \in TaskTable /\ systemCores \in CoreTable
    <2>1. Arrival \in [Tasks -> Nat]
      BY SchedulerAssumption, Zenon
    <2>2. Arrival \in [Tasks -> Int]
      BY <2>1
    <2> QED BY <2>2, Zenon DEF Init, TaskTable, CoreTable
  <1>3. phase \in 0 .. MappingEpoch - 1 /\ nextCore \in 0 .. NumCores
    <2>1. MappingEpoch \in Nat \ {0}
      BY SchedulerAssumption, Zenon
    <2>2. NumCores \in Nat
      BY ThreadLayerAssumption, Zenon
    <2> QED BY <2>1, <2>2 DEF Init
  <1>4. TypeOK
    <2>1. numThreads \in 0 .. MaxThreads
      BY NumTasksIsNat DEF Init
    <2>2. app \in [Threads -> Tasks \cup {None}]
      BY Zenon DEF Init
    <2> QED BY <1>1, <1>2, <1>3, <2>1, <2>2, Zenon DEF Init, TypeOK
  <1>5. RunsInStep /\ Fresh(threads, numThreads)
    BY NoneIsNone, Zenon DEF Init, ThreadLayerInit, RunsInStep, InStep, Agree, OnPins, Fresh, Detached
  <1>6. Known(systemCores, numThreads)
    BY Zenon DEF Init, Known
  <1>7. ThreadsHaveApps /\ AllCreated
    BY DEF Init, ThreadsHaveApps, AllCreated, Threads
  <1>8. DueAbove(openTasks, Age)
    <2>1. Arrival \in [Tasks -> Nat]
      BY SchedulerAssumption, Zenon
    <2> QED BY <2>1 DEF Init, DueAbove, Age
  <1> QED BY <1>4, <1>5, <1>6, <1>7, <1>8, Zenon DEF SoundInv

\* The handlers that only touch the thread layer change no mask: starting,
\* stalling, resuming and yielding keep the consistency of the layer.
LEMMA ThreadActionsKeep ==
  ASSUME SoundInv, NEW t \in Threads
  PROVE  /\ ThreadStart(t) => Keeps(threads, threads')
         /\ \A u \in Threads : Join(t, u) => Keeps(threads, threads')
         /\ Sleep(t) => Keeps(threads, threads')
         /\ StallUnscheduled(t) => Keeps(threads, threads')
         /\ BlockingSyscall(t) => Keeps(threads, threads')
         /\ SyscallReturns(t) => Keeps(threads, threads')
         /\ Yield(t) => Keeps(threads, threads')
  <1>1. Consistent(threads)
    BY StateIsSound, Zenon
  <1>2. \A why \in {"JOIN", "SLEEP", "UNSCHEDULED", "SYSCALL"} : why \in StallReason
    BY Zenon DEF StallReason
  <1>3. ThreadStart(t) => Keeps(threads, threads')
    BY <1>1, OnThreadStartKeeps, Zenon DEF ThreadStart
  <1>4. ASSUME NEW u \in Threads, Join(t, u) PROVE Keeps(threads, threads')
    <2> DEFINE x == [threads EXCEPT !.waiter[u] = t]
    <2>1. threads' = stallThread_async(x, t, "JOIN")
      BY <1>4, Zenon DEF Join, Stall
    <2>2. /\ x \in ThreadLayer
          /\ x.affinity = threads.affinity
          /\ x.coreRunning = threads.coreRunning
          /\ x.threadRunning = threads.threadRunning
          /\ x.expired = threads.expired
          /\ x.status = threads.status
      BY <1>1, Zenon DEF Consistent, ThreadLayer
    <2> HIDE DEF x
    <2>3. Keeps(threads, x)
      BY <1>1, <2>2, SameCoresKeeps, Zenon
    <2>4. Keeps(x, stallThread_async(x, t, "JOIN"))
      BY <1>2, <2>3, StallThreadAsyncKeeps, ZenonT(40) DEF Keeps
    <2> QED BY <2>1, <2>3, <2>4, KeepsTransitive, Zenon
  <1>5. Sleep(t) => Keeps(threads, threads')
    BY <1>1, <1>2, StallThreadAsyncKeeps, Zenon DEF Sleep, Stall
  <1>6. StallUnscheduled(t) => Keeps(threads, threads')
    BY <1>1, <1>2, StallThreadAsyncKeeps, Zenon DEF StallUnscheduled, Stall
  <1>7. BlockingSyscall(t) => Keeps(threads, threads')
    BY <1>1, <1>2, StallThreadAsyncKeeps, Zenon DEF BlockingSyscall
  <1>8. SyscallReturns(t) => Keeps(threads, threads')
    BY <1>1, ResumeThreadAsyncKeeps, Zenon DEF SyscallReturns
  <1>9. Yield(t) => Keeps(threads, threads')
    BY <1>1, ThreadYieldKeeps, Zenon DEF Yield
  <1> QED BY <1>3, <1>4, <1>5, <1>6, <1>7, <1>8, <1>9, Zenon

\* What a thread-layer handler leaves alone.
ThreadStepFrame ==
  /\ UNCHANGED <<openTasks, systemCores, app, numThreads, phase, pc, nextCore,
                 fault>>
  /\ caller' \in Threads \cup {None}

\* The same handlers leave the tables of the scheduler alone.
LEMMA ThreadActionsFrame ==
  ASSUME SoundInv, NEW t \in Threads,
         \/ ThreadStart(t) \/ Sleep(t) \/ StallUnscheduled(t)
         \/ BlockingSyscall(t) \/ SyscallReturns(t) \/ Yield(t)
         \/ \E u \in Threads : Join(t, u)
  PROVE  ThreadStepFrame
  <1>1. caller \in Threads \cup {None}
    BY Zenon DEF SoundInv, TypeOK
  <1> QED BY <1>1, Zenon DEF ThreadStepFrame, ThreadStart, Sleep, StallUnscheduled,
                      BlockingSyscall, SyscallReturns, Yield, Join, Stall

\* A thread that goes to sleep in Thread::wait() stays where it is.
LEMMA CallerReturnsKeeps ==
  ASSUME SoundInv, CallerReturns
  PROVE  Keeps(threads, threads') /\ ThreadStepFrame
  <1> DEFINE ps == IF threads.status[caller] = "RUNNING" THEN threads.parked
                   ELSE threads.parked \cup {caller}
             y == [threads EXCEPT !.parked = ps]
  <1>1. Consistent(threads)
    BY StateIsSound, Zenon
  <1>2. /\ caller \in Threads
        /\ threads' = y
        /\ ThreadStepFrame
    BY Zenon DEF CallerReturns, SoundInv, TypeOK, ThreadStepFrame
  <1>3. ps \in SUBSET Threads
    BY <1>1, <1>2, Zenon DEF Consistent, ThreadLayer
  <1> HIDE DEF ps
  <1>4. /\ y \in ThreadLayer
        /\ y.affinity = threads.affinity
        /\ y.coreRunning = threads.coreRunning
        /\ y.threadRunning = threads.threadRunning
        /\ y.expired = threads.expired
        /\ y.status = threads.status
    BY <1>1, <1>3, Zenon DEF Consistent, ThreadLayer
  <1> HIDE DEF y
  <1> QED BY <1>1, <1>2, <1>4, SameCoresKeeps, Zenon

\* What a migration leaves alone.
LEMMA MigrationFrame ==
  ASSUME SoundInv, NEW a \in Cores, NEW b \in Cores, Migration(a, b),
         systemCores' \in CoreTable,
         Known(systemCores', numThreads),
         Consistent(threads'),
         Fresh(threads', numThreads)
  PROVE  SoundInv'
  <1>1. UNCHANGED <<openTasks, app, numThreads, phase, pc, nextCore, caller, fault>>
    BY Zenon DEF Migration
  <1>2. threads' \in ThreadLayer /\ RunsInStep'
    BY Zenon DEF Consistent, RunsInStep
  <1>3. TypeOK'
    BY <1>1, <1>2, Zenon DEF SoundInv, TypeOK
  <1>4. Known(systemCores, numThreads)' /\ Fresh(threads, numThreads)'
    BY <1>1, Zenon DEF Known, Fresh, Detached
  <1>5. ThreadsHaveApps' /\ AllCreated' /\ DueAbove(openTasks, Age)'
    BY <1>1, Zenon DEF SoundInv, ThreadsHaveApps, AllCreated, DueAbove, Age
  <1> QED BY <1>2, <1>3, <1>4, <1>5, Zenon DEF SoundInv

\* A thread that a core is reserved for exists.
LEMMA ReservedCreated ==
  ASSUME SoundInv, NEW a \in Cores
  PROVE  LET t == systemCores.assignedThread[a]
         IN  /\ t \in Threads \cup {None}
             /\ \A u \in Threads : u >= numThreads => u # t
  <1>1. systemCores.assignedThread[a] \in Threads \cup {None}
    BY Zenon DEF SoundInv, TypeOK, CoreTable
  <1>2. systemCores.assignedThread[a] # None =>
          systemCores.assignedThread[a] < numThreads
    BY Zenon DEF SoundInv, Known
  <1> QED BY <1>1, <1>2, Counters, NoneIsNone DEF SoundInv, Threads

\* The loop over the cores changes no mask.
LEMMA CoreStepKeeps ==
  ASSUME SoundInv, CoreStep
  PROVE  Keeps(threads, threads')
  <1>1. nextCore \in Cores
    BY Counters DEF CoreStep, SoundInv, Cores
  <1> QED BY <1>1, StateIsSound, RescheduleKeeps, KeepsReflexive, Zenon DEF CoreStep

\* Every step of the program keeps the state sound.
LEMMA NextSound == SoundInv /\ [Next]_vars => SoundInv'
  \* Creating the first threads keeps the state sound: a task may be mapped before
  \* its first thread exists.
  <1>CreateFirstSound. SoundInv /\ CreateFirst => SoundInv'
    <2> SUFFICES ASSUME SoundInv, CreateFirst PROVE SoundInv'
      BY Zenon
    <2> DEFINE n == numThreads
    <2>1. PICK r \in schedule(State, n, TRUE, 0) :
            IF n = 0 /\ ~r.ok
            THEN fault' = "task 0 not mapped" /\ UNCHANGED <<taskVars, app, numThreads>>
            ELSE /\ \E st \in {PlaceNewThread(r.st, n, n)} : Become(st)
                 /\ app' = [app EXCEPT ![n] = n]
                 /\ numThreads' = n + 1
                 /\ UNCHANGED fault
      BY Zenon DEF CreateFirst
    <2>2. /\ n < NumTasks
          /\ UNCHANGED <<phase, pc, nextCore, caller>>
      BY Zenon DEF CreateFirst
    <2>3. n \in Nat /\ n \in Tasks /\ n \in Threads /\ n + 1 \in 0 .. MaxThreads
      BY <2>2, Counters, NumTasksIsNat DEF SoundInv, Tasks, Threads
    <2>4. /\ Sound(r.st, n)
          /\ r.st.tk.due = openTasks.due
          /\ r.st.tk.waitingToSchedule \subseteq openTasks.waitingToSchedule
      <3>1. Sound(State, n) /\ State.tk = openTasks
        BY StateIsSound, Zenon
      <3>2. /\ Sound(r.st, n)
            /\ r.st.tk.due = State.tk.due
            /\ r.st.tk.waitingToSchedule \subseteq State.tk.waitingToSchedule
        BY <2>3, <3>1, ScheduleSound, Zenon
      <3> QED BY <3>1, <3>2, Zenon
    <2>5. Age' = Age /\ Age \in Int
      BY <2>2, Counters DEF Age, SoundInv
    <2>6. CASE n = 0 /\ ~r.ok
      <3>1. fault' = "task 0 not mapped" /\ UNCHANGED <<taskVars, app, numThreads>>
        BY <2>1, <2>6, Zenon
      <3> QED BY <2>2, <3>1, FaultSound, Zenon
    <2>7. CASE ~(n = 0 /\ ~r.ok)
      <3> DEFINE p == PlaceNewThread(r.st, n, n)
      <3>1. Become(p) /\ app' = [app EXCEPT ![n] = n] /\ numThreads' = n + 1
               /\ UNCHANGED fault
        BY <2>1, <2>7, Zenon
      <3>2. r.st \in States /\ InStep(r.st.th) /\ r.st.th.coreRunning[n] = None
        BY <2>3, <2>4 DEF Sound, Fresh, Detached
      <3>3. Pins(r.st, p, n, n)
        BY <2>3, <3>2, PlaceNewThreadPins, Zenon
      <3> HIDE DEF p
      <3>4. p.tk = r.st.tk
        BY <3>3, Zenon DEF Pins, PinsTo
      <3>5. Sound(p, numThreads')
        BY <2>3, <2>4, <3>1, <3>3, PinsSound
      <3>6. /\ openTasks' = p.tk
            /\ openTasks' \in TaskTable
            /\ systemCores' \in CoreTable
            /\ threads' \in ThreadLayer
            /\ RunsInStep'
            /\ Fresh(threads, numThreads)'
            /\ Known(systemCores, numThreads)'
        BY <3>1, <3>5, BecomeSound, Zenon
      <3>7. app' \in [Threads -> Tasks \cup {None}]
        BY <2>3, <3>1, Zenon DEF SoundInv, TypeOK
      <3>8. TypeOK'
        BY <2>2, <2>3, <3>1, <3>6, <3>7, Zenon DEF SoundInv, TypeOK
      <3>9. ThreadsHaveApps'
        <4> SUFFICES ASSUME NEW u \in Threads, u < n + 1 PROVE app'[u] \in Tasks
          BY <3>1, Zenon DEF ThreadsHaveApps
        <4>1. u = n \/ u < n
          BY <2>3 DEF Threads
        <4>2. u < n => app[u] \in Tasks
          BY Zenon DEF SoundInv, ThreadsHaveApps
        <4> QED BY <2>3, <3>1, <4>1, <4>2, Zenon DEF SoundInv, TypeOK
      <3>10. AllCreated'
        BY <2>2, <2>3, <3>1, NumTasksIsNat DEF SoundInv, AllCreated
      <3>11. DueAbove(openTasks, Age)'
        BY <2>4, <2>5, <3>4, <3>6, Zenon DEF SoundInv, DueAbove
      <3> QED BY <3>6, <3>8, <3>9, <3>10, <3>11, Zenon DEF SoundInv
    <2> QED BY <2>6, <2>7, Zenon
  \* Spawning a thread keeps the state sound.
  <1>SpawnSound.
    ASSUME SoundInv, NEW t \in Threads, Spawn(t)
    PROVE  SoundInv'
    <2> USE <1>SpawnSound
    <2> DEFINE n == numThreads
               k == app[t]
               p == PlaceNewThread(State, n, k)
    <2>0. n < MaxThreads /\ UNCHANGED <<phase, pc, nextCore, caller>>
      BY Zenon DEF Spawn
    <2>1. IF p.th.coreRunning[n] = None
          THEN /\ fault' = "no core for new thread"
               /\ UNCHANGED <<taskVars, app, numThreads>>
          ELSE /\ Become(p)
               /\ app' = [app EXCEPT ![n] = k]
               /\ numThreads' = n + 1
               /\ UNCHANGED fault
      BY Zenon DEF Spawn
    <2>2. k \in Tasks
      BY ExecutesCreated, Zenon DEF Spawn
    <2> HIDE DEF p, k
    <2>3. n \in Nat /\ n \in Threads /\ n + 1 \in 0 .. MaxThreads
      BY <2>0, Counters, NumTasksIsNat DEF SoundInv, Threads
    <2>4. Age' = Age /\ Age \in Int
      BY <2>0, Counters DEF Age, SoundInv
    <2>5. State \in States /\ Sound(State, n) /\ State.tk = openTasks /\ State.th = threads
      BY StateIsSound, Zenon
    <2>6. CASE p.th.coreRunning[n] = None
      <3>1. /\ fault' = "no core for new thread"
            /\ UNCHANGED <<taskVars, app, numThreads>>
        BY <2>1, <2>6, Zenon
      <3> QED BY <2>0, <3>1, FaultSound, Zenon
    <2>7. CASE p.th.coreRunning[n] # None
      <3>1. /\ Become(p)
            /\ app' = [app EXCEPT ![n] = k]
            /\ numThreads' = n + 1
            /\ UNCHANGED fault
        BY <2>1, <2>7, Zenon
      <3>2. InStep(State.th) /\ State.th.coreRunning[n] = None
        BY <2>3, <2>5, SMTT(30) DEF Sound, Fresh, Detached
      <3>3. Pins(State, p, n, k)
        BY <2>2, <2>3, <2>5, <3>2, PlaceNewThreadPins, Zenon DEF p
      <3>4. p.tk = openTasks
        BY <2>5, <3>3, Zenon DEF Pins, PinsTo
      <3>5. Sound(p, numThreads')
        BY <2>3, <2>5, <3>1, <3>3, PinsSound
      <3>6. /\ openTasks' = p.tk
            /\ openTasks' \in TaskTable
            /\ systemCores' \in CoreTable
            /\ threads' \in ThreadLayer
            /\ RunsInStep'
            /\ Fresh(threads, numThreads)'
            /\ Known(systemCores, numThreads)'
        BY <3>1, <3>5, BecomeSound, Zenon
      <3>7. app' \in [Threads -> Tasks \cup {None}]
        BY <2>2, <2>3, <3>1, ZenonT(40) DEF SoundInv, TypeOK
      <3>8. TypeOK'
        BY <2>0, <2>3, <3>1, <3>6, <3>7, Zenon DEF SoundInv, TypeOK
      <3>9. ThreadsHaveApps'
        <4> SUFFICES ASSUME NEW u \in Threads, u < n + 1 PROVE app'[u] \in Tasks
          BY <3>1, Zenon DEF ThreadsHaveApps
        <4>1. u = n \/ u < n
          BY <2>3 DEF Threads
        <4>2. u < n => app[u] \in Tasks
          BY Zenon DEF SoundInv, ThreadsHaveApps
        <4> QED BY <2>2, <2>3, <3>1, <4>1, <4>2, Zenon DEF SoundInv, TypeOK
      <3>10. AllCreated'
        BY <2>0, <2>3, <3>1, NumTasksIsNat, SMTT(30) DEF SoundInv, AllCreated
      <3>11. DueAbove(openTasks, Age)'
        BY <2>4, <3>4, <3>6, Zenon DEF SoundInv, DueAbove
      <3> QED BY <3>6, <3>8, <3>9, <3>10, <3>11, Zenon DEF SoundInv
    <2> QED BY <2>6, <2>7, Zenon
  \* An exit, with the release of the task's cores and the prefetching of the
  \* next task, keeps the state sound.
  <1>ThreadExitSound.
    ASSUME SoundInv, NEW t \in Threads, ThreadExit(t)
    PROVE  SoundInv'
    <2> USE <1>ThreadExitSound
    <2> DEFINE n == numThreads
               x == onThreadExit(threads, t)
               s == [State EXCEPT !.th = x]
               released == ReleaseThread(s, t)
               done == IF t \in Tasks THEN FinishTask(released, t) ELSE released
    <2>1. /\ LockFree /\ Executes(t)
          /\ UNCHANGED <<app, numThreads, phase, pc, nextCore, caller, fault>>
          /\ \E skew \in 0 .. MaxSkew : \E st \in Prefetch(done, skew) : Become(st)
      BY Zenon DEF ThreadExit
    <2>2. PICK skew \in 0 .. MaxSkew : \E st \in Prefetch(done, skew) : Become(st)
      BY <2>1, Zenon
    <2>3. PICK st \in Prefetch(done, skew) : Become(st)
      BY <2>2, Zenon
    <2>4. n \in Nat /\ t < n /\ NumTasks <= n /\ skew \in Nat
      <3>1. MaxSkew \in Nat
        BY SchedulerAssumption, Zenon
      <3>2. n \in Nat /\ NumTasks \in Nat
        BY Counters, NumTasksIsNat, Zenon DEF SoundInv
      <3> QED BY <2>1, <3>1, <3>2, ExecutesCreated DEF LockFree
    <2>5. Age' = Age /\ Age \in Nat
      BY <2>1, Counters, Zenon DEF Age, SoundInv
    <2>6. State \in States /\ Sound(State, n) /\ State.tk = openTasks /\ State.th = threads
             /\ Consistent(threads)
      BY StateIsSound, Zenon
    <2>7. Sound(s, n) /\ s.tk = openTasks
      <3>1. /\ Consistent(x)
            /\ \A u \in Threads : Detached(threads, u) => Detached(x, u)
        BY <2>1, <2>6, OnThreadExitDetaches, Zenon DEF Executes
      <3> HIDE DEF x
      <3>2. s \in States /\ s.tk = State.tk /\ s.sc = State.sc /\ s.th = x
        BY <2>6, <3>1, Zenon DEF States, Consistent
      <3> QED BY <2>6, <3>1, <3>2, Zenon DEF Sound, Consistent, Fresh
    <2> HIDE DEF s
    <2>8. Sound(released, n) /\ released.tk = openTasks
      BY <2>4, <2>7, ReleaseThreadSound, Zenon
    <2> HIDE DEF released
    <2>9. /\ Sound(done, n)
          /\ done.tk.due = openTasks.due
          /\ done.tk.waitingToSchedule = openTasks.waitingToSchedule
      BY <2>4, <2>8, FinishTaskSound, Zenon
    <2> HIDE DEF done
    <2>10. Sound(st, n) /\ DueAbove(st.tk, Age)
      <3>1. DueAbove(done.tk, Age)
        BY <2>9, Zenon DEF SoundInv, DueAbove
      <3> QED BY <2>4, <2>5, <2>9, <3>1, PrefetchSound, Zenon
    <2>11. /\ openTasks' = st.tk
           /\ openTasks' \in TaskTable
           /\ systemCores' \in CoreTable
           /\ threads' \in ThreadLayer
           /\ RunsInStep'
           /\ Fresh(threads, numThreads)'
           /\ Known(systemCores, numThreads)'
      BY <2>1, <2>3, <2>10, BecomeSound, Zenon
    <2> QED BY <2>1, <2>5, <2>10, <2>11, Zenon
            DEF SoundInv, TypeOK, ThreadsHaveApps, AllCreated, DueAbove
  \* A tick of the clock keeps the state sound; it makes unfetched tasks one older
  \* and the age allowed grows with it.
  <1>TickSound.
    ASSUME SoundInv, NEW w \in Threads \cup {None}, Tick(w)
    PROVE  SoundInv'
    <2> USE <1>TickSound
    <2> DEFINE f == [k \in Tasks |->
                       IF k \in openTasks.waitingToSchedule \/ openTasks.due[k] > 0
                       THEN openTasks.due[k] - 1 ELSE openTasks.due[k]]
    <2>1. /\ pc = "idle" /\ pc' = "migrate" /\ numThreads >= NumTasks
          /\ phase' = (phase + 1) % MappingEpoch
          /\ threads' = IF w = None THEN threads ELSE resumeThread(threads, w)
          /\ openTasks' = [openTasks EXCEPT !.due = f]
          /\ UNCHANGED <<systemCores, app, numThreads, nextCore, caller, fault>>
      BY Zenon DEF Tick
    <2>2. Keeps(threads, threads')
      BY <2>1, StateIsSound, ResumeThreadKeeps, KeepsReflexive, Zenon
    <2>3. threads' \in ThreadLayer /\ RunsInStep' /\ Fresh(threads, numThreads)'
      BY <2>1, <2>2, KeepsSound, Zenon
    <2>4. openTasks \in TaskTable
      BY Zenon DEF SoundInv, TypeOK
    <2>5. openTasks.due \in [Tasks -> Int] /\ openTasks.waitingToSchedule \subseteq Tasks
      BY <2>4, Zenon DEF TaskTable
    <2>6. /\ f \in [Tasks -> Int]
          /\ \A k \in openTasks.waitingToSchedule : f[k] = openTasks.due[k] - 1
      BY <2>5
    <2> HIDE DEF f
    <2>7. /\ openTasks' \in TaskTable
          /\ openTasks'.due = f
          /\ openTasks'.waitingToSchedule = openTasks.waitingToSchedule
      BY <2>1, <2>4, <2>6, Zenon DEF TaskTable
    <2>8. /\ phase' \in 0 .. MappingEpoch - 1
          /\ phase' = 0 => phase + 1 = MappingEpoch
          /\ phase' # 0 => phase' = phase + 1
      <3>1. MappingEpoch \in Nat \ {0} /\ phase \in Nat /\ phase < MappingEpoch
        BY Counters, Zenon DEF SoundInv
      <3>2. CASE phase + 1 = MappingEpoch
        BY <2>1, <3>1, <3>2
      <3>3. CASE phase + 1 < MappingEpoch
        BY <2>1, <3>1, <3>3
      <3> QED BY <3>1, <3>2, <3>3
    <2>9. Age = phase /\ Age' = phase + 1 /\ phase \in Nat
      BY <2>1, <2>8, Counters, Zenon DEF SoundInv, Age
    <2>10. DueAbove(openTasks, Age)'
      <3> SUFFICES ASSUME NEW k \in openTasks.waitingToSchedule
                   PROVE  openTasks'.due[k] >= -(phase + 1)
        BY <2>7, <2>9, Zenon DEF DueAbove
      <3>1. openTasks.due[k] \in Int /\ openTasks.due[k] >= -phase
        BY <2>5, <2>9, Zenon DEF SoundInv, DueAbove
      <3> QED BY <2>6, <2>7, <2>9, <3>1
    <2>11. TypeOK'
      BY <2>1, <2>3, <2>7, <2>8, Zenon DEF SoundInv, TypeOK
    <2>12. Known(systemCores, numThreads)' /\ ThreadsHaveApps' /\ AllCreated'
      BY <2>1, Zenon DEF SoundInv, Known, ThreadsHaveApps, AllCreated
    <2> QED BY <2>3, <2>10, <2>11, <2>12, Zenon DEF SoundInv
  \* Moving a core's task and thread to an unused core keeps the state sound.
  <1>MoveSound.
    ASSUME SoundInv, NEW a \in Cores, NEW b \in Cores, Move(a, b)
    PROVE  SoundInv'
    <2> USE <1>MoveSound
    <2> DEFINE t == systemCores.assignedThread[a]
               f == systemCores.assignedTask
               g == systemCores.assignedThread
               F == [f EXCEPT ![b] = f[a], ![a] = None]
               G == IF t = None THEN g ELSE [g EXCEPT ![b] = g[a], ![a] = None]
    <2>1. /\ Migration(a, b)
          /\ threads' = MigrateThread(threads, t, b)
          /\ systemCores' = [systemCores EXCEPT !.assignedTask = F, !.assignedThread = G]
      BY Zenon DEF Move
    <2>2. t \in Threads \cup {None} /\ \A u \in Threads : u >= numThreads => u # t
      BY ReservedCreated, Zenon
    <2>3. systemCores \in CoreTable
      BY Zenon DEF SoundInv, TypeOK
    <2>4. f \in [Cores -> Tasks \cup {None}] /\ g \in [Cores -> Threads \cup {None}]
      BY <2>3, Zenon DEF CoreTable
    <2>5. /\ F \in [Cores -> Tasks \cup {None}]
          /\ G \in [Cores -> Threads \cup {None}]
          /\ \A c \in Cores : G[c] \in {None, g[a], g[c]}
      BY <2>4, Zenon
    <2> HIDE DEF F, G
    <2>6. systemCores' \in CoreTable /\ systemCores'.assignedThread = G
      BY <2>1, <2>3, <2>5, Zenon DEF CoreTable
    <2>7. Known(systemCores', numThreads)
      BY <2>5, <2>6, Zenon DEF SoundInv, Known
    <2>8. /\ Consistent(threads')
          /\ \A u \in Threads \ {t} : Detached(threads, u) => Detached(threads', u)
      BY <2>1, <2>2, StateIsSound, MigrateThreadPins, Zenon
    <2>9. Fresh(threads', numThreads)
      BY <2>2, <2>8, Zenon DEF SoundInv, Fresh
    <2> QED BY <2>1, <2>6, <2>7, <2>8, <2>9, MigrationFrame, Zenon
  \* Swapping two cores keeps the state sound.
  <1>SwapSound.
    ASSUME SoundInv, NEW a \in Cores, NEW b \in Cores, Swap(a, b)
    PROVE  SoundInv'
    <2> USE <1>SwapSound
    <2> DEFINE f == systemCores.assignedTask
               g == systemCores.assignedThread
               F == [f EXCEPT ![a] = f[b], ![b] = f[a]]
               G == [g EXCEPT ![a] = g[b], ![b] = g[a]]
               x == MigrateThread(threads, g[a], b)
               y == MigrateThread(x, g[b], a)
    <2>1. /\ Migration(a, b)
          /\ threads' = y
          /\ systemCores' = [assignedTask |-> F, assignedThread |-> G]
      BY Zenon DEF Swap
    <2>2. /\ g[a] \in Threads \cup {None}
          /\ g[b] \in Threads \cup {None}
          /\ \A u \in Threads : u >= numThreads => u # g[a] /\ u # g[b]
      BY ReservedCreated, Zenon
    <2>3. f \in [Cores -> Tasks \cup {None}] /\ g \in [Cores -> Threads \cup {None}]
      BY Zenon DEF SoundInv, TypeOK, CoreTable
    <2>4. /\ F \in [Cores -> Tasks \cup {None}]
          /\ G \in [Cores -> Threads \cup {None}]
          /\ \A c \in Cores : G[c] \in {g[a], g[b], g[c]}
      BY <2>3, Zenon
    <2> HIDE DEF F, G
    <2>5. systemCores' \in CoreTable /\ systemCores'.assignedThread = G
      BY <2>1, <2>4, Zenon DEF CoreTable
    <2>6. Known(systemCores', numThreads)
      BY <2>4, <2>5, ZenonT(40) DEF SoundInv, Known
    <2>7. /\ Consistent(x)
          /\ \A u \in Threads \ {g[a]} : Detached(threads, u) => Detached(x, u)
      BY <2>2, StateIsSound, MigrateThreadPins, Zenon
    <2> HIDE DEF x
    <2>8. /\ Consistent(y)
          /\ \A u \in Threads \ {g[b]} : Detached(x, u) => Detached(y, u)
      BY <2>2, <2>7, MigrateThreadPins, Zenon
    <2> HIDE DEF y
    <2>9. Fresh(threads', numThreads)
      <3>1. Fresh(threads, numThreads)
        BY Zenon DEF SoundInv
      <3> QED BY <2>1, <2>2, <2>7, <2>8, <3>1, Zenon DEF Fresh
    <2> QED BY <2>1, <2>5, <2>6, <2>8, <2>9, MigrationFrame, Zenon
  \* Fetching at a mapping epoch leaves no task that has arrived behind.
  <1>EndMigrationSound.
    ASSUME SoundInv, EndMigration
    PROVE  SoundInv'
    <2> USE <1>EndMigrationSound
    <2>1. /\ pc = "migrate"
          /\ openTasks' = IF phase = 0 THEN fetchTasksIntoQueue(openTasks, 0)
                          ELSE openTasks
          /\ pc' = IF phase = 0 THEN "map" ELSE "cores"
          /\ UNCHANGED <<systemCores, threads, app, numThreads, phase, nextCore,
                         caller, fault>>
      BY Zenon DEF EndMigration
    <2>2. openTasks \in TaskTable
      BY Zenon DEF SoundInv, TypeOK
    <2>3. phase \in Nat
      BY Counters, Zenon DEF SoundInv
    <2>4. Age' = phase
      BY <2>1, Zenon DEF Age
    <2>5. openTasks' \in TaskTable /\ DueAbove(openTasks, Age)'
      <3>1. CASE phase # 0
        BY <2>1, <2>2, <2>4, <3>1, Zenon DEF SoundInv, DueAbove, Age
      <3>2. CASE phase = 0
        <4> DEFINE r == fetchTasksIntoQueue(openTasks, 0)
                   ks == {k \in openTasks.waitingToSchedule : openTasks.due[k] <= 0}
        <4>1. /\ r \in TaskTable
              /\ r.waitingToSchedule = openTasks.waitingToSchedule \ ks
              /\ r.due = openTasks.due
          BY <2>2, FetchTasks
        <4>2. openTasks' = r
          BY <2>1, <3>2, Zenon
        <4> HIDE DEF r
        <4>3. \A k \in r.waitingToSchedule : r.due[k] >= 0
          BY <2>2, <4>1 DEF TaskTable
        <4> QED BY <2>4, <3>2, <4>1, <4>2, <4>3, SMTT(30) DEF DueAbove
      <3> QED BY <3>1, <3>2, Zenon
    <2>6. TypeOK'
      BY <2>1, <2>5, Zenon DEF SoundInv, TypeOK
    <2> QED BY <2>1, <2>5, <2>6, Zenon
            DEF SoundInv, RunsInStep, Fresh, Known, Detached, ThreadsHaveApps,
                AllCreated
  \* Mapping the front of the queue keeps the state sound.
  <1>MapStepSound.
    ASSUME SoundInv, MapStep
    PROVE  SoundInv'
    <2> USE <1>MapStepSound
    <2> DEFINE n == numThreads
               k == taskFrontOfQueue(openTasks)
    <2>1. /\ pc = "map" /\ pc' \in {"map", "cores"}
          /\ UNCHANGED <<app, numThreads, phase, nextCore, caller, fault>>
      BY Zenon DEF MapStep
    <2>2. openTasks \in TaskTable /\ n \in Nat
      BY Counters, Zenon DEF SoundInv, TypeOK
    <2>3. Age' = Age /\ Age = phase /\ phase \in Nat
      BY <2>1, Counters, Zenon DEF Age, SoundInv
    <2>4. /\ openTasks' \in TaskTable
          /\ systemCores' \in CoreTable
          /\ threads' \in ThreadLayer
          /\ RunsInStep'
          /\ Fresh(threads, numThreads)'
          /\ Known(systemCores, numThreads)'
          /\ DueAbove(openTasks, Age)'
      <3>1. CASE openTasks.waitingInQueue = {}
        <4>1. UNCHANGED taskVars
          BY <3>1, Zenon DEF MapStep
        <4> QED BY <2>1, <2>3, <4>1, Zenon
                DEF taskVars, SoundInv, TypeOK, RunsInStep, Fresh, Known,
                    Detached, DueAbove
      <3>2. CASE openTasks.waitingInQueue # {}
        <4>1. PICK r \in schedule(State, k, FALSE, 0) : Become(r.st)
          BY <3>2, Zenon DEF MapStep
        <4>2. k \in Tasks
          BY <2>2, <3>2, FrontOfQueue, Zenon DEF TaskTable
        <4>3. k < n
          BY <2>1, <2>2, <4>2, NumTasksIsNat DEF SoundInv, AllCreated, Tasks
        <4>4. Sound(State, n) /\ State.tk = openTasks
          BY StateIsSound, Zenon
        <4> HIDE DEF k
        <4>5. /\ Sound(r.st, n)
              /\ r.st.tk.due = State.tk.due
              /\ r.st.tk.waitingToSchedule \subseteq State.tk.waitingToSchedule
          BY <2>2, <4>2, <4>3, <4>4, ScheduleSound, ZenonT(40)
        <4>6. /\ openTasks' = r.st.tk
              /\ openTasks' \in TaskTable
              /\ systemCores' \in CoreTable
              /\ threads' \in ThreadLayer
              /\ RunsInStep'
              /\ Fresh(threads, numThreads)'
              /\ Known(systemCores, numThreads)'
          <5>1. Sound(r.st, numThreads')
            BY <2>1, <4>5, Zenon
          <5> QED BY <4>1, <5>1, BecomeSound, Zenon
        <4>7. DueAbove(openTasks, Age)'
          BY <2>3, <4>4, <4>5, <4>6, Zenon DEF SoundInv, DueAbove
        <4> QED BY <4>6, <4>7, Zenon
      <3> QED BY <3>1, <3>2, Zenon
    <2>5. TypeOK'
      BY <2>1, <2>4, Zenon DEF SoundInv, TypeOK
    <2>6. ThreadsHaveApps' /\ AllCreated'
      BY <2>1, Zenon DEF SoundInv, ThreadsHaveApps, AllCreated
    <2> QED BY <2>4, <2>5, <2>6, Zenon DEF SoundInv
  \* The loop over the cores and its end keep the state sound.
  <1>CoreLoopSound.
    ASSUME SoundInv, CoreStep \/ PeriodicEnd
    PROVE  SoundInv'
    <2> USE <1>CoreLoopSound
    <2>1. CASE CoreStep
      <3>1. /\ nextCore' \in 0 .. NumCores
            /\ UNCHANGED <<openTasks, systemCores, app, numThreads, phase, pc, caller,
                           fault>>
        BY <2>1, Counters DEF CoreStep, SoundInv
      <3>2. threads' \in ThreadLayer /\ RunsInStep' /\ Fresh(threads, numThreads)'
        BY <2>1, <3>1, CoreStepKeeps, KeepsSound, Zenon
      <3> QED BY <3>1, <3>2, Zenon
              DEF SoundInv, TypeOK, Known, ThreadsHaveApps, AllCreated, DueAbove, Age
    <2>2. CASE PeriodicEnd
      <3>1. /\ pc = "cores" /\ pc' = "idle" /\ nextCore' = 0
            /\ fault' \in {"deadlocked", fault}
            /\ UNCHANGED <<taskVars, app, numThreads, phase, caller>>
        BY <2>2, Zenon DEF PeriodicEnd
      <3>2. nextCore' \in 0 .. NumCores
        BY <3>1, Counters DEF SoundInv
      <3> QED BY <3>1, <3>2, Zenon
              DEF SoundInv, TypeOK, taskVars, RunsInStep, Fresh, Known, Detached,
                  ThreadsHaveApps, AllCreated, DueAbove, Age
    <2> QED BY <2>1, <2>2, Zenon
  <1> SUFFICES ASSUME SoundInv, [Next]_vars PROVE SoundInv'
    BY Zenon
  <1>1. CASE CreateFirst
    BY <1>1, <1>CreateFirstSound, Zenon
  <1>2. ASSUME NEW t \in Threads, Spawn(t) PROVE SoundInv'
    BY <1>2, <1>SpawnSound, Zenon
  <1>3. ASSUME NEW t \in Threads, ThreadExit(t) PROVE SoundInv'
    BY <1>3, <1>ThreadExitSound, Zenon
  <1>4. ASSUME NEW t \in Threads,
               \/ ThreadStart(t) \/ Sleep(t) \/ StallUnscheduled(t)
               \/ BlockingSyscall(t) \/ SyscallReturns(t) \/ Yield(t)
               \/ \E u \in Threads : Join(t, u)
        PROVE  SoundInv'
    <2>1. Keeps(threads, threads')
      BY <1>4, ThreadActionsKeep, Zenon
    <2>2. ThreadStepFrame
      BY <1>4, ThreadActionsFrame, Zenon
    <2> QED BY <2>1, <2>2, ThreadStepSound, Zenon DEF ThreadStepFrame
  <1>5. CASE CallerReturns
    BY <1>5, CallerReturnsKeeps, ThreadStepSound, Zenon DEF ThreadStepFrame
  <1>6. ASSUME NEW w \in Threads \cup {None}, Tick(w) PROVE SoundInv'
    BY <1>6, <1>TickSound, Zenon
  <1>7. ASSUME NEW a \in Cores, NEW b \in Cores, Move(a, b) PROVE SoundInv'
    BY <1>7, <1>MoveSound, Zenon
  <1>8. ASSUME NEW a \in Cores, NEW b \in Cores, Swap(a, b) PROVE SoundInv'
    BY <1>8, <1>SwapSound, Zenon
  <1>9. CASE EndMigration
    BY <1>9, <1>EndMigrationSound, Zenon
  <1>10. CASE MapStep
    BY <1>10, <1>MapStepSound, Zenon
  <1>11. CASE CoreStep \/ PeriodicEnd
    BY <1>11, <1>CoreLoopSound, Zenon
  <1>12. CASE UNCHANGED vars
    BY <1>12, Zenon DEF vars, SoundInv, TypeOK, RunsInStep, Fresh, Known, Detached,
                 ThreadsHaveApps, AllCreated, DueAbove, Age
  <1>13. CASE Stopped
    BY <1>12, <1>13, Zenon DEF Stopped
  <1> QED BY <1>1, <1>2, <1>3, <1>4, <1>5, <1>6, <1>7, <1>8, <1>9, <1>10, <1>11,
             <1>12, <1>13, Zenon DEF Next, Periodic

\* The invariant holds in every reachable state.
LEMMA SpecSound == Spec => []SoundInv
  BY InitSound, NextSound, PTL DEF Spec

\* Every variable always has its type, for any number of cores, tasks, threads
\* and any arrival times: in particular the front of the queue and the next
\* arrival exist whenever the scheduler asks for them.
THEOREM TypeCorrect == Spec => []TypeOK
  <1>1. SoundInv => TypeOK
    BY Zenon DEF SoundInv
  <1> QED BY <1>1, SpecSound, PTL

\* A core's thread and a thread's core agree in every reachable state: no
\* sequence of wake-ups, exits, migrations and yields puts two threads on a
\* core or one thread on two.
THEOREM RunningInverseAlways == Spec => []RunningInverse
  <1>1. SoundInv => RunningInverse
    BY Zenon DEF SoundInv, RunsInStep, InStep, Agree, RunningInverse
  <1> QED BY <1>1, SpecSound, PTL

\* No task waits to be fetched for longer than a mapping epoch after it arrived.
THEOREM ArrivalsFetchedAlways == Spec => []ArrivalsFetched
  <1>1. SoundInv => ArrivalsFetched
    <2> SUFFICES ASSUME SoundInv, NEW k \in openTasks.waitingToSchedule
                 PROVE  openTasks.due[k] >= -MappingEpoch
      BY Zenon DEF ArrivalsFetched
    <2>1. openTasks.due[k] \in Int
      BY Zenon DEF SoundInv, TypeOK, TaskTable
    <2>2. openTasks.due[k] >= -Age
      BY Zenon DEF SoundInv, DueAbove
    <2>3. Age \in Nat /\ MappingEpoch \in Nat /\ Age <= MappingEpoch
      BY Counters, SMTT(30) DEF SoundInv, Age
    <2> QED BY <2>1, <2>2, <2>3
  <1> QED BY <1>1, SpecSound, PTL

-----------------------------------------------------------------------------
(* What rescheduling does to status and stall reasons                      *)

\* What rescheduling does to the threads between x and y: it moves them, and
\* resumes those that only waited for a core.
Moves(x, y) ==
  /\ y.reason = x.reason
  /\ y.waiter = x.waiter
  /\ \A t \in Threads :
       \/ /\ y.status[t] = x.status[t]
          /\ t \in y.parked <=> t \in x.parked
          /\ t \in y.runnable <=> t \in x.runnable
          /\ x.status[t] = "STALLED" /\ x.reason[t] = "UNSCHEDULED" =>
               y.coreRunning[t] \in {x.coreRunning[t], None}
       \/ /\ x.status[t] = "STALLED" /\ x.reason[t] = "UNSCHEDULED"
          /\ y.status[t] = "RUNNING"
          /\ t \notin y.parked
          /\ t \in y.runnable

\* An operation that returns early moves nobody.
LEMMA MovesReflexive == \A x : Moves(x, x)
  BY Zenon DEF Moves

\* Several moves are a move.
LEMMA MovesTransitive ==
  ASSUME NEW x, NEW y, NEW z, Moves(x, y), Moves(y, z)
  PROVE  Moves(x, z)
  BY DEF Moves

\* Masks, quanta and the threads of cores do not matter.
LEMMA SameThreadsMoves ==
  ASSUME NEW x, NEW y,
         y.status = x.status, y.reason = x.reason, y.waiter = x.waiter,
         y.parked = x.parked, y.runnable = x.runnable, y.coreRunning = x.coreRunning
  PROVE  Moves(x, y)
  BY Zenon DEF Moves

\* A thread is taken off its core.
LEMMA MoveOffMoves ==
  ASSUME NEW x \in ThreadLayer, NEW t \in Threads \cup {None}
  PROVE  /\ MoveOff(x, t) \in ThreadLayer
         /\ Moves(x, MoveOff(x, t))
  <1>1. CASE t = None
    BY <1>1, MovesReflexive, Zenon DEF MoveOff
  <1>2. CASE t # None
    <2> DEFINE y == [x EXCEPT !.coreRunning[t] = None]
    <2>1. /\ y.status = x.status /\ y.reason = x.reason /\ y.waiter = x.waiter
          /\ y.parked = x.parked /\ y.runnable = x.runnable
          /\ y.coreRunning = [x.coreRunning EXCEPT ![t] = None]
          /\ y \in ThreadLayer
      BY <1>2, Zenon DEF ThreadLayer
    <2>2. MoveOff(x, t) = y
      BY <1>2, Zenon DEF MoveOff
    <2>3. x.coreRunning \in [Threads -> Cores \cup {None}]
      BY Zenon DEF ThreadLayer
    <2> HIDE DEF y
    <2>4. Moves(x, y)
      BY <2>1, <2>3, Zenon DEF Moves
    <2> QED BY <2>1, <2>2, <2>4, Zenon
  <1> QED BY <1>1, <1>2, Zenon

\* A thread is put on a core, and resumed if it waited for one.
LEMMA MoveOnMoves ==
  ASSUME NEW x \in ThreadLayer, NEW t \in Threads \cup {None}, NEW c \in Cores
  PROVE  Moves(x, MoveOn(x, t, c))
  <1> DEFINE y == [x EXCEPT !.threadRunning[c] = t]
             z == [y EXCEPT !.coreRunning[t] = c]
  <1>1. /\ y \in ThreadLayer
        /\ y.status = x.status /\ y.reason = x.reason /\ y.waiter = x.waiter
        /\ y.parked = x.parked /\ y.runnable = x.runnable /\ y.coreRunning = x.coreRunning
    BY Zenon DEF ThreadLayer
  <1>2. MoveOn(x, t, c) = IF t = None THEN y
          ELSE IF x.status[t] = "STALLED" /\ x.reason[t] = "UNSCHEDULED"
          THEN Wake(z, t) ELSE z
    BY Zenon DEF MoveOn
  <1> HIDE DEF y
  <1>3. CASE t = None
    BY <1>1, <1>2, <1>3, SameThreadsMoves, Zenon
  <1>4. CASE t # None
    <2>1. /\ z \in ThreadLayer
          /\ z.status = x.status /\ z.reason = x.reason /\ z.waiter = x.waiter
          /\ z.parked = x.parked /\ z.runnable = x.runnable
          /\ z.coreRunning = [x.coreRunning EXCEPT ![t] = c]
      BY <1>1, <1>4, Zenon DEF ThreadLayer
    <2> HIDE DEF z
    <2>2. /\ Wake(z, t).status = [x.status EXCEPT ![t] = "RUNNING"]
          /\ Wake(z, t).reason = x.reason /\ Wake(z, t).waiter = x.waiter
          /\ Wake(z, t).parked = x.parked \ {t}
          /\ Wake(z, t).runnable = x.runnable \cup {t}
          /\ Wake(z, t).coreRunning = z.coreRunning
      BY <2>1, Zenon DEF Wake, ThreadLayer
    <2>3. x.coreRunning \in [Threads -> Cores \cup {None}] /\ x.status \in [Threads -> Status]
      BY Zenon DEF ThreadLayer
    <2> DEFINE v == Wake(z, t)
    <2> HIDE DEF v
    <2>4. CASE x.status[t] = "STALLED" /\ x.reason[t] = "UNSCHEDULED"
      <3>1. MoveOn(x, t, c) = v
        BY <1>2, <1>4, <2>4, Zenon DEF v
      <3>2. Moves(x, v)
        BY <2>1, <2>2, <2>3, <2>4 DEF Moves, v
      <3> QED BY <3>1, <3>2, Zenon
    <2>5. CASE ~ (x.status[t] = "STALLED" /\ x.reason[t] = "UNSCHEDULED")
      <3>1. MoveOn(x, t, c) = z
        BY <1>2, <1>4, <2>5, Zenon
      <3>2. Moves(x, z)
        BY <2>1, <2>3, <2>5, Zenon DEF Moves
      <3> QED BY <3>1, <3>2, Zenon
    <2> QED BY <2>4, <2>5, Zenon
  <1> QED BY <1>3, <1>4, Zenon

\* reschedule() moves threads and does nothing else to them.
LEMMA RescheduleMoves ==
  ASSUME NEW x, Consistent(x), NEW c \in Cores
  PROVE  Moves(x, reschedule(x, c))
  <1> DEFINE cur == x.threadRunning[c]
             new == PickThread(x, c)
             off == MoveOff(x, cur)
             y == IF cur = new THEN x ELSE MoveOn(off, new, c)
  <1>1. x \in ThreadLayer /\ cur \in Threads \cup {None}
    BY Zenon DEF Consistent, ThreadLayer
  <1>2. new \in Threads \cup {None}
    BY <1>1, PickThreadPicks, Zenon
  <1>3. reschedule(x, c) = IF cur # None /\ x.status[cur] = "INITIALIZING" THEN x
                           ELSE [y EXCEPT !.expired = @ \ {c}]
    BY Zenon DEF reschedule
  <1>4. off \in ThreadLayer /\ Moves(x, off)
    BY <1>1, MoveOffMoves, Zenon
  <1> HIDE DEF cur, new, off
  <1>5. Moves(off, MoveOn(off, new, c)) /\ MoveOn(off, new, c) \in ThreadLayer
    <2>1. Moves(off, MoveOn(off, new, c))
      BY <1>2, <1>4, MoveOnMoves, Zenon
    <2>2. MoveOn(off, new, c) \in ThreadLayer
      BY <1>2, <1>4, Zenon DEF MoveOn, Wake, ThreadLayer, Status
    <2> QED BY <2>1, <2>2, Zenon
  <1>6. y \in ThreadLayer /\ Moves(x, y)
    BY <1>1, <1>4, <1>5, MovesReflexive, MovesTransitive, Zenon
  <1> HIDE DEF y
  <1>7. Moves(y, [y EXCEPT !.expired = @ \ {c}])
    BY <1>6, SameThreadsMoves DEF ThreadLayer
  <1> QED BY <1>3, <1>6, <1>7, MovesReflexive, MovesTransitive, Zenon

\* Nor does rescheduling the free core that was found for a thread,
LEMMA RescheduleFreeCoreMoves ==
  ASSUME NEW x, Consistent(x), NEW t \in Threads
  PROVE  Moves(x, RescheduleFreeCore(x, t))
  <1>1. x.affinity[t] \in Cores \cup {None}
    BY Zenon DEF Consistent, ThreadLayer
  <1> QED BY <1>1, MovesReflexive, RescheduleMoves, Zenon DEF RescheduleFreeCore

\* pinning a thread,
LEMMA ThreadSetAffinityMoves ==
  ASSUME NEW x, Consistent(x), NEW t \in Threads, NEW c \in Cores \cup {None}
  PROVE  Moves(x, threadSetAffinity(x, t, c))
  <1> DEFINE y == [x EXCEPT !.affinity[t] = c]
             cur == x.coreRunning[t]
             e == [y EXCEPT !.expired = @ \cup {cur}]
  <1>1. /\ x \in ThreadLayer /\ cur \in Cores \cup {None}
        /\ y \in ThreadLayer
        /\ y.status = x.status /\ y.reason = x.reason /\ y.waiter = x.waiter
        /\ y.parked = x.parked /\ y.runnable = x.runnable
        /\ y.coreRunning = x.coreRunning /\ y.threadRunning = x.threadRunning
        /\ y.affinity[t] = c /\ y.expired = x.expired
    BY Zenon DEF Consistent, ThreadLayer
  <1>2. threadSetAffinity(x, t, c) =
          CASE cur # None /\ cur # c -> e
            [] cur = None /\ t \in x.runnable -> RescheduleFreeCore(y, t)
            [] OTHER -> y
    BY Zenon DEF threadSetAffinity
  <1> HIDE DEF y
  <1>3. Moves(x, y)
    BY <1>1, SameThreadsMoves, Zenon
  <1>4. Moves(y, e)
    BY <1>1, SameThreadsMoves DEF ThreadLayer
  <1>5. CASE cur # None /\ cur # c
    <2>1. threadSetAffinity(x, t, c) = e
      BY <1>2, <1>5, Zenon
    <2> HIDE DEF e
    <2> QED BY <1>3, <1>4, <2>1, MovesTransitive, Zenon
  <1>6. CASE cur = None
    <2>1. InStep(y)
      BY <1>1, <1>6, NoneIsNone DEF Consistent, InStep, Agree, OnPins, y, ThreadLayer
    <2>2. Moves(y, RescheduleFreeCore(y, t))
      BY <1>1, <2>1, RescheduleFreeCoreMoves, Zenon DEF Consistent
    <2>3. threadSetAffinity(x, t, c) \in {RescheduleFreeCore(y, t), y}
      BY <1>2, <1>6, Zenon
    <2> QED BY <1>3, <2>2, <2>3, MovesTransitive, Zenon
  <1>7. CASE cur # None /\ cur = c
    BY <1>2, <1>3, <1>7, Zenon
  <1> QED BY <1>5, <1>6, <1>7, Zenon

\* and yielding.
LEMMA ThreadYieldMoves ==
  ASSUME NEW x, Consistent(x), NEW t \in Threads
  PROVE  Moves(x, threadYield(x, t))
  <1> DEFINE c == x.coreRunning[t]
             e == [x EXCEPT !.expired = @ \cup {c}]
             y == reschedule(e, c)
  <1>1. x \in ThreadLayer /\ c \in Cores \cup {None}
    BY Zenon DEF Consistent, ThreadLayer
  <1>2. threadYield(x, t) = CASE c = None -> x
                              [] c # None /\ x.affinity[t] # c -> RescheduleFreeCore(y, t)
                              [] OTHER -> y
    BY Zenon DEF threadYield
  <1>3. CASE c = None
    BY <1>2, <1>3, MovesReflexive, Zenon
  <1>4. CASE c # None
    <2> DEFINE cs == x.expired \cup {c}
    <2>1. cs \in SUBSET Cores /\ e = [x EXCEPT !.expired = cs]
      BY <1>1, <1>4, Zenon DEF ThreadLayer
    <2>2. Consistent(e)
      <3>1. \A d \in x.expired \ cs : x.threadRunning[d] # None => x.affinity[x.threadRunning[d]] = d
        BY Zenon
      <3> HIDE DEF cs
      <3> QED BY <2>1, <3>1, ExpiredKeeps, Zenon DEF Keeps
    <2>3. Moves(x, e)
      BY <1>1, SameThreadsMoves DEF ThreadLayer
    <2> HIDE DEF e
    <2>4. Moves(e, y) /\ Consistent(y)
      BY <1>1, <1>4, <2>2, RescheduleMoves, RescheduleKeeps, Zenon DEF Keeps
    <2> HIDE DEF y
    <2>5. Moves(y, RescheduleFreeCore(y, t))
      BY <2>4, RescheduleFreeCoreMoves, Zenon
    <2>6. threadYield(x, t) \in {RescheduleFreeCore(y, t), y}
      BY <1>2, <1>4, Zenon
    <2> QED BY <2>3, <2>4, <2>5, <2>6, MovesTransitive
  <1> QED BY <1>3, <1>4, Zenon

\* Pinning a thread to a core of its task takes threads off cores and puts them
\* on cores, and does nothing else to status and stall reasons.
LEMMA SetAffinityMoves ==
  ASSUME NEW st \in States, InStep(st.th), NEW t \in Threads, NEW k \in Tasks
  PROVE  Moves(st.th, setAffinity(st, t, k).th)
  <1> DEFINE c == FirstOwnFreeCore(st.sc, k)
             a == threadSetAffinity(st.th, t, c)
  <1>1. st.sc \in CoreTable /\ Consistent(st.th)
    BY Zenon DEF States, Consistent
  <1>2. c \in Cores \cup {None}
    BY <1>1, FirstOwnFreeCoreIsFree, Zenon
  <1>3. setAffinity(st, t, k).th = a
    BY Zenon DEF setAffinity
  <1>4. Moves(st.th, a)
    BY <1>1, <1>2, ThreadSetAffinityMoves, Zenon
  <1> QED BY <1>3, <1>4, Zenon

\* A new thread is initialising; threads are moved besides.
LEMMA PlaceNewThreadMoves ==
  ASSUME NEW st \in States, InStep(st.th), NEW t \in Threads, NEW k \in Tasks
  PROVE  Moves([st.th EXCEPT !.status[t] = "INITIALIZING"], PlaceNewThread(st, t, k).th)
  <1> DEFINE j == [st.th EXCEPT !.status[t] = "INITIALIZING"]
             i == [st EXCEPT !.th.status[t] = "INITIALIZING"]
             p == setAffinity(i, t, k)
             d == p.th.affinity[t]
             y == [p.th EXCEPT !.coreRunning[t] = d, !.threadRunning[d] = t,
                               !.expired = @ \ {d}]
             q == [p EXCEPT !.th.coreRunning[t] = d, !.th.threadRunning[d] = t,
                            !.th.expired = @ \ {d}]
             r == PlaceNewThread(st, t, k)
  <1>1. /\ j \in ThreadLayer
        /\ j.affinity = st.th.affinity
        /\ j.coreRunning = st.th.coreRunning
        /\ j.threadRunning = st.th.threadRunning
        /\ j.expired = st.th.expired
        /\ j.status[t] = "INITIALIZING"
    BY Zenon DEF States, ThreadLayer, Status
  <1>2. i \in States /\ i.th = j
    BY <1>1, Zenon DEF States
  <1>3. r = IF d # None /\ p.th.threadRunning[d] = None THEN q ELSE p
    BY Zenon DEF PlaceNewThread
  <1>4. InStep(j)
    BY <1>1 DEF InStep, Agree, OnPins
  <1> HIDE DEF i, j
  <1>5. Moves(j, p.th) /\ p \in States
    BY <1>2, <1>4, SetAffinityMoves, SetAffinityPins, Zenon DEF Pins
  <1> HIDE DEF p
  <1>6. p.th \in ThreadLayer /\ p.th.status[t] = "INITIALIZING" /\ d \in Cores \cup {None}
    BY <1>1, <1>5 DEF States, Moves, ThreadLayer
  <1>7. CASE ~(d # None /\ p.th.threadRunning[d] = None)
    BY <1>3, <1>5, <1>7, Zenon DEF j
  <1>8. CASE d # None /\ p.th.threadRunning[d] = None
    <2>1. /\ y.status = p.th.status /\ y.reason = p.th.reason /\ y.waiter = p.th.waiter
          /\ y.parked = p.th.parked /\ y.runnable = p.th.runnable
          /\ y.coreRunning = [p.th.coreRunning EXCEPT ![t] = d]
      BY <1>6, <1>8, Zenon DEF ThreadLayer
    <2>2. q.th = y
      BY <1>5, <1>6, Zenon DEF States, ThreadLayer
    <2>3. p.th.coreRunning \in [Threads -> Cores \cup {None}]
      BY <1>6, Zenon DEF ThreadLayer
    <2> HIDE DEF y, q, d
    <2>4. Moves(p.th, y)
      BY <1>6, <2>1, <2>3, Zenon DEF Moves
    <2> QED BY <1>3, <1>5, <1>8, <2>2, <2>4, MovesTransitive, Zenon DEF j
  <1> QED BY <1>7, <1>8, Zenon

-----------------------------------------------------------------------------
(* Who wakes a thread that has stalled.                                    *)

\* What is known of a thread t by its status, when cl is inside stallThread() and
\* n threads have been created.
ThreadWaits(x, t, cl, n) ==
  /\ x.status[t] = "RUNNING" => t \in x.runnable
  /\ x.status[t] = "STALLED" /\ x.reason[t] = "UNSCHEDULED" =>
       t \in x.runnable /\ x.coreRunning[t] = None
  /\ x.status[t] = "STALLED" /\ x.reason[t] = "JOIN" => \E u \in Threads : x.waiter[u] = t
  /\ x.status[t] = "STALLED" /\ x.reason[t] \in {"JOIN", "SLEEP"} => t \in x.parked \/ t = cl
  /\ t \in x.parked => x.status[t] = "STALLED" /\ x.reason[t] # "SYSCALL"
  /\ t = cl => \/ x.status[t] = "RUNNING"
               \/ x.status[t] = "STALLED" /\ x.reason[t] # "SYSCALL"
  /\ x.waiter[t] # None =>
       /\ x.status[t] \notin {"IDLE", "INITIALIZING"}
       /\ x.waiter[t] # t
       /\ x.waiter[t] < n
  /\ t >= n => x.status[t] = "IDLE"

Waits(x, cl, n) == \A t \in Threads : ThreadWaits(x, t, cl, n)

\* Moving threads leaves nobody without a wake-up.
LEMMA MovesWaits ==
  ASSUME NEW x, NEW y, NEW cl, NEW n, Moves(x, y), Waits(x, cl, n)
  PROVE  Waits(y, cl, n)
  <1> SUFFICES ASSUME NEW t \in Threads PROVE ThreadWaits(y, t, cl, n)
    BY Zenon DEF Waits
  <1>1. ThreadWaits(x, t, cl, n)
    BY Zenon DEF Waits
  <1>2. y.reason = x.reason /\ y.waiter = x.waiter
    BY Zenon DEF Moves
  <1>3. CASE /\ y.status[t] = x.status[t]
             /\ t \in y.parked <=> t \in x.parked
             /\ t \in y.runnable <=> t \in x.runnable
             /\ x.status[t] = "STALLED" /\ x.reason[t] = "UNSCHEDULED" =>
                  y.coreRunning[t] \in {x.coreRunning[t], None}
    BY <1>1, <1>2, <1>3, ZenonT(40) DEF ThreadWaits
  <1>4. CASE /\ x.status[t] = "STALLED" /\ x.reason[t] = "UNSCHEDULED"
             /\ y.status[t] = "RUNNING"
             /\ t \notin y.parked
             /\ t \in y.runnable
    BY <1>1, <1>2, <1>4, Zenon DEF ThreadWaits
  <1> QED BY <1>3, <1>4, Zenon DEF Moves

WaitsInv == Waits(threads, caller, numThreads)

\* schedule() only moves threads,
LEMMA ScheduleMoves ==
  ASSUME NEW st \in States, InStep(st.th), NEW k \in Tasks,
         NEW init \in BOOLEAN, NEW skew, NEW r \in schedule(st, k, init, skew)
  PROVE  Moves(st.th, r.st.th)
  <1>1. \/ r.st = st
        \/ r.st = [st EXCEPT !.tk = Enqueue(@, {k})]
        \/ \E cs \in SUBSET FreeCores(st.sc) : Maps(st, r.st, k, init, cs)
    BY ScheduleOutcomes, ZenonT(40)
  <1>2. CASE r.st = st
    BY <1>2, MovesReflexive, Zenon
  <1>3. CASE r.st = [st EXCEPT !.tk = Enqueue(@, {k})]
    <2>1. r.st.th = st.th
      BY <1>3, Zenon DEF States
    <2> QED BY <2>1, MovesReflexive, Zenon
  <1>4. ASSUME NEW cs \in SUBSET FreeCores(st.sc), Maps(st, r.st, k, init, cs)
        PROVE  Moves(st.th, r.st.th)
    <2>1. PICK m, a \in States :
            /\ m.th = st.th /\ r.st.th = a.th
            /\ IF init THEN a = m ELSE a = setAffinity(m, k, k)
      BY <1>4, Zenon DEF Maps
    <2>2. CASE init
      BY <2>1, <2>2, MovesReflexive, Zenon
    <2>3. CASE ~init
      <3>1. InStep(m.th) /\ k \in Threads
        BY <2>1, TasksAreThreads, Zenon
      <3>2. Moves(m.th, setAffinity(m, k, k).th)
        BY <3>1, SetAffinityMoves, Zenon
      <3> QED BY <2>1, <2>3, <3>2, Zenon
    <2> QED BY <2>2, <2>3, Zenon
  <1> QED BY <1>1, <1>2, <1>3, <1>4, Zenon

\* and so do taking the core of a thread back
LEMMA ReleaseThreadMoves ==
  ASSUME NEW st \in States, InStep(st.th), NEW t \in Threads
  PROVE  Moves(st.th, ReleaseThread(st, t).th)
  <1> DEFINE held == {c \in Cores : st.sc.assignedThread[c] = t}
  <1>1. ReleaseThread(st, t).th = IF held = {} THEN st.th ELSE threadSetAffinity(st.th, t, None)
    BY Zenon DEF ReleaseThread
  <1>2. Consistent(st.th)
    BY Zenon DEF Consistent, States
  <1> QED BY <1>1, <1>2, MovesReflexive, ThreadSetAffinityMoves, Zenon

\* and prefetching.
LEMMA PrefetchMoves ==
  ASSUME NEW st \in States, InStep(st.th), NEW b \in Nat, DueAbove(st.tk, b),
         NEW skew \in Nat, NEW r \in Prefetch(st, skew)
  PROVE  Moves(st.th, r.th)
  <1> DEFINE from == PrefetchFrom(st, skew)
             k == taskFrontOfQueue(from.tk)
             go == FreeCores(st.sc) = Cores /\ st.tk.waitingToSchedule # {}
  <1>1. CASE ~go
    BY <1>1, MovesReflexive, Zenon DEF Prefetch
  <1>2. CASE go
    <2>1. PICK q \in schedule(from, k, FALSE, skew) : r = q.st
      BY <1>2, Zenon DEF Prefetch, PrefetchFrom
    <2>2. from \in States /\ from.th = st.th /\ from.tk.waitingInQueue # {}
      <3>1. Fetched(st, from, b)
        BY <1>2, PrefetchFromQueue, Zenon
      <3> QED BY <3>1, Zenon DEF Fetched
    <2> HIDE DEF from
    <2>3. k \in Tasks
      BY <2>2, FrontOfQueue, Zenon DEF States, TaskTable
    <2> HIDE DEF k
    <2> QED BY <2>1, <2>2, <2>3, ScheduleMoves, Zenon
  <1> QED BY <1>1, <1>2, Zenon

\* A thread that is resumed is runnable and signalled.
LEMMA WakeWaits ==
  ASSUME NEW x \in ThreadLayer, NEW cl, NEW n, NEW t \in Threads, Waits(x, cl, n), ~ (t >= n)
  PROVE  Waits(Wake(x, t), cl, n)
  <1> DEFINE y == Wake(x, t)
  <1>1. /\ y.status = [x.status EXCEPT ![t] = "RUNNING"]
        /\ y.reason = x.reason /\ y.waiter = x.waiter
        /\ y.parked = x.parked \ {t} /\ y.runnable = x.runnable \cup {t}
        /\ y.coreRunning = x.coreRunning
    BY Zenon DEF Wake, ThreadLayer
  <1>2. x.status \in [Threads -> Status]
    BY Zenon DEF ThreadLayer
  <1> HIDE DEF y
  <1>3. ASSUME NEW s \in Threads PROVE ThreadWaits(y, s, cl, n)
    <2>1. ThreadWaits(x, s, cl, n)
      BY Zenon DEF Waits
    <2>2. CASE s = t
      BY <1>1, <1>2, <2>1, <2>2, ZenonT(40) DEF ThreadWaits
    <2>3. CASE s # t
      BY <1>1, <1>2, <2>1, <2>3, Zenon DEF ThreadWaits
    <2> QED BY <2>2, <2>3, Zenon
  <1> QED BY <1>3, Zenon DEF Waits, y

\* Waking a sleeper or a waiter and placing it.
LEMMA ResumeThreadWaits ==
  ASSUME NEW x, Consistent(x), NEW cl, NEW n, NEW t \in Threads, Waits(x, cl, n), ~ (t >= n)
  PROVE  Waits(resumeThread(x, t), cl, n)
  <1>1. Waits(Wake(x, t), cl, n) /\ Consistent(Wake(x, t))
    BY WakeWaits, WakeKeeps, Zenon DEF Keeps, Consistent
  <1> QED BY <1>1, RescheduleFreeCoreMoves, MovesWaits, Zenon DEF resumeThread

\* A thread that starts runs, or waits for a core.
LEMMA OnThreadStartWaits ==
  ASSUME NEW x, Consistent(x), NEW n, NEW t \in Threads, Waits(x, None, n),
         x.status[t] = "INITIALIZING"
  PROVE  Waits(onThreadStart(x, t), None, n)
  <1> DEFINE r == [x EXCEPT !.status[t] = "RUNNING", !.runnable = @ \cup {t}]
             y == RescheduleFreeCore(r, t)
             s == [y EXCEPT !.status[t] = "STALLED", !.reason[t] = "UNSCHEDULED"]
             z == IF y.coreRunning[t] # None THEN y ELSE s
             e == [z EXCEPT !.parked = @ \ {x.waiter[t]}, !.waiter[t] = None]
  <1>1. onThreadStart(x, t) = e
    BY Zenon DEF onThreadStart
  <1>2. /\ r.status = [x.status EXCEPT ![t] = "RUNNING"]
        /\ r.reason = x.reason /\ r.waiter = x.waiter
        /\ r.parked = x.parked /\ r.runnable = x.runnable \cup {t}
        /\ r.coreRunning = x.coreRunning /\ r \in ThreadLayer
        /\ x.status \in [Threads -> Status] /\ x.waiter \in [Threads -> Threads \cup {None}]
    BY Zenon DEF Consistent, ThreadLayer, Status
  <1>3. Consistent(r)
    BY MarkRunningKeeps, Zenon DEF Keeps
  <1> HIDE DEF r
  <1>4. /\ x.waiter[t] = None /\ t \notin x.parked /\ ~ (t >= n)
    BY Zenon DEF Waits, ThreadWaits
  <1>5. Waits(r, None, n)
    <2> SUFFICES ASSUME NEW u \in Threads PROVE ThreadWaits(r, u, None, n)
      BY Zenon DEF Waits
    <2>1. ThreadWaits(x, u, None, n)
      BY Zenon DEF Waits
    <2>2. CASE u = t
      BY <1>2, <1>4, <2>1, <2>2, NoneIsNone, ZenonT(40) DEF ThreadWaits
    <2>3. CASE u # t
      BY <1>2, <2>1, <2>3, ZenonT(40) DEF ThreadWaits
    <2> QED BY <2>2, <2>3, Zenon
  <1>6. /\ Waits(y, None, n) /\ Consistent(y) /\ Moves(r, y)
    BY <1>3, <1>5, RescheduleFreeCoreKeeps, RescheduleFreeCoreMoves, MovesWaits, ZenonT(40) DEF Keeps
  <1>7. y.status[t] = "RUNNING" /\ y.waiter[t] = None
    BY <1>2, <1>4, <1>6, Zenon DEF Moves
  <1> HIDE DEF y
  <1>8. z \in ThreadLayer /\ z.waiter[t] = None /\ Waits(z, None, n)
    <2>1. CASE y.coreRunning[t] # None
      BY <1>6, <1>7, <2>1, Zenon DEF Consistent
    <2>2. CASE y.coreRunning[t] = None
      <3>1. /\ s.status = [y.status EXCEPT ![t] = "STALLED"]
            /\ s.reason = [y.reason EXCEPT ![t] = "UNSCHEDULED"]
            /\ s.waiter = y.waiter /\ s.parked = y.parked /\ s.runnable = y.runnable
            /\ s.coreRunning = y.coreRunning /\ s \in ThreadLayer
            /\ y.status \in [Threads -> Status] /\ y.reason \in [Threads -> StallReason]
        BY <1>6, Zenon DEF Consistent, ThreadLayer, Status, StallReason
      <3> HIDE DEF s
      <3>2. ASSUME NEW u \in Threads PROVE ThreadWaits(s, u, None, n)
        <4>1. ThreadWaits(y, u, None, n)
          BY <1>6, Zenon DEF Waits
        <4>2. CASE u = t
          BY <1>4, <1>7, <2>2, <3>1, <4>1, <4>2, NoneIsNone, ZenonT(40) DEF ThreadWaits
        <4>3. CASE u # t
          BY <3>1, <4>1, <4>3, Zenon DEF ThreadWaits
        <4> QED BY <4>2, <4>3, Zenon
      <3> QED BY <1>7, <2>2, <3>1, <3>2, Zenon DEF Waits
    <2> QED BY <2>1, <2>2, Zenon
  <1> HIDE DEF z
  <1>9. /\ e.status = z.status /\ e.reason = z.reason /\ e.runnable = z.runnable
        /\ e.coreRunning = z.coreRunning /\ e.parked = z.parked /\ e.waiter = z.waiter
    BY <1>4, <1>8, NoneIsNone DEF ThreadLayer
  <1> HIDE DEF e
  <1> QED BY <1>1, <1>8, <1>9, SameThreadsMoves, MovesWaits, Zenon

\* A thread that stalls for another reason than the lack of a core, with v the
\* state before rescheduling.
LEMMA StallWaits ==
  ASSUME NEW x, Consistent(x), NEW cl, NEW n, NEW t \in Threads,
         NEW why \in {"JOIN", "SLEEP", "SYSCALL"},
         Waits([x EXCEPT !.status[t] = "STALLED", !.reason[t] = why, !.runnable = @ \ {t}], cl, n)
  PROVE  Waits(stallThread_async(x, t, why), cl, n)
  <1> DEFINE v == [x EXCEPT !.status[t] = "STALLED", !.reason[t] = why, !.runnable = @ \ {t}]
             y == [x EXCEPT !.status[t] = "STALLED", !.reason[t] = why]
             z == [y EXCEPT !.runnable = @ \ {t}]
             c == x.coreRunning[t]
  <1>1. stallThread_async(x, t, why) = IF c = None THEN z ELSE reschedule(z, c)
    BY Zenon DEF stallThread_async
  <1>2. /\ z = v /\ c \in Cores \cup {None} /\ v \in ThreadLayer
        /\ v.affinity = x.affinity /\ v.coreRunning = x.coreRunning
        /\ v.threadRunning = x.threadRunning /\ v.expired = x.expired
    BY Zenon DEF Consistent, ThreadLayer, Status, StallReason
  <1> HIDE DEF v, z
  <1>3. Consistent(v)
    BY <1>2 DEF Consistent, InStep, Agree, OnPins
  <1>4. Waits(v, cl, n)
    BY Zenon DEF v
  <1> QED BY <1>1, <1>2, <1>3, <1>4, RescheduleMoves, MovesWaits

\* The thread that joins an exiting thread is resumed, and nobody else was to be
\* woken by it.
LEMMA OnThreadExitWaits ==
  ASSUME NEW x, Consistent(x), NEW n \in Nat, NEW t \in Threads, Waits(x, None, n),
         x.status[t] = "RUNNING", t \notin x.parked, x.coreRunning[t] # None
  PROVE  Waits(onThreadExit(x, t), None, n)
  <1> DEFINE i == [x EXCEPT !.status[t] = "IDLE"]
             w == i.waiter[t]
             g == IF w = None THEN i ELSE Wake(i, w)
             h == IF w = None THEN i ELSE RescheduleFreeCore(g, w)
             y == wakeUpWaiter(i, t)
             z == [y EXCEPT !.runnable = @ \ {t}]
             v == [g EXCEPT !.waiter[t] = None, !.runnable = @ \ {t}]
  <1>1. onThreadExit(x, t) = reschedule(z, x.coreRunning[t])
    BY Zenon DEF onThreadExit
  <1>2. /\ i.status = [x.status EXCEPT ![t] = "IDLE"]
        /\ i.reason = x.reason /\ i.waiter = x.waiter /\ i.parked = x.parked
        /\ i.runnable = x.runnable /\ i.coreRunning = x.coreRunning
        /\ i.affinity = x.affinity /\ i.threadRunning = x.threadRunning
        /\ i.expired = x.expired /\ i \in ThreadLayer
        /\ x.status \in [Threads -> Status] /\ x.waiter \in [Threads -> Threads \cup {None}]
        /\ x.coreRunning[t] \in Cores
    BY Zenon DEF Consistent, ThreadLayer, Status
  <1>3. Consistent(i) /\ w \in Threads \cup {None} /\ w = x.waiter[t]
    BY <1>2 DEF Consistent, InStep, Agree, OnPins
  <1>4. w # None => w \in Threads /\ w # t /\ w < n
    BY <1>3, NoneIsNone, Zenon DEF Waits, ThreadWaits
  <1>5. y = IF w = None THEN i ELSE [h EXCEPT !.waiter[t] = None]
    BY DEF wakeUpWaiter, resumeThread
  <1> HIDE DEF i
  <1>6. /\ Consistent(g) /\ Moves(g, h) /\ Consistent(h)
        /\ g.waiter = x.waiter /\ g.reason = x.reason /\ g.coreRunning = x.coreRunning
        /\ g.status = IF w = None THEN [x.status EXCEPT ![t] = "IDLE"]
                      ELSE [[x.status EXCEPT ![t] = "IDLE"] EXCEPT ![w] = "RUNNING"]
        /\ g.parked = x.parked \ {w}
        /\ g.runnable = IF w = None THEN x.runnable ELSE x.runnable \cup {w}
    <2>1. CASE w = None
      <3>1. None \notin x.parked
        BY NoneIsNone, Zenon DEF Consistent, ThreadLayer
      <3> QED BY <1>2, <1>3, <2>1, <3>1, MovesReflexive, Zenon
    <2>2. CASE w # None
      <3>1. Consistent(Wake(i, w))
        BY <1>3, <1>4, <2>2, WakeKeeps, ZenonT(40) DEF Keeps
      <3>2. /\ Moves(Wake(i, w), RescheduleFreeCore(Wake(i, w), w))
            /\ Consistent(RescheduleFreeCore(Wake(i, w), w))
        BY <1>4, <2>2, <3>1, RescheduleFreeCoreMoves, RescheduleFreeCoreKeeps, Zenon DEF Keeps
      <3>3. /\ Wake(i, w).status = [i.status EXCEPT ![w] = "RUNNING"]
            /\ Wake(i, w).reason = i.reason /\ Wake(i, w).waiter = i.waiter
            /\ Wake(i, w).parked = i.parked \ {w}
            /\ Wake(i, w).runnable = i.runnable \cup {w}
            /\ Wake(i, w).coreRunning = i.coreRunning
        BY <1>2, Zenon DEF Wake, ThreadLayer
      <3> QED BY <1>2, <2>2, <3>1, <3>2, <3>3, ZenonT(40)
    <2> QED BY <2>1, <2>2, ZenonT(40)
  <1> HIDE DEF w, g, h, y
  <1>7. /\ v.status = g.status /\ v.reason = g.reason /\ v.parked = g.parked
        /\ v.coreRunning = g.coreRunning
        /\ v.waiter = [x.waiter EXCEPT ![t] = None]
        /\ v.runnable = g.runnable \ {t}
    BY <1>6, Zenon DEF Consistent, ThreadLayer
  <1> HIDE DEF v
  <1>8. Waits(v, None, n)
    <2> SUFFICES ASSUME NEW u \in Threads PROVE ThreadWaits(v, u, None, n)
      BY Zenon DEF Waits
    <2>1. ThreadWaits(x, u, None, n) /\ ThreadWaits(x, t, None, n)
      BY Zenon DEF Waits
    <2>2. CASE u = t
      <3>1. v.status[u] = "IDLE" /\ u \notin v.parked /\ v.waiter[u] = None
        BY <1>2, <1>4, <1>6, <1>7, <2>2, SMTT(30)
      <3> QED BY <2>1, <2>2, <3>1, NoneIsNone, ZenonT(40) DEF ThreadWaits
    <2>3. CASE u = w /\ u # t
      <3>1. /\ v.status[u] = "RUNNING" /\ u \notin v.parked /\ u \in v.runnable
            /\ v.waiter[u] = x.waiter[u]
        BY <1>2, <1>4, <1>6, <1>7, <2>3, NoneIsNone, SMTT(30)
      <3>2. u < n => ~ (u >= n)
        BY DEF Threads
      <3> QED BY <1>4, <2>1, <2>3, <3>1, <3>2, NoneIsNone, Zenon DEF ThreadWaits
    <2>4. CASE u # w /\ u # t
      <3>1. /\ v.status[u] = x.status[u]
            /\ u \in v.parked <=> u \in x.parked
            /\ u \in v.runnable <=> u \in x.runnable
            /\ v.waiter[u] = x.waiter[u] /\ v.reason = x.reason
            /\ v.coreRunning = x.coreRunning
        BY <1>2, <1>4, <1>6, <1>7, <2>4, NoneIsNone, SMTT(30)
      <3>2. \A o \in Threads : x.waiter[o] = u => v.waiter[o] = u
        BY <1>2, <1>3, <1>7, <2>4, Zenon
      <3> QED BY <2>1, <3>1, <3>2, Zenon DEF ThreadWaits
    <2> QED BY <2>2, <2>3, <2>4, Zenon
  <1>9. Moves(v, z) /\ Consistent(z)
    <2>1. Consistent(y)
      BY <1>3, WakeUpWaiterKeeps, Zenon DEF Keeps, y
    <2>2. /\ z.status = y.status /\ z.reason = y.reason /\ z.parked = y.parked
          /\ z.coreRunning = y.coreRunning /\ z.waiter = y.waiter
          /\ z.runnable = y.runnable \ {t} /\ z \in ThreadLayer
          /\ z.affinity = y.affinity /\ z.threadRunning = y.threadRunning /\ z.expired = y.expired
      BY <2>1, Zenon DEF Consistent, ThreadLayer
    <2>3. Consistent(z)
      BY <2>1, <2>2 DEF Consistent, InStep, Agree, OnPins
    <2>4. /\ y.status = h.status /\ y.reason = h.reason /\ y.parked = h.parked
          /\ y.coreRunning = h.coreRunning /\ y.runnable = h.runnable
          /\ y.waiter = [x.waiter EXCEPT ![t] = None]
      <3>1. h.waiter = x.waiter
        BY <1>6, Zenon DEF Moves
      <3>2. CASE w = None
        BY <1>2, <1>3, <1>5, <3>1, <3>2, ZenonT(40) DEF h
      <3>3. CASE w # None
        BY <1>5, <1>6, <3>1, <3>3, Zenon DEF Consistent, ThreadLayer
      <3> QED BY <3>2, <3>3, Zenon
    <2>5. g.status[t] = "IDLE"
      BY <1>2, <1>4, <1>6, Zenon
    <2> HIDE DEF z
    <2>6. Moves(v, z)
      <3>r. h.reason = g.reason
        BY <1>6, SMT DEF Moves
      <3>1. z.reason = v.reason /\ z.waiter = v.waiter
        BY <1>7, <2>2, <2>4, <3>r, Zenon
      <3> SUFFICES ASSUME NEW s \in Threads
                   PROVE  \/ /\ z.status[s] = v.status[s]
                             /\ s \in z.parked <=> s \in v.parked
                             /\ s \in z.runnable <=> s \in v.runnable
                             /\ v.status[s] = "STALLED" /\ v.reason[s] = "UNSCHEDULED" =>
                                  z.coreRunning[s] \in {v.coreRunning[s], None}
                          \/ /\ v.status[s] = "STALLED" /\ v.reason[s] = "UNSCHEDULED"
                             /\ z.status[s] = "RUNNING"
                             /\ s \notin z.parked
                             /\ s \in z.runnable
        BY <3>1, Zenon DEF Moves
      <3>2. \/ /\ h.status[s] = g.status[s]
               /\ s \in h.parked <=> s \in g.parked
               /\ s \in h.runnable <=> s \in g.runnable
               /\ g.status[s] = "STALLED" /\ g.reason[s] = "UNSCHEDULED" =>
                    h.coreRunning[s] \in {g.coreRunning[s], None}
            \/ /\ g.status[s] = "STALLED" /\ g.reason[s] = "UNSCHEDULED"
               /\ h.status[s] = "RUNNING"
               /\ s \notin h.parked
               /\ s \in h.runnable
        BY <1>6, Zenon DEF Moves
      <3>3. /\ s \in z.runnable <=> s # t /\ s \in h.runnable
            /\ s \in v.runnable <=> s # t /\ s \in g.runnable
        BY <1>7, <2>2, <2>4, Zenon
      <3>4. /\ z.status = h.status /\ z.parked = h.parked /\ z.coreRunning = h.coreRunning
            /\ v.status = g.status /\ v.parked = g.parked /\ v.coreRunning = g.coreRunning
            /\ v.reason = g.reason
        BY <1>7, <2>2, <2>4, Zenon
      <3>5. s = t => g.status[s] # "STALLED"
        BY <2>5, Zenon
      <3> QED BY <3>2, <3>3, <3>4, <3>5, Zenon
    <2> QED BY <2>3, <2>6, Zenon
  <1> HIDE DEF z
  <1>10. Waits(z, None, n)
    BY <1>8, <1>9, MovesWaits, Zenon
  <1> QED BY <1>1, <1>2, <1>9, <1>10, RescheduleMoves, MovesWaits, SMTT(30)

\* A new thread has been idle: nobody joins it and it waits nowhere.
LEMMA NewThreadWaits ==
  ASSUME NEW x \in ThreadLayer, NEW cl, NEW n \in Nat, n \in Threads, Waits(x, cl, n)
  PROVE  Waits([x EXCEPT !.status[n] = "INITIALIZING"], cl, n + 1)
  <1> DEFINE y == [x EXCEPT !.status[n] = "INITIALIZING"]
  <1>1. /\ y.status = [x.status EXCEPT ![n] = "INITIALIZING"]
        /\ y.reason = x.reason /\ y.waiter = x.waiter /\ y.parked = x.parked
        /\ y.runnable = x.runnable /\ y.coreRunning = x.coreRunning
        /\ x.status \in [Threads -> Status] /\ x.waiter \in [Threads -> Threads \cup {None}]
    BY Zenon DEF ThreadLayer
  <1> HIDE DEF y
  <1>2. ASSUME NEW u \in Threads PROVE ThreadWaits(y, u, cl, n + 1)
    <2>1. ThreadWaits(x, u, cl, n) /\ u \in Nat
      BY DEF Waits, Threads
    <2>2. CASE u = n
      <3>1. x.status[u] = "IDLE"
        BY <2>1, <2>2, SMTT(30) DEF ThreadWaits
      <3>2. x.waiter[u] = None /\ u \notin x.parked /\ u # cl
        BY <2>1, <3>1, Zenon DEF ThreadWaits
      <3>3. y.status[u] = "INITIALIZING" /\ y.waiter[u] = None /\ u \notin y.parked
        BY <1>1, <2>2, <3>2, Zenon
      <3>4. ~(u >= n + 1)
        BY <2>1, <2>2, SMT
      <3> QED BY <3>2, <3>3, <3>4, Zenon DEF ThreadWaits
    <2>3. CASE u # n
      <3>1. ASSUME x.waiter[u] # None, x.waiter[u] < n
            PROVE  x.waiter[u] < n + 1
        <4>1. x.waiter[u] \in Threads
          BY <1>1, <3>1, Zenon
        <4>2. x.waiter[u] \in Int
          BY <4>1 DEF Threads
        <4> QED BY <3>1, <4>2
      <3> QED BY <1>1, <2>1, <2>3, <3>1, SMTT(30) DEF ThreadWaits
    <2> QED BY <2>2, <2>3, Zenon
  <1> QED BY <1>2, Zenon DEF Waits, y

\* The next state by its three variables.
LEMMA WaitsNext ==
  ASSUME Waits(threads', caller', numThreads')
  PROVE  WaitsInv'
  BY Zenon DEF WaitsInv, Waits, ThreadWaits

\* Placing a new thread n.
LEMMA PlaceNewThreadWaits ==
  ASSUME NEW st \in States, InStep(st.th), NEW cl, NEW n \in Nat, n \in Threads,
         NEW k \in Tasks, Waits(st.th, cl, n)
  PROVE  Waits(PlaceNewThread(st, n, k).th, cl, n + 1)
  <1>1. Waits([st.th EXCEPT !.status[n] = "INITIALIZING"], cl, n + 1)
    BY NewThreadWaits, Zenon DEF States
  <1> QED BY <1>1, PlaceNewThreadMoves, MovesWaits, Zenon

\* The start of the tasks and the threads they spawn.
LEMMA CreateFirstWaits ==
  ASSUME SoundInv, WaitsInv, CreateFirst
  PROVE  WaitsInv'
  <1> DEFINE n == numThreads
  <1>1. PICK r \in schedule(State, n, TRUE, 0) :
          IF n = 0 /\ ~r.ok
          THEN fault' = "task 0 not mapped" /\ UNCHANGED <<taskVars, app, numThreads>>
          ELSE /\ \E st \in {PlaceNewThread(r.st, n, n)} : Become(st)
               /\ app' = [app EXCEPT ![n] = n]
               /\ numThreads' = n + 1
               /\ UNCHANGED fault
    BY Zenon DEF CreateFirst
  <1>2. n < NumTasks /\ UNCHANGED caller
    BY Zenon DEF CreateFirst
  <1>3. n \in Nat /\ n \in Tasks /\ n \in Threads
    BY <1>2, Counters, NumTasksIsNat DEF SoundInv, Tasks, Threads
  <1>4. State \in States /\ Sound(State, n) /\ State.th = threads
    BY StateIsSound, Zenon
  <1>5. CASE n = 0 /\ ~r.ok
    <2>1. UNCHANGED <<threads, numThreads>>
      BY <1>1, <1>5, Zenon DEF taskVars
    <2> QED BY <1>2, <2>1, WaitsNext, Zenon DEF WaitsInv
  <1>6. CASE ~(n = 0 /\ ~r.ok)
    <2>1. Become(PlaceNewThread(r.st, n, n)) /\ numThreads' = n + 1
      BY <1>1, <1>6, Zenon
    <2>2. r.st \in States /\ InStep(r.st.th)
      BY <1>3, <1>4, ScheduleSound, Zenon DEF Sound
    <2>3. Waits(r.st.th, caller, n)
      BY <1>3, <1>4, ScheduleMoves, MovesWaits, Zenon DEF Sound, WaitsInv
    <2>4. Waits(PlaceNewThread(r.st, n, n).th, caller, n + 1)
      BY <1>3, <2>2, <2>3, PlaceNewThreadWaits, Zenon
    <2> QED BY <1>2, <2>1, <2>4, WaitsNext, Zenon DEF Become
  <1> QED BY <1>5, <1>6, Zenon

\* A spawned thread is placed with the threads of its task.
LEMMA SpawnWaits ==
  ASSUME SoundInv, WaitsInv, NEW t \in Threads, Spawn(t)
  PROVE  WaitsInv'
  <1> DEFINE n == numThreads
             k == app[t]
             p == PlaceNewThread(State, n, k)
  <1>1. n < MaxThreads /\ UNCHANGED caller
    BY Zenon DEF Spawn
  <1>2. \/ UNCHANGED <<threads, numThreads>>
        \/ Become(p) /\ numThreads' = n + 1
    BY Zenon DEF Spawn, taskVars
  <1>3. k \in Tasks
    BY ExecutesCreated, Zenon DEF Spawn
  <1>4. n \in Nat /\ n \in Threads
    BY <1>1, Counters, NumTasksIsNat DEF SoundInv, Threads
  <1>5. State \in States /\ Sound(State, n) /\ State.th = threads
    BY StateIsSound, Zenon
  <1> HIDE DEF k
  <1>6. Waits(p.th, caller, n + 1)
    BY <1>3, <1>4, <1>5, PlaceNewThreadWaits, Zenon DEF Sound, WaitsInv
  <1> HIDE DEF p
  <1> QED BY <1>1, <1>2, <1>6, WaitsNext, Zenon DEF Become, WaitsInv

\* The exit of a thread: its waiter is resumed, its core is given back and the next
\* task may be prefetched.
LEMMA ThreadExitWaits ==
  ASSUME SoundInv, WaitsInv, NEW t \in Threads, ThreadExit(t)
  PROVE  WaitsInv'
  <1> DEFINE n == numThreads
             x == onThreadExit(threads, t)
             s == [State EXCEPT !.th = x]
             released == ReleaseThread(s, t)
             done == IF t \in Tasks THEN FinishTask(released, t) ELSE released
  <1>1. /\ LockFree /\ Executes(t) /\ UNCHANGED <<numThreads, caller>>
        /\ \E skew \in 0 .. MaxSkew : \E st \in Prefetch(done, skew) : Become(st)
    BY Zenon DEF ThreadExit
  <1>2. PICK skew \in 0 .. MaxSkew : \E st \in Prefetch(done, skew) : Become(st)
    BY <1>1, Zenon
  <1>3. PICK st \in Prefetch(done, skew) : Become(st)
    BY <1>2, Zenon
  <1>4. n \in Nat /\ t < n /\ skew \in Nat /\ caller = None
    <2>1. MaxSkew \in Nat
      BY SchedulerAssumption, Zenon
    <2>2. n \in Nat
      BY Counters, Zenon DEF SoundInv
    <2> QED BY <1>1, <2>1, <2>2, ExecutesCreated DEF LockFree
  <1>5. State \in States /\ Sound(State, n) /\ State.tk = openTasks /\ State.th = threads
           /\ Consistent(threads)
    BY StateIsSound, Zenon
  <1>6. Sound(s, n) /\ s.tk = openTasks /\ Waits(s.th, None, n)
    <2>1. /\ Consistent(x)
          /\ \A u \in Threads : Detached(threads, u) => Detached(x, u)
      BY <1>1, <1>5, OnThreadExitDetaches, Zenon DEF Executes
    <2>2. Waits(x, None, n)
      BY <1>1, <1>4, <1>5, OnThreadExitWaits, Zenon DEF Executes, WaitsInv
    <2> HIDE DEF x
    <2>3. s \in States /\ s.tk = State.tk /\ s.sc = State.sc /\ s.th = x
      BY <1>5, <2>1, Zenon DEF States, Consistent
    <2> QED BY <1>5, <2>1, <2>2, <2>3, Zenon DEF Sound, Consistent, Fresh
  <1> HIDE DEF s
  <1>7. Sound(released, n) /\ released.tk = openTasks /\ Waits(released.th, None, n)
    BY <1>4, <1>6, ReleaseThreadSound, ReleaseThreadMoves, MovesWaits, Zenon DEF Sound
  <1> HIDE DEF released
  <1>8. /\ Sound(done, n) /\ Waits(done.th, None, n)
        /\ done.tk.due = openTasks.due
        /\ done.tk.waitingToSchedule = openTasks.waitingToSchedule
    <2>1. FinishTask(released, t).th = released.th
      BY Zenon DEF FinishTask
    <2> QED BY <1>4, <1>7, <2>1, FinishTaskSound, Zenon
  <1> HIDE DEF done
  <1>9. Waits(st.th, None, n)
    <2>1. DueAbove(done.tk, Age) /\ Age \in Nat
      BY <1>8, Counters, Zenon DEF SoundInv, DueAbove, Age
    <2> QED BY <1>3, <1>4, <1>8, <2>1, PrefetchMoves, MovesWaits, Zenon DEF Sound
  <1> QED BY <1>1, <1>3, <1>4, <1>9, WaitsNext, Zenon DEF Become

\* No thread of the workload joins a thread that has not started.
JoinsStarted == "early join" \notin Workload

\* A thread that joins another, sleeps or makes a blocking call: it waits for the
\* thread it joins, for time, or for the host.
LEMMA StallActionsWait ==
  ASSUME SoundInv, WaitsInv, JoinsStarted, NEW t \in Threads,
         Sleep(t) \/ BlockingSyscall(t) \/ \E u \in Threads : Join(t, u)
  PROVE  WaitsInv'
  <1> DEFINE n == numThreads
             Stalled(x, why) == [x EXCEPT !.status[t] = "STALLED", !.reason[t] = why,
                                          !.runnable = @ \ {t}]
  <1>1. Consistent(threads) /\ threads \in ThreadLayer
    BY StateIsSound, Zenon DEF Consistent
  <1>2. /\ caller = None /\ Executes(t) /\ UNCHANGED numThreads
    BY Zenon DEF Sleep, BlockingSyscall, Join, LockFree, Stall
  <1>3. n \in Nat /\ t \in Int /\ t < n
    BY <1>2, ExecutesCreated, Counters, SMTT(30) DEF SoundInv, Threads
  <1>4. ASSUME NEW x, Consistent(x), NEW cl, NEW why \in {"JOIN", "SLEEP", "SYSCALL"},
               why = "SYSCALL" => cl = None,
               why # "SYSCALL" => cl = t,
               x.status = threads.status, x.reason = threads.reason,
               x.parked = threads.parked, x.runnable = threads.runnable,
               x.coreRunning = threads.coreRunning,
               why = "JOIN" => \E u \in Threads : x.waiter[u] = t,
               \A u \in Threads : threads.waiter[u] # None => x.waiter[u] = threads.waiter[u],
               \A u \in Threads : x.waiter[u] # threads.waiter[u] =>
                 /\ threads.status[u] \notin {"IDLE", "INITIALIZING"}
                 /\ u # t
                 /\ x.waiter[u] = t
        PROVE  Waits(stallThread_async(x, t, why), cl, n)
    <2> DEFINE v == Stalled(x, why)
    <2>1. /\ v.status = [threads.status EXCEPT ![t] = "STALLED"]
          /\ v.reason = [threads.reason EXCEPT ![t] = why]
          /\ v.waiter = x.waiter /\ v.parked = threads.parked
          /\ v.runnable = threads.runnable \ {t}
          /\ v.coreRunning = threads.coreRunning
          /\ threads.status \in [Threads -> Status]
          /\ threads.reason \in [Threads -> StallReason]
      BY <1>1, <1>4, Zenon DEF Consistent, ThreadLayer
    <2>w. /\ \A u \in Threads : threads.waiter[u] # None => v.waiter[u] = threads.waiter[u]
          /\ \A u \in Threads : v.waiter[u] # threads.waiter[u] =>
               /\ threads.status[u] \notin {"IDLE", "INITIALIZING"}
               /\ u # t /\ v.waiter[u] = t
      <3> HIDE DEF v
      <3>1. v.waiter = x.waiter
        BY <2>1, Zenon
      <3>2. /\ \A u \in Threads : threads.waiter[u] # None => x.waiter[u] = threads.waiter[u]
            /\ \A u \in Threads : x.waiter[u] # threads.waiter[u] =>
                 /\ threads.status[u] \notin {"IDLE", "INITIALIZING"}
                 /\ u # t
                 /\ x.waiter[u] = t
        BY <1>4, Zenon
      <3> QED BY <3>1, <3>2, Zenon
    <2>2. ASSUME NEW u \in Threads PROVE ThreadWaits(v, u, cl, n)
      <3> HIDE DEF v
      <3>1. ThreadWaits(threads, u, None, n)
        BY <1>2, Zenon DEF WaitsInv, Waits
      <3>2. CASE u = t
        <4>1. threads.status[t] = "RUNNING" /\ v.status[t] = "STALLED" /\ v.reason[t] = why
          BY <1>2, <2>1, Zenon DEF Executes
        <4>2. v.waiter[t] = threads.waiter[t] /\ t \notin v.parked
          BY <2>1, <2>w, <3>1, <3>2, <4>1, Zenon DEF ThreadWaits
        <4>3. t # None
          BY NoneIsNone, Zenon
        <4>4. ~(t >= n)
          BY <1>3, SMT
        <4>5. why = "JOIN" => \E s \in Threads : v.waiter[s] = t
          BY <1>4, <2>1, Zenon
        <4>6. v.waiter[t] # None => v.waiter[t] # t /\ v.waiter[t] < n
          BY <3>1, <3>2, <4>2, Zenon DEF ThreadWaits
        <4>7. /\ why \in {"JOIN", "SLEEP", "SYSCALL"}
              /\ why = "SYSCALL" => t # cl
              /\ why # "SYSCALL" => t = cl
          BY <1>4, <4>3, Zenon
        <4> QED BY <3>2, <4>1, <4>2, <4>4, <4>5, <4>6, <4>7, Zenon DEF ThreadWaits
      <3>3. CASE u # t
        <4>1. threads.reason[u] = "JOIN" /\ threads.status[u] = "STALLED" =>
                \E s \in Threads : v.waiter[s] = u
          <5> SUFFICES ASSUME threads.reason[u] = "JOIN", threads.status[u] = "STALLED"
                       PROVE  \E s \in Threads : v.waiter[s] = u
            BY Zenon
          <5>1. PICK s \in Threads : threads.waiter[s] = u
            BY <3>1, Zenon DEF ThreadWaits
          <5>2. u # None
            BY NoneIsNone, Zenon
          <5> QED BY <2>w, <5>1, <5>2, Zenon
        <4>2. v.waiter[u] # None =>
                /\ threads.status[u] \notin {"IDLE", "INITIALIZING"}
                /\ v.waiter[u] # u
                /\ v.waiter[u] < n
          <5>1. CASE v.waiter[u] = threads.waiter[u]
            BY <3>1, <5>1, Zenon DEF ThreadWaits
          <5>2. CASE v.waiter[u] # threads.waiter[u]
            BY <1>3, <2>w, <5>2, Zenon
          <5> QED BY <5>1, <5>2, Zenon
        <4>3. /\ v.status[u] = threads.status[u] /\ v.reason[u] = threads.reason[u]
              /\ v.parked = threads.parked /\ v.coreRunning = threads.coreRunning
              /\ u \in v.runnable <=> u \in threads.runnable
          BY <2>1, <3>3, Zenon
        <4>4. u # cl /\ u # None
          BY <1>4, <3>3, NoneIsNone, Zenon
        <4> QED BY <3>1, <4>1, <4>2, <4>3, <4>4, Zenon DEF ThreadWaits
      <3> QED BY <3>2, <3>3, Zenon
    <2>3. Waits(v, cl, n)
      BY <2>2, Zenon DEF Waits
    <2> QED BY <1>4, <2>3, StallWaits, Zenon
  <1>5. CASE Sleep(t)
    <2>1. threads' = stallThread_async(threads, t, "SLEEP") /\ caller' = t
      BY <1>5, Zenon DEF Sleep, Stall
    <2>2. Waits(stallThread_async(threads, t, "SLEEP"), t, n)
      BY <1>1, <1>4, Zenon
    <2> QED BY <1>2, <2>1, <2>2, WaitsNext, Zenon
  <1>6. CASE BlockingSyscall(t)
    <2>1. threads' = stallThread_async(threads, t, "SYSCALL") /\ caller' = None
      BY <1>2, <1>6, Zenon DEF BlockingSyscall
    <2>2. Waits(stallThread_async(threads, t, "SYSCALL"), None, n)
      BY <1>1, <1>4, ZenonT(40)
    <2> QED BY <1>2, <2>1, <2>2, WaitsNext, Zenon
  <1>7. ASSUME NEW u \in Threads, Join(t, u) PROVE WaitsInv'
    <2> DEFINE x == [threads EXCEPT !.waiter[u] = t]
    <2>1. /\ threads' = stallThread_async(x, t, "JOIN") /\ caller' = t
          /\ threads.waiter[u] = None
          /\ t < u
          /\ threads.status[u] \notin {"IDLE", "INITIALIZING"}
      BY <1>7, Zenon DEF Join, Stall, JoinsStarted
    <2>2. /\ x.waiter = [threads.waiter EXCEPT ![u] = t]
          /\ threads.waiter \in [Threads -> Threads \cup {None}]
          /\ x.status = threads.status /\ x.reason = threads.reason
          /\ x.parked = threads.parked /\ x.runnable = threads.runnable
          /\ x.coreRunning = threads.coreRunning
          /\ x.affinity = threads.affinity /\ x.expired = threads.expired
          /\ x.threadRunning = threads.threadRunning
          /\ x \in ThreadLayer
      BY <1>1, Zenon DEF ThreadLayer
    <2> HIDE DEF x
    <2>3. Consistent(x)
      BY <1>1, <2>2, SMTT(30) DEF Consistent, InStep, Agree, OnPins
    <2>4. u # t
      BY <1>3, <2>1, SMTT(30)
    <2>5. x.waiter[u] = t /\ \A s \in Threads \ {u} : x.waiter[s] = threads.waiter[s]
      BY <2>2, Zenon
    <2>6. Waits(stallThread_async(x, t, "JOIN"), t, n)
      BY <1>4, <2>1, <2>2, <2>3, <2>4, <2>5, ZenonT(40)
    <2> QED BY <1>2, <2>1, <2>6, WaitsNext, Zenon
  <1> QED BY <1>5, <1>6, <1>7, Zenon

\* A thread without a core waits to be put on one: it is runnable.
LEMMA StallUnscheduledWaits ==
  ASSUME SoundInv, WaitsInv, NEW t \in Threads, StallUnscheduled(t)
  PROVE  WaitsInv'
  <1> DEFINE n == numThreads
             y == [threads EXCEPT !.status[t] = "STALLED", !.reason[t] = "UNSCHEDULED"]
  <1>1. /\ threads' = y /\ caller' = t /\ UNCHANGED numThreads /\ caller = None
        /\ \/ threads.status[t] = "RUNNING"
           \/ threads.status[t] = "STALLED" /\ threads.reason[t] # "SYSCALL"
        /\ threads.coreRunning[t] = None /\ t \notin threads.parked
    BY Zenon DEF StallUnscheduled, Stall, LockFree, stallThread_async
  <1>2. /\ y.status = [threads.status EXCEPT ![t] = "STALLED"]
        /\ y.reason = [threads.reason EXCEPT ![t] = "UNSCHEDULED"]
        /\ y.waiter = threads.waiter /\ y.parked = threads.parked
        /\ y.runnable = threads.runnable /\ y.coreRunning = threads.coreRunning
        /\ threads.status \in [Threads -> Status]
        /\ threads.reason \in [Threads -> StallReason]
    BY StateIsSound, Zenon DEF Consistent, ThreadLayer
  <1> HIDE DEF y
  <1>3. ASSUME NEW u \in Threads PROVE ThreadWaits(y, u, t, n)
    <2>1. ThreadWaits(threads, u, None, n)
      BY <1>1, Zenon DEF WaitsInv, Waits
    <2>2. CASE u = t
      <3>1. u \in threads.runnable
        BY <1>1, <1>2, <2>1, <2>2, NoneIsNone, Zenon DEF ThreadWaits, StallReason
      <3> QED BY <1>1, <1>2, <2>1, <2>2, <3>1, ZenonT(40) DEF ThreadWaits
    <2>3. CASE u # t
      BY <1>2, <2>1, <2>3, NoneIsNone, Zenon DEF ThreadWaits
    <2> QED BY <2>2, <2>3, Zenon
  <1>4. Waits(y, t, n)
    BY <1>3, Zenon DEF Waits
  <1> QED BY <1>1, <1>4, WaitsNext, Zenon

\* The end of stallThread(): a thread that was not resumed meanwhile is parked.
LEMMA CallerReturnsWaits ==
  ASSUME SoundInv, WaitsInv, CallerReturns
  PROVE  WaitsInv'
  <1> DEFINE n == numThreads
             ps == IF threads.status[caller] = "RUNNING" THEN threads.parked
                   ELSE threads.parked \cup {caller}
             y == [threads EXCEPT !.parked = ps]
  <1>1. caller \in Threads /\ threads' = y /\ caller' = None /\ UNCHANGED numThreads
    BY Zenon DEF CallerReturns, SoundInv, TypeOK
  <1>2. /\ y.status = threads.status /\ y.reason = threads.reason
        /\ y.waiter = threads.waiter /\ y.parked = ps
        /\ y.runnable = threads.runnable /\ y.coreRunning = threads.coreRunning
    BY StateIsSound, Zenon DEF Consistent, ThreadLayer
  <1> HIDE DEF y
  <1>3. ASSUME NEW u \in Threads PROVE ThreadWaits(y, u, None, n)
    <2>1. ThreadWaits(threads, u, caller, n) /\ u # None
      BY NoneIsNone, Zenon DEF WaitsInv, Waits
    <2>2. CASE u = caller
      BY <1>2, <2>1, <2>2, ZenonT(40) DEF ThreadWaits
    <2>3. CASE u # caller
      BY <1>2, <2>1, <2>3, Zenon DEF ThreadWaits
    <2> QED BY <2>2, <2>3, Zenon
  <1>4. Waits(y, None, n)
    BY <1>3, Zenon DEF Waits
  <1> QED BY <1>1, <1>4, WaitsNext, Zenon

\* A thread whose system call returns runs without a signal: it never slept.
LEMMA SyscallReturnsWaits ==
  ASSUME SoundInv, WaitsInv, NEW t \in Threads, SyscallReturns(t)
  PROVE  WaitsInv'
  <1> DEFINE n == numThreads
             r == [threads EXCEPT !.status[t] = "RUNNING", !.runnable = @ \cup {t}]
  <1>1. /\ threads' = RescheduleFreeCore(r, t)
        /\ threads.status[t] = "STALLED" /\ threads.reason[t] = "SYSCALL"
        /\ UNCHANGED <<caller, numThreads>>
    BY Zenon DEF SyscallReturns, resumeThread_async
  <1>2. /\ r.status = [threads.status EXCEPT ![t] = "RUNNING"]
        /\ r.reason = threads.reason /\ r.waiter = threads.waiter
        /\ r.parked = threads.parked /\ r.runnable = threads.runnable \cup {t}
        /\ r.coreRunning = threads.coreRunning
        /\ threads.status \in [Threads -> Status]
    BY StateIsSound, Zenon DEF Consistent, ThreadLayer
  <1>3. Consistent(r)
    BY StateIsSound, MarkRunningKeeps, Zenon DEF Keeps
  <1> HIDE DEF r
  <1>4. ASSUME NEW u \in Threads PROVE ThreadWaits(r, u, caller, n)
    <2>1. ThreadWaits(threads, u, caller, n)
      BY Zenon DEF WaitsInv, Waits
    <2>2. CASE u = t
      BY <1>1, <1>2, <2>1, <2>2, ZenonT(40) DEF ThreadWaits
    <2>3. CASE u # t
      BY <1>2, <2>1, <2>3, Zenon DEF ThreadWaits
    <2> QED BY <2>2, <2>3, Zenon
  <1>5. Waits(r, caller, n)
    BY <1>4, Zenon DEF Waits
  <1> QED BY <1>1, <1>3, <1>5, RescheduleFreeCoreMoves, MovesWaits, WaitsNext, Zenon

\* A tick resumes at most one sleeper.
LEMMA TickWaits ==
  ASSUME SoundInv, WaitsInv, NEW w \in Threads \cup {None}, Tick(w)
  PROVE  WaitsInv'
  <1>1. /\ threads' = IF w = None THEN threads ELSE resumeThread(threads, w)
        /\ UNCHANGED <<caller, numThreads>>
        /\ w # None => w \in Sleeping(threads)
    BY Zenon DEF Tick
  <1>2. CASE w = None
    BY <1>1, <1>2, WaitsNext, Zenon DEF WaitsInv
  <1>3. CASE w # None
    <2>1. w \in Threads /\ threads.status[w] = "STALLED"
      BY <1>1, <1>3, Zenon DEF Sleeping
    <2>2. ~ (w >= numThreads)
      BY <2>1, Zenon DEF WaitsInv, Waits, ThreadWaits
    <2>3. Waits(resumeThread(threads, w), caller, numThreads)
      BY <2>1, <2>2, StateIsSound, ResumeThreadWaits, Zenon DEF WaitsInv
    <2> QED BY <1>1, <1>3, <2>3, WaitsNext, Zenon
  <1> QED BY <1>2, <1>3, Zenon

\* The migration policy pins threads,
LEMMA MigrateThreadMoves ==
  ASSUME NEW x, Consistent(x), NEW t \in Threads \cup {None}, NEW c \in Cores
  PROVE  Moves(x, MigrateThread(x, t, c))
  BY MovesReflexive, ThreadSetAffinityMoves, Zenon DEF MigrateThread

\* the mapping epoch and the loop over the cores place them, and a thread that
\* yields gives its core up: all of them only move threads.
LEMMA MovingActionsWait ==
  ASSUME SoundInv, WaitsInv,
         \/ \E a, b \in Cores : Move(a, b) \/ Swap(a, b)
         \/ MapStep \/ CoreStep
         \/ \E t \in Threads : Yield(t)
  PROVE  WaitsInv'
  <1>1. Consistent(threads)
    BY StateIsSound, Zenon
  <1>2. UNCHANGED <<caller, numThreads>>
    BY Zenon DEF Move, Swap, Migration, MapStep, CoreStep, Yield
  <1>3. Moves(threads, threads')
    <2>1. ASSUME NEW a \in Cores, NEW b \in Cores, Move(a, b)
          PROVE  Moves(threads, threads')
      BY <1>1, <2>1, ReservedCreated, MigrateThreadMoves, Zenon DEF Move
    <2>2. ASSUME NEW a \in Cores, NEW b \in Cores, Swap(a, b)
          PROVE  Moves(threads, threads')
      <3> DEFINE g == systemCores.assignedThread
                 x == MigrateThread(threads, g[a], b)
      <3>1. threads' = MigrateThread(x, g[b], a)
        BY <2>2, Zenon DEF Swap
      <3>2. g[a] \in Threads \cup {None} /\ g[b] \in Threads \cup {None}
        BY ReservedCreated, Zenon
      <3>3. Consistent(x) /\ Moves(threads, x)
        BY <1>1, <3>2, MigrateThreadPins, MigrateThreadMoves, Zenon
      <3> HIDE DEF x
      <3> QED BY <3>1, <3>2, <3>3, MigrateThreadMoves, MovesTransitive, Zenon
    <2>3. CASE MapStep
      <3> DEFINE k == taskFrontOfQueue(openTasks)
      <3>1. CASE openTasks.waitingInQueue = {}
        BY <2>3, <3>1, MovesReflexive, Zenon DEF MapStep, taskVars
      <3>2. CASE openTasks.waitingInQueue # {}
        <4>1. PICK r \in schedule(State, k, FALSE, 0) : Become(r.st)
          BY <2>3, <3>2, Zenon DEF MapStep
        <4>2. k \in Tasks
          BY <3>2, FrontOfQueue, Zenon DEF SoundInv, TypeOK, TaskTable
        <4> HIDE DEF k
        <4>3. Moves(State.th, r.st.th)
          BY <4>2, StateIsSound, ScheduleMoves, ZenonT(40) DEF Sound
        <4> QED BY <4>1, <4>3, StateIsSound, Zenon DEF Become
      <3> QED BY <3>1, <3>2, Zenon
    <2>4. CASE CoreStep
      <3>1. nextCore \in Cores
        BY <2>4, Counters DEF CoreStep, SoundInv, Cores
      <3> QED BY <1>1, <2>4, <3>1, RescheduleMoves, MovesReflexive, Zenon DEF CoreStep
    <2>5. ASSUME NEW t \in Threads, Yield(t) PROVE Moves(threads, threads')
      BY <1>1, <2>5, ThreadYieldMoves, Zenon DEF Yield
    <2> QED BY <2>1, <2>2, <2>3, <2>4, <2>5, Zenon
  <1> QED BY <1>2, <1>3, MovesWaits, WaitsNext, Zenon DEF WaitsInv

\* Before the program starts every thread is idle.
LEMMA InitWaits == Init => WaitsInv
  <1> SUFFICES ASSUME Init, NEW t \in Threads
               PROVE  ThreadWaits(threads, t, caller, numThreads)
    BY Zenon DEF WaitsInv, Waits
  <1>1. /\ threads.status[t] = "IDLE" /\ threads.waiter[t] = None
        /\ threads.parked = {} /\ caller = None
    BY Zenon DEF Init, ThreadLayerInit
  <1> QED BY <1>1, NoneIsNone, Zenon DEF ThreadWaits

\* Every step of the program leaves each stalled thread somebody who wakes it.
LEMMA NextWaits ==
  ASSUME JoinsStarted
  PROVE  SoundInv /\ WaitsInv /\ [Next]_vars => WaitsInv'
  <1> SUFFICES ASSUME SoundInv, WaitsInv, [Next]_vars PROVE WaitsInv'
    BY Zenon
  <1>1. CASE CreateFirst
    BY <1>1, CreateFirstWaits, Zenon
  <1>2. ASSUME NEW t \in Threads, Spawn(t) PROVE WaitsInv'
    BY <1>2, SpawnWaits, Zenon
  <1>3. ASSUME NEW t \in Threads, ThreadStart(t) PROVE WaitsInv'
    <2>1. /\ caller = None /\ UNCHANGED <<caller, numThreads>>
          /\ threads.status[t] = "INITIALIZING"
          /\ threads' = onThreadStart(threads, t)
      BY <1>3, Zenon DEF ThreadStart, LockFree
    <2> QED BY <2>1, StateIsSound, OnThreadStartWaits, WaitsNext, Zenon DEF WaitsInv
  <1>4. ASSUME NEW t \in Threads, ThreadExit(t) PROVE WaitsInv'
    BY <1>4, ThreadExitWaits, Zenon
  <1>5. ASSUME NEW t \in Threads,
               Sleep(t) \/ BlockingSyscall(t) \/ \E u \in Threads : Join(t, u)
        PROVE  WaitsInv'
    BY <1>5, StallActionsWait, Zenon
  <1>6. ASSUME NEW t \in Threads, StallUnscheduled(t) PROVE WaitsInv'
    BY <1>6, StallUnscheduledWaits, Zenon
  <1>7. CASE CallerReturns
    BY <1>7, CallerReturnsWaits, Zenon
  <1>8. ASSUME NEW t \in Threads, SyscallReturns(t) PROVE WaitsInv'
    BY <1>8, SyscallReturnsWaits, Zenon
  <1>9. ASSUME NEW w \in Threads \cup {None}, Tick(w) PROVE WaitsInv'
    BY <1>9, TickWaits, Zenon
  <1>10. CASE \/ \E a, b \in Cores : Move(a, b) \/ Swap(a, b)
              \/ MapStep \/ CoreStep
              \/ \E t \in Threads : Yield(t)
    BY <1>10, MovingActionsWait, Zenon
  <1>11. CASE EndMigration \/ PeriodicEnd \/ Stopped \/ UNCHANGED vars
    <2>1. UNCHANGED <<threads, caller, numThreads>>
      BY <1>11, Zenon DEF EndMigration, PeriodicEnd, Stopped, vars, taskVars
    <2> QED BY <2>1, WaitsNext, Zenon DEF WaitsInv
  <1> QED BY <1>1, <1>2, <1>3, <1>4, <1>5, <1>6, <1>7, <1>8, <1>9, <1>10, <1>11, Zenon
          DEF Next, Periodic

\* No wake-up is lost: in every reachable state a thread that sleeps in
\* Thread::wait() is stalled on a join, on time or on the lack of a core; in the
\* first case the thread it joins has not exited and knows its waiter, in the last
\* the scheduler will still pick it.  The workload joins no thread before it has
\* started: onThreadStart() forgets the waiter of a thread.
THEOREM NoLostWakeupAlways ==
  ASSUME JoinsStarted
  PROVE  Spec => []NoLostWakeup
  <1>1. SoundInv /\ WaitsInv => NoLostWakeup
    <2> SUFFICES ASSUME SoundInv, WaitsInv, NEW t \in threads.parked
                 PROVE  /\ threads.status[t] = "STALLED"
                        /\ threads.reason[t] \in {"JOIN", "SLEEP", "UNSCHEDULED"}
                        /\ threads.reason[t] = "UNSCHEDULED" =>
                             t \in threads.runnable /\ threads.coreRunning[t] = None
                        /\ threads.reason[t] = "JOIN" =>
                             \E u \in Threads : /\ threads.waiter[u] = t
                                                /\ threads.status[u] # "IDLE"
      BY Zenon DEF NoLostWakeup
    <2>1. t \in Threads /\ threads.reason \in [Threads -> StallReason]
      BY Zenon DEF SoundInv, TypeOK, ThreadLayer
    <2>2. \A u \in Threads : ThreadWaits(threads, u, caller, numThreads)
      BY Zenon DEF WaitsInv, Waits
    <2>3. threads.status[t] = "STALLED" /\ threads.reason[t] # "SYSCALL"
      BY <2>1, <2>2, Zenon DEF ThreadWaits
    <2>4. threads.reason[t] \in {"JOIN", "SLEEP", "UNSCHEDULED"}
      BY <2>1, <2>3, Zenon DEF StallReason
    <2>5. threads.reason[t] = "UNSCHEDULED" =>
            t \in threads.runnable /\ threads.coreRunning[t] = None
      BY <2>1, <2>2, <2>3, Zenon DEF ThreadWaits
    <2>6. ASSUME threads.reason[t] = "JOIN"
          PROVE  \E u \in Threads : threads.waiter[u] = t /\ threads.status[u] # "IDLE"
      <3>1. PICK u \in Threads : threads.waiter[u] = t
        BY <2>1, <2>2, <2>3, <2>6, Zenon DEF ThreadWaits
      <3>2. threads.status[u] # "IDLE"
        BY <2>1, <2>2, <3>1, NoneIsNone, Zenon DEF ThreadWaits
      <3> QED BY <3>1, <3>2, Zenon
    <2> QED BY <2>3, <2>4, <2>5, <2>6, Zenon
  <1>2. SoundInv /\ WaitsInv /\ [Next]_vars => WaitsInv'
    BY NextWaits, Zenon
  <1> QED BY <1>1, <1>2, InitWaits, SpecSound, PTL DEF Spec

=============================================================================
