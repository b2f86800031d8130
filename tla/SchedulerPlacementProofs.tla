----------------------- MODULE SchedulerPlacementProofs -----------------------
(***************************************************************************)
(* Task states, their order, and which thread has which core, for any      *)
(* number of cores, tasks and threads.  The invariant needs that a first thread exits last  *)
(* (no "abandon" in Workload): a task whose first thread exits gives all   *)
(* its cores back, whether or not other threads of it are pinned to them.  *)
(***************************************************************************)
EXTENDS SchedulerOpenProofs, FiniteSetTheorems

Partition(tk) ==
  /\ tk.waitingToSchedule \cup tk.waitingInQueue \cup tk.active
       \cup tk.completed = Tasks
  /\ \A k \in Tasks :
       /\ k \in tk.waitingToSchedule =>
            k \notin tk.waitingInQueue \cup tk.active \cup tk.completed
       /\ k \in tk.waitingInQueue => k \notin tk.active \cup tk.completed
       /\ k \in tk.active => k \notin tk.completed

\* The core table sc and the thread layer x agree, when A is the set of active
\* tasks and ap the application of every thread.
Placement(sc, x, ap, A) ==
  /\ \A t \in Threads, c \in Cores : sc.assignedThread[c] = t <=> x.affinity[t] = c
  /\ \A k \in Tasks \ A : Detached(x, k)
  /\ \A c \in Cores : sc.assignedTask[c] # None => sc.assignedTask[c] \in A
  /\ \A c \in Cores : sc.assignedThread[c] # None =>
       /\ sc.assignedTask[c] # None
       /\ sc.assignedTask[c] = ap[sc.assignedThread[c]]
       /\ x.status[sc.assignedThread[c]] # "IDLE"

\* The first thread of a task that is not completed is alive once created.
Alive(tk, x, n) ==
  \A k \in Tasks : k < n /\ k \notin tk.completed => x.status[k] # "IDLE"

\* Pinning a thread that had no core keeps table and layer in agreement.
LEMMA PinsPlacement ==
  ASSUME NEW st \in States, NEW r, NEW t \in Threads, NEW k \in Tasks,
         Pins(st, r, t, k), NEW ap, NEW A,
         Placement(st.sc, st.th, ap, A),
         st.th.affinity[t] = None,
         t \in Tasks => t = k,
         ap[t] = k,
         r.th.status[t] # "IDLE"
  PROVE  Placement(r.sc, r.th, ap, A)
  <1>1. PICK c \in Cores \cup {None} : PinsTo(st, r, t, k, c)
    BY Zenon DEF Pins
  <1>2. /\ st.sc.assignedThread \in [Cores -> Threads \cup {None}]
        /\ st.th.affinity \in [Threads -> Cores \cup {None}]
        /\ st.sc \in CoreTable
    BY Zenon DEF States, CoreTable, ThreadLayer
  <1>3. /\ r.sc.assignedTask = st.sc.assignedTask
        /\ r.sc.assignedThread = IF c = None THEN st.sc.assignedThread
                                 ELSE [st.sc.assignedThread EXCEPT ![c] = t]
        /\ r.th.affinity = [st.th.affinity EXCEPT ![t] = c]
    BY <1>1, <1>2, Zenon DEF PinsTo, CoreTable
  <1>4. c # None => st.sc.assignedTask[c] = k /\ st.sc.assignedThread[c] = None
    BY <1>1, Zenon DEF PinsTo
  <1>5. \A u \in Threads, d \in Cores :
          r.sc.assignedThread[d] = u <=> r.th.affinity[u] = d
    BY <1>2, <1>3, <1>4, NoneIsNone DEF Placement
  <1>6. \A j \in Tasks \ A : Detached(r.th, j)
    <2> SUFFICES ASSUME NEW j \in Tasks \ A PROVE Detached(r.th, j)
      BY Zenon
    <2>1. Detached(st.th, j) /\ j \in Threads
      BY TasksAreThreads, Zenon DEF Placement
    <2>2. CASE j # t
      BY <1>1, <2>1, <2>2, Zenon DEF PinsTo
    <2>3. CASE j = t
      <3>1. c = None
        BY <1>4, <2>3, TasksAreThreads DEF Placement
      <3>2. r.th.coreRunning[t] = None
        BY <1>1, <2>1, <2>3, <3>1, Zenon DEF PinsTo, Detached
      <3>3. r.th.affinity[t] = None
        BY <1>2, <1>3, <3>1, Zenon
      <3> QED BY <2>3, <3>2, <3>3, Zenon DEF Detached
    <2> QED BY <2>2, <2>3, Zenon
  <1>7. \A d \in Cores : r.sc.assignedThread[d] # None =>
          /\ r.sc.assignedTask[d] # None
          /\ r.sc.assignedTask[d] = ap[r.sc.assignedThread[d]]
          /\ r.th.status[r.sc.assignedThread[d]] # "IDLE"
    <2> SUFFICES ASSUME NEW d \in Cores, r.sc.assignedThread[d] # None
                 PROVE  /\ r.sc.assignedTask[d] # None
                        /\ r.sc.assignedTask[d] = ap[r.sc.assignedThread[d]]
                        /\ r.th.status[r.sc.assignedThread[d]] # "IDLE"
      BY Zenon
    <2>1. CASE d = c
      <3>1. r.sc.assignedThread[d] = t /\ r.sc.assignedTask[d] = k
        BY <1>2, <1>3, <1>4, <2>1, NoneIsNone, Zenon
      <3> QED BY <3>1, TasksAreThreads, Zenon
    <2>2. CASE d # c
      <3> DEFINE u == st.sc.assignedThread[d]
      <3>1. r.sc.assignedThread[d] = u /\ u \in Threads
        BY <1>2, <1>3, <2>2
      <3>2. u # t
        BY <1>2, <3>1, NoneIsNone DEF Placement
      <3>3. /\ st.sc.assignedTask[d] # None
            /\ st.sc.assignedTask[d] = ap[u]
            /\ st.th.status[u] # "IDLE"
        BY <3>1, NoneIsNone, Zenon DEF Placement
      <3> QED BY <1>1, <1>3, <3>1, <3>2, <3>3, Zenon DEF PinsTo
    <2> QED BY <2>1, <2>2, Zenon
  <1> QED BY <1>3, <1>5, <1>6, <1>7, Zenon DEF Placement

\* The application of a thread without a core does not matter.
LEMMA PlacementApp ==
  ASSUME NEW sc \in CoreTable, NEW x, NEW ap, NEW ap2, NEW A, NEW t \in Threads,
         Placement(sc, x, ap, A), x.affinity[t] = None,
         \A u \in Threads \ {t} : ap2[u] = ap[u]
  PROVE  Placement(sc, x, ap2, A)
  <1>1. \A c \in Cores : sc.assignedThread[c] \in (Threads \ {t}) \cup {None}
    BY NoneIsNone DEF Placement, CoreTable
  <1> QED BY <1>1, Zenon DEF Placement

\* Free cores given to a task that is made active have no threads.
LEMMA AssignPlacement ==
  ASSUME NEW sc \in CoreTable, NEW x, NEW ap, NEW A, Placement(sc, x, ap, A),
         NEW k \in Tasks, NEW cs \in SUBSET FreeCores(sc)
  PROVE  Placement(Assign(sc, k, cs), x, ap, A \cup {k})
  <1> DEFINE r == Assign(sc, k, cs)
  <1>1. /\ r.assignedThread = sc.assignedThread
        /\ \A c \in Cores : r.assignedTask[c] = IF c \in cs THEN k
                                                ELSE sc.assignedTask[c]
    BY Zenon DEF Assign, CoreTable
  <1>2. \A c \in cs : sc.assignedTask[c] = None /\ c \in Cores
    BY Zenon DEF FreeCores
  <1> HIDE DEF r
  <1> QED BY <1>1, <1>2 DEF Placement, r

\* Everything the second invariant says of st, with n threads created.
Placed(st, ap, n) ==
  /\ st \in States
  /\ Partition(st.tk)
  /\ Placement(st.sc, st.th, ap, st.tk.active)
  /\ Alive(st.tk, st.th, n)

\* Queueing tasks that wait to be scheduled, or wait in the queue already.
LEMMA EnqueuePartition ==
  ASSUME NEW tk \in TaskTable, Partition(tk),
         NEW ks \in SUBSET (tk.waitingToSchedule \cup tk.waitingInQueue)
  PROVE  LET q == Enqueue(tk, ks)
         IN  /\ q \in TaskTable
             /\ q.waitingToSchedule = tk.waitingToSchedule \ ks
             /\ q.waitingInQueue = tk.waitingInQueue \cup ks
             /\ q.active = tk.active
             /\ q.completed = tk.completed
             /\ Partition(q)
  <1> DEFINE q == Enqueue(tk, ks)
  <1>1. /\ q \in TaskTable
        /\ q.waitingToSchedule = tk.waitingToSchedule \ ks
        /\ q.waitingInQueue = tk.waitingInQueue \cup ks
        /\ q.active = tk.active
        /\ q.completed = tk.completed
    BY Zenon DEF Enqueue, TaskTable
  <1> HIDE DEF q
  <1>2. Partition(q)
    BY <1>1 DEF Partition, TaskTable
  <1> QED BY <1>1, <1>2, Zenon DEF q

\* schedule() of a waiting task keeps task states, cores and threads in
\* agreement; its first thread has to be alive if it exists.
LEMMA SchedulePlaced ==
  ASSUME NEW st, NEW ap, NEW n \in Nat, Placed(st, ap, n), InStep(st.th),
         NEW k \in st.tk.waitingToSchedule \cup st.tk.waitingInQueue,
         NEW init \in BOOLEAN, NEW skew,
         ~init => ap[k] = k /\ st.th.status[k] # "IDLE",
         NEW r \in schedule(st, k, init, skew)
  PROVE  /\ Placed(r.st, ap, n)
         /\ st.tk.waitingToSchedule \ {k} \subseteq r.st.tk.waitingToSchedule
         /\ r.st.tk.completed = st.tk.completed
  <1> DEFINE q == Enqueue(st.tk, {k})
             A == st.tk.active \cup {k}
  <1>1. /\ st \in States
        /\ st.tk \in TaskTable /\ st.sc \in CoreTable /\ st.th \in ThreadLayer
        /\ k \in Tasks /\ k \in Threads
    BY TasksAreThreads, Zenon DEF Placed, States, TaskTable
  <1>2. /\ q \in TaskTable
        /\ q.waitingToSchedule = st.tk.waitingToSchedule \ {k}
        /\ q.waitingInQueue = st.tk.waitingInQueue \cup {k}
        /\ q.active = st.tk.active
        /\ q.completed = st.tk.completed
        /\ Partition(q)
    BY <1>1, EnqueuePartition DEF Placed
  <1> HIDE DEF q
  <1>3. \/ r.st = st
        \/ r.st = [st EXCEPT !.tk = q]
        \/ \E cs \in SUBSET FreeCores(st.sc) : Maps(st, r.st, k, init, cs)
    BY <1>1, ScheduleOutcomes, Zenon DEF q
  <1>4. CASE r.st = st
    BY <1>4, Zenon
  <1>5. CASE r.st = [st EXCEPT !.tk = q]
    <2>1. r.st \in States /\ r.st.tk = q /\ r.st.sc = st.sc /\ r.st.th = st.th
      BY <1>1, <1>2, <1>5, StateWithTasks
    <2> QED BY <1>2, <2>1, Zenon DEF Placed, Alive
  <1>6. ASSUME NEW cs \in SUBSET FreeCores(st.sc), Maps(st, r.st, k, init, cs)
        PROVE  /\ Placed(r.st, ap, n)
               /\ st.tk.waitingToSchedule \ {k} \subseteq r.st.tk.waitingToSchedule
               /\ r.st.tk.completed = st.tk.completed
    <2>1. PICK m, a \in States :
            /\ m.tk = q
            /\ m.sc = Assign(st.sc, k, cs)
            /\ m.th = st.th
            /\ IF init THEN a = m ELSE Pins(m, a, k, k)
            /\ r.st \in States
            /\ r.st.tk = Activate(a.tk, k)
            /\ r.st.sc = a.sc
            /\ r.st.th = a.th
      BY <1>6, Zenon DEF Maps, q
    <2>2. Placement(m.sc, m.th, ap, A)
      BY <1>1, <2>1, AssignPlacement DEF Placed
    <2>3. k \notin st.tk.active
      BY <1>1, Zenon DEF Placed, Partition
    <2>4. /\ Placement(a.sc, a.th, ap, A)
          /\ a.tk = q
          /\ \A u \in Threads : st.th.status[u] # "IDLE" => a.th.status[u] # "IDLE"
      <3>1. CASE init
        BY <2>1, <2>2, <3>1, Zenon
      <3>2. CASE ~init
        <4>1. Pins(m, a, k, k)
          BY <2>1, <3>2, Zenon
        <4>2. PICK c \in Cores \cup {None} : PinsTo(m, a, k, k, c)
          BY <4>1, Zenon DEF Pins
        <4>3. /\ a.tk = q
              /\ \A u \in Threads : st.th.status[u] # "IDLE" => a.th.status[u] # "IDLE"
          BY <2>1, <4>2, Zenon DEF PinsTo
        <4>4. m.th.affinity[k] = None
          BY <1>1, <2>1, <2>3, Zenon DEF Placed, Placement, Detached
        <4>5. a.th.status[k] # "IDLE"
          BY <1>1, <3>2, <4>3, Zenon
        <4>6. Placement(a.sc, a.th, ap, A)
          <5>1. ap[k] = k
            BY <3>2, Zenon
          <5> HIDE DEF A
          <5> QED BY <1>1, <2>2, <4>1, <4>4, <4>5, <5>1, PinsPlacement
        <4> QED BY <4>3, <4>6, Zenon
      <3> QED BY <3>1, <3>2, Zenon
    <2>5. /\ r.st.tk.waitingToSchedule = q.waitingToSchedule
          /\ r.st.tk.waitingInQueue = q.waitingInQueue \ {k}
          /\ r.st.tk.active = A
          /\ r.st.tk.completed = st.tk.completed
      BY <1>2, <2>1, <2>4 DEF Activate, TaskTable
    <2>6. Partition(r.st.tk)
      BY <1>1, <1>2, <2>5, Zenon DEF Partition
    <2>7. Placement(r.st.sc, r.st.th, ap, r.st.tk.active)
      BY <2>1, <2>4, <2>5, Zenon
    <2>8. Alive(r.st.tk, r.st.th, n)
      BY <2>1, <2>4, <2>5, TasksAreThreads, Zenon DEF Placed, Alive
    <2> QED BY <1>2, <2>1, <2>5, <2>6, <2>7, <2>8, Zenon DEF Placed
  <1> QED BY <1>3, <1>4, <1>5, <1>6, Zenon

\* An operation that keeps the masks keeps the agreement.
LEMMA KeepsPlacement ==
  ASSUME NEW x \in ThreadLayer, NEW y, Keeps(x, y), NEW sc \in CoreTable,
         NEW ap, NEW A, Placement(sc, x, ap, A)
  PROVE  Placement(sc, y, ap, A)
  <1>1. \A c \in Cores : sc.assignedThread[c] \in Threads \cup {None}
    BY Zenon DEF CoreTable
  <1> QED BY <1>1, TasksAreThreads DEF Keeps, Placement

\* And so do the states of the first threads.
LEMMA KeepsAlive ==
  ASSUME NEW x, NEW y, Keeps(x, y), NEW tk, NEW n, Alive(tk, x, n)
  PROVE  Alive(tk, y, n)
  BY TasksAreThreads, Zenon DEF Keeps, Alive

\* An exiting thread, taken off its core by onThreadExit() (from x to st.th),
\* gives back the core it is pinned to.
LEMMA ReleaseThreadPlacement ==
  ASSUME NEW st \in States, InStep(st.th), NEW t \in Threads, NEW x, NEW ap, NEW A,
         Placement(st.sc, x, ap, A),
         st.th.affinity = x.affinity,
         st.th.coreRunning[t] = None,
         \A u \in Threads : Detached(x, u) => Detached(st.th, u),
         \A u \in Threads \ {t} : x.status[u] # "IDLE" => st.th.status[u] # "IDLE"
  PROVE  LET r == ReleaseThread(st, t)
         IN  /\ r \in States
             /\ r.tk = st.tk
             /\ r.sc.assignedTask = st.sc.assignedTask
             /\ \A c \in Cores : r.sc.assignedThread[c] =
                  IF st.sc.assignedThread[c] = t THEN None ELSE st.sc.assignedThread[c]
             /\ Detached(r.th, t)
             /\ \A u \in Threads : st.th.status[u] # "IDLE" => r.th.status[u] # "IDLE"
             /\ Placement(r.sc, r.th, ap, A)
  <1> DEFINE held == {c \in Cores : st.sc.assignedThread[c] = t}
             s == [st.sc EXCEPT !.assignedThread =
                     [c \in Cores |-> IF c \in held THEN None ELSE @[c]]]
             a == threadSetAffinity(st.th, t, None)
             y == IF held = {} THEN st.th ELSE a
             r == [tk |-> st.tk, sc |-> s, th |-> y]
  <1> USE NoneIsNone
  <1>1. st.tk \in TaskTable /\ st.sc \in CoreTable /\ Consistent(st.th)
    BY Zenon DEF States, Consistent
  <1>2. st.th.affinity \in [Threads -> Cores \cup {None}]
    BY Zenon DEF States, ThreadLayer
  <1>3. /\ s \in CoreTable
        /\ s.assignedTask = st.sc.assignedTask
        /\ \A c \in Cores : s.assignedThread[c] =
             IF st.sc.assignedThread[c] = t THEN None ELSE st.sc.assignedThread[c]
    BY <1>1, Zenon DEF CoreTable
  <1>4. /\ Consistent(a)
        /\ a.affinity = [st.th.affinity EXCEPT ![t] = None]
        /\ \A u \in Threads \ {t} : Detached(st.th, u) => Detached(a, u)
        /\ a.coreRunning[t] = None
        /\ \A u \in Threads : st.th.status[u] # "IDLE" => a.status[u] # "IDLE"
    BY <1>1, ThreadSetAffinityPins
  <1>5. ReleaseThread(st, t) = r
    BY Zenon DEF ReleaseThread
  <1>6. held = {} => st.th.affinity[t] = None
    BY <1>2 DEF Placement
  <1> HIDE DEF a, s, held
  <1>7. /\ Consistent(y)
        /\ y.affinity = [st.th.affinity EXCEPT ![t] = None]
        /\ \A u \in Threads \ {t} : Detached(st.th, u) => Detached(y, u)
        /\ y.coreRunning[t] = None
        /\ \A u \in Threads : st.th.status[u] # "IDLE" => y.status[u] # "IDLE"
    BY <1>1, <1>2, <1>4, <1>6, Zenon
  <1> HIDE DEF y
  <1>8. Detached(y, t)
    BY <1>2, <1>7, Zenon DEF Detached
  <1>9. r \in States
    BY <1>1, <1>3, <1>7, Zenon DEF States, Consistent
  <1>10. Placement(s, y, ap, A)
    <2>1. \A u \in Threads, c \in Cores : s.assignedThread[c] = u <=> y.affinity[u] = c
      BY <1>2, <1>3, <1>7 DEF Placement
    <2>2. \A k \in Tasks \ A : Detached(y, k)
      BY <1>7, <1>8, TasksAreThreads, Zenon DEF Placement
    <2>3. \A c \in Cores : s.assignedThread[c] # None =>
            /\ s.assignedTask[c] # None
            /\ s.assignedTask[c] = ap[s.assignedThread[c]]
            /\ y.status[s.assignedThread[c]] # "IDLE"
      <3> SUFFICES ASSUME NEW c \in Cores, s.assignedThread[c] # None
                   PROVE  /\ s.assignedTask[c] # None
                          /\ s.assignedTask[c] = ap[s.assignedThread[c]]
                          /\ y.status[s.assignedThread[c]] # "IDLE"
        BY Zenon
      <3>1. /\ s.assignedThread[c] = st.sc.assignedThread[c]
            /\ s.assignedThread[c] \in Threads \ {t}
        BY <1>1, <1>3, Zenon DEF CoreTable
      <3> QED BY <1>3, <1>7, <3>1 DEF Placement
    <2> QED BY <1>3, <2>1, <2>2, <2>3, Zenon DEF Placement
  <1> QED BY <1>3, <1>5, <1>7, <1>8, <1>9, <1>10

\* When a task ends, its cores become free; none of them has a thread left.
LEMMA FinishTaskPlacement ==
  ASSUME NEW st \in States, NEW k \in Tasks, NEW ap, NEW A,
         Placement(st.sc, st.th, ap, A), Detached(st.th, k),
         \A c \in Cores : st.sc.assignedTask[c] = k => st.sc.assignedThread[c] = None
  PROVE  LET r == FinishTask(st, k)
         IN  /\ r \in States
             /\ r.th = st.th
             /\ r.tk.waitingToSchedule = st.tk.waitingToSchedule
             /\ r.tk.waitingInQueue = st.tk.waitingInQueue
             /\ r.tk.active = st.tk.active \ {k}
             /\ r.tk.completed = st.tk.completed \cup {k}
             /\ r.tk.due = st.tk.due
             /\ Placement(r.sc, r.th, ap, A \ {k})
  <1> DEFINE y == [st.tk EXCEPT !.completed = @ \cup {k}, !.active = @ \ {k}]
             s == [st.sc EXCEPT !.assignedTask =
                     [c \in Cores |-> IF @[c] = k THEN None ELSE @[c]]]
             r == [tk |-> y, sc |-> s, th |-> st.th]
  <1>1. st.tk \in TaskTable /\ st.sc \in CoreTable /\ st.th \in ThreadLayer
    BY Zenon DEF States
  <1>2. /\ y \in TaskTable
        /\ y.due = st.tk.due
        /\ y.waitingToSchedule = st.tk.waitingToSchedule
        /\ y.waitingInQueue = st.tk.waitingInQueue
        /\ y.active = st.tk.active \ {k}
        /\ y.completed = st.tk.completed \cup {k}
    BY <1>1, Zenon DEF TaskTable
  <1>3. /\ s \in CoreTable
        /\ s.assignedThread = st.sc.assignedThread
        /\ \A c \in Cores : s.assignedTask[c] =
             IF st.sc.assignedTask[c] = k THEN None ELSE st.sc.assignedTask[c]
    BY <1>1, Zenon DEF CoreTable
  <1>4. FinishTask(st, k) = r
    BY Zenon DEF FinishTask
  <1> HIDE DEF y, s
  <1>5. r \in States
    BY <1>1, <1>2, <1>3, Zenon DEF States
  <1>6. Placement(s, st.th, ap, A \ {k})
    BY <1>3 DEF Placement
  <1> QED BY <1>2, <1>4, <1>5, <1>6

\* Prefetching maps a task whose first thread exists.
LEMMA PrefetchPlaced ==
  ASSUME NEW st, NEW ap, NEW n \in Nat, Placed(st, ap, n), InStep(st.th),
         NumTasks <= n, \A k \in Tasks : ap[k] = k,
         NEW b \in Nat, DueAbove(st.tk, b), NEW skew \in Nat,
         NEW r \in Prefetch(st, skew)
  PROVE  Placed(r, ap, n)
  <1> DEFINE from == PrefetchFrom(st, skew)
             k == taskFrontOfQueue(from.tk)
             go == FreeCores(st.sc) = Cores /\ st.tk.waitingToSchedule # {}
  <1>1. CASE ~go
    BY <1>1, Zenon DEF Prefetch
  <1>2. CASE go
    <2>1. PICK q \in schedule(from, k, FALSE, skew) : r = q.st
      BY <1>2, Zenon DEF Prefetch, PrefetchFrom
    <2>2. /\ from \in States
          /\ from.sc = st.sc /\ from.th = st.th
          /\ from.tk.waitingInQueue # {}
          /\ from.tk.active = st.tk.active
          /\ from.tk.completed = st.tk.completed
          /\ \E ks \in SUBSET st.tk.waitingToSchedule :
               /\ from.tk.waitingToSchedule = st.tk.waitingToSchedule \ ks
               /\ from.tk.waitingInQueue = st.tk.waitingInQueue \cup ks
      <3>1. Fetched(st, from, b)
        BY <1>2, PrefetchFromQueue, Zenon DEF Placed
      <3> QED BY <3>1, Zenon DEF Fetched
    <2> HIDE DEF from
    <2>3. Partition(from.tk)
      BY <2>2, Zenon DEF Placed, Partition
    <2>4. Placed(from, ap, n)
      BY <2>2, <2>3, Zenon DEF Placed, Alive
    <2>5. k \in from.tk.waitingInQueue /\ k \in Tasks
      BY <2>2, FrontOfQueue, Zenon DEF States, TaskTable
    <2> HIDE DEF k
    <2>6. k < n
      BY <2>5, NumTasksIsNat DEF Tasks
    <2>7. k \notin from.tk.completed
      BY <2>3, <2>5, Zenon DEF Partition
    <2>8. ap[k] = k /\ from.th.status[k] # "IDLE"
      BY <2>4, <2>5, <2>6, <2>7, Zenon DEF Placed, Alive
    <2>9. Placed(q.st, ap, n)
      BY <2>2, <2>4, <2>5, <2>8, SchedulePlaced, Zenon
    <2> QED BY <2>1, <2>9, Zenon
  <1> QED BY <1>1, <1>2, Zenon

FirstApps == \A k \in Tasks : k < numThreads => app[k] = k

Uncreated == \A k \in Tasks : k >= numThreads => k \in openTasks.waitingToSchedule

\* The inductive invariant behind TaskStatesPartition, AssignedAffinity and
\* UncontestedCores.
PlacedInv ==
  /\ Partition(openTasks)
  /\ Placement(systemCores, threads, app, openTasks.active)
  /\ Alive(openTasks, threads, numThreads)
  /\ FirstApps
  /\ Uncreated

\* In terms of the record the operators work on.
LEMMA StateIsPlaced ==
  ASSUME SoundInv, PlacedInv
  PROVE  Placed(State, app, numThreads) /\ InStep(State.th)
  <1>1. State \in States /\ State.tk = openTasks /\ State.sc = systemCores
          /\ State.th = threads /\ Consistent(threads)
    BY StateIsSound, Zenon
  <1> QED BY <1>1, Zenon DEF PlacedInv, Placed, Consistent

\* A placed state may become the current one.
LEMMA BecomePlaced ==
  ASSUME NEW st, Placed(st, app', numThreads'), Become(st)
  PROVE  /\ Partition(openTasks)'
         /\ Placement(systemCores, threads, app, openTasks.active)'
         /\ Alive(openTasks, threads, numThreads)'
  <1>1. openTasks' = st.tk /\ systemCores' = st.sc /\ threads' = st.th
    BY Zenon DEF Become
  <1> QED BY <1>1 DEF Placed, Partition, Placement, Alive, Detached

\* Initially no task has cores.
LEMMA InitPlaced == Init => PlacedInv
  <1> SUFFICES ASSUME Init PROVE PlacedInv
    BY Zenon
  <1>1. Partition(openTasks) /\ Uncreated
    BY Zenon DEF Init, Partition, Uncreated
  <1>2. Placement(systemCores, threads, app, openTasks.active)
    BY NoneIsNone, TasksAreThreads, Zenon DEF Init, ThreadLayerInit, Placement, Detached
  <1>3. Alive(openTasks, threads, numThreads) /\ FirstApps
    BY DEF Init, Alive, FirstApps, Tasks
  <1> QED BY <1>1, <1>2, <1>3, Zenon DEF PlacedInv

\* What an exiting thread leaves to Prefetch().
ExitState(t) ==
  LET released == ReleaseThread([State EXCEPT !.th = onThreadExit(threads, t)], t)
  IN  IF t \in Tasks THEN FinishTask(released, t) ELSE released

\* An exiting thread has a core, so the task of an exiting first thread is
\* active; since it exits last, no core of the task has another thread.
LEMMA ExitStatePlaced ==
  ASSUME SoundInv, PlacedInv, "abandon" \notin Workload,
         NEW t \in Threads, ThreadExit(t)
  PROVE  /\ Placed(ExitState(t), app, numThreads)
         /\ Sound(ExitState(t), numThreads)
         /\ ExitState(t).tk.due = openTasks.due
         /\ ExitState(t).tk.waitingToSchedule = openTasks.waitingToSchedule
         /\ ExitState(t).tk.waitingInQueue = openTasks.waitingInQueue
         /\ ExitState(t).tk.active = openTasks.active \ {t}
  <1> DEFINE n == numThreads
             x == onThreadExit(threads, t)
             s == [State EXCEPT !.th = x]
             released == ReleaseThread(s, t)
             done == IF t \in Tasks THEN FinishTask(released, t) ELSE released
             A == openTasks.active
  <1>1. /\ LockFree /\ Executes(t)
        /\ t \in Tasks =>
             \A u \in Threads \ {t} : app[u] = t => threads.status[u] = "IDLE"
    BY Zenon DEF ThreadExit
  <1>2. n \in Nat /\ t < n
    BY <1>1, Counters, ExecutesCreated, Zenon DEF SoundInv
  <1>3. ExitState(t) = done
    BY Zenon DEF ExitState
  <1>4. /\ State \in States /\ Sound(State, n) /\ Consistent(threads)
        /\ State.tk = openTasks /\ State.sc = systemCores /\ State.th = threads
    BY StateIsSound, Zenon
  <1>5. /\ Consistent(x)
        /\ x.affinity = threads.affinity
        /\ x.coreRunning[t] = None
        /\ \A u \in Threads : Detached(threads, u) => Detached(x, u)
        /\ \A u \in Threads \ {t} : threads.status[u] # "IDLE" => x.status[u] # "IDLE"
    BY <1>1, <1>4, OnThreadExitDetaches DEF Executes
  <1> HIDE DEF x
  <1>6. s \in States /\ s.tk = openTasks /\ s.sc = systemCores /\ s.th = x
    BY <1>4, <1>5, Zenon DEF States, Consistent
  <1> HIDE DEF s
  <1>7. Sound(s, n)
    BY <1>4, <1>5, <1>6, Zenon DEF Sound, Consistent, Fresh
  <1>8. Sound(released, n)
    BY <1>2, <1>7, ReleaseThreadSound, Zenon
  <1>9. /\ released \in States
        /\ released.tk = s.tk
        /\ released.sc.assignedTask = s.sc.assignedTask
        /\ \A c \in Cores : released.sc.assignedThread[c] =
             IF s.sc.assignedThread[c] = t THEN None ELSE s.sc.assignedThread[c]
        /\ Detached(released.th, t)
        /\ \A u \in Threads : s.th.status[u] # "IDLE" => released.th.status[u] # "IDLE"
        /\ Placement(released.sc, released.th, app, A)
    <2>1. Placement(s.sc, threads, app, A) /\ InStep(s.th)
      BY <1>5, <1>6, Zenon DEF PlacedInv, Consistent
    <2>2. /\ s.th.affinity = threads.affinity
          /\ s.th.coreRunning[t] = None
          /\ \A u \in Threads : Detached(threads, u) => Detached(s.th, u)
          /\ \A u \in Threads \ {t} :
               threads.status[u] # "IDLE" => s.th.status[u] # "IDLE"
      BY <1>5, <1>6, Zenon
    <2> HIDE DEF A
    <2> QED BY <1>6, <2>1, <2>2, ReleaseThreadPlacement, Zenon
  <1> HIDE DEF released
  <1>10. /\ released \in States
         /\ released.tk = openTasks
         /\ Detached(released.th, t)
         /\ Placement(released.sc, released.th, app, A)
    BY <1>6, <1>9, Zenon
  <1>11. ASSUME NEW c \in Cores, released.sc.assignedTask[c] = t,
                released.sc.assignedThread[c] # None
         PROVE  /\ systemCores.assignedTask[c] = t
                /\ systemCores.assignedThread[c] \notin {None, t}
    <2>1. /\ released.sc.assignedTask[c] = systemCores.assignedTask[c]
          /\ released.sc.assignedThread[c] =
               IF systemCores.assignedThread[c] = t THEN None ELSE systemCores.assignedThread[c]
      BY <1>6, <1>9, Zenon
    <2> QED BY <1>11, <2>1, Zenon
  <1>12. ASSUME NEW k \in Tasks, k # t, k < n, k \notin openTasks.completed
         PROVE  released.th.status[k] # "IDLE"
    <2>1. k \in Threads /\ k \in Threads \ {t}
      BY <1>12, TasksAreThreads, Zenon
    <2>2. threads.status[k] # "IDLE"
      <3>1. Alive(openTasks, threads, n)
        BY Zenon DEF PlacedInv
      <3> QED BY <1>12, <3>1, Zenon DEF Alive
    <2>3. x.status[k] # "IDLE"
      BY <1>5, <2>1, <2>2, Zenon
    <2> QED BY <1>6, <1>9, <2>1, <2>3, Zenon
  <1>13. /\ Placed(done, app, n)
         /\ Sound(done, n)
         /\ done.tk.due = openTasks.due
         /\ done.tk.waitingToSchedule = openTasks.waitingToSchedule
         /\ done.tk.waitingInQueue = openTasks.waitingInQueue
         /\ done.tk.active = A \ {t}
    <2>1. CASE t \notin Tasks
      <3>1. done = released
        BY <2>1, Zenon
      <3>2. Alive(released.tk, released.th, n)
        BY <1>10, <1>12, <2>1, Zenon DEF Alive
      <3>3. A \ {t} = A
        BY <2>1, Zenon DEF SoundInv, TypeOK, TaskTable
      <3>4. Partition(openTasks)
        BY Zenon DEF PlacedInv
      <3> HIDE DEF done
      <3>5. Placed(done, app, n)
        BY <1>10, <3>1, <3>2, <3>4, Zenon DEF Placed
      <3> QED BY <1>8, <1>10, <3>1, <3>3, <3>5, Zenon
    <2>2. CASE t \in Tasks
      <3>1. done = FinishTask(released, t)
        BY <2>2, Zenon
      <3>2. t \in openTasks.active
        <4>1. ~Detached(threads, t)
          BY <1>1, Zenon DEF Executes, Detached
        <4>2. Placement(systemCores, threads, app, openTasks.active)
          BY Zenon DEF PlacedInv
        <4> QED BY <2>2, <4>1, <4>2, Zenon DEF Placement
      <3>3. \A c \in Cores : released.sc.assignedTask[c] = t =>
              released.sc.assignedThread[c] = None
        <4> SUFFICES ASSUME NEW c \in Cores, systemCores.assignedTask[c] = t,
                            systemCores.assignedThread[c] \notin {None, t}
                     PROVE  FALSE
          BY <1>11, Zenon
        <4> DEFINE u == systemCores.assignedThread[c]
        <4>1. u \in Threads \ {t}
          BY Zenon DEF SoundInv, TypeOK, CoreTable
        <4>2. app[u] = t /\ threads.status[u] # "IDLE"
          BY Zenon DEF PlacedInv, Placement
        <4> QED BY <1>1, <2>2, <4>1, <4>2, Zenon
      <3> HIDE DEF done
      <3>4. /\ done \in States
            /\ done.th = released.th
            /\ done.tk.waitingToSchedule = openTasks.waitingToSchedule
            /\ done.tk.waitingInQueue = openTasks.waitingInQueue
            /\ done.tk.active = A \ {t}
            /\ done.tk.completed = openTasks.completed \cup {t}
            /\ done.tk.due = openTasks.due
            /\ Placement(done.sc, done.th, app, A \ {t})
        <4> HIDE DEF A
        <4>1. openTasks.active = A
          BY Zenon DEF A
        <4> QED BY <1>10, <2>2, <3>1, <3>3, <4>1, FinishTaskPlacement, Zenon
      <3>5. Partition(done.tk)
        <4>1. Partition(openTasks)
          BY Zenon DEF PlacedInv
        <4> QED BY <2>2, <3>2, <3>4, <4>1, Zenon DEF Partition
      <3>6. Alive(done.tk, done.th, n)
        <4> SUFFICES ASSUME NEW k \in Tasks, k < n,
                            k \notin openTasks.completed \cup {t}
                     PROVE  released.th.status[k] # "IDLE"
          BY <3>4, Zenon DEF Alive
        <4> QED BY <1>12, Zenon
      <3>7. Sound(done, n)
        BY <1>2, <1>8, <2>2, <3>1, FinishTaskSound, Zenon
      <3> QED BY <3>4, <3>5, <3>6, <3>7, Zenon DEF Placed
    <2> QED BY <2>1, <2>2, Zenon
  <1> HIDE DEF done
  <1> QED BY <1>3, <1>13, Zenon

\* Every step preserves the invariant, if no first thread leaves threads of its
\* application behind when it exits.
LEMMA NextPlaced ==
  "abandon" \notin Workload /\ SoundInv /\ PlacedInv /\ [Next]_vars => PlacedInv'
  \* A handler that only changes the thread layer preserves the invariant.
  <1>ThreadStepPlaced.
    ASSUME SoundInv, PlacedInv, Keeps(threads, threads'),
           UNCHANGED <<openTasks, systemCores, app, numThreads>>
    PROVE  PlacedInv'
    <2> USE <1>ThreadStepPlaced
    <2>1. threads \in ThreadLayer /\ systemCores \in CoreTable
      BY Zenon DEF SoundInv, TypeOK
    <2>2. Placement(systemCores, threads', app, openTasks.active)
      BY <2>1, KeepsPlacement, Zenon DEF PlacedInv
    <2>3. Alive(openTasks, threads', numThreads)
      BY KeepsAlive, Zenon DEF PlacedInv
    <2> QED BY <2>2, <2>3 DEF PlacedInv, Partition, Placement, Alive, Detached,
                              FirstApps, Uncreated
  \* A task may be mapped before its first thread exists; the thread is then
  \* pinned to one of its cores.
  <1>CreateFirstPlaced.
    ASSUME SoundInv, PlacedInv, CreateFirst
    PROVE  PlacedInv'
    <2> USE <1>CreateFirstPlaced
    <2> DEFINE n == numThreads
    <2>1. PICK r \in schedule(State, n, TRUE, 0) :
            IF n = 0 /\ ~r.ok
            THEN fault' = "task 0 not mapped" /\ UNCHANGED <<taskVars, app, numThreads>>
            ELSE /\ \E st \in {PlaceNewThread(r.st, n, n)} : Become(st)
                 /\ app' = [app EXCEPT ![n] = n]
                 /\ numThreads' = n + 1
                 /\ UNCHANGED fault
      BY Zenon DEF CreateFirst
    <2>2. n < NumTasks
      BY Zenon DEF CreateFirst
    <2>3. n \in Nat /\ n \in Tasks /\ n \in Threads
      BY <2>2, Counters, NumTasksIsNat DEF SoundInv, Tasks, Threads
    <2>4. CASE n = 0 /\ ~r.ok
      <3>1. UNCHANGED <<taskVars, app, numThreads>>
        BY <2>1, <2>4, Zenon
      <3> QED BY <3>1 DEF taskVars, PlacedInv, Partition, Placement, Alive, Detached,
                          FirstApps, Uncreated
    <2>5. CASE ~(n = 0 /\ ~r.ok)
      <3> DEFINE p == PlaceNewThread(r.st, n, n)
      <3>1. Become(p) /\ app' = [app EXCEPT ![n] = n] /\ numThreads' = n + 1
        BY <2>1, <2>5, Zenon
      <3>2. /\ Placed(State, app, n) /\ InStep(State.th) /\ Sound(State, n)
            /\ State.tk = openTasks
        BY StateIsPlaced, StateIsSound, Zenon
      <3>3. n \in State.tk.waitingToSchedule
        BY <2>3, <3>2 DEF PlacedInv, Uncreated
      <3>4. /\ Placed(r.st, app, n)
            /\ openTasks.waitingToSchedule \ {n} \subseteq r.st.tk.waitingToSchedule
        BY <2>3, <3>2, <3>3, SchedulePlaced, Zenon
      <3>5. Sound(r.st, n)
        BY <2>3, <3>2, ScheduleSound, Zenon
      <3>6. /\ r.st \in States /\ InStep(r.st.th)
            /\ r.st.th.coreRunning[n] = None /\ r.st.th.affinity[n] = None
        BY <2>3, <3>5 DEF Sound, Fresh, Detached
      <3>7. Pins(r.st, p, n, n) /\ p.th.status[n] # "IDLE"
        BY <2>3, <3>6, PlaceNewThreadPins, Zenon
      <3> HIDE DEF p
      <3>8. PICK c \in Cores \cup {None} : PinsTo(r.st, p, n, n, c)
        BY <3>7, Zenon DEF Pins
      <3>9. /\ p \in States
            /\ p.tk = r.st.tk
            /\ \A u \in Threads : r.st.th.status[u] # "IDLE" => p.th.status[u] # "IDLE"
        BY <3>7, <3>8, Zenon DEF Pins, PinsTo
      <3>10. app'[n] = n /\ \A u \in Threads \ {n} : app'[u] = app[u]
        BY <2>3, <3>1, Zenon DEF SoundInv, TypeOK
      <3>11. Placement(p.sc, p.th, app', p.tk.active)
        <4>1. Placement(r.st.sc, r.st.th, app, r.st.tk.active) /\ r.st.sc \in CoreTable
          BY <3>4, Zenon DEF Placed, States
        <4>2. Placement(r.st.sc, r.st.th, app', r.st.tk.active)
          BY <2>3, <3>6, <3>10, <4>1, PlacementApp
        <4> QED BY <2>3, <3>6, <3>7, <3>9, <3>10, <4>2, PinsPlacement, Zenon
      <3>12. Alive(p.tk, p.th, n + 1)
        <4> SUFFICES ASSUME NEW k \in Tasks, k < n + 1, k \notin p.tk.completed
                     PROVE  p.th.status[k] # "IDLE"
          BY Zenon DEF Alive
        <4>1. k = n \/ k < n
          BY <2>3 DEF Tasks
        <4> QED BY <3>4, <3>7, <3>9, <4>1, TasksAreThreads, Zenon DEF Placed, Alive
      <3>13. Placed(p, app', numThreads')
        BY <3>1, <3>4, <3>9, <3>11, <3>12, Zenon DEF Placed
      <3>14. /\ Partition(openTasks)'
             /\ Placement(systemCores, threads, app, openTasks.active)'
             /\ Alive(openTasks, threads, numThreads)'
        BY <3>1, <3>13, BecomePlaced, Zenon
      <3>15. FirstApps'
        <4> SUFFICES ASSUME NEW k \in Tasks, k < n + 1 PROVE app'[k] = k
          BY <3>1, Zenon DEF FirstApps
        <4>1. k = n \/ k < n
          BY <2>3 DEF Tasks
        <4> QED BY <3>10, <4>1, TasksAreThreads, Zenon DEF PlacedInv, FirstApps
      <3>16. Uncreated'
        <4> SUFFICES ASSUME NEW k \in Tasks, k >= n + 1
                     PROVE  k \in openTasks'.waitingToSchedule
          BY <3>1, Zenon DEF Uncreated
        <4>1. k # n /\ k >= n
          BY <2>3 DEF Tasks
        <4>2. openTasks' = r.st.tk
          BY <3>1, <3>9, Zenon DEF Become
        <4> QED BY <3>4, <4>1, <4>2, Zenon DEF PlacedInv, Uncreated
      <3> QED BY <3>14, <3>15, <3>16, Zenon DEF PlacedInv
    <2> QED BY <2>4, <2>5, Zenon
  \* A spawned thread is pinned to a core of its task.
  <1>SpawnPlaced.
    ASSUME SoundInv, PlacedInv, NEW t \in Threads, Spawn(t)
    PROVE  PlacedInv'
    <2> USE <1>SpawnPlaced
    <2> DEFINE n == numThreads
               k == app[t]
               p == PlaceNewThread(State, n, k)
    <2>1. n < MaxThreads /\ NumTasks <= n
      BY Counters, NumTasksIsNat, Zenon DEF Spawn, LockFree, SoundInv
    <2>2. k \in Tasks
      BY ExecutesCreated, Zenon DEF Spawn
    <2>3. n \in Nat /\ n \in Threads /\ n \notin Tasks
      BY <2>1, Counters, NumTasksIsNat DEF SoundInv, Threads, Tasks
    <2>4. \/ UNCHANGED <<taskVars, app, numThreads>>
          \/ Become(p) /\ app' = [app EXCEPT ![n] = k] /\ numThreads' = n + 1
      BY Zenon DEF Spawn
    <2>5. /\ Placed(State, app, n) /\ State \in States /\ InStep(State.th)
          /\ Sound(State, n)
      BY StateIsPlaced, StateIsSound, Zenon
    <2>6. State.th.coreRunning[n] = None /\ State.th.affinity[n] = None
      BY <2>3, <2>5 DEF Sound, Fresh, Detached
    <2>7. Pins(State, p, n, k) /\ p.th.status[n] # "IDLE"
      BY <2>2, <2>3, <2>5, <2>6, PlaceNewThreadPins, Zenon
    <2> HIDE DEF p, k
    <2>8. CASE UNCHANGED <<taskVars, app, numThreads>>
      BY <2>8, SMTT(30) DEF taskVars, PlacedInv, Partition, Placement, Alive, Detached,
                  FirstApps, Uncreated
    <2>9. CASE Become(p) /\ app' = [app EXCEPT ![n] = k] /\ numThreads' = n + 1
      <3>1. PICK c \in Cores \cup {None} : PinsTo(State, p, n, k, c)
        BY <2>7, Zenon DEF Pins
      <3>2. /\ p \in States
            /\ p.tk = State.tk
            /\ \A u \in Threads : State.th.status[u] # "IDLE" => p.th.status[u] # "IDLE"
        BY <2>7, <3>1, Zenon DEF Pins, PinsTo
      <3>3. app'[n] = k /\ \A u \in Threads \ {n} : app'[u] = app[u]
        BY <2>3, <2>9, Zenon DEF SoundInv, TypeOK
      <3>4. Placement(p.sc, p.th, app', p.tk.active)
        <4>1. Placement(State.sc, State.th, app, State.tk.active) /\ State.sc \in CoreTable
          BY <2>5, Zenon DEF Placed, States
        <4>2. Placement(State.sc, State.th, app', State.tk.active)
          BY <2>3, <2>6, <3>3, <4>1, PlacementApp, Zenon
        <4> QED BY <2>2, <2>3, <2>5, <2>6, <2>7, <3>2, <3>3, <4>2, PinsPlacement, Zenon
      <3>5. Alive(p.tk, p.th, n + 1)
        <4> SUFFICES ASSUME NEW j \in Tasks, j \notin p.tk.completed
                     PROVE  p.th.status[j] # "IDLE"
          BY Zenon DEF Alive
        <4>1. j < n /\ j \in Threads
          BY <2>1, <2>3, NumTasksIsNat, TasksAreThreads DEF Tasks
        <4> QED BY <2>5, <3>2, <4>1, Zenon DEF Placed, Alive
      <3>6. Placed(p, app', numThreads')
        BY <2>5, <2>9, <3>2, <3>4, <3>5, Zenon DEF Placed
      <3>7. /\ Partition(openTasks)'
            /\ Placement(systemCores, threads, app, openTasks.active)'
            /\ Alive(openTasks, threads, numThreads)'
        BY <2>9, <3>6, BecomePlaced, Zenon
      <3>8. FirstApps'
        <4> SUFFICES ASSUME NEW j \in Tasks PROVE app'[j] = j
          BY Zenon DEF FirstApps
        <4>1. j < n /\ j \in Threads \ {n}
          BY <2>1, <2>3, NumTasksIsNat, TasksAreThreads DEF Tasks
        <4> QED BY <3>3, <4>1, Zenon DEF PlacedInv, FirstApps
      <3>9. Uncreated'
        <4>1. \A j \in Tasks : ~(j >= n + 1)
          BY <2>1, <2>3, NumTasksIsNat DEF Tasks
        <4> QED BY <2>9, <4>1, Zenon DEF Uncreated
      <3> QED BY <3>7, <3>8, <3>9, Zenon DEF PlacedInv
    <2> QED BY <2>4, <2>8, <2>9, Zenon
  \* The exit of a thread preserves the invariant.
  <1>ThreadExitPlaced.
    ASSUME SoundInv, PlacedInv, "abandon" \notin Workload,
           NEW t \in Threads, ThreadExit(t)
    PROVE  PlacedInv'
    <2> USE <1>ThreadExitPlaced
    <2> DEFINE n == numThreads
               done == ExitState(t)
    <2>1. /\ LockFree
          /\ UNCHANGED <<app, numThreads, phase, pc>>
          /\ \E skew \in 0 .. MaxSkew : \E st \in Prefetch(done, skew) : Become(st)
      BY Zenon DEF ThreadExit, ExitState
    <2>2. PICK skew \in 0 .. MaxSkew : \E st \in Prefetch(done, skew) : Become(st)
      BY <2>1, Zenon
    <2>3. PICK st \in Prefetch(done, skew) : Become(st)
      BY <2>2, Zenon
    <2>4. n \in Nat /\ NumTasks <= n /\ skew \in Nat
      <3>1. MaxSkew \in Nat
        BY SchedulerAssumption, Zenon
      <3>2. n \in Nat /\ NumTasks \in Nat
        BY Counters, NumTasksIsNat, Zenon DEF SoundInv
      <3> QED BY <2>1, <3>1, <3>2 DEF LockFree
    <2>5. /\ Placed(done, app, n)
           /\ Sound(done, n)
           /\ done.tk.due = openTasks.due
           /\ done.tk.waitingToSchedule = openTasks.waitingToSchedule
      BY ExitStatePlaced, Zenon
    <2> HIDE DEF done
    <2>6. Placed(st, app, n)
      <3>1. Age \in Nat
        BY Counters, Zenon DEF Age, SoundInv
      <3>2. DueAbove(done.tk, Age)
        BY <2>5, Zenon DEF SoundInv, DueAbove
      <3>3. \A k \in Tasks : app[k] = k
        BY <2>4, NumTasksIsNat DEF PlacedInv, FirstApps, Tasks
      <3>4. InStep(done.th)
        BY <2>5, Zenon DEF Sound
      <3> QED BY <2>4, <2>5, <3>1, <3>2, <3>3, <3>4, PrefetchPlaced, Zenon
    <2>7. /\ Partition(openTasks)'
           /\ Placement(systemCores, threads, app, openTasks.active)'
           /\ Alive(openTasks, threads, numThreads)'
      BY <2>1, <2>3, <2>6, BecomePlaced, Zenon
    <2>8. FirstApps'
      BY <2>1, Zenon DEF PlacedInv, FirstApps
    <2>9. Uncreated'
      <3>1. \A k \in Tasks : ~(k >= n)
        BY <2>4, NumTasksIsNat DEF Tasks
      <3> QED BY <2>1, <3>1, Zenon DEF Uncreated
    <2> QED BY <2>7, <2>8, <2>9, Zenon DEF PlacedInv
  \* A migration that leaves table and layer in agreement preserves the invariant.
  <1>MigrationPlaced.
    ASSUME SoundInv, PlacedInv, NEW a \in Cores, NEW b \in Cores, Migration(a, b),
           Placement(systemCores', threads', app, openTasks.active),
           \A u \in Threads : threads.status[u] # "IDLE" => threads'.status[u] # "IDLE"
    PROVE  PlacedInv'
    <2> USE <1>MigrationPlaced
    <2>1. UNCHANGED <<openTasks, app, numThreads>>
      BY Zenon DEF Migration
    <2>2. Alive(openTasks, threads, numThreads)'
      BY <2>1, TasksAreThreads, Zenon DEF PlacedInv, Alive
    <2> QED BY <2>1, <2>2, Zenon DEF PlacedInv, Partition, Placement, Detached, FirstApps,
                              Uncreated
  \* Task and thread of a core move together to the unused core.
  <1>MovePlaced.
    ASSUME SoundInv, PlacedInv, NEW a \in Cores, NEW b \in Cores, Move(a, b)
    PROVE  PlacedInv'
    <2> USE <1>MovePlaced
    <2> DEFINE t == systemCores.assignedThread[a]
               f == systemCores.assignedTask
               g == systemCores.assignedThread
               F == [f EXCEPT ![b] = f[a], ![a] = None]
               G == IF t = None THEN g ELSE [g EXCEPT ![b] = g[a], ![a] = None]
               A == openTasks.active
    <2> USE NoneIsNone
    <2>1. /\ Migration(a, b) /\ a # b /\ f[a] # None /\ f[b] = None
          /\ threads' = MigrateThread(threads, t, b)
          /\ systemCores' = [systemCores EXCEPT !.assignedTask = F, !.assignedThread = G]
      BY Zenon DEF Move, Migration
    <2>2. /\ f \in [Cores -> Tasks \cup {None}]
          /\ g \in [Cores -> Threads \cup {None}]
          /\ threads.affinity \in [Threads -> Cores \cup {None}]
          /\ systemCores \in CoreTable
      BY Zenon DEF SoundInv, TypeOK, CoreTable, ThreadLayer
    <2>3. /\ \A u \in Threads, c \in Cores : g[c] = u <=> threads.affinity[u] = c
          /\ \A k \in Tasks \ A : Detached(threads, k)
          /\ \A c \in Cores : f[c] # None => f[c] \in A
          /\ \A c \in Cores : g[c] # None =>
               f[c] # None /\ f[c] = app[g[c]] /\ threads.status[g[c]] # "IDLE"
      BY Zenon DEF PlacedInv, Placement
    <2>4. g[b] = None
      BY <2>1, <2>3, Zenon
    <2>5. /\ Consistent(threads')
          /\ threads'.affinity = IF t = None THEN threads.affinity
                                 ELSE [threads.affinity EXCEPT ![t] = b]
          /\ \A u \in Threads \ {t} : Detached(threads, u) => Detached(threads', u)
          /\ \A u \in Threads : threads.status[u] # "IDLE" => threads'.status[u] # "IDLE"
      BY <2>1, <2>2, StateIsSound, MigrateThreadPins
    <2>6. \A c \in Cores : /\ F[c] = IF c = a THEN None ELSE IF c = b THEN f[a] ELSE f[c]
                           /\ G[c] = IF c = a THEN None ELSE IF c = b THEN g[a] ELSE g[c]
      BY <2>1, <2>2, <2>4, Zenon
    <2> HIDE DEF F, G
    <2>7. systemCores'.assignedTask = F /\ systemCores'.assignedThread = G
      BY <2>1, <2>2, Zenon DEF CoreTable
    <2>8. \A u \in Threads, c \in Cores : G[c] = u <=> threads'.affinity[u] = c
      BY <2>1, <2>2, <2>3, <2>4, <2>5, <2>6
    <2>9. \A k \in Tasks \ A : Detached(threads', k)
      <3>1. \A k \in Tasks \ A : k \in Threads \ {t}
        BY <2>2, <2>3, TasksAreThreads DEF Detached
      <3> QED BY <2>3, <2>5, <3>1, Zenon
    <2>10. \A c \in Cores : F[c] # None => F[c] \in A
      BY <2>3, <2>6, Zenon
    <2>11. \A c \in Cores : G[c] # None =>
             F[c] # None /\ F[c] = app[G[c]] /\ threads'.status[G[c]] # "IDLE"
      BY <2>2, <2>3, <2>5, <2>6, SMTT(30)
    <2>12. Placement(systemCores', threads', app, A)
      BY <2>7, <2>8, <2>9, <2>10, <2>11, SMTT(30) DEF Placement
    <2> QED BY <2>1, <2>5, <2>12, <1>MigrationPlaced, Zenon
  \* Tasks and threads of two cores change places together.
  <1>SwapPlaced.
    ASSUME SoundInv, PlacedInv, NEW a \in Cores, NEW b \in Cores, Swap(a, b)
    PROVE  PlacedInv'
    <2> USE <1>SwapPlaced
    <2> DEFINE f == systemCores.assignedTask
               g == systemCores.assignedThread
               F == [f EXCEPT ![a] = f[b], ![b] = f[a]]
               G == [g EXCEPT ![a] = g[b], ![b] = g[a]]
               x == MigrateThread(threads, g[a], b)
               y == MigrateThread(x, g[b], a)
               A == openTasks.active
    <2> USE NoneIsNone
    <2>1. /\ Migration(a, b) /\ a # b
          /\ threads' = y
          /\ systemCores' = [assignedTask |-> F, assignedThread |-> G]
      BY Zenon DEF Swap, Migration
    <2>2. /\ f \in [Cores -> Tasks \cup {None}]
          /\ g \in [Cores -> Threads \cup {None}]
          /\ threads.affinity \in [Threads -> Cores \cup {None}]
      BY Zenon DEF SoundInv, TypeOK, CoreTable, ThreadLayer
    <2>3. /\ \A u \in Threads, c \in Cores : g[c] = u <=> threads.affinity[u] = c
          /\ \A k \in Tasks \ A : Detached(threads, k)
          /\ \A c \in Cores : f[c] # None => f[c] \in A
          /\ \A c \in Cores : g[c] # None =>
               f[c] # None /\ f[c] = app[g[c]] /\ threads.status[g[c]] # "IDLE"
      BY Zenon DEF PlacedInv, Placement
    <2>4. /\ Consistent(x)
          /\ x.affinity = IF g[a] = None THEN threads.affinity
                          ELSE [threads.affinity EXCEPT ![g[a]] = b]
          /\ \A u \in Threads \ {g[a]} : Detached(threads, u) => Detached(x, u)
          /\ \A u \in Threads : threads.status[u] # "IDLE" => x.status[u] # "IDLE"
      BY <2>2, StateIsSound, MigrateThreadPins, SMTT(30)
    <2> HIDE DEF x
    <2>a. Consistent(x)
      BY <2>4, Zenon
    <2>b. g[b] \in Threads \cup {None}
      BY <2>2, Zenon
    <2>5. /\ y.affinity = IF g[b] = None THEN x.affinity
                          ELSE [x.affinity EXCEPT ![g[b]] = a]
          /\ \A u \in Threads \ {g[b]} : Detached(x, u) => Detached(y, u)
          /\ \A u \in Threads : x.status[u] # "IDLE" => y.status[u] # "IDLE"
      BY <2>a, <2>b, MigrateThreadPins
    <2> HIDE DEF y
    <2>6. \A c \in Cores : /\ F[c] = IF c = a THEN f[b] ELSE IF c = b THEN f[a] ELSE f[c]
                           /\ G[c] = IF c = a THEN g[b] ELSE IF c = b THEN g[a] ELSE g[c]
      BY <2>1, <2>2, Zenon
    <2> HIDE DEF F, G
    <2>7. systemCores'.assignedTask = F /\ systemCores'.assignedThread = G
      BY <2>1, Zenon
    <2>8. g[a] = None \/ g[a] # g[b]
      BY <2>1, <2>2, <2>3
    <2>9. \A u \in Threads : y.affinity[u] = IF u = g[a] THEN b ELSE IF u = g[b] THEN a
                                             ELSE threads.affinity[u]
      BY <2>2, <2>4, <2>5, <2>8
    <2>10. \A u \in Threads, c \in Cores : G[c] = u <=> y.affinity[u] = c
      BY <2>1, <2>2, <2>3, <2>6, <2>8, <2>9, SMTT(30)
    <2>11. \A k \in Tasks \ A : Detached(y, k)
      <3>1. \A k \in Tasks \ A : k \in Threads \ {g[a], g[b]}
        BY <2>2, <2>3, TasksAreThreads, SMTT(30) DEF Detached
      <3> QED BY <2>3, <2>4, <2>5, <3>1, Zenon
    <2>12. \A c \in Cores : F[c] # None => F[c] \in A
      BY <2>3, <2>6, Zenon
    <2>13. \A c \in Cores : G[c] # None =>
             F[c] # None /\ F[c] = app[G[c]] /\ y.status[G[c]] # "IDLE"
      <3>1. \A u \in Threads : threads.status[u] # "IDLE" => y.status[u] # "IDLE"
        BY <2>4, <2>5, Zenon
      <3>2. ASSUME NEW c \in Cores
            PROVE  \E d \in Cores : F[c] = f[d] /\ G[c] = g[d]
        BY <2>6, Zenon
      <3>3. ASSUME NEW d \in Cores, g[d] # None
            PROVE  f[d] # None /\ f[d] = app[g[d]] /\ y.status[g[d]] # "IDLE"
        BY <2>2, <2>3, <3>1, <3>3
      <3> HIDE DEF f, g
      <3> QED BY <3>2, <3>3
    <2>14. Placement(systemCores', threads', app, A)
      BY <2>1, <2>7, <2>10, <2>11, <2>12, <2>13 DEF Placement
    <2>15. \A u \in Threads : threads.status[u] # "IDLE" => threads'.status[u] # "IDLE"
      BY <2>1, <2>4, <2>5, Zenon
    <2> QED BY <2>1, <2>14, <2>15, <1>MigrationPlaced, Zenon
  \* A step that only changes due times and, without touching a mask, the thread
  \* layer preserves the invariant.
  <1>DueStepPlaced.
    ASSUME SoundInv, PlacedInv, Keeps(threads, threads'),
           UNCHANGED <<systemCores, app, numThreads>>,
           openTasks'.waitingToSchedule = openTasks.waitingToSchedule,
           openTasks'.waitingInQueue = openTasks.waitingInQueue,
           openTasks'.active = openTasks.active,
           openTasks'.completed = openTasks.completed
    PROVE  PlacedInv'
    <2> USE <1>DueStepPlaced
    <2>1. threads \in ThreadLayer /\ systemCores \in CoreTable
      BY Zenon DEF SoundInv, TypeOK
    <2>2. Placement(systemCores, threads', app, openTasks.active)
      BY <2>1, KeepsPlacement, Zenon DEF PlacedInv
    <2>3. Alive(openTasks, threads', numThreads)
      BY KeepsAlive, Zenon DEF PlacedInv
    <2>4. Partition(openTasks)' /\ FirstApps' /\ Uncreated'
      BY Zenon DEF PlacedInv, Partition, FirstApps, Uncreated
    <2> QED BY <2>2, <2>3, <2>4, Zenon DEF PlacedInv, Placement, Alive, Detached
  \* A tick of the clock wakes at most one sleeper and makes tasks older.
  <1>TickPlaced.
    ASSUME SoundInv, PlacedInv, NEW w \in Threads \cup {None}, Tick(w)
    PROVE  PlacedInv'
    <2> USE <1>TickPlaced
    <2> DEFINE f == [k \in Tasks |->
                       IF k \in openTasks.waitingToSchedule \/ openTasks.due[k] > 0
                       THEN openTasks.due[k] - 1 ELSE openTasks.due[k]]
    <2>1. /\ threads' = IF w = None THEN threads ELSE resumeThread(threads, w)
          /\ openTasks' = [openTasks EXCEPT !.due = f]
          /\ UNCHANGED <<systemCores, app, numThreads>>
      BY Zenon DEF Tick
    <2>2. Keeps(threads, threads')
      BY <2>1, StateIsSound, ResumeThreadKeeps, KeepsReflexive, Zenon
    <2>3. openTasks \in TaskTable
      BY Zenon DEF SoundInv, TypeOK
    <2> HIDE DEF f
    <2>4. /\ openTasks'.waitingToSchedule = openTasks.waitingToSchedule
          /\ openTasks'.waitingInQueue = openTasks.waitingInQueue
          /\ openTasks'.active = openTasks.active
          /\ openTasks'.completed = openTasks.completed
      BY <2>1, <2>3, Zenon DEF TaskTable
    <2> QED BY <2>1, <2>2, <2>4, <1>DueStepPlaced, Zenon
  \* Fetching moves tasks from the first state to the second.
  <1>EndMigrationPlaced.
    ASSUME SoundInv, PlacedInv, EndMigration
    PROVE  PlacedInv'
    <2> USE <1>EndMigrationPlaced
    <2>1. /\ pc = "migrate"
          /\ openTasks' = IF phase = 0 THEN fetchTasksIntoQueue(openTasks, 0)
                          ELSE openTasks
          /\ UNCHANGED <<systemCores, threads, app, numThreads>>
      BY Zenon DEF EndMigration
    <2>2. openTasks \in TaskTable /\ numThreads \in Nat
      BY Counters, Zenon DEF SoundInv, TypeOK
    <2>3. Uncreated'
      BY <2>1, <2>2, NumTasksIsNat DEF SoundInv, AllCreated, Uncreated, Tasks
    <2>4. /\ Partition(openTasks')
          /\ openTasks'.active = openTasks.active
          /\ openTasks'.completed = openTasks.completed
      <3>1. CASE phase # 0
        BY <2>1, <3>1, Zenon DEF PlacedInv
      <3>2. CASE phase = 0
        <4> DEFINE ks == {k \in openTasks.waitingToSchedule : openTasks.due[k] <= 0}
        <4>1. openTasks' = Enqueue(openTasks, ks)
          BY <2>1, <3>2, Zenon DEF fetchTasksIntoQueue
        <4>2. ks \in SUBSET (openTasks.waitingToSchedule \cup openTasks.waitingInQueue)
          BY Zenon
        <4> HIDE DEF ks
        <4> QED BY <2>2, <4>1, <4>2, EnqueuePartition, Zenon DEF PlacedInv
      <3> QED BY <3>1, <3>2, Zenon
    <2>5. Alive(openTasks, threads, numThreads)' /\ FirstApps'
      BY <2>1, <2>4, Zenon DEF PlacedInv, Alive, FirstApps
    <2>6. Placement(systemCores, threads, app, openTasks.active)'
      BY <2>1, <2>4, Zenon DEF PlacedInv, Placement, Detached
    <2> QED BY <2>3, <2>4, <2>5, <2>6, Zenon DEF PlacedInv, Partition
  \* Mapping the front of the queue preserves the invariant.
  <1>MapStepPlaced.
    ASSUME SoundInv, PlacedInv, MapStep
    PROVE  PlacedInv'
    <2> USE <1>MapStepPlaced
    <2> DEFINE n == numThreads
               k == taskFrontOfQueue(openTasks)
    <2>1. pc = "map" /\ UNCHANGED <<app, numThreads>>
      BY Zenon DEF MapStep
    <2>2. openTasks \in TaskTable /\ n \in Nat
      BY Counters, Zenon DEF SoundInv, TypeOK
    <2>3. CASE openTasks.waitingInQueue = {}
      <3>1. UNCHANGED taskVars
        BY <2>3, Zenon DEF MapStep
      <3> QED BY <2>1, <3>1, SMTT(30) DEF taskVars, PlacedInv, Partition, Placement, Alive,
                                Detached, FirstApps, Uncreated
    <2>4. CASE openTasks.waitingInQueue # {}
      <3>1. PICK r \in schedule(State, k, FALSE, 0) : Become(r.st)
        BY <2>4, Zenon DEF MapStep
      <3>2. k \in openTasks.waitingInQueue
        BY <2>2, <2>4, FrontOfQueue, Zenon
      <3> HIDE DEF k
      <3>3. k \in Tasks /\ NumTasks <= n
        BY <2>1, <2>2, <3>2, NumTasksIsNat, Zenon DEF SoundInv, AllCreated, TaskTable
      <3>4. k < n
        BY <2>2, <3>3, NumTasksIsNat DEF Tasks
      <3>5. /\ Placed(State, app, n) /\ InStep(State.th)
            /\ State.tk = openTasks /\ State.th = threads
        BY StateIsPlaced, StateIsSound, Zenon
      <3>6. app[k] = k /\ State.th.status[k] # "IDLE"
        BY <3>2, <3>3, <3>4, <3>5, Zenon DEF PlacedInv, FirstApps, Alive, Partition
      <3>7. k \in State.tk.waitingToSchedule \cup State.tk.waitingInQueue
        BY <3>2, <3>5, Zenon
      <3>8. Placed(r.st, app, n)
        BY <2>2, <3>5, <3>6, <3>7, SchedulePlaced, Zenon
      <3>9. /\ Partition(openTasks)'
            /\ Placement(systemCores, threads, app, openTasks.active)'
            /\ Alive(openTasks, threads, numThreads)'
        BY <2>1, <3>1, <3>8, BecomePlaced, Zenon
      <3>10. FirstApps' /\ Uncreated'
        BY <2>1, <2>2, <3>3, NumTasksIsNat DEF PlacedInv, FirstApps, Uncreated, Tasks
      <3> QED BY <3>9, <3>10, Zenon DEF PlacedInv
    <2> QED BY <2>3, <2>4, Zenon
  <1> SUFFICES ASSUME "abandon" \notin Workload, SoundInv, PlacedInv, [Next]_vars
               PROVE  PlacedInv'
    BY Zenon
  <1>1. CASE CreateFirst
    BY <1>1, <1>CreateFirstPlaced, Zenon
  <1>2. ASSUME NEW t \in Threads, Spawn(t) PROVE PlacedInv'
    BY <1>2, <1>SpawnPlaced, Zenon
  <1>3. ASSUME NEW t \in Threads, ThreadExit(t) PROVE PlacedInv'
    BY <1>3, <1>ThreadExitPlaced, Zenon
  <1>4. ASSUME NEW t \in Threads,
               \/ ThreadStart(t) \/ Sleep(t) \/ StallUnscheduled(t)
               \/ BlockingSyscall(t) \/ SyscallReturns(t) \/ Yield(t)
               \/ \E u \in Threads : Join(t, u)
        PROVE  PlacedInv'
    <2>1. Keeps(threads, threads')
      BY <1>4, ThreadActionsKeep, Zenon
    <2>2. ThreadStepFrame
      BY <1>4, ThreadActionsFrame, Zenon
    <2> QED BY <2>1, <2>2, <1>ThreadStepPlaced, Zenon DEF ThreadStepFrame
  <1>5. CASE CallerReturns
    BY <1>5, CallerReturnsKeeps, <1>ThreadStepPlaced, Zenon DEF ThreadStepFrame
  <1>6. ASSUME NEW w \in Threads \cup {None}, Tick(w) PROVE PlacedInv'
    BY <1>6, <1>TickPlaced, Zenon
  <1>7. ASSUME NEW a \in Cores, NEW b \in Cores, Move(a, b) PROVE PlacedInv'
    BY <1>7, <1>MovePlaced, Zenon
  <1>8. ASSUME NEW a \in Cores, NEW b \in Cores, Swap(a, b) PROVE PlacedInv'
    BY <1>8, <1>SwapPlaced, Zenon
  <1>9. CASE EndMigration
    BY <1>9, <1>EndMigrationPlaced, Zenon
  <1>10. CASE MapStep
    BY <1>10, <1>MapStepPlaced, Zenon
  <1>11. CASE CoreStep
    <2>1. UNCHANGED <<openTasks, systemCores, app, numThreads>>
      BY <1>11, Zenon DEF CoreStep
    <2> QED BY <1>11, <2>1, CoreStepKeeps, <1>ThreadStepPlaced, Zenon
  <1>12. ASSUME UNCHANGED <<taskVars, app, numThreads>> PROVE PlacedInv'
    BY <1>12, SMTT(30) DEF taskVars, PlacedInv, Partition, Placement, Alive, Detached,
                 FirstApps, Uncreated
  <1>13. CASE PeriodicEnd
    BY <1>12, <1>13, Zenon DEF PeriodicEnd
  <1>14. CASE UNCHANGED vars
    BY <1>12, <1>14, Zenon DEF vars, taskVars
  <1>15. CASE Stopped
    BY <1>14, <1>15, Zenon DEF Stopped
  <1> QED BY <1>1, <1>2, <1>3, <1>4, <1>5, <1>6, <1>7, <1>8, <1>9, <1>10, <1>11,
             <1>13, <1>14, <1>15, Zenon DEF Next, Periodic

\* The invariant holds in every reachable state of such a workload.
LEMMA SpecPlaced ==
  ASSUME "abandon" \notin Workload
  PROVE  Spec => []PlacedInv
  <1>1. SoundInv /\ PlacedInv /\ [Next]_vars => PlacedInv'
    BY NextPlaced, Zenon
  <1> QED BY <1>1, InitPlaced, SpecSound, PTL DEF Spec

\* schedule(), fetchTasksIntoQueue() and threadExit() set the four flags of a
\* task so that exactly one of them holds, in every reachable state.
THEOREM TaskStatesPartitionAlways ==
  ASSUME "abandon" \notin Workload
  PROVE  Spec => []TaskStatesPartition
  <1>1. PlacedInv => TaskStatesPartition
    BY Zenon DEF PlacedInv, Partition, TaskStatesPartition
  <1> QED BY <1>1, SpecPlaced, PTL

\* The table of the open scheduler and the masks of the pinned scheduler never
\* disagree, through mapping, spawning, migration and exit.
THEOREM AssignedAffinityAlways ==
  ASSUME "abandon" \notin Workload
  PROVE  Spec => []AssignedAffinity
  <1>1. PlacedInv => AssignedAffinity
    BY Zenon DEF PlacedInv, Placement, AssignedAffinity
  <1> QED BY <1>1, SpecPlaced, PTL

\* reschedule() never has two threads to choose from, so its scores (and the
\* times they are made of) cannot matter.
THEOREM UncontestedCoresAlways ==
  ASSUME "abandon" \notin Workload
  PROVE  Spec => []UncontestedCores
  <1>1. SoundInv /\ PlacedInv => UncontestedCores
    <2> SUFFICES ASSUME SoundInv, PlacedInv, NEW c \in Cores,
                        NEW t \in Threads, NEW u \in Threads,
                        t \in Eligible(threads, c), u \in Eligible(threads, c)
                 PROVE  t = u
      BY Zenon DEF UncontestedCores
    <2>1. threads.affinity[t] = c /\ threads.affinity[u] = c
      BY Zenon DEF Eligible
    <2> QED BY <2>1, SMTT(30) DEF PlacedInv, Placement
  <1> QED BY <1>1, SpecSound, SpecPlaced, PTL

\* A thread on a core whose quantum is not over is pinned to that core, and the
\* core is one of its own task's: threadSetAffinity() ends the quantum of the
\* core from which it moves a thread away, and reschedule() gives a new quantum
\* to pinned threads only.
THEOREM RunsWhereItBelongsAlways ==
  ASSUME "abandon" \notin Workload
  PROVE  Spec => []RunsWhereItBelongs
  <1>1. SoundInv /\ PlacedInv => RunsWhereItBelongs
    <2> SUFFICES ASSUME SoundInv, PlacedInv, NEW c \in Cores,
                        threads.threadRunning[c] # None, c \notin threads.expired
                 PROVE  /\ threads.affinity[threads.threadRunning[c]] = c
                        /\ systemCores.assignedTask[c] = app[threads.threadRunning[c]]
      BY Zenon DEF RunsWhereItBelongs
    <2> DEFINE t == threads.threadRunning[c]
    <2>1. t \in Threads
      BY Zenon DEF SoundInv, TypeOK, ThreadLayer
    <2>2. threads.affinity[t] = c
      BY Zenon DEF SoundInv, RunsInStep, InStep, OnPins
    <2> HIDE DEF t
    <2>3. systemCores.assignedThread[c] = t /\ t # None
      BY <2>1, <2>2, NoneIsNone, Zenon DEF PlacedInv, Placement
    <2>4. systemCores.assignedTask[c] = app[t]
      BY <2>3, Zenon DEF PlacedInv, Placement
    <2> QED BY <2>2, <2>4, Zenon DEF t
  <1> QED BY <1>1, SpecSound, SpecPlaced, PTL

-----------------------------------------------------------------------------
(* How many cores a task has.                                              *)

OwnCores(f, k) == {c \in Cores : f[c] = k}

\* With f the task of every core and A the active tasks.
Owned(f, A) ==
  \A k \in Tasks : Cardinality(OwnCores(f, k)) = IF k \in A THEN CoreRequirement[k] ELSE 0

\* A task has finitely many cores.
LEMMA OwnCoresFinite ==
  ASSUME NEW f, NEW k
  PROVE  IsFiniteSet(OwnCores(f, k))
  <1>1. NumCores \in Int
    BY ThreadLayerAssumption
  <1>2. IsFiniteSet(Cores)
    BY <1>1, FS_Interval DEF Cores
  <1> QED BY <1>2, FS_Subset DEF OwnCores

\* A task that is not active has no cores.
LEMMA InactiveOwnsNothing ==
  ASSUME NEW f, NEW A, Owned(f, A), NEW k \in Tasks, k \notin A
  PROVE  OwnCores(f, k) = {}
  BY OwnCoresFinite, FS_EmptySet, Zenon DEF Owned

\* None is no task.
LEMMA NoneIsNoTask == None \notin Tasks
  BY NoneIsNone, TasksAreThreads, Zenon

\* A mapping policy gives a task that had no core as many free cores as it needs.
LEMMA AssignOwned ==
  ASSUME NEW f, NEW g, NEW A, Owned(f, A), NEW k \in Tasks, k \notin A,
         NEW cs \in SUBSET Cores, \A c \in cs : f[c] = None,
         Cardinality(cs) = CoreRequirement[k],
         \A c \in Cores : g[c] = IF c \in cs THEN k ELSE f[c]
  PROVE  Owned(g, A \cup {k})
  <1> SUFFICES ASSUME NEW j \in Tasks
               PROVE  Cardinality(OwnCores(g, j)) =
                        IF j \in A \cup {k} THEN CoreRequirement[j] ELSE 0
    BY Zenon DEF Owned
  <1>1. CASE j = k
    <2>1. OwnCores(f, k) = {}
      BY InactiveOwnsNothing, Zenon
    <2>2. OwnCores(g, j) = cs
      BY <1>1, <2>1, Zenon DEF OwnCores
    <2> QED BY <1>1, <2>2, Zenon
  <1>2. CASE j # k
    <2>1. OwnCores(g, j) = OwnCores(f, j)
      BY <1>2, NoneIsNoTask, Zenon DEF OwnCores
    <2> QED BY <1>2, <2>1, Zenon DEF Owned
  <1> QED BY <1>1, <1>2, Zenon

\* A task that ends gives all its cores back, and no others.
LEMMA FinishOwned ==
  ASSUME NEW f, NEW g, NEW A, Owned(f, A), NEW k \in Tasks,
         \A c \in Cores : g[c] = IF f[c] = k THEN None ELSE f[c]
  PROVE  Owned(g, A \ {k})
  <1> SUFFICES ASSUME NEW j \in Tasks
               PROVE  Cardinality(OwnCores(g, j)) =
                        IF j \in A \ {k} THEN CoreRequirement[j] ELSE 0
    BY Zenon DEF Owned
  <1>1. CASE j = k
    <2>1. OwnCores(g, j) = {}
      BY <1>1, NoneIsNoTask, Zenon DEF OwnCores
    <2> QED BY <1>1, <2>1, FS_EmptySet, Zenon
  <1>2. CASE j # k
    <2>1. OwnCores(g, j) = OwnCores(f, j)
      BY <1>2, NoneIsNoTask, Zenon DEF OwnCores
    <2> QED BY <1>2, <2>1, Zenon DEF Owned
  <1> QED BY <1>1, <1>2, Zenon

\* Exchanging what two cores have, possibly nothing, changes no task's number of
\* cores.
LEMMA ExchangeOwned ==
  ASSUME NEW f, NEW g, NEW A, Owned(f, A), NEW a \in Cores, NEW b \in Cores, a # b,
         g[a] = f[b], g[b] = f[a],
         \A c \in Cores \ {a, b} : g[c] = f[c]
  PROVE  Owned(g, A)
  <1> SUFFICES ASSUME NEW j \in Tasks
               PROVE  Cardinality(OwnCores(g, j)) = Cardinality(OwnCores(f, j))
    BY Zenon DEF Owned
  <1> DEFINE S == OwnCores(f, j)
  <1>1. IsFiniteSet(S) /\ Cardinality(S) \in Nat
    BY OwnCoresFinite, FS_CardinalityType, Zenon
  <1>2. ASSUME NEW c \in S, NEW d, d \notin S
        PROVE  Cardinality((S \ {c}) \cup {d}) = Cardinality(S)
    <2> HIDE DEF S
    <2>1. IsFiniteSet(S \ {c}) /\ Cardinality(S \ {c}) = Cardinality(S) - 1
      BY <1>1, <1>2, FS_RemoveElement, Zenon
    <2>2. d \notin S \ {c}
      BY <1>2, Zenon
    <2>3. Cardinality((S \ {c}) \cup {d}) = Cardinality(S \ {c}) + 1
      BY <2>1, <2>2, FS_AddElement, Zenon
    <2> QED BY <1>1, <2>1, <2>3
  <1>3. CASE f[a] = j /\ f[b] # j
    <2>1. OwnCores(g, j) = (S \ {a}) \cup {b} /\ a \in S /\ b \notin S
      BY <1>3, Zenon DEF OwnCores
    <2> QED BY <1>2, <2>1
  <1>4. CASE f[b] = j /\ f[a] # j
    <2>1. OwnCores(g, j) = (S \ {b}) \cup {a} /\ b \in S /\ a \notin S
      BY <1>4, Zenon DEF OwnCores
    <2> QED BY <1>2, <2>1
  <1>5. CASE f[a] = j <=> f[b] = j
    <2>1. OwnCores(g, j) = S
      BY <1>5, Zenon DEF OwnCores
    <2> QED BY <2>1, Zenon
  <1> QED BY <1>3, <1>4, <1>5, Zenon

\* Pinning a thread changes no task's cores and no task's state.
LEMMA PinsTasks ==
  ASSUME NEW st \in States, NEW r, NEW t, NEW k, Pins(st, r, t, k)
  PROVE  r.tk = st.tk /\ r.sc.assignedTask = st.sc.assignedTask
  <1>1. PICK c \in Cores \cup {None} : PinsTo(st, r, t, k, c)
    BY Zenon DEF Pins
  <1>2. st.sc \in CoreTable
    BY Zenon DEF States
  <1> QED BY <1>1, <1>2, Zenon DEF PinsTo, CoreTable

\* schedule() of a task that is not active.
LEMMA ScheduleOwned ==
  ASSUME NEW st \in States, InStep(st.th), NEW k \in Tasks, k \notin st.tk.active,
         NEW init \in BOOLEAN, NEW skew, NEW r \in schedule(st, k, init, skew),
         Owned(st.sc.assignedTask, st.tk.active)
  PROVE  Owned(r.st.sc.assignedTask, r.st.tk.active)
  <1> DEFINE q == Enqueue(st.tk, {k})
             f == st.sc.assignedTask
  <1>1. st.tk \in TaskTable /\ st.sc \in CoreTable
    BY Zenon DEF States
  <1>2. q \in TaskTable /\ q.active = st.tk.active
    BY <1>1, Zenon DEF Enqueue, TaskTable
  <1> HIDE DEF q
  <1>3. \/ r.st = st
        \/ r.st = [st EXCEPT !.tk = q]
        \/ \E cs \in SUBSET FreeCores(st.sc) : Maps(st, r.st, k, init, cs)
    BY ScheduleOutcomes, Zenon DEF q
  <1>4. CASE r.st = st
    BY <1>4, Zenon
  <1>5. CASE r.st = [st EXCEPT !.tk = q]
    <2>1. r.st.tk = q /\ r.st.sc = st.sc
      BY <1>2, <1>5, StateWithTasks
    <2> QED BY <1>2, <2>1, Zenon
  <1>6. ASSUME NEW cs \in SUBSET FreeCores(st.sc), Maps(st, r.st, k, init, cs)
        PROVE  Owned(r.st.sc.assignedTask, r.st.tk.active)
    <2>1. PICK m, a \in States :
            /\ m.tk = q
            /\ m.sc = Assign(st.sc, k, cs)
            /\ Cardinality(cs) = CoreRequirement[k]
            /\ IF init THEN a = m ELSE Pins(m, a, k, k)
            /\ r.st.tk = Activate(a.tk, k)
            /\ r.st.sc = a.sc
      BY <1>6, Zenon DEF Maps, q
    <2>2. a.tk = q /\ a.sc.assignedTask = m.sc.assignedTask
      BY <2>1, PinsTasks, Zenon
    <2>3. r.st.tk.active = st.tk.active \cup {k}
      BY <1>2, <2>1, <2>2 DEF Activate, TaskTable
    <2>4. \A c \in Cores : m.sc.assignedTask[c] = IF c \in cs THEN k ELSE f[c]
      BY <1>1, <2>1, Zenon DEF Assign, CoreTable
    <2>5. cs \in SUBSET Cores /\ \A c \in cs : f[c] = None
      BY Zenon DEF FreeCores
    <2> HIDE DEF f
    <2>6. Owned(f, st.tk.active)
      BY Zenon DEF f
    <2>7. Owned(m.sc.assignedTask, st.tk.active \cup {k})
      <3> DEFINE A == st.tk.active
                 g == m.sc.assignedTask
      <3>1. /\ k \in Tasks /\ k \notin A /\ Cardinality(cs) = CoreRequirement[k]
            /\ \A c \in Cores : g[c] = IF c \in cs THEN k ELSE f[c]
            /\ Owned(f, A)
        BY <2>1, <2>4, <2>6, Zenon
      <3> HIDE DEF A, g
      <3>2. Owned(g, A \cup {k})
        BY <2>5, <3>1, AssignOwned, Zenon
      <3> QED BY <3>2, Zenon DEF A, g
    <2> QED BY <2>1, <2>2, <2>3, <2>7, Zenon
  <1> QED BY <1>3, <1>4, <1>5, <1>6, Zenon

\* Prefetching maps a task from the queue, which is not active.
LEMMA PrefetchOwned ==
  ASSUME NEW st \in States, InStep(st.th), NEW b \in Nat, DueAbove(st.tk, b),
         NEW skew \in Nat, NEW r \in Prefetch(st, skew),
         \A k \in st.tk.waitingToSchedule \cup st.tk.waitingInQueue : k \notin st.tk.active,
         Owned(st.sc.assignedTask, st.tk.active)
  PROVE  Owned(r.sc.assignedTask, r.tk.active)
  <1> DEFINE from == PrefetchFrom(st, skew)
             k == taskFrontOfQueue(from.tk)
             go == FreeCores(st.sc) = Cores /\ st.tk.waitingToSchedule # {}
  <1>1. CASE ~go
    BY <1>1, Zenon DEF Prefetch
  <1>2. CASE go
    <2>1. PICK q \in schedule(from, k, FALSE, skew) : r = q.st
      BY <1>2, Zenon DEF Prefetch, PrefetchFrom
    <2>2. /\ from \in States
          /\ from.sc = st.sc /\ from.th = st.th
          /\ from.tk.waitingInQueue # {}
          /\ from.tk.active = st.tk.active
          /\ \E ks \in SUBSET st.tk.waitingToSchedule :
               from.tk.waitingInQueue = st.tk.waitingInQueue \cup ks
      <3>1. Fetched(st, from, b)
        BY <1>2, PrefetchFromQueue, Zenon
      <3> QED BY <3>1, Zenon DEF Fetched
    <2> HIDE DEF from
    <2>3. k \in from.tk.waitingInQueue /\ k \in Tasks
      BY <2>2, FrontOfQueue, Zenon DEF States, TaskTable
    <2> HIDE DEF k
    <2>4. k \notin from.tk.active
      BY <2>2, <2>3, Zenon
    <2>5. Owned(q.st.sc.assignedTask, q.st.tk.active)
      BY <2>2, <2>3, <2>4, ScheduleOwned, Zenon
    <2> QED BY <2>1, <2>5
  <1> QED BY <1>1, <1>2, Zenon

OwnedInv == Owned(systemCores.assignedTask, openTasks.active)

\* The next state by its two variables.
LEMMA OwnedNext ==
  ASSUME Owned(systemCores'.assignedTask, openTasks'.active)
  PROVE  OwnedInv'
  BY Zenon DEF OwnedInv, Owned, OwnCores

\* Initially no task has cores and none is active.
LEMMA InitOwned == Init => OwnedInv
  <1> SUFFICES ASSUME Init, NEW k \in Tasks
               PROVE  Cardinality(OwnCores(systemCores.assignedTask, k)) =
                        IF k \in openTasks.active THEN CoreRequirement[k] ELSE 0
    BY Zenon DEF OwnedInv, Owned
  <1>1. OwnCores(systemCores.assignedTask, k) = {} /\ openTasks.active = {}
    BY NoneIsNoTask, Zenon DEF Init, OwnCores
  <1> QED BY <1>1, FS_EmptySet, Zenon

\* Every step keeps the number of cores of every task right.
LEMMA NextOwned ==
  SoundInv /\ PlacedInv /\ OwnedInv /\ [Next]_vars => OwnedInv'
  \* The start of the tasks.
  <1>CreateFirstOwned.
    ASSUME SoundInv, PlacedInv, OwnedInv, CreateFirst
    PROVE  OwnedInv'
    <2> USE <1>CreateFirstOwned
    <2> DEFINE n == numThreads
    <2>1. PICK r \in schedule(State, n, TRUE, 0) :
            IF n = 0 /\ ~r.ok
            THEN fault' = "task 0 not mapped" /\ UNCHANGED <<taskVars, app, numThreads>>
            ELSE /\ \E st \in {PlaceNewThread(r.st, n, n)} : Become(st)
                 /\ app' = [app EXCEPT ![n] = n]
                 /\ numThreads' = n + 1
                 /\ UNCHANGED fault
      BY Zenon DEF CreateFirst
    <2>2. n < NumTasks
      BY Zenon DEF CreateFirst
    <2>3. n \in Nat /\ n \in Tasks /\ n \in Threads
      BY <2>2, Counters, NumTasksIsNat DEF SoundInv, Tasks, Threads
    <2>4. CASE n = 0 /\ ~r.ok
      <3>1. UNCHANGED <<openTasks, systemCores>>
        BY <2>1, <2>4, Zenon DEF taskVars
      <3> QED BY <3>1, OwnedNext, Zenon DEF OwnedInv
    <2>5. CASE ~(n = 0 /\ ~r.ok)
      <3> DEFINE p == PlaceNewThread(r.st, n, n)
      <3>1. Become(p)
        BY <2>1, <2>5, Zenon
      <3>2. /\ State \in States /\ InStep(State.th) /\ Sound(State, n)
            /\ State.tk = openTasks /\ State.sc = systemCores
        BY StateIsSound, Zenon DEF Sound
      <3>3. n \notin openTasks.active
        BY <2>3 DEF PlacedInv, Uncreated, Partition
      <3>4. Owned(r.st.sc.assignedTask, r.st.tk.active)
        BY <2>3, <3>2, <3>3, ScheduleOwned, Zenon DEF OwnedInv
      <3>5. Sound(r.st, n)
        BY <2>3, <3>2, ScheduleSound, Zenon
      <3>6. r.st \in States /\ InStep(r.st.th) /\ r.st.th.coreRunning[n] = None
        BY <2>3, <3>5 DEF Sound, Fresh, Detached
      <3>7. p.tk = r.st.tk /\ p.sc.assignedTask = r.st.sc.assignedTask
        BY <2>3, <3>6, PlaceNewThreadPins, PinsTasks, Zenon
      <3> HIDE DEF p
      <3> QED BY <3>1, <3>4, <3>7, OwnedNext, Zenon DEF Become
    <2> QED BY <2>4, <2>5, Zenon
  \* A thread that is spawned takes one of its task's cores, not a new one.
  <1>SpawnOwned.
    ASSUME SoundInv, OwnedInv, NEW t \in Threads, Spawn(t)
    PROVE  OwnedInv'
    <2> USE <1>SpawnOwned
    <2> DEFINE n == numThreads
               k == app[t]
               p == PlaceNewThread(State, n, k)
    <2>1. n < MaxThreads
      BY Zenon DEF Spawn
    <2>2. \/ UNCHANGED <<openTasks, systemCores>>
          \/ Become(p)
      BY Zenon DEF Spawn, taskVars
    <2>3. k \in Tasks
      BY ExecutesCreated, Zenon DEF Spawn
    <2>4. n \in Nat /\ n \in Threads
      BY <2>1, Counters, NumTasksIsNat DEF SoundInv, Threads
    <2>5. /\ State \in States /\ InStep(State.th) /\ State.tk = openTasks
          /\ State.sc = systemCores /\ State.th.coreRunning[n] = None
      BY <2>4, StateIsSound DEF Sound, Fresh, Detached
    <2> HIDE DEF k
    <2>6. p.tk = openTasks /\ p.sc.assignedTask = systemCores.assignedTask
      BY <2>3, <2>4, <2>5, PlaceNewThreadPins, PinsTasks, Zenon
    <2> HIDE DEF p
    <2> QED BY <2>2, <2>6, OwnedNext, Zenon DEF Become, OwnedInv
  \* The exit of a thread: a first thread ends its task.
  <1>ThreadExitOwned.
    ASSUME SoundInv, PlacedInv, OwnedInv, NEW t \in Threads, ThreadExit(t)
    PROVE  OwnedInv'
    <2> USE <1>ThreadExitOwned
    <2> DEFINE n == numThreads
               x == onThreadExit(threads, t)
               s == [State EXCEPT !.th = x]
               released == ReleaseThread(s, t)
               done == IF t \in Tasks THEN FinishTask(released, t) ELSE released
    <2>1. /\ Executes(t)
          /\ \E skew \in 0 .. MaxSkew : \E st \in Prefetch(done, skew) : Become(st)
      BY Zenon DEF ThreadExit
    <2>2. PICK skew \in 0 .. MaxSkew : \E st \in Prefetch(done, skew) : Become(st)
      BY <2>1, Zenon
    <2>3. PICK st \in Prefetch(done, skew) : Become(st)
      BY <2>2, Zenon
    <2>4. n \in Nat /\ t < n /\ skew \in Nat
      <3>1. MaxSkew \in Nat
        BY SchedulerAssumption, Zenon
      <3>2. n \in Nat
        BY Counters, Zenon DEF SoundInv
      <3> QED BY <2>1, <3>1, <3>2, ExecutesCreated
    <2>5. /\ State \in States /\ Sound(State, n) /\ State.tk = openTasks
          /\ State.sc = systemCores /\ State.th = threads /\ Consistent(threads)
      BY StateIsSound, Zenon
    <2>6. Sound(s, n) /\ s.tk = openTasks /\ s.sc = systemCores
      <3>1. /\ Consistent(x)
            /\ \A u \in Threads : Detached(threads, u) => Detached(x, u)
        BY <2>1, <2>5, OnThreadExitDetaches, Zenon DEF Executes
      <3> HIDE DEF x
      <3>2. s \in States /\ s.tk = State.tk /\ s.sc = State.sc /\ s.th = x
        BY <2>5, <3>1, Zenon DEF States, Consistent
      <3> QED BY <2>5, <3>1, <3>2 DEF Sound, Consistent, Fresh
    <2> HIDE DEF s
    <2>7. /\ Sound(released, n) /\ released.tk = openTasks
          /\ released.sc.assignedTask = systemCores.assignedTask
      <3>1. released.sc.assignedTask = s.sc.assignedTask
        BY <2>6, Zenon DEF ReleaseThread, Sound, States, CoreTable
      <3> QED BY <2>4, <2>6, <3>1, ReleaseThreadSound, Zenon
    <2> HIDE DEF released
    <2>8. /\ Sound(done, n)
          /\ done.tk.due = openTasks.due
          /\ done.tk.waitingToSchedule = openTasks.waitingToSchedule
          /\ done.tk.waitingInQueue = openTasks.waitingInQueue
      BY <2>4, <2>7, FinishTaskSound, Zenon
    <2>9. /\ done.tk.active \subseteq openTasks.active
          /\ Owned(done.sc.assignedTask, done.tk.active)
      <3>1. CASE t \notin Tasks
        BY <2>7, <3>1, Zenon DEF OwnedInv
      <3>2. CASE t \in Tasks
        <4> DEFINE f == released.sc.assignedTask
                   g == done.sc.assignedTask
        <4>1. released.tk \in TaskTable /\ released.sc \in CoreTable
          BY <2>7, Zenon DEF Sound, States
        <4>2. /\ done.tk.active = openTasks.active \ {t}
              /\ \A c \in Cores : g[c] = IF f[c] = t THEN None ELSE f[c]
          BY <2>7, <3>2, <4>1, Zenon DEF FinishTask, TaskTable, CoreTable
        <4>3. Owned(f, openTasks.active)
          BY <2>7, Zenon DEF OwnedInv
        <4> HIDE DEF f, g
        <4>4. Owned(g, openTasks.active \ {t})
          BY <3>2, <4>2, <4>3, FinishOwned, Zenon
        <4> QED BY <4>2, <4>4, Zenon DEF g
      <3> QED BY <3>1, <3>2, Zenon
    <2> HIDE DEF done
    <2>10. Owned(st.sc.assignedTask, st.tk.active)
      <3>1. DueAbove(done.tk, Age) /\ Age \in Nat
        BY <2>8, Counters, Zenon DEF SoundInv, DueAbove, Age
      <3>2. \A k \in done.tk.waitingToSchedule \cup done.tk.waitingInQueue :
              k \notin done.tk.active
        <4>1. openTasks.waitingToSchedule \cup openTasks.waitingInQueue \subseteq Tasks
          BY Zenon DEF SoundInv, TypeOK, TaskTable
        <4> QED BY <2>8, <2>9, <4>1, Zenon DEF PlacedInv, Partition
      <3> QED BY <2>3, <2>4, <2>8, <2>9, <3>1, <3>2, PrefetchOwned, Zenon DEF Sound
    <2> QED BY <2>3, <2>10, OwnedNext, Zenon DEF Become
  \* Moving a task to an unused core and swapping two cores are exchanges.
  <1>MigrationOwned.
    ASSUME SoundInv, OwnedInv, NEW a \in Cores, NEW b \in Cores, Move(a, b) \/ Swap(a, b)
    PROVE  OwnedInv'
    <2> USE <1>MigrationOwned
    <2> DEFINE f == systemCores.assignedTask
               g == systemCores'.assignedTask
    <2>1. a # b /\ UNCHANGED openTasks
      BY Zenon DEF Move, Swap, Migration
    <2>2. systemCores \in CoreTable /\ f \in [Cores -> Tasks \cup {None}]
      BY Zenon DEF SoundInv, TypeOK, CoreTable
    <2>3. /\ g[a] = f[b] /\ g[b] = f[a]
          /\ \A c \in Cores \ {a, b} : g[c] = f[c]
      <3>1. CASE Move(a, b)
        <4>1. f[b] = None /\ g = [f EXCEPT ![b] = f[a], ![a] = None]
          BY <2>2, <3>1, Zenon DEF Move, CoreTable
        <4> QED BY <2>1, <2>2, <4>1, Zenon
      <3>2. CASE Swap(a, b)
        <4>1. g = [f EXCEPT ![a] = f[b], ![b] = f[a]]
          BY <3>2, Zenon DEF Swap
        <4> QED BY <2>1, <2>2, <4>1, Zenon
      <3> QED BY <3>1, <3>2, Zenon
    <2>4. Owned(f, openTasks.active)
      BY Zenon DEF OwnedInv
    <2> HIDE DEF f, g
    <2>5. Owned(g, openTasks.active)
      BY <2>1, <2>3, <2>4, ExchangeOwned
    <2> QED BY <2>1, <2>5, OwnedNext, Zenon DEF g
  \* Mapping the front of the queue.
  <1>MapStepOwned.
    ASSUME SoundInv, PlacedInv, OwnedInv, MapStep
    PROVE  OwnedInv'
    <2> USE <1>MapStepOwned
    <2> DEFINE k == taskFrontOfQueue(openTasks)
    <2>1. CASE openTasks.waitingInQueue = {}
      <3>1. UNCHANGED <<openTasks, systemCores>>
        BY <2>1, Zenon DEF MapStep, taskVars
      <3> QED BY <3>1, OwnedNext, Zenon DEF OwnedInv
    <2>2. CASE openTasks.waitingInQueue # {}
      <3>1. PICK r \in schedule(State, k, FALSE, 0) : Become(r.st)
        BY <2>2, Zenon DEF MapStep
      <3>2. k \in openTasks.waitingInQueue /\ k \in Tasks
        BY <2>2, FrontOfQueue, Zenon DEF SoundInv, TypeOK, TaskTable
      <3> HIDE DEF k
      <3>3. k \notin openTasks.active
        BY <3>2, Zenon DEF PlacedInv, Partition
      <3>4. /\ State \in States /\ InStep(State.th)
            /\ State.tk = openTasks /\ State.sc = systemCores
        BY StateIsSound, Zenon DEF Sound
      <3>5. Owned(r.st.sc.assignedTask, r.st.tk.active)
        BY <3>2, <3>3, <3>4, ScheduleOwned, Zenon DEF OwnedInv
      <3> QED BY <3>1, <3>5, OwnedNext, Zenon DEF Become
    <2> QED BY <2>1, <2>2, Zenon
  <1> SUFFICES ASSUME SoundInv, PlacedInv, OwnedInv, [Next]_vars PROVE OwnedInv'
    BY Zenon
  <1>1. CASE CreateFirst
    BY <1>1, <1>CreateFirstOwned
  <1>2. ASSUME NEW t \in Threads, Spawn(t) PROVE OwnedInv'
    BY <1>2, <1>SpawnOwned, Zenon
  <1>3. ASSUME NEW t \in Threads, ThreadExit(t) PROVE OwnedInv'
    BY <1>3, <1>ThreadExitOwned, Zenon
  <1>4. ASSUME NEW a \in Cores, NEW b \in Cores, Move(a, b) \/ Swap(a, b) PROVE OwnedInv'
    BY <1>4, <1>MigrationOwned, Zenon
  <1>5. CASE MapStep
    BY <1>5, <1>MapStepOwned, Zenon
  <1>6. ASSUME systemCores' = systemCores, openTasks'.active = openTasks.active
        PROVE  OwnedInv'
    BY <1>6, OwnedNext, Zenon DEF OwnedInv
  <1>7. ASSUME NEW t \in Threads,
               \/ ThreadStart(t) \/ Sleep(t) \/ StallUnscheduled(t)
               \/ BlockingSyscall(t) \/ SyscallReturns(t) \/ Yield(t)
               \/ \E u \in Threads : Join(t, u)
        PROVE  OwnedInv'
    BY <1>6, <1>7, ThreadActionsFrame, Zenon DEF ThreadStepFrame
  <1>8. CASE CallerReturns \/ CoreStep \/ PeriodicEnd \/ Stopped \/ UNCHANGED vars
    BY <1>6, <1>8, Zenon DEF CallerReturns, CoreStep, PeriodicEnd, Stopped, vars, taskVars
  <1>9. ASSUME NEW w \in Threads \cup {None}, Tick(w) PROVE OwnedInv'
    BY <1>6, <1>9, Zenon DEF Tick, SoundInv, TypeOK, TaskTable
  <1>10. CASE EndMigration
    BY <1>6, <1>10, Zenon DEF EndMigration, fetchTasksIntoQueue, Enqueue, SoundInv, TypeOK, TaskTable
  <1> QED BY <1>1, <1>2, <1>3, <1>4, <1>5, <1>7, <1>8, <1>9, <1>10, Zenon DEF Next, Periodic

\* An active task has exactly the number of cores it asked for and any other task
\* none, in every reachable state: the mapping policy gives a task free cores only,
\* a migration exchanges, and the exit of the first thread gives all of them back.
THEOREM CoreOwnershipAlways ==
  ASSUME "abandon" \notin Workload
  PROVE  Spec => []CoreOwnership
  <1>1. OwnedInv => CoreOwnership
    BY DEF OwnedInv, Owned, OwnCores, CoreOwnership, CoresOf
  <1> QED BY <1>1, InitOwned, NextOwned, SpecSound, SpecPlaced, PTL DEF Spec

-----------------------------------------------------------------------------
(* A core for every thread.                                                *)

\* setAffinity() overlooks no core of the task that has no thread.
LEMMA OwnFreeCoreFound ==
  ASSUME NEW sc, NEW k, NEW d \in Cores, sc.assignedTask[d] = k,
         sc.assignedThread[d] = None
  PROVE  FirstOwnFreeCore(sc, k) \in Cores
  <1> DEFINE own == {c \in CoresOf(sc, k) : sc.assignedThread[c] = None}
  <1>1. own \in SUBSET Nat /\ own \subseteq Cores /\ own # {}
    BY DEF CoresOf, Cores
  <1>2. Min(own) \in own
    BY <1>1, MinNat, Zenon
  <1>3. FirstOwnFreeCore(sc, k) = Min(own)
    BY <1>1, Zenon DEF FirstOwnFreeCore
  <1> QED BY <1>1, <1>2, <1>3, Zenon

\* A task with fewer live threads than it asked for cores has a core to spare: no
\* two of its cores have the same thread, and the thread of each is alive.
LEMMA TaskHasFreeCore ==
  ASSUME NEW sc \in CoreTable, NEW x, NEW ap, NEW A, Placement(sc, x, ap, A),
         Owned(sc.assignedTask, A), NEW k \in Tasks, k \in A,
         Cardinality({u \in Threads : ap[u] = k /\ x.status[u] # "IDLE"})
           < CoreRequirement[k]
  PROVE  FirstOwnFreeCore(sc, k) \in Cores
  <1> DEFINE live == {u \in Threads : ap[u] = k /\ x.status[u] # "IDLE"}
             S == OwnCores(sc.assignedTask, k)
             f == [c \in S |-> sc.assignedThread[c]]
  <1>1. SUFFICES ASSUME \A c \in S : sc.assignedThread[c] # None PROVE FALSE
    BY OwnFreeCoreFound, Zenon DEF OwnCores
  <1>2. IsFiniteSet(live) /\ Cardinality(live) \in Nat
    <2>1. MaxThreads - 1 \in Int
      BY ThreadLayerAssumption
    <2>2. IsFiniteSet(Threads)
      BY <2>1, FS_Interval DEF Threads
    <2>3. live \subseteq Threads
      BY Zenon
    <2> HIDE DEF live
    <2> QED BY <2>2, <2>3, FS_Subset, FS_CardinalityType, Zenon
  <1>3. ASSUME NEW c \in S
        PROVE  c \in Cores /\ f[c] \in live /\ x.affinity[f[c]] = c
    <2>1. c \in Cores /\ sc.assignedTask[c] = k /\ sc.assignedThread[c] \in Threads
      BY <1>1, Zenon DEF OwnCores, CoreTable
    <2> QED BY <1>1, <2>1, Zenon DEF Placement
  <1> HIDE DEF live, S
  <1>4. f \in Injection(S, live)
    <2>1. f \in [S -> live]
      BY <1>3, Zenon
    <2>2. \A c, d \in S : f[c] = f[d] => c = d
      BY <1>3, Zenon
    <2> HIDE DEF f
    <2> QED BY <2>1, <2>2, Zenon DEF Injection, IsInjective
  <1> HIDE DEF f
  <1>5. Cardinality(S) <= Cardinality(live)
    BY <1>2, <1>4, FS_Injection, Zenon
  <1>6. Cardinality(S) = CoreRequirement[k] /\ CoreRequirement[k] \in Nat
    BY SchedulerAssumption, Zenon DEF Owned, S
  <1>7. Cardinality(live) < CoreRequirement[k]
    BY Zenon DEF live
  <1> QED BY <1>2, <1>5, <1>6, <1>7

\* A new thread runs on the core reserved for it, unless another thread is there.
LEMMA PlaceNewThreadRuns ==
  ASSUME NEW st \in States, InStep(st.th), NEW t \in Threads, NEW k \in Tasks,
         st.th.coreRunning[t] = None,
         NEW c \in Cores, c = FirstOwnFreeCore(st.sc, k),
         st.th.threadRunning[c] = None,
         \A u \in Threads \ {t} : st.th.affinity[u] # c
  PROVE  PlaceNewThread(st, t, k).th.coreRunning[t] # None
  <1> DEFINE j == [st.th EXCEPT !.status[t] = "INITIALIZING"]
             i == [st EXCEPT !.th.status[t] = "INITIALIZING"]
             p == setAffinity(i, t, k)
             q == [p EXCEPT !.th.coreRunning[t] = c, !.th.threadRunning[c] = t,
                            !.th.expired = @ \ {c}]
             y == [j EXCEPT !.affinity[t] = c]
             r == reschedule(y, c)
  <1> USE NoneIsNone
  <1>1. /\ j \in ThreadLayer
        /\ j.affinity = st.th.affinity
        /\ j.coreRunning = st.th.coreRunning
        /\ j.threadRunning = st.th.threadRunning
        /\ j.expired = st.th.expired
    BY Zenon DEF States, ThreadLayer, Status
  <1>2. i \in States /\ i.sc = st.sc /\ i.th = j
    BY <1>1, Zenon DEF States
  <1>3. InStep(j)
    BY <1>1 DEF InStep, Agree, OnPins
  <1> HIDE DEF i, j
  <1>4. /\ y \in ThreadLayer
        /\ y.affinity = [j.affinity EXCEPT ![t] = c]
        /\ y.coreRunning = j.coreRunning
        /\ y.threadRunning = j.threadRunning
        /\ y.expired = j.expired
    BY <1>1, Zenon DEF ThreadLayer
  <1>5. y.affinity[t] = c /\ \A u \in Threads : y.affinity[u] = c => u = t
    BY <1>1, <1>4, Zenon DEF ThreadLayer
  <1>6. p.th \in {y, r}
    <2>1. p.th = threadSetAffinity(j, t, c)
      BY <1>2, Zenon DEF setAffinity
    <2>2. threadSetAffinity(j, t, c) \in {y, RescheduleFreeCore(y, t)}
      BY <1>1, Zenon DEF threadSetAffinity
    <2> HIDE DEF y
    <2>3. RescheduleFreeCore(y, t) \in {y, r}
      BY <1>5, Zenon DEF RescheduleFreeCore
    <2> QED BY <2>1, <2>2, <2>3, Zenon
  <1>7. Pins(i, p, t, k)
    BY <1>2, <1>3, SetAffinityPins, Zenon
  <1> HIDE DEF p
  <1>8. p.th.affinity[t] = c /\ p \in States /\ Consistent(p.th)
    BY <1>1, <1>2, <1>7, Zenon DEF Pins, PinsTo, ThreadLayer
  <1>9. PlaceNewThread(st, t, k) = IF p.th.threadRunning[c] = None THEN q ELSE p
    BY <1>8, ZenonT(40) DEF PlaceNewThread, p, i
  <1>10. CASE p.th.threadRunning[c] = None
    <2>1. q.th.coreRunning[t] = c
      BY <1>8, Zenon DEF States, ThreadLayer
    <2> QED BY <1>9, <1>10, <2>1, Zenon
  <1>11. CASE p.th.threadRunning[c] # None
    <2>1. p.th = r
      BY <1>1, <1>4, <1>6, <1>11, Zenon
    <2>2. Keeps(y, r) /\ c \notin r.expired
      <3> HIDE DEF y
      <3>1. Consistent(y)
        <4>1. Agree(y)
          BY <1>3, <1>4 DEF InStep, Agree
        <4>2. \A d \in Cores : j.threadRunning[d] # t
          BY <1>1, <1>3 DEF InStep, Agree
        <4>3. OnPins(y)
          <5> SUFFICES ASSUME NEW d \in Cores, y.threadRunning[d] # None, d \notin y.expired
                       PROVE  y.affinity[y.threadRunning[d]] = d
            BY Zenon DEF OnPins
          <5>1. j.threadRunning[d] \in Threads /\ j.threadRunning[d] # t
            BY <1>1, <1>4, <4>2 DEF ThreadLayer
          <5>2. j.affinity[j.threadRunning[d]] = d
            BY <1>3, <1>4, Zenon DEF InStep, OnPins
          <5>3. j.affinity \in [Threads -> Cores \cup {None}]
            BY <1>1 DEF ThreadLayer
          <5> QED BY <1>4, <5>1, <5>2, <5>3, Zenon
        <4> QED BY <1>4, <4>1, <4>3, Zenon DEF Consistent, InStep
      <3> DEFINE new == PickThread(y, c)
                 v == IF None = new THEN y ELSE MoveOn(MoveOff(y, None), new, c)
      <3>2. r = [v EXCEPT !.expired = @ \ {c}]
        <4>1. y.threadRunning[c] = None
          BY <1>1, <1>4, Zenon
        <4> QED BY <4>1, Zenon DEF reschedule
      <3>3. Keeps(y, v)
        <4>1. /\ new \in Threads \cup {None}
              /\ new # None => y.affinity[new] = c /\ y.coreRunning[new] \in {None, c}
          BY <1>4, PickThreadPicks, Zenon
        <4>2. y.threadRunning[c] = None
          BY <1>1, <1>4, Zenon
        <4> HIDE DEF new
        <4> QED BY <3>1, <4>1, <4>2, MoveKeeps, KeepsReflexive, Zenon
      <3> HIDE DEF v
      <3>4. c \notin r.expired
        BY <3>2, <3>3 DEF Keeps, Consistent, ThreadLayer
      <3> QED BY <3>1, <3>4, RescheduleKeeps
    <2>3. r.affinity[r.threadRunning[c]] = c
      BY <1>8, <1>11, <2>1, <2>2, Zenon DEF Consistent, InStep, OnPins
    <2> HIDE DEF r, y
    <2>4. r.threadRunning[c] = t
      BY <1>5, <1>8, <1>11, <2>1, <2>2, <2>3, Zenon DEF Keeps, Consistent, ThreadLayer
    <2>5. r.coreRunning[t] = c
      BY <1>8, <2>1, <2>4, Zenon DEF Consistent, InStep, Agree
    <2> QED BY <1>9, <1>11, <2>1, <2>5, Zenon
  <1> QED BY <1>10, <1>11, Zenon

\* A thread that is pinned nowhere is on no core.
Runners(x) == \A u \in Threads : x.affinity[u] = None => x.coreRunning[u] = None

\* The first threads of the active tasks A are pinned, of those below n.
Reserved(x, A, n) == \A k \in A : k < n => x.affinity[k] # None

\* Thread t, which was nowhere, is on the first free core of task k, and the other
\* threads stay where they are.
PutsOn(st, r, t, k) ==
  /\ Runners(r.th)
  /\ r.th.affinity[t] = FirstOwnFreeCore(st.sc, k)
  /\ \A u \in Threads \ {t} : r.th.affinity[u] = st.th.affinity[u]

\* Pinning one thread that had no core: it gets the first free core of its task.
LEMMA PinsRunners ==
  ASSUME NEW st \in States, NEW r, NEW t \in Threads, NEW k \in Tasks,
         Pins(st, r, t, k), Runners(st.th), st.th.affinity[t] = None
  PROVE  PutsOn(st, r, t, k)
  <1>1. PICK c \in Cores \cup {None} : PinsTo(st, r, t, k, c)
    BY Zenon DEF Pins
  <1>2. st.th.affinity \in [Threads -> Cores \cup {None}]
    BY Zenon DEF States, ThreadLayer
  <1>3. /\ r.th.affinity[t] = c
        /\ \A u \in Threads \ {t} : r.th.affinity[u] = st.th.affinity[u]
    BY <1>1, <1>2, Zenon DEF PinsTo
  <1>4. ASSUME NEW u \in Threads, r.th.affinity[u] = None PROVE r.th.coreRunning[u] = None
    <2>1. CASE u = t
      <3>1. st.th.coreRunning[t] = None /\ c = None
        BY <1>3, <1>4, <2>1, Zenon DEF Runners
      <3> QED BY <1>1, <2>1, <3>1, Zenon DEF PinsTo
    <2>2. CASE u # t
      <3>1. Detached(st.th, u)
        BY <1>3, <1>4, <2>2, Zenon DEF Runners, Detached
      <3> QED BY <1>1, <2>2, <3>1, Zenon DEF PinsTo, Detached
    <2> QED BY <2>1, <2>2, Zenon
  <1>5. c = FirstOwnFreeCore(st.sc, k)
    BY <1>1, Zenon DEF PinsTo
  <1> QED BY <1>3, <1>4, <1>5, Zenon DEF Runners, PutsOn

\* Task k, if it is active in s, has its first thread on a core, or a core free for
\* it while init: the thread does not exist yet.
Reserves(st, s, k, init) ==
  /\ Runners(s.th)
  /\ \A u \in Threads \ {k} : s.th.affinity[u] = st.th.affinity[u]
  /\ s.tk.active \subseteq st.tk.active \cup {k}
  /\ k \in s.tk.active /\ init => FirstOwnFreeCore(s.sc, k) \in Cores
  /\ k \in s.tk.active /\ ~init => s.th.affinity[k] \in Cores

\* schedule() pins the first thread of the task it maps, or leaves a core for it if
\* the thread does not exist yet: a task needs at least one core, and the cores that
\* it is given have no thread.
LEMMA ScheduleReserves ==
  ASSUME NEW st \in States, InStep(st.th), NEW k \in Tasks, k \notin st.tk.active,
         NEW ap, Placement(st.sc, st.th, ap, st.tk.active), Runners(st.th),
         NEW init \in BOOLEAN, NEW skew, NEW r \in schedule(st, k, init, skew)
  PROVE  Reserves(st, r.st, k, init)
  <1> DEFINE q == Enqueue(st.tk, {k})
  <1>1. st.tk \in TaskTable /\ st.sc \in CoreTable /\ k \in Threads
    BY TasksAreThreads, Zenon DEF States
  <1>2. q \in TaskTable /\ q.active = st.tk.active
    BY <1>1, Zenon DEF Enqueue, TaskTable
  <1> HIDE DEF q
  <1>3. \/ r.st = st
        \/ r.st = [st EXCEPT !.tk = q]
        \/ \E cs \in SUBSET FreeCores(st.sc) : Maps(st, r.st, k, init, cs)
    BY ScheduleOutcomes, Zenon DEF q
  <1>4. CASE r.st = st
    BY <1>4, Zenon DEF Reserves
  <1>5. CASE r.st = [st EXCEPT !.tk = q]
    <2>1. r.st.tk = q /\ r.st.th = st.th
      BY <1>2, <1>5, StateWithTasks
    <2> QED BY <1>2, <2>1, Zenon DEF Reserves
  <1>6. ASSUME NEW cs \in SUBSET FreeCores(st.sc), Maps(st, r.st, k, init, cs)
        PROVE  Reserves(st, r.st, k, init)
    <2>1. PICK m, a \in States :
            /\ m.tk = q
            /\ m.sc = Assign(st.sc, k, cs)
            /\ m.th = st.th
            /\ Cardinality(cs) = CoreRequirement[k]
            /\ IF init THEN a = m ELSE Pins(m, a, k, k)
            /\ r.st.tk = Activate(a.tk, k)
            /\ r.st.sc = a.sc
            /\ r.st.th = a.th
      BY <1>6, Zenon DEF Maps, q
    <2>2. PICK c \in cs : TRUE
      <3>1. CoreRequirement[k] # 0
        BY SchedulerAssumption, Zenon
      <3> QED BY <2>1, <3>1, FS_EmptySet, Zenon
    <2>3. c \in Cores /\ st.sc.assignedTask[c] = None
      BY <2>2, Zenon DEF FreeCores
    <2>4. st.sc.assignedThread[c] = None
      BY <2>3, Zenon DEF Placement
    <2>5. m.sc.assignedTask[c] = k /\ m.sc.assignedThread[c] = None
      BY <1>1, <2>1, <2>2, <2>3, <2>4, Zenon DEF Assign, CoreTable
    <2>6. FirstOwnFreeCore(m.sc, k) \in Cores
      BY <2>3, <2>5, OwnFreeCoreFound, Zenon
    <2>7. a.tk = q
      BY <2>1, PinsTasks, Zenon
    <2>8. r.st.tk.active \subseteq st.tk.active \cup {k}
      BY <1>2, <2>1, <2>7 DEF Activate, TaskTable
    <2>9. CASE init
      BY <2>1, <2>6, <2>8, <2>9, Zenon DEF Reserves
    <2>10. CASE ~init
      <3>1. Pins(m, a, k, k) /\ st.th.affinity[k] = None
        BY <2>1, <2>10, Zenon DEF Placement, Detached
      <3>2. PutsOn(m, a, k, k)
        <4>1. m \in States /\ Runners(m.th) /\ m.th.affinity[k] = None
          BY <2>1, <3>1, Zenon
        <4>2. Pins(m, a, k, k) /\ k \in Threads
          BY <1>1, <3>1, Zenon
        <4> QED BY <4>1, <4>2, PinsRunners, Zenon
      <3> QED BY <2>1, <2>6, <2>8, <2>10, <3>2, Zenon DEF Reserves, PutsOn
    <2> QED BY <2>9, <2>10, Zenon
  <1> QED BY <1>3, <1>4, <1>5, <1>6, Zenon

\* schedule() of a task whose first thread does not exist yet.
LEMMA ScheduleLeavesCore ==
  ASSUME NEW st \in States, InStep(st.th), NEW k \in Tasks, k \notin st.tk.active,
         NEW ap, Placement(st.sc, st.th, ap, st.tk.active), Runners(st.th),
         NEW skew, NEW r \in schedule(st, k, TRUE, skew)
  PROVE  /\ Runners(r.st.th)
         /\ \A u \in Threads \ {k} : r.st.th.affinity[u] = st.th.affinity[u]
         /\ r.st.tk.active \subseteq st.tk.active \cup {k}
         /\ k \in r.st.tk.active => FirstOwnFreeCore(r.st.sc, k) \in Cores
  <1>1. PICK init \in BOOLEAN : init = TRUE
    BY Zenon
  <1>2. r \in schedule(st, k, init, skew)
    BY <1>1, Zenon
  <1>3. init
    BY <1>1
  <1>4. Reserves(st, r.st, k, init)
    BY <1>2, ScheduleReserves, Zenon
  <1> QED BY <1>3, <1>4, Zenon DEF Reserves

\* schedule() of a task whose first thread exists.
LEMMA SchedulePinned ==
  ASSUME NEW st \in States, InStep(st.th), NEW k \in Tasks, k \notin st.tk.active,
         NEW ap, Placement(st.sc, st.th, ap, st.tk.active), Runners(st.th),
         NEW n, Reserved(st.th, st.tk.active, n),
         NEW skew, NEW r \in schedule(st, k, FALSE, skew)
  PROVE  Runners(r.st.th) /\ Reserved(r.st.th, r.st.tk.active, n)
  <1>1. PICK init \in BOOLEAN : init = FALSE
    BY Zenon
  <1>2. r \in schedule(st, k, init, skew)
    BY <1>1, Zenon
  <1>3. /\ Runners(r.st.th)
        /\ \A u \in Threads \ {k} : r.st.th.affinity[u] = st.th.affinity[u]
        /\ r.st.tk.active \subseteq st.tk.active \cup {k}
        /\ k \in r.st.tk.active => r.st.th.affinity[k] \in Cores
    <2>1. Reserves(st, r.st, k, init)
      BY <1>2, ScheduleReserves, Zenon
    <2> QED BY <1>1, <2>1, Zenon DEF Reserves
  <1>4. st.tk.active \subseteq Threads
    BY TasksAreThreads, Zenon DEF States, TaskTable
  <1> QED BY <1>3, <1>4, NoneIsNone, Zenon DEF Reserved

\* Prefetching maps a task from the queue, which is not active.
LEMMA PrefetchPinned ==
  ASSUME NEW st \in States, InStep(st.th), NEW b \in Nat, DueAbove(st.tk, b),
         NEW skew \in Nat, NEW r \in Prefetch(st, skew),
         \A k \in st.tk.waitingToSchedule \cup st.tk.waitingInQueue : k \notin st.tk.active,
         NEW ap, Placement(st.sc, st.th, ap, st.tk.active), Runners(st.th),
         NEW n, Reserved(st.th, st.tk.active, n)
  PROVE  Runners(r.th) /\ Reserved(r.th, r.tk.active, n)
  <1> DEFINE from == PrefetchFrom(st, skew)
             k == taskFrontOfQueue(from.tk)
             go == FreeCores(st.sc) = Cores /\ st.tk.waitingToSchedule # {}
  <1>1. CASE ~go
    BY <1>1, Zenon DEF Prefetch
  <1>2. CASE go
    <2>1. PICK q \in schedule(from, k, FALSE, skew) : r = q.st
      BY <1>2, Zenon DEF Prefetch, PrefetchFrom
    <2>2. /\ from \in States
          /\ from.sc = st.sc /\ from.th = st.th
          /\ from.tk.waitingInQueue # {}
          /\ from.tk.active = st.tk.active
          /\ \E ks \in SUBSET st.tk.waitingToSchedule :
               from.tk.waitingInQueue = st.tk.waitingInQueue \cup ks
      <3>1. Fetched(st, from, b)
        BY <1>2, PrefetchFromQueue, Zenon
      <3> QED BY <3>1, Zenon DEF Fetched
    <2> HIDE DEF from
    <2>3. k \in from.tk.waitingInQueue /\ k \in Tasks
      BY <2>2, FrontOfQueue, Zenon DEF States, TaskTable
    <2> HIDE DEF k
    <2>4. k \notin from.tk.active
      BY <2>2, <2>3, Zenon
    <2>5. Runners(q.st.th) /\ Reserved(q.st.th, q.st.tk.active, n)
      BY <2>2, <2>3, <2>4, SchedulePinned, Zenon
    <2> QED BY <2>1, <2>5, Zenon
  <1> QED BY <1>1, <1>2, Zenon

\* A thread that exits is pinned nowhere; no other thread is unpinned by it.
LEMMA ExitStatePinned ==
  ASSUME SoundInv, Runners(threads), NEW t \in Threads, Executes(t)
  PROVE  /\ Runners(ExitState(t).th)
         /\ \A u \in Threads \ {t} : ExitState(t).th.affinity[u] = threads.affinity[u]
  <1> DEFINE x == onThreadExit(threads, t)
             s == [State EXCEPT !.th = x]
             held == {c \in Cores : s.sc.assignedThread[c] = t}
             a == threadSetAffinity(s.th, t, None)
             y == IF held = {} THEN s.th ELSE a
  <1>1. ExitState(t).th = y
    BY Zenon DEF ExitState, ReleaseThread, FinishTask
  <1>2. /\ State \in States /\ Consistent(threads) /\ threads.coreRunning[t] # None
    BY StateIsSound, Zenon DEF Executes
  <1>3. /\ Consistent(x)
        /\ x.affinity = threads.affinity
        /\ x.coreRunning[t] = None
        /\ \A u \in Threads : Detached(threads, u) => Detached(x, u)
    BY <1>2, OnThreadExitDetaches, Zenon
  <1> HIDE DEF x
  <1>4. s.th = x
    BY <1>2, Zenon DEF States
  <1> HIDE DEF s
  <1>5. /\ a.affinity = [x.affinity EXCEPT ![t] = None]
        /\ \A u \in Threads \ {t} : Detached(x, u) => Detached(a, u)
        /\ a.coreRunning[t] = None
    <2>1. a = threadSetAffinity(x, t, None)
      BY <1>4, Zenon
    <2> HIDE DEF a
    <2> QED BY <1>3, <2>1, ThreadSetAffinityPins
  <1> HIDE DEF a, held
  <1>6. x.affinity \in [Threads -> Cores \cup {None}]
    BY <1>3, Zenon DEF Consistent, ThreadLayer
  <1>7. /\ \A u \in Threads \ {t} : y.affinity[u] = threads.affinity[u]
        /\ \A u \in Threads \ {t} : Detached(threads, u) => Detached(y, u)
        /\ y.coreRunning[t] = None
    BY <1>3, <1>4, <1>5, <1>6, Zenon
  <1> HIDE DEF y
  <1>8. Runners(y)
    BY <1>7, Zenon DEF Runners, Detached
  <1> QED BY <1>1, <1>7, <1>8, Zenon

\* The inductive invariant behind ThreadsGetCores.
PinnedInv ==
  /\ Runners(threads)
  /\ Reserved(threads, openTasks.active, numThreads)

\* The next state by its variables.
LEMMA PinnedNext ==
  ASSUME Runners(threads'), Reserved(threads', openTasks'.active, numThreads')
  PROVE  PinnedInv'
  BY Zenon DEF PinnedInv, Runners, Reserved

\* Every step preserves the invariant.
LEMMA NextPinned ==
  ASSUME "abandon" \notin Workload
  PROVE  SoundInv /\ PlacedInv /\ PinnedInv /\ [Next]_vars => PinnedInv'
  \* The start of the tasks: a mapped task has a core for its first thread.
  <1>CreateFirstPinned.
    ASSUME SoundInv, PlacedInv, PinnedInv, CreateFirst
    PROVE  PinnedInv'
    <2> USE <1>CreateFirstPinned
    <2> DEFINE n == numThreads
    <2>1. PICK r \in schedule(State, n, TRUE, 0) :
            IF n = 0 /\ ~r.ok
            THEN fault' = "task 0 not mapped" /\ UNCHANGED <<taskVars, app, numThreads>>
            ELSE /\ \E st \in {PlaceNewThread(r.st, n, n)} : Become(st)
                 /\ app' = [app EXCEPT ![n] = n]
                 /\ numThreads' = n + 1
                 /\ UNCHANGED fault
      BY Zenon DEF CreateFirst
    <2>2. n < NumTasks
      BY Zenon DEF CreateFirst
    <2>3. n \in Nat /\ n \in Tasks /\ n \in Threads
      BY <2>2, Counters, NumTasksIsNat DEF SoundInv, Tasks, Threads
    <2>4. CASE n = 0 /\ ~r.ok
      <3>1. UNCHANGED <<openTasks, threads, numThreads>>
        BY <2>1, <2>4, Zenon DEF taskVars
      <3> QED BY <3>1, PinnedNext, Zenon DEF PinnedInv
    <2>5. CASE ~(n = 0 /\ ~r.ok)
      <3> DEFINE p == PlaceNewThread(r.st, n, n)
      <3>1. Become(p) /\ numThreads' = n + 1
        BY <2>1, <2>5, Zenon
      <3>2. /\ State \in States /\ InStep(State.th) /\ Sound(State, n)
            /\ State.tk = openTasks /\ State.sc = systemCores /\ State.th = threads
        BY StateIsSound, Zenon DEF Sound
      <3>3. n \notin State.tk.active
        BY <2>3, <3>2 DEF PlacedInv, Uncreated, Partition
      <3>4. Placement(State.sc, State.th, app, State.tk.active) /\ Runners(State.th)
        BY <3>2, Zenon DEF PlacedInv, PinnedInv
      <3>5. /\ Runners(r.st.th)
            /\ \A u \in Threads \ {n} : r.st.th.affinity[u] = State.th.affinity[u]
            /\ r.st.tk.active \subseteq State.tk.active \cup {n}
            /\ n \in r.st.tk.active => FirstOwnFreeCore(r.st.sc, n) \in Cores
        <4>1. State \in States /\ InStep(State.th) /\ n \in Tasks
          BY <2>3, <3>2, Zenon
        <4> HIDE DEF n
        <4> QED BY <3>3, <3>4, <4>1, ScheduleLeavesCore, Zenon
      <3>6. Sound(r.st, n)
        BY <2>3, <3>2, ScheduleSound, Zenon
      <3>7. /\ r.st \in States /\ InStep(r.st.th)
            /\ r.st.th.coreRunning[n] = None /\ r.st.th.affinity[n] = None
        BY <2>3, <3>6 DEF Sound, Fresh, Detached
      <3>8. Pins(r.st, p, n, n) /\ p.tk = r.st.tk
        BY <2>3, <3>7, PlaceNewThreadPins, PinsTasks, Zenon
      <3> HIDE DEF p
      <3>9. /\ Runners(p.th)
             /\ p.th.affinity[n] = FirstOwnFreeCore(r.st.sc, n)
             /\ \A u \in Threads \ {n} : p.th.affinity[u] = r.st.th.affinity[u]
        <4>1. PutsOn(r.st, p, n, n)
          BY <2>3, <3>5, <3>7, <3>8, PinsRunners, Zenon
        <4> QED BY <4>1, Zenon DEF PutsOn
      <3>10. Reserved(p.th, p.tk.active, n + 1)
        <4> SUFFICES ASSUME NEW k \in p.tk.active, k < n + 1 PROVE p.th.affinity[k] # None
          BY Zenon DEF Reserved
        <4>1. CASE k = n
          <5>1. p.tk.active = r.st.tk.active
            BY <3>8, Zenon
          <5>2. FirstOwnFreeCore(r.st.sc, n) \in Cores
            BY <3>5, <4>1, <5>1, Zenon
          <5> QED BY <3>9, <4>1, <5>2, NoneIsNone, Zenon
        <4>2. CASE k # n
          <5>1. k \in openTasks.active /\ k \in Tasks
            BY <3>2, <3>5, <3>8, <4>2, Zenon DEF SoundInv, TypeOK, TaskTable
          <5>2. k < n /\ k \in Threads
            BY <2>3, <4>2, <5>1, TasksAreThreads DEF Tasks
          <5>3. threads.affinity[k] # None
            BY <5>1, <5>2, Zenon DEF PinnedInv, Reserved
          <5> QED BY <3>2, <3>5, <3>9, <4>2, <5>2, <5>3
        <4> QED BY <4>1, <4>2
      <3> QED BY <3>1, <3>9, <3>10, PinnedNext, Zenon DEF Become
    <2> QED BY <2>4, <2>5, Zenon
  \* A spawned thread is not the first of its task.
  <1>SpawnPinned.
    ASSUME SoundInv, PinnedInv, NEW t \in Threads, Spawn(t)
    PROVE  PinnedInv'
    <2> USE <1>SpawnPinned
    <2> DEFINE n == numThreads
               k == app[t]
               p == PlaceNewThread(State, n, k)
    <2>1. n < MaxThreads /\ NumTasks <= n
      BY Counters, NumTasksIsNat, Zenon DEF Spawn, LockFree, SoundInv
    <2>2. \/ UNCHANGED <<openTasks, threads, numThreads>>
          \/ Become(p) /\ numThreads' = n + 1
      BY Zenon DEF Spawn, taskVars
    <2>3. k \in Tasks
      BY ExecutesCreated, Zenon DEF Spawn
    <2>4. n \in Nat /\ n \in Threads /\ n \notin Tasks
      BY <2>1, Counters, NumTasksIsNat DEF SoundInv, Threads, Tasks
    <2>5. /\ State \in States /\ InStep(State.th) /\ State.tk = openTasks
          /\ State.th = threads
          /\ State.th.coreRunning[n] = None /\ State.th.affinity[n] = None
      BY <2>4, StateIsSound DEF Sound, Fresh, Detached
    <2> HIDE DEF k
    <2>6. Pins(State, p, n, k) /\ p.tk = openTasks
      BY <2>3, <2>4, <2>5, PlaceNewThreadPins, PinsTasks
    <2> HIDE DEF p
    <2>7. /\ Runners(p.th)
          /\ \A u \in Threads \ {n} : p.th.affinity[u] = threads.affinity[u]
      <3>1. Runners(State.th)
        BY <2>5, Zenon DEF PinnedInv
      <3>2. PutsOn(State, p, n, k)
        BY <2>3, <2>4, <2>5, <2>6, <3>1, PinsRunners, Zenon
      <3> QED BY <2>5, <3>2, Zenon DEF PutsOn
    <2>8. Reserved(p.th, p.tk.active, n + 1)
      <3> SUFFICES ASSUME NEW j \in openTasks.active PROVE p.th.affinity[j] # None
        BY <2>6, Zenon DEF Reserved
      <3>1. j \in Tasks
        BY Zenon DEF SoundInv, TypeOK, TaskTable
      <3>2. j < n /\ j \in Threads \ {n}
        BY <2>1, <2>4, <3>1, NumTasksIsNat, TasksAreThreads DEF Tasks
      <3> QED BY <2>7, <3>2, Zenon DEF PinnedInv, Reserved
    <2> QED BY <2>2, <2>7, <2>8, PinnedNext, Zenon DEF Become, PinnedInv
  \* The exit of a thread: the task of a first thread is not active any more.
  <1>ThreadExitPinned.
    ASSUME SoundInv, PlacedInv, PinnedInv, "abandon" \notin Workload,
           NEW t \in Threads, ThreadExit(t)
    PROVE  PinnedInv'
    <2> USE <1>ThreadExitPinned
    <2> DEFINE n == numThreads
               done == ExitState(t)
    <2>1. /\ Executes(t)
          /\ UNCHANGED numThreads
          /\ \E skew \in 0 .. MaxSkew : \E st \in Prefetch(done, skew) : Become(st)
      BY Zenon DEF ThreadExit, ExitState
    <2>2. PICK skew \in 0 .. MaxSkew : \E st \in Prefetch(done, skew) : Become(st)
      BY <2>1, Zenon
    <2>3. PICK st \in Prefetch(done, skew) : Become(st)
      BY <2>2, Zenon
    <2>4. skew \in Nat
      <3>1. MaxSkew \in Nat
        BY SchedulerAssumption, Zenon
      <3> QED BY <3>1
    <2>5. /\ Placed(done, app, n)
          /\ Sound(done, n)
          /\ done.tk.due = openTasks.due
          /\ done.tk.waitingToSchedule = openTasks.waitingToSchedule
          /\ done.tk.waitingInQueue = openTasks.waitingInQueue
          /\ done.tk.active = openTasks.active \ {t}
      BY ExitStatePlaced, Zenon
    <2>6. /\ Runners(done.th)
          /\ \A u \in Threads \ {t} : done.th.affinity[u] = threads.affinity[u]
      BY <2>1, ExitStatePinned, Zenon DEF PinnedInv
    <2> HIDE DEF done
    <2>7. openTasks.active \subseteq Threads
      BY TasksAreThreads, Zenon DEF SoundInv, TypeOK, TaskTable
    <2>8. Reserved(done.th, done.tk.active, n)
      BY <2>5, <2>6, <2>7, Zenon DEF PinnedInv, Reserved
    <2>9. Runners(st.th) /\ Reserved(st.th, st.tk.active, n)
      <3>1. DueAbove(done.tk, Age) /\ Age \in Nat
        BY <2>5, Counters, Zenon DEF SoundInv, DueAbove, Age
      <3>2. \A k \in done.tk.waitingToSchedule \cup done.tk.waitingInQueue :
              k \notin done.tk.active
        <4>1. openTasks.waitingToSchedule \cup openTasks.waitingInQueue \subseteq Tasks
          BY Zenon DEF SoundInv, TypeOK, TaskTable
        <4> QED BY <2>5, <4>1, Zenon DEF PlacedInv, Partition
      <3>3. /\ done \in States /\ InStep(done.th)
            /\ Placement(done.sc, done.th, app, done.tk.active)
        BY <2>5, Zenon DEF Sound, Placed
      <3> QED BY <2>3, <2>4, <2>6, <2>8, <3>1, <3>2, <3>3, PrefetchPinned, Zenon
    <2> QED BY <2>1, <2>3, <2>9, PinnedNext, Zenon DEF Become
  \* A migration pins the threads it moves to other cores.
  <1>MigrationPinned.
    ASSUME SoundInv, PinnedInv, NEW a \in Cores, NEW b \in Cores, Move(a, b) \/ Swap(a, b)
    PROVE  PinnedInv'
    <2> USE <1>MigrationPinned
    <2> DEFINE g == systemCores.assignedThread
               Step(x, y) == /\ Consistent(y)
                             /\ Runners(x) => Runners(y)
                             /\ \A u \in Threads : x.affinity[u] # None => y.affinity[u] # None
    <2>1. UNCHANGED <<openTasks, numThreads>>
      BY Zenon DEF Move, Swap, Migration
    <2>2. g[a] \in Threads \cup {None} /\ g[b] \in Threads \cup {None}
      BY Zenon DEF SoundInv, TypeOK, CoreTable
    <2>3. ASSUME NEW x, Consistent(x), NEW u \in Threads \cup {None}, NEW c \in Cores
          PROVE  Step(x, MigrateThread(x, u, c))
      <3> DEFINE y == MigrateThread(x, u, c)
      <3>1. /\ Consistent(y)
            /\ y.affinity = IF u = None THEN x.affinity
                            ELSE [x.affinity EXCEPT ![u] = c]
            /\ \A v \in Threads \ {u} : Detached(x, v) => Detached(y, v)
        BY <2>3, MigrateThreadPins, Zenon
      <3> HIDE DEF y
      <3>2. x.affinity \in [Threads -> Cores \cup {None}]
        BY <2>3, Zenon DEF Consistent, ThreadLayer
      <3>3. \A v \in Threads : y.affinity[v] = None => v # u /\ x.affinity[v] = None
        BY <3>1, <3>2, NoneIsNone, Zenon
      <3> QED BY <3>1, <3>3, Zenon DEF Runners, Detached, y
    <2>4. Consistent(threads)
      BY StateIsSound, Zenon
    <2>5. Step(threads, MigrateThread(threads, g[a], b))
      BY <2>2, <2>3, <2>4, Zenon
    <2>6. Step(MigrateThread(threads, g[a], b),
               MigrateThread(MigrateThread(threads, g[a], b), g[b], a))
      BY <2>2, <2>3, <2>5, Zenon
    <2>7. \/ threads' = MigrateThread(threads, g[a], b)
          \/ threads' = MigrateThread(MigrateThread(threads, g[a], b), g[b], a)
      BY Zenon DEF Move, Swap
    <2>8. /\ Runners(threads')
          /\ \A u \in Threads : threads.affinity[u] # None => threads'.affinity[u] # None
      BY <2>5, <2>6, <2>7, Zenon DEF PinnedInv
    <2>9. openTasks.active \subseteq Threads
      BY TasksAreThreads, Zenon DEF SoundInv, TypeOK, TaskTable
    <2> QED BY <2>1, <2>8, <2>9, PinnedNext, Zenon DEF PinnedInv, Reserved
  \* Mapping the front of the queue.
  <1>MapStepPinned.
    ASSUME SoundInv, PlacedInv, PinnedInv, MapStep
    PROVE  PinnedInv'
    <2> USE <1>MapStepPinned
    <2> DEFINE n == numThreads
               k == taskFrontOfQueue(openTasks)
    <2>1. UNCHANGED numThreads
      BY Zenon DEF MapStep
    <2>2. CASE openTasks.waitingInQueue = {}
      <3>1. UNCHANGED <<openTasks, threads>>
        BY <2>2, Zenon DEF MapStep, taskVars
      <3> QED BY <2>1, <3>1, PinnedNext, Zenon DEF PinnedInv
    <2>3. CASE openTasks.waitingInQueue # {}
      <3>1. PICK r \in schedule(State, k, FALSE, 0) : Become(r.st)
        BY <2>3, Zenon DEF MapStep
      <3>2. k \in openTasks.waitingInQueue /\ k \in Tasks
        BY <2>3, FrontOfQueue, Zenon DEF SoundInv, TypeOK, TaskTable
      <3> HIDE DEF k
      <3>3. k \notin openTasks.active
        BY <3>2, Zenon DEF PlacedInv, Partition
      <3>4. /\ State \in States /\ InStep(State.th)
            /\ State.tk = openTasks /\ State.sc = systemCores /\ State.th = threads
        BY StateIsSound, Zenon DEF Sound
      <3>5. /\ k \notin State.tk.active
            /\ Placement(State.sc, State.th, app, State.tk.active)
            /\ Runners(State.th) /\ Reserved(State.th, State.tk.active, n)
        BY <3>3, <3>4, Zenon DEF PlacedInv, PinnedInv
      <3>6. Runners(r.st.th) /\ Reserved(r.st.th, r.st.tk.active, n)
        BY <3>2, <3>4, <3>5, SchedulePinned, Zenon
      <3> QED BY <2>1, <3>1, <3>6, PinnedNext, Zenon DEF Become
    <2> QED BY <2>2, <2>3, Zenon
  <1> SUFFICES ASSUME SoundInv, PlacedInv, PinnedInv, [Next]_vars PROVE PinnedInv'
    BY Zenon
  <1>1. CASE CreateFirst
    BY <1>1, <1>CreateFirstPinned, Zenon
  <1>2. ASSUME NEW t \in Threads, Spawn(t) PROVE PinnedInv'
    BY <1>2, <1>SpawnPinned, Zenon
  <1>3. ASSUME NEW t \in Threads, ThreadExit(t) PROVE PinnedInv'
    BY <1>3, <1>ThreadExitPinned, Zenon
  <1>4. ASSUME NEW a \in Cores, NEW b \in Cores, Move(a, b) \/ Swap(a, b) PROVE PinnedInv'
    BY <1>4, <1>MigrationPinned, Zenon
  <1>5. CASE MapStep
    BY <1>5, <1>MapStepPinned, Zenon
  <1>6. ASSUME Keeps(threads, threads') \/ UNCHANGED threads,
               openTasks'.active = openTasks.active, UNCHANGED numThreads
        PROVE  PinnedInv'
    <2>1. /\ threads'.affinity = threads.affinity
          /\ \A u \in Threads : Detached(threads, u) => Detached(threads', u)
      BY <1>6, Zenon DEF Keeps
    <2>2. Runners(threads')
      BY <2>1, Zenon DEF PinnedInv, Runners, Detached
    <2> QED BY <1>6, <2>1, <2>2, PinnedNext, Zenon DEF PinnedInv, Reserved
  <1>7. ASSUME NEW t \in Threads,
               \/ ThreadStart(t) \/ Sleep(t) \/ StallUnscheduled(t)
               \/ BlockingSyscall(t) \/ SyscallReturns(t) \/ Yield(t)
               \/ \E u \in Threads : Join(t, u)
        PROVE  PinnedInv'
    <2>1. Keeps(threads, threads')
      BY <1>7, ThreadActionsKeep, Zenon
    <2> QED BY <1>6, <1>7, <2>1, ThreadActionsFrame, Zenon DEF ThreadStepFrame
  <1>8. CASE CallerReturns
    BY <1>6, <1>8, CallerReturnsKeeps, Zenon DEF ThreadStepFrame
  <1>9. CASE CoreStep
    BY <1>6, <1>9, CoreStepKeeps, Zenon DEF CoreStep
  <1>10. CASE PeriodicEnd \/ Stopped \/ UNCHANGED vars
    BY <1>6, <1>10, Zenon DEF PeriodicEnd, Stopped, vars, taskVars
  <1>11. ASSUME NEW w \in Threads \cup {None}, Tick(w) PROVE PinnedInv'
    <2>1. /\ threads' = IF w = None THEN threads ELSE resumeThread(threads, w)
          /\ UNCHANGED numThreads
          /\ openTasks'.active = openTasks.active
      BY <1>11, Zenon DEF Tick, SoundInv, TypeOK, TaskTable
    <2>2. Keeps(threads, threads')
      BY <2>1, StateIsSound, ResumeThreadKeeps, KeepsReflexive, Zenon
    <2> QED BY <1>6, <2>1, <2>2, Zenon
  <1>12. CASE EndMigration
    BY <1>6, <1>12 DEF EndMigration, fetchTasksIntoQueue, Enqueue, SoundInv, TypeOK, TaskTable
  <1> QED BY <1>1, <1>2, <1>3, <1>4, <1>5, <1>7, <1>8, <1>9, <1>10, <1>11, <1>12, Zenon
          DEF Next, Periodic

\* threadCreate() has given up.
NoCore == fault = "no core for new thread"

\* The core reserved for a thread still has a thread that belongs elsewhere.
Blocked ==
  \E k \in openTasks.active, u \in Threads :
    LET c == FirstOwnFreeCore(systemCores, k)
    IN  /\ c # None
        /\ threads.threadRunning[c] = u
        /\ threads.affinity[u] # c

\* Only the creation of a thread gives up for want of a core, and it ends the program.
LEMMA OnlySpawnGivesUp ==
  ASSUME [Next]_vars, NoCore'
  PROVE  \/ NoCore /\ UNCHANGED vars
         \/ \E t \in Threads : Spawn(t)
  <1>1. ASSUME fault = "none", UNCHANGED fault PROVE FALSE
    BY <1>1, Zenon DEF NoCore
  <1>2. CASE CreateFirst
    <2>1. fault = "none" /\ (fault' = fault \/ fault' = "task 0 not mapped")
      BY <1>2, Zenon DEF CreateFirst
    <2> QED BY <1>1, <2>1, Zenon DEF NoCore
  <1>3. ASSUME NEW t \in Threads,
               \/ ThreadStart(t) \/ ThreadExit(t) \/ Sleep(t) \/ StallUnscheduled(t)
               \/ BlockingSyscall(t) \/ SyscallReturns(t) \/ Yield(t)
        PROVE  FALSE
    BY <1>1, <1>3, Zenon DEF ThreadStart, ThreadExit, Sleep, StallUnscheduled,
         BlockingSyscall, SyscallReturns, Yield, LockFree, Stall
  <1>4. ASSUME NEW t \in Threads, NEW u \in Threads, Join(t, u) PROVE FALSE
    BY <1>1, <1>4, Zenon DEF Join, LockFree, Stall
  <1>5. ASSUME NEW w \in Threads \cup {None}, Tick(w) PROVE FALSE
    BY <1>1, <1>5, Zenon DEF Tick
  <1>6. ASSUME NEW a \in Cores, NEW b \in Cores, Move(a, b) \/ Swap(a, b) PROVE FALSE
    BY <1>1, <1>6, Zenon DEF Move, Swap, Migration
  <1>7. CASE CallerReturns \/ EndMigration \/ MapStep \/ CoreStep
    BY <1>1, <1>7, Zenon DEF CallerReturns, EndMigration, MapStep, CoreStep
  <1>8. CASE PeriodicEnd
    <2>1. fault = "none" /\ (fault' = fault \/ fault' = "deadlocked")
      BY <1>8, Zenon DEF PeriodicEnd
    <2> QED BY <1>1, <2>1, Zenon DEF NoCore
  <1>9. CASE UNCHANGED vars
    <2>1. UNCHANGED fault
      BY <1>9, Zenon DEF vars
    <2> QED BY <1>9, <2>1, Zenon DEF NoCore
  <1>10. CASE Stopped
    BY <1>9, <1>10, Zenon DEF Stopped
  <1> QED BY <1>2, <1>3, <1>4, <1>5, <1>6, <1>7, <1>8, <1>9, <1>10, Zenon
          DEF Next, Periodic

\* A task whose thread may create another has a core left for it.
LEMMA SpawnBlocked ==
  ASSUME SoundInv, PlacedInv, OwnedInv, PinnedInv, NEW t \in Threads, Spawn(t), NoCore'
  PROVE  Blocked'
  <1> DEFINE n == numThreads
             k == app[t]
             live == {u \in Threads : app[u] = k /\ threads.status[u] # "IDLE"}
             c == FirstOwnFreeCore(systemCores, k)
             A == openTasks.active
  <1>1. fault = "none"
    BY Zenon DEF Spawn, LockFree
  <1>2. /\ PlaceNewThread(State, n, k).th.coreRunning[n] = None
        /\ UNCHANGED taskVars
    BY <1>1, Zenon DEF Spawn, NoCore
  <1>3. /\ Executes(t) /\ n < MaxThreads
        /\ Cardinality(live) < CoreRequirement[k]
    BY Zenon DEF Spawn
  <1>4. k \in Tasks /\ n \in Nat /\ n \in Threads
    <2>1. k \in Tasks
      BY <1>3, ExecutesCreated, Zenon
    <2>2. n \in Nat /\ n \in Threads
      BY <1>3, Counters, NumTasksIsNat DEF SoundInv, Threads
    <2> QED BY <2>1, <2>2, Zenon
  <1>5. /\ State \in States /\ InStep(State.th) /\ State.sc = systemCores
        /\ State.th = threads /\ threads.coreRunning[n] = None
        /\ systemCores \in CoreTable /\ threads \in ThreadLayer
    <2>1. threads.coreRunning[n] = None
      BY <1>4, StateIsSound DEF Sound, Fresh, Detached
    <2>2. systemCores \in CoreTable /\ threads \in ThreadLayer
      BY Zenon DEF SoundInv, TypeOK
    <2> QED BY <2>1, <2>2, StateIsSound, Zenon DEF Sound
  <1>6. Placement(systemCores, threads, app, A) /\ Owned(systemCores.assignedTask, A)
    BY Zenon DEF PlacedInv, OwnedInv
  <1>7. k \in A
    <2>1. threads.affinity[t] # None /\ threads.affinity[t] \in Cores \cup {None}
      BY <1>3, <1>5, Zenon DEF PinnedInv, Runners, Executes, ThreadLayer
    <2>2. PICK d \in Cores : threads.affinity[t] = d
      BY <2>1, Zenon
    <2>3. systemCores.assignedThread[d] = t
      BY <1>6, <2>2, Zenon DEF Placement
    <2>4. systemCores.assignedTask[d] = k /\ k # None
      BY <1>6, <2>3, NoneIsNone, Zenon DEF Placement
    <2> QED BY <1>6, <2>4, Zenon DEF Placement
  <1> HIDE DEF A, k
  <1>8. c \in Cores
    <2>1. Cardinality({u \in Threads : app[u] = k /\ threads.status[u] # "IDLE"}) < CoreRequirement[k]
      BY <1>3, Zenon
    <2>2. systemCores \in CoreTable /\ k \in Tasks
      BY <1>4, <1>5, Zenon
    <2>3. FirstOwnFreeCore(systemCores, k) \in Cores
      BY <1>6, <1>7, <2>1, <2>2, TaskHasFreeCore, Zenon
    <2> QED BY <2>3, Zenon
  <1>9. systemCores.assignedThread[c] = None
    BY <1>4, <1>5, <1>8, FirstOwnFreeCoreIsFree, NoneIsNone
  <1>10. \A u \in Threads : threads.affinity[u] # c
    BY <1>6, <1>8, <1>9, NoneIsNone DEF Placement
  <1>11. threads.threadRunning[c] # None
    <2> SUFFICES ASSUME threads.threadRunning[c] = None PROVE FALSE
      BY Zenon
    <2>1. c = FirstOwnFreeCore(State.sc, k)
      BY <1>5, Zenon
    <2> HIDE DEF c
    <2> QED BY <1>2, <1>4, <1>5, <1>8, <1>10, <2>1, PlaceNewThreadRuns, Zenon
  <1>12. threads.threadRunning[c] \in Threads
    BY <1>5, <1>8, <1>11, Zenon DEF ThreadLayer
  <1>13. Blocked
    BY <1>7, <1>8, <1>10, <1>12, NoneIsNone, Zenon DEF Blocked, A
  <1> QED BY <1>2, <1>13, Zenon DEF Blocked, taskVars

\* Two things about the cores of threads.  The first thread of an active task is
\* pinned to a core of the task as soon as it exists.  threadCreate() finds the core
\* reserved for a new thread occupied only where a thread that was moved away from
\* it is still there; it never finds the task without a core to spare.
THEOREM ThreadsGetCoresAlways ==
  ASSUME "abandon" \notin Workload
  PROVE  Spec => []ThreadsGetCores
  <1> DEFINE Excused == NoCore => Blocked
  <1>1. Init => OwnedInv /\ PinnedInv /\ Excused
    <2> SUFFICES ASSUME Init PROVE OwnedInv /\ PinnedInv /\ Excused
      BY Zenon
    <2>1. PinnedInv
      BY Zenon DEF Init, ThreadLayerInit, PinnedInv, Runners, Reserved
    <2>2. fault = "none"
      BY Zenon DEF Init
    <2>3. Excused
      BY <2>2, Zenon DEF NoCore
    <2> QED BY <2>1, <2>3, InitOwned, Zenon
  <1>2. /\ SoundInv /\ PlacedInv /\ OwnedInv /\ PinnedInv /\ Excused
        /\ [Next]_vars
        => Excused'
    <2> SUFFICES ASSUME SoundInv, PlacedInv, OwnedInv, PinnedInv, Excused,
                        [Next]_vars, NoCore'
                 PROVE  Blocked'
      BY Zenon
    <2>1. CASE NoCore /\ UNCHANGED vars
      BY <2>1, Zenon DEF Blocked, vars
    <2>2. ASSUME NEW t \in Threads, Spawn(t) PROVE Blocked'
      BY <2>2, SpawnBlocked, Zenon
    <2> QED BY <2>1, <2>2, OnlySpawnGivesUp, Zenon
  <1>3. SoundInv /\ PlacedInv /\ PinnedInv /\ Excused => ThreadsGetCores
    <2> SUFFICES ASSUME SoundInv, PlacedInv, PinnedInv, Excused PROVE ThreadsGetCores
      BY Zenon
    <2>1. ASSUME NEW k \in openTasks.active, k < numThreads
          PROVE  threads.affinity[k] \in CoresOf(systemCores, k)
      <3>1. k \in Tasks /\ k \in Threads
        BY TasksAreThreads, Zenon DEF SoundInv, TypeOK, TaskTable
      <3>2. threads.affinity[k] \in Cores \cup {None} /\ threads.affinity[k] # None
        BY <2>1, <3>1, Zenon DEF SoundInv, TypeOK, ThreadLayer, PinnedInv, Reserved
      <3>3. PICK c \in Cores : threads.affinity[k] = c
        BY <3>2, Zenon
      <3>4. systemCores.assignedThread[c] = k
        BY <3>1, <3>3, Zenon DEF PlacedInv, Placement
      <3>5. systemCores.assignedTask[c] = app[k] /\ app[k] = k
        BY <2>1, <3>1, <3>4, NoneIsNone, Zenon DEF PlacedInv, Placement, FirstApps
      <3> QED BY <3>3, <3>5, Zenon DEF CoresOf
    <2> QED BY <2>1, Zenon DEF ThreadsGetCores, NoCore, Blocked
  <1> HIDE DEF Excused
  <1> QED BY <1>1, <1>2, <1>3, NextOwned, NextPinned, SpecSound, SpecPlaced, PTL DEF Spec

-----------------------------------------------------------------------------
(* The open scheduler implements TaskQueue                                 *)

\* Task table r is tk after one step of TaskQueue that completes done.
Serves(tk, r, done) ==
  \E arrived \in SUBSET tk.waitingToSchedule :
    \E started \in Abstract!Starts(tk.waitingInQueue \cup arrived) :
      /\ r.waitingToSchedule = tk.waitingToSchedule \ arrived
      /\ r.waitingInQueue = (tk.waitingInQueue \cup arrived) \ started
      /\ r.active = (tk.active \ done) \cup started
      /\ r.completed = tk.completed \cup done

\* A task table whose four sets are the same has not been served.
LEMMA ServesNothing ==
  ASSUME NEW tk, NEW r,
         r.waitingToSchedule = tk.waitingToSchedule,
         r.waitingInQueue = tk.waitingInQueue,
         r.active = tk.active,
         r.completed = tk.completed
  PROVE  Serves(tk, r, {})
  <1>1. {} \in SUBSET tk.waitingToSchedule
    BY Zenon
  <1>2. {} \in Abstract!Starts(tk.waitingInQueue \cup {})
    BY Zenon DEF Abstract!Starts
  <1>3. /\ r.waitingToSchedule = tk.waitingToSchedule \ {}
        /\ r.waitingInQueue = (tk.waitingInQueue \cup {}) \ {}
        /\ r.active = (tk.active \ {}) \cup {}
        /\ r.completed = tk.completed \cup {}
    BY Zenon
  <1> QED BY <1>1, <1>2, <1>3, Zenon DEF Serves

\* schedule() lets its task enter the queue and starts it only if it is the front.
LEMMA ScheduleServes ==
  ASSUME NEW st \in States, InStep(st.th),
         NEW k \in st.tk.waitingToSchedule \cup st.tk.waitingInQueue,
         NEW init \in BOOLEAN, NEW skew, NEW r \in schedule(st, k, init, skew)
  PROVE  Serves(st.tk, r.st.tk, {})
  <1> DEFINE q == Enqueue(st.tk, {k})
             arrived == {k} \cap st.tk.waitingToSchedule
             Q == st.tk.waitingInQueue \cup arrived
  <1>1. st.tk \in TaskTable /\ k \in Tasks
    BY Zenon DEF States, TaskTable
  <1>2. /\ q \in TaskTable
        /\ q.waitingToSchedule = st.tk.waitingToSchedule \ {k}
        /\ q.waitingInQueue = st.tk.waitingInQueue \cup {k}
        /\ q.active = st.tk.active
        /\ q.completed = st.tk.completed
    BY <1>1, Zenon DEF Enqueue, TaskTable
  <1>3. \/ r.st = st
        \/ r.st = [st EXCEPT !.tk = q]
        \/ \E cs \in SUBSET FreeCores(st.sc) : Maps(st, r.st, k, init, cs)
    BY <1>1, ScheduleOutcomes, Zenon
  <1>4. \/ r.st = st
        \/ r.st = [st EXCEPT !.tk = q]
        \/ taskFrontOfQueue(q) = k
    <2> DEFINE late == st.tk.due[k] > skew
               queued == [st EXCEPT !.tk = Enqueue(@, {k})]
               M(cs) == [queued EXCEPT !.sc = Assign(@, k, cs)]
               A(cs) == IF init THEN M(cs) ELSE setAffinity(M(cs), k, k)
               D(cs) == [A(cs) EXCEPT !.tk = Activate(@, k)]
               front == taskFrontOfQueue(queued.tk) = k
               full == \/ numberOfFreeCores(st.sc) < CoreRequirement[k]
                       \/ Mappings(st.sc, k) = {}
    <2>1. schedule(st, k, init, skew) =
            IF late THEN {[ok |-> FALSE, st |-> st]}
            ELSE IF ~front \/ full THEN {[ok |-> FALSE, st |-> queued]}
            ELSE {[ok |-> TRUE, st |-> D(cs)] : cs \in Mappings(st.sc, k)}
      BY Zenon DEF schedule
    <2>2. queued.tk = q /\ queued = [st EXCEPT !.tk = q]
      BY <1>1, <1>2, StateWithTasks, Zenon
    <2>3. front => taskFrontOfQueue(q) = k
      BY <2>2, Zenon
    <2> HIDE DEF late, queued, front, full, D, q
    <2>4. r.st = st \/ r.st = queued \/ front
      <3>1. \/ r = [ok |-> FALSE, st |-> st]
            \/ r = [ok |-> FALSE, st |-> queued]
            \/ front
        BY <2>1, Zenon
      <3> QED BY <3>1
    <2> QED BY <2>2, <2>3, <2>4, Zenon
  <1> HIDE DEF q
  <1>5. /\ arrived \in SUBSET st.tk.waitingToSchedule
        /\ q.waitingToSchedule = st.tk.waitingToSchedule \ arrived
        /\ q.waitingInQueue = Q
    BY <1>2, Zenon
  <1> HIDE DEF arrived
  <1>6. CASE r.st = st
    BY <1>6, ServesNothing, Zenon
  <1>7. CASE r.st = [st EXCEPT !.tk = q]
    <2>1. r.st.tk = q
      BY <1>2, <1>7, StateWithTasks, Zenon
    <2>2. {} \in Abstract!Starts(Q)
      BY Zenon DEF Abstract!Starts
    <2>3. /\ q.waitingInQueue = Q \ {}
          /\ q.active = (st.tk.active \ {}) \cup {}
          /\ q.completed = st.tk.completed \cup {}
      BY <1>2, <1>5, Zenon
    <2> QED BY <1>5, <2>1, <2>2, <2>3, Zenon DEF Serves
  <1>8. ASSUME NEW cs \in SUBSET FreeCores(st.sc), Maps(st, r.st, k, init, cs),
               taskFrontOfQueue(q) = k
        PROVE  Serves(st.tk, r.st.tk, {})
    <2>1. PICK m, a \in States :
            /\ m.tk = q
            /\ IF init THEN a = m ELSE Pins(m, a, k, k)
            /\ r.st.tk = Activate(a.tk, k)
      BY <1>8, Zenon DEF Maps, q
    <2>2. a.tk = q
      BY <2>1, Zenon DEF Pins, PinsTo
    <2>3. /\ r.st.tk.waitingToSchedule = q.waitingToSchedule
          /\ r.st.tk.waitingInQueue = q.waitingInQueue \ {k}
          /\ r.st.tk.active = q.active \cup {k}
          /\ r.st.tk.completed = q.completed
      BY <1>2, <2>1, <2>2, Zenon DEF Activate, TaskTable
    <2>4. Q \in SUBSET Nat /\ k \in Q
      BY <1>2, <1>5 DEF TaskTable, Tasks
    <2>5. k \in Q /\ \A j \in Q : k <= j
      BY <1>5, <1>8, <2>4, MinNat, Zenon DEF taskFrontOfQueue
    <2>6. {k} \in Abstract!Starts(Q)
      BY <2>5, Zenon DEF Abstract!Starts
    <2>7. /\ r.st.tk.waitingInQueue = Q \ {k}
          /\ r.st.tk.active = (st.tk.active \ {}) \cup {k}
          /\ r.st.tk.completed = st.tk.completed \cup {}
      BY <1>2, <1>5, <2>3, Zenon
    <2> QED BY <1>5, <2>3, <2>6, <2>7, Zenon DEF Serves
  <1> QED BY <1>3, <1>4, <1>6, <1>7, <1>8, Zenon

\* Prefetching lets tasks enter the queue before it schedules the front of it.
LEMMA PrefetchServes ==
  ASSUME NEW st \in States, InStep(st.th), NEW b \in Nat, DueAbove(st.tk, b),
         NEW skew \in Nat, NEW r \in Prefetch(st, skew)
  PROVE  Serves(st.tk, r.tk, {})
  <1> DEFINE from == PrefetchFrom(st, skew)
             k == taskFrontOfQueue(from.tk)
             go == FreeCores(st.sc) = Cores /\ st.tk.waitingToSchedule # {}
  <1>1. CASE ~go
    <2>1. r = st
      BY <1>1, Zenon DEF Prefetch
    <2> QED BY <2>1, ServesNothing, Zenon
  <1>2. CASE go
    <2>1. PICK q \in schedule(from, k, FALSE, skew) : r = q.st
      BY <1>2, Zenon DEF Prefetch, PrefetchFrom
    <2>2. Fetched(st, from, b)
      BY <1>2, PrefetchFromQueue, Zenon
    <2> HIDE DEF from
    <2>3. from \in States /\ InStep(from.th) /\ from.tk.waitingInQueue # {}
      BY <2>2, Zenon DEF Fetched
    <2>4. k \in from.tk.waitingInQueue
      BY <2>3, FrontOfQueue, Zenon DEF States
    <2> HIDE DEF k
    <2>5. Serves(from.tk, r.tk, {})
      BY <2>1, <2>3, <2>4, ScheduleServes, Zenon
    <2>6. PICK arrived \in SUBSET from.tk.waitingToSchedule :
            \E started \in Abstract!Starts(from.tk.waitingInQueue \cup arrived) :
              /\ r.tk.waitingToSchedule = from.tk.waitingToSchedule \ arrived
              /\ r.tk.waitingInQueue = (from.tk.waitingInQueue \cup arrived) \ started
              /\ r.tk.active = (from.tk.active \ {}) \cup started
              /\ r.tk.completed = from.tk.completed \cup {}
      BY <2>5, Zenon DEF Serves
    <2>7. PICK ks \in SUBSET st.tk.waitingToSchedule :
            /\ from.tk.waitingToSchedule = st.tk.waitingToSchedule \ ks
            /\ from.tk.waitingInQueue = st.tk.waitingInQueue \cup ks
      BY <2>2, Zenon DEF Fetched
    <2>8. from.tk.active = st.tk.active /\ from.tk.completed = st.tk.completed
      BY <2>2, Zenon DEF Fetched
    <2> DEFINE all == ks \cup arrived
    <2>9. /\ all \in SUBSET st.tk.waitingToSchedule
          /\ from.tk.waitingToSchedule \ arrived = st.tk.waitingToSchedule \ all
          /\ from.tk.waitingInQueue \cup arrived = st.tk.waitingInQueue \cup all
      BY <2>7, Zenon
    <2> HIDE DEF all
    <2> QED BY <2>6, <2>8, <2>9, Zenon DEF Serves
  <1> QED BY <1>1, <1>2, Zenon

\* threadExit() completes the task of a first thread, which is active, before it
\* prefetches.
LEMMA ExitServes ==
  ASSUME SoundInv, PlacedInv, "abandon" \notin Workload,
         NEW t \in Threads, ThreadExit(t)
  PROVE  \E done \in SUBSET openTasks.active :
           /\ done = {} \/ \E k \in openTasks.active : done = {k}
           /\ Serves(openTasks, openTasks', done)
  <1> DEFINE st == ExitState(t)
             done == {t} \cap Tasks
  <1>1. /\ LockFree /\ Executes(t)
        /\ \E skew \in 0 .. MaxSkew : \E r \in Prefetch(st, skew) : Become(r)
    BY Zenon DEF ThreadExit, ExitState
  <1>2. PICK skew \in 0 .. MaxSkew : \E r \in Prefetch(st, skew) : Become(r)
    BY <1>1, Zenon
  <1>3. PICK r \in Prefetch(st, skew) : Become(r)
    BY <1>2, Zenon
  <1>4. openTasks \in TaskTable
    BY Zenon DEF SoundInv, TypeOK
  <1>5. t \in Tasks => t \in openTasks.active
    <2>1. ~Detached(threads, t)
      BY <1>1, Zenon DEF Executes, Detached
    <2>2. Placement(systemCores, threads, app, openTasks.active)
      BY Zenon DEF PlacedInv
    <2> QED BY <2>1, <2>2, Zenon DEF Placement
  <1>6. /\ Placed(st, app, numThreads) /\ Sound(st, numThreads)
        /\ st.tk.due = openTasks.due
        /\ st.tk.waitingToSchedule = openTasks.waitingToSchedule
        /\ st.tk.waitingInQueue = openTasks.waitingInQueue
        /\ st.tk.active = openTasks.active \ {t}
    BY ExitStatePlaced, Zenon
  <1>7. st.tk.completed = openTasks.completed \cup done
    <2> DEFINE tk == [openTasks EXCEPT !.completed = @ \cup {t}, !.active = @ \ {t}]
    <2>1. st.tk = IF t \in Tasks THEN tk ELSE openTasks
      BY Zenon DEF ExitState, FinishTask, ReleaseThread, State
    <2>2. tk.completed = openTasks.completed \cup {t}
      BY <1>4, Zenon DEF TaskTable
    <2> HIDE DEF tk, st
    <2> QED BY <2>1, <2>2, Zenon
  <1>8. openTasks.active \ {t} = openTasks.active \ done
    BY <1>4, Zenon DEF TaskTable
  <1> HIDE DEF st
  <1>9. Serves(st.tk, r.tk, {})
    <2>1. MaxSkew \in Nat /\ Age \in Nat
      BY SchedulerAssumption, Counters, Zenon DEF Age, SoundInv
    <2>2. skew \in Nat
      BY <2>1
    <2>3. DueAbove(st.tk, Age)
      BY <1>6, Zenon DEF SoundInv, DueAbove
    <2>4. st \in States /\ InStep(st.th)
      BY <1>6, Zenon DEF Sound
    <2> QED BY <1>3, <2>1, <2>2, <2>3, <2>4, PrefetchServes, Zenon
  <1>10. PICK arrived \in SUBSET st.tk.waitingToSchedule :
           \E started \in Abstract!Starts(st.tk.waitingInQueue \cup arrived) :
             /\ r.tk.waitingToSchedule = st.tk.waitingToSchedule \ arrived
             /\ r.tk.waitingInQueue = (st.tk.waitingInQueue \cup arrived) \ started
             /\ r.tk.active = (st.tk.active \ {}) \cup started
             /\ r.tk.completed = st.tk.completed \cup {}
    BY <1>9, Zenon DEF Serves
  <1>11. openTasks' = r.tk
    BY <1>3, Zenon DEF Become
  <1>12. (st.tk.active \ {}) = openTasks.active \ done
    BY <1>6, <1>8, Zenon
  <1>13. st.tk.completed \cup {} = openTasks.completed \cup done
    BY <1>7, Zenon
  <1>14. /\ done \in SUBSET openTasks.active
         /\ done = {} \/ \E k \in openTasks.active : done = {k}
    BY <1>5, Zenon
  <1> HIDE DEF done
  <1>15. Serves(openTasks, openTasks', done)
    BY <1>6, <1>10, <1>11, <1>12, <1>13, Zenon DEF Serves
  <1> QED BY <1>14, <1>15, Zenon

\* Every handler of the scheduler serves the queue at most once.
LEMMA NextServes ==
  ASSUME "abandon" \notin Workload, SoundInv, PlacedInv, [Next]_vars
  PROVE  \E done \in SUBSET openTasks.active :
           /\ done = {} \/ \E k \in openTasks.active : done = {k}
           /\ Serves(openTasks, openTasks', done)
  <1> DEFINE Goal == \E done \in SUBSET openTasks.active :
                       /\ done = {} \/ \E k \in openTasks.active : done = {k}
                       /\ Serves(openTasks, openTasks', done)
  <1> SUFFICES Goal
    BY Zenon
  <1>1. ASSUME Serves(openTasks, openTasks', {}) PROVE Goal
    BY <1>1, Zenon
  <1> HIDE DEF Goal
  <1>2. ASSUME openTasks' = openTasks PROVE Goal
    BY <1>1, <1>2, ServesNothing, Zenon
  <1>3. /\ State \in States /\ InStep(State.th) /\ Sound(State, numThreads)
        /\ State.tk = openTasks /\ openTasks \in TaskTable
    BY StateIsSound, Zenon DEF Sound, SoundInv, TypeOK
  <1>4. CASE CreateFirst
    <2> DEFINE n == numThreads
    <2>1. PICK r \in schedule(State, n, TRUE, 0) :
            \/ openTasks' = openTasks
            \/ Become(PlaceNewThread(r.st, n, n))
      BY <1>4, Zenon DEF CreateFirst, taskVars
    <2>2. n \in Nat /\ n \in Tasks /\ n \in Threads
      <3>1. n < NumTasks /\ n \in Nat
        BY <1>4, Counters, Zenon DEF CreateFirst, SoundInv
      <3>2. n \in Tasks
        BY <3>1, NumTasksIsNat DEF Tasks
      <3> QED BY <3>1, <3>2, TasksAreThreads, Zenon
    <2>3. n \in State.tk.waitingToSchedule
      BY <1>3, <2>2 DEF PlacedInv, Uncreated
    <2>4. Serves(openTasks, r.st.tk, {})
      BY <1>3, <2>3, ScheduleServes, Zenon
    <2>5. Sound(r.st, n)
      BY <1>3, <2>2, ScheduleSound, Zenon
    <2>6. /\ r.st \in States /\ InStep(r.st.th)
          /\ r.st.th.coreRunning[n] = None
      BY <2>2, <2>5 DEF Sound, Fresh, Detached
    <2>7. PlaceNewThread(r.st, n, n).tk = r.st.tk
      <3>1. Pins(r.st, PlaceNewThread(r.st, n, n), n, n)
        BY <2>2, <2>6, PlaceNewThreadPins, Zenon
      <3> QED BY <3>1, Zenon DEF Pins, PinsTo
    <2>8. CASE openTasks' = openTasks
      BY <1>2, <2>8, Zenon
    <2>9. CASE Become(PlaceNewThread(r.st, n, n))
      BY <1>1, <2>4, <2>7, <2>9, Zenon DEF Become
    <2> QED BY <2>1, <2>8, <2>9, Zenon
  <1>5. ASSUME NEW t \in Threads, Spawn(t) PROVE Goal
    <2> DEFINE p == PlaceNewThread(State, numThreads, app[t])
    <2>1. p.tk = openTasks
      BY <1>3, Zenon DEF PlaceNewThread, setAffinity, State
    <2> HIDE DEF p
    <2>2. openTasks' = openTasks \/ Become(p)
      BY <1>5, Zenon DEF Spawn, p, taskVars
    <2> QED BY <1>2, <2>1, <2>2, Zenon DEF Become
  <1>6. ASSUME NEW t \in Threads, ThreadExit(t) PROVE Goal
    BY <1>6, ExitServes, Zenon DEF Goal
  <1>7. ASSUME NEW t \in Threads,
               \/ ThreadStart(t) \/ Sleep(t) \/ StallUnscheduled(t)
               \/ BlockingSyscall(t) \/ SyscallReturns(t) \/ Yield(t)
               \/ \E u \in Threads : Join(t, u)
        PROVE  Goal
    BY <1>2, <1>7, ThreadActionsFrame, Zenon DEF ThreadStepFrame
  <1>8. ASSUME NEW w \in Threads \cup {None}, Tick(w) PROVE Goal
    <2>1. PICK f : openTasks' = [openTasks EXCEPT !.due = f]
      BY <1>8, Zenon DEF Tick
    <2>2. /\ openTasks'.waitingToSchedule = openTasks.waitingToSchedule
          /\ openTasks'.waitingInQueue = openTasks.waitingInQueue
          /\ openTasks'.active = openTasks.active
          /\ openTasks'.completed = openTasks.completed
      BY <1>3, <2>1, Zenon DEF TaskTable
    <2> QED BY <1>1, <2>2, ServesNothing, Zenon
  <1>9. ASSUME NEW a \in Cores, NEW b \in Cores, Move(a, b) \/ Swap(a, b)
        PROVE  Goal
    BY <1>2, <1>9, Zenon DEF Move, Swap, Migration
  <1>10. CASE EndMigration
    <2> DEFINE ks == {k \in openTasks.waitingToSchedule : openTasks.due[k] <= 0}
               r == fetchTasksIntoQueue(openTasks, 0)
    <2>1. ks \in SUBSET openTasks.waitingToSchedule
      BY Zenon
    <2>2. /\ r.waitingToSchedule = openTasks.waitingToSchedule \ ks
          /\ r.waitingInQueue = openTasks.waitingInQueue \cup ks
          /\ r.active = openTasks.active
          /\ r.completed = openTasks.completed
      BY <1>3, FetchTasks
    <2> HIDE DEF ks, r
    <2>3. {} \in Abstract!Starts(openTasks.waitingInQueue \cup ks)
      BY Zenon DEF Abstract!Starts
    <2>4. /\ r.waitingInQueue = (openTasks.waitingInQueue \cup ks) \ {}
          /\ r.active = (openTasks.active \ {}) \cup {}
          /\ r.completed = openTasks.completed \cup {}
      BY <2>2, Zenon
    <2>5. Serves(openTasks, r, {})
      BY <2>1, <2>2, <2>3, <2>4, Zenon DEF Serves
    <2>6. openTasks' = r \/ openTasks' = openTasks
      BY <1>10, Zenon DEF EndMigration, r
    <2> QED BY <1>1, <1>2, <2>5, <2>6, Zenon
  <1>11. CASE MapStep
    <2> DEFINE k == taskFrontOfQueue(openTasks)
    <2>1. CASE openTasks.waitingInQueue = {}
      <3>1. openTasks' = openTasks
        BY <1>11, <2>1, Zenon DEF MapStep, taskVars
      <3> QED BY <1>2, <3>1, Zenon
    <2>2. CASE openTasks.waitingInQueue # {}
      <3>1. PICK r \in schedule(State, k, FALSE, 0) : Become(r.st)
        BY <1>11, <2>2, Zenon DEF MapStep
      <3>2. k \in State.tk.waitingInQueue
        BY <1>3, <2>2, FrontOfQueue, Zenon
      <3> HIDE DEF k
      <3>3. Serves(openTasks, r.st.tk, {})
        BY <1>3, <3>2, ScheduleServes, Zenon
      <3> QED BY <1>1, <3>1, <3>3, Zenon DEF Become
    <2> QED BY <2>1, <2>2, Zenon
  <1>12. CASE CallerReturns \/ CoreStep \/ PeriodicEnd
    <2>1. openTasks' = openTasks
      BY <1>12, CallerReturnsKeeps, Zenon DEF CoreStep, PeriodicEnd, taskVars, ThreadStepFrame
    <2> QED BY <1>2, <2>1, Zenon
  <1>13. CASE Stopped \/ UNCHANGED vars
    <2>1. openTasks' = openTasks
      BY <1>13, Zenon DEF Stopped, vars
    <2> QED BY <1>2, <2>1, Zenon
  <1> QED BY <1>4, <1>5, <1>6, <1>7, <1>8, <1>9, <1>10, <1>11, <1>12, <1>13, Zenon
          DEF Next, Periodic

\* schedule(), fetchTasksIntoQueue() and threadExit() together are a queue that
\* serves its tasks in order: a task arrives, starts and is completed once, and no
\* task starts while one with a smaller number is in the queue, however mapping,
\* prefetching, migration and the exits of threads interleave.
THEOREM Implements ==
  ASSUME "abandon" \notin Workload
  PROVE  Spec => ImplementsTaskQueue
  <1>1. Init => Abstract!Init
    <2> SUFFICES ASSUME Init PROVE Abstract!Init
      BY Zenon
    <2>1. openTasks = [ waitingToSchedule |-> Tasks, waitingInQueue |-> {},
                        active |-> {}, completed |-> {}, due |-> Arrival ]
      BY Zenon DEF Init
    <2>2. /\ openTasks.waitingToSchedule = Tasks
          /\ openTasks.waitingInQueue = {}
          /\ openTasks.active = {}
          /\ openTasks.completed = {}
      BY <2>1, Zenon
    <2> QED BY <2>2, Zenon DEF Abstract!Init
  <1>2. SoundInv /\ PlacedInv /\ [Next]_vars => [Abstract!Next]_(Abstract!taskVars)
    <2> SUFFICES ASSUME SoundInv, PlacedInv, [Next]_vars PROVE Abstract!Next
      BY Zenon
    <2>1. PICK done \in SUBSET openTasks.active :
            /\ done = {} \/ \E k \in openTasks.active : done = {k}
            /\ Serves(openTasks, openTasks', done)
      BY NextServes, Zenon
    <2>2. PICK arrived \in SUBSET openTasks.waitingToSchedule :
            Abstract!Serve(done, arrived)
      BY <2>1, Zenon DEF Serves, Abstract!Serve
    <2> QED BY <2>2, Zenon DEF Abstract!Next
  <1> QED BY <1>1, <1>2, SpecSound, SpecPlaced, PTL DEF Spec, ImplementsTaskQueue, Abstract!Spec
=============================================================================
