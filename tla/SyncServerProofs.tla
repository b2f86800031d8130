--------------------------- MODULE SyncServerProofs ---------------------------
(***************************************************************************)
(* The synchronisation server for any threads, mutexes, condition          *)
(* variables and barriers: every stalled thread stands in one queue, once, *)
(* and what follows for who is resumed, and when.                          *)
(***************************************************************************)
EXTENDS SyncServer, TLAPS

-----------------------------------------------------------------------------
(* The inductive invariant                                                 *)

\* Whether x stands in queue q, and whether nobody stands there twice.
In(q, x) == \E i \in 1..Len(q) : q[i] = x
Once(q)  == \A i, j \in 1..Len(q) : q[i] = q[j] => i = j

\* The same for the queue of a condition variable, which has the mutexes too.
InCond(q, x) == \E i \in 1..Len(q) : q[i].thread = x
OnceCond(q)  == \A i, j \in 1..Len(q) : q[i].thread = q[j].thread => i = j

QueuesOnce ==
  /\ \A m \in Mutexes : Once(mutexWaiting[m])
  /\ \A c \in Conds : OnceCond(condWaiting[c])
  /\ \A b \in Barriers : Once(barrierWaiting[b])

\* A stalled thread stands in one queue, a running one in none.
Waits(t) ==
  \/ \E m \in Mutexes : In(mutexWaiting[m], t)
  \/ \E c \in Conds : InCond(condWaiting[c], t)
  \/ \E b \in Barriers : In(barrierWaiting[b], t)

Apart ==
  \A t \in Threads :
    /\ t \in running <=> ~ Waits(t)
    /\ \A m \in Mutexes : In(mutexWaiting[m], t) =>
         /\ \A n \in Mutexes : In(mutexWaiting[n], t) => n = m
         /\ \A c \in Conds : ~ InCond(condWaiting[c], t)
         /\ \A b \in Barriers : ~ In(barrierWaiting[b], t)
    /\ \A c \in Conds : InCond(condWaiting[c], t) =>
         /\ \A d \in Conds : InCond(condWaiting[d], t) => d = c
         /\ \A b \in Barriers : ~ In(barrierWaiting[b], t)
    /\ \A b \in Barriers : In(barrierWaiting[b], t) =>
         \A a \in Barriers : In(barrierWaiting[a], t) => a = b

SyncInv == TypeOK /\ QueuesOnce /\ Apart

-----------------------------------------------------------------------------
(* Queues                                                                  *)

\* A thread lines up.
LEMMA Enqueue ==
  ASSUME NEW S, NEW q \in Seq(S), NEW x \in S
  PROVE  /\ Append(q, x) \in Seq(S)
         /\ \A y : In(Append(q, x), y) <=> In(q, y) \/ y = x
         /\ Once(q) /\ ~ In(q, x) => Once(Append(q, x))
  <1> DEFINE p == Append(q, x)
  <1>1. /\ p \in Seq(S) /\ Len(q) \in Nat /\ Len(p) = Len(q) + 1
        /\ \A i \in 1..Len(q) : p[i] = q[i]
        /\ p[Len(q) + 1] = x
    OBVIOUS
  <1> HIDE DEF p
  <1>2. \A y : In(p, y) <=> In(q, y) \/ y = x
    BY <1>1 DEF In
  <1>3. Once(q) /\ ~ In(q, x) => Once(p)
    BY <1>1 DEF Once, In
  <1> QED BY <1>1, <1>2, <1>3 DEF p

LEMMA EnqueueCond ==
  ASSUME NEW q \in Seq(CondWaiter), NEW x \in CondWaiter
  PROVE  /\ Append(q, x) \in Seq(CondWaiter)
         /\ \A y : InCond(Append(q, x), y) <=> InCond(q, y) \/ y = x.thread
         /\ OnceCond(q) /\ ~ InCond(q, x.thread) => OnceCond(Append(q, x))
  <1> DEFINE p == Append(q, x)
  <1>1. /\ p \in Seq(CondWaiter) /\ Len(q) \in Nat /\ Len(p) = Len(q) + 1
        /\ \A i \in 1..Len(q) : p[i] = q[i]
        /\ p[Len(q) + 1] = x
    OBVIOUS
  <1> HIDE DEF p
  <1>2. \A y : InCond(p, y) <=> InCond(q, y) \/ y = x.thread
    BY <1>1 DEF InCond
  <1>3. OnceCond(q) /\ ~ InCond(q, x.thread) => OnceCond(p)
    BY <1>1 DEF OnceCond, InCond
  <1> QED BY <1>1, <1>2, <1>3, Zenon DEF p

\* The first of a queue leaves it.
LEMMA Dequeue ==
  ASSUME NEW S, NEW q \in Seq(S), q # << >>
  PROVE  /\ Tail(q) \in Seq(S) /\ Head(q) \in S
         /\ \A y : In(q, y) <=> In(Tail(q), y) \/ y = Head(q)
         /\ Once(q) => Once(Tail(q)) /\ ~ In(Tail(q), Head(q))
  <1> DEFINE p == Tail(q)
  <1>1. /\ p \in Seq(S) /\ Len(q) \in Nat \ {0} /\ Len(p) = Len(q) - 1
        /\ \A i \in 1..Len(q) - 1 : p[i] = q[i + 1]
        /\ Head(q) = q[1] /\ Head(q) \in S
    OBVIOUS
  <1> HIDE DEF p
  <1>2. \A y : In(p, y) \/ y = Head(q) => In(q, y)
    BY <1>1 DEF In
  <1>3. ASSUME NEW y, In(q, y) PROVE In(p, y) \/ y = Head(q)
    <2>1. PICK i \in 1..Len(q) : q[i] = y
      BY <1>3, Zenon DEF In
    <2>2. CASE i = 1
      BY <1>1, <2>1, <2>2, Zenon
    <2>3. CASE i # 1
      <3>1. i - 1 \in 1..Len(p) /\ p[i - 1] = y
        BY <1>1, <2>1, <2>3
      <3> QED BY <3>1, Zenon DEF In
    <2> QED BY <2>2, <2>3, Zenon
  <1>4. Once(q) => Once(p) /\ ~ In(p, Head(q))
    BY <1>1, SMTT(30) DEF Once, In
  <1> QED BY <1>1, <1>2, <1>3, <1>4, Zenon DEF p

LEMMA DequeueCond ==
  ASSUME NEW q \in Seq(CondWaiter), q # << >>
  PROVE  /\ Tail(q) \in Seq(CondWaiter) /\ Head(q) \in CondWaiter
         /\ \A y : InCond(q, y) <=> InCond(Tail(q), y) \/ y = Head(q).thread
         /\ OnceCond(q) => OnceCond(Tail(q)) /\ ~ InCond(Tail(q), Head(q).thread)
  <1> DEFINE p == Tail(q)
  <1>1. /\ p \in Seq(CondWaiter) /\ Len(q) \in Nat \ {0} /\ Len(p) = Len(q) - 1
        /\ \A i \in 1..Len(q) - 1 : p[i] = q[i + 1]
        /\ Head(q) = q[1] /\ Head(q) \in CondWaiter
    OBVIOUS
  <1> HIDE DEF p
  <1>2. \A y : InCond(p, y) \/ y = Head(q).thread => InCond(q, y)
    BY <1>1 DEF InCond
  <1>3. ASSUME NEW y, InCond(q, y) PROVE InCond(p, y) \/ y = Head(q).thread
    <2>1. PICK i \in 1..Len(q) : q[i].thread = y
      BY <1>3, Zenon DEF InCond
    <2>2. CASE i = 1
      BY <1>1, <2>1, <2>2, Zenon
    <2>3. CASE i # 1
      <3>1. i - 1 \in 1..Len(p) /\ p[i - 1].thread = y
        BY <1>1, <2>1, <2>3
      <3> QED BY <3>1, Zenon DEF InCond
    <2> QED BY <2>2, <2>3, Zenon
  <1>4. ASSUME OnceCond(q) PROVE OnceCond(p) /\ ~ InCond(p, Head(q).thread)
    <2>1. ASSUME NEW i \in 1..Len(p), NEW j \in 1..Len(p), p[i].thread = p[j].thread
          PROVE  i = j
      <3>1. i + 1 \in 1..Len(q) /\ j + 1 \in 1..Len(q)
            /\ q[i + 1].thread = q[j + 1].thread
        BY <1>1, <2>1
      <3>2. i + 1 = j + 1
        BY <1>4, <3>1, Zenon DEF OnceCond
      <3> QED BY <3>2
    <2>2. ASSUME NEW i \in 1..Len(p), p[i].thread = Head(q).thread PROVE FALSE
      <3>1. i + 1 \in 1..Len(q) /\ 1 \in 1..Len(q) /\ q[i + 1].thread = q[1].thread
        BY <1>1, <2>2
      <3>2. i + 1 = 1
        BY <1>4, <3>1, Zenon DEF OnceCond
      <3> QED BY <3>2
    <2> QED BY <2>1, <2>2, Zenon DEF OnceCond, InCond
  <1> QED BY <1>1, <1>2, <1>3, <1>4, Zenon DEF p


-----------------------------------------------------------------------------
(* What a call does to the queues                                          *)

\* SimMutex::unlock resumes the first waiter, if there is one.
LEMMA Unlocks ==
  ASSUME SyncInv, NEW m \in Mutexes, NEW stay \in SUBSET Threads, unlock(m, stay)
  PROVE  /\ owner' \in [Mutexes -> Threads \cup {None}]
         /\ mutexWaiting' \in [Mutexes -> Seq(Threads)]
         /\ \A n \in Mutexes : Once(mutexWaiting'[n])
         /\ \E R \in SUBSET Threads :
              /\ running' = stay \cup R
              /\ \A x \in R : In(mutexWaiting[m], x) /\ owner'[m] = x
              /\ \A n \in Mutexes : \A x :
                   In(mutexWaiting'[n], x) <=> In(mutexWaiting[n], x) /\ ~ (n = m /\ x \in R)
  <1> DEFINE q == mutexWaiting[m]
  <1>1. /\ owner \in [Mutexes -> Threads \cup {None}]
        /\ mutexWaiting \in [Mutexes -> Seq(Threads)] /\ q \in Seq(Threads)
        /\ \A n \in Mutexes : Once(mutexWaiting[n])
    BY Zenon DEF SyncInv, TypeOK, QueuesOnce
  <1>2. CASE q = << >>
    <2>1. /\ owner' = [owner EXCEPT ![m] = None] /\ mutexWaiting' = mutexWaiting
          /\ running' = stay \cup {}
      BY <1>2, Zenon DEF unlock
    <2>2. \E R \in SUBSET Threads :
              /\ running' = stay \cup R
              /\ \A x \in R : In(mutexWaiting[m], x) /\ owner'[m] = x
              /\ \A n \in Mutexes : \A x :
                   In(mutexWaiting'[n], x) <=> In(mutexWaiting[n], x) /\ ~ (n = m /\ x \in R)
      <3>1. {} \in SUBSET Threads
        BY Zenon
      <3> QED BY <2>1, <3>1, Zenon
    <2>3. owner' \in [Mutexes -> Threads \cup {None}]
      BY <1>1, <2>1, Zenon
    <2> QED BY <1>1, <2>1, <2>2, <2>3, Zenon
  <1>3. CASE q # << >>
    <2>1. /\ Tail(q) \in Seq(Threads) /\ Head(q) \in Threads
          /\ \A y : In(q, y) <=> In(Tail(q), y) \/ y = Head(q)
          /\ Once(Tail(q)) /\ ~ In(Tail(q), Head(q))
      BY <1>1, <1>3, Dequeue, Zenon
    <2>2. /\ owner' = [owner EXCEPT ![m] = Head(q)]
          /\ mutexWaiting' = [mutexWaiting EXCEPT ![m] = Tail(q)]
          /\ running' = stay \cup {Head(q)}
      BY <1>3, Zenon DEF unlock
    <2>3. /\ mutexWaiting'[m] = Tail(q) /\ owner'[m] = Head(q)
          /\ \A n \in Mutexes : n # m => mutexWaiting'[n] = mutexWaiting[n]
      BY <1>1, <2>2, Zenon
    <2>4. /\ \A x \in {Head(q)} : In(q, x) /\ owner'[m] = x
          /\ \A n \in Mutexes : \A x :
               In(mutexWaiting'[n], x) <=> In(mutexWaiting[n], x) /\ ~ (n = m /\ x \in {Head(q)})
      BY <2>1, <2>3, Zenon
    <2>5. \A n \in Mutexes : Once(mutexWaiting'[n])
      BY <1>1, <2>1, <2>3, Zenon
    <2>6. \E R \in SUBSET Threads :
              /\ running' = stay \cup R
              /\ \A x \in R : In(mutexWaiting[m], x) /\ owner'[m] = x
              /\ \A n \in Mutexes : \A x :
                   In(mutexWaiting'[n], x) <=> In(mutexWaiting[n], x) /\ ~ (n = m /\ x \in R)
      <3>1. {Head(q)} \in SUBSET Threads
        BY <2>1, Zenon
      <3> QED BY <2>2, <2>4, <3>1, Zenon
    <2>7. /\ owner' \in [Mutexes -> Threads \cup {None}]
          /\ mutexWaiting' \in [Mutexes -> Seq(Threads)]
      BY <1>1, <2>1, <2>2, Zenon
    <2> QED BY <2>5, <2>6, <2>7, Zenon
  <1> QED BY <1>2, <1>3, Zenon

\* A thread that stands in no queue lines up for a mutex.
LEMMA LinesUp ==
  ASSUME SyncInv, NEW t \in Threads, NEW m \in Mutexes, ~ In(mutexWaiting[m], t),
         mutexWaiting' = [mutexWaiting EXCEPT ![m] = Append(@, t)]
  PROVE  /\ mutexWaiting' \in [Mutexes -> Seq(Threads)]
         /\ \A n \in Mutexes : Once(mutexWaiting'[n])
         /\ \A n \in Mutexes : \A x :
              In(mutexWaiting'[n], x) <=> In(mutexWaiting[n], x) \/ (n = m /\ x = t)
  <1> DEFINE q == mutexWaiting[m]
  <1>1. /\ mutexWaiting \in [Mutexes -> Seq(Threads)] /\ q \in Seq(Threads)
        /\ \A n \in Mutexes : Once(mutexWaiting[n])
    BY Zenon DEF SyncInv, TypeOK, QueuesOnce
  <1>2. /\ Append(q, t) \in Seq(Threads) /\ Once(Append(q, t))
        /\ \A y : In(Append(q, t), y) <=> In(q, y) \/ y = t
    BY <1>1, Enqueue, Zenon
  <1>3. /\ mutexWaiting'[m] = Append(q, t)
        /\ \A n \in Mutexes : n # m => mutexWaiting'[n] = mutexWaiting[n]
    BY <1>1, Zenon
  <1> QED BY <1>1, <1>2, <1>3, Zenon

\* SimMutex::lock by a running thread.
LEMMA LockKeeps ==
  ASSUME SyncInv, NEW t \in Threads, NEW m \in Mutexes, t \in running, lock(t, m),
         UNCHANGED <<condWaiting, barrierWaiting, broadcasting>>
  PROVE  SyncInv'
  <1>1. CASE owner[m] = None
    <2>1. /\ owner' = [owner EXCEPT ![m] = t]
          /\ UNCHANGED <<mutexWaiting, running>>
      BY <1>1, Zenon DEF lock
    <2>2. TypeOK'
      BY <2>1, Zenon DEF SyncInv, TypeOK
    <2> QED BY <2>1, <2>2, Zenon DEF SyncInv, QueuesOnce, Apart, Waits
  <1>2. CASE owner[m] # None
    <2>1. /\ mutexWaiting' = [mutexWaiting EXCEPT ![m] = Append(@, t)]
          /\ running' = running \ {t} /\ owner' = owner
      BY <1>2, Zenon DEF lock
    <2>2. ~ Waits(t)
      BY Zenon DEF SyncInv, Apart
    <2>3. /\ mutexWaiting' \in [Mutexes -> Seq(Threads)]
          /\ \A n \in Mutexes : Once(mutexWaiting'[n])
          /\ \A n \in Mutexes : \A x :
               In(mutexWaiting'[n], x) <=> In(mutexWaiting[n], x) \/ (n = m /\ x = t)
      BY <2>1, <2>2, LinesUp, Zenon DEF Waits
    <2>4. TypeOK'
      BY <2>1, <2>3, Zenon DEF SyncInv, TypeOK
    <2>5. QueuesOnce'
      BY <2>3, Zenon DEF SyncInv, QueuesOnce
    <2>6. Apart'
      BY <2>1, <2>2, <2>3 DEF SyncInv, Apart, Waits
    <2> QED BY <2>4, <2>5, <2>6, Zenon DEF SyncInv
  <1> QED BY <1>1, <1>2, Zenon

\* SyncServer::mutexUnlock.
LEMMA mutexUnlockKeeps ==
  ASSUME SyncInv, NEW t \in Threads, NEW m \in Mutexes, mutexUnlock(t, m)
  PROVE  SyncInv'
  <1>1. /\ unlock(m, running) /\ running \in SUBSET Threads
        /\ UNCHANGED <<condWaiting, barrierWaiting, broadcasting>>
    BY Zenon DEF mutexUnlock, SyncInv, TypeOK
  <1>2. /\ owner' \in [Mutexes -> Threads \cup {None}]
        /\ mutexWaiting' \in [Mutexes -> Seq(Threads)]
        /\ \A n \in Mutexes : Once(mutexWaiting'[n])
    BY <1>1, Unlocks, Zenon
  <1>3. PICK R \in SUBSET Threads :
              /\ running' = running \cup R
              /\ \A x \in R : In(mutexWaiting[m], x) /\ owner'[m] = x
              /\ \A n \in Mutexes : \A x :
                   In(mutexWaiting'[n], x) <=> In(mutexWaiting[n], x) /\ ~ (n = m /\ x \in R)
    BY <1>1, Unlocks, Zenon
  <1>4. TypeOK'
    BY <1>1, <1>2, <1>3, Zenon DEF SyncInv, TypeOK
  <1>5. QueuesOnce'
    BY <1>1, <1>2, Zenon DEF SyncInv, QueuesOnce
  <1>6. Apart'
    BY <1>1, <1>3 DEF SyncInv, Apart, Waits
  <1> QED BY <1>4, <1>5, <1>6, Zenon DEF SyncInv

\* SyncServer::condWait.
LEMMA condWaitKeeps ==
  ASSUME SyncInv, NEW t \in Threads, NEW c \in Conds, NEW m \in Mutexes, condWait(t, c, m)
  PROVE  SyncInv'
  <1> DEFINE w == [thread |-> t, mutex |-> m]
             q == condWaiting[c]
  <1>1. /\ unlock(m, running \ {t}) /\ running \ {t} \in SUBSET Threads /\ t \in running
        /\ condWaiting' = [condWaiting EXCEPT ![c] = Append(q, w)]
        /\ UNCHANGED <<barrierWaiting, broadcasting>>
    BY Zenon DEF condWait, Calls, SyncInv, TypeOK
  <1>2. /\ owner' \in [Mutexes -> Threads \cup {None}]
        /\ mutexWaiting' \in [Mutexes -> Seq(Threads)]
        /\ \A n \in Mutexes : Once(mutexWaiting'[n])
    BY <1>1, Unlocks, Zenon
  <1>3. PICK R \in SUBSET Threads :
              /\ running' = (running \ {t}) \cup R
              /\ \A x \in R : In(mutexWaiting[m], x) /\ owner'[m] = x
              /\ \A n \in Mutexes : \A x :
                   In(mutexWaiting'[n], x) <=> In(mutexWaiting[n], x) /\ ~ (n = m /\ x \in R)
    BY <1>1, Unlocks, Zenon
  <1>4. ~ Waits(t)
    BY <1>1, Zenon DEF SyncInv, Apart
  <1>5. /\ condWaiting \in [Conds -> Seq(CondWaiter)] /\ q \in Seq(CondWaiter)
        /\ w \in CondWaiter /\ w.thread = t /\ OnceCond(q) /\ ~ InCond(q, t)
    BY <1>4, Zenon DEF SyncInv, TypeOK, QueuesOnce, CondWaiter, Waits
  <1> HIDE DEF w
  <1>6. /\ Append(q, w) \in Seq(CondWaiter) /\ OnceCond(Append(q, w))
        /\ \A y : InCond(Append(q, w), y) <=> InCond(q, y) \/ y = t
    BY <1>5, EnqueueCond, Zenon
  <1>7. /\ condWaiting'[c] = Append(q, w)
        /\ \A d \in Conds : d # c => condWaiting'[d] = condWaiting[d]
        /\ condWaiting' \in [Conds -> Seq(CondWaiter)]
    BY <1>1, <1>5, <1>6
  <1>8. /\ \A d \in Conds : OnceCond(condWaiting'[d])
        /\ \A d \in Conds : \A x :
             InCond(condWaiting'[d], x) <=> InCond(condWaiting[d], x) \/ (d = c /\ x = t)
    BY <1>6, <1>7, Zenon DEF SyncInv, QueuesOnce
  <1>9. TypeOK'
    BY <1>1, <1>2, <1>3, <1>7, Zenon DEF SyncInv, TypeOK
  <1>10. QueuesOnce'
    BY <1>1, <1>2, <1>8, Zenon DEF SyncInv, QueuesOnce
  <1>11. Apart'
    BY <1>1, <1>3, <1>4, <1>8, SMTT(30) DEF SyncInv, Apart, Waits
  <1> QED BY <1>9, <1>10, <1>11, Zenon DEF SyncInv


\* The first waiter of a condition variable gets its mutex or lines up for it.
LEMMA WakeFirstKeeps ==
  ASSUME SyncInv, NEW c \in Conds, WakeFirst(c), broadcasting' \in Conds \cup {None}
  PROVE  SyncInv'
  <1> DEFINE q == condWaiting[c]
             t == Head(q).thread
             m == Head(q).mutex
  <1>1. /\ q # << >> /\ lock_async(t, m)
        /\ condWaiting' = [condWaiting EXCEPT ![c] = Tail(q)]
        /\ barrierWaiting' = barrierWaiting
    BY Zenon DEF WakeFirst
  <1>2. /\ condWaiting \in [Conds -> Seq(CondWaiter)] /\ q \in Seq(CondWaiter)
        /\ OnceCond(q)
    BY Zenon DEF SyncInv, TypeOK, QueuesOnce
  <1>3. /\ Tail(q) \in Seq(CondWaiter) /\ Head(q) \in CondWaiter /\ OnceCond(Tail(q))
        /\ \A y : InCond(q, y) <=> InCond(Tail(q), y) \/ y = t
        /\ ~ InCond(Tail(q), t)
    BY <1>1, <1>2, DequeueCond, Zenon
  <1>4. t \in Threads /\ m \in Mutexes
    BY <1>3, Zenon DEF CondWaiter
  <1>5. /\ condWaiting'[c] = Tail(q)
        /\ \A d \in Conds : d # c => condWaiting'[d] = condWaiting[d]
        /\ condWaiting' \in [Conds -> Seq(CondWaiter)]
    BY <1>1, <1>2, <1>3, Zenon
  <1>6. /\ \A d \in Conds : OnceCond(condWaiting'[d])
        /\ \A d \in Conds : \A x :
             InCond(condWaiting'[d], x) <=> InCond(condWaiting[d], x) /\ ~ (d = c /\ x = t)
    BY <1>3, <1>5, Zenon DEF SyncInv, QueuesOnce
  <1>7. InCond(condWaiting[c], t)
    BY <1>3, Zenon
  <1> HIDE DEF t, m, q
  <1>8. /\ t \notin running
        /\ \A n \in Mutexes : ~ In(mutexWaiting[n], t)
        /\ \A d \in Conds : InCond(condWaiting[d], t) => d = c
        /\ \A b \in Barriers : ~ In(barrierWaiting[b], t)
    BY <1>4, <1>7, Zenon DEF SyncInv, Apart, Waits
  <1>9. CASE owner[m] = None
    <2>1. /\ owner' = [owner EXCEPT ![m] = t]
          /\ running' = running \cup {t} /\ mutexWaiting' = mutexWaiting
      BY <1>1, <1>9, Zenon DEF lock_async
    <2>2. TypeOK'
      BY <1>1, <1>4, <1>5, <2>1, Zenon DEF SyncInv, TypeOK
    <2>3. QueuesOnce'
      BY <1>1, <1>6, <2>1, Zenon DEF SyncInv, QueuesOnce
    <2>4. Apart'
      BY <1>1, <1>6, <1>8, <2>1, SMTT(30) DEF SyncInv, Apart, Waits
    <2> QED BY <2>2, <2>3, <2>4, Zenon DEF SyncInv
  <1>10. CASE owner[m] # None
    <2>1. /\ mutexWaiting' = [mutexWaiting EXCEPT ![m] = Append(@, t)]
          /\ running' = running /\ owner' = owner
      BY <1>1, <1>10, Zenon DEF lock_async
    <2>2. /\ mutexWaiting' \in [Mutexes -> Seq(Threads)]
          /\ \A n \in Mutexes : Once(mutexWaiting'[n])
          /\ \A n \in Mutexes : \A x :
               In(mutexWaiting'[n], x) <=> In(mutexWaiting[n], x) \/ (n = m /\ x = t)
      BY <1>4, <1>8, <2>1, LinesUp, Zenon
    <2>3. TypeOK'
      BY <1>1, <1>5, <2>1, <2>2, Zenon DEF SyncInv, TypeOK
    <2>4. QueuesOnce'
      BY <1>1, <1>6, <2>2, Zenon DEF SyncInv, QueuesOnce
    <2>5. Apart'
      <3>1. /\ \A d \in Conds : ~ InCond(condWaiting'[d], t)
            /\ In(mutexWaiting'[m], t)
            /\ \A n \in Mutexes : In(mutexWaiting'[n], t) => n = m
        BY <1>4, <1>6, <1>8, <2>2, Zenon
      <3>2. \A x \in Threads \ {t} :
              /\ \A d \in Conds : InCond(condWaiting'[d], x) <=> InCond(condWaiting[d], x)
              /\ \A n \in Mutexes : In(mutexWaiting'[n], x) <=> In(mutexWaiting[n], x)
        BY <1>6, <2>2, Zenon
      <3> QED BY <1>1, <1>4, <1>8, <2>1, <3>1, <3>2, SMTT(30) DEF SyncInv, Apart, Waits
    <2> QED BY <2>3, <2>4, <2>5, Zenon DEF SyncInv
  <1> QED BY <1>9, <1>10, Zenon

\* SimBarrier::wait: the last one empties the queue, the others line up.
LEMMA barrierWaitKeeps ==
  ASSUME SyncInv, NEW t \in Threads, NEW b \in Barriers, barrierWait(t, b)
  PROVE  SyncInv'
  <1> DEFINE q == barrierWaiting[b]
  <1>1. /\ t \in running /\ UNCHANGED <<owner, mutexWaiting, condWaiting, broadcasting>>
        /\ barrierWaiting \in [Barriers -> Seq(Threads)] /\ q \in Seq(Threads) /\ Once(q)
    BY Zenon DEF barrierWait, Calls, SyncInv, TypeOK, QueuesOnce
  <1>2. ~ Waits(t)
    BY <1>1, Zenon DEF SyncInv, Apart
  <1>3. CASE Len(q) = BarrierCount[b] - 1
    <2>1. /\ barrierWaiting' = [barrierWaiting EXCEPT ![b] = << >>]
          /\ running' = running \cup ToSet(q)
      BY <1>3, Zenon DEF barrierWait
    <2>2. \A x : x \in ToSet(q) <=> In(q, x)
      BY <1>1 DEF ToSet, In
    <2>3. Once(<< >>) /\ \A x : ~ In(<< >>, x)
      BY DEF Once, In
    <2>4. ToSet(q) \subseteq Threads
      BY <1>1 DEF ToSet
    <2>5. /\ barrierWaiting'[b] = << >>
          /\ \A a \in Barriers : a # b => barrierWaiting'[a] = barrierWaiting[a]
          /\ barrierWaiting' \in [Barriers -> Seq(Threads)]
      BY <1>1, <2>1
    <2>6. /\ \A a \in Barriers : Once(barrierWaiting'[a])
          /\ \A a \in Barriers : \A x :
               In(barrierWaiting'[a], x) <=> In(barrierWaiting[a], x) /\ a # b
      BY <2>3, <2>5, Zenon DEF SyncInv, QueuesOnce
    <2>7. TypeOK'
      BY <1>1, <2>1, <2>4, <2>5, Zenon DEF SyncInv, TypeOK
    <2>8. QueuesOnce'
      BY <1>1, <2>6, Zenon DEF SyncInv, QueuesOnce
    <2>9. Apart'
      BY <1>1, <2>1, <2>2, <2>6, Zenon DEF SyncInv, Apart, Waits
    <2> QED BY <2>7, <2>8, <2>9, Zenon DEF SyncInv
  <1>4. CASE Len(q) # BarrierCount[b] - 1
    <2>1. /\ barrierWaiting' = [barrierWaiting EXCEPT ![b] = Append(q, t)]
          /\ running' = running \ {t}
      BY <1>4, Zenon DEF barrierWait
    <2>2. ~ In(q, t)
      BY <1>2, Zenon DEF Waits
    <2>3. /\ Append(q, t) \in Seq(Threads) /\ Once(Append(q, t))
          /\ \A y : In(Append(q, t), y) <=> In(q, y) \/ y = t
      BY <1>1, <2>2, Enqueue, Zenon
    <2>4. /\ barrierWaiting'[b] = Append(q, t)
          /\ \A a \in Barriers : a # b => barrierWaiting'[a] = barrierWaiting[a]
          /\ barrierWaiting' \in [Barriers -> Seq(Threads)]
      BY <1>1, <2>1, <2>3, Zenon
    <2>5. /\ \A a \in Barriers : Once(barrierWaiting'[a])
          /\ \A a \in Barriers : \A x :
               In(barrierWaiting'[a], x) <=> In(barrierWaiting[a], x) \/ (a = b /\ x = t)
      BY <2>3, <2>4, Zenon DEF SyncInv, QueuesOnce
    <2>6. TypeOK'
      BY <1>1, <2>1, <2>4, Zenon DEF SyncInv, TypeOK
    <2>7. QueuesOnce'
      BY <1>1, <2>5, Zenon DEF SyncInv, QueuesOnce
    <2>8. Apart'
      BY <1>1, <1>2, <2>1, <2>5, SMTT(30) DEF SyncInv, Apart, Waits
    <2> QED BY <2>6, <2>7, <2>8, Zenon DEF SyncInv
  <1> QED BY <1>3, <1>4, Zenon

\* The synchronisation server keeps its inductive invariant.
THEOREM SyncInvAlways == Spec => []SyncInv
  <1>1. ASSUME Init PROVE SyncInv
    <2>1. /\ owner = [m \in Mutexes |-> None]
          /\ mutexWaiting = [m \in Mutexes |-> << >>]
          /\ condWaiting = [c \in Conds |-> << >>]
          /\ barrierWaiting = [b \in Barriers |-> << >>]
          /\ running = Threads /\ broadcasting = None
      BY <1>1, Zenon DEF Init
    <2>2. Once(<< >>) /\ OnceCond(<< >>) /\ \A x : ~ In(<< >>, x) /\ ~ InCond(<< >>, x)
      BY DEF Once, OnceCond, In, InCond
    <2>3. TypeOK
      BY <2>1 DEF TypeOK
    <2>4. QueuesOnce /\ Apart
      BY <2>1, <2>2, Zenon DEF QueuesOnce, Apart, Waits
    <2> QED BY <2>3, <2>4, Zenon DEF SyncInv
  <1>2. ASSUME SyncInv, [Next]_vars PROVE SyncInv'
    <2>1. ASSUME NEW t \in Threads, NEW m \in Mutexes, mutexLock(t, m) \/ mutexTryLock(t, m)
          PROVE  SyncInv'
      BY <1>2, <2>1, LockKeeps, Zenon DEF mutexLock, mutexTryLock, Calls
    <2>2. ASSUME NEW t \in Threads, NEW m \in Mutexes, mutexUnlock(t, m) PROVE SyncInv'
      BY <1>2, <2>2, mutexUnlockKeeps, Zenon
    <2>3. ASSUME NEW t \in Threads, NEW c \in Conds, NEW m \in Mutexes, condWait(t, c, m)
          PROVE  SyncInv'
      BY <1>2, <2>3, condWaitKeeps, Zenon
    <2>4. ASSUME NEW t \in Threads, NEW c \in Conds, condSignal(t, c) PROVE SyncInv'
      BY <1>2, <2>4, WakeFirstKeeps, Zenon DEF condSignal, SyncInv, TypeOK
    <2>5. ASSUME NEW t \in Threads, NEW c \in Conds, condBroadcast(t, c) PROVE SyncInv'
      BY <1>2, <2>5, Zenon DEF condBroadcast, SyncInv, TypeOK, QueuesOnce, Apart, Waits
    <2>6. ASSUME BroadcastStep PROVE SyncInv'
      <3>1. broadcasting \in Conds
        BY <1>2, <2>6, Zenon DEF BroadcastStep, SyncInv, TypeOK
      <3>2. CASE WakeFirst(broadcasting) /\ UNCHANGED broadcasting
        BY <1>2, <3>1, <3>2, WakeFirstKeeps, Zenon
      <3>3. CASE broadcasting' = None
                 /\ UNCHANGED <<owner, mutexWaiting, condWaiting, barrierWaiting, running>>
        BY <1>2, <3>3, Zenon DEF SyncInv, TypeOK, QueuesOnce, Apart, Waits
      <3> QED BY <2>6, <3>2, <3>3, Zenon DEF BroadcastStep
    <2>7. ASSUME NEW t \in Threads, NEW b \in Barriers, barrierWait(t, b) PROVE SyncInv'
      BY <1>2, <2>7, barrierWaitKeeps, Zenon
    <2>8. CASE UNCHANGED vars
      BY <1>2, <2>8, Zenon DEF vars, SyncInv, TypeOK, QueuesOnce, Apart, Waits
    <2> QED BY <1>2, <2>1, <2>2, <2>3, <2>4, <2>5, <2>6, <2>7, <2>8, Zenon DEF Next
  <1> QED BY <1>1, <1>2, PTL DEF Spec


-----------------------------------------------------------------------------
(* What follows                                                            *)

\* Owners, queues and running threads keep their types: whatever the order of
\* calls, a mutex is owned by a thread or by nobody, and only waiters with
\* their mutex stand in the queue of a condition variable.
THEOREM TypeCorrect == Spec => []TypeOK
  <1>1. SyncInv => TypeOK
    BY Zenon DEF SyncInv
  <1> QED BY <1>1, SyncInvAlways, PTL

\* A thread that stallThread() stopped stands in one queue, once; a running one
\* stands nowhere.
THEOREM EntriesUnique == Spec => []OneEntryEach
  <1>1. ASSUME SyncInv PROVE OneEntryEach
    <2> SUFFICES ASSUME NEW t \in Threads
                 PROVE  IF t \in running THEN Places(t) = {}
                        ELSE \E p \in Places(t) : Places(t) = {p}
      BY Zenon DEF OneEntryEach
    <2> DEFINE M(m) == {i \in DOMAIN mutexWaiting[m] : mutexWaiting[m][i] = t}
               C(c) == {i \in DOMAIN condWaiting[c] : condWaiting[c][i].thread = t}
               B(b) == {i \in DOMAIN barrierWaiting[b] : barrierWaiting[b][i] = t}
    <2>1. \A p : p \in Places(t) <=>
            \/ \E m \in Mutexes : \E i \in M(m) : p = <<"mutex", m, i>>
            \/ \E c \in Conds : \E i \in C(c) : p = <<"cond", c, i>>
            \/ \E b \in Barriers : \E i \in B(b) : p = <<"barrier", b, i>>
      <3> HIDE DEF M, C, B
      <3> DEFINE X == UNION {{<<"mutex", m, i>> : i \in M(m)} : m \in Mutexes}
                 Y == UNION {{<<"cond", c, i>> : i \in C(c)} : c \in Conds}
                 Z == UNION {{<<"barrier", b, i>> : i \in B(b)} : b \in Barriers}
      <3>1. Places(t) = X \cup Y \cup Z
        <4>1. Places(t) = UNION ({{<<"mutex", m, i>> : i \in M(m)} : m \in Mutexes}
                                   \cup {{<<"cond", c, i>> : i \in C(c)} : c \in Conds}
                                   \cup {{<<"barrier", b, i>> : i \in B(b)} : b \in Barriers})
          BY Zenon DEF Places, M, C, B
        <4> QED BY <4>1, Zenon
      <3>2. \A p : p \in X <=> \E m \in Mutexes : \E i \in M(m) : p = <<"mutex", m, i>>
        OBVIOUS
      <3>3. \A p : p \in Y <=> \E c \in Conds : \E i \in C(c) : p = <<"cond", c, i>>
        OBVIOUS
      <3>4. \A p : p \in Z <=> \E b \in Barriers : \E i \in B(b) : p = <<"barrier", b, i>>
        OBVIOUS
      <3> HIDE DEF X, Y, Z
      <3> QED BY <3>1, <3>2, <3>3, <3>4, Zenon
    <2>2. ASSUME NEW m \in Mutexes
          PROVE  (In(mutexWaiting[m], t) <=> M(m) # {}) /\ \A i, j \in M(m) : i = j
      <3>1. mutexWaiting[m] \in Seq(Threads) /\ Once(mutexWaiting[m])
        BY <1>1, Zenon DEF SyncInv, TypeOK, QueuesOnce
      <3> QED BY <3>1 DEF In, Once
    <2>3. ASSUME NEW c \in Conds
          PROVE  (InCond(condWaiting[c], t) <=> C(c) # {}) /\ \A i, j \in C(c) : i = j
      <3>1. condWaiting[c] \in Seq(CondWaiter) /\ OnceCond(condWaiting[c])
        BY <1>1, Zenon DEF SyncInv, TypeOK, QueuesOnce
      <3> QED BY <3>1 DEF InCond, OnceCond
    <2>4. ASSUME NEW b \in Barriers
          PROVE  (In(barrierWaiting[b], t) <=> B(b) # {}) /\ \A i, j \in B(b) : i = j
      <3>1. barrierWaiting[b] \in Seq(Threads) /\ Once(barrierWaiting[b])
        BY <1>1, Zenon DEF SyncInv, TypeOK, QueuesOnce
      <3> QED BY <3>1 DEF In, Once
    <2> HIDE DEF M, C, B
    <2>5. CASE t \in running
      <3>1. /\ \A m \in Mutexes : M(m) = {}
            /\ \A c \in Conds : C(c) = {}
            /\ \A b \in Barriers : B(b) = {}
        BY <1>1, <2>2, <2>3, <2>4, <2>5, Zenon DEF SyncInv, Apart, Waits
      <3>2. \A p : p \notin Places(t)
        BY <2>1, <3>1, Zenon
      <3> QED BY <2>5, <3>2, Zenon
    <2>6. CASE t \notin running
      <3>1. \E p : p \in Places(t)
        <4>1. \/ \E m \in Mutexes : M(m) # {}
              \/ \E c \in Conds : C(c) # {}
              \/ \E b \in Barriers : B(b) # {}
          BY <1>1, <2>2, <2>3, <2>4, <2>6, Zenon DEF SyncInv, Apart, Waits
        <4> QED BY <2>1, <4>1, Zenon
      <3>2. /\ \A m \in Mutexes : M(m) # {} =>
                 /\ \A n \in Mutexes : M(n) # {} => n = m
                 /\ \A c \in Conds : C(c) = {}
                 /\ \A b \in Barriers : B(b) = {}
            /\ \A c \in Conds : C(c) # {} =>
                 /\ \A d \in Conds : C(d) # {} => d = c
                 /\ \A b \in Barriers : B(b) = {}
            /\ \A b \in Barriers : B(b) # {} => \A a \in Barriers : B(a) # {} => a = b
        BY <1>1, <2>2, <2>3, <2>4, Zenon DEF SyncInv, Apart
      <3>3. ASSUME NEW p \in Places(t), NEW q \in Places(t) PROVE p = q
        <4>1. ASSUME NEW m \in Mutexes, NEW i \in M(m), p = <<"mutex", m, i>> PROVE p = q
          <5>1. \E n \in Mutexes : \E j \in M(n) : q = <<"mutex", n, j>>
            BY <2>1, <3>2, <4>1, Zenon
          <5> QED BY <2>2, <3>2, <4>1, <5>1, Zenon
        <4>2. ASSUME NEW c \in Conds, NEW i \in C(c), p = <<"cond", c, i>> PROVE p = q
          <5>1. \E d \in Conds : \E j \in C(d) : q = <<"cond", d, j>>
            BY <2>1, <3>2, <4>2, Zenon
          <5> QED BY <2>3, <3>2, <4>2, <5>1, Zenon
        <4>3. ASSUME NEW b \in Barriers, NEW i \in B(b), p = <<"barrier", b, i>> PROVE p = q
          <5>1. \E a \in Barriers : \E j \in B(a) : q = <<"barrier", a, j>>
            BY <2>1, <3>2, <4>3, Zenon
          <5> QED BY <2>4, <3>2, <4>3, <5>1, Zenon
        <4> QED BY <2>1, <4>1, <4>2, <4>3, Zenon
      <3> QED BY <2>6, <3>1, <3>3, Zenon
    <2> QED BY <2>5, <2>6, Zenon
  <1> QED BY <1>1, SyncInvAlways, PTL

\* Waiters of a mutex are served in the order of their arrival, those included
\* that signal and broadcast moved there.
THEOREM ServedInOrder == Spec => NoOvertaking
  <1> DEFINE Ordered(m) ==
        \/ IsPrefix(mutexWaiting[m], mutexWaiting'[m])
        \/ /\ mutexWaiting[m] # << >>
           /\ mutexWaiting'[m] = Tail(mutexWaiting[m])
           /\ owner'[m] = Head(mutexWaiting[m])
  <1>1. ASSUME TypeOK, [Next]_vars, NEW n \in Mutexes PROVE Ordered(n)
    <2>1. /\ mutexWaiting \in [Mutexes -> Seq(Threads)] /\ mutexWaiting[n] \in Seq(Threads)
          /\ owner \in [Mutexes -> Threads \cup {None}]
      BY <1>1, Zenon DEF TypeOK
    <2>2. ASSUME mutexWaiting'[n] = mutexWaiting[n] PROVE Ordered(n)
      BY <2>1, <2>2 DEF IsPrefix
    <2>3. ASSUME NEW x, mutexWaiting'[n] = Append(mutexWaiting[n], x) PROVE Ordered(n)
      BY <2>1, <2>3 DEF IsPrefix
    <2> HIDE DEF Ordered
    <2>4. ASSUME NEW t, NEW m \in Mutexes, lock(t, m) \/ lock_async(t, m) PROVE Ordered(n)
      <3>1. \/ mutexWaiting' = mutexWaiting
            \/ mutexWaiting' = [mutexWaiting EXCEPT ![m] = Append(@, t)]
        BY <2>4, Zenon DEF lock, lock_async
      <3>2. mutexWaiting'[n] = mutexWaiting[n] \/ mutexWaiting'[n] = Append(mutexWaiting[n], t)
        BY <2>1, <3>1, Zenon
      <3> QED BY <2>2, <2>3, <3>2, Zenon
    <2>5. ASSUME NEW m \in Mutexes, NEW stay, unlock(m, stay) PROVE Ordered(n)
      <3>1. \/ mutexWaiting' = mutexWaiting
            \/ /\ mutexWaiting[m] # << >>
               /\ mutexWaiting' = [mutexWaiting EXCEPT ![m] = Tail(@)]
               /\ owner' = [owner EXCEPT ![m] = Head(mutexWaiting[m])]
        BY <2>5, Zenon DEF unlock
      <3>2. \/ mutexWaiting'[n] = mutexWaiting[n]
            \/ /\ mutexWaiting[n] # << >>
               /\ mutexWaiting'[n] = Tail(mutexWaiting[n])
               /\ owner'[n] = Head(mutexWaiting[n])
        BY <2>1, <3>1, Zenon
      <3> QED BY <2>2, <3>2, Zenon DEF Ordered
    <2>6. ASSUME NEW c \in Conds, WakeFirst(c) PROVE Ordered(n)
      <3>1. condWaiting[c] \in Seq(CondWaiter) /\ condWaiting[c] # << >>
        BY <1>1, <2>6, Zenon DEF TypeOK, WakeFirst
      <3>2. Head(condWaiting[c]) \in CondWaiter
        BY <3>1
      <3> QED BY <2>4, <2>6, <3>2, Zenon DEF WakeFirst, CondWaiter
    <2>7. CASE \E t \in Threads, m \in Mutexes : mutexLock(t, m) \/ mutexTryLock(t, m)
      BY <2>4, <2>7, Zenon DEF mutexLock, mutexTryLock
    <2>8. CASE \E t \in Threads, m \in Mutexes : mutexUnlock(t, m)
      BY <2>5, <2>8, Zenon DEF mutexUnlock
    <2>9. CASE \E t \in Threads, c \in Conds, m \in Mutexes : condWait(t, c, m)
      BY <2>5, <2>9, Zenon DEF condWait
    <2>10. CASE \E t \in Threads, c \in Conds : condSignal(t, c) \/ condBroadcast(t, c)
      BY <2>2, <2>6, <2>10, Zenon DEF condSignal, condBroadcast
    <2>11. CASE BroadcastStep
      BY <1>1, <2>2, <2>6, <2>11, Zenon DEF BroadcastStep, TypeOK
    <2>12. CASE \E t \in Threads, b \in Barriers : barrierWait(t, b)
      BY <2>2, <2>12, Zenon DEF barrierWait
    <2>13. CASE UNCHANGED vars
      BY <2>2, <2>13, Zenon DEF vars
    <2> QED BY <1>1, <2>7, <2>8, <2>9, <2>10, <2>11, <2>12, <2>13, Zenon DEF Next
  <1>2. TypeOK /\ [Next]_vars => \A m \in Mutexes : Ordered(m)
    BY <1>1, Zenon
  <1> QED BY <1>2, TypeCorrect, PTL DEF Spec, NoOvertaking


\* Threads leave a barrier all together, and only when the last one has come.
THEOREM ReleasedTogether == Spec => BarrierReleasesAll
  <1> DEFINE Release(b) ==
        Len(barrierWaiting'[b]) < Len(barrierWaiting[b]) =>
          /\ Len(barrierWaiting[b]) = BarrierCount[b] - 1
          /\ barrierWaiting'[b] = << >>
          /\ ToSet(barrierWaiting[b]) \subseteq running'
  <1>1. ASSUME TypeOK, [Next]_vars, NEW a \in Barriers PROVE Release(a)
    <2>1. /\ barrierWaiting \in [Barriers -> Seq(Threads)] /\ barrierWaiting[a] \in Seq(Threads)
          /\ Len(barrierWaiting[a]) \in Nat
      BY <1>1 DEF TypeOK
    <2>2. ASSUME barrierWaiting'[a] = barrierWaiting[a] PROVE Release(a)
      BY <2>1, <2>2
    <2>3. ASSUME NEW t \in Threads, NEW b \in Barriers, barrierWait(t, b) PROVE Release(a)
      <3>1. \/ /\ Len(barrierWaiting[b]) = BarrierCount[b] - 1
               /\ barrierWaiting' = [barrierWaiting EXCEPT ![b] = << >>]
               /\ running' = running \cup ToSet(barrierWaiting[b])
            \/ barrierWaiting' = [barrierWaiting EXCEPT ![b] = Append(@, t)]
        BY <2>3, Zenon DEF barrierWait
      <3>2. \/ barrierWaiting'[a] = barrierWaiting[a]
            \/ /\ Len(barrierWaiting[a]) = BarrierCount[a] - 1
               /\ barrierWaiting'[a] = << >>
               /\ running' = running \cup ToSet(barrierWaiting[a])
            \/ barrierWaiting'[a] = Append(barrierWaiting[a], t)
        BY <2>1, <3>1, Zenon
      <3>3. Len(Append(barrierWaiting[a], t)) = Len(barrierWaiting[a]) + 1
        BY <2>1
      <3> QED BY <2>1, <3>2, <3>3, SMTT(30)
    <2> HIDE DEF Release
    <2>4. CASE UNCHANGED barrierWaiting
      BY <2>2, <2>4, Zenon
    <2> QED BY <1>1, <2>3, <2>4, Zenon DEF Next, mutexLock, mutexTryLock, mutexUnlock, condWait,
              condSignal, condBroadcast, BroadcastStep, WakeFirst, vars
  <1>2. TypeOK /\ [Next]_vars => \A b \in Barriers : Release(b)
    BY <1>1, Zenon
  <1> QED BY <1>2, TypeCorrect, PTL DEF Spec, BarrierReleasesAll

\* A thread resumed from a mutex queue or out of a condition wait owns the
\* mutex it asked for: it stands in that queue only, with that mutex.
THEOREM ResumedWithMutex == Spec => WokenOwnsMutex
  <1> DEFINE Asks(t, m) ==
        \/ t \in ToSet(mutexWaiting[m])
        \/ \E c \in Conds : [thread |-> t, mutex |-> m] \in ToSet(condWaiting[c])
  <1>1. ASSUME SyncInv, [Next]_vars, NEW t \in running' \ running, NEW m \in Mutexes, Asks(t, m)
        PROVE  owner'[m] = t
    <2>1. /\ mutexWaiting \in [Mutexes -> Seq(Threads)] /\ mutexWaiting[m] \in Seq(Threads)
          /\ condWaiting \in [Conds -> Seq(CondWaiter)]
          /\ owner \in [Mutexes -> Threads \cup {None}]
      BY <1>1, Zenon DEF SyncInv, TypeOK
    <2>2. t \in ToSet(mutexWaiting[m]) => t \in Threads /\ In(mutexWaiting[m], t)
      <3> DEFINE q == mutexWaiting[m]
      <3>1. q \in Seq(Threads)
        BY <2>1, Zenon
      <3> HIDE DEF q
      <3>2. t \in ToSet(q) => t \in Threads /\ In(q, t)
        BY <3>1, SMTT(30) DEF ToSet, In
      <3> QED BY <3>2, Zenon DEF q
    <2>3. ASSUME NEW c \in Conds, NEW n, [thread |-> t, mutex |-> n] \in ToSet(condWaiting[c])
          PROVE  /\ t \in Threads /\ InCond(condWaiting[c], t)
                 /\ \A i \in 1..Len(condWaiting[c]) :
                      condWaiting[c][i].thread = t => condWaiting[c][i].mutex = n
      <3>1. condWaiting[c] \in Seq(CondWaiter) /\ OnceCond(condWaiting[c])
        BY <1>1, Zenon DEF SyncInv, TypeOK, QueuesOnce
      <3>2. PICK i \in 1..Len(condWaiting[c]) : condWaiting[c][i] = [thread |-> t, mutex |-> n]
        BY <2>3, <3>1 DEF ToSet
      <3>3. condWaiting[c][i] \in CondWaiter
        BY <3>1
      <3>4. condWaiting[c][i].thread = t /\ condWaiting[c][i].mutex = n
        BY <3>2
      <3> QED BY <3>1, <3>3, <3>4, Zenon DEF CondWaiter, InCond, OnceCond
    <2>4. ASSUME NEW n \in Mutexes, NEW stay, unlock(n, stay), stay \subseteq running
          PROVE  owner'[m] = t
      <3>1. /\ mutexWaiting[n] # << >> /\ t = Head(mutexWaiting[n])
            /\ owner' = [owner EXCEPT ![n] = t]
        BY <1>1, <2>4, Zenon DEF unlock
      <3>2. In(mutexWaiting[n], t) /\ t \in Threads
        BY <2>1, <3>1, Dequeue, Zenon
      <3>3. m = n
        BY <1>1, <2>2, <2>3, <3>2, Zenon DEF SyncInv, Apart
      <3> QED BY <2>1, <3>1, <3>3, Zenon
    <2>5. ASSUME NEW c \in Conds, WakeFirst(c) PROVE owner'[m] = t
      <3> DEFINE h == Head(condWaiting[c])
      <3>1. /\ condWaiting[c] # << >> /\ condWaiting[c] \in Seq(CondWaiter)
            /\ lock_async(h.thread, h.mutex)
        BY <2>1, <2>5, Zenon DEF WakeFirst
      <3>2. h \in CondWaiter /\ InCond(condWaiting[c], h.thread)
        BY <3>1, DequeueCond, Zenon
      <3>3. t = h.thread /\ owner' = [owner EXCEPT ![h.mutex] = t]
        BY <1>1, <3>1, Zenon DEF lock_async
      <3>4. \A d \in Conds : [thread |-> t, mutex |-> m] \in ToSet(condWaiting[d]) => d = c
        BY <1>1, <2>3, <3>2, <3>3, Zenon DEF SyncInv, Apart
      <3>5. ~ In(mutexWaiting[m], t)
        BY <1>1, <3>2, <3>3, Zenon DEF SyncInv, Apart, CondWaiter
      <3>6. [thread |-> t, mutex |-> m] \in ToSet(condWaiting[c])
        BY <1>1, <2>2, <3>4, <3>5, Zenon
      <3>7. 1 \in 1..Len(condWaiting[c]) /\ h = condWaiting[c][1]
        BY <3>1, SMTT(30)
      <3>8. h.mutex = m
        BY <2>3, <3>3, <3>6, <3>7, SMTT(30)
      <3> QED BY <2>1, <3>3, <3>8, Zenon
    <2>6. ASSUME running' \subseteq running PROVE owner'[m] = t
      BY <1>1, <2>6, Zenon
    <2>7. CASE \E s \in Threads, n \in Mutexes : mutexLock(s, n) \/ mutexTryLock(s, n)
      BY <2>6, <2>7, Zenon DEF mutexLock, mutexTryLock, lock
    <2>8. CASE \E s \in Threads, n \in Mutexes : mutexUnlock(s, n)
      BY <2>4, <2>8, Zenon DEF mutexUnlock
    <2>9. CASE \E s \in Threads, c \in Conds, n \in Mutexes : condWait(s, c, n)
      BY <2>4, <2>9 DEF condWait
    <2>10. CASE \E s \in Threads, c \in Conds : condSignal(s, c) \/ condBroadcast(s, c)
      BY <2>5, <2>6, <2>10, Zenon DEF condSignal, condBroadcast
    <2>11. CASE BroadcastStep
      BY <1>1, <2>5, <2>6, <2>11, Zenon DEF BroadcastStep, SyncInv, TypeOK
    <2>12. ASSUME NEW s \in Threads, NEW b \in Barriers, barrierWait(s, b) PROVE owner'[m] = t
      <3>1. t \in ToSet(barrierWaiting[b])
        BY <1>1, <2>12, Zenon DEF barrierWait
      <3>2. t \in Threads /\ In(barrierWaiting[b], t)
        BY <1>1, <3>1 DEF SyncInv, TypeOK, ToSet, In
      <3> QED BY <1>1, <2>2, <2>3, <3>2, Zenon DEF SyncInv, Apart
    <2>13. CASE UNCHANGED vars
      BY <2>6, <2>13, Zenon DEF vars
    <2> QED BY <1>1, <2>7, <2>8, <2>9, <2>10, <2>11, <2>12, <2>13, Zenon DEF Next
  <1>2. SyncInv /\ [Next]_vars =>
          \A t \in running' \ running, m \in Mutexes : Asks(t, m) => owner'[m] = t
    BY <1>1, Zenon
  <1> QED BY <1>2, SyncInvAlways, PTL DEF Spec, WokenOwnsMutex
=============================================================================
