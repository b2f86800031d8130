--------------------------- MODULE CacheStackProofs ---------------------------
(***************************************************************************)
(* For any number of cores that share a last-level cache: the lock of the  *)
(* cache set excludes and implements StackLock, no assertion of the cache  *)
(* controllers fails, and the last level includes the first levels.        *)
(***************************************************************************)
EXTENDS CacheStack, TLAPS

\* The simulation thread is in the loop over the waiters.
Serving == net \in {"serve", "passed", "signalled", "drop"}

\* What a thread has of the lock, by how far it has come.
LockOfPc ==
  /\ \A c \in Cores :
       /\ pc[c] = "idle" => mode[c] = "none"
       /\ pc[c] \in {"first", "access", "atomic"} => mode[c] = "shared"
       /\ pc[c] = "next" => mode[c] \in {"acquiring", "exclusive"}
       /\ pc[c] = "wait" => mode[c] \in {"none", "exclusive"}
       /\ pc[c] = "wait" /\ mode[c] = "exclusive" => net = "passed" /\ c = waiters[1]
  /\ net \in {"idle", "passed", "signalled"} => mode[Net] = "none"
  /\ net \in {"reply", "request", "drop"} => mode[Net] \in {"acquiring", "exclusive"}
  /\ net = "serve" => mode[Net] = "exclusive"
  /\ net = "passed" => mode[waiters[1]] = "exclusive"

\* The queue: who is in it waits, except for the front once it has been served.
Served1 == IF net \in {"signalled", "drop"} THEN 1 ELSE 0

QueueOK ==
  /\ \A i \in 1..Len(waiters) : i > Served1 => pc[waiters[i]] = "wait"
  /\ \A i, j \in 1..Len(waiters) : i > Served1 /\ j > Served1 /\ i # j => waiters[i] # waiters[j]
  /\ Serving => asked = "no"
  /\ net \in {"passed", "signalled", "drop"} => Len(waiters) > 0
  /\ ~ Serving => (asked # "no" <=> Len(waiters) > 0)
  /\ net = "reply" => asked # "no"

\* The last level, by the request that is outstanding and the waiter in front.
LineOK ==
  /\ llc = "SU" => asked = "UPGRADE_REQ"
  /\ asked # "no" => llc \in {"I", "SU"}
  /\ asked = "UPGRADE_REQ" => Exclusive(op[waiters[1]])
  /\ Serving => llc \in {"S", "E", "M"}
  /\ net = "passed" => ~ (Exclusive(op[waiters[1]]) /\ llc = "S")

\* The first levels, by what their cores are doing.  While an upgrade is being
\* handed to the writer that asked for it the other copies are MODIFIED.
CopiesOK ==
  \A c \in Cores :
    /\ pc[c] # "idle" => op[c] \in Ops
    /\ pc[c] \in {"first", "access", "atomic"} => op[c] # "PREFETCH"
    /\ pc[c] = "access" => Permissible(l1[c], op[c])
    /\ pc[c] = "atomic" => l1[c] = "M"
    /\ pc[c] = "access" /\ op[c] = "LOCK" => l1[c] = "M"
    /\ pc[c] = "wait" /\ op[c] # "PREFETCH" => l1[c] = "I"
    /\ pc[c] = "next" /\ op[c] # "PREFETCH" /\ l1[c] = "M" =>
         /\ net \in {"serve", "passed"}
         /\ Len(waiters) > 0
         /\ Exclusive(op[waiters[1]])

StackInv ==
  /\ TypeOK /\ LockInv /\ LockOfPc /\ QueueOK /\ LineOK /\ CopiesOK
  /\ Inclusion /\ NoAssertionFails

-----------------------------------------------------------------------------
(* The lock                                                                *)

\* The threads and the mutexes are numbers, and nobody is no thread.
LEMMA Numbers ==
  /\ N \in Nat /\ N > 0
  /\ Net \in Threads /\ Net \notin Cores /\ Nobody \notin Threads
  /\ \A c \in Cores : c \in Threads /\ c # Net
  /\ 0 \in Cores
  BY SharersAssumption DEF Net, Threads, Cores, Nobody

\* acquire_shared leaves every mutex with the thread entitled to it.
LEMMA AcquireSharedKeeps ==
  ASSUME LockInv, NEW c \in Cores, acquire_shared(c)
  PROVE  LockInv'
  <1>1. LockTypeOK'
    BY Numbers, Zenon DEF LockInv, LockTypeOK, acquire_shared, Cores, Threads
  <1>2. mode'[Net] # "shared" /\ \A u \in Threads : mode'[u] = "acquiring" => got'[u] < N
    BY Numbers DEF LockInv, LockTypeOK, acquire_shared, Cores, Threads
  <1>3. ASSUME NEW u \in Threads, NEW k \in Cores
        PROVE  holder'[k] = u <=> Holds(u, k)'
    <2>1. /\ holder[k] = u <=> Holds(u, k)
          /\ holder[k] = c <=> Holds(c, k)
      BY Numbers, Zenon DEF LockInv
    <2>2. k \in Int /\ k >= 0 /\ k < N
      BY Numbers DEF Cores
    <2> QED BY <2>1, <2>2, Numbers DEF LockInv, LockTypeOK, Holds, acquire_shared
  <1> QED BY <1>1, <1>2, <1>3, Zenon DEF LockInv

\* So does release_shared.
LEMMA ReleaseSharedKeeps ==
  ASSUME LockInv, NEW c \in Cores, release_shared(c)
  PROVE  LockInv'
  <1>1. LockTypeOK'
    BY Numbers, Zenon DEF LockInv, LockTypeOK, release_shared, Cores, Threads
  <1>2. mode'[Net] # "shared" /\ \A u \in Threads : mode'[u] = "acquiring" => got'[u] < N
    BY Numbers, Zenon DEF LockInv, LockTypeOK, release_shared, Cores, Threads
  <1>3. ASSUME NEW u \in Threads, NEW k \in Cores
        PROVE  holder'[k] = u <=> Holds(u, k)'
    <2>1. /\ holder[k] = u <=> Holds(u, k)
          /\ holder[k] = c <=> Holds(c, k)
      BY Numbers, Zenon DEF LockInv
    <2>2. k \in Int /\ k >= 0 /\ k < N
      BY Numbers DEF Cores
    <2> QED BY <2>1, <2>2, Numbers DEF LockInv, LockTypeOK, Holds, release_shared
  <1> QED BY <1>1, <1>2, <1>3, Zenon DEF LockInv

\* So does the call of acquire_exclusive.
LEMMA AcquireExclusiveKeeps ==
  ASSUME LockInv, NEW t \in Threads, acquire_exclusive(t)
  PROVE  LockInv'
  <1>1. LockTypeOK'
    BY Numbers, Zenon DEF LockInv, LockTypeOK, acquire_exclusive, Cores, Threads
  <1>2. mode'[Net] # "shared" /\ \A u \in Threads : mode'[u] = "acquiring" => got'[u] < N
    BY Numbers, Zenon DEF LockInv, LockTypeOK, acquire_exclusive, Cores, Threads
  <1>3. ASSUME NEW u \in Threads, NEW k \in Cores
        PROVE  holder'[k] = u <=> Holds(u, k)'
    <2>1. /\ holder[k] = u <=> Holds(u, k)
          /\ holder[k] = t <=> Holds(t, k)
      BY Numbers, Zenon DEF LockInv
    <2>2. k \in Int /\ k >= 0 /\ k < N
      BY Numbers DEF Cores
    <2> QED BY <2>1, <2>2, Numbers DEF LockInv, LockTypeOK, Holds, acquire_exclusive
  <1> QED BY <1>1, <1>2, <1>3, Zenon DEF LockInv

\* So does each mutex that it gets.
LEMMA AcquireNextKeeps ==
  ASSUME LockInv, NEW t \in Threads, acquire_next(t)
  PROVE  LockInv'
  <1>0. got[t] \in Cores /\ got[t] + 1 \in 0..N
    BY Numbers DEF LockInv, LockTypeOK, acquire_next, Cores
  <1>1. LockTypeOK'
    BY <1>0, Numbers, Zenon DEF LockInv, LockTypeOK, acquire_next
  <1>2. mode'[Net] # "shared" /\ \A u \in Threads : mode'[u] = "acquiring" => got'[u] < N
    BY <1>0, Numbers DEF LockInv, LockTypeOK, acquire_next, Cores
  <1>3. ASSUME NEW u \in Threads, NEW k \in Cores
        PROVE  holder'[k] = u <=> Holds(u, k)'
    <2>1. /\ holder[k] = u <=> Holds(u, k)
          /\ holder[k] = t <=> Holds(t, k)
      BY Numbers, Zenon DEF LockInv
    <2>2. k \in Int /\ k >= 0 /\ k < N
      BY Numbers DEF Cores
    <2> QED BY <2>1, <2>2, Numbers DEF LockInv, LockTypeOK, Holds, acquire_next
  <1> QED BY <1>1, <1>2, <1>3, Zenon DEF LockInv

\* So does release_exclusive.
LEMMA ReleaseExclusiveKeeps ==
  ASSUME LockInv, NEW t \in Threads, release_exclusive(t)
  PROVE  LockInv'
  <1>1. LockTypeOK'
    BY Numbers, Zenon DEF LockInv, LockTypeOK, release_exclusive, Cores, Threads
  <1>2. mode'[Net] # "shared" /\ \A u \in Threads : mode'[u] = "acquiring" => got'[u] < N
    BY Numbers, Zenon DEF LockInv, LockTypeOK, release_exclusive, Cores, Threads
  <1>3. ASSUME NEW u \in Threads, NEW k \in Cores
        PROVE  holder'[k] = u <=> Holds(u, k)'
    <2>1. /\ holder[k] = u <=> Holds(u, k)
          /\ holder[k] = t <=> Holds(t, k)
      BY Numbers, Zenon DEF LockInv
    <2>2. k \in Int /\ k >= 0 /\ k < N
      BY Numbers DEF Cores
    <2> QED BY <2>1, <2>2, Numbers DEF LockInv, LockTypeOK, Holds, release_exclusive
  <1> QED BY <1>1, <1>2, <1>3, Zenon DEF LockInv

\* So does upgrade.
LEMMA UpgradeKeeps ==
  ASSUME LockInv, NEW c \in Cores, upgrade(c)
  PROVE  LockInv'
  <1>1. LockTypeOK'
    BY Numbers, Zenon DEF LockInv, LockTypeOK, upgrade, Cores, Threads
  <1>2. mode'[Net] # "shared" /\ \A u \in Threads : mode'[u] = "acquiring" => got'[u] < N
    BY Numbers, Zenon DEF LockInv, LockTypeOK, upgrade, Cores, Threads
  <1>3. ASSUME NEW u \in Threads, NEW k \in Cores
        PROVE  holder'[k] = u <=> Holds(u, k)'
    <2>1. /\ holder[k] = u <=> Holds(u, k)
          /\ holder[k] = c <=> Holds(c, k)
      BY Numbers, Zenon DEF LockInv
    <2>2. k \in Int /\ k >= 0 /\ k < N
      BY Numbers DEF Cores
    <2> QED BY <2>1, <2>2, Numbers DEF LockInv, LockTypeOK, Holds, upgrade
  <1> QED BY <1>1, <1>2, <1>3, Zenon DEF LockInv

\* So does downgrade.
LEMMA DowngradeKeeps ==
  ASSUME LockInv, NEW c \in Cores, downgrade(c)
  PROVE  LockInv'
  <1>1. LockTypeOK'
    BY Numbers, Zenon DEF LockInv, LockTypeOK, downgrade, Cores, Threads
  <1>2. mode'[Net] # "shared" /\ \A u \in Threads : mode'[u] = "acquiring" => got'[u] < N
    BY Numbers, Zenon DEF LockInv, LockTypeOK, downgrade, Cores, Threads
  <1>3. ASSUME NEW u \in Threads, NEW k \in Cores
        PROVE  holder'[k] = u <=> Holds(u, k)'
    <2>1. /\ holder[k] = u <=> Holds(u, k)
          /\ holder[k] = c <=> Holds(c, k)
      BY Numbers, Zenon DEF LockInv
    <2>2. k \in Int /\ k >= 0 /\ k < N
      BY Numbers DEF Cores
    <2> QED BY <2>1, <2>2, Numbers, Zenon DEF LockInv, LockTypeOK, Holds, downgrade
  <1> QED BY <1>1, <1>2, <1>3, Zenon DEF LockInv

\* So does passing the lock to a core.
LEMMA PassToKeeps ==
  ASSUME LockInv, NEW c \in Cores, PassTo(c)
  PROVE  LockInv'
  <1>1. LockTypeOK'
    BY Numbers, Zenon DEF LockInv, LockTypeOK, PassTo, Cores, Threads
  <1>2. mode'[Net] # "shared" /\ \A u \in Threads : mode'[u] = "acquiring" => got'[u] < N
    BY Numbers, Zenon DEF LockInv, LockTypeOK, PassTo, Cores, Threads
  <1>3. ASSUME NEW u \in Threads, NEW k \in Cores
        PROVE  holder'[k] = u <=> Holds(u, k)'
    <2>1. /\ holder[k] = u <=> Holds(u, k)
          /\ holder[k] = c <=> Holds(c, k)
          /\ holder[k] = Net <=> Holds(Net, k)
      BY Numbers, Zenon DEF LockInv
    <2>2. k \in Int /\ k >= 0 /\ k < N
      BY Numbers DEF Cores
    <2> QED BY <2>1, <2>2, Numbers DEF LockInv, LockTypeOK, Holds, PassTo
  <1> QED BY <1>1, <1>2, <1>3, Zenon DEF LockInv

\* Who has a mutex has it alone.
LEMMA Excludes ==
  ASSUME LockInv
  PROVE  StackLockExcludes
  <1> SUFFICES ASSUME NEW t \in Threads, NEW u \in Threads, t # u, mode[t] = "exclusive"
               PROVE  mode[u] \notin {"shared", "exclusive"}
    BY Zenon DEF StackLockExcludes
  <1>1. \A k \in Cores : holder[k] = t
    BY Zenon DEF LockInv, Holds
  <1>2. u = Net => mode[u] # "shared"
    BY Zenon DEF LockInv
  <1>3. u # Net => u \in Cores
    BY Numbers DEF Threads, Cores, Net
  <1>4. mode[u] = "shared" => u \in Cores /\ holder[u] = u
    BY <1>2, <1>3, Zenon DEF LockInv, Holds
  <1>5. mode[u] = "exclusive" => holder[0] = u
    BY Numbers, Zenon DEF LockInv, Holds
  <1> QED BY <1>1, <1>4, <1>5, Numbers, Zenon

-----------------------------------------------------------------------------
(* The steps of the threads                                                *)

\* Appending to the queue of waiters.
LEMMA Joined ==
  ASSUME NEW s \in Seq(Cores), NEW c \in Cores
  PROVE  /\ Append(s, c) \in Seq(Cores)
         /\ Len(Append(s, c)) = Len(s) + 1
         /\ \A i \in 1..Len(s) : Append(s, c)[i] = s[i]
         /\ Append(s, c)[Len(s) + 1] = c
  OBVIOUS

\* Dropping the front of the queue.
LEMMA Dropped ==
  ASSUME NEW s \in Seq(Cores), Len(s) > 0
  PROVE  /\ Tail(s) \in Seq(Cores)
         /\ Len(Tail(s)) = Len(s) - 1
         /\ \A i \in 1..Len(Tail(s)) : Tail(s)[i] = s[i + 1]
         /\ s[1] \in Cores /\ Head(s) = s[1]
  OBVIOUS

\* A step that leaves the lock alone.
LEMMA LockStays ==
  ASSUME LockInv, UNCHANGED lockVars
  PROVE  LockInv'
  BY Zenon DEF LockInv, LockTypeOK, Holds, lockVars

\* A miss in the first level.
LEMMA GoDownKeeps ==
  ASSUME StackInv, NEW c \in Cores, GoDown(c)
  PROVE  StackInv'
  <1>1. TypeOK' /\ LockInv'
    <2>1. LockInv'
      BY UpgradeKeeps, Numbers, Zenon DEF StackInv, GoDown
    <2> QED BY <2>1, Numbers, Zenon DEF StackInv, TypeOK, LockInv, GoDown, upgrade, Goto
  <1>2. LockOfPc'
    BY Numbers DEF StackInv, TypeOK, LockTypeOK, LockOfPc, GoDown, upgrade, Goto
  <1>3. QueueOK'
    BY Numbers DEF StackInv, TypeOK, LockOfPc, QueueOK, Served1, Serving, GoDown, upgrade, Goto
  <1>4. LineOK'
    BY Numbers, Zenon DEF StackInv, TypeOK, LockOfPc, QueueOK, Served1, LineOK, Serving, Exclusive, GoDown, upgrade, Goto
  <1>5. CopiesOK'
    BY Numbers DEF StackInv, TypeOK, LockOfPc, QueueOK, Served1, LineOK, CopiesOK, Permissible, Exclusive, Ops, GoDown, upgrade, Goto
  <1>6. Inclusion' /\ NoAssertionFails'
    BY Numbers, Zenon DEF StackInv, TypeOK, Inclusion, NoAssertionFails, GoDown, upgrade, Goto
  <1> QED BY <1>1, <1>2, <1>3, <1>4, <1>5, <1>6, Zenon DEF StackInv

\* The access in the first level.
LEMMA AccessKeeps ==
  ASSUME StackInv, NEW c \in Cores, Access(c)
  PROVE  StackInv'
  <1>0. mode[c] = "shared" /\ pc[c] \in {"first", "access"} /\ mode \in [Threads -> {"none", "shared", "acquiring", "exclusive"}]
    BY Zenon DEF StackInv, LockOfPc, Access, TypeOK, LockTypeOK
  <1>1. TypeOK' /\ LockInv'
    <2>1. CASE op[c] = "LOCK"
      BY <2>1, LockStays DEF StackInv, TypeOK, LockInv, Access, Goto, Asserts
    <2>2. CASE op[c] # "LOCK"
      BY <2>2, ReleaseSharedKeeps DEF StackInv, TypeOK, LockInv, Access, Goto, Asserts
    <2> QED BY <2>1, <2>2, Zenon
  <1>2. LockOfPc'
    <2>1. CASE op[c] = "LOCK"
      BY <1>0, <2>1, Numbers DEF StackInv, TypeOK, LockOfPc, Access, Goto, lockVars
    <2>2. CASE op[c] # "LOCK"
      BY <1>0, <2>2, Numbers DEF StackInv, TypeOK, LockOfPc, Access, Goto, release_shared
    <2> QED BY <2>1, <2>2, Zenon
  <1>3. QueueOK'
    BY Numbers DEF StackInv, TypeOK, LockOfPc, QueueOK, Served1, Serving, Access, Goto
  <1>4. LineOK'
    BY Numbers DEF StackInv, TypeOK, LockOfPc, QueueOK, Served1, LineOK, Serving, Exclusive, Access, Goto
  <1>5. CopiesOK'
    BY Numbers DEF StackInv, TypeOK, LockOfPc, QueueOK, Served1, LineOK, CopiesOK, Permissible, Exclusive, Ops, Access, Goto
  <1>6. Inclusion' /\ NoAssertionFails'
    BY Numbers, Zenon DEF StackInv, TypeOK, CopiesOK, Inclusion, NoAssertionFails, Access, Asserts
  <1> QED BY <1>1, <1>2, <1>3, <1>4, <1>5, <1>6, Zenon DEF StackInv

\* The end of an atomic access.
LEMMA UnlockKeeps ==
  ASSUME StackInv, NEW c \in Cores, Unlock(c)
  PROVE  StackInv'
  <1>1. TypeOK' /\ LockInv'
    <2>1. LockInv'
      BY ReleaseSharedKeeps, Numbers, Zenon DEF StackInv, Unlock
    <2> QED BY <2>1, Numbers, Zenon DEF StackInv, TypeOK, LockInv, Unlock, release_shared, Goto, Asserts
  <1>2. LockOfPc'
    BY Numbers DEF StackInv, TypeOK, LockTypeOK, LockOfPc, Unlock, release_shared, Goto, Asserts
  <1>3. QueueOK'
    BY Numbers DEF StackInv, TypeOK, LockOfPc, QueueOK, Served1, Serving, Unlock, release_shared, Goto, Asserts
  <1>4. LineOK'
    BY Numbers DEF StackInv, TypeOK, LockOfPc, QueueOK, Served1, LineOK, Serving, Exclusive, Unlock, release_shared, Goto, Asserts
  <1>5. CopiesOK'
    BY Numbers DEF StackInv, TypeOK, LockOfPc, QueueOK, Served1, LineOK, CopiesOK, Permissible, Exclusive, Ops, Unlock, release_shared, Goto, Asserts
  <1>6. Inclusion' /\ NoAssertionFails'
    BY Numbers DEF StackInv, TypeOK, Inclusion, NoAssertionFails, Unlock, release_shared, Goto, Asserts
  <1> QED BY <1>1, <1>2, <1>3, <1>4, <1>5, <1>6, Zenon DEF StackInv

\* An eviction from the first level.
LEMMA EvictFirstKeeps ==
  ASSUME StackInv, NEW c \in Cores, EvictFirst(c)
  PROVE  StackInv'
  <1>1. TypeOK' /\ LockInv'
    <2>1. LockInv'
      BY Numbers, Zenon DEF StackInv, EvictFirst, LockInv, LockTypeOK, Holds, lockVars
    <2> QED BY <2>1, Numbers, Zenon DEF StackInv, TypeOK, LockInv, EvictFirst, Asserts, WritebackFits, lockVars
  <1>2. LockOfPc'
    BY Numbers, Zenon DEF StackInv, TypeOK, LockTypeOK, LockOfPc, EvictFirst, Asserts, WritebackFits, lockVars
  <1>3. QueueOK'
    BY Numbers DEF StackInv, TypeOK, LockOfPc, QueueOK, Served1, Serving, EvictFirst, Asserts, WritebackFits, lockVars
  <1>4. LineOK'
    BY Numbers, Zenon DEF StackInv, TypeOK, LockOfPc, QueueOK, Served1, LineOK, Serving, Exclusive, EvictFirst, Asserts, WritebackFits, lockVars
  <1>5. CopiesOK'
    BY Numbers DEF StackInv, TypeOK, LockOfPc, QueueOK, Served1, LineOK, CopiesOK, Permissible, Exclusive, Ops, EvictFirst, Asserts, WritebackFits, lockVars
  <1>6. Inclusion' /\ NoAssertionFails'
    BY Numbers, Zenon DEF StackInv, TypeOK, Inclusion, NoAssertionFails, EvictFirst, Asserts, WritebackFits, lockVars
  <1> QED BY <1>1, <1>2, <1>3, <1>4, <1>5, <1>6, Zenon DEF StackInv

\* The simulation thread takes a message.
LEMMA TakeMsgKeeps ==
  ASSUME StackInv, NEW what \in {"reply", "request"}, TakeMsg(what)
  PROVE  StackInv'
  <1>1. TypeOK' /\ LockInv'
    <2>1. LockInv'
      BY AcquireExclusiveKeeps, Numbers, Zenon DEF StackInv, TakeMsg
    <2> QED BY <2>1, Numbers, Zenon DEF StackInv, TypeOK, LockInv, TakeMsg, acquire_exclusive
  <1>2. LockOfPc'
    BY Numbers DEF StackInv, TypeOK, LockTypeOK, LockOfPc, TakeMsg, acquire_exclusive
  <1>3. QueueOK'
    BY Numbers DEF StackInv, TypeOK, LockOfPc, QueueOK, Served1, Serving, TakeMsg, acquire_exclusive
  <1>4. LineOK'
    BY Numbers, Zenon DEF StackInv, TypeOK, LockOfPc, QueueOK, Served1, LineOK, Serving, Exclusive, TakeMsg, acquire_exclusive
  <1>5. CopiesOK'
    BY Numbers, Zenon DEF StackInv, TypeOK, LockOfPc, QueueOK, Served1, LineOK, CopiesOK, Permissible, Exclusive, Ops, TakeMsg, acquire_exclusive
  <1>6. Inclusion' /\ NoAssertionFails'
    BY Numbers, Zenon DEF StackInv, TypeOK, Inclusion, NoAssertionFails, TakeMsg, acquire_exclusive
  <1> QED BY <1>1, <1>2, <1>3, <1>4, <1>5, <1>6, Zenon DEF StackInv

\* The simulation thread wants the lock back.
LEMMA TakeBackKeeps ==
  ASSUME StackInv, TakeBack
  PROVE  StackInv'
  <1>1. TypeOK' /\ LockInv'
    <2>1. LockInv'
      BY AcquireExclusiveKeeps, Numbers, Zenon DEF StackInv, TakeBack
    <2> QED BY <2>1, Numbers, Zenon DEF StackInv, TypeOK, LockInv, TakeBack, acquire_exclusive
  <1>2. LockOfPc'
    BY Numbers, Zenon DEF StackInv, TypeOK, LockTypeOK, LockOfPc, TakeBack, acquire_exclusive
  <1>3. QueueOK'
    BY Numbers DEF StackInv, TypeOK, LockOfPc, QueueOK, Served1, Serving, TakeBack, acquire_exclusive
  <1>4. LineOK'
    BY Numbers, Zenon DEF StackInv, TypeOK, LockOfPc, QueueOK, Served1, LineOK, Serving, Exclusive, TakeBack, acquire_exclusive
  <1>5. CopiesOK'
    BY Numbers, Zenon DEF StackInv, TypeOK, LockOfPc, QueueOK, Served1, LineOK, CopiesOK, Permissible, Exclusive, Ops, TakeBack, acquire_exclusive
  <1>6. Inclusion' /\ NoAssertionFails'
    BY Numbers, Zenon DEF StackInv, TypeOK, Inclusion, NoAssertionFails, TakeBack, acquire_exclusive
  <1> QED BY <1>1, <1>2, <1>3, <1>4, <1>5, <1>6, Zenon DEF StackInv

\* The front waiter is dropped.
LEMMA DropWaiterKeeps ==
  ASSUME StackInv, DropWaiter
  PROVE  StackInv'
  <1>1. TypeOK' /\ LockInv'
    <2>1. LockInv'
      BY Numbers, Zenon DEF StackInv, DropWaiter, LockInv, LockTypeOK, Holds, lockVars
    <2>2. waiters' \in Seq(Cores)
      BY Dropped, Zenon DEF StackInv, TypeOK, QueueOK, DropWaiter, NetHas
    <2> QED BY <2>1, <2>2, Zenon DEF StackInv, TypeOK, LockInv, DropWaiter
  <1>2. LockOfPc'
    BY Numbers, Zenon DEF StackInv, TypeOK, LockTypeOK, LockOfPc, DropWaiter, NetHas, lockVars
  <1>3. QueueOK'
    BY Numbers DEF StackInv, TypeOK, LockOfPc, QueueOK, Served1, Serving, DropWaiter, NetHas, lockVars
  <1>4. LineOK'
    BY Numbers, Zenon DEF StackInv, TypeOK, LockOfPc, QueueOK, Served1, LineOK, Serving, Exclusive, DropWaiter, NetHas, lockVars
  <1>5. CopiesOK'
    BY Numbers, Zenon DEF StackInv, TypeOK, LockOfPc, QueueOK, Served1, LineOK, CopiesOK, Permissible, Exclusive, Ops, DropWaiter, NetHas, lockVars
  <1>6. Inclusion' /\ NoAssertionFails'
    BY Numbers, Zenon DEF StackInv, TypeOK, Inclusion, NoAssertionFails, DropWaiter, NetHas, lockVars
  <1> QED BY <1>1, <1>2, <1>3, <1>4, <1>5, <1>6, Zenon DEF StackInv

\* A thread gets a mutex.
LEMMA AcquireKeeps ==
  ASSUME StackInv, NEW t \in Threads, AcquireNext(t)
  PROVE  StackInv'
  <1>1. TypeOK' /\ LockInv'
    <2>1. LockInv'
      BY AcquireNextKeeps, Numbers, Zenon DEF StackInv, AcquireNext
    <2> QED BY <2>1, Numbers, Zenon DEF StackInv, TypeOK, LockInv, AcquireNext, acquire_next, stackVars
  <1>2. LockOfPc'
    BY Numbers DEF StackInv, TypeOK, LockTypeOK, LockOfPc, AcquireNext, acquire_next, stackVars
  <1>3. QueueOK'
    BY Numbers DEF StackInv, TypeOK, LockOfPc, QueueOK, Served1, Serving, AcquireNext, acquire_next, stackVars
  <1>4. LineOK'
    BY Numbers, Zenon DEF StackInv, TypeOK, LockOfPc, QueueOK, Served1, LineOK, Serving, Exclusive, AcquireNext, acquire_next, stackVars
  <1>5. CopiesOK'
    BY Numbers, Zenon DEF StackInv, TypeOK, LockOfPc, QueueOK, Served1, LineOK, CopiesOK, Permissible, Exclusive, Ops, AcquireNext, acquire_next, stackVars
  <1>6. Inclusion' /\ NoAssertionFails'
    BY Numbers, Zenon DEF StackInv, TypeOK, Inclusion, NoAssertionFails, AcquireNext, acquire_next, stackVars
  <1> QED BY <1>1, <1>2, <1>3, <1>4, <1>5, <1>6, Zenon DEF StackInv

\* A reply of the directory.
LEMMA HandleReplyKeeps ==
  ASSUME StackInv, HandleReply
  PROVE  StackInv'
  <1>0. waiters[1] \in Cores /\ Len(waiters) > 0
    BY Dropped, Zenon DEF StackInv, TypeOK, QueueOK, HandleReply, NetHas, Serving
  <1>1. TypeOK' /\ LockInv'
    <2>1. LockInv'
      BY Numbers, Zenon DEF StackInv, HandleReply, LockInv, LockTypeOK, Holds, lockVars
    <2> QED BY <1>0, <2>1, Numbers, Zenon DEF StackInv, TypeOK, LockInv, HandleReply, NetHas, Asserts, Updated, lockVars
  <1>2. LockOfPc'
    BY <1>0, Numbers, Zenon DEF StackInv, TypeOK, LockTypeOK, LockOfPc, HandleReply, NetHas, Asserts, Updated, lockVars
  <1>3. QueueOK'
    BY <1>0, Numbers DEF StackInv, TypeOK, LockOfPc, QueueOK, Served1, Serving, HandleReply, NetHas, Asserts, Updated, lockVars
  <1>4. LineOK'
    BY <1>0, Numbers, Zenon DEF StackInv, TypeOK, LockOfPc, QueueOK, Served1, LineOK, Serving, Exclusive, HandleReply, NetHas, Asserts, Updated, lockVars
  <1>5. CopiesOK'
    BY <1>0, Numbers DEF StackInv, TypeOK, LockOfPc, QueueOK, Served1, LineOK, CopiesOK, Permissible, Exclusive, Ops, HandleReply, NetHas, Asserts, Updated, lockVars
  <1>6. Inclusion' /\ NoAssertionFails'
    BY <1>0, Numbers DEF StackInv, TypeOK, Inclusion, NoAssertionFails, HandleReply, NetHas, Asserts, Updated, lockVars
  <1> QED BY <1>1, <1>2, <1>3, <1>4, <1>5, <1>6, Zenon DEF StackInv

\* A request of the directory, or an eviction from the last level.
LEMMA HandleRequestKeeps ==
  ASSUME StackInv, HandleRequest
  PROVE  StackInv'
  <1>0. \A c \in Cores : pc[c] \notin {"first", "access", "atomic"}
    BY Excludes, Numbers, Zenon DEF StackInv, StackLockExcludes, LockOfPc, HandleRequest, NetHas
  <1>1. TypeOK' /\ LockInv'
    <2>1. LockInv'
      BY ReleaseExclusiveKeeps, Numbers, Zenon DEF StackInv, HandleRequest
    <2>2. /\ l1' \in [Cores -> {"I", "S", "E", "M"}]
          /\ llc' \in {"I", "S", "SU", "E", "M"}
          /\ failed' \in BOOLEAN
      <3>1. l1 \in [Cores -> {"I", "S", "E", "M"}] /\ llc \in {"I", "S", "SU", "E", "M"}
            /\ failed \in BOOLEAN
        BY Zenon DEF StackInv, TypeOK
      <3>2. ASSUME NEW s \in {"I", "S"}, StackUpdate(s)
            PROVE  /\ l1' \in [Cores -> {"I", "S", "E", "M"}]
                   /\ llc' \in {"I", "S", "SU", "E", "M"}
                   /\ failed' \in BOOLEAN
        BY <3>1, <3>2, Zenon DEF StackUpdate, Asserts, Updated
      <3> QED BY <3>1, <3>2, Zenon DEF HandleRequest
    <2> QED BY <2>1, <2>2, Zenon DEF StackInv, TypeOK, LockInv, HandleRequest
  <1>2. LockOfPc'
    BY <1>0, Numbers DEF StackInv, TypeOK, LockTypeOK, LockOfPc, HandleRequest, release_exclusive, NetHas, Asserts, Updated, StackUpdate, WritebackFits
  <1>3. QueueOK'
    BY <1>0, Numbers DEF StackInv, TypeOK, LockOfPc, QueueOK, Served1, Serving, HandleRequest, release_exclusive, NetHas, Asserts, Updated, StackUpdate, WritebackFits
  <1>4. LineOK'
    BY <1>0, Numbers, Zenon DEF StackInv, TypeOK, LockOfPc, QueueOK, Served1, LineOK, Serving, Exclusive, HandleRequest, release_exclusive, NetHas, Asserts, Updated, StackUpdate, WritebackFits
  <1>5. CopiesOK'
    BY <1>0, Numbers DEF StackInv, TypeOK, LockOfPc, QueueOK, Served1, LineOK, CopiesOK, Permissible, Exclusive, Ops, HandleRequest, release_exclusive, NetHas, Asserts, Updated, StackUpdate, WritebackFits
  <1>6. Inclusion' /\ NoAssertionFails'
    BY <1>0, Numbers DEF StackInv, TypeOK, Inclusion, NoAssertionFails, HandleRequest, release_exclusive, NetHas, Asserts, Updated, StackUpdate, WritebackFits
  <1> QED BY <1>1, <1>2, <1>3, <1>4, <1>5, <1>6, Zenon DEF StackInv

\* The loop over the waiters.
LEMMA ServeWaiterKeeps ==
  ASSUME StackInv, ServeWaiter
  PROVE  StackInv'
  <1>0. waiters # << >> => Len(waiters) > 0 /\ waiters[1] \in Cores /\ Head(waiters) = waiters[1]
    BY Dropped DEF StackInv, TypeOK
  <1>w. waiters # << >> => pc[waiters[1]] = "wait"
    BY <1>0 DEF StackInv, TypeOK, QueueOK, Served1, ServeWaiter, NetHas
  <1>1. TypeOK' /\ LockInv'
    <2>1. LockInv'
      BY <1>0, ReleaseExclusiveKeeps, PassToKeeps, Numbers, Zenon DEF StackInv, ServeWaiter
    <2> QED BY <1>0, <1>w, <2>1, Numbers, Zenon DEF StackInv, TypeOK, LockInv, ServeWaiter, release_exclusive, PassTo, NetHas
  <1>2. LockOfPc'
    <2>1. CASE waiters # << >> /\ ~ (Exclusive(op[Head(waiters)]) /\ llc = "S")
      BY <2>1, <1>0, <1>w, Numbers DEF StackInv, TypeOK, LockTypeOK, LockOfPc, ServeWaiter, PassTo, NetHas
    <2>2. CASE ~ (waiters # << >> /\ ~ (Exclusive(op[Head(waiters)]) /\ llc = "S"))
      BY <2>2, <1>0, <1>w, Numbers, Zenon DEF StackInv, TypeOK, LockTypeOK, LockOfPc, ServeWaiter, release_exclusive, NetHas
    <2> QED BY <2>1, <2>2, Zenon
  <1>3. QueueOK'
    <2>1. net' \in {"idle", "passed"} /\ net = "serve" /\ waiters' = waiters /\ pc' = pc
      BY Zenon DEF ServeWaiter, NetHas
    <2>2. Served1 = 0 /\ Served1' = 0 /\ Serving
      BY <2>1, Zenon DEF Served1, Serving
    <2>3. /\ net' = "idle" => (asked' # "no" <=> Len(waiters) > 0)
          /\ net' = "passed" => asked' = "no" /\ Len(waiters) > 0
      BY <1>0, <2>2 DEF StackInv, QueueOK, ServeWaiter
    <2> QED BY <2>1, <2>2, <2>3, Zenon DEF StackInv, QueueOK, Serving
  <1>4. LineOK'
    BY <1>0, <1>w, Numbers, Zenon DEF StackInv, TypeOK, LockOfPc, QueueOK, Served1, LineOK, Serving, Exclusive, ServeWaiter, release_exclusive, PassTo, NetHas
  <1>5. CopiesOK'
    BY <1>0, <1>w, Numbers DEF StackInv, TypeOK, LockOfPc, QueueOK, Served1, LineOK, CopiesOK, Permissible, Exclusive, Ops, ServeWaiter, release_exclusive, PassTo, NetHas
  <1>6. Inclusion' /\ NoAssertionFails'
    BY <1>0, <1>w, Numbers, Zenon DEF StackInv, TypeOK, Inclusion, NoAssertionFails, ServeWaiter, release_exclusive, PassTo, NetHas
  <1> QED BY <1>1, <1>2, <1>3, <1>4, <1>5, <1>6, Zenon DEF StackInv

\* An access begins.
LEMMA BeginKeeps ==
  ASSUME StackInv, NEW c \in Cores, NEW o \in Ops, Begin(c, o)
  PROVE  StackInv'
  <1>0. net = "passed" => waiters[1] \in Cores /\ waiters[1] # c
    BY Dropped, Zenon DEF StackInv, TypeOK, QueueOK, LockOfPc, Begin
  <1>1. TypeOK' /\ LockInv'
    <2>1. LockInv'
      BY AcquireExclusiveKeeps, AcquireSharedKeeps, Numbers, Zenon DEF StackInv, Begin
    <2> QED BY <1>0, <2>1, Numbers DEF StackInv, TypeOK, LockInv, Begin, acquire_exclusive, acquire_shared, Goto
  <1>2. LockOfPc'
    <2>1. CASE o = "PREFETCH"
      <3>1. /\ mode' = [mode EXCEPT ![c] = "acquiring"]
            /\ pc' = [pc EXCEPT ![c] = "next"]
            /\ UNCHANGED <<net, waiters>>
        BY <2>1, Zenon DEF Begin, Goto, acquire_exclusive
      <3>2. pc[c] = "idle" /\ mode[c] = "none"
        BY Zenon DEF StackInv, LockOfPc, Begin
      <3> QED BY <3>1, <3>2, <1>0, Numbers, Zenon DEF StackInv, TypeOK, LockTypeOK, LockOfPc
    <2>2. CASE o # "PREFETCH"
      <3>1. /\ mode' = [mode EXCEPT ![c] = "shared"]
            /\ pc' = [pc EXCEPT ![c] = "first"]
            /\ UNCHANGED <<net, waiters>>
        BY <2>2, Zenon DEF Begin, Goto, acquire_shared
      <3>2. pc[c] = "idle" /\ mode[c] = "none"
        BY Zenon DEF StackInv, LockOfPc, Begin
      <3> QED BY <3>1, <3>2, <1>0, Numbers, Zenon DEF StackInv, TypeOK, LockTypeOK, LockOfPc
    <2> QED BY <2>1, <2>2, Zenon
  <1>3. QueueOK'
    BY <1>0, Numbers DEF StackInv, TypeOK, LockOfPc, QueueOK, Served1, Serving, Begin, acquire_exclusive, acquire_shared, Goto
  <1>4. LineOK'
    BY <1>0, Numbers DEF StackInv, TypeOK, LockOfPc, QueueOK, Served1, LineOK, Serving, Exclusive, Begin, acquire_exclusive, acquire_shared, Goto
  <1>5. CopiesOK'
    BY <1>0, Numbers DEF StackInv, TypeOK, LockOfPc, QueueOK, Served1, LineOK, CopiesOK, Permissible, Exclusive, Ops, Begin, acquire_exclusive, acquire_shared, Goto
  <1>6. Inclusion' /\ NoAssertionFails'
    BY <1>0, Numbers, Zenon DEF StackInv, TypeOK, Inclusion, NoAssertionFails, Begin, acquire_exclusive, acquire_shared, Goto
  <1> QED BY <1>1, <1>2, <1>3, <1>4, <1>5, <1>6, Zenon DEF StackInv

\* While a core has the stack lock, nobody else is in the caches.
LEMMA Alone ==
  ASSUME StackInv, NEW c \in Cores, mode[c] = "exclusive"
  PROVE  /\ net # "serve"
         /\ \A d \in Cores \ {c} : pc[d] \in {"idle", "next", "wait"} /\ mode[d] # "exclusive"
         /\ net = "passed" => waiters[1] = c /\ pc[c] = "wait"
  <1>1. \A t \in Threads \ {c} : mode[t] \notin {"shared", "exclusive"}
    BY Excludes, Numbers, Zenon DEF StackInv, StackLockExcludes
  <1>2. net # "serve"
    BY <1>1, Numbers, Zenon DEF StackInv, LockOfPc
  <1>3. \A d \in Cores \ {c} : pc[d] \in {"idle", "next", "wait"} /\ mode[d] # "exclusive"
    BY <1>1, Numbers, Zenon DEF StackInv, LockOfPc, TypeOK
  <1>4. ASSUME net = "passed" PROVE waiters[1] = c /\ pc[c] = "wait"
    <2>1. waiters[1] \in Cores /\ pc[waiters[1]] = "wait"
      BY <1>4, Dropped DEF StackInv, TypeOK, QueueOK, Served1
    <2>2. mode[waiters[1]] = "exclusive"
      BY <1>4, Zenon DEF StackInv, LockOfPc
    <2> QED BY <2>1, <2>2, <1>3, Zenon
  <1> QED BY <1>2, <1>3, <1>4, Zenon

\* What an access that the last level serves does to the caches.
LEMMA ServeKeeps ==
  ASSUME StackInv, NEW c \in Cores, mode[c] = "exclusive", pc[c] \in {"next", "wait"},
         op[c] # "PREFETCH" => l1[c] # "M", Served(c), Serve(c)
  PROVE  /\ LockInv'
         /\ mode' = [mode EXCEPT ![c] = IF op[c] = "PREFETCH" THEN "none" ELSE "shared"]
         /\ pc' = [pc EXCEPT ![c] = IF op[c] = "PREFETCH" THEN "idle" ELSE "access"]
         /\ op' = [op EXCEPT ![c] = IF op[c] = "PREFETCH" THEN "none" ELSE @]
         /\ l1' \in [Cores -> {"I", "S", "E", "M"}]
         /\ llc' \in {"S", "E", "M"}
         /\ CopiesOK' /\ Inclusion' /\ NoAssertionFails' /\ failed' \in BOOLEAN
  <1> DEFINE pre == op[c] = "PREFETCH"
  <1>0. /\ op[c] \in Ops /\ op \in [Cores -> Ops \cup {"none"}]
        /\ mode \in [Threads -> {"none", "shared", "acquiring", "exclusive"}]
        /\ l1 \in [Cores -> {"I", "S", "E", "M"}]
        /\ pc \in [Cores -> {"idle", "first", "next", "wait", "access", "atomic"}]
        /\ c \in Threads
    BY Numbers, Zenon DEF StackInv, TypeOK, LockTypeOK, CopiesOK
  <1>1. LockInv'
    BY ReleaseExclusiveKeeps, DowngradeKeeps, <1>0, Zenon DEF StackInv, Serve
  <1>2. mode' = [mode EXCEPT ![c] = IF pre THEN "none" ELSE "shared"]
    BY Zenon DEF Serve, release_exclusive, downgrade
  <1>3. /\ pc' = [pc EXCEPT ![c] = IF pre THEN "idle" ELSE "access"]
        /\ op' = [op EXCEPT ![c] = IF pre THEN "none" ELSE @]
    BY <1>0, Zenon DEF Serve, Goto
  <1>4. /\ llc \in {"S", "E", "M"}
        /\ Exclusive(op[c]) => llc \in {"E", "M"}
        /\ llc' = IF Exclusive(op[c]) THEN "M" ELSE llc
    BY Zenon DEF Served, Permissible, Serve, Exclusive
  <1>5. \A d \in Cores \ {c} :
          /\ Exclusive(op[c]) => l1'[d] = "I"
          /\ ~ Exclusive(op[c]) /\ llc # "S" => l1'[d] = IF l1[d] = "I" THEN "I" ELSE "S"
          /\ ~ Exclusive(op[c]) /\ llc = "S" => l1'[d] = l1[d]
    <2> TAKE d \in Cores \ {c}
    <2>1. d \in Siblings(c)
      BY Zenon DEF Siblings
    <2>2. CASE Exclusive(op[c])
      <3>1. op[c] # "PREFETCH"
        BY <2>2, Zenon DEF Exclusive
      <3>2. l1' = [Updated(Siblings(c), "I") EXCEPT ![c] = "M"]
        BY <2>2, <3>1, Zenon DEF Serve
      <3> QED BY <3>2, <2>1, <2>2, Zenon DEF Updated
    <2>3. CASE ~ Exclusive(op[c]) /\ llc # "S"
      BY <2>1, <2>3, <1>0, Zenon DEF Serve, Updated
    <2>4. CASE ~ Exclusive(op[c]) /\ llc = "S"
      BY <2>1, <2>4, <1>0, Zenon DEF Serve, Updated
    <2> QED BY <2>2, <2>3, <2>4, Zenon
  <1>6. /\ ~ pre => l1'[c] = llc'
        /\ pre => l1'[c] \in {"I", "S"} \/ (llc = "S" /\ l1'[c] = l1[c])
        /\ pre /\ l1[c] = "I" => l1'[c] = "I"
    BY <1>0, <1>4, Zenon DEF Serve, Updated, Siblings, Exclusive
  <1>7. l1' \in [Cores -> {"I", "S", "E", "M"}]
    BY <1>0, <1>4, Zenon DEF Serve, Updated
  <1>8. Inclusion'
    BY <1>4, <1>5, <1>6, <1>7, Zenon DEF StackInv, Inclusion, Exclusive
  <1>9. CopiesOK'
    <2>1. ASSUME NEW d \in Cores \ {c}, pc[d] # "idle"
          PROVE  /\ op'[d] \in Ops /\ pc'[d] \in {"next", "wait"}
                 /\ pc'[d] = "wait" /\ op'[d] # "PREFETCH" => l1'[d] = "I"
                 /\ l1'[d] # "M"
      <3>1. op'[d] = op[d] /\ pc'[d] = pc[d] /\ op[d] \in Ops /\ pc[d] \in {"next", "wait"}
        BY <1>0, <1>3, Alone, <2>1 DEF StackInv, CopiesOK
      <3>2. pc[d] = "wait" /\ op[d] # "PREFETCH" => l1[d] = "I"
        BY Zenon DEF StackInv, CopiesOK
      <3>3. llc = "S" => l1[d] # "M"
        BY Zenon DEF StackInv, Inclusion
      <3> QED BY <3>1, <3>2, <3>3, <1>4, <1>5, Zenon
    <2>2. \A d \in Cores \ {c} : pc[d] = "idle" => pc'[d] = "idle"
      BY <1>0, <1>3, Zenon
    <2>3. /\ pre => pc'[c] = "idle"
          /\ ~ pre => /\ pc'[c] = "access" /\ op'[c] = op[c]
                      /\ Permissible(l1'[c], op[c])
                      /\ op[c] = "LOCK" => l1'[c] = "M"
      BY <1>0, <1>3, <1>4, <1>6, Zenon DEF Permissible, Exclusive
    <2>4. ASSUME NEW d \in Cores
          PROVE  /\ pc'[d] # "idle" => op'[d] \in Ops
                 /\ pc'[d] \in {"first", "access", "atomic"} => op'[d] # "PREFETCH"
                 /\ pc'[d] = "access" => Permissible(l1'[d], op'[d])
                 /\ pc'[d] = "atomic" => l1'[d] = "M"
                 /\ pc'[d] = "access" /\ op'[d] = "LOCK" => l1'[d] = "M"
                 /\ pc'[d] = "wait" /\ op'[d] # "PREFETCH" => l1'[d] = "I"
                 /\ ~ (pc'[d] = "next" /\ l1'[d] = "M")
      <3>1. CASE d = c
        BY <3>1, <2>3, <1>0, Zenon
      <3>2. CASE d # c /\ pc[d] = "idle"
        BY <3>2, <2>2, Zenon
      <3>3. CASE d # c /\ pc[d] # "idle"
        BY <3>3, <2>1, Zenon
      <3> QED BY <3>1, <3>2, <3>3, Zenon
    <2> QED BY <2>4, Zenon DEF CopiesOK, Permissible
  <1>10. NoAssertionFails' /\ failed' \in BOOLEAN
    BY Zenon DEF StackInv, Inclusion, Serve, Asserts, WritebackFits, Siblings, NoAssertionFails
  <1> QED BY <1>1, <1>2, <1>3, <1>4, <1>7, <1>8, <1>9, <1>10, Zenon

\* An access that the last level serves at once.
LEMMA UseServedKeeps ==
  ASSUME StackInv, NEW c \in Cores, UseNextLevel(c), Served(c)
  PROVE  StackInv'
  <1>0. /\ pc[c] = "next" /\ mode[c] = "exclusive" /\ Serve(c)
        /\ UNCHANGED <<waiters, asked, net>>
    BY Zenon DEF UseNextLevel
  <1>1. /\ net \notin {"serve", "passed"}
        /\ op[c] # "PREFETCH" => l1[c] # "M"
    BY <1>0, Alone, Zenon DEF StackInv, CopiesOK
  <1>2. /\ LockInv'
        /\ mode' = [mode EXCEPT ![c] = IF op[c] = "PREFETCH" THEN "none" ELSE "shared"]
        /\ pc' = [pc EXCEPT ![c] = IF op[c] = "PREFETCH" THEN "idle" ELSE "access"]
        /\ op' = [op EXCEPT ![c] = IF op[c] = "PREFETCH" THEN "none" ELSE @]
        /\ l1' \in [Cores -> {"I", "S", "E", "M"}]
        /\ llc' \in {"S", "E", "M"}
        /\ CopiesOK' /\ Inclusion' /\ NoAssertionFails' /\ failed' \in BOOLEAN
    BY <1>0, <1>1, ServeKeeps, Zenon
  <1>3. TypeOK'
    BY <1>0, <1>2, Zenon DEF StackInv, TypeOK, LockInv
  <1>4. LockOfPc'
    BY <1>0, <1>1, <1>2, Numbers, Zenon DEF StackInv, TypeOK, LockTypeOK, LockOfPc
  <1>5. QueueOK'
    BY <1>0, <1>2 DEF StackInv, TypeOK, QueueOK, Served1, Serving
  <1>6. asked = "no"
    BY Zenon DEF StackInv, LineOK, Served, Permissible
  <1>7. LineOK'
    BY <1>0, <1>1, <1>2, <1>6, Zenon DEF LineOK
  <1> QED BY <1>2, <1>3, <1>4, <1>5, <1>7, Zenon DEF StackInv

\* A waiter is woken up and finds the line.
LEMMA ResumeKeeps ==
  ASSUME StackInv, NEW c \in Cores, Resume(c)
  PROVE  StackInv'
  <1>0. /\ pc[c] = "wait" /\ mode[c] = "exclusive"
        /\ UNCHANGED <<waiters, asked>> /\ net' = "signalled"
    BY Zenon DEF Resume
  <1>1. net = "passed" /\ waiters[1] = c /\ Len(waiters) > 0 /\ asked = "no"
    BY <1>0, Zenon DEF StackInv, LockOfPc, QueueOK, Serving
  <1>2. Served(c) /\ Serve(c) /\ (op[c] # "PREFETCH" => l1[c] # "M")
    <2>1. llc \in {"S", "E", "M"} /\ ~ (Exclusive(op[c]) /\ llc = "S")
      BY <1>1, Zenon DEF StackInv, LineOK, Serving
    <2>2. op[c] # "PREFETCH" => l1[c] = "I"
      BY <1>0, Zenon DEF StackInv, CopiesOK
    <2>3. Served(c)
      BY <2>1, Zenon DEF Served, Permissible
    <2> QED BY <2>2, <2>3, Zenon DEF Resume
  <1>3. /\ LockInv'
        /\ mode' = [mode EXCEPT ![c] = IF op[c] = "PREFETCH" THEN "none" ELSE "shared"]
        /\ pc' = [pc EXCEPT ![c] = IF op[c] = "PREFETCH" THEN "idle" ELSE "access"]
        /\ op' = [op EXCEPT ![c] = IF op[c] = "PREFETCH" THEN "none" ELSE @]
        /\ l1' \in [Cores -> {"I", "S", "E", "M"}]
        /\ llc' \in {"S", "E", "M"}
        /\ CopiesOK' /\ Inclusion' /\ NoAssertionFails' /\ failed' \in BOOLEAN
    BY <1>0, <1>2, ServeKeeps, Zenon
  <1>4. TypeOK'
    BY <1>0, <1>3, Zenon DEF StackInv, TypeOK, LockInv
  <1>5. LockOfPc'
    BY <1>0, <1>1, <1>3, Alone, Numbers DEF StackInv, TypeOK, LockTypeOK, LockOfPc
  <1>6. QueueOK'
    BY <1>0, <1>1, <1>3 DEF StackInv, TypeOK, QueueOK, Served1, Serving
  <1>7. LineOK'
    BY <1>0, <1>1, <1>3, Zenon DEF LineOK
  <1> QED BY <1>3, <1>4, <1>5, <1>6, <1>7, Zenon DEF StackInv

\* An access that has to wait for the directory.
LEMMA AskKeeps ==
  ASSUME StackInv, NEW c \in Cores, UseNextLevel(c), ~ Served(c)
  PROVE  StackInv'
  <1>0. pc[c] = "next" /\ mode[c] = "exclusive" /\ AskDirectory(c) /\ UNCHANGED net
    BY Zenon DEF UseNextLevel
  <1>1. /\ net \notin {"serve", "passed"}
        /\ \A d \in Cores : pc[d] = "next" /\ op[d] # "PREFETCH" => l1[d] # "M"
    BY <1>0, Alone, Zenon DEF StackInv, CopiesOK
  <1>2. /\ op[c] \in Ops /\ c \in Threads /\ waiters \in Seq(Cores)
        /\ mode \in [Threads -> {"none", "shared", "acquiring", "exclusive"}]
        /\ l1 \in [Cores -> {"I", "S", "E", "M"}] /\ llc \in {"I", "S", "SU", "E", "M"}
        /\ pc \in [Cores -> {"idle", "first", "next", "wait", "access", "atomic"}]
    BY <1>0, Numbers, Zenon DEF StackInv, TypeOK, LockTypeOK, CopiesOK
  <1>3. llc \in {"I", "SU"} \/ (Exclusive(op[c]) /\ llc = "S")
    BY <1>2, Zenon DEF Served, Permissible, Exclusive
  <1>4. /\ mode' = [mode EXCEPT ![c] = "none"] /\ pc' = [pc EXCEPT ![c] = "wait"]
        /\ op' = op /\ waiters' = Append(waiters, c)
    BY Zenon DEF AskDirectory, Goto, release_exclusive, UseNextLevel
  <1>5. /\ waiters' \in Seq(Cores) /\ Len(waiters') = Len(waiters) + 1
        /\ \A i \in 1..Len(waiters) : waiters'[i] = waiters[i]
        /\ waiters'[Len(waiters) + 1] = c
        /\ Len(waiters) \in Nat /\ (waiters = << >> <=> Len(waiters) = 0)
    BY <1>2, <1>4, Joined
  <1>6. /\ waiters # << >> => llc' = llc /\ asked' = asked
        /\ waiters = << >> => asked = "no" /\ ~ Serving /\ llc \in {"I", "S"}
        /\ waiters = << >> /\ llc = "S" => llc' = "SU" /\ asked' = "UPGRADE_REQ" /\ Exclusive(op[c])
        /\ waiters = << >> /\ llc = "I" => llc' = "I" /\ asked' \in {"SH_REQ", "EX_REQ"}
    <2>1. waiters = << >> => asked = "no" /\ ~ Serving
      BY <1>1, <1>5 DEF StackInv, QueueOK, Serving
    <2>2. asked = "no" => llc # "SU"
      BY Zenon DEF StackInv, LineOK
    <2> QED BY <2>1, <2>2, <1>0, <1>3, Zenon DEF AskDirectory
  <1>7. LockInv'
    BY <1>0, <1>2, ReleaseExclusiveKeeps, Zenon DEF StackInv, AskDirectory
  <1>8. \A d \in Cores :
          /\ Exclusive(op[c]) /\ llc = "S" => l1'[d] = "I"
          /\ l1'[d] \in {"I", l1[d]}
          /\ op[c] # "PREFETCH" => l1'[c] = "I"
    BY <1>0, <1>2, Zenon DEF AskDirectory
  <1>9. l1' \in [Cores -> {"I", "S", "E", "M"}]
    BY <1>0, <1>2, Zenon DEF AskDirectory
  <1>10. TypeOK'
    BY <1>0, <1>4, <1>5, <1>6, <1>7, <1>9, Zenon DEF StackInv, TypeOK, LockInv, AskDirectory, Asserts
  <1>11. LockOfPc'
    BY <1>0, <1>1, <1>2, <1>4, Numbers, Zenon DEF StackInv, LockOfPc
  <1>12. QueueOK'
    <2>1. \A i \in 1..Len(waiters) : i > Served1 => pc[waiters[i]] = "wait" /\ waiters[i] # c
      BY <1>0, Zenon DEF StackInv, QueueOK
    <2>2. Served1' = Served1 /\ Serving' = Serving
      BY <1>0, Zenon DEF Served1, Serving
    <2>3. \A i \in 1..Len(waiters) : waiters[i] \in Cores
      BY <1>2
    <2>4. \A i \in 1..Len(waiters') : i > Served1 => pc'[waiters'[i]] = "wait"
      BY <2>1, <2>3, <1>2, <1>4, <1>5
    <2>5. \A i, j \in 1..Len(waiters') :
            i > Served1 /\ j > Served1 /\ i # j => waiters'[i] # waiters'[j]
      BY <2>1, <1>5 DEF StackInv, QueueOK
    <2>6. /\ Serving => asked' = "no"
          /\ ~ Serving => (asked' # "no" <=> Len(waiters') > 0)
          /\ net = "reply" => asked' # "no"
      BY <1>5, <1>6 DEF StackInv, QueueOK
    <2> QED BY <2>2, <2>4, <2>5, <2>6, <1>0, <1>5 DEF QueueOK
  <1>13. LineOK'
    <2>1. Len(waiters) > 0 => waiters'[1] = waiters[1]
      BY <1>5
    <2>2. Len(waiters) = 0 => waiters'[1] = c
      BY <1>5
    <2>3. asked # "no" => Len(waiters) > 0
      BY Zenon DEF StackInv, QueueOK
    <2>4. net' # "passed" /\ Serving' = Serving
      BY <1>0, <1>1, Zenon DEF Serving
    <2> QED BY <2>1, <2>2, <2>3, <2>4, <1>4, <1>5, <1>6, Zenon DEF StackInv, LineOK
  <1>14. CopiesOK'
    BY <1>0, <1>1, <1>2, <1>4, <1>8, Alone DEF StackInv, CopiesOK, Permissible
  <1>15. Inclusion'
    BY <1>3, <1>6, <1>8, <1>9, Zenon DEF StackInv, Inclusion
  <1>16. NoAssertionFails'
    <2>1. WritebackFits(Siblings(c))
      BY Zenon DEF StackInv, Inclusion, WritebackFits, Siblings
    <2> QED BY <2>1, <1>0, <1>1, <1>6, Zenon DEF AskDirectory, Asserts, NoAssertionFails
  <1> QED BY <1>7, <1>10, <1>11, <1>12, <1>13, <1>14, <1>15, <1>16, Zenon DEF StackInv

-----------------------------------------------------------------------------
(* The theorems                                                            *)

\* Initially all caches are empty and all mutexes free.
LEMMA StackInvInit ==
  ASSUME Init
  PROVE  StackInv
  <1>1. LockInv
    BY Numbers, Zenon DEF Init, InitLock, LockInv, LockTypeOK, Holds, Cores, Threads
  <1>2. TypeOK
    <2>1. << >> \in Seq(Cores)
      OBVIOUS
    <2> QED BY <1>1, <2>1, Zenon DEF Init, LockInv, TypeOK
  <1>3. LockOfPc
    BY Numbers, Zenon DEF Init, InitLock, LockOfPc
  <1>4. QueueOK /\ LineOK
    BY DEF Init, QueueOK, LineOK, Serving, Served1
  <1>5. Inclusion /\ NoAssertionFails
    BY Zenon DEF Init, Inclusion, NoAssertionFails
  <1>6. CopiesOK
    BY Zenon DEF Init, CopiesOK
  <1> QED BY <1>1, <1>2, <1>3, <1>4, <1>5, <1>6, Zenon DEF StackInv

\* Every step keeps the invariant.
LEMMA StackInvStep ==
  ASSUME StackInv, [Next]_vars
  PROVE  StackInv'
  <1>1. ASSUME NEW c \in Cores, CoreStep(c)
        PROVE  StackInv'
    BY <1>1, GoDownKeeps, UseServedKeeps, AskKeeps, ResumeKeeps, AccessKeeps, UnlockKeeps, Zenon
       DEF CoreStep
  <1>2. ASSUME NEW c \in Cores, EvictFirst(c) \/ \E o \in Ops : Begin(c, o)
        PROVE  StackInv'
    BY <1>2, EvictFirstKeeps, BeginKeeps, Zenon
  <1>3. ASSUME NEW what \in {"reply", "request"}, TakeMsg(what)
        PROVE  StackInv'
    BY <1>3, TakeMsgKeeps, Zenon
  <1>4. CASE NetStep
    BY <1>4, HandleReplyKeeps, HandleRequestKeeps, ServeWaiterKeeps, TakeBackKeeps,
       DropWaiterKeeps, Zenon DEF NetStep
  <1>5. ASSUME NEW t \in Threads, AcquireNext(t)
        PROVE  StackInv'
    BY <1>5, AcquireKeeps, Zenon
  <1>6. CASE UNCHANGED vars
    <2>1. LockInv'
      BY <1>6, LockStays, Zenon DEF StackInv, vars
    <2> QED BY <2>1, <1>6 DEF StackInv, vars, stackVars, lockVars, TypeOK, LockTypeOK, LockInv,
              LockOfPc, QueueOK, Served1, Serving, LineOK, CopiesOK, Inclusion, NoAssertionFails
  <1> QED BY <1>1, <1>2, <1>3, <1>4, <1>5, <1>6, Zenon DEF Next

\* The invariant always holds.
LEMMA StackInvAlways == Spec => []StackInv
  <1>1. Init => StackInv
    BY StackInvInit, Zenon
  <1>2. StackInv /\ [Next]_vars => StackInv'
    BY StackInvStep, Zenon
  <1> QED BY <1>1, <1>2, PTL DEF Spec

\* Every variable keeps its type, whatever the threads on the cores do.
THEOREM TypeCorrect == Spec => []TypeOK
  <1>1. StackInv => TypeOK
    BY Zenon DEF StackInv
  <1> QED BY <1>1, StackInvAlways, PTL

\* However many cores share the stack, the lock of the cache set excludes: a
\* thread that has it exclusively is alone in the caches of the stack.
THEOREM LockExcludes == Spec => []StackLockExcludes
  <1>1. StackInv => StackLockExcludes
    BY Excludes, Zenon DEF StackInv
  <1> QED BY <1>1, StackInvAlways, PTL

\* However many cores share the stack, no assertion that the cache controllers
\* make about the line fails.
THEOREM AssertionsHold == Spec => []NoAssertionFails
  <1>1. StackInv => NoAssertionFails
    BY Zenon DEF StackInv
  <1> QED BY <1>1, StackInvAlways, PTL

\* However many cores share the stack, the last level includes the first levels,
\* and is MODIFIED when one of them is.
THEOREM LastLevelIncludes == Spec => []Inclusion
  <1>1. StackInv => Inclusion
    BY Zenon DEF StackInv
  <1> QED BY <1>1, StackInvAlways, PTL

-----------------------------------------------------------------------------
(* The lock implements StackLock                                           *)

\* The lock changes by one operation of _SetLock, or not at all.
LockStep ==
  \/ \E c \in Cores : \/ acquire_shared(c) \/ release_shared(c) \/ upgrade(c)
                      \/ downgrade(c) \/ PassTo(c)
  \/ \E t \in Threads : acquire_exclusive(t) \/ acquire_next(t) \/ release_exclusive(t)
  \/ UNCHANGED lockVars

\* Every handler calls at most one operation of the lock.
LEMMA StepsOfTheLock ==
  ASSUME StackInv, [Next]_vars
  PROVE  LockStep
  <1>1. ASSUME NEW c \in Cores, CoreStep(c)
        PROVE  LockStep
    <2> USE <1>1
    <2>1. c \in Threads
      BY Numbers, Zenon
    <2>2. ASSUME Serve(c) PROVE LockStep
      BY <2>1, <2>2, Zenon DEF Serve, LockStep
    <2>3. ASSUME AskDirectory(c) PROVE LockStep
      BY <2>1, <2>3, Zenon DEF AskDirectory, LockStep
    <2>4. ASSUME UseNextLevel(c) \/ Resume(c) PROVE LockStep
      BY <2>2, <2>3, <2>4, Zenon DEF UseNextLevel, Resume, LockStep, lockVars
    <2>5. ASSUME GoDown(c) \/ Access(c) \/ Unlock(c) PROVE LockStep
      BY <2>5, Zenon DEF GoDown, Access, Unlock, LockStep, lockVars
    <2> QED BY <2>4, <2>5, Zenon DEF CoreStep
  <1>2. ASSUME NEW c \in Cores, EvictFirst(c) \/ \E o \in Ops : Begin(c, o)
        PROVE  LockStep
    BY <1>2, Numbers, Zenon DEF EvictFirst, Begin, LockStep, lockVars
  <1>3. ASSUME NEW what \in {"reply", "request"}, TakeMsg(what)
        PROVE  LockStep
    BY <1>3, Numbers, Zenon DEF TakeMsg, LockStep
  <1>4. CASE NetStep
    <2>1. waiters # << >> => Head(waiters) \in Cores
      BY DEF StackInv, TypeOK
    <2>2. ASSUME ServeWaiter PROVE LockStep
      BY <2>1, <2>2, Numbers, Zenon DEF ServeWaiter, LockStep
    <2>3. ASSUME HandleReply \/ HandleRequest \/ TakeBack \/ DropWaiter PROVE LockStep
      BY <2>3, Numbers, Zenon DEF HandleReply, HandleRequest, TakeBack, DropWaiter, LockStep, lockVars
    <2> QED BY <1>4, <2>2, <2>3, Zenon DEF NetStep
  <1>5. ASSUME NEW t \in Threads, AcquireNext(t)
        PROVE  LockStep
    BY <1>5, Zenon DEF AcquireNext, LockStep
  <1>6. CASE UNCHANGED vars
    BY <1>6, Zenon DEF vars, LockStep, lockVars
  <1> QED BY <1>1, <1>2, <1>3, <1>4, <1>5, <1>6, Zenon DEF Next

\* A thread that has any of the lock has a mutex, so that none of the lock is left
\* to others when a thread has got all mutexes.
LEMMA AllMutexes ==
  ASSUME LockInv, NEW t \in Threads, acquire_next(t), got[t] + 1 = N
  PROVE  \A u \in Threads : Held[u] = "none"
  <1>1. ASSUME NEW u \in Threads, u # t
        PROVE  mode[u] \in {"none", "acquiring"}
    <2> USE <1>1
    <2>1. ASSUME NEW k \in Cores PROVE holder[k] \in {t, Nobody}
      <3>1. mode[t] = "acquiring" /\ holder[got[t]] = Nobody
        BY Zenon DEF acquire_next
      <3>2. k \in Int /\ got[t] \in Int /\ (k < got[t] \/ k = got[t])
        BY <2>1, Numbers DEF LockInv, LockTypeOK, Cores
      <3>3. k < got[t] => holder[k] = t
        BY <2>1, <3>1, Zenon DEF LockInv, Holds
      <3> QED BY <3>1, <3>2, <3>3, Zenon
    <2>2. ASSUME NEW k \in Cores PROVE ~ Holds(u, k)
      <3>1. holder[k] # u
        BY <2>1, Numbers, Zenon
      <3> QED BY <3>1, Zenon DEF LockInv
    <2>3. mode[u] # "exclusive"
      BY <2>2, Numbers, Zenon DEF Holds
    <2>4. mode[u] # "shared"
      <3>1. u \in Cores \/ u = Net
        BY Numbers DEF Threads, Cores, Net
      <3> QED BY <2>2, <3>1, Zenon DEF Holds, LockInv
    <2> QED BY <2>3, <2>4, Zenon DEF LockInv, LockTypeOK
  <1>2. mode[t] = "acquiring"
    BY Zenon DEF acquire_next
  <1> QED BY <1>1, <1>2, Zenon DEF Held

\* Every operation of the lock is a step of StackLock, or leaves alone what the
\* threads have of it: acquire_next is one when it gets the last mutex.
LEMMA LockStepImplements ==
  ASSUME LockInv, LockStep
  PROVE  [Abstract!Next]_Held
  <1> DEFINE Goal == [Abstract!Next]_Held
  <1>1. /\ mode \in [Threads -> {"none", "shared", "acquiring", "exclusive"}]
        /\ Held \in [Threads -> {"none", "shared", "exclusive"}]
        /\ \A t \in Threads : Held[t] = IF mode[t] = "acquiring" THEN "none" ELSE mode[t]
    BY Zenon DEF LockInv, LockTypeOK, Held
  <1>2. ASSUME NEW t \in Threads, NEW x \in {"none", "shared", "acquiring", "exclusive"},
               mode' = [mode EXCEPT ![t] = x]
        PROVE  Held' = [Held EXCEPT ![t] = IF x = "acquiring" THEN "none" ELSE x]
    BY <1>1, <1>2, Zenon DEF Held
  <1>3. ASSUME NEW t \in Threads, Abstract!Share(t) \/ Abstract!Exclude(t)
                                    \/ Abstract!Downgrade(t) \/ Abstract!Release(t)
        PROVE  Goal
    BY <1>3, Zenon DEF Abstract!Next
  <1>4. ASSUME NEW t \in Threads, Held' = [Held EXCEPT ![t] = Held[t]]
        PROVE  Goal
    BY <1>1, <1>4, Zenon
  <1> HIDE DEF Goal
  <1>5. ASSUME NEW c \in Cores, acquire_shared(c)
        PROVE  Goal
    <2>1. c \in Threads /\ mode[c] = "none" /\ holder[c] = Nobody /\ mode' = [mode EXCEPT ![c] = "shared"]
      BY <1>5, Numbers, Zenon DEF acquire_shared
    <2>2. ASSUME NEW u \in Threads PROVE mode[u] # "exclusive"
      BY <1>5, <2>1, Numbers, Zenon DEF LockInv, Holds
    <2>3. Held' = [Held EXCEPT ![c] = "shared"]
      BY <1>2, <2>1, Zenon
    <2>4. Abstract!Share(c)
      BY <1>1, <2>1, <2>2, <2>3, Zenon DEF Abstract!Share
    <2> QED BY <1>3, <2>1, <2>4, Zenon
  <1>6. ASSUME NEW c \in Threads, release_shared(c) \/ release_exclusive(c) \/ upgrade(c)
        PROVE  Goal
    <2>1. /\ mode[c] \in {"shared", "exclusive"}
          /\ \E x \in {"none", "acquiring"} : mode' = [mode EXCEPT ![c] = x]
      BY <1>6, Zenon DEF release_shared, release_exclusive, upgrade
    <2>2. Held' = [Held EXCEPT ![c] = "none"]
      BY <1>2, <2>1, Zenon
    <2>3. Abstract!Release(c)
      BY <1>1, <2>1, <2>2, Zenon DEF Abstract!Release
    <2> QED BY <1>3, <2>3, Zenon
  <1>7. ASSUME NEW c \in Threads, downgrade(c)
        PROVE  Goal
    <2>1. mode[c] = "exclusive" /\ mode' = [mode EXCEPT ![c] = "shared"]
      BY <1>7, Zenon DEF downgrade
    <2>2. Held' = [Held EXCEPT ![c] = "shared"]
      BY <1>2, <2>1, Zenon
    <2>3. Abstract!Downgrade(c)
      BY <1>1, <2>1, <2>2, Zenon DEF Abstract!Downgrade
    <2> QED BY <1>3, <2>3, Zenon
  <1>8. ASSUME NEW c \in Cores, PassTo(c)
        PROVE  Goal
    <2>1. /\ c \in Threads /\ Net \in Threads /\ c # Net /\ mode[Net] = "exclusive"
          /\ mode' = [mode EXCEPT ![Net] = "none", ![c] = "exclusive"]
      BY <1>8, Numbers, Zenon DEF PassTo
    <2>2. Held' = [Held EXCEPT ![Net] = "none", ![c] = "exclusive"]
      BY <1>1, <2>1, Zenon DEF Held
    <2>3. Abstract!Pass(Net, c)
      BY <1>1, <2>1, <2>2, Zenon DEF Abstract!Pass
    <2> QED BY <2>1, <2>3, Zenon DEF Abstract!Next, Goal
  <1>9. ASSUME NEW t \in Threads, acquire_exclusive(t)
        PROVE  Goal
    <2>1. mode[t] = "none" /\ mode' = [mode EXCEPT ![t] = "acquiring"]
      BY <1>9, Zenon DEF acquire_exclusive
    <2>2. Held' = [Held EXCEPT ![t] = "none"] /\ Held[t] = "none"
      BY <1>1, <1>2, <2>1, Zenon
    <2> QED BY <1>4, <2>2, Zenon
  <1>10. ASSUME NEW t \in Threads, acquire_next(t)
         PROVE  Goal
    <2>1. /\ mode[t] = "acquiring"
          /\ mode' = [mode EXCEPT ![t] = IF got[t] + 1 = N THEN "exclusive" ELSE "acquiring"]
      BY <1>10, Zenon DEF acquire_next
    <2>2. CASE got[t] + 1 = N
      <3>1. Held' = [Held EXCEPT ![t] = "exclusive"]
        BY <1>2, <2>1, <2>2, Zenon
      <3>2. Abstract!Exclude(t)
        BY <1>10, <2>2, <3>1, AllMutexes, Zenon DEF Abstract!Exclude
      <3> QED BY <1>3, <3>2, Zenon
    <2>3. CASE got[t] + 1 # N
      <3>1. Held' = [Held EXCEPT ![t] = "none"] /\ Held[t] = "none"
        BY <1>1, <1>2, <2>1, <2>3, Zenon
      <3> QED BY <1>4, <3>1, Zenon
    <2> QED BY <2>2, <2>3, Zenon
  <1>11. CASE UNCHANGED lockVars
    BY <1>11, Zenon DEF lockVars, Held, Goal
  <1>12. \A c \in Cores : c \in Threads
    BY Numbers, Zenon
  <1> QED BY <1>5, <1>6, <1>7, <1>8, <1>9, <1>10, <1>11, <1>12, Zenon DEF LockStep, Goal

\* However many cores share the stack, the lock that _SetLock makes of one mutex for
\* each core is a lock that several threads share or one has alone, through calls of
\* all handlers: collecting mutexes one by one, giving up and taking anew for an
\* upgrade, and passing the locked mutexes on to a waiting core.
THEOREM Implements == Spec => ImplementsStackLock
  <1>1. Init => Abstract!Init
    BY Zenon DEF Init, InitLock, Abstract!Init, Held
  <1>2. StackInv /\ [Next]_vars => [Abstract!Next]_Held
    <2> SUFFICES ASSUME StackInv, [Next]_vars PROVE [Abstract!Next]_Held
      BY Zenon
    <2>1. LockInv /\ LockStep
      BY StepsOfTheLock, Zenon DEF StackInv
    <2> QED BY <2>1, LockStepImplements, Zenon
  <1> QED BY <1>1, <1>2, StackInvAlways, PTL DEF Spec, ImplementsStackLock, Abstract!Spec
=============================================================================
