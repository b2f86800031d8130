------------------------------- MODULE SetLock -------------------------------
(***************************************************************************)
(* _SetLock (misc/setlock.cc), the lock of one cache set in a stack of     *)
(* caches.  It is one mutex per core that shares the last-level cache.  A  *)
(* core locks its own mutex to use its first-level cache, and all of them, *)
(* in the order of their indices, to go further down.  The simulation      *)
(* thread of the last-level cache takes all of them too, and passes them   *)
(* on to a waiting core.                                                   *)
(*                                                                         *)
(* Mutexes are taken one by one.  Giving several back is one step: the     *)
(* thread touches nothing between the first and the last.                  *)
(***************************************************************************)
EXTENDS Integers

CONSTANT N           \* num_sharers

ASSUME SharersAssumption == N \in Nat \ {0}

Cores   == 0 .. N - 1
Net     == N         \* the simulation thread
Threads == 0 .. N
Nobody  == -1

VARIABLES
  holder,    \* the thread that has each mutex of m_locks
  mode,      \* what each thread is doing with the lock
  got        \* how many mutexes acquire_exclusive has got so far

lockVars == <<holder, mode, got>>

InitLock ==
  /\ holder = [k \in Cores |-> Nobody]
  /\ mode = [t \in Threads |-> "none"]
  /\ got = [t \in Threads |-> 0]

acquire_shared(c) ==
  /\ mode[c] = "none"
  /\ holder[c] = Nobody
  /\ holder' = [holder EXCEPT ![c] = c]
  /\ mode' = [mode EXCEPT ![c] = "shared"]
  /\ UNCHANGED got

release_shared(c) ==
  /\ mode[c] = "shared"
  /\ holder' = [holder EXCEPT ![c] = Nobody]
  /\ mode' = [mode EXCEPT ![c] = "none"]
  /\ UNCHANGED got

\* Not the code: the first mutex is skipped.
acquire_exclusiveFromOne(t) ==
  /\ mode[t] = "none"
  /\ mode' = [mode EXCEPT ![t] = "acquiring"]
  /\ got' = [got EXCEPT ![t] = 1]
  /\ UNCHANGED holder

\* The call; the mutexes follow one by one.
acquire_exclusive(t) ==
  /\ mode[t] = "none"
  /\ mode' = [mode EXCEPT ![t] = "acquiring"]
  /\ got' = [got EXCEPT ![t] = 0]
  /\ UNCHANGED holder

acquire_next(t) ==
  /\ mode[t] = "acquiring"
  /\ holder[got[t]] = Nobody
  /\ holder' = [holder EXCEPT ![got[t]] = t]
  /\ got' = [got EXCEPT ![t] = @ + 1]
  /\ mode' = [mode EXCEPT ![t] = IF got[t] + 1 = N THEN "exclusive" ELSE "acquiring"]

release_exclusive(t) ==
  /\ mode[t] = "exclusive"
  /\ holder' = [k \in Cores |-> Nobody]
  /\ mode' = [mode EXCEPT ![t] = "none"]
  /\ UNCHANGED got

\* Gives up the core's own mutex before it takes all of them.
upgrade(c) ==
  /\ mode[c] = "shared"
  /\ holder' = [holder EXCEPT ![c] = Nobody]
  /\ mode' = [mode EXCEPT ![c] = "acquiring"]
  /\ got' = [got EXCEPT ![c] = 0]

\* Keeps the core's own mutex.
downgrade(c) ==
  /\ mode[c] = "exclusive"
  /\ holder' = [k \in Cores |-> IF k = c THEN c ELSE Nobody]
  /\ mode' = [mode EXCEPT ![c] = "shared"]
  /\ UNCHANGED got

\* "Pass stack lock through to user thread": the mutexes stay locked, and core
\* c is the one that will unlock them.
PassTo(c) ==
  /\ mode[Net] = "exclusive"
  /\ mode[c] = "none"
  /\ holder' = [k \in Cores |-> c]
  /\ mode' = [mode EXCEPT ![Net] = "none", ![c] = "exclusive"]
  /\ UNCHANGED got

LockTypeOK ==
  /\ holder \in [Cores -> Threads \cup {Nobody}]
  /\ mode \in [Threads -> {"none", "shared", "acquiring", "exclusive"}]
  /\ got \in [Threads -> 0..N]

\* A thread that has the lock exclusively has it alone: no other thread is in
\* the first-level cache of any core of the stack or further down, although the
\* lock is taken mutex by mutex, released and taken anew by upgrade, and passed
\* from the simulation thread to a core.
StackLockExcludes ==
  \A t, u \in Threads :
    t # u /\ mode[t] = "exclusive" => mode[u] \notin {"shared", "exclusive"}

\* What a thread has of the lock: nothing while it still collects mutexes.
Held == [t \in Threads |-> IF mode[t] = "acquiring" THEN "none" ELSE mode[t]]

Abstract == INSTANCE StackLock WITH held <- Held

\* The lock implements StackLock: what _SetLock makes of one mutex for each core is
\* a lock that several threads share or one has alone, although it is collected
\* mutex by mutex, given up and taken anew by upgrade, and passed from the
\* simulation thread to a core.
ImplementsStackLock == Abstract!Spec

\* The mutexes a thread has are those that its use of the lock calls for.
Holds(t, k) ==
  \/ mode[t] = "shared" /\ t = k
  \/ mode[t] = "acquiring" /\ k < got[t]
  \/ mode[t] = "exclusive"

\* Each mutex is held by the thread that is entitled to it, and by no other.
LockInv ==
  /\ LockTypeOK
  /\ mode[Net] # "shared"
  /\ \A t \in Threads : mode[t] = "acquiring" => got[t] < N
  /\ \A t \in Threads, k \in Cores : holder[k] = t <=> Holds(t, k)
=============================================================================
