-------------------------- MODULE BarrierSyncProofs --------------------------
(***************************************************************************)
(* Proofs about BarrierSync, for any number of cores, threads and host     *)
(* cores.                                                                  *)
(***************************************************************************)
EXTENDS BarrierSync, FiniteSetTheorems, TLAPS

-----------------------------------------------------------------------------
(* The inductive invariant                                                 *)

\* The threads that wait on core c's condition variable for their place on the
\* list of threads to release, and not for the entry of c in the barrier.
Held(c) ==
  IF c \in acquire /\ coreThread[c] # caller THEN Waiting(c) \ {coreThread[c]} ELSE Waiting(c)

\* The thread entered for a core waits there.
EntriesWait == \A c \in acquire : coreThread[c] \in Threads /\ place[coreThread[c]] = c

\* A core is on the list exactly if one thread waits there for it.
ListsWait == \A c \in Cores : IF c \in toRelease THEN \E u \in Threads : Held(c) = {u} ELSE Held(c) = {}

\* Threads in the barrier run as far as the thread manager knows, and only
\* running threads have cores, each one of its own.
WaitersRun == \A t \in Threads : place[t] # None => status[t] = "RUNNING"
OnlyRunning == \A t \in Threads : status[t] # "RUNNING" => coreOf[t] = None
OwnCore == \A t, u \in Threads : coreOf[t] # None /\ coreOf[t] = coreOf[u] => t = u

\* The caller of barrierRelease() is entered, unless the barrier is switched off
\* meanwhile.
CallerEntered ==
  /\ pc # "release" => caller = None
  /\ caller # None =>
       /\ place[caller] # None
       /\ acquire # {} => place[caller] \in acquire /\ coreThread[place[caller]] = caller

\* Nobody is entered while the barrier is off, or while stallThread() advances
\* time.
NoEntries == disable \/ pc = "advance" => acquire = {}

\* The clock of an entered core is at the barrier only while its thread is on it,
\* and outside barrierRelease() it is.
ClocksOfEntries ==
  /\ \A c \in acquire : ahead[c] >= 0 => coreOf[coreThread[c]] = c
  /\ pc = "idle" => \A c \in acquire : ahead[c] >= 0

\* barrierRelease() begins when all released threads have restarted.
ListEmpty == InPeriodic => toRelease = {}

\* synchronize(): no core enters the barrier twice.
EntersOnce == fault # "already in the barrier"

BarrierInv ==
  /\ TypeOK /\ EntriesWait /\ ListsWait /\ WaitersRun /\ OnlyRunning /\ OwnCore
  /\ CallerEntered /\ NoEntries /\ ClocksOfEntries /\ ListEmpty /\ ReleaseGoesOn /\ EntersOnce

\* Without Disable, a clock is at the barrier only while the core is entered.
ClocksEntered == ~ Disables => \A c \in Cores : ahead[c] >= 0 => c \in acquire

\* Without pre-emption, threads wait on the cores they are on, and the clocks of
\* the cores on the list are below the barrier.
StayOnCores ==
  ~ Preempts =>
    /\ \A t \in Threads : place[t] # None => coreOf[t] = place[t]
    /\ \A c \in toRelease : ahead[c] = -1
    /\ fault = "none"

-----------------------------------------------------------------------------
(* Releasing threads                                                       *)

\* doRelease(n) takes somebody if the list is not empty and n is not 0.
LEMMA Chosen ==
  ASSUME NEW n \in Nat, NEW to, IsFiniteSet(to), NEW R \in kSubset(Min({n, Cardinality(to)}), to)
  PROVE  R \in SUBSET to /\ (n >= 1 /\ to # {} => R # {})
  <1> DEFINE m == Min({n, Cardinality(to)})
  <1>1. R \in SUBSET to /\ Cardinality(R) = m
    BY Zenon DEF kSubset
  <1>2. Cardinality(to) \in Nat /\ (to # {} => Cardinality(to) # 0)
    BY FS_CardinalityType, FS_EmptySet, Zenon
  <1>3. m \in {n, Cardinality(to)}
    <2> DEFINE k == Cardinality(to)
    <2>1. k \in Nat
      BY <1>2, Zenon
    <2> HIDE DEF k
    <2>2. m = CHOOSE x \in {n, k} : \A y \in {n, k} : x <= y
      BY Zenon DEF k, Min
    <2>3. \E x \in {n, k} : \A y \in {n, k} : x <= y
      <3>1. CASE n <= k
        BY <2>1, <3>1
      <3>2. CASE k <= n
        BY <2>1, <3>2
      <3> QED BY <2>1, <3>1, <3>2
    <2>4. m \in {n, k}
      BY <2>2, <2>3, Zenon
    <2> QED BY <2>4, Zenon DEF k
  <1>4. R = {} => Cardinality(R) = 0
    BY FS_EmptySet, Zenon
  <1> HIDE DEF m
  <1> QED BY <1>1, <1>2, <1>3, <1>4

\* The types, and the state of the caller.
LEMMA InvFacts ==
  ASSUME BarrierInv
  PROVE  /\ place \in [Threads -> Cores \cup {None}] /\ coreOf \in [Threads -> Cores \cup {None}]
         /\ status \in [Threads -> {"RUNNING", "STALLED", "IDLE"}]
         /\ ahead \in [Cores -> -1 .. MaxAhead] /\ acquire \subseteq Cores
         /\ coreThread \in [Cores -> Threads \cup {None}] /\ toRelease \subseteq Cores
         /\ caller \in Threads \cup {None}
         /\ None \notin Cores /\ None \notin Threads /\ MaxAhead \in Nat
         /\ IsFiniteSet(toRelease) /\ IsFiniteSet(acquire)
  <1>1. IsFiniteSet(Cores) /\ None \notin Cores /\ None \notin Threads /\ MaxAhead \in Nat
    BY BarrierAssumption, Zenon
  <1>2. acquire \subseteq Cores /\ toRelease \subseteq Cores
    BY Zenon DEF BarrierInv, TypeOK
  <1>3. IsFiniteSet(toRelease) /\ IsFiniteSet(acquire)
    BY <1>1, <1>2, FS_Subset, Zenon
  <1> QED BY <1>1, <1>2, <1>3, Zenon DEF BarrierInv, TypeOK

\* Who waits for the list waits on the core, and is neither the caller nor the
\* thread that is entered for a core.
LEMMA HeldFacts ==
  ASSUME BarrierInv, NEW c \in Cores
  PROVE  /\ \A t \in Held(c) : t \in Threads /\ place[t] = c /\ t # caller
         /\ \A t \in Held(c), d \in acquire : coreThread[d] # t
         /\ \A t \in Threads : place[t] = c /\ t # caller =>
              t \in Held(c) \/ (c \in acquire /\ coreThread[c] = t)
  BY InvFacts, Zenon DEF Held, Waiting, BarrierInv, EntriesWait

\* A signal to cores on the list wakes who waits for it.
LEMMA WokenHeld ==
  ASSUME BarrierInv, NEW R \in SUBSET toRelease
  PROVE  \A t : t \in Woken(R) <=> \E c \in R : t \in Held(c)
  <1> DEFINE W(c) == IF Waiting(c) \ {coreThread[c]} = {} THEN Waiting(c)
                     ELSE Waiting(c) \ {coreThread[c]}
  <1>1. ASSUME NEW c \in R PROVE W(c) = Held(c)
    <2>1. PICK u \in Threads : Held(c) = {u}
      BY <1>1, InvFacts, Zenon DEF BarrierInv, ListsWait
    <2> QED BY <2>1, Zenon DEF Held
  <1>2. Woken(R) = UNION {W(c) : c \in R}
    BY Zenon DEF Woken
  <1> HIDE DEF W
  <1>3. \A t : t \in Woken(R) <=> \E c \in R : t \in W(c)
    BY <1>2, Zenon
  <1> QED BY <1>1, <1>3, Zenon

\* A step that releases cores of the list and does nothing else to the barrier.
LEMMA Released ==
  ASSUME BarrierInv, NEW R \in SUBSET toRelease, toRelease' = toRelease \ R,
         place' = [t \in Threads |-> IF t \in Woken(R) THEN None ELSE place[t]],
         UNCHANGED <<acquire, coreThread, caller>>
  PROVE  /\ place' \in [Threads -> Cores \cup {None}] /\ toRelease' \subseteq toRelease
         /\ EntriesWait' /\ ListsWait'
         /\ \A t \in Threads : place'[t] # None => place'[t] = place[t]
         /\ caller # None => place'[caller] = place[caller]
         /\ R # {} => \E w \in Threads : place[w] # None /\ place'[w] = None
  <1>1. \A t : t \in Woken(R) <=> \E c \in R : t \in Held(c)
    BY WokenHeld, Zenon
  <1>2. \A t \in Threads : place'[t] = IF \E c \in R : t \in Held(c) THEN None ELSE place[t]
    BY <1>1, Zenon
  <1>3. place' \in [Threads -> Cores \cup {None}]
    BY InvFacts, Zenon
  <1>4. EntriesWait'
    <2> SUFFICES ASSUME NEW d \in acquire PROVE coreThread[d] \in Threads /\ place'[coreThread[d]] = d
      BY Zenon DEF EntriesWait
    <2>1. coreThread[d] \in Threads /\ place[coreThread[d]] = d
      BY Zenon DEF BarrierInv, EntriesWait
    <2>2. \A c \in R : coreThread[d] \notin Held(c)
      BY HeldFacts, InvFacts, Zenon
    <2> QED BY <1>2, <2>1, <2>2, Zenon
  <1>5. caller # None => place'[caller] = place[caller]
    BY <1>2, HeldFacts, InvFacts, Zenon
  <1>6. ASSUME NEW c \in Cores PROVE Held(c)' = IF c \in R THEN {} ELSE Held(c)
    <2>1. Held(c)' = IF c \in acquire /\ coreThread[c] # caller
                     THEN {t \in Threads \ {caller} : place'[t] = c} \ {coreThread[c]}
                     ELSE {t \in Threads \ {caller} : place'[t] = c}
      BY Zenon DEF Held, Waiting
    <2>2. Held(c) = IF c \in acquire /\ coreThread[c] # caller
                    THEN {t \in Threads \ {caller} : place[t] = c} \ {coreThread[c]}
                    ELSE {t \in Threads \ {caller} : place[t] = c}
      BY Zenon DEF Held, Waiting
    <2>3. \A t \in Threads : place'[t] = c <=> place[t] = c /\ ~ (c \in R /\ t \in Held(c))
      BY <1>2, HeldFacts, InvFacts
    <2>4. CASE c \in R
      <3>1. \A t : t \in Held(c)' => t \in Held(c) /\ t \in Threads /\ place'[t] = c
        BY <2>1, <2>2, <2>3, Zenon
      <3> QED BY <2>3, <2>4, <3>1, Zenon
    <2>5. CASE c \notin R
      <3>1. \A t \in Threads : place'[t] = c <=> place[t] = c
        BY <2>3, <2>5, Zenon
      <3> QED BY <2>1, <2>2, <2>5, <3>1, Zenon
    <2> QED BY <2>4, <2>5, Zenon
  <1>7. ListsWait'
    BY <1>6, Zenon DEF BarrierInv, ListsWait
  <1>8. ASSUME NEW c \in R PROVE \E w \in Threads : place[w] # None /\ place'[w] = None
    <2>1. PICK u \in Threads : Held(c) = {u}
      BY <1>8, InvFacts, Zenon DEF BarrierInv, ListsWait
    <2>2. place[u] = c /\ c # None /\ place'[u] = None
      BY <1>2, <1>8, <2>1, HeldFacts, InvFacts
    <2> QED BY <2>2, Zenon
  <1> QED BY <1>2, <1>3, <1>4, <1>5, <1>7, <1>8, Zenon

\* releaseThread() takes the clock of an entry below the barrier, and no other.
LEMMA ZeroedFacts ==
  ASSUME BarrierInv, NEW ts
  PROVE  /\ Zeroed(ts) \in [Cores -> -1 .. MaxAhead]
         /\ \A c \in Cores : Zeroed(ts)[c] = -1 \/ Zeroed(ts)[c] = ahead[c]
         /\ \A c \in acquire : /\ coreThread[c] \in ts => Zeroed(ts)[c] = -1
                               /\ coreThread[c] \notin ts => Zeroed(ts)[c] = ahead[c]
         /\ \A c \in Cores \ acquire : Zeroed(ts)[c] = ahead[c]
  <1>1. ahead \in [Cores -> -1 .. MaxAhead] /\ acquire \subseteq Cores /\ MaxAhead \in Nat
    BY InvFacts, Zenon
  <1>2. \A c \in Cores : Zeroed(ts)[c] = IF c \in acquire /\ coreThread[c] \in ts THEN -1 ELSE ahead[c]
    BY Zenon DEF Zeroed
  <1>3. Zeroed(ts) \in [Cores -> -1 .. MaxAhead]
    BY <1>1 DEF Zeroed
  <1> QED BY <1>1, <1>2, <1>3, Zenon

\* A step that moves threads and releases cores of the list: what it keeps.
LEMMA Moved ==
  ASSUME BarrierInv, NEW R \in SUBSET toRelease, toRelease' = toRelease \ R,
         place' = [t \in Threads |-> IF t \in Woken(R) THEN None ELSE place[t]],
         UNCHANGED <<acquire, coreThread, caller>>,
         \A t \in Threads : place[t] # None => status'[t] = "RUNNING",
         \A c \in acquire : ahead'[c] >= 0 =>
           ahead'[c] = ahead[c] /\ coreOf'[coreThread[c]] = coreOf[coreThread[c]]
  PROVE  /\ place' \in [Threads -> Cores \cup {None}] /\ toRelease' \subseteq toRelease
         /\ EntriesWait' /\ ListsWait' /\ WaitersRun'
         /\ \A c \in acquire : ahead'[c] >= 0 => coreOf'[coreThread[c]] = c
         /\ caller # None => place'[caller] = place[caller]
         /\ R # {} => \E w \in Threads : place'[w] = None /\ status'[w] = "RUNNING"
         /\ \A t \in Threads : place'[t] # None => place'[t] = place[t]
  <1>1. /\ place' \in [Threads -> Cores \cup {None}] /\ toRelease' \subseteq toRelease
        /\ EntriesWait' /\ ListsWait'
        /\ \A t \in Threads : place'[t] # None => place'[t] = place[t]
        /\ caller # None => place'[caller] = place[caller]
        /\ R # {} => \E w \in Threads : place[w] # None /\ place'[w] = None
    BY Released, Zenon
  <1>2. WaitersRun'
    BY <1>1, Zenon DEF WaitersRun
  <1>3. \A c \in acquire : ahead'[c] >= 0 => coreOf'[coreThread[c]] = c
    BY Zenon DEF BarrierInv, ClocksOfEntries
  <1> QED BY <1>1, <1>2, <1>3, Zenon

-----------------------------------------------------------------------------
(* Threads stop, are resumed and moved                                     *)

\* A thread that runs, or one without a core, is not entered outside
\* barrierRelease().
LEMMA NotEntered ==
  ASSUME BarrierInv, NEW t \in Threads
  PROVE  /\ place[t] = None => \A c \in acquire : coreThread[c] # t
         /\ pc = "idle" /\ coreOf[t] = None => \A c \in acquire : coreThread[c] # t
  <1>1. place[t] = None => \A c \in acquire : coreThread[c] # t
    BY InvFacts, Zenon DEF BarrierInv, EntriesWait
  <1>2. pc = "idle" /\ coreOf[t] = None => \A c \in acquire : coreThread[c] # t
    BY InvFacts, Zenon DEF BarrierInv, ClocksOfEntries
  <1> QED BY <1>1, <1>2, Zenon

LEMMA StopRunningFacts ==
  ASSUME BarrierInv, NEW t \in Threads, NEW u \in Threads \cup {None},
         NEW how \in {"STALLED", "IDLE"}, StopRunning(t, u, how), caller' = None
  PROVE  /\ LockFree /\ caller = None
         /\ status' \in [Threads -> {"RUNNING", "STALLED", "IDLE"}]
         /\ coreOf' \in [Threads -> Cores \cup {None}]
         /\ place' \in [Threads -> Cores \cup {None}]
         /\ ahead' \in [Cores -> -1 .. MaxAhead]
         /\ \A c \in Cores : ahead'[c] = -1 \/ ahead'[c] = ahead[c]
         /\ toRelease' \subseteq toRelease
         /\ UNCHANGED <<acquire, coreThread, disable>>
         /\ EntriesWait' /\ ListsWait' /\ WaitersRun' /\ OnlyRunning' /\ OwnCore'
         /\ \A c \in acquire : coreOf'[coreThread[c]] = c /\ ahead'[c] >= 0
         /\ \A c \in acquire : status'[coreThread[c]] = "RUNNING"
         /\ toRelease' # {} => \E w \in Threads : place'[w] = None /\ status'[w] = "RUNNING"
         /\ \A x \in Threads : place[x] # None => status'[x] = "RUNNING"
         /\ \A x \in Threads : place[x] # None /\ coreOf[x] # None => coreOf'[x] = coreOf[x]
         /\ \A x \in Threads : place'[x] # None => place'[x] = place[x]
  <1> DEFINE c0 == coreOf[t]
             n == 1 + (IF c0 = None THEN 0 ELSE 1) + (IF u = None THEN 0 ELSE 1)
  <1>1. /\ LockFree /\ Executes(t)
        /\ u # None => c0 # None /\ u # t /\ coreOf[u] = None /\ status[u] # "IDLE"
        /\ status' = [s \in Threads |-> IF s = t THEN how
                                        ELSE IF s = u THEN "RUNNING" ELSE status[s]]
        /\ coreOf' = [s \in Threads |-> IF s = t THEN None
                                        ELSE IF s = u THEN c0 ELSE coreOf[s]]
        /\ doRelease(n, toRelease, << >>, {})
        /\ ahead' = Zeroed({t, u})
        /\ UNCHANGED <<acquire, coreThread, disable>>
    BY Zenon DEF StopRunning
  <1>2. n \in Nat /\ n >= 1
    OBVIOUS
  <1> HIDE DEF n
  <1>3. PICK R \in kSubset(Min({n, Cardinality(toRelease)}), toRelease) :
          /\ toRelease' = toRelease \ R
          /\ place' = [x \in Threads |-> IF x \in Woken(R) THEN None ELSE place[x]]
    BY <1>1 DEF doRelease
  <1>4. R \in SUBSET toRelease /\ (toRelease # {} => R # {})
    BY <1>2, <1>3, Chosen, InvFacts
  <1>5. pc = "idle" /\ caller = None /\ place[t] = None /\ status[t] = "RUNNING"
    BY <1>1, Zenon DEF LockFree, Executes, BarrierInv, CallerEntered
  <1>6. \A c \in acquire : coreThread[c] # t /\ coreThread[c] # u /\ coreThread[c] \in Threads
    BY <1>1, <1>5, NotEntered, InvFacts, Zenon DEF BarrierInv, EntriesWait
  <1>7. /\ status' \in [Threads -> {"RUNNING", "STALLED", "IDLE"}]
        /\ coreOf' \in [Threads -> Cores \cup {None}]
    BY <1>1, InvFacts, Zenon
  <1>8. /\ ahead' \in [Cores -> -1 .. MaxAhead]
        /\ \A c \in Cores : ahead'[c] = -1 \/ ahead'[c] = ahead[c]
        /\ \A c \in acquire : ahead'[c] = ahead[c]
    BY <1>1, <1>6, ZeroedFacts
  <1>9. \A x \in Threads : place[x] # None => status'[x] = "RUNNING"
    BY <1>1, <1>5, Zenon DEF BarrierInv, WaitersRun
  <1>10. \A c \in acquire : coreOf'[coreThread[c]] = coreOf[coreThread[c]]
    BY <1>1, <1>6, Zenon
  <1>11. /\ place' \in [Threads -> Cores \cup {None}] /\ toRelease' \subseteq toRelease
         /\ EntriesWait' /\ ListsWait' /\ WaitersRun'
         /\ \A c \in acquire : ahead'[c] >= 0 => coreOf'[coreThread[c]] = c
         /\ R # {} => \E w \in Threads : place'[w] = None /\ status'[w] = "RUNNING"
         /\ \A x \in Threads : place'[x] # None => place'[x] = place[x]
    BY <1>1, <1>3, <1>4, <1>5, <1>8, <1>9, <1>10, Moved, Zenon
  <1>12. OnlyRunning'
    BY <1>1, <1>5, Zenon DEF BarrierInv, OnlyRunning
  <1>13. OwnCore'
    BY <1>1, Zenon DEF BarrierInv, OwnCore
  <1>14. \A c \in acquire : coreOf'[coreThread[c]] = c /\ ahead'[c] >= 0
    BY <1>5, <1>8, <1>11, Zenon DEF BarrierInv, ClocksOfEntries
  <1>15. \A c \in acquire : status'[coreThread[c]] = "RUNNING"
    BY <1>6, <1>9, InvFacts DEF BarrierInv, EntriesWait
  <1>16. \A x \in Threads : place[x] # None /\ coreOf[x] # None => coreOf'[x] = coreOf[x]
    BY <1>1, <1>5, InvFacts, Zenon
  <1> QED BY <1>1, <1>4, <1>5, <1>7, <1>8, <1>9, <1>11, <1>12, <1>13, <1>14, <1>15, <1>16, Zenon

LEMMA ExitKeeps ==
  ASSUME BarrierInv, NEW t \in Threads, NEW u \in Threads \cup {None}, Exit(t, u)
  PROVE  BarrierInv'
  <1>1. StopRunning(t, u, "IDLE") /\ CheckBarrier(status', coreOf', ahead', None)
    BY Zenon DEF Exit
  <1>2. LockFree /\ caller = None /\ pc = "idle" /\ fault = "none"
    BY <1>1, Zenon DEF StopRunning, LockFree, BarrierInv, CallerEntered
  <1>3. /\ caller' = None /\ pc' \in {"idle", "release"}
        /\ fault' \in {"none", "threads have not restarted"}
        /\ pc' = "release" /\ fault' = "none" => toRelease' = {}
    BY <1>1, <1>2, Zenon DEF CheckBarrier, EnterRelease
  <1> HIDE DEF CheckBarrier
  <1>4. /\ status' \in [Threads -> {"RUNNING", "STALLED", "IDLE"}]
        /\ coreOf' \in [Threads -> Cores \cup {None}]
        /\ place' \in [Threads -> Cores \cup {None}]
        /\ ahead' \in [Cores -> -1 .. MaxAhead]
        /\ toRelease' \subseteq toRelease
        /\ UNCHANGED <<acquire, coreThread, disable>>
        /\ EntriesWait' /\ ListsWait' /\ WaitersRun' /\ OnlyRunning' /\ OwnCore'
        /\ \A c \in acquire : coreOf'[coreThread[c]] = c /\ ahead'[c] >= 0
        /\ toRelease' # {} => \E w \in Threads : place'[w] = None /\ status'[w] = "RUNNING"
    BY <1>1, <1>3, StopRunningFacts, Zenon
  <1>5. TypeOK'
    BY <1>3, <1>4, Zenon DEF BarrierInv, TypeOK
  <1>6. CallerEntered' /\ ClocksOfEntries'
    BY <1>3, <1>4, Zenon DEF CallerEntered, ClocksOfEntries
  <1>7. NoEntries'
    BY <1>2, <1>3, <1>4, Zenon DEF BarrierInv, NoEntries
  <1>8. ListEmpty' /\ ReleaseGoesOn' /\ EntersOnce'
    BY <1>3, <1>4, Zenon DEF ListEmpty, InPeriodic, ReleaseGoesOn, LockFree, Executes, EntersOnce
  <1> QED BY <1>4, <1>5, <1>6, <1>7, <1>8, Zenon DEF BarrierInv

LEMMA StallKeeps ==
  ASSUME BarrierInv, NEW t \in Threads, NEW u \in Threads \cup {None}, Stall(t, u)
  PROVE  BarrierInv'
  <1>1. /\ StopRunning(t, u, "STALLED")
        /\ IF anyThreadRunning(status')
           THEN CheckBarrier(status', coreOf', ahead', None)
           ELSE EnterRelease("advance", None)
    BY Zenon DEF Stall
  <1>2. LockFree /\ caller = None /\ pc = "idle" /\ fault = "none"
    BY <1>1, Zenon DEF StopRunning, LockFree, BarrierInv, CallerEntered
  <1>3. /\ caller' = None /\ pc' \in {"idle", "release", "advance"}
        /\ fault' \in {"none", "threads have not restarted"}
        /\ pc' # "idle" /\ fault' = "none" => toRelease' = {}
        /\ pc' = "advance" => ~ \E x \in Threads : status'[x] = "RUNNING"
    BY <1>1, <1>2, Zenon DEF CheckBarrier, EnterRelease, anyThreadRunning
  <1>4. /\ status' \in [Threads -> {"RUNNING", "STALLED", "IDLE"}]
        /\ coreOf' \in [Threads -> Cores \cup {None}]
        /\ place' \in [Threads -> Cores \cup {None}]
        /\ ahead' \in [Cores -> -1 .. MaxAhead]
        /\ toRelease' \subseteq toRelease
        /\ UNCHANGED <<acquire, coreThread, disable>>
        /\ EntriesWait' /\ ListsWait' /\ WaitersRun' /\ OnlyRunning' /\ OwnCore'
        /\ \A c \in acquire : coreOf'[coreThread[c]] = c /\ ahead'[c] >= 0
        /\ \A c \in acquire : status'[coreThread[c]] = "RUNNING"
        /\ toRelease' # {} => \E w \in Threads : place'[w] = None /\ status'[w] = "RUNNING"
    BY <1>1, <1>3, StopRunningFacts, Zenon
  <1>5. TypeOK'
    BY <1>3, <1>4, Zenon DEF BarrierInv, TypeOK
  <1>6. CallerEntered' /\ ClocksOfEntries'
    BY <1>3, <1>4, Zenon DEF CallerEntered, ClocksOfEntries
  <1>7. NoEntries'
    <2>1. \A c \in acquire : coreThread[c] \in Threads
      BY Zenon DEF BarrierInv, EntriesWait
    <2>2. pc' = "advance" => acquire = {}
      <3>1. \A c \in acquire : status'[coreThread[c]] = "RUNNING"
        BY <1>4, Zenon
      <3>2. pc' = "advance" => ~ \E x \in Threads : status'[x] = "RUNNING"
        BY <1>3, Zenon
      <3> QED BY <2>1, <3>1, <3>2, Zenon
    <2>3. disable => acquire = {}
      BY Zenon DEF BarrierInv, NoEntries
    <2> QED BY <1>4, <2>2, <2>3, Zenon DEF NoEntries
  <1>8. ListEmpty' /\ ReleaseGoesOn' /\ EntersOnce'
    BY <1>3, <1>4, Zenon DEF ListEmpty, InPeriodic, ReleaseGoesOn, LockFree, Executes, EntersOnce
  <1> QED BY <1>4, <1>5, <1>6, <1>7, <1>8, Zenon DEF BarrierInv

\* Threads that are resumed, pre-empted and dispatched: the parts that these
\* steps share.  They leave the barrier and its caller alone.
LEMMA MovingKeeps ==
  ASSUME BarrierInv, fault = "none", NEW R \in SUBSET toRelease, toRelease' = toRelease \ R,
         place' = [x \in Threads |-> IF x \in Woken(R) THEN None ELSE place[x]],
         UNCHANGED <<acquire, coreThread, disable, pc, caller, fault>>,
         status' \in [Threads -> {"RUNNING", "STALLED", "IDLE"}],
         coreOf' \in [Threads -> Cores \cup {None}], ahead' \in [Cores -> -1 .. MaxAhead],
         OnlyRunning', OwnCore',
         \A x \in Threads : status[x] = "RUNNING" => status'[x] = "RUNNING",
         \A c \in acquire : ahead'[c] >= 0 =>
           ahead'[c] = ahead[c] /\ coreOf'[coreThread[c]] = coreOf[coreThread[c]],
         pc = "idle" => \A c \in acquire : ahead'[c] = ahead[c],
         pc = "idle" => \E x \in Threads : Executes(x)
  PROVE  BarrierInv'
  <1>2. \A x \in Threads : place[x] # None => status'[x] = "RUNNING"
    BY Zenon DEF BarrierInv, WaitersRun
  <1>3. /\ place' \in [Threads -> Cores \cup {None}] /\ toRelease' \subseteq toRelease
        /\ EntriesWait' /\ ListsWait' /\ WaitersRun'
        /\ \A c \in acquire : ahead'[c] >= 0 => coreOf'[coreThread[c]] = c
        /\ caller # None => place'[caller] = place[caller]
    BY <1>2, Moved, Zenon
  <1>4. TypeOK'
    BY <1>3, Zenon DEF BarrierInv, TypeOK
  <1>5. CallerEntered'
    BY <1>3 DEF BarrierInv, CallerEntered
  <1>6. ClocksOfEntries'
    BY <1>3, Zenon DEF BarrierInv, ClocksOfEntries
  <1>7. NoEntries'
    BY Zenon DEF BarrierInv, NoEntries
  <1>8. ListEmpty'
    BY <1>3, Zenon DEF BarrierInv, ListEmpty, InPeriodic
  <1>9. ReleaseGoesOn'
    <2>1. \A x \in Threads : Executes(x) => Executes(x)'
      <3>1. \A x \in Threads : place[x] = None => place'[x] = None
        BY Zenon
      <3> QED BY <3>1, Zenon DEF Executes
    <2> QED BY <2>1, Zenon DEF ReleaseGoesOn, LockFree
  <1>10. EntersOnce'
    BY Zenon DEF BarrierInv, EntersOnce
  <1> QED BY <1>3, <1>4, <1>5, <1>6, <1>7, <1>8, <1>9, <1>10, Zenon DEF BarrierInv

LEMMA ResumeKeeps ==
  ASSUME BarrierInv, NEW t \in Threads, NEW c \in Cores \cup {None}, Resume(t, c)
  PROVE  BarrierInv'
  <1> DEFINE n == IF c = None THEN 0 ELSE 1
  <1>1. /\ fault = "none" /\ (pc = "idle" => \E u \in Threads : Executes(u))
        /\ status[t] = "STALLED" /\ (c # None => c \in FreeCores)
        /\ status' = [status EXCEPT ![t] = "RUNNING"]
        /\ coreOf' = [coreOf EXCEPT ![t] = c]
        /\ doRelease(n, toRelease, << >>, {})
        /\ ahead' = IF c = None THEN ahead ELSE Zeroed({t})
        /\ UNCHANGED <<acquire, coreThread, disable, pc, caller, fault>>
    BY Zenon DEF Resume
  <1>2. n \in Nat
    BY Zenon
  <1> HIDE DEF n
  <1>3. PICK R \in kSubset(Min({n, Cardinality(toRelease)}), toRelease) :
          /\ toRelease' = toRelease \ R
          /\ place' = [x \in Threads |-> IF x \in Woken(R) THEN None ELSE place[x]]
    BY <1>1 DEF doRelease
  <1>4. place[t] = None /\ coreOf[t] = None
    BY <1>1, Zenon DEF BarrierInv, WaitersRun, OnlyRunning
  <1>5. \A d \in acquire : coreThread[d] # t /\ coreThread[d] \in Threads
    BY <1>4, NotEntered, Zenon DEF BarrierInv, EntriesWait
  <1>6. /\ status' \in [Threads -> {"RUNNING", "STALLED", "IDLE"}]
        /\ coreOf' \in [Threads -> Cores \cup {None}]
        /\ \A x \in Threads : status[x] = "RUNNING" => status'[x] = "RUNNING"
        /\ \A x \in Threads : x # t => coreOf'[x] = coreOf[x] /\ status'[x] = status[x]
        /\ coreOf'[t] = c /\ status'[t] = "RUNNING"
    BY <1>1, InvFacts, Zenon
  <1>7. ahead' \in [Cores -> -1 .. MaxAhead] /\ \A d \in acquire : ahead'[d] = ahead[d]
    <2>1. CASE c = None
      BY <1>1, <2>1, InvFacts, Zenon
    <2>2. CASE c # None
      <3>1. ahead' = Zeroed({t}) /\ \A d \in acquire : coreThread[d] \notin {t}
        BY <1>1, <1>5, <2>2, Zenon
      <3> QED BY <3>1, ZeroedFacts, Zenon
    <2> QED BY <2>1, <2>2, Zenon
  <1>8. OnlyRunning'
    BY <1>6, Zenon DEF BarrierInv, OnlyRunning
  <1>9. OwnCore'
    BY <1>1, <1>6 DEF BarrierInv, OwnCore, FreeCores
  <1>10. \A d \in acquire : coreOf'[coreThread[d]] = coreOf[coreThread[d]]
    BY <1>5, <1>6, Zenon
  <1>11. R \in SUBSET toRelease
    BY <1>2, <1>3, Chosen, InvFacts, Zenon
  <1> QED BY <1>1, <1>3, <1>6, <1>7, <1>8, <1>9, <1>10, <1>11, MovingKeeps, Zenon

LEMMA PreemptKeeps ==
  ASSUME BarrierInv, NEW t \in Threads, Preempt(t)
  PROVE  BarrierInv'
  <1>1. /\ pc # "idle" /\ fault = "none" /\ status[t] = "RUNNING"
        /\ coreOf' = [coreOf EXCEPT ![t] = None]
        /\ doRelease(1, toRelease, << >>, {})
        /\ ahead' = Zeroed({t})
        /\ UNCHANGED <<status, acquire, coreThread, disable, pc, caller, fault>>
    BY Zenon DEF Preempt, InPeriodic
  <1>3. PICK R \in kSubset(Min({1, Cardinality(toRelease)}), toRelease) :
          /\ toRelease' = toRelease \ R
          /\ place' = [x \in Threads |-> IF x \in Woken(R) THEN None ELSE place[x]]
    BY <1>1 DEF doRelease
  <1>4. /\ coreOf' \in [Threads -> Cores \cup {None}]
        /\ \A x \in Threads : x # t => coreOf'[x] = coreOf[x]
        /\ coreOf'[t] = None
    BY <1>1, InvFacts, Zenon
  <1>5. /\ ahead' \in [Cores -> -1 .. MaxAhead]
        /\ \A d \in acquire : ahead'[d] >= 0 => ahead'[d] = ahead[d] /\ coreThread[d] # t
    BY <1>1, ZeroedFacts
  <1>6. \A d \in acquire : coreThread[d] \in Threads
    BY Zenon DEF BarrierInv, EntriesWait
  <1>7. OnlyRunning'
    BY <1>1, <1>4, Zenon DEF BarrierInv, OnlyRunning
  <1>8. OwnCore'
    BY <1>4, Zenon DEF BarrierInv, OwnCore
  <1>9. \A d \in acquire : ahead'[d] >= 0 =>
          ahead'[d] = ahead[d] /\ coreOf'[coreThread[d]] = coreOf[coreThread[d]]
    BY <1>4, <1>5, <1>6, Zenon
  <1>10. status' \in [Threads -> {"RUNNING", "STALLED", "IDLE"}]
    BY <1>1, InvFacts, Zenon
  <1>11. R \in SUBSET toRelease
    BY <1>3, Chosen, InvFacts
  <1> QED BY <1>1, <1>3, <1>4, <1>5, <1>7, <1>8, <1>9, <1>10, <1>11, MovingKeeps, Zenon

LEMMA DispatchKeeps ==
  ASSUME BarrierInv, NEW t \in Threads, NEW c \in Cores, Dispatch(t, c)
  PROVE  BarrierInv'
  <1>1. /\ pc # "idle" /\ fault = "none" /\ status[t] = "RUNNING" /\ coreOf[t] = None
        /\ c \in FreeCores
        /\ coreOf' = [coreOf EXCEPT ![t] = c]
        /\ doRelease(1, toRelease, << >>, {})
        /\ ahead' = Zeroed({t})
        /\ UNCHANGED <<status, acquire, coreThread, disable, pc, caller, fault>>
    BY Zenon DEF Dispatch, InPeriodic
  <1>3. PICK R \in kSubset(Min({1, Cardinality(toRelease)}), toRelease) :
          /\ toRelease' = toRelease \ R
          /\ place' = [x \in Threads |-> IF x \in Woken(R) THEN None ELSE place[x]]
    BY <1>1 DEF doRelease
  <1>4. /\ coreOf' \in [Threads -> Cores \cup {None}]
        /\ \A x \in Threads : x # t => coreOf'[x] = coreOf[x]
        /\ coreOf'[t] = c
    BY <1>1, InvFacts, Zenon
  <1>5. /\ ahead' \in [Cores -> -1 .. MaxAhead]
        /\ \A d \in acquire : ahead'[d] >= 0 => ahead'[d] = ahead[d] /\ coreThread[d] # t
    BY <1>1, ZeroedFacts
  <1>6. \A d \in acquire : coreThread[d] \in Threads
    BY Zenon DEF BarrierInv, EntriesWait
  <1>7. OnlyRunning'
    BY <1>1, <1>4, Zenon DEF BarrierInv, OnlyRunning
  <1>8. OwnCore'
    BY <1>1, <1>4, Zenon DEF BarrierInv, OwnCore, FreeCores
  <1>9. \A d \in acquire : ahead'[d] >= 0 =>
          ahead'[d] = ahead[d] /\ coreOf'[coreThread[d]] = coreOf[coreThread[d]]
    BY <1>4, <1>5, <1>6, Zenon
  <1>10. status' \in [Threads -> {"RUNNING", "STALLED", "IDLE"}]
    BY <1>1, InvFacts, Zenon
  <1>11. R \in SUBSET toRelease
    BY <1>3, Chosen, InvFacts
  <1> QED BY <1>1, <1>3, <1>4, <1>5, <1>7, <1>8, <1>9, <1>10, <1>11, MovingKeeps, Zenon

-----------------------------------------------------------------------------
(* Entering the barrier, and switching it off and on                       *)

\* A thread that runs on an entered core outside barrierRelease() is the entered
\* one, and that one waits.
LEMMA FreeToEnter ==
  ASSUME BarrierInv, LockFree, NEW t \in Threads, Executes(t), coreOf[t] # None
  PROVE  coreOf[t] \notin acquire
  <1>1. \A c \in acquire : coreThread[c] \in Threads /\ place[coreThread[c]] = c /\ coreOf[coreThread[c]] = c
    BY Zenon DEF BarrierInv, EntriesWait, ClocksOfEntries, LockFree
  <1> QED BY <1>1, InvFacts, Zenon DEF Executes, BarrierInv, OwnCore

LEMMA SynchronizeKeeps ==
  ASSUME BarrierInv, NEW t \in Threads, NEW a \in 0 .. MaxAhead, Synchronize(t, a)
  PROVE  BarrierInv'
  <1> DEFINE c == coreOf[t]
  <1>1. LockFree /\ Executes(t) /\ c # None /\ ~ disable
    BY Zenon DEF Synchronize
  <1>2. c \in Cores /\ c \notin acquire
    BY <1>1, FreeToEnter, InvFacts, Zenon
  <1>3. /\ doRelease(1, toRelease, [u \in {t} |-> c], {})
        /\ ahead' = [ahead EXCEPT ![c] = a]
        /\ acquire' = acquire \cup {c}
        /\ coreThread' = [coreThread EXCEPT ![c] = t]
        /\ CheckBarrier(status, coreOf, ahead', t)
        /\ UNCHANGED <<status, coreOf, disable>>
    BY <1>2, Zenon DEF Synchronize, threadVars
  <1>4. pc = "idle" /\ fault = "none" /\ caller = None /\ place[t] = None /\ status[t] = "RUNNING"
    BY <1>1, Zenon DEF LockFree, Executes, BarrierInv, CallerEntered
  <1>5. \/ pc' = "idle" /\ caller' = None /\ fault' = "none"
        \/ /\ pc' = "release" /\ caller' = t
           /\ fault' \in {"none", "threads have not restarted"}
           /\ fault' = "none" => toRelease' = {}
    BY <1>3, <1>4, Zenon DEF CheckBarrier, EnterRelease
  <1>6. PICK R \in kSubset(Min({1, Cardinality(toRelease)}), toRelease) :
          /\ toRelease' = toRelease \ R
          /\ place' = [x \in Threads |-> IF x \in Woken(R) THEN None
                                         ELSE IF x = t THEN c ELSE place[x]]
    BY <1>3, Zenon DEF doRelease
  <1>7. R \in SUBSET toRelease /\ (toRelease # {} => R # {})
    BY <1>6, Chosen, InvFacts
  <1>8. \A x : x \in Woken(R) <=> \E d \in R : x \in Held(d)
    BY <1>7, WokenHeld, Zenon
  <1> HIDE DEF c
  <1>9. \A d \in Cores : t \notin Held(d)
    BY <1>4, HeldFacts, InvFacts, Zenon
  <1>10. /\ place' \in [Threads -> Cores \cup {None}] /\ place'[t] = c
         /\ \A x \in Threads : x # t =>
              place'[x] = IF \E d \in R : x \in Held(d) THEN None ELSE place[x]
    BY <1>2, <1>6, <1>7, <1>8, <1>9, InvFacts, Zenon
  <1>11. /\ ahead' \in [Cores -> -1 .. MaxAhead] /\ ahead'[c] = a
         /\ coreThread' \in [Cores -> Threads \cup {None}] /\ coreThread'[c] = t
         /\ \A d \in Cores : d # c => ahead'[d] = ahead[d] /\ coreThread'[d] = coreThread[d]
    <2>1. a \in -1 .. MaxAhead
      BY InvFacts
    <2> QED BY <1>2, <1>3, <2>1, InvFacts, Zenon
  <1>12. EntriesWait'
    <2>1. \A d \in acquire : /\ d # c /\ d \in Cores /\ coreThread[d] \in Threads /\ place[coreThread[d]] = d
                             /\ coreThread[d] # t /\ \A e \in R : coreThread[d] \notin Held(e)
      BY <1>2, <1>4, <1>7, HeldFacts, InvFacts, SMTT(30) DEF BarrierInv, EntriesWait
    <2>2. \A d \in acquire : coreThread'[d] \in Threads /\ place'[coreThread'[d]] = d
      BY <1>10, <1>11, <2>1, Zenon
    <2> QED BY <1>3, <1>10, <1>11, <2>2, Zenon DEF EntriesWait
  <1>13. ASSUME NEW d \in Cores PROVE Held(d)' = IF d \in R THEN {} ELSE Held(d)
    <2>1. Held(d)' = IF d \in acquire' /\ coreThread'[d] # caller'
                     THEN {x \in Threads \ {caller'} : place'[x] = d} \ {coreThread'[d]}
                     ELSE {x \in Threads \ {caller'} : place'[x] = d}
      BY Zenon DEF Held, Waiting
    <2>2. Held(d) = IF d \in acquire THEN {x \in Threads : place[x] = d} \ {coreThread[d]}
                    ELSE {x \in Threads : place[x] = d}
      <3>1. d \in acquire => coreThread[d] # caller
        BY <1>4, InvFacts, Zenon DEF BarrierInv, EntriesWait
      <3>2. Threads \ {caller} = Threads
        BY <1>4, InvFacts, Zenon
      <3> QED BY <3>1, <3>2, Zenon DEF Held, Waiting
    <2>3. \A x \in Threads : x # t => (place'[x] = d <=> place[x] = d /\ ~ (d \in R /\ x \in Held(d)))
      <3>1. \A x \in Threads, e \in R : x \in Held(e) => place[x] = e
        BY <1>7, HeldFacts, InvFacts, Zenon
      <3> QED BY <1>10, <3>1, InvFacts, Zenon
    <2>4. caller' \in {None, t} /\ None \notin Threads
      BY <1>5, InvFacts, Zenon
    <2>5. \A x : x \in Held(d)' <=> x \in Held(d) /\ d \notin R
      <3>1. CASE d = c
        <4>1. \A x : x \in Held(d)' <=> x \in Threads /\ x # t /\ place'[x] = d
          BY <1>3, <1>10, <1>11, <2>1, <2>4, <3>1
        <4>2. \A x : x \in Held(d) <=> x \in Threads /\ x # t /\ place[x] = d
          BY <1>2, <1>4, <2>2, <3>1, InvFacts
        <4> QED BY <2>3, <4>1, <4>2, Zenon
      <3>2. CASE d # c
        <4>1. (d \in acquire' <=> d \in acquire) /\ coreThread'[d] = coreThread[d] /\ place'[t] # d
          BY <1>3, <1>10, <1>11, <3>2, Zenon
        <4>2. d \in acquire => coreThread[d] # t /\ coreThread[d] # None
          BY <1>4, NotEntered, InvFacts, Zenon DEF BarrierInv, EntriesWait
        <4>3. \A x : x \in Held(d)' <=> /\ x \in Threads /\ x # t /\ place'[x] = d
                                        /\ d \in acquire => x # coreThread[d]
          BY <2>1, <2>4, <4>1, <4>2, Zenon
        <4>4. \A x : x \in Held(d) <=> /\ x \in Threads /\ x # t /\ place[x] = d
                                       /\ d \in acquire => x # coreThread[d]
          BY <1>4, <2>2, InvFacts
        <4> QED BY <2>3, <4>3, <4>4, Zenon
      <3> QED BY <3>1, <3>2, Zenon
    <2> QED BY <2>5, Zenon
  <1>14. ListsWait'
    BY <1>6, <1>13, Zenon DEF BarrierInv, ListsWait
  <1>15. TypeOK'
    <2>1. pc' \in {"idle", "release", "advance"} /\ caller' \in Threads \cup {None}
      BY <1>5, Zenon
    <2>2. fault' \in {"none", "threads have not restarted", "already in the barrier"}
      BY <1>5, Zenon
    <2>3. acquire' \subseteq Cores /\ toRelease' \subseteq Cores
      BY <1>2, <1>3, <1>6, Zenon DEF BarrierInv, TypeOK
    <2>4. UNCHANGED <<status, coreOf, disable>>
      BY <1>3, Zenon
    <2> QED BY <1>10, <1>11, <2>1, <2>2, <2>3, <2>4, Zenon DEF BarrierInv, TypeOK
  <1>16. WaitersRun'
    BY <1>3, <1>4, <1>10, Zenon DEF BarrierInv, WaitersRun
  <1>17. OnlyRunning' /\ OwnCore'
    BY <1>3, Zenon DEF BarrierInv, OnlyRunning, OwnCore
  <1>18. CallerEntered'
    BY <1>1, <1>2, <1>3, <1>5, <1>10, <1>11, Zenon DEF CallerEntered
  <1>19. NoEntries'
    BY <1>1, <1>3, <1>5, Zenon DEF NoEntries
  <1>20. ClocksOfEntries'
    <2>1. \A d \in acquire : d \in Cores /\ d # c /\ coreOf[coreThread[d]] = d /\ ahead[d] >= 0
      BY <1>2, <1>4, InvFacts, Zenon DEF BarrierInv, ClocksOfEntries
    <2>2. coreOf[t] = c
      BY Zenon DEF c
    <2>3. a >= 0
      OBVIOUS
    <2>4. \A d \in acquire' : coreOf'[coreThread'[d]] = d /\ ahead'[d] >= 0
      BY <1>3, <1>11, <2>1, <2>2, <2>3
    <2> QED BY <2>4, Zenon DEF ClocksOfEntries
  <1>21. ListEmpty' /\ EntersOnce'
    BY <1>5, Zenon DEF ListEmpty, InPeriodic, EntersOnce
  <1>22. ReleaseGoesOn'
    <2> SUFFICES ASSUME toRelease' # {} PROVE \E w \in Threads : Executes(w)'
      BY Zenon DEF ReleaseGoesOn
    <2>1. PICK d \in R : TRUE
      BY <1>6, <1>7, Zenon
    <2>2. PICK u \in Threads : Held(d) = {u}
      BY <1>7, <2>1, InvFacts, Zenon DEF BarrierInv, ListsWait
    <2>3. u # t /\ place[u] # None /\ place'[u] = None
      BY <1>7, <1>9, <1>10, <2>1, <2>2, HeldFacts, InvFacts
    <2> QED BY <1>3, <2>3, Zenon DEF Executes, BarrierInv, WaitersRun
  <1> QED BY <1>12, <1>14, <1>15, <1>16, <1>17, <1>18, <1>19, <1>20, <1>21, <1>22, Zenon DEF BarrierInv

\* abortBarrier() lets one thread of every entered core go.  Where another waits
\* for the list, one of the two is left.
LEMMA DisableKeeps ==
  ASSUME BarrierInv, Disable
  PROVE  BarrierInv'
  <1>1. /\ fault = "none" /\ (pc = "idle" => \E t \in Threads : Executes(t))
        /\ disable' = TRUE /\ acquire' = {}
        /\ place' = [t \in Threads |-> IF t \in Woken(acquire) THEN None ELSE place[t]]
        /\ UNCHANGED <<status, coreOf, ahead, coreThread, toRelease, pc, caller, fault>>
    BY Zenon DEF Disable, threadVars
  <1> DEFINE W(c) == IF Waiting(c) \ {coreThread[c]} = {} THEN Waiting(c)
                     ELSE Waiting(c) \ {coreThread[c]}
  <1>2. \A c : W(c) \subseteq Waiting(c)
    BY Zenon
  <1>3. Woken(acquire) = UNION {W(c) : c \in acquire}
    BY Zenon DEF Woken
  <1>4. ASSUME NEW c \in acquire
        PROVE  IF c \in toRelease THEN \E u \in Threads : Waiting(c) \ W(c) = {u}
               ELSE Waiting(c) \ W(c) = {}
    <2>1. c \in Cores /\ coreThread[c] \in Threads /\ place[coreThread[c]] = c
      BY <1>4, InvFacts, Zenon DEF BarrierInv, EntriesWait
    <2>2. coreThread[c] = caller => toRelease = {}
      BY <1>1, <2>1, InvFacts, Zenon DEF BarrierInv, CallerEntered, ListEmpty, InPeriodic
    <2>3. CASE coreThread[c] = caller
      <3>1. Waiting(c) = {}
        BY <2>1, <2>2, <2>3, Zenon DEF Held, BarrierInv, ListsWait
      <3> QED BY <2>2, <2>3, <3>1, Zenon
    <2>4. CASE coreThread[c] # caller /\ c \in toRelease
      <3>1. PICK u \in Threads : Waiting(c) \ {coreThread[c]} = {u}
        BY <1>4, <2>1, <2>4, Zenon DEF Held, BarrierInv, ListsWait
      <3>2. coreThread[c] \in Waiting(c)
        BY <2>1, <2>4, Zenon DEF Waiting
      <3>3. Waiting(c) \ W(c) = {coreThread[c]}
        BY <3>1, <3>2, Zenon
      <3> QED BY <2>1, <2>4, <3>3, Zenon
    <2>5. CASE coreThread[c] # caller /\ c \notin toRelease
      <3>1. Waiting(c) \ {coreThread[c]} = {}
        BY <1>4, <2>1, <2>5, Zenon DEF Held, BarrierInv, ListsWait
      <3> QED BY <2>5, <3>1, Zenon
    <2> QED BY <2>3, <2>4, <2>5, Zenon
  <1> HIDE DEF W
  <1>5. \A t : t \in Woken(acquire) <=> \E c \in acquire : t \in W(c)
    BY <1>3, Zenon
  <1>6. \A c : \A t \in Waiting(c) : t \in Threads /\ place[t] = c /\ t # caller
    BY Zenon DEF Waiting
  <1>7. \A t \in Threads : place'[t] = IF \E c \in acquire : t \in W(c) THEN None ELSE place[t]
    BY <1>1, <1>5, Zenon
  <1>8. place' \in [Threads -> Cores \cup {None}]
    BY <1>1, InvFacts, Zenon
  <1>9. caller # None => place'[caller] = place[caller]
    BY <1>2, <1>6, <1>7, InvFacts, Zenon
  <1>10. ASSUME NEW c \in Cores
         PROVE  Held(c)' = IF c \in acquire THEN Waiting(c) \ W(c) ELSE Waiting(c)
    <2>1. Held(c)' = {t \in Threads \ {caller} : place'[t] = c}
      BY <1>1, Zenon DEF Held, Waiting
    <2>2. Waiting(c) = {t \in Threads \ {caller} : place[t] = c}
      BY Zenon DEF Waiting
    <2>3. \A t \in Threads : place'[t] = c <=> place[t] = c /\ ~ (c \in acquire /\ t \in W(c))
      BY <1>2, <1>6, <1>7, InvFacts
    <2> QED BY <2>1, <2>2, <2>3, Zenon
  <1>11. ListsWait'
    <2>1. \A c \in Cores \ acquire : Held(c) = Waiting(c)
      BY Zenon DEF Held
    <2> QED BY <1>1, <1>4, <1>10, <2>1, Zenon DEF BarrierInv, ListsWait
  <1>12. TypeOK'
    BY <1>1, <1>8, Zenon DEF BarrierInv, TypeOK
  <1>13. EntriesWait' /\ NoEntries' /\ ClocksOfEntries'
    BY <1>1, Zenon DEF EntriesWait, NoEntries, ClocksOfEntries
  <1>14. WaitersRun'
    BY <1>1, <1>7, Zenon DEF BarrierInv, WaitersRun
  <1>15. OnlyRunning' /\ OwnCore' /\ ListEmpty' /\ EntersOnce'
    BY <1>1, Zenon DEF BarrierInv, OnlyRunning, OwnCore, ListEmpty, InPeriodic, EntersOnce
  <1>16. CallerEntered'
    BY <1>1, <1>9, Zenon DEF BarrierInv, CallerEntered
  <1>17. ReleaseGoesOn'
    <2>1. \A t \in Threads : Executes(t) => Executes(t)'
      BY <1>1, <1>7, Zenon DEF Executes
    <2> QED BY <1>1, <2>1, Zenon DEF ReleaseGoesOn, LockFree
  <1> QED BY <1>11, <1>12, <1>13, <1>14, <1>15, <1>16, <1>17, Zenon DEF BarrierInv

LEMMA EnableKeeps ==
  ASSUME BarrierInv, Enable
  PROVE  BarrierInv'
  <1>1. /\ disable' = FALSE
        /\ UNCHANGED <<status, coreOf, place, ahead, acquire, coreThread, toRelease, pc, caller, fault>>
    BY Zenon DEF Enable, threadVars
  <1>2. EntriesWait' /\ WaitersRun' /\ OnlyRunning' /\ OwnCore' /\ CallerEntered'
    BY <1>1, Zenon DEF BarrierInv, EntriesWait, WaitersRun, OnlyRunning, OwnCore, CallerEntered
  <1>3. ListsWait'
    BY <1>1 DEF BarrierInv, ListsWait, Held, Waiting
  <1>4. ClocksOfEntries' /\ ListEmpty' /\ ReleaseGoesOn' /\ EntersOnce'
    BY <1>1, Zenon DEF BarrierInv, ClocksOfEntries, ListEmpty, InPeriodic, ReleaseGoesOn, LockFree,
                Executes, EntersOnce
  <1>5. NoEntries' /\ TypeOK'
    BY <1>1, Zenon DEF BarrierInv, NoEntries, TypeOK
  <1> QED BY <1>2, <1>3, <1>4, <1>5, Zenon DEF BarrierInv

-----------------------------------------------------------------------------
(* barrierRelease()                                                        *)

LEMMA ReturnEarlyKeeps ==
  ASSUME BarrierInv, ReturnEarly
  PROVE  BarrierInv'
  <1>1. /\ pc # "idle" /\ fault = "none" /\ (pc = "advance" \/ disable)
        /\ pc' = "idle" /\ caller' = None
        /\ place' = IF caller = None THEN place ELSE [place EXCEPT ![caller] = None]
        /\ UNCHANGED <<status, coreOf, ahead, acquire, coreThread, toRelease, disable, fault>>
    BY Zenon DEF ReturnEarly, InPeriodic, threadVars
  <1>2. acquire = {} /\ toRelease = {}
    BY <1>1, Zenon DEF BarrierInv, NoEntries, ListEmpty, InPeriodic
  <1>3. /\ place' \in [Threads -> Cores \cup {None}]
        /\ \A t \in Threads : place'[t] = IF t = caller THEN None ELSE place[t]
    BY <1>1, InvFacts, Zenon
  <1>4. ASSUME NEW c \in Cores PROVE Held(c)' = Held(c)
    <2>1. Held(c)' = {t \in Threads \ {None} : place'[t] = c}
      BY <1>1, <1>2, Zenon DEF Held, Waiting
    <2>2. Held(c) = {t \in Threads \ {caller} : place[t] = c}
      BY <1>2, Zenon DEF Held, Waiting
    <2> QED BY <1>3, <2>1, <2>2, InvFacts
  <1>5. ListsWait'
    BY <1>1, <1>4, Zenon DEF BarrierInv, ListsWait
  <1>6. TypeOK'
    BY <1>1, <1>3, Zenon DEF BarrierInv, TypeOK
  <1>7. EntriesWait' /\ ClocksOfEntries' /\ NoEntries' /\ CallerEntered'
    BY <1>1, <1>2, Zenon DEF EntriesWait, ClocksOfEntries, NoEntries, CallerEntered
  <1>8. WaitersRun' /\ OnlyRunning' /\ OwnCore'
    BY <1>1, <1>3, Zenon DEF BarrierInv, WaitersRun, OnlyRunning, OwnCore
  <1>9. ListEmpty' /\ ReleaseGoesOn' /\ EntersOnce'
    BY <1>1, <1>2, Zenon DEF BarrierInv, ListEmpty, InPeriodic, ReleaseGoesOn, EntersOnce
  <1> QED BY <1>5, <1>6, <1>7, <1>8, <1>9, Zenon DEF BarrierInv

\* The clocks relative to the next barrier time.
LEMMA NextAheadFacts ==
  ASSUME BarrierInv
  PROVE  /\ NextAhead \in [Cores -> -1 .. MaxAhead]
         /\ \A c \in Cores : NextAhead[c] >= 0 => ahead[c] >= 0
         /\ \A c \in Cores : NextAhead[c] = -1 \/ NextAhead[c] >= 0
         /\ Resumed \subseteq acquire
         /\ \A c \in acquire \ Resumed : NextAhead[c] >= 0
         /\ \A c \in Resumed : NextAhead[c] = -1
  <1>1. ahead \in [Cores -> -1 .. MaxAhead] /\ acquire \subseteq Cores /\ MaxAhead \in Nat
    BY InvFacts, Zenon
  <1>2. \A c \in Cores : NextAhead[c] = IF ahead[c] >= 0 THEN ahead[c] - 1 ELSE -1
    BY Zenon DEF NextAhead
  <1>3. \A c \in Cores : NextAhead[c] \in -1 .. MaxAhead
    BY <1>1, <1>2
  <1>4. NextAhead \in [Cores -> -1 .. MaxAhead]
    BY <1>3, Zenon DEF NextAhead
  <1>5. \A c \in Cores : NextAhead[c] >= 0 => ahead[c] >= 0
    BY <1>1, <1>2
  <1>6. \A c \in Cores : NextAhead[c] = -1 \/ NextAhead[c] >= 0
    BY <1>1, <1>3
  <1> QED BY <1>1, <1>4, <1>5, <1>6, Zenon DEF Resumed

LEMMA MoveBarrierKeeps ==
  ASSUME BarrierInv, MoveBarrier
  PROVE  BarrierInv'
  <1>1. /\ pc # "idle" /\ fault = "none" /\ ~ disable
        /\ ahead' = NextAhead /\ acquire' = acquire \ Resumed
        /\ UNCHANGED <<status, coreOf, coreThread, disable, fault>>
    BY Zenon DEF MoveBarrier, MoveTo, InPeriodic, threadVars
  <1>2. toRelease = {} /\ \A c \in Cores : Held(c) = {}
    BY <1>1, Zenon DEF BarrierInv, ListEmpty, InPeriodic, ListsWait
  <1>3. CASE Resumed = {}
    <2>1. UNCHANGED <<place, toRelease, pc, caller>> /\ acquire' = acquire
      BY <1>1, <1>3, Zenon DEF MoveBarrier, MoveTo
    <2>2. TypeOK'
      BY <1>1, <2>1, NextAheadFacts, Zenon DEF BarrierInv, TypeOK
    <2>3. EntriesWait' /\ WaitersRun' /\ OnlyRunning' /\ OwnCore' /\ CallerEntered' /\ NoEntries'
      BY <1>1, <2>1, Zenon DEF BarrierInv, EntriesWait, WaitersRun, OnlyRunning, OwnCore, CallerEntered, NoEntries
    <2>4. ListsWait'
      BY <1>1, <2>1 DEF BarrierInv, ListsWait, Held, Waiting
    <2>5. ClocksOfEntries'
      BY <1>1, <2>1, NextAheadFacts, InvFacts, Zenon DEF BarrierInv, ClocksOfEntries
    <2>6. ListEmpty' /\ ReleaseGoesOn' /\ EntersOnce'
      BY <1>1, <1>2, <2>1, Zenon DEF BarrierInv, ListEmpty, ReleaseGoesOn, EntersOnce
    <2> QED BY <2>2, <2>3, <2>4, <2>5, <2>6, Zenon DEF BarrierInv
  <1>4. CASE Resumed # {}
    <2> DEFINE L == Others(Resumed)
               left == {t \in {caller} : \E c \in Resumed : coreThread[c] = t}
    <2>1. doRelease(HostCores, toRelease \cup L, << >>, left) /\ pc' = "idle" /\ caller' = None
      BY <1>4, Zenon DEF MoveBarrier, MoveTo
    <2>2. toRelease \cup L = L
      BY <1>2, Zenon
    <2>3. PICK R \in kSubset(Min({HostCores, Cardinality(L)}), L) :
            /\ toRelease' = L \ R
            /\ place' = [x \in Threads |-> IF x \in Woken(R) \cup left THEN None ELSE place[x]]
      <3> HIDE DEF L, left
      <3>1. PICK R \in kSubset(Min({HostCores, Cardinality(toRelease \cup L)}), toRelease \cup L) :
              /\ toRelease' = (toRelease \cup L) \ R
              /\ place' = [x \in Threads |-> IF x \in Woken(R) \cup left THEN None ELSE place[x]]
        BY <2>1 DEF doRelease
      <3> QED BY <2>2, <3>1, Zenon
    <2>4. Resumed \subseteq acquire /\ acquire \subseteq Cores
      BY NextAheadFacts, InvFacts, Zenon
    <2>5. \A c : c \in L <=> c \in Resumed /\ coreThread[c] # caller
      BY Zenon DEF Others
    <2>6. IsFiniteSet(L)
      BY <2>4, <2>5, FS_Subset, InvFacts, Zenon
    <2>7. R \in SUBSET L /\ (L # {} => R # {})
      <3> HIDE DEF L
      <3>1. HostCores \in Nat /\ HostCores >= 1
        BY BarrierAssumption
      <3> QED BY <2>3, <2>6, <3>1, Chosen
    <2> HIDE DEF L
    <2>8. \A c \in acquire : coreThread[c] \in Threads /\ place[coreThread[c]] = c
      BY Zenon DEF BarrierInv, EntriesWait
    <2>9. \A x \in Threads, c \in Cores : place[x] = c => c \in acquire /\ x = coreThread[c]
      <3>1. caller # None => place[caller] \in acquire /\ coreThread[place[caller]] = caller
        BY <1>4, <2>4, Zenon DEF BarrierInv, CallerEntered
      <3> QED BY <1>2, <3>1, HeldFacts, InvFacts, Zenon
    <2>10. \A x : x \in Woken(R) <=> \E c \in R : x = coreThread[c]
      <3> DEFINE V(c) == IF Waiting(c) \ {coreThread[c]} = {} THEN Waiting(c)
                         ELSE Waiting(c) \ {coreThread[c]}
      <3>1. \A c \in R : V(c) = {coreThread[c]}
        <4>1. \A c \in R : c \in Cores /\ c \in acquire /\ coreThread[c] # caller
          BY <2>4, <2>5, <2>7, Zenon
        <4>2. \A c \in R : coreThread[c] \in Waiting(c) /\ \A x \in Waiting(c) : x = coreThread[c]
          BY <2>8, <2>9, <4>1, Zenon DEF Waiting
        <4>3. \A c \in R : Waiting(c) = {coreThread[c]}
          BY <4>2, Zenon
        <4> QED BY <4>3, Zenon
      <3>2. Woken(R) = UNION {V(c) : c \in R}
        BY Zenon DEF Woken
      <3> HIDE DEF V
      <3>3. \A x : x \in Woken(R) <=> \E c \in R : x \in V(c)
        BY <3>2, Zenon
      <3> QED BY <3>1, <3>3
    <2>11. \A x \in Threads :
             place'[x] = IF (\E c \in R : x = coreThread[c])
                            \/ (x = caller /\ \E c \in Resumed : coreThread[c] = caller)
                         THEN None ELSE place[x]
      <3>1. \A x \in Threads : x \in left <=> x = caller /\ \E c \in Resumed : coreThread[c] = caller
        BY Zenon
      <3> HIDE DEF left
      <3> QED BY <2>3, <2>10, <3>1, Zenon
    <2>12. place' \in [Threads -> Cores \cup {None}]
      BY <2>3, InvFacts, Zenon
    <2> HIDE DEF left
    <2>13. \A x \in Threads, c \in Cores :
             place'[x] = c <=> /\ c \in acquire /\ x = coreThread[c] /\ c \notin R
                               /\ ~ (c \in Resumed /\ x = caller)
      <3>1. \A c, d \in acquire : coreThread[c] = coreThread[d] => c = d
        BY <2>8, Zenon
      <3>2. R \subseteq acquire
        BY <2>4, <2>5, <2>7, Zenon
      <3>3. ASSUME NEW x \in Threads, NEW c \in Cores, place[x] = c, c \in acquire, x = coreThread[c]
            PROVE  place'[x] = c <=> c \notin R /\ ~ (c \in Resumed /\ x = caller)
        <4>1. (\E d \in R : x = coreThread[d]) <=> c \in R
          BY <3>1, <3>2, <3>3, Zenon
        <4>2. (x = caller /\ \E d \in Resumed : coreThread[d] = caller) <=> c \in Resumed /\ x = caller
          BY <2>4, <3>1, <3>3, Zenon
        <4>3. c # None
          BY InvFacts, Zenon
        <4> QED BY <2>11, <3>3, <4>1, <4>2, <4>3
      <3> QED BY <2>8, <2>9, <2>11, <3>3, InvFacts
    <2>14. \A c \in R : c \in acquire /\ c \in Resumed /\ coreThread[c] # caller
      BY <2>4, <2>5, <2>7, Zenon
    <2>15. EntriesWait'
      BY <1>1, <2>4, <2>8, <2>13, <2>14, Zenon DEF EntriesWait
    <2>16. ASSUME NEW c \in Cores PROVE Held(c)' = IF c \in toRelease' THEN {coreThread[c]} ELSE {}
      <3>1. Threads \ {None} = Threads
        BY InvFacts, Zenon
      <3>2. \A x : x \in Held(c)' <=> /\ x \in Threads /\ place'[x] = c
                                      /\ c \in acquire' /\ coreThread[c] # None => x # coreThread[c]
        <4>1. Held(c)' = IF c \in acquire' /\ coreThread[c] # None
                         THEN {x \in Threads : place'[x] = c} \ {coreThread[c]}
                         ELSE {x \in Threads : place'[x] = c}
          BY <1>1, <2>1, <3>1, ZenonT(40) DEF Held, Waiting
        <4> QED BY <4>1, Zenon
      <3>3. \A x : x \in Held(c)' <=> /\ x \in Threads /\ c \in acquire /\ x = coreThread[c]
                                      /\ c \in Resumed /\ c \notin R /\ x # caller
        BY <1>1, <2>8, <2>13, <2>14, <3>2, InvFacts
      <3>4. c \in toRelease' <=> c \in Resumed /\ c \notin R /\ coreThread[c] # caller
        BY <2>3, <2>5, Zenon
      <3> QED BY <2>4, <2>8, <3>3, <3>4, Zenon
    <2>17. toRelease' \subseteq Resumed
      BY <2>3, <2>5, Zenon
    <2>18. ListsWait'
      BY <2>4, <2>8, <2>16, <2>17, Zenon DEF ListsWait
    <2>19. TypeOK'
      BY <1>1, <2>1, <2>4, <2>12, <2>17, NextAheadFacts, Zenon DEF BarrierInv, TypeOK
    <2>20. WaitersRun'
      BY <1>1, <2>11, Zenon DEF BarrierInv, WaitersRun
    <2>21. OnlyRunning' /\ OwnCore' /\ EntersOnce'
      BY <1>1, Zenon DEF BarrierInv, OnlyRunning, OwnCore, EntersOnce
    <2>22. CallerEntered' /\ ListEmpty' /\ NoEntries'
      BY <1>1, <2>1, Zenon DEF CallerEntered, ListEmpty, InPeriodic, NoEntries
    <2>23. ClocksOfEntries'
      BY <1>1, <2>4, NextAheadFacts, Zenon DEF BarrierInv, ClocksOfEntries
    <2>24. ReleaseGoesOn'
      <3> SUFFICES ASSUME toRelease' # {} PROVE \E w \in Threads : Executes(w)'
        BY Zenon DEF ReleaseGoesOn
      <3>1. PICK c \in R : TRUE
        BY <2>3, <2>7, Zenon
      <3>2. coreThread[c] \in Threads /\ place'[coreThread[c]] = None /\ place[coreThread[c]] # None
        BY <2>4, <2>8, <2>11, <2>14, <3>1, InvFacts
      <3> QED BY <1>1, <3>2, Zenon DEF Executes, BarrierInv, WaitersRun
    <2> QED BY <2>15, <2>18, <2>19, <2>20, <2>21, <2>22, <2>23, <2>24, Zenon DEF BarrierInv
  <1> QED BY <1>3, <1>4, Zenon

-----------------------------------------------------------------------------
(* The theorems                                                            *)

LEMMA InitInv == Init => BarrierInv
  <1> SUFFICES ASSUME Init PROVE BarrierInv
    BY Zenon
  <1>1. None \notin Cores /\ None \notin Threads /\ MaxAhead \in Nat
    BY BarrierAssumption, Zenon
  <1>2. TypeOK
    <2>1. status \in [Threads -> {"RUNNING", "STALLED", "IDLE"}] /\ ahead \in [Cores -> -1 .. MaxAhead]
      BY <1>1 DEF Init
    <2>2. /\ coreOf \in [Threads -> Cores \cup {None}] /\ place \in [Threads -> Cores \cup {None}]
          /\ coreThread \in [Cores -> Threads \cup {None}]
      BY Zenon DEF Init
    <2> QED BY <2>1, <2>2, Zenon DEF Init, TypeOK
  <1>3. ListsWait
    BY <1>1, Zenon DEF Init, ListsWait, Held, Waiting
  <1>4. EntriesWait /\ WaitersRun /\ OnlyRunning /\ OwnCore /\ CallerEntered /\ NoEntries
    BY Zenon DEF Init, EntriesWait, WaitersRun, OnlyRunning, OwnCore, CallerEntered, NoEntries
  <1>5. ClocksOfEntries /\ ListEmpty /\ ReleaseGoesOn /\ EntersOnce
    BY Zenon DEF Init, ClocksOfEntries, ListEmpty, ReleaseGoesOn, EntersOnce
  <1> QED BY <1>2, <1>3, <1>4, <1>5, Zenon DEF BarrierInv

LEMMA SameInv == BarrierInv /\ UNCHANGED vars => BarrierInv'
  <1> SUFFICES ASSUME BarrierInv, UNCHANGED vars PROVE BarrierInv'
    BY Zenon
  <1>1. ListsWait'
    BY DEF vars, BarrierInv, ListsWait, Held, Waiting
  <1>2. TypeOK' /\ EntriesWait' /\ WaitersRun' /\ OnlyRunning' /\ OwnCore' /\ CallerEntered'
    BY Zenon DEF vars, BarrierInv, TypeOK, EntriesWait, WaitersRun, OnlyRunning, OwnCore, CallerEntered
  <1>3. NoEntries' /\ ClocksOfEntries' /\ ListEmpty' /\ ReleaseGoesOn' /\ EntersOnce'
    BY Zenon DEF vars, BarrierInv, NoEntries, ClocksOfEntries, ListEmpty, InPeriodic, ReleaseGoesOn,
           LockFree, Executes, EntersOnce
  <1> QED BY <1>1, <1>2, <1>3, Zenon DEF BarrierInv

LEMMA NextInv == BarrierInv /\ [Next]_vars => BarrierInv'
  <1> SUFFICES ASSUME BarrierInv, [Next]_vars PROVE BarrierInv'
    BY Zenon
  <1>1. CASE \E t \in Threads, a \in 0 .. MaxAhead : Synchronize(t, a)
    BY <1>1, SynchronizeKeeps, Zenon
  <1>2. CASE \E t \in Threads, u \in Threads \cup {None} : Stall(t, u)
    BY <1>2, StallKeeps, Zenon
  <1>3. CASE \E t \in Threads, u \in Threads \cup {None} : Exit(t, u)
    BY <1>3, ExitKeeps, Zenon
  <1>4. CASE \E t \in Threads, c \in Cores \cup {None} : Resume(t, c)
    BY <1>4, ResumeKeeps, Zenon
  <1>5. CASE \E t \in Threads : Preempt(t)
    BY <1>5, PreemptKeeps, Zenon
  <1>6. CASE \E t \in Threads, c \in Cores : Dispatch(t, c)
    BY <1>6, DispatchKeeps, Zenon
  <1>7. CASE Disable
    BY <1>7, DisableKeeps, Zenon
  <1>8. CASE Enable
    BY <1>8, EnableKeeps, Zenon
  <1>9. CASE ReturnEarly
    BY <1>9, ReturnEarlyKeeps, Zenon
  <1>10. CASE MoveBarrier
    BY <1>10, MoveBarrierKeeps, Zenon
  <1>11. CASE Stopped \/ UNCHANGED vars
    BY <1>11, SameInv, Zenon DEF Stopped
  <1> QED BY <1>1, <1>2, <1>3, <1>4, <1>5, <1>6, <1>7, <1>8, <1>9, <1>10, <1>11, Zenon DEF Next

\* The inductive invariant of the barrier, for any number of cores and threads,
\* whatever a scheduler with at most one thread on a core does in the periodic
\* callback, and with the barrier switched off and on at any time.
THEOREM BarrierInvAlways == Spec => []BarrierInv
  <1> QED BY InitInv, NextInv, PTL DEF Spec

\* Every variable keeps its type.
THEOREM TypeCorrect == Spec => []TypeOK
  <1>1. BarrierInv => TypeOK
    BY Zenon DEF BarrierInv
  <1> QED BY <1>1, BarrierInvAlways, PTL

\* Somebody is left to release the threads on the list: a thread that comes to
\* the barrier, stalls or ends lets another go first.
THEOREM ReleaseContinues == Spec => []ReleaseGoesOn
  <1>1. BarrierInv => ReleaseGoesOn
    BY Zenon DEF BarrierInv
  <1> QED BY <1>1, BarrierInvAlways, PTL

\* The assertion of synchronize() holds for any number of threads, also with
\* pre-emption: no core enters the barrier while it is in it.
THEOREM NeverEntersTwice == Spec => []EntersOnce
  <1>1. BarrierInv => EntersOnce
    BY Zenon DEF BarrierInv
  <1> QED BY <1>1, BarrierInvAlways, PTL

\* Every thread that waits on a core's condition variable has a wake-up of its
\* own to come, from the core's entry or its place on the list, and every wake-up
\* has its waiter, however many threads are moved while they wait.
THEOREM WakeupsMatchWaiters == Spec => []WakeupForEachWaiter
  <1>1. ASSUME BarrierInv PROVE WakeupForEachWaiter
    <2>1. ASSUME NEW c \in Cores
          PROVE  Cardinality(Waiting(c)) =
                   (IF c \in acquire /\ (caller = None \/ coreThread[c] # caller) THEN 1 ELSE 0)
                     + (IF c \in toRelease THEN 1 ELSE 0)
      <3> DEFINE e == c \in acquire /\ coreThread[c] # caller
      <3>1. (c \in acquire /\ (caller = None \/ coreThread[c] # caller)) <=> e
        BY <1>1, InvFacts DEF BarrierInv, EntriesWait
      <3>2. IF c \in toRelease THEN \E u \in Threads : Held(c) = {u} ELSE Held(c) = {}
        BY <1>1, Zenon DEF BarrierInv, ListsWait
      <3>3. e => coreThread[c] \in Waiting(c) /\ Held(c) = Waiting(c) \ {coreThread[c]}
        BY <1>1, Zenon DEF Held, Waiting, BarrierInv, EntriesWait
      <3>4. ~ e => Held(c) = Waiting(c)
        BY Zenon DEF Held
      <3>5. CASE ~ e
        <4>1. CASE c \in toRelease
          <5>1. Cardinality(Waiting(c)) = 1
            BY <3>2, <3>4, <3>5, <4>1, FS_Singleton, Zenon
          <5> QED BY <3>1, <3>5, <4>1, <5>1
        <4>2. CASE c \notin toRelease
          <5>1. Cardinality(Waiting(c)) = 0
            BY <3>2, <3>4, <3>5, <4>2, FS_EmptySet, Zenon
          <5> QED BY <3>1, <3>5, <4>2, <5>1
        <4> QED BY <4>1, <4>2, Zenon
      <3>6. CASE e /\ c \notin toRelease
        <4>1. Waiting(c) = {coreThread[c]}
          BY <3>2, <3>3, <3>6, Zenon
        <4>2. Cardinality(Waiting(c)) = 1
          BY <4>1, FS_Singleton, Zenon
        <4> QED BY <3>1, <3>6, <4>2
      <3>7. CASE e /\ c \in toRelease
        <4>1. PICK u \in Threads : Held(c) = {u}
          BY <3>2, <3>7, Zenon
        <4>2. u # coreThread[c] /\ Waiting(c) = {coreThread[c]} \cup {u}
          BY <3>3, <3>7, <4>1, Zenon
        <4>3. /\ IsFiniteSet({coreThread[c]}) /\ Cardinality({coreThread[c]}) = 1
              /\ u \notin {coreThread[c]}
          BY <4>2, FS_Singleton, Zenon
        <4>4. Cardinality({coreThread[c]} \cup {u}) = 2
          BY <4>3, FS_AddElement
        <4> QED BY <3>1, <3>7, <4>2, <4>4
      <3> QED BY <3>5, <3>6, <3>7, Zenon
    <2>2. \A c \in acquire : \E t \in Threads :
            coreThread[c] = t /\ place[t] = c /\ status[t] = "RUNNING"
      BY <1>1, InvFacts DEF BarrierInv, EntriesWait, WaitersRun
    <2> QED BY <2>1, <2>2, Zenon DEF WakeupForEachWaiter
  <1> QED BY <1>1, BarrierInvAlways, PTL

\* Nothing but synchronize() takes a clock to the barrier, and that enters the
\* core.
LEMMA ClocksEnteredKept ==
  ASSUME BarrierInv, ~ Disables, ClocksEntered, [Next]_vars
  PROVE  ClocksEntered'
  <1> SUFFICES ASSUME NEW c \in Cores, ahead'[c] >= 0 PROVE c \in acquire'
    BY Zenon DEF ClocksEntered
  <1>1. ahead[c] >= 0 => c \in acquire
    BY Zenon DEF ClocksEntered
  <1>2. \A ts : Zeroed(ts)[c] >= 0 => ahead[c] >= 0
    <2>1. \A ts : Zeroed(ts)[c] = -1 \/ Zeroed(ts)[c] = ahead[c]
      BY ZeroedFacts, Zenon
    <2> QED BY <2>1
  <1>3. ASSUME NEW t \in Threads, NEW a \in 0 .. MaxAhead, Synchronize(t, a) PROVE c \in acquire'
    <2>1. coreOf[t] \notin acquire
      BY <1>3, FreeToEnter, Zenon DEF Synchronize
    <2>2. ahead' = [ahead EXCEPT ![coreOf[t]] = a] /\ acquire' = acquire \cup {coreOf[t]}
      BY <1>3, <2>1, Zenon DEF Synchronize
    <2> QED BY <1>1, <2>2, InvFacts, Zenon
  <1>4. ASSUME NEW t, NEW u, NEW how, StopRunning(t, u, how) PROVE c \in acquire'
    BY <1>1, <1>2, <1>4, Zenon DEF StopRunning
  <1>5. CASE \E t \in Threads, u \in Threads \cup {None} : Stall(t, u) \/ Exit(t, u)
    BY <1>4, <1>5, Zenon DEF Stall, Exit
  <1>6. CASE \E t \in Threads, d \in Cores \cup {None} : Resume(t, d)
    BY <1>1, <1>2, <1>6, Zenon DEF Resume
  <1>7. CASE \E t \in Threads : Preempt(t)
    BY <1>1, <1>2, <1>7, Zenon DEF Preempt
  <1>8. CASE \E t \in Threads, d \in Cores : Dispatch(t, d)
    BY <1>1, <1>2, <1>8, Zenon DEF Dispatch
  <1>9. CASE Disable \/ Enable
    BY <1>9, Zenon DEF Disable, Enable
  <1>10. CASE ReturnEarly
    BY <1>1, <1>10, Zenon DEF ReturnEarly
  <1>11. CASE MoveBarrier
    <2>1. ahead' = NextAhead /\ acquire' = acquire \ Resumed
      BY <1>11, Zenon DEF MoveBarrier, MoveTo
    <2> QED BY <1>1, <2>1, NextAheadFacts
  <1>12. CASE Stopped \/ UNCHANGED vars
    BY <1>1, <1>12, Zenon DEF Stopped, vars
  <1> QED BY <1>3, <1>5, <1>6, <1>7, <1>8, <1>9, <1>10, <1>11, <1>12, Zenon DEF Next

\* While the barrier is not switched off, no thread runs on a core whose clock is
\* at or beyond the barrier, whatever the scheduler moves in the callback: the
\* clocks of running cores stay within the interval.
THEOREM NobodyRunsBeyond ==
  ASSUME ~ Disables
  PROVE  Spec => []NobodyBeyondBarrier
  <1>1. Init => ClocksEntered
    BY DEF Init, ClocksEntered
  <1>2. BarrierInv /\ ClocksEntered /\ [Next]_vars => ClocksEntered'
    BY ClocksEnteredKept, Zenon
  <1>3. BarrierInv /\ ClocksEntered => NobodyBeyondBarrier
    <2> SUFFICES ASSUME BarrierInv, ClocksEntered, NEW t \in Threads, Executes(t), coreOf[t] # None
                 PROVE  ahead[coreOf[t]] = -1
      BY Zenon DEF NobodyBeyondBarrier
    <2> DEFINE c == coreOf[t]
    <2>1. c \in Cores /\ ahead[c] \in -1 .. MaxAhead /\ MaxAhead \in Nat
      BY InvFacts, Zenon
    <2>2. ASSUME ahead[c] >= 0 PROVE FALSE
      <3>1. c \in acquire /\ coreOf[coreThread[c]] = c
        BY <2>1, <2>2, Zenon DEF ClocksEntered, BarrierInv, ClocksOfEntries
      <3>2. coreThread[c] \in Threads /\ place[coreThread[c]] = c
        BY <3>1, Zenon DEF BarrierInv, EntriesWait
      <3>3. coreThread[c] = t
        BY <3>1, <3>2, InvFacts, Zenon DEF BarrierInv, OwnCore
      <3> QED BY <3>2, <3>3, Zenon DEF Executes
    <2> HIDE DEF c
    <2>3. ahead[c] = -1
      BY <2>1, <2>2
    <2> QED BY <2>3, Zenon DEF c
  <1> QED BY <1>1, <1>2, <1>3, BarrierInvAlways, PTL DEF Spec

\* Without pre-emption, who waits for the list is on its core, below the barrier.
LEMMA ListedOnCore ==
  ASSUME BarrierInv, ~ Preempts, StayOnCores, NEW d \in toRelease
  PROVE  /\ d \in Cores /\ ahead[d] = -1
         /\ \E w \in Threads : place[w] = d /\ coreOf[w] = d /\ status[w] = "RUNNING"
  <1>1. PICK u \in Threads : Held(d) = {u}
    BY InvFacts, Zenon DEF BarrierInv, ListsWait
  <1>2. place[u] = d /\ d \in Cores /\ d # None
    BY <1>1, HeldFacts, InvFacts, SMTT(30)
  <1> QED BY <1>2, Zenon DEF StayOnCores, BarrierInv, WaitersRun

LEMMA SynchronizeStays ==
  ASSUME BarrierInv, ~ Preempts, StayOnCores, NEW t \in Threads, NEW a \in 0 .. MaxAhead,
         Synchronize(t, a)
  PROVE  StayOnCores'
  <1> DEFINE c == coreOf[t]
  <1>1. LockFree /\ Executes(t) /\ c # None /\ c \in Cores
    BY InvFacts, Zenon DEF Synchronize
  <1>2. c \notin acquire
    BY <1>1, FreeToEnter, Zenon
  <1>3. /\ doRelease(1, toRelease, [u \in {t} |-> c], {})
        /\ ahead' = [ahead EXCEPT ![c] = a]
        /\ CheckBarrier(status, coreOf, ahead', t)
        /\ coreOf' = coreOf
    BY <1>2, Zenon DEF Synchronize, threadVars
  <1>4. /\ \A x \in Threads : place'[x] # None => place'[x] = place[x] \/ (x = t /\ place'[x] = c)
        /\ toRelease' \subseteq toRelease
    BY <1>3, Zenon DEF doRelease
  <1>5. ASSUME NEW d \in toRelease'
        PROVE  d \in Cores /\ ahead'[d] = -1 /\ isCoreRunning(status, coreOf, d)
    <2>1. PICK w \in Threads : d \in Cores /\ ahead[d] = -1 /\ place[w] = d /\ coreOf[w] = d /\ status[w] = "RUNNING"
      BY <1>4, <1>5, ListedOnCore, Zenon
    <2>2. d # c
      BY <1>1, <2>1, InvFacts, Zenon DEF Executes, BarrierInv, OwnCore
    <2> QED BY <1>3, <2>1, <2>2, InvFacts, Zenon DEF isCoreRunning
  <1>6. fault' = "none"
    <2>1. fault = "none"
      BY <1>1, Zenon DEF LockFree
    <2>2. toRelease' # {} => ~ isBarrierReached(status, coreOf, ahead')
      BY <1>5, SMTT(30) DEF isBarrierReached
    <2> QED BY <1>3, <2>1, <2>2, Zenon DEF CheckBarrier, EnterRelease
  <1>7. \A x \in Threads : place'[x] # None => coreOf'[x] = place'[x]
    BY <1>3, <1>4, Zenon DEF StayOnCores
  <1> QED BY <1>5, <1>6, <1>7, Zenon DEF StayOnCores

LEMMA StopRunningStays ==
  ASSUME BarrierInv, ~ Preempts, StayOnCores, NEW t \in Threads, NEW u \in Threads \cup {None},
         NEW how \in {"STALLED", "IDLE"}, StopRunning(t, u, how), caller' = None
  PROVE  /\ fault = "none"
         /\ \A x \in Threads : place'[x] # None => coreOf'[x] = place'[x]
         /\ \A d \in toRelease' : d \in Cores /\ ahead'[d] = -1 /\ isCoreRunning(status', coreOf', d)
  <1>1. /\ LockFree
        /\ \A c \in Cores : ahead'[c] = -1 \/ ahead'[c] = ahead[c]
        /\ toRelease' \subseteq toRelease
        /\ \A x \in Threads : place[x] # None => status'[x] = "RUNNING"
        /\ \A x \in Threads : place[x] # None /\ coreOf[x] # None => coreOf'[x] = coreOf[x]
        /\ \A x \in Threads : place'[x] # None => place'[x] = place[x]
    BY StopRunningFacts, Zenon
  <1>2. \A x \in Threads : place'[x] # None => coreOf'[x] = place'[x]
    BY <1>1, Zenon DEF StayOnCores
  <1>3. ASSUME NEW d \in toRelease'
        PROVE  d \in Cores /\ ahead'[d] = -1 /\ isCoreRunning(status', coreOf', d)
    <2>1. PICK w \in Threads : d \in Cores /\ ahead[d] = -1 /\ place[w] = d /\ coreOf[w] = d
      BY <1>1, <1>3, ListedOnCore, Zenon
    <2>2. coreOf'[w] = d /\ status'[w] = "RUNNING"
      BY <1>1, <2>1, InvFacts, Zenon
    <2> QED BY <1>1, <2>1, <2>2, Zenon DEF isCoreRunning
  <1> QED BY <1>1, <1>2, <1>3, Zenon DEF LockFree

LEMMA StaysNext ==
  ASSUME BarrierInv, ~ Preempts, StayOnCores, [Next]_vars
  PROVE  StayOnCores'
  <1>1. CASE \E t \in Threads, a \in 0 .. MaxAhead : Synchronize(t, a)
    BY <1>1, SynchronizeStays, Zenon
  <1>2. ASSUME NEW t \in Threads, NEW u \in Threads \cup {None}, Stall(t, u) PROVE StayOnCores'
    <2>1. StopRunning(t, u, "STALLED") /\ caller' = None
      BY <1>2, Zenon DEF Stall, CheckBarrier, EnterRelease, StopRunning, LockFree, BarrierInv, CallerEntered
    <2>2. /\ fault = "none"
          /\ \A x \in Threads : place'[x] # None => coreOf'[x] = place'[x]
          /\ \A d \in toRelease' : d \in Cores /\ ahead'[d] = -1 /\ isCoreRunning(status', coreOf', d)
      BY <2>1, StopRunningStays, Zenon
    <2>3. toRelease' # {} => ~ isBarrierReached(status', coreOf', ahead') /\ anyThreadRunning(status')
      BY <2>2 DEF isBarrierReached, anyThreadRunning, isCoreRunning
    <2>4. fault' = "none"
      BY <1>2, <2>2, <2>3, Zenon DEF Stall, CheckBarrier, EnterRelease
    <2> QED BY <2>2, <2>4, Zenon DEF StayOnCores
  <1>3. ASSUME NEW t \in Threads, NEW u \in Threads \cup {None}, Exit(t, u) PROVE StayOnCores'
    <2>1. StopRunning(t, u, "IDLE") /\ caller' = None
      BY <1>3, Zenon DEF Exit, CheckBarrier, EnterRelease, StopRunning, LockFree, BarrierInv, CallerEntered
    <2>2. /\ fault = "none"
          /\ \A x \in Threads : place'[x] # None => coreOf'[x] = place'[x]
          /\ \A d \in toRelease' : d \in Cores /\ ahead'[d] = -1 /\ isCoreRunning(status', coreOf', d)
      BY <2>1, StopRunningStays, Zenon
    <2>3. toRelease' # {} => ~ isBarrierReached(status', coreOf', ahead')
      BY <2>2 DEF isBarrierReached
    <2>4. fault' = "none"
      BY <1>3, <2>2, <2>3, Zenon DEF Exit, CheckBarrier, EnterRelease
    <2> QED BY <2>2, <2>4, Zenon DEF StayOnCores
  <1>4. ASSUME NEW t \in Threads, NEW c \in Cores \cup {None}, Resume(t, c) PROVE StayOnCores'
    <2>1. /\ status[t] = "STALLED" /\ fault' = fault
          /\ coreOf' = [coreOf EXCEPT ![t] = c]
          /\ ahead' = ahead \/ ahead' = Zeroed({t})
          /\ doRelease(IF c = None THEN 0 ELSE 1, toRelease, << >>, {})
      BY <1>4, Zenon DEF Resume
    <2>2. /\ \A x \in Threads : place'[x] # None => place'[x] = place[x]
          /\ toRelease' \subseteq toRelease
      <3>1. PICK R : /\ toRelease' = toRelease \ R
                     /\ place' = [x \in Threads |-> IF x \in Woken(R) \cup {} THEN None
                                                    ELSE IF x \in DOMAIN << >> THEN << >>[x]
                                                    ELSE place[x]]
        BY <2>1, Zenon DEF doRelease
      <3> QED BY <3>1
    <2>3. place[t] = None
      BY <2>1, Zenon DEF BarrierInv, WaitersRun
    <2>4. \A d \in toRelease' : ahead'[d] = -1
      <3> TAKE d \in toRelease'
      <3>1. d \in Cores /\ ahead[d] = -1
        BY <2>2, ListedOnCore, Zenon
      <3> QED BY <2>1, <3>1, ZeroedFacts
    <2> QED BY <2>1, <2>2, <2>3, <2>4, InvFacts, Zenon DEF StayOnCores
  <1>5. CASE (\E t \in Threads : Preempt(t)) \/ (\E t \in Threads, c \in Cores : Dispatch(t, c))
    BY <1>5, Zenon DEF Preempt, Dispatch
  <1>6. CASE Disable \/ Enable
    BY <1>6, Zenon DEF Disable, Enable, threadVars, StayOnCores
  <1>7. CASE ReturnEarly
    <2>1. \A x \in Threads : place'[x] # None => place'[x] = place[x]
      BY <1>7, InvFacts, Zenon DEF ReturnEarly
    <2> QED BY <1>7, <2>1, Zenon DEF ReturnEarly, threadVars, StayOnCores
  <1>8. CASE MoveBarrier
    <2>1. ahead' = NextAhead /\ coreOf' = coreOf /\ fault' = fault
      BY <1>8, Zenon DEF MoveBarrier, MoveTo, threadVars
    <2>2. toRelease = {}
      BY <1>8, Zenon DEF MoveBarrier, MoveTo, BarrierInv, ListEmpty
    <2>3. /\ \A x \in Threads : place'[x] # None => place'[x] = place[x]
          /\ toRelease' \subseteq Resumed
      <3>1. CASE place' = place /\ toRelease' = toRelease
        BY <2>2, <3>1, Zenon
      <3>2. CASE doRelease(HostCores, toRelease \cup Others(Resumed), << >>,
                           {t \in {caller} : \E c \in Resumed : coreThread[c] = t})
        <4>1. toRelease' \subseteq Others(Resumed)
          BY <2>2, <3>2, Zenon DEF doRelease
        <4>2. Others(Resumed) \subseteq Resumed
          BY Zenon DEF Others
        <4>3. \A x \in Threads : place'[x] # None => place'[x] = place[x]
          BY <3>2 DEF doRelease
        <4> QED BY <4>1, <4>2, <4>3, Zenon
      <3> QED BY <1>8, <3>1, <3>2, Zenon DEF MoveBarrier, MoveTo
    <2> QED BY <2>1, <2>3, NextAheadFacts, Zenon DEF StayOnCores
  <1>9. CASE Stopped \/ UNCHANGED vars
    BY <1>9, Zenon DEF Stopped, vars, StayOnCores
  <1> QED BY <1>1, <1>2, <1>3, <1>4, <1>5, <1>6, <1>7, <1>8, <1>9, Zenon DEF Next

\* With a scheduler that does not pre-empt threads, no assertion of the barrier
\* fails, for any number of threads and host cores: when the barrier is reached,
\* every thread that was released from the last one has restarted.
THEOREM AssertionsHoldWithoutPreemption ==
  ASSUME ~ Preempts
  PROVE  Spec => []NoAssertionFails
  <1>1. Init => StayOnCores
    BY Zenon DEF Init, StayOnCores
  <1>2. BarrierInv /\ StayOnCores /\ [Next]_vars => StayOnCores'
    BY StaysNext, Zenon
  <1>3. StayOnCores => NoAssertionFails
    BY Zenon DEF StayOnCores, NoAssertionFails
  <1> QED BY <1>1, <1>2, <1>3, BarrierInvAlways, PTL DEF Spec
=============================================================================
