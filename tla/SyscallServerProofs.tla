-------------------------- MODULE SyscallServerProofs --------------------------
(***************************************************************************)
(* The futexes and timeouts of the syscall server for any threads, futex   *)
(* words and timeouts: every stalled thread stands in one queue, once, and *)
(* what follows for wake-ups and timeouts.                                 *)
(***************************************************************************)
EXTENDS SyscallServer, FiniteSetTheorems, WellFoundedInduction, TLAPS

-----------------------------------------------------------------------------
(* Places in a queue                                                       *)

\* A non-empty set of naturals has a least element, and Min is it.
LEMMA LeastNat ==
  ASSUME NEW S \in SUBSET Nat, S # {}
  PROVE  Min(S) \in S /\ \A y \in S : Min(S) <= y
  <1> DEFINE R == OpToRel(<, Nat)
  <1>1. IsWellFoundedOn(R, Nat) /\ \A x, y \in Nat : y < x => <<y, x>> \in R
    BY NatLessThanWellFounded, Zenon DEF OpToRel
  <1> HIDE DEF R
  <1>2. PICK x \in S : \A y \in S : ~ (<<y, x>> \in R)
    BY <1>1, WFMin, Zenon
  <1>3. ASSUME NEW y \in S PROVE x <= y
    <2>1. x \in Nat /\ y \in Nat
      BY Zenon
    <2>2. ~ (y < x)
      BY <1>1, <1>2, <2>1, Zenon
    <2> QED BY <2>1, <2>2
  <1> QED BY <1>3, Zenon DEF Min

\* A non-empty set of places in a queue has a last one, and Max is it.
LEMMA LastPlace ==
  ASSUME NEW n \in Nat, NEW K \in SUBSET (1 .. n), K # {}
  PROVE  Max(K) \in K /\ \A y \in K : Max(K) >= y
  <1> DEFINE U == {u \in Nat : \A y \in K : u >= y}
  <1>1. U \in SUBSET Nat /\ n \in U
    OBVIOUS
  <1>2. PICK u \in U : \A v \in U : u <= v
    BY <1>1, LeastNat, Zenon
  <1>3. u \in K
    <2> SUFFICES ASSUME u \notin K PROVE FALSE
      BY Zenon
    <2>1. u \in Nat /\ \A y \in K : u >= y /\ y \in Nat /\ y >= 1
      BY <1>2
    <2>2. \A y \in K : u - 1 >= y
      BY <2>1
    <2>3. PICK y : y \in K
      BY Zenon
    <2>4. u - 1 \in Nat
      BY <2>1, <2>2, <2>3
    <2>5. u - 1 \in U
      BY <2>2, <2>4, Zenon
    <2>6. u <= u - 1
      BY <1>2, <2>5, Zenon
    <2> QED BY <2>1, <2>6
  <1>4. \A y \in K : u >= y
    BY <1>2, Zenon
  <1> QED BY <1>3, <1>4, Zenon DEF Max

\* The rank of i among the places K.
Rank(K, i) == Cardinality({j \in K : j <= i})

\* Ranks go from 1 to the number of places, in the order of the places.
LEMMA Ranks ==
  ASSUME NEW n \in Nat, NEW K \in SUBSET (1 .. n)
  PROVE  /\ Cardinality(K) \in Nat
         /\ \A i \in K : Rank(K, i) \in 1 .. Cardinality(K)
         /\ \A i, j \in K : i < j => Rank(K, i) < Rank(K, j)
         /\ \A k \in 1 .. Cardinality(K) : \E i \in K : Rank(K, i) = k
  <1> DEFINE B(i) == {j \in K : j <= i}
  <1>nat. \A j \in K : j \in Nat /\ 1 <= j /\ j <= n
    OBVIOUS
  <1>1. IsFiniteSet(K) /\ Cardinality(K) \in Nat
    <2>1. IsFiniteSet(1 .. n)
      BY FS_Interval
    <2>2. IsFiniteSet(K)
      BY <2>1, FS_Subset, Zenon
    <2> QED BY <2>2, FS_CardinalityType, Zenon
  <1>2. \A i : /\ B(i) \in SUBSET K /\ IsFiniteSet(B(i)) /\ Cardinality(B(i)) \in Nat
               /\ Cardinality(B(i)) <= Cardinality(K)
    <2> TAKE i
    <2>1. B(i) \in SUBSET K
      BY Zenon
    <2> HIDE DEF B
    <2>2. IsFiniteSet(B(i)) /\ Cardinality(B(i)) <= Cardinality(K)
      BY <1>1, <2>1, FS_Subset, Zenon
    <2> QED BY <2>1, <2>2, FS_CardinalityType, Zenon
  <1>3. ASSUME NEW i \in K PROVE Rank(K, i) \in 1 .. Cardinality(K)
    <2>1. i \in B(i)
      OBVIOUS
    <2> HIDE DEF B
    <2>2. Cardinality(B(i)) # 0
      BY <1>2, <2>1, FS_EmptySet, Zenon
    <2>3. Cardinality(B(i)) \in 1 .. Cardinality(K)
      BY <1>1, <1>2, <2>2
    <2> QED BY <2>3, Zenon DEF Rank, B
  <1>4. ASSUME NEW i \in K, NEW j \in K, i < j PROVE Rank(K, i) < Rank(K, j)
    <2>1. B(i) \in SUBSET B(j) /\ j \in B(j) /\ j \notin B(i)
      <3>1. /\ \A x \in K : x <= i => x <= j
            /\ j <= j /\ ~ (j <= i)
        BY <1>nat, <1>4
      <3> QED BY <3>1, Zenon
    <2> HIDE DEF B
    <2>2. Cardinality(B(i)) <= Cardinality(B(j)) /\ Cardinality(B(j)) # Cardinality(B(i))
      BY <1>2, <2>1, FS_Subset, Zenon
    <2>3. Cardinality(B(i)) < Cardinality(B(j))
      BY <1>2, <2>2
    <2> QED BY <2>3, Zenon DEF Rank, B
  <1>5. ASSUME NEW k \in 1 .. Cardinality(K) PROVE \E i \in K : Rank(K, i) = k
    <2> DEFINE U == {u \in Nat : Cardinality(B(u)) >= k}
    <2>1. B(n) = K /\ B(0) = {}
      <3>1. \A j \in K : j <= n /\ ~ (j <= 0)
        BY <1>nat
      <3> QED BY <3>1, Zenon
    <2>2. n \in U
      BY <1>1, <2>1
    <2>3. PICK u \in U : \A v \in U : u <= v
      BY <2>2, LeastNat, Zenon
    <2>4. Cardinality(B(u)) >= k /\ u \in Nat
      BY <2>3, Zenon
    <2>5. u # 0
      BY <1>1, <2>1, <2>4, FS_EmptySet
    <2>6. u - 1 \in Nat /\ u - 1 \notin U
      <3>1. u - 1 \in Nat /\ ~ (u <= u - 1)
        BY <2>4, <2>5
      <3> HIDE DEF U
      <3> QED BY <2>3, <3>1, Zenon
    <2>7. Cardinality(B(u - 1)) < k
      <3> HIDE DEF B
      <3>1. ~ (Cardinality(B(u - 1)) >= k)
        BY <2>6, Zenon
      <3> QED BY <1>1, <1>2, <3>1
    <2>8. B(u) = IF u \in K THEN B(u - 1) \cup {u} ELSE B(u - 1)
      <3>1. \A j \in K : j <= u <=> j <= u - 1 \/ j = u
        BY <1>nat, <2>4
      <3> QED BY <3>1, Zenon
    <2>9. u \in K /\ B(u) = B(u - 1) \cup {u}
      BY <1>1, <1>2, <2>4, <2>7, <2>8
    <2>10. u \notin B(u - 1)
      BY <2>4
    <2> HIDE DEF B
    <2>11. Cardinality(B(u)) = Cardinality(B(u - 1)) + 1
      BY <1>2, <2>9, <2>10, FS_AddElement, Zenon
    <2>12. Cardinality(B(u)) = k
      BY <1>1, <1>2, <2>4, <2>7, <2>11
    <2> QED BY <2>9, <2>12, Zenon DEF Rank, B
  <1> QED BY <1>1, <1>3, <1>4, <1>5, Zenon

\* r is what is left of q without the places is: its entries are those of q at the
\* other places, each once and in order.
Remainder(r, q, is) ==
  \E g \in [1 .. Len(r) -> (1 .. Len(q)) \ is] :
    /\ \A k \in 1 .. Len(r) : r[k] = q[g[k]]
    /\ \A k, l \in 1 .. Len(r) : k < l => g[k] < g[l]
    /\ \A i \in (1 .. Len(q)) \ is : \E k \in 1 .. Len(r) : g[k] = i

\* What Without leaves of a queue: the other places, in the same order.
LEMMA Remains ==
  ASSUME NEW S, NEW q \in Seq(S), NEW is
  PROVE  Without(q, is) \in Seq(S) /\ Remainder(Without(q, is), q, is)
  <1> DEFINE K == (1 .. Len(q)) \ is
             c == Cardinality(K)
             g == [k \in 1 .. c |-> CHOOSE i \in K : Rank(K, i) = k]
             r == Without(q, is)
  <1>1. Len(q) \in Nat /\ DOMAIN q = 1 .. Len(q) /\ K \in SUBSET (1 .. Len(q))
    OBVIOUS
  <1>2. r = [k \in 1 .. c |-> q[CHOOSE i \in K : Rank(K, i) = k]]
    BY <1>1 DEF Without, Rank
  <1> HIDE DEF K, r
  <1>3. /\ c \in Nat
        /\ \A i \in K : Rank(K, i) \in 1 .. c
        /\ \A i, j \in K : i < j => Rank(K, i) < Rank(K, j)
        /\ \A k \in 1 .. c : \E i \in K : Rank(K, i) = k
    BY <1>1, Ranks, Zenon
  <1> HIDE DEF c
  <1>4. \A k \in 1 .. c : g[k] \in K /\ Rank(K, g[k]) = k
    BY <1>3, Zenon
  <1>5. g \in [1 .. c -> K] /\ r = [k \in 1 .. c |-> q[g[k]]]
    BY <1>2, <1>4
  <1> HIDE DEF g
  <1>6. \A i \in K : i \in Nat /\ i \in 1 .. Len(q) /\ q[i] \in S
    BY <1>1 DEF K
  <1>7. r \in Seq(S) /\ Len(r) = c
    BY <1>3, <1>4, <1>5, <1>6
  <1>8. \A k, l \in 1 .. c : k < l => g[k] < g[l]
    <2> SUFFICES ASSUME NEW k \in 1 .. c, NEW l \in 1 .. c, k < l PROVE g[k] < g[l]
      BY Zenon
    <2>1. g[k] \in Nat /\ g[l] \in Nat
      BY <1>4, <1>6, Zenon
    <2>2. g[k] # g[l]
      BY <1>3, <1>4
    <2>3. ~ (g[l] < g[k])
      BY <1>3, <1>4
    <2> QED BY <2>1, <2>2, <2>3
  <1>9. \A i \in K : \E k \in 1 .. c : g[k] = i
    <2> SUFFICES ASSUME NEW i \in K PROVE g[Rank(K, i)] = i
      BY <1>3, Zenon
    <2> DEFINE k == Rank(K, i)
    <2>1. k \in 1 .. c /\ g[k] \in K /\ Rank(K, g[k]) = k
      BY <1>3, <1>4, Zenon
    <2>2. ~ (g[k] < i) /\ ~ (i < g[k])
      BY <1>3, <2>1
    <2> QED BY <1>6, <2>1, <2>2
  <1> QED BY <1>5, <1>7, <1>8, <1>9, Zenon DEF K, r, Remainder

-----------------------------------------------------------------------------
(* The inductive invariant                                                 *)

\* Whether t stands in queue q, and whether nobody stands there twice.
In(q, t) == \E i \in 1 .. Len(q) : q[i].thread = t
Once(q)  == \A i, j \in 1 .. Len(q) : q[i].thread = q[j].thread => i = j

QueuesOnce == Once(sleeping) /\ \A f \in Futexes : Once(waiting[f])

\* A stalled thread stands in one queue, a running one in none.
Apart ==
  \A t \in Threads :
    /\ t \in running <=> ~ In(sleeping, t) /\ \A f \in Futexes : ~ In(waiting[f], t)
    /\ \A f \in Futexes : In(waiting[f], t) =>
         ~ In(sleeping, t) /\ \A g \in Futexes : In(waiting[g], t) => g = f

\* Nobody sleeps for ever.
SleepsEnd == \A i \in 1 .. Len(sleeping) : sleeping[i].due # Never

SyscallInv == TypeOK /\ QueuesOnce /\ Apart /\ SleepsEnd

-----------------------------------------------------------------------------
(* Queues of waiters                                                       *)

LEMMA EmptyQueue == Once(<< >>) /\ \A t : ~ In(<< >>, t)
  BY DEF Once, In

\* A waiter lines up.
LEMMA Enqueue ==
  ASSUME NEW q \in Seq(Waiter), NEW w \in Waiter
  PROVE  /\ Append(q, w) \in Seq(Waiter)
         /\ \A t : In(Append(q, w), t) <=> In(q, t) \/ t = w.thread
         /\ Once(q) /\ ~ In(q, w.thread) => Once(Append(q, w))
         /\ \A i \in 1 .. Len(Append(q, w)) : Append(q, w)[i] = w \/ \E j \in 1 .. Len(q) : Append(q, w)[i] = q[j]
  <1> DEFINE p == Append(q, w)
  <1>1. /\ p \in Seq(Waiter) /\ Len(q) \in Nat /\ Len(p) = Len(q) + 1
        /\ \A i \in 1 .. Len(q) : p[i] = q[i]
        /\ p[Len(q) + 1] = w
    OBVIOUS
  <1> HIDE DEF p
  <1>2. \A i \in 1 .. Len(p) : i = Len(q) + 1 \/ i \in 1 .. Len(q)
    BY <1>1
  <1>3. \A t : In(p, t) <=> In(q, t) \/ t = w.thread
    BY <1>1 DEF In
  <1>4. Once(q) /\ ~ In(q, w.thread) => Once(p)
    BY <1>1 DEF Once, In
  <1>5. \A i \in 1 .. Len(p) : p[i] = w \/ \E j \in 1 .. Len(q) : p[i] = q[j]
    BY <1>1, <1>2, Zenon
  <1> QED BY <1>1, <1>3, <1>4, <1>5, Zenon DEF p

\* Waiters leave a queue.
LEMMA TakenOut ==
  ASSUME NEW q \in Seq(Waiter), NEW is \in SUBSET (1 .. Len(q)), Once(q)
  PROVE  LET r == Without(q, is)
         IN  /\ r \in Seq(Waiter) /\ Once(r)
             /\ \A t : In(r, t) <=> In(q, t) /\ t \notin At(q, is)
             /\ At(q, is) \subseteq Threads
             /\ \A t \in At(q, is) : In(q, t)
             /\ \A k \in 1 .. Len(r) : \E i \in 1 .. Len(q) : r[k] = q[i]
  <1> DEFINE r == Without(q, is)
  <1>1. r \in Seq(Waiter)
    BY Remains, Zenon
  <1>2. PICK g \in [1 .. Len(r) -> (1 .. Len(q)) \ is] :
              /\ \A k \in 1 .. Len(r) : r[k] = q[g[k]]
              /\ \A k, l \in 1 .. Len(r) : k < l => g[k] < g[l]
              /\ \A i \in (1 .. Len(q)) \ is : \E k \in 1 .. Len(r) : g[k] = i
    <2>1. Remainder(r, q, is)
      BY Remains, Zenon
    <2> QED BY <2>1, Zenon DEF Remainder
  <1> HIDE DEF r
  <1>3. \A k \in 1 .. Len(r) : g[k] \in 1 .. Len(q) /\ g[k] \notin is
    BY <1>2, Zenon
  <1>4. Once(r)
    <2> SUFFICES ASSUME NEW k \in 1 .. Len(r), NEW l \in 1 .. Len(r), r[k].thread = r[l].thread
                 PROVE  k = l
      BY Zenon DEF Once
    <2>1. g[k] = g[l]
      BY <1>2, <1>3, SMTT(30) DEF Once
    <2>2. ~ (k < l) /\ ~ (l < k)
      BY <1>2, <1>3, <2>1
    <2> QED BY <2>2
  <1>5. \A t : In(r, t) <=> In(q, t) /\ t \notin At(q, is)
    <2> SUFFICES ASSUME NEW t PROVE In(r, t) <=> In(q, t) /\ t \notin At(q, is)
      BY Zenon
    <2>1. ASSUME In(r, t) PROVE In(q, t) /\ t \notin At(q, is)
      <3>1. PICK k \in 1 .. Len(r) : r[k].thread = t
        BY <2>1, Zenon DEF In
      <3>2. q[g[k]].thread = t /\ g[k] \in 1 .. Len(q) /\ g[k] \notin is
        BY <1>2, <1>3, <3>1, Zenon
      <3> QED BY <3>2 DEF In, At, Once
    <2>2. ASSUME In(q, t), t \notin At(q, is) PROVE In(r, t)
      <3>1. PICK i \in 1 .. Len(q) : q[i].thread = t
        BY <2>2, Zenon DEF In
      <3>2. i \notin is
        BY <2>2, <3>1, Zenon DEF At
      <3>3. PICK k \in 1 .. Len(r) : g[k] = i
        BY <1>2, <3>2
      <3> QED BY <1>2, <3>1, <3>3, Zenon DEF In
    <2> QED BY <2>1, <2>2, Zenon
  <1>6. At(q, is) \subseteq Threads /\ \A t \in At(q, is) : In(q, t)
    <2>1. \A i \in is : i \in 1 .. Len(q) /\ q[i] \in Waiter
      OBVIOUS
    <2>2. \A i \in is : q[i].thread \in Threads
      BY <2>1, Zenon DEF Waiter
    <2> QED BY <2>1, <2>2, Zenon DEF At, In
  <1>7. \A k \in 1 .. Len(r) : \E i \in 1 .. Len(q) : r[k] = q[i]
    BY <1>2, <1>3, Zenon
  <1> QED BY <1>1, <1>4, <1>5, <1>6, <1>7, Zenon DEF r

\* Waiters move to the end of another queue.
LEMMA Joined ==
  ASSUME NEW q \in Seq(Waiter), NEW r \in Seq(Waiter), Once(q), Once(r),
         \A t : ~ (In(q, t) /\ In(r, t))
  PROVE  /\ q \o r \in Seq(Waiter) /\ Once(q \o r)
         /\ \A t : In(q \o r, t) <=> In(q, t) \/ In(r, t)
  <1> DEFINE p == q \o r
  <1>1. /\ p \in Seq(Waiter) /\ Len(q) \in Nat /\ Len(r) \in Nat /\ Len(p) = Len(q) + Len(r)
        /\ \A i \in 1 .. Len(q) : p[i] = q[i]
        /\ \A i \in 1 .. Len(r) : p[Len(q) + i] = r[i]
    OBVIOUS
  <1> HIDE DEF p
  <1>2. \A i \in 1 .. Len(p) :
          \/ i \in 1 .. Len(q) /\ p[i] = q[i]
          \/ i > Len(q) /\ i - Len(q) \in 1 .. Len(r) /\ p[i] = r[i - Len(q)]
    <2> TAKE i \in 1 .. Len(p)
    <2>1. CASE i <= Len(q)
      BY <1>1, <2>1
    <2>2. CASE i > Len(q)
      <3>1. i - Len(q) \in 1 .. Len(r) /\ Len(q) + (i - Len(q)) = i
        BY <1>1, <2>2
      <3>2. p[Len(q) + (i - Len(q))] = r[i - Len(q)]
        BY <1>1, <3>1, Zenon
      <3> QED BY <2>2, <3>1, <3>2, Zenon
    <2> QED BY <1>1, <2>1, <2>2
  <1>3. \A t : In(q, t) \/ In(r, t) => In(p, t)
    <2>1. \A i \in 1 .. Len(r) : Len(q) + i \in 1 .. Len(p)
      BY <1>1
    <2>2. \A i \in 1 .. Len(q) : i \in 1 .. Len(p)
      BY <1>1
    <2> QED BY <1>1, <2>1, <2>2, Zenon DEF In
  <1>4. \A t : In(p, t) => In(q, t) \/ In(r, t)
    BY <1>2, Zenon DEF In
  <1>5. Once(p)
    <2> SUFFICES ASSUME NEW i \in 1 .. Len(p), NEW j \in 1 .. Len(p), p[i].thread = p[j].thread
                 PROVE  i = j
      BY Zenon DEF Once
    <2>1. CASE i \in 1 .. Len(q) /\ p[i] = q[i]
      BY <1>2, <2>1, Zenon DEF Once, In
    <2>2. CASE i > Len(q) /\ i - Len(q) \in 1 .. Len(r) /\ p[i] = r[i - Len(q)]
      <3>1. j > Len(q) /\ j - Len(q) \in 1 .. Len(r) /\ p[j] = r[j - Len(q)]
        BY <1>2, <2>2, Zenon DEF In
      <3>2. i - Len(q) = j - Len(q)
        BY <2>2, <3>1, Zenon DEF Once
      <3> QED BY <1>1, <3>2
    <2> QED BY <1>2, <2>1, <2>2, Zenon
  <1> QED BY <1>1, <1>3, <1>4, <1>5, Zenon DEF p

\* Time passes for a queue.
LEMMA AgedQueue ==
  ASSUME NEW q \in Seq(Waiter)
  PROVE  /\ Aged(q) \in Seq(Waiter) /\ Len(Aged(q)) = Len(q)
         /\ \A i \in 1 .. Len(q) :
              /\ Aged(q)[i].thread = q[i].thread
              /\ Aged(q)[i].due = Never <=> q[i].due = Never
              /\ Aged(q)[i].due = 0 => q[i].due \in {0, 1}
         /\ Once(q) => Once(Aged(q))
         /\ \A t : In(Aged(q), t) <=> In(q, t)
  <1> DEFINE a == Aged(q)
  <1>1. Never \in Nat /\ Never >= 1 /\ Due = 0 .. Never
    BY SyscallAssumption DEF Never, Due
  <1>2. /\ Len(q) \in Nat /\ DOMAIN q = 1 .. Len(q)
        /\ a = [i \in 1 .. Len(q) |->
                  [q[i] EXCEPT !.due = IF @ \in {0, Never} THEN @ ELSE @ - 1]]
    BY DEF Aged
  <1> HIDE DEF a
  <1>3. ASSUME NEW i \in 1 .. Len(q)
        PROVE  /\ a[i] \in Waiter /\ a[i].thread = q[i].thread
               /\ a[i].due = Never <=> q[i].due = Never
               /\ a[i].due = 0 => q[i].due \in {0, 1}
    <2>1. /\ q[i] \in Waiter
          /\ a[i] = [q[i] EXCEPT !.due = IF @ \in {0, Never} THEN @ ELSE @ - 1]
      BY <1>2
    <2>2. /\ q[i].thread \in Threads /\ q[i].mask \in Mask /\ q[i].due \in 0 .. Never
          /\ q[i] = [thread |-> q[i].thread, mask |-> q[i].mask, due |-> q[i].due]
      BY <1>1, <2>1, Zenon DEF Waiter
    <2>3. /\ a[i].thread = q[i].thread /\ a[i].mask = q[i].mask
          /\ a[i].due = IF q[i].due \in {0, Never} THEN q[i].due ELSE q[i].due - 1
          /\ a[i] = [thread |-> a[i].thread, mask |-> a[i].mask, due |-> a[i].due]
      BY <2>1, <2>2, Zenon
    <2>4. a[i].due \in 0 .. Never
      BY <1>1, <2>2, <2>3
    <2>5. a[i] \in Waiter
      BY <1>1, <2>2, <2>3, <2>4, Zenon DEF Waiter
    <2> QED BY <1>1, <2>2, <2>3, <2>5
  <1>4. a \in Seq(Waiter) /\ Len(a) = Len(q)
    <2>1. \A i \in 1 .. Len(q) : a[i] \in Waiter
      BY <1>3, Zenon
    <2>2. a \in [1 .. Len(q) -> Waiter]
      <3>1. DOMAIN a = 1 .. Len(q) /\ a = [i \in 1 .. Len(q) |-> a[i]]
        BY <1>2, Zenon
      <3> QED BY <2>1, <3>1, Zenon
    <2> QED BY <1>2, <2>2
  <1>5. Once(q) => Once(a)
    BY <1>3, <1>4, Zenon DEF Once
  <1>6. \A t : In(a, t) <=> In(q, t)
    BY <1>3, <1>4, Zenon DEF In
  <1> QED BY <1>3, <1>4, <1>5, <1>6 DEF a

\* The places that a wake-up and a timeout take.
LEMMA PlacesTaken ==
  ASSUME NEW q \in Seq(Waiter)
  PROVE  /\ \A n, mask : Dequeued(q, n, mask) \in SUBSET (1 .. Len(q))
         /\ FirstTimedOut(q) \in SUBSET (1 .. Len(q))
         /\ \A i \in FirstTimedOut(q) : q[i].due = 0
  <1>1. DOMAIN q = 1 .. Len(q)
    OBVIOUS
  <1>2. \A n, mask : Dequeued(q, n, mask) \in SUBSET (1 .. Len(q))
    BY <1>1, Zenon DEF Dequeued
  <1> DEFINE over == {i \in DOMAIN q : q[i].due = 0}
  <1>3. over # {} => Min(over) \in over
    <2>1. over \in SUBSET Nat
      BY <1>1
    <2> HIDE DEF over
    <2> QED BY <2>1, LeastNat, Zenon
  <1>4. FirstTimedOut(q) = IF over = {} THEN {} ELSE {Min(over)}
    BY Zenon DEF FirstTimedOut
  <1> QED BY <1>1, <1>2, <1>3, <1>4, Zenon

\* Resumed threads are taken out of the queues.
LEMMA Resumed ==
  ASSUME SyscallInv, NEW A \in SUBSET Threads, running' = running \cup A,
         \A t \in A : In(sleeping, t) \/ \E f \in Futexes : In(waiting[f], t),
         \A t \in Threads : In(sleeping', t) <=> In(sleeping, t) /\ t \notin A,
         \A t \in Threads, f \in Futexes : In(waiting'[f], t) <=> In(waiting[f], t) /\ t \notin A
  PROVE  Apart'
  BY Zenon DEF SyscallInv, Apart

LEMMA ResumeTypes ==
  ASSUME SyscallInv, NEW A \in SUBSET Threads, NEW T \in SUBSET Threads, ResumeAll(A, T)
  PROVE  running' \subseteq Threads /\ woken' \in [Threads -> BOOLEAN]
  <1>1. running \subseteq Threads /\ woken \in [Threads -> BOOLEAN]
    BY Zenon DEF SyscallInv, TypeOK
  <1>2. \A t \in Threads : (IF t \in A THEN TRUE ELSE IF t \in T THEN FALSE ELSE woken[t]) \in BOOLEAN
    BY <1>1, Zenon
  <1> QED BY <1>1, <1>2, Zenon DEF ResumeAll

\* V is W without the waiters that stood at these places of one queue.
Removed(V, W, g, is) == V = [f \in Futexes |-> IF f = g THEN Without(W[g], is) ELSE W[f]]

\* Taking waiters out of the queue of one futex.
LEMMA TakenOutOf ==
  ASSUME NEW W \in [Futexes -> Seq(Waiter)], \A f \in Futexes : Once(W[f]),
         NEW g \in Futexes, NEW is \in SUBSET (1 .. Len(W[g])),
         NEW V, Removed(V, W, g, is)
  PROVE  /\ V \in [Futexes -> Seq(Waiter)] /\ \A f \in Futexes : Once(V[f])
         /\ At(W[g], is) \in SUBSET Threads
         /\ \A t \in At(W[g], is) : In(W[g], t)
         /\ \A f \in Futexes : \A t : In(V[f], t) <=> In(W[f], t) /\ ~ (f = g /\ t \in At(W[g], is))
  <1> DEFINE r == Without(W[g], is)
  <1>1. W[g] \in Seq(Waiter) /\ Once(W[g])
    BY Zenon
  <1>2. /\ r \in Seq(Waiter) /\ Once(r)
        /\ \A t : In(r, t) <=> In(W[g], t) /\ t \notin At(W[g], is)
        /\ At(W[g], is) \subseteq Threads
        /\ \A t \in At(W[g], is) : In(W[g], t)
    BY <1>1, TakenOut, Zenon
  <1> HIDE DEF r
  <1>3. V = [f \in Futexes |-> IF f = g THEN r ELSE W[f]]
    BY Zenon DEF r, Removed
  <1>4. V \in [Futexes -> Seq(Waiter)] /\ V[g] = r /\ \A f \in Futexes : f # g => V[f] = W[f]
    BY <1>2, <1>3, Zenon
  <1> QED BY <1>2, <1>4, Zenon

-----------------------------------------------------------------------------
(* The calls                                                               *)

\* The types of the queues and words, for the lemmas below.
LEMMA InvFacts ==
  ASSUME SyscallInv
  PROVE  /\ word \in [Futexes -> Word] /\ waiting \in [Futexes -> Seq(Waiter)]
         /\ sleeping \in Seq(Waiter) /\ running \subseteq Threads
         /\ woken \in [Threads -> BOOLEAN]
         /\ Once(sleeping) /\ \A f \in Futexes : waiting[f] \in Seq(Waiter) /\ Once(waiting[f])
  BY Zenon DEF SyscallInv, TypeOK, QueuesOnce

LEMMA handleSleepCallKeeps ==
  ASSUME SyscallInv, NEW t \in Threads, NEW d \in 0 .. MaxTimeout, handleSleepCall(t, d)
  PROVE  SyscallInv'
  <1> DEFINE w == [thread |-> t, mask |-> Bits, due |-> d]
  <1>1. /\ t \in running /\ sleeping' = Append(sleeping, w) /\ running' = running \ {t}
        /\ UNCHANGED <<word, waiting, woken>>
    BY Zenon DEF handleSleepCall
  <1>2. w \in Waiter /\ w.thread = t /\ w.due # Never
    <2>1. Bits \in Mask
      BY SyscallAssumption, Zenon DEF Mask
    <2>2. d \in Due /\ d # Never
      BY SyscallAssumption DEF Due, Never
    <2> QED BY <2>1, <2>2, Zenon DEF Waiter
  <1> HIDE DEF w
  <1>3. ~ In(sleeping, t) /\ \A f \in Futexes : ~ In(waiting[f], t)
    BY <1>1, Zenon DEF SyscallInv, Apart
  <1>4. /\ sleeping' \in Seq(Waiter) /\ Once(sleeping')
        /\ \A x : In(sleeping', x) <=> In(sleeping, x) \/ x = t
        /\ \A i \in 1 .. Len(sleeping') :
             sleeping'[i] = w \/ \E j \in 1 .. Len(sleeping) : sleeping'[i] = sleeping[j]
    BY <1>1, <1>2, <1>3, Enqueue, InvFacts
  <1>5. TypeOK'
    BY <1>1, <1>4, Zenon DEF SyscallInv, TypeOK
  <1>6. QueuesOnce'
    BY <1>1, <1>4, Zenon DEF SyscallInv, QueuesOnce
  <1>7. Apart'
    BY <1>1, <1>3, <1>4, Zenon DEF SyscallInv, Apart
  <1>8. SleepsEnd'
    BY <1>2, <1>4, Zenon DEF SyscallInv, SleepsEnd
  <1> QED BY <1>5, <1>6, <1>7, <1>8, Zenon DEF SyscallInv

LEMMA futexWaitKeeps ==
  ASSUME SyscallInv, NEW t \in Threads, NEW f \in Futexes, NEW val \in Word,
         NEW mask \in Mask, NEW d \in Due, futexWait(t, f, val, mask, d)
  PROVE  SyscallInv'
  <1> DEFINE w == [thread |-> t, mask |-> mask, due |-> d]
             q == waiting[f]
  <1>1. /\ t \in running /\ waiting' = [waiting EXCEPT ![f] = Append(q, w)]
        /\ running' = running \ {t} /\ UNCHANGED <<word, sleeping, woken>>
    BY Zenon DEF futexWait
  <1>2. w \in Waiter /\ w.thread = t
    BY Zenon DEF Waiter
  <1> HIDE DEF w
  <1>3. ~ In(sleeping, t) /\ \A g \in Futexes : ~ In(waiting[g], t)
    BY <1>1, Zenon DEF SyscallInv, Apart
  <1>4. /\ Append(q, w) \in Seq(Waiter) /\ Once(Append(q, w))
        /\ \A x : In(Append(q, w), x) <=> In(q, x) \/ x = t
    BY <1>2, <1>3, Enqueue, InvFacts, Zenon
  <1>5. /\ waiting' \in [Futexes -> Seq(Waiter)] /\ waiting'[f] = Append(q, w)
        /\ \A g \in Futexes : g # f => waiting'[g] = waiting[g]
    BY <1>1, <1>4, InvFacts, Zenon
  <1>6. /\ \A g \in Futexes : Once(waiting'[g])
        /\ \A g \in Futexes : \A x :
             In(waiting'[g], x) <=> In(waiting[g], x) \/ (g = f /\ x = t)
    BY <1>4, <1>5, InvFacts, Zenon
  <1>7. TypeOK'
    BY <1>1, <1>5, Zenon DEF SyscallInv, TypeOK
  <1>8. QueuesOnce'
    BY <1>1, <1>6, Zenon DEF SyscallInv, QueuesOnce
  <1>9. Apart'
    BY <1>1, <1>3, <1>6 DEF SyscallInv, Apart
  <1>10. SleepsEnd'
    BY <1>1, Zenon DEF SyscallInv, SleepsEnd
  <1> QED BY <1>7, <1>8, <1>9, <1>10, Zenon DEF SyscallInv

LEMMA futexWakeKeeps ==
  ASSUME SyscallInv, NEW t, NEW f \in Futexes, NEW n, futexWake(t, f, n)
  PROVE  SyscallInv'
  <1> DEFINE is == Dequeued(waiting[f], n, Bits)
             A == At(waiting[f], is)
  <1>1. /\ waiting' = [waiting EXCEPT ![f] = Without(@, is)]
        /\ ResumeAll(A, {}) /\ UNCHANGED <<word, sleeping>>
    BY Zenon DEF futexWake
  <1>2. is \in SUBSET (1 .. Len(waiting[f]))
    BY PlacesTaken, InvFacts, Zenon
  <1> HIDE DEF is
  <1>3. /\ waiting' \in [Futexes -> Seq(Waiter)] /\ \A g \in Futexes : Once(waiting'[g])
        /\ A \in SUBSET Threads
        /\ \A x \in A : In(waiting[f], x)
        /\ \A g \in Futexes : \A x : In(waiting'[g], x) <=> In(waiting[g], x) /\ ~ (g = f /\ x \in A)
    <2>1. Removed(waiting', waiting, f, is)
      BY <1>1, InvFacts, Zenon DEF Removed
    <2>2. waiting \in [Futexes -> Seq(Waiter)] /\ \A h \in Futexes : Once(waiting[h])
      BY InvFacts, Zenon
    <2> QED BY <1>2, <2>1, <2>2, TakenOutOf, Zenon
  <1> HIDE DEF A
  <1>4. running' = running \cup A
    BY <1>1, Zenon DEF ResumeAll
  <1>5. running' \subseteq Threads /\ woken' \in [Threads -> BOOLEAN]
    BY <1>1, <1>3, ResumeTypes, Zenon
  <1>6. TypeOK'
    BY <1>1, <1>3, <1>5, Zenon DEF SyscallInv, TypeOK
  <1>7. QueuesOnce'
    BY <1>1, <1>3, Zenon DEF SyscallInv, QueuesOnce
  <1>8. \A x \in A : ~ In(sleeping, x) /\ \A g \in Futexes : In(waiting[g], x) => g = f
    BY <1>3, Zenon DEF SyscallInv, Apart
  <1>9. Apart'
    BY <1>1, <1>3, <1>4, <1>8, Resumed, Zenon
  <1>10. SleepsEnd'
    BY <1>1, Zenon DEF SyscallInv, SleepsEnd
  <1> QED BY <1>6, <1>7, <1>9, <1>10, Zenon DEF SyscallInv

\* The word of a futex keeps its width.
LEMMA DoOpType ==
  ASSUME NEW op \in {"SET", "ADD", "OR", "ANDN", "XOR"}, NEW old \in Word, NEW arg \in {0, 1}
  PROVE  DoOp(op, old, arg) \in Word
  BY DEF DoOp, Word

LEMMA futexWakeOpKeeps ==
  ASSUME SyscallInv, NEW t, NEW f \in Futexes, NEW g \in Futexes, NEW n, NEW n2,
         NEW enc \in WakeOps, futexWakeOp(t, f, g, n, n2, enc)
  PROVE  SyscallInv'
  <1> DEFINE is == Dequeued(waiting[f], n, Bits)
             mid == [waiting EXCEPT ![f] = Without(@, is)]
             js == IF DoCmp(enc.cmp, word[g], enc.cmparg) THEN Dequeued(mid[g], n2, Bits) ELSE {}
             A == At(waiting[f], is)
             B == At(mid[g], js)
  <1>1. /\ word' = [word EXCEPT ![g] = DoOp(enc.op, @, enc.oparg)]
        /\ waiting' = [mid EXCEPT ![g] = Without(@, js)]
        /\ ResumeAll(A \cup B, {})
        /\ sleeping' = sleeping
    BY Zenon DEF futexWakeOp
  <1>2. is \in SUBSET (1 .. Len(waiting[f]))
    BY PlacesTaken, InvFacts, Zenon
  <1> HIDE DEF is
  <1>3. /\ mid \in [Futexes -> Seq(Waiter)] /\ \A h \in Futexes : Once(mid[h])
        /\ A \in SUBSET Threads
        /\ \A x \in A : In(waiting[f], x)
        /\ \A h \in Futexes : \A x : In(mid[h], x) <=> In(waiting[h], x) /\ ~ (h = f /\ x \in A)
    <2>1. Removed(mid, waiting, f, is)
      BY InvFacts, Zenon DEF Removed
    <2>2. waiting \in [Futexes -> Seq(Waiter)] /\ \A h \in Futexes : Once(waiting[h])
      BY InvFacts, Zenon
    <2> HIDE DEF mid
    <2> QED BY <1>2, <2>1, <2>2, TakenOutOf, Zenon
  <1> HIDE DEF mid, A
  <1>4. js \in SUBSET (1 .. Len(mid[g]))
    BY <1>3, PlacesTaken, Zenon
  <1> HIDE DEF js
  <1>5. /\ waiting' \in [Futexes -> Seq(Waiter)] /\ \A h \in Futexes : Once(waiting'[h])
        /\ B \in SUBSET Threads
        /\ \A x \in B : In(mid[g], x)
        /\ \A h \in Futexes : \A x : In(waiting'[h], x) <=> In(mid[h], x) /\ ~ (h = g /\ x \in B)
    <2>1. Removed(waiting', mid, g, js)
      BY <1>1, <1>3, Zenon DEF Removed
    <2> QED BY <1>3, <1>4, <2>1, TakenOutOf, Zenon
  <1> HIDE DEF B
  <1>6. running' = running \cup (A \cup B) /\ A \cup B \in SUBSET Threads
    BY <1>1, <1>3, <1>5, Zenon DEF ResumeAll
  <1>7. running' \subseteq Threads /\ woken' \in [Threads -> BOOLEAN]
    BY <1>1, <1>6, ResumeTypes
  <1>8. word' \in [Futexes -> Word]
    <2>1. DoOp(enc.op, word[g], enc.oparg) \in Word
      BY DoOpType, InvFacts, SyscallAssumption, Zenon
    <2> QED BY <1>1, <2>1, InvFacts, Zenon
  <1>9. TypeOK'
    BY <1>1, <1>5, <1>7, <1>8, Zenon DEF SyscallInv, TypeOK
  <1>10. QueuesOnce'
    BY <1>1, <1>5, Zenon DEF SyscallInv, QueuesOnce
  <1>11. \A x \in A : ~ In(sleeping, x) /\ \A h \in Futexes : In(waiting[h], x) => h = f
    BY <1>3, Zenon DEF SyscallInv, Apart
  <1>12. \A x \in B : ~ In(sleeping, x) /\ \A h \in Futexes : In(waiting[h], x) => h = g
    BY <1>3, <1>5, Zenon DEF SyscallInv, Apart
  <1>13. \A x \in Threads, h \in Futexes :
           In(waiting'[h], x) <=> In(waiting[h], x) /\ x \notin A \cup B
    BY <1>3, <1>5, <1>11, <1>12, Zenon
  <1>14. Apart'
    <2>1. \A x \in A \cup B : ~ In(sleeping, x) /\ \E h \in Futexes : In(waiting[h], x)
      BY <1>3, <1>5, <1>11, <1>12, Zenon
    <2>2. \A x \in Threads : In(sleeping', x) <=> In(sleeping, x) /\ x \notin A \cup B
      BY <1>1, <2>1, Zenon
    <2>3. \A x \in A \cup B : In(sleeping, x) \/ \E h \in Futexes : In(waiting[h], x)
      BY <2>1, Zenon
    <2> QED BY <1>6, <1>13, <2>2, <2>3, Resumed, Zenon
  <1>15. SleepsEnd'
    BY <1>1, Zenon DEF SyscallInv, SleepsEnd
  <1> QED BY <1>9, <1>10, <1>14, <1>15, Zenon DEF SyscallInv

LEMMA futexCmpRequeueKeeps ==
  ASSUME SyscallInv, NEW t, NEW f \in Futexes, NEW g \in Futexes, NEW n, NEW val,
         futexCmpRequeue(t, f, g, n, val)
  PROVE  SyscallInv'
  <1> DEFINE is == Dequeued(waiting[f], n, Bits)
             A == At(waiting[f], is)
             r == Without(waiting[f], is)
             p == waiting[g] \o r
  <1>1. /\ f # g /\ waiting' = [waiting EXCEPT ![f] = << >>, ![g] = p]
        /\ ResumeAll(A, {}) /\ UNCHANGED <<word, sleeping>>
    BY Zenon DEF futexCmpRequeue
  <1>2. is \in SUBSET (1 .. Len(waiting[f]))
    BY PlacesTaken, InvFacts, Zenon
  <1> HIDE DEF is
  <1>3. /\ r \in Seq(Waiter) /\ Once(r) /\ A \in SUBSET Threads
        /\ \A x : In(r, x) <=> In(waiting[f], x) /\ x \notin A
        /\ \A x \in A : In(waiting[f], x)
    BY <1>2, TakenOut, InvFacts, Zenon
  <1> HIDE DEF A, r
  <1>4. \A h \in Futexes : \A x : In(waiting[h], x) => x \in Threads
    <2>1. \A w \in Waiter : w.thread \in Threads
      BY Zenon DEF Waiter
    <2>2. \A h \in Futexes : \A i \in 1 .. Len(waiting[h]) : waiting[h][i] \in Waiter
      BY InvFacts
    <2> QED BY <2>1, <2>2, Zenon DEF In
  <1>5. \A x : ~ (In(waiting[g], x) /\ In(r, x))
    BY <1>1, <1>3, <1>4, Zenon DEF SyscallInv, Apart
  <1>6. /\ p \in Seq(Waiter) /\ Once(p)
        /\ \A x : In(p, x) <=> In(waiting[g], x) \/ In(r, x)
    BY <1>3, <1>5, Joined, InvFacts, Zenon
  <1> HIDE DEF p
  <1>7. /\ waiting' \in [Futexes -> Seq(Waiter)] /\ waiting'[f] = << >> /\ waiting'[g] = p
        /\ \A h \in Futexes : h # f /\ h # g => waiting'[h] = waiting[h]
    <2>1. waiting \in [Futexes -> Seq(Waiter)] /\ << >> \in Seq(Waiter) /\ p \in Seq(Waiter)
      BY <1>6, InvFacts
    <2> DEFINE e == << >>
               Q == Seq(Waiter)
    <2> HIDE DEF e, Q
    <2>2. waiting \in [Futexes -> Q] /\ e \in Q /\ p \in Q
      BY <2>1, Zenon DEF e, Q
    <2>3. waiting' = [waiting EXCEPT ![f] = e, ![g] = p] /\ f # g
      BY <1>1, Zenon DEF e
    <2>4. /\ waiting' \in [Futexes -> Q] /\ waiting'[f] = e /\ waiting'[g] = p
          /\ \A h \in Futexes : h # f /\ h # g => waiting'[h] = waiting[h]
      BY <2>2, <2>3, Zenon
    <2> QED BY <2>4, Zenon DEF e, Q
  <1>8. /\ \A h \in Futexes : Once(waiting'[h])
        /\ \A h \in Futexes : \A x :
             In(waiting'[h], x) <=>
               /\ h # f
               /\ In(waiting[h], x) \/ (h = g /\ In(waiting[f], x) /\ x \notin A)
    BY <1>1, <1>3, <1>6, <1>7, EmptyQueue, InvFacts, Zenon
  <1>9. running' = running \cup A
    BY <1>1, Zenon DEF ResumeAll
  <1>10. running' \subseteq Threads /\ woken' \in [Threads -> BOOLEAN]
    BY <1>1, <1>3, ResumeTypes, Zenon
  <1>11. TypeOK'
    BY <1>1, <1>7, <1>10, Zenon DEF SyscallInv, TypeOK
  <1>12. QueuesOnce'
    BY <1>1, <1>8, Zenon DEF SyscallInv, QueuesOnce
  <1>13. Apart'
    <2> SUFFICES ASSUME NEW x \in Threads
                 PROVE  /\ x \in running' <=>
                             ~ In(sleeping, x) /\ \A h \in Futexes : ~ In(waiting'[h], x)
                        /\ \A h \in Futexes : In(waiting'[h], x) =>
                             ~ In(sleeping, x) /\ \A k \in Futexes : In(waiting'[k], x) => k = h
      BY <1>1, Zenon DEF Apart
    <2>1. /\ x \in running <=>
               ~ In(sleeping, x) /\ \A h \in Futexes : ~ In(waiting[h], x)
          /\ \A h \in Futexes : In(waiting[h], x) =>
               ~ In(sleeping, x) /\ \A k \in Futexes : In(waiting[k], x) => k = h
      BY Zenon DEF SyscallInv, Apart
    <2>2. CASE In(waiting[f], x)
      BY <1>1, <1>3, <1>8, <1>9, <2>1, <2>2, Zenon
    <2>3. CASE ~ In(waiting[f], x)
      BY <1>1, <1>3, <1>8, <1>9, <2>1, <2>3, Zenon
    <2> QED BY <2>2, <2>3
  <1>14. SleepsEnd'
    BY <1>1, Zenon DEF SyscallInv, SleepsEnd
  <1> QED BY <1>11, <1>12, <1>13, <1>14, Zenon DEF SyscallInv

LEMMA StoreKeeps ==
  ASSUME SyscallInv, NEW t, NEW f \in Futexes, NEW val \in Word, Store(t, f, val)
  PROVE  SyscallInv'
  BY Zenon DEF SyscallInv, Store, TypeOK, QueuesOnce, Apart, SleepsEnd

\* Time passes for a queue: who is taken out has timed out.
LEMMA Elapsed ==
  ASSUME NEW q \in Seq(Waiter), Once(q), NEW a, a = Aged(q), NEW r,
         r = Without(a, FirstTimedOut(a)), NEW A, A = At(a, FirstTimedOut(a))
  PROVE  /\ r \in Seq(Waiter) /\ Once(r) /\ A \in SUBSET Threads
         /\ \A t : In(r, t) <=> In(q, t) /\ t \notin A
         /\ \A t \in A : In(q, t)
         /\ \A i \in 1 .. Len(q) : q[i].thread \in A => q[i].due \in {0, 1}
         /\ (\A i \in 1 .. Len(q) : q[i].due # Never) => \A k \in 1 .. Len(r) : r[k].due # Never
  <1> DEFINE is == FirstTimedOut(a)
  <1>1. /\ a \in Seq(Waiter) /\ Len(a) = Len(q) /\ Once(a) /\ \A t : In(a, t) <=> In(q, t)
        /\ \A i \in 1 .. Len(q) :
              /\ a[i].thread = q[i].thread
              /\ a[i].due = Never <=> q[i].due = Never
              /\ a[i].due = 0 => q[i].due \in {0, 1}
    BY AgedQueue, Zenon
  <1>2. is \in SUBSET (1 .. Len(a)) /\ \A i \in is : a[i].due = 0
    BY <1>1, PlacesTaken, Zenon
  <1> HIDE DEF is
  <1>3. /\ r \in Seq(Waiter) /\ Once(r) /\ A \subseteq Threads
        /\ \A t : In(r, t) <=> In(a, t) /\ t \notin A
        /\ \A t \in A : In(a, t)
        /\ \A k \in 1 .. Len(r) : \E i \in 1 .. Len(a) : r[k] = a[i]
    <2> DEFINE v == Without(a, is)
               B == At(a, is)
    <2>1. /\ v \in Seq(Waiter) /\ Once(v) /\ B \subseteq Threads
          /\ \A t : In(v, t) <=> In(a, t) /\ t \notin B
          /\ \A t \in B : In(a, t)
          /\ \A k \in 1 .. Len(v) : \E i \in 1 .. Len(a) : v[k] = a[i]
      <3>1. a \in Seq(Waiter) /\ is \in SUBSET (1 .. Len(a)) /\ Once(a)
        BY <1>1, <1>2, Zenon
      <3> QED BY <3>1, TakenOut, Zenon
    <2>2. r = v /\ A = B
      BY Zenon DEF is
    <2> HIDE DEF v, B
    <2> QED BY <2>1, <2>2
  <1>4. \A i \in 1 .. Len(q) : q[i].thread \in A => q[i].due \in {0, 1}
    <2> SUFFICES ASSUME NEW i \in 1 .. Len(q), q[i].thread \in A
                 PROVE  q[i].due \in {0, 1}
      BY Zenon
    <2>1. A = {a[j].thread : j \in is}
      BY Zenon DEF At, is
    <2>2. PICK j \in is : q[i].thread = a[j].thread
      BY <2>1, Zenon
    <2>3. j \in 1 .. Len(q) /\ q[i].thread = q[j].thread /\ a[j].due = 0
      BY <1>1, <1>2, <2>2, Zenon
    <2>4. i = j
      BY <2>3, Zenon DEF Once
    <2> QED BY <1>1, <2>3, <2>4, Zenon
  <1> QED BY <1>1, <1>3, <1>4, SMTT(30)

LEMMA futexPeriodicKeeps ==
  ASSUME SyscallInv, futexPeriodic
  PROVE  SyscallInv'
  <1> DEFINE a(f) == Aged(waiting[f])
             A(f) == At(a(f), FirstTimedOut(a(f)))
             s == Aged(sleeping)
             S == At(s, FirstTimedOut(s))
             T == S \cup UNION {A(f) : f \in Futexes}
  <1>1. /\ waiting' = [f \in Futexes |-> Without(a(f), FirstTimedOut(a(f)))]
        /\ sleeping' = Without(s, FirstTimedOut(s))
        /\ ResumeAll({}, T) /\ word' = word
    BY Zenon DEF futexPeriodic
  <1>2. /\ sleeping' \in Seq(Waiter) /\ Once(sleeping') /\ S \in SUBSET Threads
        /\ \A x : In(sleeping', x) <=> In(sleeping, x) /\ x \notin S
        /\ \A x \in S : In(sleeping, x)
        /\ \A k \in 1 .. Len(sleeping') : sleeping'[k].due # Never
    BY <1>1, Elapsed, InvFacts DEF SyscallInv, SleepsEnd
  <1>3. ASSUME NEW f \in Futexes
        PROVE  /\ waiting'[f] \in Seq(Waiter) /\ Once(waiting'[f]) /\ A(f) \in SUBSET Threads
               /\ \A x : In(waiting'[f], x) <=> In(waiting[f], x) /\ x \notin A(f)
               /\ \A x \in A(f) : In(waiting[f], x)
    <2>1. waiting'[f] = Without(a(f), FirstTimedOut(a(f)))
      BY <1>1, Zenon
    <2> QED BY <2>1, Elapsed, InvFacts
  <1>4. waiting' \in [Futexes -> Seq(Waiter)]
    <2>1. waiting' = [f \in Futexes |-> waiting'[f]]
      BY <1>1, Zenon
    <2> HIDE DEF a
    <2> QED BY <1>3, <2>1, Zenon
  <1> HIDE DEF a, A, s, S
  <1>5. T \in SUBSET Threads /\ \A x : x \in T <=> x \in S \/ \E f \in Futexes : x \in A(f)
    BY <1>2, <1>3, Zenon
  <1> HIDE DEF T
  <1>6. running' = running \cup T
    BY <1>1, Zenon DEF ResumeAll
  <1>7. running' \subseteq Threads /\ woken' \in [Threads -> BOOLEAN]
    BY <1>1, <1>5, ResumeTypes, Zenon
  <1>8. TypeOK'
    BY <1>1, <1>2, <1>4, <1>7, Zenon DEF SyscallInv, TypeOK
  <1>9. QueuesOnce'
    BY <1>2, <1>3, Zenon DEF QueuesOnce
  <1>10. \A x \in Threads : In(sleeping', x) <=> In(sleeping, x) /\ x \notin T
    BY <1>2, <1>3, <1>5, Zenon DEF SyscallInv, Apart
  <1>11. \A x \in Threads, f \in Futexes : In(waiting'[f], x) <=> In(waiting[f], x) /\ x \notin T
    BY <1>2, <1>3, <1>5, SMTT(30) DEF SyscallInv, Apart
  <1>12. \A x \in T : In(sleeping, x) \/ \E f \in Futexes : In(waiting[f], x)
    BY <1>2, <1>3, <1>5, Zenon
  <1>13. Apart'
    BY <1>5, <1>6, <1>10, <1>11, <1>12, Resumed, Zenon
  <1>14. SleepsEnd'
    BY <1>2, Zenon DEF SleepsEnd
  <1> QED BY <1>8, <1>9, <1>13, <1>14, Zenon DEF SyscallInv

-----------------------------------------------------------------------------
(* The invariant                                                           *)

LEMMA InitInv == Init => SyscallInv
  <1> SUFFICES ASSUME Init PROVE SyscallInv
    BY Zenon
  <1>1. TypeOK
    BY DEF Init, TypeOK, Word
  <1>2. QueuesOnce
    BY EmptyQueue, Zenon DEF Init, QueuesOnce
  <1>3. Apart
    BY EmptyQueue, Zenon DEF Init, Apart
  <1>4. SleepsEnd
    BY DEF Init, SleepsEnd
  <1> QED BY <1>1, <1>2, <1>3, <1>4, Zenon DEF SyscallInv

LEMMA NextInv == SyscallInv /\ [Next]_vars => SyscallInv'
  <1> SUFFICES ASSUME SyscallInv, [Next]_vars PROVE SyscallInv'
    BY Zenon
  <1>1. CASE \E t \in Threads, d \in 0 .. MaxTimeout : handleSleepCall(t, d)
    BY <1>1, handleSleepCallKeeps, Zenon
  <1>2. CASE \E t \in Threads, f \in Futexes, val \in Word, mask \in Mask, d \in Due :
               futexWait(t, f, val, mask, d)
    BY <1>2, futexWaitKeeps, Zenon
  <1>3. CASE \E t \in Threads, f \in Futexes, n \in 1 .. Cardinality(Threads) : futexWake(t, f, n)
    BY <1>3, futexWakeKeeps, Zenon
  <1>4. CASE \E t \in Threads, f, g \in Futexes, n, n2 \in 0 .. 1, enc \in WakeOps :
               futexWakeOp(t, f, g, n, n2, enc)
    BY <1>4, futexWakeOpKeeps, Zenon
  <1>5. CASE \E t \in Threads : Requeue(t)
    BY <1>5, futexCmpRequeueKeeps, Zenon DEF Requeue
  <1>6. CASE \E t \in Threads, f \in Futexes, val \in Word : Store(t, f, val)
    BY <1>6, StoreKeeps, Zenon
  <1>7. CASE futexPeriodic
    BY <1>7, futexPeriodicKeeps, Zenon
  <1>8. CASE UNCHANGED vars
    BY <1>8, Zenon DEF SyscallInv, vars, TypeOK, QueuesOnce, Apart, SleepsEnd
  <1> QED BY <1>1, <1>2, <1>3, <1>4, <1>5, <1>6, <1>7, <1>8, Zenon DEF Next

\* The queues of the emulated futexes and of nanosleep, for any number of
\* threads, futexes and mask bits: they hold each thread at most once, no
\* running thread, and every stalled one.
THEOREM SyscallInvAlways == Spec => []SyscallInv
  <1>1. Init => SyscallInv
    BY InitInv, Zenon
  <1>2. SyscallInv /\ [Next]_vars => SyscallInv'
    BY NextInv, Zenon
  <1> QED BY <1>1, <1>2, PTL DEF Spec

\* Every variable keeps its type; in particular FUTEX_WAKE_OP keeps the width of
\* the word and requeueing makes queues of waiters.
THEOREM TypeCorrect == Spec => []TypeOK
  <1>1. SyscallInv => TypeOK
    BY Zenon DEF SyscallInv
  <1> QED BY <1>1, SyscallInvAlways, PTL

\* The places of a thread, in terms of the queues it is in.
LEMMA PlacesIn ==
  ASSUME SyscallInv, NEW t \in Threads
  PROVE  /\ \A i : i \in 1 .. Len(sleeping) /\ sleeping[i].thread = t => <<"sleeping", i>> \in Places(t)
         /\ \A f \in Futexes : \A i : i \in 1 .. Len(waiting[f]) /\ waiting[f][i].thread = t =>
              <<"futex", f, i>> \in Places(t)
         /\ \A p \in Places(t) :
              \/ \E i \in 1 .. Len(sleeping) : p = <<"sleeping", i>> /\ sleeping[i].thread = t
              \/ \E f \in Futexes : \E i \in 1 .. Len(waiting[f]) :
                   p = <<"futex", f, i>> /\ waiting[f][i].thread = t
  <1> DEFINE W(f) == {<<"futex", f, i>> : i \in {i \in 1 .. Len(waiting[f]) : waiting[f][i].thread = t}}
             A == {<<"sleeping", i>> : i \in {i \in 1 .. Len(sleeping) : sleeping[i].thread = t}}
  <1>1. DOMAIN sleeping = 1 .. Len(sleeping) /\ \A f \in Futexes : DOMAIN waiting[f] = 1 .. Len(waiting[f])
    BY InvFacts
  <1>2. Places(t) = A \cup UNION {W(f) : f \in Futexes}
    <2> DEFINE F(f) == {i \in DOMAIN waiting[f] : waiting[f][i].thread = t}
               G(f) == {<<"futex", f, i>> : i \in F(f)}
               S == {i \in DOMAIN sleeping : sleeping[i].thread = t}
    <2>1. Places(t) = {<<"sleeping", i>> : i \in S} \cup UNION {G(f) : f \in Futexes}
      BY Zenon DEF Places
    <2>2. \A f \in Futexes : G(f) = W(f)
      <3>1. \A f \in Futexes : F(f) = {i \in 1 .. Len(waiting[f]) : waiting[f][i].thread = t}
        BY <1>1, Zenon
      <3> HIDE DEF F
      <3> QED BY <3>1, Zenon
    <2>3. {<<"sleeping", i>> : i \in S} = A
      BY <1>1, Zenon
    <2> HIDE DEF G, S, W, A
    <2>4. UNION {G(f) : f \in Futexes} = UNION {W(f) : f \in Futexes}
      BY <2>2, Zenon
    <2> QED BY <2>1, <2>3, <2>4, Zenon
  <1>3. \A f \in Futexes : \A i : i \in 1 .. Len(waiting[f]) /\ waiting[f][i].thread = t =>
          <<"futex", f, i>> \in W(f)
    BY Zenon
  <1>4. \A f \in Futexes : \A p \in W(f) : \E i \in 1 .. Len(waiting[f]) :
          p = <<"futex", f, i>> /\ waiting[f][i].thread = t
    BY Zenon
  <1>5. /\ \A i : i \in 1 .. Len(sleeping) /\ sleeping[i].thread = t => <<"sleeping", i>> \in A
        /\ \A p \in A : \E i \in 1 .. Len(sleeping) : p = <<"sleeping", i>> /\ sleeping[i].thread = t
    BY Zenon
  <1> HIDE DEF W, A
  <1> QED BY <1>2, <1>3, <1>4, <1>5

\* Waking, timing out, requeueing and lining up neither lose nor double a
\* waiter: a stalled thread has one place, a running one none.
THEOREM EntriesUnique == Spec => []OneEntryEach
  <1>1. ASSUME SyscallInv PROVE OneEntryEach
    <2> SUFFICES ASSUME NEW t \in Threads
                 PROVE  IF t \in running THEN Places(t) = {}
                        ELSE \E p \in Places(t) : Places(t) = {p}
      BY Zenon DEF OneEntryEach
    <2>1. CASE t \in running
      <3>1. ~ In(sleeping, t) /\ \A f \in Futexes : ~ In(waiting[f], t)
        BY <1>1, <2>1, Zenon DEF SyscallInv, Apart
      <3>2. Places(t) = {}
        BY <1>1, <3>1, PlacesIn DEF In
      <3> QED BY <2>1, <3>2, Zenon
    <2>2. CASE t \notin running /\ In(sleeping, t)
      <3>1. \A f \in Futexes : ~ In(waiting[f], t)
        BY <1>1, <2>2, Zenon DEF SyscallInv, Apart
      <3>2. PICK i \in 1 .. Len(sleeping) : sleeping[i].thread = t
        BY <2>2, Zenon DEF In
      <3>3. \A j \in 1 .. Len(sleeping) : sleeping[j].thread = t => j = i
        BY <1>1, <3>2, Zenon DEF SyscallInv, QueuesOnce, Once
      <3>4. <<"sleeping", i>> \in Places(t)
        BY <1>1, <3>2, PlacesIn, Zenon
      <3>5. \A p \in Places(t) : p = <<"sleeping", i>>
        BY <1>1, <3>1, <3>3, PlacesIn, Zenon DEF In
      <3>6. Places(t) = {<<"sleeping", i>>}
        BY <3>4, <3>5, Zenon
      <3> QED BY <2>2, <3>4, <3>6, Zenon
    <2>3. CASE t \notin running /\ ~ In(sleeping, t)
      <3>1. PICK f \in Futexes : In(waiting[f], t)
        BY <1>1, <2>3, Zenon DEF SyscallInv, Apart
      <3>2. \A g \in Futexes : In(waiting[g], t) => g = f
        BY <1>1, <3>1, Zenon DEF SyscallInv, Apart
      <3>3. PICK i \in 1 .. Len(waiting[f]) : waiting[f][i].thread = t
        BY <3>1, Zenon DEF In
      <3>4. \A j \in 1 .. Len(waiting[f]) : waiting[f][j].thread = t => j = i
        BY <1>1, <3>3, Zenon DEF SyscallInv, QueuesOnce, Once
      <3>5. <<"futex", f, i>> \in Places(t)
        BY <1>1, <3>3, PlacesIn, Zenon
      <3>6. \A p \in Places(t) : p = <<"futex", f, i>>
        BY <1>1, <2>3, <3>2, <3>4, PlacesIn DEF In
      <3>7. Places(t) = {<<"futex", f, i>>}
        BY <3>5, <3>6, Zenon
      <3> QED BY <2>3, <3>5, <3>7, Zenon
    <2> QED BY <2>1, <2>2, <2>3, Zenon
  <1> QED BY <1>1, SyscallInvAlways, PTL

-----------------------------------------------------------------------------
(* Timeouts                                                                *)

\* getNextTimeout() of one queue finds a time exactly if somebody there has one.
LEMMA NextTimeoutOf ==
  ASSUME NEW q \in Seq(Waiter)
  PROVE  /\ NextTimeout(q) \in 0 .. Never
         /\ NextTimeout(q) < Never <=> \E i \in 1 .. Len(q) : q[i].due # Never
  <1> DEFINE finite == {i \in 1 .. Len(q) : q[i].due # Never}
  <1>1. Never \in Nat /\ Due = 0 .. Never
    BY SyscallAssumption DEF Never, Due
  <1>2. \A w \in Waiter : w.due \in 0 .. Never
    BY <1>1, Zenon DEF Waiter
  <1>3. Len(q) \in Nat /\ DOMAIN q = 1 .. Len(q) /\ \A i \in 1 .. Len(q) : q[i].due \in 0 .. Never
    BY <1>2
  <1>4. NextTimeout(q) = IF finite = {} THEN Never ELSE q[Max(finite)].due
    BY <1>3, Zenon DEF NextTimeout
  <1>5. finite # {} => Max(finite) \in finite
    <2>1. finite \in SUBSET (1 .. Len(q))
      BY Zenon
    <2> HIDE DEF finite
    <2> QED BY <1>3, <2>1, LastPlace, Zenon
  <1>6. CASE finite = {}
    BY <1>1, <1>4, <1>6
  <1>7. CASE finite # {}
    <2>1. Max(finite) \in 1 .. Len(q) /\ q[Max(finite)].due # Never
      BY <1>5, <1>7, Zenon
    <2> HIDE DEF finite
    <2> QED BY <1>1, <1>3, <1>4, <1>7, <2>1, SMTT(30)
  <1> QED BY <1>6, <1>7, Zenon

\* The time that the barrier asks for exists exactly if somebody waits with a
\* timeout, so that a deadlock of the application is reported only if nobody is
\* going to be woken by the passing of time.
THEOREM TimeoutKnown == Spec => []NextTimeoutExists
  <1>1. ASSUME SyscallInv PROVE NextTimeoutExists
    <2> DEFINE N(f) == NextTimeout(waiting[f])
               s == NextTimeout(sleeping)
               M == {s} \cup {N(f) : f \in Futexes}
               timed == \E f \in Futexes : \E i \in DOMAIN waiting[f] : waiting[f][i].due # Never
    <2>1. Never \in Nat
      BY SyscallAssumption DEF Never
    <2>2. s \in 0 .. Never /\ (s < Never <=> sleeping # << >>)
      <3>1. sleeping \in Seq(Waiter) /\ \A i \in 1 .. Len(sleeping) : sleeping[i].due # Never
        BY <1>1, Zenon DEF SyscallInv, TypeOK, SleepsEnd
      <3>2. sleeping # << >> <=> \E i \in 1 .. Len(sleeping) : TRUE
        BY <3>1
      <3> QED BY <3>1, <3>2, NextTimeoutOf, Zenon
    <2>3. \A f \in Futexes : /\ N(f) \in 0 .. Never
                             /\ N(f) < Never <=> \E i \in DOMAIN waiting[f] : waiting[f][i].due # Never
      <3>1. \A f \in Futexes : waiting[f] \in Seq(Waiter) /\ DOMAIN waiting[f] = 1 .. Len(waiting[f])
        BY <1>1, InvFacts
      <3> QED BY <3>1, NextTimeoutOf, Zenon
    <2>4. getNextTimeout = Min(M)
      BY Zenon DEF getNextTimeout
    <2> HIDE DEF N, s
    <2>5. M \in SUBSET Nat /\ M # {}
      BY <2>1, <2>2, <2>3
    <2>6. Min(M) \in M /\ \A y \in M : Min(M) <= y
      BY <2>5, LeastNat, Zenon
    <2>7. Min(M) < Never <=> s < Never \/ \E f \in Futexes : N(f) < Never
      <3> DEFINE m == Min(M)
      <3>1. m \in M /\ \A y \in M : m <= y
        BY <2>6, Zenon
      <3> HIDE DEF m
      <3>2. m \in Nat /\ m <= s /\ \A f \in Futexes : m <= N(f)
        BY <2>5, <3>1, Zenon
      <3>3. m = s \/ \E f \in Futexes : m = N(f)
        BY <3>1, Zenon
      <3>4. m < Never <=> s < Never \/ \E f \in Futexes : N(f) < Never
        BY <2>1, <2>2, <2>3, <3>2, <3>3, SMTT(30)
      <3> QED BY <3>4, Zenon DEF m
    <2> QED BY <2>2, <2>3, <2>4, <2>7, Zenon DEF NextTimeoutExists
  <1> QED BY <1>1, SyscallInvAlways, PTL

-----------------------------------------------------------------------------
(* Who is resumed, and how                                                 *)

\* The first waiters are woken: nobody stands before one who is.
LEMMA FirstOnes ==
  ASSUME NEW q \in Seq(Waiter), NEW n \in Nat, NEW j \in Dequeued(q, n, Bits),
         NEW i \in 1 .. Len(q), i < j
  PROVE  i \in Dequeued(q, n, Bits)
  <1> DEFINE match == {k \in DOMAIN q : q[k].mask \cap Bits # {}}
             Before(k) == {l \in match : l < k}
  <1>1. DOMAIN q = 1 .. Len(q) /\ Len(q) \in Nat
    OBVIOUS
  <1>2. \A w \in Waiter : w.mask \cap Bits # {}
    <2>1. \A m \in Mask : m \cap Bits # {}
      BY Zenon DEF Mask
    <2> QED BY <2>1, Zenon DEF Waiter
  <1>3. match = 1 .. Len(q)
    BY <1>1, <1>2
  <1>4. Dequeued(q, n, Bits) = {k \in match : Cardinality(Before(k)) < n}
    BY Zenon DEF Dequeued
  <1> HIDE DEF match
  <1>5. j \in match /\ Cardinality(Before(j)) < n
    BY <1>4, Zenon
  <1>6. IsFiniteSet(Before(j))
    <2>1. IsFiniteSet(1 .. Len(q))
      BY <1>1, FS_Interval
    <2>2. Before(j) \in SUBSET (1 .. Len(q))
      BY <1>3, Zenon
    <2> HIDE DEF Before
    <2> QED BY <2>1, <2>2, FS_Subset, Zenon
  <1>7. Before(i) \in SUBSET Before(j)
    BY <1>3, <1>5
  <1>8. Cardinality(Before(i)) <= Cardinality(Before(j)) /\ IsFiniteSet(Before(i))
    <2> HIDE DEF Before
    <2> QED BY <1>6, <1>7, FS_Subset, Zenon
  <1>9. Cardinality(Before(i)) \in Nat /\ Cardinality(Before(j)) \in Nat
    <2> HIDE DEF Before
    <2> QED BY <1>6, <1>8, FS_CardinalityType, Zenon
  <1>10. Cardinality(Before(i)) < n
    <2> HIDE DEF Before
    <2> QED BY <1>5, <1>8, <1>9
  <1> QED BY <1>3, <1>4, <1>10, Zenon

\* ... which also holds for the threads,
LEMMA FirstThreads ==
  ASSUME NEW q \in Seq(Waiter), Once(q), NEW n \in Nat, NEW i \in 1 .. Len(q),
         NEW j \in 1 .. Len(q), i < j, NEW A, A = At(q, Dequeued(q, n, Bits)), q[j].thread \in A
  PROVE  q[i].thread \in A
  <1> DEFINE is == Dequeued(q, n, Bits)
  <1>1. A = {q[k].thread : k \in is} /\ is \in SUBSET (1 .. Len(q))
    BY PlacesTaken, Zenon DEF At
  <1>2. is = Dequeued(q, n, Bits)
    BY Zenon
  <1> HIDE DEF is
  <1>3. PICK k \in is : q[j].thread = q[k].thread
    BY <1>1, Zenon
  <1>4. k = j
    BY <1>1, <1>3, Zenon DEF Once
  <1>5. i \in is
    BY <1>2, <1>3, <1>4, FirstOnes, Zenon
  <1> QED BY <1>1, <1>5, Zenon

\* ... and if FUTEX_WAKE_OP wakes waiters of the same futex a second time.
LEMMA FirstThreadsTwice ==
  ASSUME NEW q \in Seq(Waiter), Once(q), NEW n \in Nat, NEW n2 \in Nat, NEW i \in 1 .. Len(q),
         NEW j \in 1 .. Len(q), i < j,
         NEW is, is = Dequeued(q, n, Bits), NEW r, r = Without(q, is),
         NEW B, B = At(r, Dequeued(r, n2, Bits)), q[j].thread \in B
  PROVE  q[i].thread \in At(q, is) \cup B
  <1>1. PICK g \in [1 .. Len(r) -> (1 .. Len(q)) \ is] :
          /\ r \in Seq(Waiter)
          /\ \A k \in 1 .. Len(r) : r[k] = q[g[k]]
          /\ \A k, l \in 1 .. Len(r) : k < l => g[k] < g[l]
          /\ \A h \in (1 .. Len(q)) \ is : \E k \in 1 .. Len(r) : g[k] = h
    <2>1. r \in Seq(Waiter) /\ Remainder(r, q, is)
      BY Remains, Zenon
    <2> QED BY <2>1, Zenon DEF Remainder
  <1>2. is \in SUBSET (1 .. Len(q))
    BY PlacesTaken, Zenon
  <1>3. Once(r)
    BY <1>2, TakenOut, Zenon
  <1> DEFINE js == Dequeued(r, n2, Bits)
  <1>4. js \in SUBSET (1 .. Len(r)) /\ B = {r[k].thread : k \in js}
    BY <1>1, PlacesTaken, Zenon DEF At
  <1> HIDE DEF js
  <1>5. PICK k \in js : q[j].thread = r[k].thread
    BY <1>4, Zenon
  <1>6. k \in 1 .. Len(r) /\ g[k] = j
    <2>1. k \in 1 .. Len(r)
      BY <1>4, <1>5, Zenon
    <2>2. g[k] \in 1 .. Len(q) /\ r[k] = q[g[k]]
      BY <1>1, <2>1, Zenon
    <2>3. q[g[k]].thread = q[j].thread
      BY <1>5, <2>2, Zenon
    <2> HIDE DEF js
    <2> QED BY <2>1, <2>2, <2>3, Zenon DEF Once
  <1>7. CASE i \in is
    BY <1>7, Zenon DEF At
  <1>8. CASE i \notin is
    <2>1. PICK l \in 1 .. Len(r) : g[l] = i
      BY <1>1, <1>8, Zenon
    <2>2. l < k
      <3>1. l \in Int /\ k \in Int /\ (k < l => g[k] < g[l])
        BY <1>1, <1>6, <2>1
      <3>2. ~ (k < l) /\ k # l
        <4>1. g[k] = j /\ g[l] = i /\ i \in Int /\ j \in Int
          BY <1>6, <2>1
        <4> QED BY <3>1, <4>1, SMTT(30)
      <3> QED BY <3>1, <3>2
    <2>3. l \in js
      BY <1>1, <1>5, <2>1, <2>2, FirstOnes, Zenon DEF js
    <2>4. r[l].thread = q[i].thread
      BY <1>1, <2>1, Zenon
    <2> QED BY <1>4, <2>3, <2>4, Zenon
  <1> QED BY <1>7, <1>8, Zenon

\* What a thread that runs again was told, by the kind of step: only the passing
\* of time ends a wait with a timeout, and then its own.
LEMMA TimesOut ==
  ASSUME SyscallInv, [Next]_vars, NEW f \in Futexes, NEW i \in 1 .. Len(waiting[f]),
         waiting[f][i].thread \in running', ~ woken'[waiting[f][i].thread]
  PROVE  waiting[f][i].due \in {0, 1}
  <1> DEFINE x == waiting[f][i].thread
  <1>1. x \in Threads /\ x \notin running /\ In(waiting[f], x)
    <2>1. waiting[f][i] \in Waiter
      BY InvFacts
    <2>2. x \in Threads /\ In(waiting[f], x)
      BY <2>1, Zenon DEF Waiter, In
    <2> QED BY <2>2, Zenon DEF SyscallInv, Apart
  <1>2. x \in running' /\ ~ woken'[x]
    BY Zenon
  <1>3. ASSUME NEW A, ResumeAll(A, {}) PROVE FALSE
    BY <1>1, <1>2, <1>3, Zenon DEF ResumeAll
  <1>4. CASE \E t \in Threads, d \in 0 .. MaxTimeout : handleSleepCall(t, d)
    BY <1>1, <1>2, <1>4, Zenon DEF handleSleepCall
  <1>5. CASE \E t \in Threads, g \in Futexes, val \in Word, mask \in Mask, d \in Due :
               futexWait(t, g, val, mask, d)
    BY <1>1, <1>2, <1>5, Zenon DEF futexWait
  <1>6. CASE \E t \in Threads, g \in Futexes, n \in 1 .. Cardinality(Threads) : futexWake(t, g, n)
    BY <1>3, <1>6, Zenon DEF futexWake
  <1>7. CASE \E t \in Threads, g, h \in Futexes, n, n2 \in 0 .. 1, enc \in WakeOps :
               futexWakeOp(t, g, h, n, n2, enc)
    <2>1. PICK t \in Threads, g \in Futexes, h \in Futexes, n \in 0 .. 1, n2 \in 0 .. 1, enc \in WakeOps :
            futexWakeOp(t, g, h, n, n2, enc)
      BY <1>7, Zenon
    <2>2. \E A : ResumeAll(A, {})
      BY <2>1, Zenon DEF futexWakeOp
    <2> QED BY <1>3, <2>2, Zenon
  <1>8. CASE \E t \in Threads : Requeue(t)
    BY <1>3, <1>8, Zenon DEF Requeue, futexCmpRequeue
  <1>9. CASE \E t \in Threads, g \in Futexes, val \in Word : Store(t, g, val)
    BY <1>1, <1>2, <1>9, Zenon DEF Store
  <1>10. CASE futexPeriodic
    <2> DEFINE a(g) == Aged(waiting[g])
               A(g) == At(a(g), FirstTimedOut(a(g)))
               s == Aged(sleeping)
               S == At(s, FirstTimedOut(s))
    <2>1. ResumeAll({}, S \cup UNION {A(g) : g \in Futexes})
      BY <1>10, Zenon DEF futexPeriodic
    <2>2. /\ \A y \in S : In(sleeping, y)
          /\ \A g \in Futexes : \A y \in A(g) : In(waiting[g], y)
      BY Elapsed, InvFacts
    <2>3. \A k \in 1 .. Len(waiting[f]) : waiting[f][k].thread \in A(f) => waiting[f][k].due \in {0, 1}
      BY Elapsed, InvFacts, SMTT(30)
    <2> HIDE DEF A, S
    <2>4. x \in S \/ \E g \in Futexes : x \in A(g)
      BY <1>1, <1>2, <2>1, Zenon DEF ResumeAll
    <2>5. x \in A(f)
      BY <1>1, <2>2, <2>4, Zenon DEF SyscallInv, Apart
    <2> QED BY <2>3, <2>5, Zenon
  <1>11. CASE UNCHANGED vars
    BY <1>1, <1>2, <1>11, Zenon DEF vars
  <1> QED BY <1>4, <1>5, <1>6, <1>7, <1>8, <1>9, <1>10, <1>11, Zenon DEF Next

\* A waiter of a futex is told that it timed out only if its own timeout has
\* passed, whatever the other threads do: a wait without a timeout ends by a
\* wake-up only.
THEOREM NoTimeoutTooEarly == Spec => NoEarlyTimeout
  <1> DEFINE A == \A f \in Futexes : \A i \in DOMAIN waiting[f] :
                    LET w == waiting[f][i]
                    IN  w.thread \in running' /\ ~ woken'[w.thread] => w.due \in {0, 1}
  <1>1. SyscallInv /\ [Next]_vars => [A]_vars
    <2> SUFFICES ASSUME SyscallInv, [Next]_vars PROVE A
      BY Zenon
    <2>1. \A f \in Futexes : DOMAIN waiting[f] = 1 .. Len(waiting[f])
      BY InvFacts
    <2> QED BY <2>1, TimesOut, Zenon
  <1>2. NoEarlyTimeout <=> [][A]_vars
    BY Zenon DEF NoEarlyTimeout
  <1> HIDE DEF A
  <1> QED BY <1>1, <1>2, SyscallInvAlways, PTL DEF Spec

\* A step that wakes one waiter of a futex wakes those that stand before it.
LEMMA WokenInOrder ==
  ASSUME SyscallInv, [Next]_vars, NEW f \in Futexes, NEW i \in 1 .. Len(waiting[f]),
         NEW j \in 1 .. Len(waiting[f]), i < j,
         waiting[f][j].thread \in running', woken'[waiting[f][j].thread]
  PROVE  waiting[f][i].thread \in running'
  <1> DEFINE x == waiting[f][j].thread
             y == waiting[f][i].thread
             q == waiting[f]
  <1>1. x \in Threads /\ x \notin running /\ In(q, x)
    <2>1. waiting[f][j] \in Waiter
      BY InvFacts
    <2>2. x \in Threads /\ In(q, x)
      BY <2>1, Zenon DEF Waiter, In
    <2> QED BY <2>2, Zenon DEF SyscallInv, Apart
  <1>2. x \in running' /\ woken'[x]
    BY Zenon
  <1>3. q \in Seq(Waiter) /\ Once(q) /\ \A g \in Futexes : In(waiting[g], x) => g = f
    BY <1>1, InvFacts, Zenon DEF SyscallInv, Apart
  <1>4. ASSUME NEW A, ResumeAll(A, {}) PROVE x \in A /\ running' = running \cup A
    BY <1>1, <1>2, <1>4, Zenon DEF ResumeAll
  <1>5. ASSUME NEW g \in Futexes, NEW n \in Nat, x \in At(waiting[g], Dequeued(waiting[g], n, Bits))
        PROVE  g = f /\ y \in At(waiting[g], Dequeued(waiting[g], n, Bits))
    <2>1. waiting[g] \in Seq(Waiter) /\ Once(waiting[g])
      BY InvFacts, Zenon
    <2>2. Dequeued(waiting[g], n, Bits) \in SUBSET (1 .. Len(waiting[g]))
      BY <2>1, PlacesTaken, Zenon
    <2>3. In(waiting[g], x)
      BY <1>5, <2>1, <2>2, TakenOut, Zenon
    <2>4. g = f
      BY <1>3, <2>3, Zenon
    <2> QED BY <1>3, <1>5, <2>4, FirstThreads, SMTT(30)
  <1>6. CASE \E t \in Threads, d \in 0 .. MaxTimeout : handleSleepCall(t, d)
    BY <1>1, <1>2, <1>6, Zenon DEF handleSleepCall
  <1>7. CASE \E t \in Threads, g \in Futexes, val \in Word, mask \in Mask, d \in Due :
               futexWait(t, g, val, mask, d)
    BY <1>1, <1>2, <1>7, Zenon DEF futexWait
  <1>8. CASE \E t \in Threads, g \in Futexes, n \in 1 .. Cardinality(Threads) : futexWake(t, g, n)
    <2>1. \A n \in 1 .. Cardinality(Threads) : n \in Nat
      BY SyscallAssumption, FS_CardinalityType, SMTT(30)
    <2>2. PICK g \in Futexes, n \in Nat : ResumeAll(At(waiting[g], Dequeued(waiting[g], n, Bits)), {})
      BY <1>8, <2>1, Zenon DEF futexWake
    <2> QED BY <1>4, <1>5, <2>2, Zenon
  <1>9. CASE \E t \in Threads, g, h \in Futexes, n, n2 \in 0 .. 1, enc \in WakeOps :
               futexWakeOp(t, g, h, n, n2, enc)
    <2>1. PICK t \in Threads, g \in Futexes, h \in Futexes, n \in 0 .. 1, n2 \in 0 .. 1, enc \in WakeOps :
            futexWakeOp(t, g, h, n, n2, enc)
      BY <1>9, Zenon
    <2> n \in Nat /\ n2 \in Nat
      OBVIOUS
    <2> DEFINE is == Dequeued(waiting[g], n, Bits)
               mid == [waiting EXCEPT ![g] = Without(@, is)]
               js == IF DoCmp(enc.cmp, word[h], enc.cmparg) THEN Dequeued(mid[h], n2, Bits) ELSE {}
               A == At(waiting[g], is)
               B == At(mid[h], js)
    <2>2. ResumeAll(A \cup B, {})
      BY <2>1, Zenon DEF futexWakeOp
    <2>3. (x \in A \/ x \in B) /\ running' = running \cup (A \cup B)
      BY <1>4, <2>2, SMTT(30)
    <2>4. CASE x \in A
      BY <1>5, <2>3, <2>4, Zenon
    <2>5. CASE x \in B
      <3>1. js = Dequeued(mid[h], n2, Bits)
        BY <2>5, Zenon DEF At
      <3>2. CASE h # g
        <4>1. mid[h] = waiting[h]
          BY <3>2, InvFacts, Zenon
        <4> QED BY <1>5, <2>3, <2>5, <3>1, <4>1, Zenon
      <3>3. CASE h = g
        <4>1. mid[h] = Without(waiting[g], is)
          BY <3>3, InvFacts, Zenon
        <4>2. is \in SUBSET (1 .. Len(waiting[g])) /\ waiting[g] \in Seq(Waiter) /\ Once(waiting[g])
          BY PlacesTaken, InvFacts, Zenon
        <4>3. mid[h] \in Seq(Waiter) /\ Once(mid[h]) /\ \A z : In(mid[h], z) => In(waiting[g], z)
          BY <4>1, <4>2, TakenOut, SMTT(30)
        <4>4. js \in SUBSET (1 .. Len(mid[h]))
          BY <3>1, <4>3, PlacesTaken, Zenon
        <4>5. In(mid[h], x)
          BY <2>5, <4>3, <4>4, TakenOut, Zenon
        <4>6. g = f
          BY <1>3, <4>3, <4>5, Zenon
        <4>7. is = Dequeued(q, n, Bits) /\ mid[h] = Without(q, is) /\ B = At(mid[h], Dequeued(mid[h], n2, Bits))
          BY <3>1, <4>1, <4>6, ZenonT(40)
        <4> HIDE DEF is, mid, js, B
        <4>8. y \in At(q, is) \cup B
          BY <1>3, <2>5, <4>7, FirstThreadsTwice, Zenon
        <4> QED BY <2>3, <4>6, <4>8, Zenon
      <3> QED BY <3>2, <3>3, Zenon
    <2> QED BY <2>3, <2>4, <2>5, ZenonT(40)
  <1>10. CASE \E t \in Threads : Requeue(t)
    <2>1. PICK g \in Futexes, n \in Nat : ResumeAll(At(waiting[g], Dequeued(waiting[g], n, Bits)), {})
      BY <1>10, SMTT(30) DEF Requeue, futexCmpRequeue
    <2> QED BY <1>4, <1>5, <2>1, Zenon
  <1>11. CASE \E t \in Threads, g \in Futexes, val \in Word : Store(t, g, val)
    BY <1>1, <1>2, <1>11, Zenon DEF Store
  <1>12. CASE futexPeriodic
    BY <1>1, <1>2, <1>12, Zenon DEF futexPeriodic, ResumeAll
  <1>13. CASE UNCHANGED vars
    BY <1>1, <1>2, <1>13, Zenon DEF vars
  <1> QED BY <1>6, <1>7, <1>8, <1>9, <1>10, <1>11, <1>12, <1>13, Zenon DEF Next

\* FUTEX_WAKE, FUTEX_WAKE_OP, also with both addresses the same, and
\* FUTEX_CMP_REQUEUE never pass over a waiter for one that came later.
THEOREM WokenFirstComeFirst == Spec => WakesInOrder
  <1> DEFINE A == \A f \in Futexes : \A i, j \in DOMAIN waiting[f] :
                    LET u == waiting[f][i].thread
                        t == waiting[f][j].thread
                    IN  i < j /\ t \in running' /\ woken'[t] => u \in running'
  <1>1. SyscallInv /\ [Next]_vars => [A]_vars
    <2> SUFFICES ASSUME SyscallInv, [Next]_vars PROVE A
      BY Zenon
    <2>1. \A f \in Futexes : DOMAIN waiting[f] = 1 .. Len(waiting[f])
      BY InvFacts
    <2> QED BY <2>1, WokenInOrder, Zenon
  <1>2. WakesInOrder <=> [][A]_vars
    BY Zenon DEF WakesInOrder
  <1> HIDE DEF A
  <1> QED BY <1>1, <1>2, SyscallInvAlways, PTL DEF Spec
=============================================================================
