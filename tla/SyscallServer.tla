----------------------------- MODULE SyscallServer -----------------------------
(***************************************************************************)
(* SyscallServer: emulated futexes and nanosleep.  A call runs under       *)
(* ThreadManager::m_thread_lock and is one action, and so is the periodic  *)
(* callback that ends timeouts.  The application's stores to futex words   *)
(* are not under the lock; each is an action of its own.                   *)
(*                                                                         *)
(* Time is counted in barrier intervals: due is the time left until a      *)
(* timeout, 0 once it has passed.  Futex words have one bit, on which      *)
(* futexDoOp's operations are arithmetic.                                  *)
(***************************************************************************)
EXTENDS Naturals, Sequences, FiniteSets, FiniteSetsExt, SequencesExt

CONSTANTS
  Threads,
  Futexes,     \* addresses of futex words
  Bits,        \* the bits of a FUTEX_WAIT_BITSET mask
  MaxTimeout,  \* bound: the longest timeout
  WakeOps      \* the encoded operations of FUTEX_WAKE_OP that are used

ASSUME SyscallAssumption ==
  /\ IsFiniteSet(Threads)
  /\ MaxTimeout \in Nat
  /\ Bits # {}
  /\ WakeOps \subseteq [op : {"SET", "ADD", "OR", "ANDN", "XOR"}, oparg : {0, 1},
                        cmp : {"EQ", "NE", "LT", "GE", "LE", "GT"}, cmparg : {0, 1}]

VARIABLES
  word,        \* the futex words in simulated memory
  waiting,     \* SimFutex::m_waiting of every futex
  sleeping,    \* m_sleeping
  running,     \* the threads that are not stalled
  woken        \* Thread::m_wakeup_msg: TRUE woken, FALSE timed out

vars == <<word, waiting, sleeping, running, woken>>

Word == {0, 1}

Never == MaxTimeout + 1     \* SubsecondTime::MaxTime()

Due == 0 .. Never

Mask == (SUBSET Bits) \ {{}}

Waiter == [thread : Threads, mask : Mask, due : Due]

Init ==
  /\ word = [f \in Futexes |-> 0]
  /\ waiting = [f \in Futexes |-> << >>]
  /\ sleeping = << >>
  /\ running = Threads
  /\ woken = [t \in Threads |-> FALSE]

-----------------------------------------------------------------------------
(* Queues.                                                                 *)

ThreadsOf(q) == {q[i].thread : i \in DOMAIN q}

\* Not the code: the last waiters are taken.
DequeuedLast(q, n, mask) ==
  LET match == {i \in DOMAIN q : q[i].mask \cap mask # {}}
  IN  {i \in match : Cardinality({j \in match : j > i}) < n}

\* The positions that n calls of dequeueWaiter() with this mask take.
Dequeued(q, n, mask) ==
  LET match == {i \in DOMAIN q : q[i].mask \cap mask # {}}
  IN  {i \in match : Cardinality({j \in match : j < i}) < n}

\* What is left of the queue, in the same order, when these have been taken.
Without(q, is) ==
  LET kept == DOMAIN q \ is
      Rank(i) == Cardinality({j \in kept : j <= i})
  IN  [k \in 1 .. Cardinality(kept) |-> q[CHOOSE i \in kept : Rank(i) = k]]

At(q, is) == {q[i].thread : i \in is}

\* resumeThread(), with the message that tells a wake-up from a timeout.
ResumeAll(awake, timedOut) ==
  /\ running' = running \cup awake \cup timedOut
  /\ woken' = [t \in Threads |-> IF t \in awake THEN TRUE
                                 ELSE IF t \in timedOut THEN FALSE ELSE woken[t]]

-----------------------------------------------------------------------------
(* Calls of thread t.                                                      *)

\* nanosleep.  (Nobody looks at the mask of a sleeper.)
handleSleepCall(t, d) ==
  /\ t \in running
  /\ sleeping' = Append(sleeping, [thread |-> t, mask |-> Bits, due |-> d])
  /\ running' = running \ {t}
  /\ UNCHANGED <<word, waiting, woken>>

\* Not the code: the mask is 0, as it is for a sleeper, and no wake-up matches it.
futexWaitUnmasked(t, f, val, mask, d) ==
  /\ t \in running
  /\ word[f] = val
  /\ waiting' = [waiting EXCEPT
                   ![f] = Append(@, [thread |-> t, mask |-> {}, due |-> d])]
  /\ running' = running \ {t}
  /\ UNCHANGED <<word, sleeping, woken>>

\* FUTEX_WAIT (mask = Bits) and FUTEX_WAIT_BITSET.  If the word has another
\* value than the caller expects, the call returns -EWOULDBLOCK.
futexWait(t, f, val, mask, d) ==
  /\ t \in running
  /\ word[f] = val
  /\ waiting' = [waiting EXCEPT
                   ![f] = Append(@, [thread |-> t, mask |-> mask, due |-> d])]
  /\ running' = running \ {t}
  /\ UNCHANGED <<word, sleeping, woken>>

\* FUTEX_WAKE and FUTEX_WAKE_BITSET: handleFutexCall() asks whether cmd is
\* FUTEX_WAIT_BITSET, which it is not here, so both match any mask.
futexWake(t, f, n) ==
  LET is == Dequeued(waiting[f], n, Bits)
  IN  /\ t \in running
      /\ waiting' = [waiting EXCEPT ![f] = Without(@, is)]
      /\ ResumeAll(At(waiting[f], is), {})
      /\ UNCHANGED <<word, sleeping>>

\* futexDoOp(), on a word of one bit: the new value ...
DoOp(op, old, arg) ==
  CASE op = "SET"  -> arg
    [] op = "ADD"  -> (old + arg) % 2
    [] op = "OR"   -> IF old + arg > 0 THEN 1 ELSE 0
    [] op = "ANDN" -> old * (1 - arg)
    [] op = "XOR"  -> (old + arg) % 2

\* ... and the comparison.
DoCmp(cmp, old, arg) ==
  CASE cmp = "EQ" -> old = arg
    [] cmp = "NE" -> old # arg
    [] cmp = "LT" -> old < arg
    [] cmp = "GE" -> old >= arg
    [] cmp = "LE" -> old <= arg
    [] cmp = "GT" -> old > arg

\* FUTEX_WAKE_OP: wake n waiters of f, change the word of g and, if its old
\* value passes the comparison, wake n2 waiters of g.
futexWakeOp(t, f, g, n, n2, enc) ==
  LET is == Dequeued(waiting[f], n, Bits)
      mid == [waiting EXCEPT ![f] = Without(@, is)]
      js == IF DoCmp(enc.cmp, word[g], enc.cmparg) THEN Dequeued(mid[g], n2, Bits) ELSE {}
  IN  /\ t \in running
      /\ word' = [word EXCEPT ![g] = DoOp(enc.op, @, enc.oparg)]
      /\ waiting' = [mid EXCEPT ![g] = Without(@, js)]
      /\ ResumeAll(At(waiting[f], is) \cup At(mid[g], js), {})
      /\ UNCHANGED sleeping

\* Not the code: requeued waiters stay where they were.
futexCmpRequeueCopy(t, f, g, n, val) ==
  LET is == Dequeued(waiting[f], n, Bits)
  IN  /\ t \in running
      /\ f # g
      /\ word[f] = val
      /\ waiting' = [waiting EXCEPT ![g] = @ \o Without(waiting[f], is)]
      /\ ResumeAll(At(waiting[f], is), {})
      /\ UNCHANGED <<word, sleeping>>

\* FUTEX_CMP_REQUEUE: wake n waiters of f and move all others to g, unless the
\* word of f has changed (-EAGAIN).
futexCmpRequeue(t, f, g, n, val) ==
  LET is == Dequeued(waiting[f], n, Bits)
  IN  /\ t \in running
      /\ f # g
      /\ word[f] = val
      /\ waiting' = [waiting EXCEPT ![f] = << >>, ![g] = @ \o Without(waiting[f], is)]
      /\ ResumeAll(At(waiting[f], is), {})
      /\ UNCHANGED <<word, sleeping>>

\* The application writes a futex word.
Store(t, f, val) ==
  /\ t \in running
  /\ word' = [word EXCEPT ![f] = val]
  /\ UNCHANGED <<waiting, sleeping, running, woken>>

-----------------------------------------------------------------------------
(* Timeouts.                                                               *)

Aged(q) ==
  [i \in DOMAIN q |->
     [q[i] EXCEPT !.due = IF @ \in {0, Never} THEN @ ELSE @ - 1]]

\* Not the code: the timeout is not looked at.
FirstWaiter(q) ==
  LET over == DOMAIN q
  IN  IF over = {} THEN {} ELSE {Min(over)}

\* Not the code: the last of them.
LastTimedOut(q) ==
  LET over == {i \in DOMAIN q : q[i].due = 0}
  IN  IF over = {} THEN {} ELSE {Max(over)}

\* The first waiter whose timeout has passed: at most one of a queue is woken.
FirstTimedOut(q) ==
  LET over == {i \in DOMAIN q : q[i].due = 0}
  IN  IF over = {} THEN {} ELSE {Min(over)}

\* One barrier interval passes and futexPeriodic() is called.
futexPeriodic ==
  LET aged == [f \in Futexes |-> Aged(waiting[f])]
      over == [f \in Futexes |-> FirstTimedOut(aged[f])]
      asleep == Aged(sleeping)
  IN  /\ waiting' = [f \in Futexes |-> Without(aged[f], over[f])]
      /\ sleeping' = Without(asleep, FirstTimedOut(asleep))
      /\ ResumeAll({}, At(asleep, FirstTimedOut(asleep))
                         \cup UNION {At(aged[f], over[f]) : f \in Futexes})
      /\ UNCHANGED word

\* Not the code: only the last waiter is looked at.
NextTimeoutOfLast(q) ==
  LET finite == {i \in DOMAIN q : i = Len(q) /\ q[i].due # Never}
  IN  IF finite = {} THEN Never ELSE q[Max(finite)].due

\* getNextTimeout(): of the last waiter of a queue that has a timeout.
NextTimeout(q) ==
  LET finite == {i \in DOMAIN q : q[i].due # Never}
  IN  IF finite = {} THEN Never ELSE q[Max(finite)].due

getNextTimeout ==
  Min({NextTimeout(sleeping)} \cup {NextTimeout(waiting[f]) : f \in Futexes})

\* FUTEX_CMP_REQUEUE by thread t, any arguments.
Requeue(t) ==
  \E f, g \in Futexes, n \in 0 .. 1, val \in Word : futexCmpRequeue(t, f, g, n, val)

Next ==
  \/ \E t \in Threads, d \in 0 .. MaxTimeout : handleSleepCall(t, d)
  \/ \E t \in Threads, f \in Futexes, val \in Word, mask \in Mask, d \in Due :
       futexWait(t, f, val, mask, d)
  \/ \E t \in Threads, f \in Futexes, n \in 1 .. Cardinality(Threads) :
       futexWake(t, f, n)
  \/ \E t \in Threads, f, g \in Futexes, n, n2 \in 0 .. 1, enc \in WakeOps :
       futexWakeOp(t, f, g, n, n2, enc)
  \/ \E t \in Threads : Requeue(t)
  \/ \E t \in Threads, f \in Futexes, val \in Word : Store(t, f, val)
  \/ futexPeriodic

Spec == Init /\ [][Next]_vars

\* Time goes on: running threads come to the barrier, and if none runs
\* stallThread() advances the time.
FairSpec == Spec /\ WF_vars(futexPeriodic)

-----------------------------------------------------------------------------
(* Properties.                                                             *)

\* Every variable has its type.  A waiter has a mask that some wake-up matches.
TypeOK ==
  /\ word \in [Futexes -> Word]
  /\ waiting \in [Futexes -> Seq(Waiter)]
  /\ sleeping \in Seq(Waiter)
  /\ running \subseteq Threads
  /\ woken \in [Threads -> BOOLEAN]

\* Where thread t waits: the queues it stands in, and its places there.
Places(t) ==
  LET Futex(f) == {i \in DOMAIN waiting[f] : waiting[f][i].thread = t}
      Asleep == {i \in DOMAIN sleeping : sleeping[i].thread = t}
  IN  {<<"sleeping", i>> : i \in Asleep}
        \cup UNION {{<<"futex", f, i>> : i \in Futex(f)} : f \in Futexes}

\* A stalled thread stands in exactly one queue, once, and a running one in
\* none: waking, timing out and requeueing neither lose nor double a waiter.
OneEntryEach ==
  \A t \in Threads :
    IF t \in running THEN Places(t) = {} ELSE \E p \in Places(t) : Places(t) = {p}

\* A waiter is told it timed out only if it gave a timeout; in particular a
\* wait without a timeout ends by a wake-up only.
NoEarlyTimeout ==
  [][\A f \in Futexes : \A i \in DOMAIN waiting[f] :
       LET w == waiting[f][i]
       IN  w.thread \in running' /\ ~woken'[w.thread] => w.due \in {0, 1}]_vars

\* Among the waiters of a futex a wake-up never passes one over for one that
\* came later.
WakesInOrder ==
  [][\A f \in Futexes : \A i, j \in DOMAIN waiting[f] :
       LET u == waiting[f][i].thread
           t == waiting[f][j].thread
       IN  i < j /\ t \in running' /\ woken'[t] => u \in running']_vars

\* The time the barrier asks for exists exactly if somebody waits with a
\* timeout, so that "Application has deadlocked" is not reported too early.
NextTimeoutExists ==
  getNextTimeout < Never <=>
    \/ sleeping # << >>
    \/ \E f \in Futexes : \E i \in DOMAIN waiting[f] : waiting[f][i].due # Never

\* t waits with a timeout, or sleeps.
Timed(t) ==
  \/ t \in ThreadsOf(sleeping)
  \/ \E f \in Futexes : \E i \in DOMAIN waiting[f] :
       waiting[f][i].thread = t /\ waiting[f][i].due # Never

\* A thread that waits with a timeout, or sleeps, runs again, unless waiters are
\* requeued again and again: futexPeriodic() wakes at most one waiter of a queue
\* in an interval, but comes back.
TimeoutsEnd ==
  \/ \A t \in Threads : Timed(t) ~> t \in running
  \/ []<><<\E t \in Threads : Requeue(t)>>_vars

=============================================================================
