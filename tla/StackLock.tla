------------------------------ MODULE StackLock ------------------------------
(***************************************************************************)
(* What the lock of a cache set promises the threads of a stack: several   *)
(* may share it, each in its own first-level cache, or one has it alone.   *)
(* How it is put together is left open, and so is who gets it next.        *)
(***************************************************************************)
CONSTANT Threads     \* the cores' threads and the simulation thread

VARIABLE held        \* what each thread has of the lock

Init == held = [t \in Threads |-> "none"]

\* A thread shares the lock while nobody has it alone.
Share(t) ==
  /\ held[t] = "none"
  /\ \A u \in Threads \ {t} : held[u] # "exclusive"
  /\ held' = [held EXCEPT ![t] = "shared"]

\* A thread gets the lock for itself when nobody has any of it.
Exclude(t) ==
  /\ \A u \in Threads : held[u] = "none"
  /\ held' = [held EXCEPT ![t] = "exclusive"]

\* A thread that has the lock alone goes on sharing it.
Downgrade(t) ==
  /\ held[t] = "exclusive"
  /\ held' = [held EXCEPT ![t] = "shared"]

Release(t) ==
  /\ held[t] # "none"
  /\ held' = [held EXCEPT ![t] = "none"]

\* A thread that has the lock alone hands it to another one: nobody else can
\* have it in between.
Pass(t, u) ==
  /\ t # u
  /\ held[t] = "exclusive"
  /\ held' = [held EXCEPT ![t] = "none", ![u] = "exclusive"]

Next ==
  \E t \in Threads :
    \/ Share(t) \/ Exclude(t) \/ Downgrade(t) \/ Release(t)
    \/ \E u \in Threads : Pass(t, u)

Spec == Init /\ [][Next]_held
=============================================================================
