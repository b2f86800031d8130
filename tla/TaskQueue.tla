------------------------------ MODULE TaskQueue ------------------------------
(***************************************************************************)
(* What the open scheduler promises the tasks: each arrives, waits, starts *)
(* and is completed, once and in this order, and a task starts only when   *)
(* every task with a smaller number has left the queue.  When a task       *)
(* arrives, and how long one waits, is left open.                          *)
(***************************************************************************)
EXTENDS Integers

CONSTANT Tasks

VARIABLES
  arriving,     \* the tasks that have not arrived
  queue,        \* the tasks that wait for cores
  active,       \* the tasks that have cores
  completed

taskVars == <<arriving, queue, active, completed>>

Init ==
  /\ arriving = Tasks
  /\ queue = {} /\ active = {} /\ completed = {}

\* The tasks that may start when those in q wait: none, or the front of the queue.
Starts(q) == {{}} \cup {{k} : k \in {j \in q : \A i \in q : j <= i}}

\* A step completes at most one task, lets the tasks in arrived enter the queue,
\* and then starts at most one task.
Serve(done, arrived) ==
  /\ done = {} \/ \E k \in active : done = {k}
  /\ arriving' = arriving \ arrived
  /\ completed' = completed \cup done
  /\ \E started \in Starts(queue \cup arrived) :
       /\ queue' = (queue \cup arrived) \ started
       /\ active' = (active \ done) \cup started

Next == \E done \in SUBSET active, arrived \in SUBSET arriving : Serve(done, arrived)

Spec == Init /\ [][Next]_taskVars
=============================================================================
