---------------------------- MODULE LastLevelCache ----------------------------
(***************************************************************************)
(* One line in each of the last-level caches (the CacheCntlr without a     *)
(* m_next_cache_cntlr, with a directory behind it).  The caches above it   *)
(* are the subject of CacheStack: a thread appears here when its access    *)
(* reaches the last level.                                                 *)
(*                                                                         *)
(* A thread whose access is not permitted queues up in m_directory_waiters *)
(* and sleeps; the first one sends the request.  When the reply comes, the *)
(* simulation thread of the cache takes the stack lock and serves the      *)
(* waiters one by one.  It hands the lock to the front waiter, which does  *)
(* its access and releases the lock (pc[c] = "gap": other threads may get  *)
(* it now), then takes it again, drops the waiter and looks at the next.   *)
(* What happens under the lock is one step.                                *)
(***************************************************************************)
EXTENDS ShmemNetwork

CONSTANTS
  Sharers,      \* the number of threads that use a last-level cache
  MaxQueue      \* bound: threads start no miss while a longer queue is waiting

ASSUME CacheAssumption == Sharers \in Nat \ {0} /\ MaxQueue \in Nat

VARIABLES
  cstate,    \* the CacheState of the line; SU is SHARED_UPGRADING
  data,      \* its contents
  waiters,   \* m_directory_waiters: whether each waiter wants the line exclusively
  pc         \* what the simulation thread is doing

llcVars == <<cstate, data, waiters, pc>>

InitCaches ==
  /\ cstate = [c \in LLC |-> "I"]
  /\ data = [c \in LLC |-> NoData]
  /\ waiters = [c \in LLC |-> << >>]
  /\ pc = [c \in LLC |-> "idle"]

\* operationPermissibleinCache.
Permitted(s, exclusive) == s \in (IF exclusive THEN {"M"} ELSE {"S", "E", "M"})

\* A waiter that has been served is not asleep any more.
Sleeping(c) == Len(waiters[c]) - (IF pc[c] = "gap" THEN 1 ELSE 0)

\* Not the code: a thread whose access is waiting starts another one.
ThreadRunsAsleep(c) == Sleeping(c) <= Sharers

\* Some thread of the cache is awake.
ThreadRuns(c) == Sleeping(c) < Sharers

\* processUpgradeReqToDirectory.
UpgradeRequest(c) ==
  /\ cstate' = [cstate EXCEPT ![c] = "SU"]
  /\ toDir' = DirQueueWith(c, "UPGRADE_REQ", NoData)

-----------------------------------------------------------------------------
(* The threads: processShmemReqFromPrevCache at the last level             *)

\* A write that finds the line MODIFIED, or EXCLUSIVE and upgrades it silently.
Store(c) ==
  /\ ThreadRuns(c)
  /\ cstate[c] \in {"E", "M"}
  /\ cstate' = [cstate EXCEPT ![c] = "M"]
  /\ \E v \in Values : data' = [data EXCEPT ![c] = v]
  /\ UNCHANGED <<netVars, waiters, pc>>

\* The bound on the messages that evictions and late requests leave behind.
ShortQueues ==
  /\ Len(toDram) <= MaxQueue
  /\ \A c \in LLC : Len(toLLC[c]) <= MaxQueue

\* initiateDirectoryAccess: only the first waiter sends a request.
Miss(c, exclusive) ==
  /\ ThreadRuns(c)
  /\ ShortQueues
  /\ ~ Permitted(cstate[c], exclusive)
  /\ ~ (exclusive /\ cstate[c] = "E")
  /\ waiters' = [waiters EXCEPT ![c] = Append(@, exclusive)]
  /\ CASE waiters[c] # << >> ->
            UNCHANGED <<cstate, toDir, failed>>
       [] waiters[c] = << >> /\ exclusive /\ cstate[c] = "S" ->
            UpgradeRequest(c) /\ UNCHANGED failed
       [] waiters[c] = << >> /\ exclusive /\ cstate[c] # "S" ->
            /\ Asserts(cstate[c] = "I")
            /\ toDir' = DirQueueWith(c, "EX_REQ", NoData)
            /\ UNCHANGED cstate
       [] OTHER ->
            /\ toDir' = DirQueueWith(c, "SH_REQ", NoData)
            /\ UNCHANGED <<cstate, failed>>
  /\ UNCHANGED <<toLLC, toDram, data, pc>>

-----------------------------------------------------------------------------
(* The simulation thread: handleMsgFromDramDirectory                       *)

Takes(c, t) ==
  /\ pc[c] = "idle"
  /\ toLLC[c] # << >>
  /\ Head(toLLC[c]).t = t
  /\ toLLC' = [toLLC EXCEPT ![c] = Tail(@)]

\* The head of the loop over m_directory_waiters, when these are w and the line
\* is in state s with contents d: the loop ends, asks for an upgrade in the
\* front waiter's place, or lets the front waiter do its access.
ServeFront(c, w, s, d, asserted) ==
  /\ waiters' = [waiters EXCEPT ![c] = w]
  /\ CASE w = << >> ->
            /\ Asserts(asserted)
            /\ cstate' = [cstate EXCEPT ![c] = s]
            /\ data' = [data EXCEPT ![c] = d]
            /\ pc' = [pc EXCEPT ![c] = "idle"]
            /\ UNCHANGED toDir
       [] w # << >> /\ Head(w) /\ s = "S" ->
            /\ Asserts(asserted)
            /\ UpgradeRequest(c)
            /\ data' = [data EXCEPT ![c] = d]
            /\ pc' = [pc EXCEPT ![c] = "idle"]
       [] w # << >> /\ Head(w) /\ s # "S" ->
            /\ Asserts(asserted /\ s \in {"E", "M"})
            /\ cstate' = [cstate EXCEPT ![c] = "M"]
            /\ \E v \in Values : data' = [data EXCEPT ![c] = v]
            /\ pc' = [pc EXCEPT ![c] = "gap"]
            /\ UNCHANGED toDir
       [] OTHER ->
            /\ Asserts(asserted /\ Permitted(s, FALSE))
            /\ cstate' = [cstate EXCEPT ![c] = s]
            /\ data' = [data EXCEPT ![c] = d]
            /\ pc' = [pc EXCEPT ![c] = "gap"]
            /\ UNCHANGED toDir
  /\ UNCHANGED toDram

\* processExRepFromDramDirectory and processShRepFromDramDirectory.
TakeData(c) ==
  \E t \in {"EX_REP", "SH_REP"} :
    /\ Takes(c, t)
    /\ ServeFront(c, waiters[c], IF t = "EX_REP" THEN "E" ELSE "S", Head(toLLC[c]).d,
                  cstate[c] = "I" /\ waiters[c] # << >>)

\* processUpgradeRepFromDramDirectory; the reply never carries data.
TakeUpgrade(c) ==
  /\ Takes(c, "UPGRADE_REP")
  /\ ServeFront(c, waiters[c], "M", data[c], cstate[c] = "SU" /\ waiters[c] # << >>)

\* The simulation thread has the stack lock again and drops the front waiter.
DropFront(c) ==
  /\ pc[c] = "gap"
  /\ ServeFront(c, Tail(waiters[c]), cstate[c], data[c], TRUE)
  /\ UNCHANGED toLLC

\* updateCacheBlock to INVALID, with the answer rep and the data d.
GivesUp(c, rep, d) ==
  /\ cstate' = [cstate EXCEPT ![c] = "I"]
  /\ data' = [data EXCEPT ![c] = NoData]
  /\ toDir' = DirQueueWith(c, rep, d)

\* A cache that has lost the line in the meantime does not answer.
Ignores(c) == cstate[c] = "I" /\ UNCHANGED <<cstate, data, toDir, failed>>

processInvReq(c) ==
  /\ Takes(c, "INV_REQ")
  /\ \/ Ignores(c)
     \/ /\ cstate[c] # "I"
        /\ Asserts(cstate[c] # "M")      \* "MODIFIED data is about to get lost!"
        /\ GivesUp(c, "INV_REP", NoData)
  /\ UNCHANGED <<toDram, waiters, pc>>

processFlushReq(c) ==
  /\ Takes(c, "FLUSH_REQ")
  /\ \/ Ignores(c)
     \/ /\ cstate[c] # "I"
        /\ GivesUp(c, "FLUSH_REP", data[c])
        /\ UNCHANGED failed
  /\ UNCHANGED <<toDram, waiters, pc>>

\* Not the code: the data is written back but the line keeps its state.
processWbReqKeeping(c) ==
  /\ Takes(c, "WB_REQ")
  /\ \/ Ignores(c)
     \/ /\ cstate[c] # "I"
        /\ toDir' = DirQueueWith(c, "WB_REP", data[c])
        /\ UNCHANGED <<cstate, data, failed>>
  /\ UNCHANGED <<toDram, waiters, pc>>

\* While the line is SHARED_UPGRADING data_buf is sent without being filled.
processWbReq(c) ==
  /\ Takes(c, "WB_REQ")
  /\ \/ Ignores(c)
     \/ /\ cstate[c] \notin {"I", "SU"}
        /\ cstate' = [cstate EXCEPT ![c] = "S"]
        /\ toDir' = DirQueueWith(c, "WB_REP", data[c])
        /\ UNCHANGED <<data, failed>>
     \/ /\ cstate[c] = "SU"
        /\ toDir' = DirQueueWith(c, "WB_REP", Junk)
        /\ UNCHANGED <<cstate, data, failed>>
  /\ UNCHANGED <<toDram, waiters, pc>>

\* Not the code: a line that is being upgraded can be the victim.
EvictAny(c) ==
  /\ pc[c] = "idle"
  /\ cstate[c] # "I"
  /\ IF cstate[c] = "M"
     THEN GivesUp(c, "FLUSH_REP", data[c])
     ELSE GivesUp(c, "INV_REP", NoData)
  /\ UNCHANGED <<toLLC, toDram, failed, waiters, pc>>

\* Not the code: a clean line is evicted without telling the directory.
EvictSilently(c) ==
  /\ pc[c] = "idle"
  /\ cstate[c] \in {"S", "E"}
  /\ cstate' = [cstate EXCEPT ![c] = "I"]
  /\ data' = [data EXCEPT ![c] = NoData]
  /\ UNCHANGED <<netVars, waiters, pc>>

\* insertCacheBlock of another line with this line the victim.  The simulation
\* thread inserts, so it is between two messages of this line; a line that is
\* SHARED_UPGRADING is no valid replacement (CacheSet::isValidReplacement).
Evict(c) ==
  /\ pc[c] = "idle"
  /\ cstate[c] \in {"S", "E", "M"}
  /\ IF cstate[c] = "M"
     THEN GivesUp(c, "FLUSH_REP", data[c])
     ELSE GivesUp(c, "INV_REP", NoData)
  /\ UNCHANGED <<toLLC, toDram, failed, waiters, pc>>

ThreadStep(c) == Store(c) \/ \E exclusive \in BOOLEAN : Miss(c, exclusive)

\* The steps of the simulation thread that concern this line.
CacheStep(c) ==
  \/ TakeData(c) \/ TakeUpgrade(c) \/ DropFront(c)
  \/ processInvReq(c) \/ processFlushReq(c) \/ processWbReq(c)

CachesTypeOK ==
  /\ cstate \in [LLC -> {"I", "S", "SU", "E", "M"}]
  /\ data \in [LLC -> Data \cup {NoData}]
  /\ waiters \in [LLC -> Seq(BOOLEAN)]
  /\ \A c \in LLC : Sleeping(c) \in 0..Sharers
  /\ pc \in [LLC -> {"idle", "gap"}]
=============================================================================
