------------------------------ MODULE CacheStack ------------------------------
(***************************************************************************)
(* One line in the caches above and including one last-level cache: a      *)
(* first-level cache per core and the last level they share (CacheCntlr).  *)
(* The threads of the cores access the line; the simulation thread handles *)
(* the messages of the directory.  All of them run concurrently, ordered   *)
(* only by the lock of the cache set and by the semaphores with which the  *)
(* simulation thread and a waiting core take turns.                        *)
(*                                                                         *)
(* The directory is an environment that keeps to what Coherence shows of   *)
(* it: it answers every request, invalidates no MODIFIED line, sends data  *)
(* only to a cache without the line and UPGRADE_REP only to one in         *)
(* SHARED_UPGRADING.  Caches are write-back and coherent.                  *)
(***************************************************************************)
EXTENDS SetLock, Sequences

VARIABLES
  l1,        \* the state of the line in each first-level cache
  llc,       \* and in the last level; SU is SHARED_UPGRADING
  op,        \* what each core's thread wants to do
  pc,        \* and how far it has come
  waiters,   \* m_directory_waiters
  asked,     \* the request that the directory has not answered yet
  net,       \* what the simulation thread is doing
  failed     \* an assertion of the code has failed

stackVars == <<l1, llc, op, pc, waiters, asked, net, failed>>
vars == <<lockVars, stackVars>>

\* LOCK is the first half of an atomic access, READ_EX; PREFETCH is the
\* prefetcher of the last level, run by the thread after its access.
Ops == {"READ", "WRITE", "LOCK", "PREFETCH"}

Exclusive(o) == o \in {"WRITE", "LOCK"}

\* Not the code: a line can be read while it is SHARED_UPGRADING.
PermissibleUpgrading(s, o) ==
  s \in (IF Exclusive(o) THEN {"M"} ELSE {"S", "SU", "E", "M"})

\* operationPermissibleinCache.
Permissible(s, o) == s \in (IF Exclusive(o) THEN {"M"} ELSE {"S", "E", "M"})

Init ==
  /\ InitLock
  /\ l1 = [c \in Cores |-> "I"]
  /\ llc = "I"
  /\ op = [c \in Cores |-> "none"]
  /\ pc = [c \in Cores |-> "idle"]
  /\ waiters = << >>
  /\ asked = "no"
  /\ net = "idle"
  /\ failed = FALSE

Asserts(P) == failed' = ~P

\* updateCacheBlock to state s in the first-level caches cs: those that have
\* the line change, and a MODIFIED one writes its data to the next level first.
Updated(cs, s) == [c \in Cores |-> IF c \in cs /\ l1[c] # "I" THEN s ELSE l1[c]]

\* writeCacheBlock asserts "Got writeback for non-MODIFIED line".
WritebackFits(cs) == \A c \in cs : l1[c] = "M" => llc = "M"

-----------------------------------------------------------------------------
(* The threads of the cores: processMemOpFromCore and doPrefetch           *)

Goto(c, l) == pc' = [pc EXCEPT ![c] = l]

\* acquireLock; doPrefetch has found the line unreadable, and takes the stack
\* lock.
Begin(c, o) ==
  /\ pc[c] = "idle"
  /\ op' = [op EXCEPT ![c] = o]
  /\ IF o = "PREFETCH"
     THEN ~ Permissible(llc, o) /\ acquire_exclusive(c) /\ Goto(c, "next")
     ELSE acquire_shared(c) /\ Goto(c, "first")
  /\ UNCHANGED <<l1, llc, waiters, asked, net, failed>>

\* A miss in the first level: acquireStackLock(ca_address, true).
GoDown(c) ==
  /\ pc[c] = "first"
  /\ ~ Permissible(l1[c], op[c])
  /\ upgrade(c)
  /\ Goto(c, "next")
  /\ UNCHANGED <<l1, llc, op, waiters, asked, net, failed>>

\* The caches that an access of c at the last level has to care about.
Siblings(c) == IF op[c] = "PREFETCH" THEN Cores ELSE Cores \ {c}

\* Whether processShmemReqFromPrevCache serves the access at the last level.
Served(c) == Permissible(llc, op[c]) \/ (Exclusive(op[c]) /\ llc = "E")

\* Not the code: the last level does not learn of the silent upgrade.
ServeFirstOnly(c) ==
  /\ UNCHANGED <<llc, failed, op>>
  /\ l1' = [Updated(Siblings(c), IF Exclusive(op[c]) THEN "I" ELSE "S") EXCEPT
              ![c] = IF Exclusive(op[c]) THEN "M" ELSE llc]
  /\ downgrade(c)
  /\ Goto(c, "access")

\* It does so: a write invalidates the line in the other caches, and makes an
\* EXCLUSIVE line MODIFIED; a read of a line that is not shared with other
\* stacks makes their copies SHARED.  copyDataFromNextLevel then inserts the
\* line in the first level, in the state that it has in the last.
Serve(c) ==
  LET s == IF Exclusive(op[c]) THEN "M" ELSE llc
      others == CASE Exclusive(op[c])  -> Updated(Siblings(c), "I")
                  [] ~ Exclusive(op[c]) /\ llc # "S" -> Updated(Siblings(c), "S")
                  [] OTHER -> l1
  IN  /\ Asserts(WritebackFits(Siblings(c)) /\ (op[c] # "PREFETCH" => l1[c] # "M"))
      /\ llc' = s
      /\ IF op[c] = "PREFETCH"
         THEN /\ l1' = others
              /\ release_exclusive(c)
              /\ Goto(c, "idle")
              /\ op' = [op EXCEPT ![c] = "none"]
         ELSE /\ l1' = [others EXCEPT ![c] = s]
              /\ downgrade(c)
              /\ Goto(c, "access")
              /\ UNCHANGED op

\* The last level misses: initiateDirectoryAccess.  The first waiter sends the
\* request; then the core gives up the lock and waits.
AskDirectory(c) ==
  /\ waiters' = Append(waiters, c)
  /\ IF waiters # << >>
     THEN UNCHANGED <<llc, asked>>
     ELSE /\ asked' = CASE Exclusive(op[c]) /\ llc = "S" -> "UPGRADE_REQ"
                        [] Exclusive(op[c]) /\ llc # "S" -> "EX_REQ"
                        [] OTHER -> "SH_REQ"
          /\ llc' = IF Exclusive(op[c]) /\ llc = "S" THEN "SU" ELSE llc
  /\ Asserts(/\ op[c] # "PREFETCH" => l1[c] # "M"
             /\ waiters = << >> /\ Exclusive(op[c]) => llc \in {"I", "S"}
             /\ llc = "S" => WritebackFits(Siblings(c)))
  /\ LET mine == IF op[c] = "PREFETCH" THEN l1 ELSE [l1 EXCEPT ![c] = "I"]
     IN  l1' = IF Exclusive(op[c]) /\ llc = "S" THEN [d \in Cores |-> "I"] ELSE mine
  /\ release_exclusive(c)
  /\ Goto(c, "wait")
  /\ UNCHANGED op

\* The core has the stack lock.
UseNextLevel(c) ==
  /\ pc[c] = "next"
  /\ mode[c] = "exclusive"
  /\ \/ Served(c) /\ Serve(c) /\ UNCHANGED <<waiters, asked>>
     \/ ~ Served(c) /\ AskDirectory(c)
  /\ UNCHANGED net

\* The simulation thread has passed the stack lock: wakeUpNetworkThread, and
\* the access that is now possible.  The simulation thread wants the lock back.
Resume(c) ==
  /\ pc[c] = "wait"
  /\ mode[c] = "exclusive"
  /\ IF Served(c)
     THEN Serve(c)
     ELSE Asserts(FALSE) /\ UNCHANGED <<lockVars, l1, llc, op, pc>>
  /\ net' = "signalled"
  /\ UNCHANGED <<waiters, asked>>

\* accessCache in the first level.  LOCK keeps the lock until UNLOCK.
Access(c) ==
  /\ \/ pc[c] = "first" /\ Permissible(l1[c], op[c])
     \/ pc[c] = "access"
  /\ Asserts(Permissible(l1[c], op[c]))
  /\ IF op[c] = "LOCK"
     THEN Goto(c, "atomic") /\ UNCHANGED <<lockVars, op>>
     ELSE release_shared(c) /\ Goto(c, "idle") /\ op' = [op EXCEPT ![c] = "none"]
  /\ UNCHANGED <<l1, llc, waiters, asked, net>>

\* The write of the atomic access must find the line where LOCK left it.
Unlock(c) ==
  /\ pc[c] = "atomic"
  /\ Asserts(l1[c] = "M")
  /\ release_shared(c)
  /\ Goto(c, "idle")
  /\ op' = [op EXCEPT ![c] = "none"]
  /\ UNCHANGED <<l1, llc, waiters, asked, net>>

\* Core c fetches another line of the set, and its first level evicts this one.
EvictFirst(c) ==
  /\ pc[c] = "idle"
  /\ \A k \in Cores : holder[k] = Nobody
  /\ l1[c] # "I"
  /\ Asserts(WritebackFits({c}))
  /\ l1' = [l1 EXCEPT ![c] = "I"]
  /\ UNCHANGED <<lockVars, llc, op, pc, waiters, asked, net>>

-----------------------------------------------------------------------------
(* The simulation thread: handleMsgFromDramDirectory                       *)

\* It takes a reply, or a message that is not the answer to a request, from its
\* queue and calls acquireStackLock.
TakeMsg(what) ==
  /\ net = "idle"
  /\ what = "reply" => asked # "no"
  /\ acquire_exclusive(Net)
  /\ net' = what
  /\ UNCHANGED <<l1, llc, op, pc, waiters, asked, failed>>

NetHas(what) == net = what /\ mode[Net] = "exclusive"

\* processExRep-, processShRep- and processUpgradeRepFromDramDirectory.
\* The upgrade makes the copies of the first levels MODIFIED as well.
HandleReply ==
  /\ NetHas("reply")
  /\ IF llc = "SU"
     THEN llc' = "M" /\ l1' = Updated(Cores, "M") /\ Asserts(asked = "UPGRADE_REQ")
     ELSE /\ llc' \in (IF asked = "SH_REQ" THEN {"S", "E"} ELSE {"E"})
          /\ Asserts(llc = "I")
          /\ UNCHANGED l1
  /\ asked' = "no"
  /\ net' = "serve"
  /\ UNCHANGED <<lockVars, op, pc, waiters>>

\* Not the code: the first levels are left alone.
StackUpdateLastOnly(s) ==
  /\ Asserts(WritebackFits(Cores))
  /\ llc' = s
  /\ UNCHANGED l1

\* updateCacheBlock of the whole stack to state s.
StackUpdate(s) ==
  /\ Asserts(WritebackFits(Cores))
  /\ llc' = s
  /\ l1' = Updated(Cores, s)

\* processInvReq-, processFlushReq- and processWbReqFromDramDirectory, or the
\* eviction of the line by the insertion of another one.
HandleRequest ==
  /\ NetHas("request")
  /\ \/ llc = "I" /\ UNCHANGED <<l1, llc, failed>>
     \/ llc # "I" /\ StackUpdate("I")
     \/ llc \in {"S", "E", "M"} /\ StackUpdate("S")
     \/ llc = "SU" /\ UNCHANGED <<l1, llc, failed>>
  /\ release_exclusive(Net)
  /\ net' = "idle"
  /\ UNCHANGED <<op, pc, waiters, asked>>

\* The loop over m_directory_waiters: it ends, asks for an upgrade in place of
\* the front waiter, or passes the lock to it.
ServeWaiter ==
  /\ NetHas("serve")
  /\ \/ /\ waiters = << >>
        /\ release_exclusive(Net)
        /\ net' = "idle"
        /\ UNCHANGED <<llc, asked>>
     \/ /\ waiters # << >>
        /\ Exclusive(op[Head(waiters)]) /\ llc = "S"
        /\ llc' = "SU"
        /\ asked' = "UPGRADE_REQ"
        /\ release_exclusive(Net)
        /\ net' = "idle"
     \/ /\ waiters # << >>
        /\ ~ (Exclusive(op[Head(waiters)]) /\ llc = "S")
        /\ PassTo(Head(waiters))
        /\ net' = "passed"
        /\ UNCHANGED <<llc, asked>>
  /\ UNCHANGED <<l1, op, pc, waiters, failed>>

\* waitForUserThread is over: acquireStackLock again.
TakeBack ==
  /\ net = "signalled"
  /\ acquire_exclusive(Net)
  /\ net' = "drop"
  /\ UNCHANGED <<l1, llc, op, pc, waiters, asked, failed>>

\* Not the code: the whole queue is dropped with the waiter.
DropWaiterAll ==
  /\ NetHas("drop")
  /\ waiters' = << >>
  /\ net' = "serve"
  /\ UNCHANGED <<lockVars, l1, llc, op, pc, asked, failed>>

DropWaiter ==
  /\ NetHas("drop")
  /\ waiters' = Tail(waiters)
  /\ net' = "serve"
  /\ UNCHANGED <<lockVars, l1, llc, op, pc, asked, failed>>

-----------------------------------------------------------------------------
AcquireNext(t) == acquire_next(t) /\ UNCHANGED stackVars

CoreStep(c) == GoDown(c) \/ UseNextLevel(c) \/ Resume(c) \/ Access(c) \/ Unlock(c)

NetStep == HandleReply \/ HandleRequest \/ ServeWaiter \/ TakeBack \/ DropWaiter

Next ==
  /\ ~ failed
  /\ \/ \E c \in Cores : CoreStep(c) \/ EvictFirst(c) \/ \E o \in Ops : Begin(c, o)
     \/ \E what \in {"reply", "request"} : TakeMsg(what)
     \/ NetStep
     \/ \E t \in Threads : AcquireNext(t)

\* Threads go on; a thread that waits for a mutex gets it if it is free again
\* and again; the directory's answer is not overtaken for ever by its requests.
Fairness ==
  /\ \A c \in Cores : WF_vars(CoreStep(c))
  /\ WF_vars(NetStep)
  /\ \A t \in Threads : SF_vars(AcquireNext(t))
  /\ SF_vars(TakeMsg("reply"))

Spec == Init /\ [][Next]_vars /\ Fairness

-----------------------------------------------------------------------------
\* Types of all variables.
TypeOK ==
  /\ LockTypeOK
  /\ l1 \in [Cores -> {"I", "S", "E", "M"}]
  /\ llc \in {"I", "S", "SU", "E", "M"}
  /\ op \in [Cores -> Ops \cup {"none"}]
  /\ pc \in [Cores -> {"idle", "first", "next", "wait", "access", "atomic"}]
  /\ waiters \in Seq(Cores)
  /\ asked \in {"no", "SH_REQ", "EX_REQ", "UPGRADE_REQ"}
  /\ net \in {"idle", "reply", "request", "serve", "passed", "signalled", "drop"}
  /\ failed \in BOOLEAN

\* No assertion of the controllers fails: nobody gives up a MODIFIED line
\* ("assert(old_cstate != CacheState::MODIFIED)"), a first level writes back only
\* to a MODIFIED line ("Got writeback for non-MODIFIED line"), the data is there
\* when a waiter is woken up ("Tried to read in next-level cache, but data is
\* already gone") and when an atomic access goes on ("Expected to find address").
NoAssertionFails == ~ failed

\* The last level includes the first levels, so that a message that finds no
\* line there need not look further, and is MODIFIED if one of them is, so that
\* the data of the first level has a place to go.
Inclusion ==
  \A c \in Cores : /\ l1[c] # "I" => llc # "I"
                   /\ l1[c] = "M" => llc = "M"

\* Once a line that the last level has EXCLUSIVE has been read by a second core,
\* the copies of both "will have shared state".
ReadersShare ==
  \A c, d \in Cores :
    llc = "E" /\ c # d /\ l1[c] # "I" /\ l1[d] # "I" /\ mode[Net] = "none"
      => l1[c] = "S" /\ l1[d] = "S"

\* Every access ends, whatever the other cores, the prefetcher and the directory
\* do: no core waits for ever for the lock, the directory or a wake-up.
AccessesEnd == \A c \in Cores : pc[c] # "idle" ~> pc[c] = "idle"
=============================================================================
