------------------------------ MODULE Coherence ------------------------------
(***************************************************************************)
(* Directory-based cache coherence for one line: the last-level caches     *)
(* (LastLevelCache), the directory with NUCA slice and DRAM                *)
(* (DramDirectory) and the network between them (ShmemNetwork), composed.  *)
(***************************************************************************)
EXTENDS LastLevelCache, DramDirectory

vars == <<netVars, llcVars, dirVars>>

Init == InitNetwork /\ InitCaches /\ InitDirectory

Threads    == \E c \in config.caches : ThreadStep(c) /\ UNCHANGED dirVars
Caches     == \E c \in LLC : (CacheStep(c) \/ Evict(c)) /\ UNCHANGED dirVars
Directory  == (DirectoryStep \/ ReplaceEntry \/ NucaEvict) /\ UNCHANGED llcVars
Dram       == HandleDram /\ UNCHANGED llcVars

\* After a failed assertion the simulator is gone.
Next == ~ failed /\ (Threads \/ Caches \/ Directory \/ Dram)

\* Every simulation thread takes the messages of its queue in turn
\* (SimThread::run), a thread that was handed the stack lock does its access
\* and gives the lock back, and the directory finishes the handler it is in.
Fairness ==
  /\ \A c \in LLC : WF_vars(CacheStep(c) /\ UNCHANGED dirVars)
  /\ WF_vars(DirectoryStep /\ UNCHANGED llcVars)
  /\ WF_vars(Dram)

Spec == Init /\ [][Next]_vars /\ Fairness

\* A full-map directory: max_hw_sharers leaves room for every cache.
RoomForAll == \A k \in Configs : Cardinality(LLC) <= k.hw

-----------------------------------------------------------------------------
\* Types of all variables.
TypeOK == NetworkTypeOK /\ DirectoryTypeOK /\ CachesTypeOK

\* No assertion of the cache and directory controllers fails, whatever the
\* order of requests, evictions, replacements of the directory entry and
\* answers: the asserts of dram_directory_cntlr.cc and cache_cntlr.cc that the
\* handlers name, "MODIFIED data is about to get lost!" among them.
NoAssertionFails == ~ failed

\* What a cache may do with its copy, and the promise of the protocol.
Permission == [c \in LLC |-> CASE cstate[c] \in {"E", "M"}  -> "write"
                               [] cstate[c] \in {"S", "SU"} -> "read"
                               [] OTHER                     -> "none"]

Abstract == INSTANCE LineAccess WITH perm <- Permission

\* The protocol implements LineAccess: whatever is in flight, a cache reads
\* only while nobody can write, and gets the right to write only when no other
\* cache holds a copy.
ImplementsLineAccess == Abstract!Spec

\* Messages on their way from the directory to c and from c to the directory.
OnItsWay(c, ts) == \E i \in DOMAIN toLLC[c] : toLLC[c][i].t \in ts
Answered(c, ts) == \E i \in DOMAIN toDir : toDir[i].c = c /\ toDir[i].t \in ts

\* The directory never loses a copy: a cache that holds the line, or is about
\* to receive it, or has given it up without the directory knowing yet, is on
\* the list of sharers; and every sharer is in one of these situations, so an
\* invalidation that the directory waits for is always answered by somebody.
DirectoryTracksCopies ==
  \A c \in LLC :
    c \in dir.sharers <=>
      \/ cstate[c] # "I"
      \/ OnItsWay(c, {"EX_REP", "SH_REP"})
      \/ Answered(c, {"INV_REP", "FLUSH_REP"})
      \/ reqs # << >> /\ Head(reqs).who = c /\ (Head(reqs).wait \/ Head(reqs).fwd # NoCore)

\* A thread that waits for the line is served: the requests of all caches, the
\* evictions and the replacements of the directory entry never leave a request
\* unanswered.
WaitersServed == \A c \in LLC : waiters[c] # << >> ~> pc[c] = "gap"
=============================================================================
