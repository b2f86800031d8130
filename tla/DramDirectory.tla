---------------------------- MODULE DramDirectory ----------------------------
(***************************************************************************)
(* The directory that is home to one cache line (DramDirectoryCntlr), the  *)
(* NUCA slice beside it and the DRAM controller behind it.                 *)
(*                                                                         *)
(* Requests for the line queue up; the front one is in progress until      *)
(* processNextReqFromL2Cache takes it away.  A handler of the code may     *)
(* process several requests in a row by calling itself: here it is one     *)
(* Receive step followed by one Process step per request, during which the *)
(* directory takes no message (job # Idle).                                *)
(*                                                                         *)
(* Other lines are seen only where they touch this one: ReplaceEntry is    *)
(* the allocation of an entry for another line that takes the entry of     *)
(* this one, NucaEvict the insertion of another line in the NUCA slice.    *)
(***************************************************************************)
EXTENDS ShmemNetwork, FiniteSetsExt

CONSTANTS
  Configs,   \* the configurations to try: m_protocol, whether there is an
             \* m_nuca_cache, max_hw_sharers, and the caches that are in use
  Idle,      \* the directory is not processing a request
  Absent,    \* the line is not in the NUCA cache
  Unset      \* m_forwarder_id before its first assignment

ASSUME DirectoryAssumption ==
  /\ Configs \subseteq [protocol : {"MSI", "MESI", "MESIF"}, nuca : BOOLEAN,
                        hw : Nat \ {0}, caches : SUBSET LLC]
  /\ Idle \notin Data \cup {NoData}
  /\ Unset \notin LLC \cup {NoCore}

VARIABLES
  config,   \* the configuration; never changes
  dir,      \* the directory entry
  reqs,     \* m_dram_directory_req_queue_list of the line
  job,      \* Idle, or the cached_data_buf with which to process the front request
  nuca,     \* the line in the NUCA cache: Absent, or its data and whether MODIFIED
  dram      \* the contents of the DRAM

dirVars == <<config, dir, reqs, job, nuca, dram>>

\* createDirectoryEntry.  The constructor leaves m_forwarder_id uninitialised.
NewEntry == [st |-> "UNCACHED", sharers |-> {}, owner |-> NoCore, fwd |-> Unset]

NewReq(t, c) == [t |-> t, who |-> c, wait |-> FALSE, fwd |-> NoCore, d |-> NoData]

InitDirectory ==
  /\ config \in Configs
  /\ dir = NewEntry
  /\ reqs = << >>
  /\ job = Idle
  /\ nuca = Absent
  /\ dram \in Values

-----------------------------------------------------------------------------
\* NucaCache::write through sendDataToNUCA.  A line that was there becomes
\* MODIFIED, a new line does not.  On a hit write() leaves `eviction` alone, and
\* sendDataToNUCA reads it uninitialised: it may send some buffer to the DRAM.
sendDataToNUCA(d) ==
  IF nuca = Absent
  THEN /\ nuca' = [d |-> d, mod |-> FALSE]
       /\ UNCHANGED toDram
  ELSE /\ nuca' = [d |-> d, mod |-> TRUE]
       /\ \/ UNCHANGED toDram
          \/ toDram' = DramQueueWith("DRAM_WRITE_REQ", Junk)

sendDataToDram(d) ==
  IF config.nuca
  THEN sendDataToNUCA(d)
  ELSE /\ toDram' = DramQueueWith("DRAM_WRITE_REQ", d)
       /\ UNCHANGED nuca

\* Not the code: the requests behind the front one go with it.
processNextReqForgetting == reqs' = << >> /\ job' = Idle

\* processNextReqFromL2Cache; a NULLIFY_REQ is not a request it knows.
processNextReq ==
  /\ reqs' = Tail(reqs)
  /\ job' = IF Tail(reqs) = << >> THEN Idle ELSE NoData

NextReqKnown == Len(reqs) > 1 => reqs[2].t # "NULLIFY_REQ"

-----------------------------------------------------------------------------
(* handleMsgFromL2Cache and handleMsgFromDRAM                              *)

Receives(t) ==
  /\ job = Idle
  /\ toDir # << >>
  /\ Head(toDir).t = t
  /\ toDir' = Tail(toDir)

ReceiveReq ==
  \E t \in Requests :
    /\ Receives(t)
    /\ reqs' = Append(reqs, NewReq(t, Head(toDir).c))
    /\ job' = IF reqs = << >> THEN NoData ELSE Idle
    /\ UNCHANGED <<toLLC, toDram, failed, config, dir, nuca, dram>>

\* Whether the invalidation of c, which leaves entry e, lets request r go on.
GoesOnAfterInv(e, r, c) ==
  CASE r.t = "UPGRADE_REQ" -> e.sharers \subseteq {r.who}
    [] r.t = "SH_REQ"      -> ~ r.wait /\ r.fwd \in {NoCore, c}
    [] OTHER               -> e.st = "UNCACHED"

\* The entry without sharer c.
Without(c) ==
  [dir EXCEPT !.sharers = @ \ {c},
              !.st = IF dir.sharers \subseteq {c} THEN "UNCACHED" ELSE @]

ReceiveInvRep ==
  /\ Receives("INV_REP")
  /\ LET c == Head(toDir).c
         e == [Without(c) EXCEPT !.fwd = IF @ = c THEN NoCore ELSE @]
     IN  /\ Asserts(dir.st \in {"SHARED", "EXCLUSIVE"} /\ c \in dir.sharers)
         /\ dir' = e
         /\ job' = IF reqs # << >> /\ GoesOnAfterInv(e, Head(reqs), c)
                   THEN NoData ELSE Idle
  /\ UNCHANGED <<toLLC, toDram, config, reqs, nuca, dram>>

\* When sharers are left the data is kept in the request by pointer, and the
\* buffer is freed as soon as this handler returns.
ReceiveFlushRep ==
  /\ Receives("FLUSH_REP")
  /\ LET c == Head(toDir).c
         d == Head(toDir).d
         e == [Without(c) EXCEPT !.fwd = NoCore, !.owner = NoCore]
     IN  /\ Asserts(c \in dir.sharers /\ (e.sharers # {} => dir.st = "SHARED"))
         /\ dir' = e
         /\ CASE reqs = << >> ->
                   sendDataToDram(d) /\ UNCHANGED <<reqs, job>>
              [] reqs # << >> /\ Head(reqs).t = "EX_REQ" ->
                   job' = d /\ UNCHANGED <<reqs, nuca, toDram>>
              [] reqs # << >> /\ Head(reqs).t = "SH_REQ" ->
                   sendDataToDram(d) /\ job' = d /\ UNCHANGED reqs
              [] reqs # << >> /\ Head(reqs).t = "UPGRADE_REQ" /\ e.sharers = {} ->
                   job' = d /\ UNCHANGED <<reqs, nuca, toDram>>
              [] reqs # << >> /\ Head(reqs).t = "UPGRADE_REQ" /\ e.sharers # {} ->
                   /\ \E left \in {d, Junk} : reqs' = [reqs EXCEPT ![1].d = left]
                   /\ UNCHANGED <<job, nuca, toDram>>
              [] OTHER ->
                   sendDataToDram(d) /\ job' = NoData /\ UNCHANGED reqs
  /\ UNCHANGED <<toLLC, config, dram>>

ReceiveWbRep ==
  /\ Receives("WB_REP")
  /\ Asserts(/\ Head(toDir).c \in dir.sharers
             /\ reqs # << >> /\ Head(reqs).t = "SH_REQ")
  /\ dir' = [dir EXCEPT !.owner = NoCore, !.st = "SHARED"]
  /\ job' = Head(toDir).d
  /\ UNCHANGED <<toLLC, toDram, config, reqs, nuca, dram>>

\* processDRAMReply.
ReceiveDramReply ==
  /\ Receives("DRAM_READ_REP")
  /\ Asserts(/\ reqs # << >> /\ NextReqKnown
             /\ CASE Head(reqs).t = "SH_REQ" -> dir.st \in {"SHARED", "EXCLUSIVE"}
                  [] Head(reqs).t = "EX_REQ" -> dir.st = "MODIFIED"
                  [] OTHER -> Head(reqs).t = "UPGRADE_REQ")
  /\ LET r == Head(reqs)
         shared == r.t = "SH_REQ" /\ dir.st # "EXCLUSIVE"
     IN  toLLC' = LLCQueuesWith({r.who}, IF shared THEN "SH_REP" ELSE "EX_REP", Head(toDir).d)
  /\ IF config.nuca THEN sendDataToNUCA(Head(toDir).d) ELSE UNCHANGED <<nuca, toDram>>
  /\ processNextReq
  /\ UNCHANGED <<config, dir, dram>>

-----------------------------------------------------------------------------
(* Processing the front request                                            *)

Processes(t) ==
  /\ job # Idle
  /\ Head(reqs).t = t
  /\ UNCHANGED <<toDir, config, dram>>

\* Ask the caches cs and wait for their answers.
AskAndWait(cs, t) ==
  /\ toLLC' = LLCQueuesWith(cs, t, NoData)
  /\ job' = Idle
  /\ UNCHANGED <<toDram, dir, reqs, nuca>>

\* Give r its answer and turn to the next request.
Answer(r, rep, e, d) ==
  /\ toLLC' = LLCQueuesWith({r.who}, rep, d)
  /\ dir' = e
  /\ Asserts(NextReqKnown)
  /\ processNextReq
  /\ UNCHANGED <<toDram, nuca>>

\* MESIF: a sharing cache is asked for the data, at most once per request.
Forwards(e, r) ==
  /\ config.protocol = "MESIF"
  /\ r.fwd = NoCore
  /\ e.st = "SHARED"
  /\ e.fwd # NoCore

\* retrieveDataAndSendToL2Cache for the front request r, with entry e.
retrieveDataAndSendToL2Cache(rep, e, r, d) ==
  CASE d # NoData ->
         Answer(r, rep, [e EXCEPT !.fwd = r.who], d)
    [] d = NoData /\ nuca # Absent ->
         Answer(r, rep, e, nuca.d)
    [] d = NoData /\ nuca = Absent /\ Forwards(e, r) ->
         /\ Asserts(e.fwd # Unset)
         /\ toLLC' = LLCQueuesWith({e.fwd}, "WB_REQ", NoData)
         /\ reqs' = [reqs EXCEPT ![1].fwd = e.fwd]
         /\ dir' = e
         /\ job' = Idle
         /\ UNCHANGED <<toDram, nuca>>
    [] OTHER ->
         /\ toDram' = DramQueueWith("DRAM_READ_REQ", NoData)
         /\ reqs' = [reqs EXCEPT ![1].wait = TRUE]
         /\ dir' = e
         /\ job' = Idle
         /\ UNCHANGED <<toLLC, failed, nuca>>

\* The entry with the requester as its only sharer and owner.
OwnedBy(c, st) == [dir EXCEPT !.st = st, !.sharers = @ \cup {c}, !.owner = c]

processExReq ==
  /\ Processes("EX_REQ")
  /\ LET r == Head(reqs)
     IN  CASE dir.st \in {"EXCLUSIVE", "MODIFIED"} ->
                /\ Asserts(job = NoData /\ dir.owner \in LLC)
                /\ AskAndWait({dir.owner}, "FLUSH_REQ")
           [] dir.st = "SHARED" ->
                /\ Asserts(job = NoData)
                /\ AskAndWait(dir.sharers, "INV_REQ")
           [] dir.st = "UNCACHED" ->
                retrieveDataAndSendToL2Cache("EX_REP", OwnedBy(r.who, "MODIFIED"), r, job)

\* addSharer fails when max_hw_sharers caches share the line already; then
\* one of them, chosen at random, has to go first.
processShReq ==
  /\ Processes("SH_REQ")
  /\ LET r == Head(reqs)
         room == r.who \in dir.sharers \/ Cardinality(dir.sharers) < config.hw
     IN  CASE dir.st \in {"EXCLUSIVE", "MODIFIED"} ->
                /\ Asserts(/\ job = NoData /\ dir.owner \in LLC
                           /\ dir.st = "EXCLUSIVE" => r.who # dir.owner)
                /\ AskAndWait({dir.owner}, "WB_REQ")
           [] dir.st = "SHARED" /\ room ->
                retrieveDataAndSendToL2Cache("SH_REP",
                  [dir EXCEPT !.sharers = @ \cup {r.who}], r, job)
           [] dir.st = "SHARED" /\ ~ room ->
                /\ \E c \in dir.sharers : AskAndWait({c}, "INV_REQ")
                /\ UNCHANGED failed
           [] dir.st = "UNCACHED" /\ config.protocol = "MSI" ->
                retrieveDataAndSendToL2Cache("SH_REP", OwnedBy(r.who, "SHARED"), r, job)
           [] dir.st = "UNCACHED" /\ config.protocol # "MSI" ->
                retrieveDataAndSendToL2Cache("EX_REP", OwnedBy(r.who, "EXCLUSIVE"), r, job)

\* With other sharers left and no copy at the requester, the first sharer is
\* asked to FLUSH so that the data need not come from the DRAM.
processUpgradeReq ==
  /\ Processes("UPGRADE_REQ")
  /\ LET r == Head(reqs)
         first == Min(dir.sharers)
         flushed == IF r.who \in dir.sharers THEN {} ELSE {first}
     IN  CASE dir.st \in {"EXCLUSIVE", "MODIFIED"} /\ first = r.who ->
                /\ Asserts(dir.owner = r.who /\ NextReqKnown)
                /\ toLLC' = LLCQueuesWith({r.who}, "UPGRADE_REP", NoData)
                /\ dir' = [dir EXCEPT !.st = "MODIFIED"]
                /\ processNextReq
                /\ UNCHANGED <<toDram, nuca>>
           [] dir.st \in {"EXCLUSIVE", "MODIFIED"} /\ first # r.who ->
                /\ Asserts(dir.owner \in LLC)
                /\ AskAndWait({dir.owner}, "FLUSH_REQ")
           [] dir.st = "SHARED" /\ dir.sharers = {r.who} ->
                Answer(r, "UPGRADE_REP", OwnedBy(r.who, "MODIFIED"), NoData)
           [] dir.st = "SHARED" /\ dir.sharers # {r.who} ->
                /\ toLLC' = [c \in LLC |->
                     CASE c \in flushed -> Append(toLLC[c], [t |-> "FLUSH_REQ", d |-> NoData])
                       [] c \in dir.sharers \ (flushed \cup {r.who}) ->
                            Append(toLLC[c], [t |-> "INV_REQ", d |-> NoData])
                       [] OTHER -> toLLC[c]]
                /\ job' = Idle
                /\ UNCHANGED <<toDram, failed, dir, reqs, nuca>>
           [] dir.st = "UNCACHED" ->
                retrieveDataAndSendToL2Cache("EX_REP", OwnedBy(r.who, "MODIFIED"), r,
                                             IF job = NoData THEN r.d ELSE job)

processNullifyReq ==
  /\ Processes("NULLIFY_REQ")
  /\ CASE dir.st \in {"EXCLUSIVE", "MODIFIED"} ->
            /\ Asserts(dir.owner \in LLC)
            /\ AskAndWait({dir.owner}, "FLUSH_REQ")
       [] dir.st = "SHARED" ->
            AskAndWait(dir.sharers, "INV_REQ") /\ UNCHANGED failed
       [] dir.st = "UNCACHED" ->
            /\ Asserts(NextReqKnown)
            /\ dir' = NewEntry
            /\ processNextReq
            /\ UNCHANGED <<toLLC, toDram, nuca>>

\* processDirectoryEntryAllocationReq for another line, with this line's entry
\* the one it replaces: only an entry without requests is.
ReplaceEntry ==
  /\ job = Idle
  /\ reqs = << >>
  /\ dir # NewEntry
  /\ reqs' = <<NewReq("NULLIFY_REQ", NoCore)>>
  /\ job' = NoData
  /\ UNCHANGED <<netVars, config, dir, nuca, dram>>

\* NucaCache::write of another line: only a MODIFIED victim goes to the DRAM.
NucaEvict ==
  /\ job = Idle
  /\ nuca # Absent
  /\ nuca' = Absent
  /\ toDram' = IF nuca.mod THEN DramQueueWith("DRAM_WRITE_REQ", nuca.d) ELSE toDram
  /\ UNCHANGED <<toDir, toLLC, failed, config, dir, reqs, job, dram>>

\* DramCntlrInterface::handleMsgFromTagDirectory.
HandleDram ==
  /\ toDram # << >>
  /\ toDram' = Tail(toDram)
  /\ IF Head(toDram).t = "DRAM_READ_REQ"
     THEN toDir' = DirQueueWith(NoCore, "DRAM_READ_REP", dram) /\ UNCHANGED dram
     ELSE dram' = Head(toDram).d /\ UNCHANGED toDir
  /\ UNCHANGED <<toLLC, failed, config, dir, reqs, job, nuca>>

\* The steps of the directory's simulation thread.
DirectoryStep ==
  \/ ReceiveReq \/ ReceiveInvRep \/ ReceiveFlushRep \/ ReceiveWbRep \/ ReceiveDramReply
  \/ processExReq \/ processShReq \/ processUpgradeReq \/ processNullifyReq

DirectoryTypeOK ==
  /\ config \in Configs
  /\ dir \in [st : {"UNCACHED", "SHARED", "EXCLUSIVE", "MODIFIED"},
              sharers : SUBSET LLC, owner : LLC \cup {NoCore},
              fwd : LLC \cup {NoCore, Unset}]
  /\ reqs \in Seq([t : Requests \cup {"NULLIFY_REQ"}, who : LLC \cup {NoCore},
                   wait : BOOLEAN, fwd : LLC \cup {NoCore}, d : Data \cup {NoData}])
  /\ job \in {Idle, NoData} \cup Data
  /\ nuca \in {Absent} \cup [d : Data, mod : BOOLEAN]
  /\ dram \in Data
=============================================================================
