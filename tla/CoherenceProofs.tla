--------------------------- MODULE CoherenceProofs ---------------------------
(***************************************************************************)
(* What the inductive invariant of CoherenceSteps says of the protocol     *)
(* when the directory has room for every sharer: no assertion of the       *)
(* controllers fails, every copy is tracked by the directory, and the      *)
(* protocol implements LineAccess.                                         *)
(***************************************************************************)
EXTENDS CoherenceSteps, FiniteSetTheorems

-----------------------------------------------------------------------------
(* The invariant of the protocol                                           *)

\* The entry of a full-map directory has room for one more sharer, whatever
\* sharers it lists: addSharer() never fails.
LEMMA FullMapHasRoom ==
  ASSUME RoomForAll, CohInv
  PROVE  RoomForOne
  <1>1. dir.sharers \in SUBSET LLC /\ config \in Configs /\ config.hw \in Nat
    BY DirectoryAssumption, Zenon DEF CohInv, Types, DirectoryTypeOK
  <1>2. IsFiniteSet(LLC) /\ Cardinality(LLC) <= config.hw
    BY <1>1, NetworkAssumption DEF RoomForAll
  <1> SUFFICES ASSUME NEW c \in LLC, c \notin dir.sharers
               PROVE  Cardinality(dir.sharers) < config.hw
    BY DEF RoomForOne
  <1>3. /\ IsFiniteSet(dir.sharers) /\ Cardinality(dir.sharers) <= Cardinality(LLC)
        /\ Cardinality(LLC) # Cardinality(dir.sharers)
    BY <1>1, <1>2, FS_Subset, Zenon
  <1>4. Cardinality(dir.sharers) \in Nat /\ Cardinality(LLC) \in Nat
    BY <1>2, <1>3, FS_CardinalityType, Zenon
  <1> QED BY <1>1, <1>2, <1>3, <1>4

\* Every step of a thread, a cache, the directory or the DRAM keeps the
\* invariant; the request to share needs room on the list of sharers.
LEMMA NextInv ==
  ASSUME RoomForAll, CohInv, [Next]_vars
  PROVE  CohInv'
  <1>1. CASE Threads \/ Caches
    BY <1>1, CachesKeep, Zenon
  <1>2. ASSUME Directory PROVE CohInv'
    <2>1. (DirectoryStep \/ ReplaceEntry \/ NucaEvict) /\ UNCHANGED llcVars
      BY <1>2, Zenon DEF Directory
    <2>2. CASE ReceiveReq \/ ReceiveInvRep \/ ReceiveFlushRep \/ ReceiveWbRep \/ ReceiveDramReply
      BY <2>1, <2>2, ReceivesKeep, Zenon
    <2>3. CASE processExReq \/ processShReq \/ processUpgradeReq \/ processNullifyReq \/ ReplaceEntry
      BY <2>1, <2>3, FullMapHasRoom, ServesKeep, Zenon
    <2>4. CASE NucaEvict
      BY <2>1, <2>4, NucaEvictKeeps, Zenon
    <2> QED BY <2>1, <2>2, <2>3, <2>4, Zenon DEF DirectoryStep
  <1>3. ASSUME Dram PROVE CohInv'
    BY <1>3, HandleDramKeeps, Zenon DEF Dram
  <1>4. CASE UNCHANGED vars
    <2>1. /\ UNCHANGED llcVars /\ UNCHANGED <<toLLC, failed, config, dir, reqs, job>>
          /\ toDir' = toDir /\ toDram' = toDram /\ nuca' = nuca /\ dram' = dram
      BY <1>4, Zenon DEF vars, netVars, dirVars
    <2>2. ReadsOK'
      BY <2>1, Zenon DEF CohInv, ReadsOK
    <2>3. /\ toDir \in Seq(DirMessages) /\ DirOrder(toDir)
          /\ toDram \in Seq(DramMessages) /\ ReadOnce(toDram)
          /\ nuca \in {Absent} \cup [d : Data, mod : BOOLEAN] /\ dram \in Data
      BY Zenon DEF CohInv, Types, Queues, DirectoryTypeOK
    <2> QED BY <2>1, <2>2, <2>3, MemoryKeeps, Zenon
  <1> QED BY <1>1, <1>2, <1>3, <1>4, Zenon DEF Next

\* The protocol of a full-map directory keeps its inductive invariant.
THEOREM CohInvAlways ==
  ASSUME RoomForAll
  PROVE  Spec => []CohInv
  <1>1. Init => CohInv
    BY InitInv, Zenon
  <1>2. CohInv /\ [Next]_vars => CohInv'
    BY NextInv, Zenon
  <1> QED BY <1>1, <1>2, PTL DEF Spec

-----------------------------------------------------------------------------
(* What the invariant says of the protocol                                 *)

\* A queue of messages of S is one of messages of a larger set.
LEMMA WiderSeq ==
  ASSUME NEW S, NEW T, S \subseteq T
  PROVE  Seq(S) \subseteq Seq(T)
  OBVIOUS

\* Whatever the number of caches, of threads and of messages in flight, all
\* variables of caches, directory and network keep their types: no handler
\* sends a message or stores a state that the others do not know.
THEOREM TypeCorrect ==
  ASSUME RoomForAll
  PROVE  Spec => []TypeOK
  <1>1. CohInv => TypeOK
    <2> SUFFICES ASSUME CohInv PROVE TypeOK
      BY Zenon
    <2>1. Types /\ failed = FALSE
      BY DEF CohInv, NoAssertionFails
    <2> DEFINE D == [t : Requests \cup {"INV_REP", "FLUSH_REP", "WB_REP", "DRAM_READ_REP"},
                     c : LLC \cup {NoCore}, d : Data \cup {NoData}]
               C == [t : Replies \cup {"INV_REQ", "FLUSH_REQ", "WB_REQ"}, d : Data \cup {NoData}]
               M == [t : {"DRAM_READ_REQ", "DRAM_WRITE_REQ"}, d : Data \cup {NoData}]
    <2>2. DirMessages \subseteq D
      BY Zenon DEF DirMessages
    <2>3. LLCMessages \subseteq C
      BY Zenon DEF LLCMessages, DataReplies, Demands, Replies
    <2>4. DramMessages \subseteq M
      BY Zenon DEF DramMessages
    <2> HIDE DEF D, C, M
    <2>5. /\ Seq(DirMessages) \subseteq Seq(D) /\ Seq(LLCMessages) \subseteq Seq(C)
          /\ Seq(DramMessages) \subseteq Seq(M)
      BY <2>2, <2>3, <2>4, WiderSeq, Zenon
    <2>6. toDir \in Seq(D) /\ toLLC \in [LLC -> Seq(C)] /\ toDram \in Seq(M) /\ failed \in BOOLEAN
      BY <2>1, <2>5, Zenon DEF Types
    <2>7. NetworkTypeOK
      BY <2>6, Zenon DEF NetworkTypeOK, D, C, M
    <2> QED BY <2>1, <2>7, Zenon DEF TypeOK, Types
  <1> QED BY <1>1, CohInvAlways, PTL

\* No assertion of dram_directory_cntlr.cc or cache_cntlr.cc that the handlers
\* name fails in a full-map directory, whatever the order of requests,
\* evictions, replacements of the directory entry and answers.
THEOREM AssertionsHold ==
  ASSUME RoomForAll
  PROVE  Spec => []NoAssertionFails
  <1>1. CohInv => NoAssertionFails
    BY Zenon DEF CohInv
  <1> QED BY <1>1, CohInvAlways, PTL

\* The sharers of a full-map directory entry are exactly the caches that have
\* a copy, will receive one or have given one up without the directory having
\* heard of it.
THEOREM CopiesTracked ==
  ASSUME RoomForAll
  PROVE  Spec => []DirectoryTracksCopies
  <1>1. CohInv => DirectoryTracksCopies
    <2> SUFFICES ASSUME CohInv, NEW c \in LLC
                 PROVE  c \in dir.sharers <=>
                          \/ cstate[c] # "I"
                          \/ OnItsWay(c, {"EX_REP", "SH_REP"})
                          \/ Answered(c, {"INV_REP", "FLUSH_REP"})
                          \/ reqs # << >> /\ Head(reqs).who = c
                               /\ (Head(reqs).wait \/ Head(reqs).fwd # NoCore)
      BY Zenon DEF DirectoryTracksCopies
    <2>1. c \in dir.sharers <=> (Tenured(c) \/ Left(c) \/ Promised(c))
      BY Zenon DEF CohInv, SharersOK
    <2>2. toLLC[c] \in Seq(LLCMessages) /\ toDir \in Seq(DirMessages)
      BY Zenon DEF CohInv, Types
    <2>3. DOMAIN toLLC[c] = 1..Len(toLLC[c]) /\ DOMAIN toDir = 1..Len(toDir)
      BY <2>2
    <2>4. Coming(c) <=> OnItsWay(c, {"EX_REP", "SH_REP"})
      BY <2>3, Zenon DEF Coming, OnItsWay, Sent, DataReplies
    <2>5. Left(c) <=> Answered(c, {"INV_REP", "FLUSH_REP"})
      BY <2>3, Zenon DEF Left, Answered, Says, Answers
    <2> QED BY <2>1, <2>4, <2>5, Zenon DEF Tenured, Promised
  <1> QED BY <1>1, CohInvAlways, PTL

-----------------------------------------------------------------------------
(* The protocol implements LineAccess                                      *)

\* A cache whose line changes to state s: LineAccess takes the step of that
\* cache or none, provided that nobody is in the way of a new permission.
LEMMA PermissionStep ==
  ASSUME CohInv, NEW c \in LLC, NEW s \in {"I", "S", "SU", "E", "M"},
         cstate' = [cstate EXCEPT ![c] = s],
         s \in {"E", "M"} =>
           \/ cstate[c] \in {"E", "M"}
           \/ \A d \in LLC \ {c} : cstate[d] = "I",
         s \in {"S", "SU"} =>
           \/ cstate[c] # "I"
           \/ \A d \in LLC \ {c} : cstate[d] \notin {"E", "M"}
  PROVE  [Abstract!Next]_Permission
  <1>1. cstate \in [LLC -> {"I", "S", "SU", "E", "M"}]
    BY Zenon DEF CohInv, Types, CachesTypeOK
  <1>2. \A d \in LLC : d # c => cstate'[d] = cstate[d]
    BY <1>1, Zenon
  <1>3. cstate'[c] = s
    BY <1>1, Zenon
  <1>4. /\ \A d \in LLC : d # c => Permission'[d] = Permission[d]
        /\ \A d \in LLC : Permission[d] = CASE cstate[d] \in {"E", "M"}  -> "write"
                                            [] cstate[d] \in {"S", "SU"} -> "read"
                                            [] OTHER                     -> "none"
        /\ Permission'[c] = CASE s \in {"E", "M"}  -> "write"
                              [] s \in {"S", "SU"} -> "read"
                              [] OTHER             -> "none"
    BY <1>2, <1>3, Zenon DEF Permission
  <1>5. \A p \in {"none", "read", "write"} :
          Permission'[c] = p => Permission' = [Permission EXCEPT ![c] = p]
    <2> SUFFICES ASSUME NEW p \in {"none", "read", "write"}, Permission'[c] = p
                 PROVE  Permission' = [Permission EXCEPT ![c] = p]
      BY Zenon
    <2>1. Permission' = [d \in LLC |-> Permission'[d]] /\ Permission = [d \in LLC |-> Permission[d]]
      BY Zenon DEF Permission
    <2> HIDE DEF Permission
    <2> QED BY <1>4, <2>1, Zenon
  <1>6. CASE s \in {"E", "M"}
    <2>1. Permission' = [Permission EXCEPT ![c] = "write"]
      BY <1>4, <1>5, <1>6, Zenon
    <2>2. CASE cstate[c] \in {"E", "M"}
      <3>1. Permission[c] = "write"
        BY <1>4, <2>2, Zenon
      <3>2. Permission' = Permission
        BY <2>1, <3>1, Zenon DEF Permission
      <3> QED BY <3>2, Zenon
    <2>3. CASE cstate[c] \notin {"E", "M"}
      <3>1. Permission[c] # "write" /\ \A d \in LLC \ {c} : Permission[d] = "none"
        BY <1>4, <1>6, <2>3, Zenon
      <3>2. Abstract!GrantWrite(c)
        BY <2>1, <3>1, Zenon DEF Abstract!GrantWrite
      <3> QED BY <3>2, Zenon DEF Abstract!Next
    <2> QED BY <2>2, <2>3, Zenon
  <1>7. CASE s \in {"S", "SU"}
    <2>1. Permission' = [Permission EXCEPT ![c] = "read"]
      BY <1>4, <1>5, <1>7, Zenon
    <2>2. CASE cstate[c] \in {"E", "M"}
      <3>1. Abstract!Downgrade(c)
        BY <1>4, <2>1, <2>2 DEF Abstract!Downgrade
      <3> QED BY <3>1, Zenon DEF Abstract!Next
    <2>3. CASE cstate[c] \in {"S", "SU"}
      <3>1. Permission[c] = "read"
        BY <1>4, <2>3, Zenon
      <3>2. Permission' = Permission
        BY <2>1, <3>1, Zenon DEF Permission
      <3> QED BY <3>2, Zenon
    <2>4. CASE cstate[c] = "I"
      <3>1. Permission[c] = "none" /\ \A d \in LLC \ {c} : Permission[d] # "write"
        BY <1>1, <1>4, <1>7, <2>4, Zenon
      <3>2. Abstract!GrantRead(c)
        BY <2>1, <3>1, Zenon DEF Abstract!GrantRead
      <3> QED BY <3>2, Zenon DEF Abstract!Next
    <2> QED BY <1>1, <2>2, <2>3, <2>4, Zenon
  <1>8. CASE s = "I"
    <2>1. Permission' = [Permission EXCEPT ![c] = "none"]
      BY <1>4, <1>5, <1>8, Zenon
    <2>2. CASE Permission[c] = "none"
      <3>1. Permission' = Permission
        BY <2>1, <2>2, Zenon DEF Permission
      <3> QED BY <3>1, Zenon
    <2>3. CASE Permission[c] # "none"
      <3>1. Abstract!Revoke(c)
        BY <2>1, <2>3, Zenon DEF Abstract!Revoke
      <3> QED BY <3>1, Zenon DEF Abstract!Next
    <2> QED BY <2>2, <2>3, Zenon
  <1> QED BY <1>6, <1>7, <1>8, Zenon

\* A reply of the directory finds nobody in its way.
LEMMA ReplyAlone ==
  ASSUME CohInv, NEW c \in LLC, NEW t \in Replies, Sent(toLLC[c], t)
  PROVE  IF t = "SH_REP"
         THEN \A d \in LLC \ {c} : cstate[d] \notin {"E", "M"}
         ELSE \A d \in LLC \ {c} : cstate[d] = "I"
  <1>1. cstate[c] = (IF t = "UPGRADE_REP" THEN "SU" ELSE "I")
        /\ (t = "SH_REP" => dir.st = "SHARED") /\ (t # "SH_REP" => Owned)
    BY Zenon DEF CohInv, RepliesOK, Replies, Owned
  <1>2. CASE t = "SH_REP"
    BY <1>1, <1>2, Zenon DEF CohInv, HoldersOK, Owned
  <1>3. CASE t # "SH_REP"
    <2>1. Tenured(c)
      BY <1>1, <1>3, Zenon DEF Tenured, Coming, DataReplies, Replies
    <2>2. dir.sharers = {dir.owner} /\ c \in dir.sharers
      BY <1>1, <1>3, <2>1, Zenon DEF CohInv, EntryOK, SharersOK
    <2>3. \A d \in LLC \ {c} : ~ Tenured(d)
      BY <2>2, Zenon DEF CohInv, SharersOK
    <2> QED BY <1>3, <2>3, Zenon DEF Tenured
  <1> QED BY <1>2, <1>3, Zenon

\* Every step of the protocol is a step of LineAccess or leaves the
\* permissions alone.
LEMMA NextImplements ==
  ASSUME CohInv, CohInv', [Next]_vars
  PROVE  [Abstract!Next]_Permission
  <1> DEFINE States == {"I", "S", "SU", "E", "M"}
  <1>1. cstate \in [LLC -> States]
    BY Zenon DEF CohInv, Types, CachesTypeOK
  <1>2. ASSUME cstate' = cstate PROVE [Abstract!Next]_Permission
    BY <1>2, Zenon DEF Permission
  <1>3. ASSUME Threads PROVE [Abstract!Next]_Permission
    <2>1. PICK c \in LLC : ThreadStep(c)
      BY <1>3, DirectoryAssumption, Zenon DEF Threads, CohInv, Types, DirectoryTypeOK
    <2>2. CASE Store(c)
      BY <2>2, PermissionStep, Zenon DEF Store
    <2>3. ASSUME NEW exclusive \in BOOLEAN, Miss(c, exclusive) PROVE [Abstract!Next]_Permission
      <3>1. cstate' = cstate \/ (cstate[c] = "S" /\ cstate' = [cstate EXCEPT ![c] = "SU"])
        BY <2>3, Zenon DEF Miss, UpgradeRequest
      <3> QED BY <1>2, <3>1, PermissionStep, Zenon
    <2> QED BY <2>1, <2>2, <2>3, Zenon DEF ThreadStep
  <1>4. ASSUME Caches PROVE [Abstract!Next]_Permission
    <2>1. PICK c \in LLC : CacheStep(c) \/ Evict(c)
      BY <1>4, Zenon DEF Caches
    <2>2. CASE TakeData(c)
      <3>1. PICK t \in DataReplies :
              /\ Takes(c, t)
              /\ ServeFront(c, waiters[c], IF t = "EX_REP" THEN "E" ELSE "S", Head(toLLC[c]).d,
                            cstate[c] = "I" /\ waiters[c] # << >>)
        BY <2>2, Zenon DEF TakeData, DataReplies
      <3>2. Sent(toLLC[c], t)
        <4>1. toLLC[c] \in Seq(LLCMessages) /\ toLLC[c] # << >> /\ Head(toLLC[c]).t = t
          BY <3>1, Zenon DEF Takes, CohInv, Types
        <4>2. Head(toLLC[c]) = toLLC[c][1] /\ 1 \in 1..Len(toLLC[c])
          BY <4>1, TailSeq
        <4> QED BY <4>1, <4>2, Zenon DEF Sent
      <3>3. PICK u : /\ cstate' = [cstate EXCEPT ![c] = u]
                     /\ \/ u = IF t = "EX_REP" THEN "E" ELSE "S"
                        \/ u = "SU" /\ t # "EX_REP"
                        \/ u = "M" /\ t = "EX_REP"
        BY <3>1, Zenon DEF ServeFront, UpgradeRequest, DataReplies
      <3>4. CASE t = "EX_REP"
        <4>1. u \in {"E", "M"} /\ \A d \in LLC \ {c} : cstate[d] = "I"
          BY <3>2, <3>3, <3>4, ReplyAlone DEF Replies
        <4> QED BY <3>3, <4>1, PermissionStep, Zenon
      <3>5. CASE t = "SH_REP"
        <4>1. u \in {"S", "SU"} /\ \A d \in LLC \ {c} : cstate[d] \notin {"E", "M"}
          BY <3>2, <3>3, <3>5, ReplyAlone, Zenon DEF Replies
        <4> QED BY <3>3, <4>1, PermissionStep, Zenon
      <3> QED BY <3>4, <3>5, Zenon DEF DataReplies
    <2>3. CASE TakeUpgrade(c)
      <3>1. Sent(toLLC[c], "UPGRADE_REP")
        BY <2>3, TailSeq, SMTT(30) DEF TakeUpgrade, Takes, Sent, CohInv, Types
      <3>2. cstate' = [cstate EXCEPT ![c] = "M"]
        BY <2>3, Zenon DEF TakeUpgrade, ServeFront
      <3>3. \A d \in LLC \ {c} : cstate[d] = "I"
        BY <3>1, ReplyAlone, Zenon DEF Replies
      <3> QED BY <3>2, <3>3, PermissionStep, Zenon
    <2>4. CASE DropFront(c)
      <3>1. cstate[c] \in {"S", "E", "M"}
        BY <2>4, Zenon DEF DropFront, CohInv, ThreadsOK
      <3>2. PICK u : /\ cstate' = [cstate EXCEPT ![c] = u]
                     /\ \/ u = cstate[c]
                        \/ u = "SU" /\ cstate[c] = "S"
                        \/ u = "M" /\ cstate[c] # "S"
        BY <2>4, Zenon DEF DropFront, ServeFront, UpgradeRequest
      <3> QED BY <3>1, <3>2, PermissionStep, Zenon
    <2>5. CASE processInvReq(c) \/ processFlushReq(c) \/ Evict(c)
      <3>1. cstate' = cstate \/ cstate' = [cstate EXCEPT ![c] = "I"]
        BY <2>5, Zenon DEF processInvReq, processFlushReq, Evict, Ignores, GivesUp
      <3> QED BY <1>2, <3>1, PermissionStep, Zenon
    <2>6. CASE processWbReq(c)
      <3>1. cstate' = cstate \/ (cstate[c] # "I" /\ cstate' = [cstate EXCEPT ![c] = "S"])
        BY <2>6, Zenon DEF processWbReq, Ignores
      <3> QED BY <1>2, <3>1, PermissionStep, Zenon
    <2> QED BY <2>1, <2>2, <2>3, <2>4, <2>5, <2>6, Zenon DEF CacheStep
  <1>5. CASE Directory \/ Dram \/ UNCHANGED vars
    BY <1>2, <1>5, Zenon DEF Directory, Dram, vars, llcVars
  <1> QED BY <1>3, <1>4, <1>5 DEF Next

\* The full-map protocol implements LineAccess, for any number of caches and
\* of messages in flight: a cache may read only while nobody can write, and
\* gets the right to write only when no other cache holds a copy.
THEOREM Implements ==
  ASSUME RoomForAll
  PROVE  Spec => ImplementsLineAccess
  <1>1. Init => Abstract!Init
    BY Zenon DEF Init, InitCaches, Abstract!Init, Permission
  <1>2. CohInv /\ CohInv' /\ [Next]_vars => [Abstract!Next]_Permission
    BY NextImplements, Zenon
  <1>3. Spec => []CohInv
    BY CohInvAlways, Zenon
  <1> QED BY <1>1, <1>2, <1>3, PTL DEF Spec, ImplementsLineAccess, Abstract!Spec

\* A cache with the right to write is the only one with a copy, in every reachable
\* state of the protocol: LineAccess promises it, and the protocol implements LineAccess.
THEOREM WriterAlone ==
  ASSUME RoomForAll
  PROVE  Spec => []Abstract!SingleWriter
  <1> DEFINE Inv == /\ Permission \in [LLC -> {"none", "read", "write"}]
                    /\ Abstract!SingleWriter
  <1>1. Abstract!Init => Inv
    BY Zenon DEF Abstract!Init, Abstract!SingleWriter
  <1>2. Inv /\ [Abstract!Next]_Permission => Inv'
    <2> SUFFICES ASSUME Inv, [Abstract!Next]_Permission PROVE Inv'
      BY Zenon
    <2>1. ASSUME NEW c \in LLC, Abstract!GrantRead(c) PROVE Inv'
      BY <2>1, Zenon DEF Abstract!GrantRead, Abstract!SingleWriter
    <2>2. ASSUME NEW c \in LLC, Abstract!GrantWrite(c) PROVE Inv'
      BY <2>2, Zenon DEF Abstract!GrantWrite, Abstract!SingleWriter
    <2>3. ASSUME NEW c \in LLC, Abstract!Downgrade(c) PROVE Inv'
      BY <2>3, Zenon DEF Abstract!Downgrade, Abstract!SingleWriter
    <2>4. ASSUME NEW c \in LLC, Abstract!Revoke(c) PROVE Inv'
      BY <2>4, Zenon DEF Abstract!Revoke, Abstract!SingleWriter
    <2>5. CASE UNCHANGED Permission
      BY <2>5, Zenon DEF Abstract!SingleWriter
    <2> QED BY <2>1, <2>2, <2>3, <2>4, <2>5, Zenon DEF Abstract!Next
  <1>3. Spec => Abstract!Spec
    BY Implements, Zenon DEF ImplementsLineAccess
  <1> QED BY <1>1, <1>2, <1>3, PTL DEF Abstract!Spec
=============================================================================
