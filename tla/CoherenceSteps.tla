--------------------------- MODULE CoherenceSteps ---------------------------
(***************************************************************************)
(* The inductive invariant of the coherence protocol, for any number of    *)
(* caches, threads and messages in flight, any protocol and with or        *)
(* without NUCA: it holds initially, and every step of a thread, a cache,  *)
(* the directory and the DRAM controller keeps it while the directory has  *)
(* room for one more sharer.                                               *)
(*                                                                         *)
(* The queues are seen through a few predicates (what is in a queue, what  *)
(* may follow what); the lemmas about these are the only ones that look at *)
(* positions in a queue.                                                   *)
(***************************************************************************)
EXTENDS Coherence, TLAPS

-----------------------------------------------------------------------------
(* The queues                                                              *)

DataReplies == {"EX_REP", "SH_REP"}
Answers     == {"INV_REP", "FLUSH_REP"}
Demands     == {"INV_REQ", "FLUSH_REQ", "WB_REQ"}

\* Queue q has a message of type t; has one of type t from c.
Sent(q, t)    == \E i \in 1..Len(q) : q[i].t = t
Says(q, c, t) == \E i \in 1..Len(q) : q[i].c = c /\ q[i].t = t

\* Request t of c is in list q.
Wants(q, c, t) == \E i \in 1..Len(q) : q[i].who = c /\ q[i].t = t

\* A demand that no data follows, so that the copy it is about is the one that
\* the cache has or receives before it.
DueAt(q, i) ==
  /\ q[i].t \in Demands
  /\ \A j \in 1..Len(q) : i < j => q[j].t \notin DataReplies

Due(q, t)  == \E i \in 1..Len(q) : DueAt(q, i) /\ q[i].t = t
DueOnce(q) == \A i, j \in 1..Len(q) : DueAt(q, i) /\ DueAt(q, j) => i = j

\* Whether a message u of a cache may be in the directory's queue behind a
\* message t of the same cache.
MayFollow(t, u) ==
  /\ t \in Requests => u \notin Requests
  /\ t \in Answers => u \notin Answers \cup {"WB_REP"}
  /\ t \in {"EX_REQ", "SH_REQ"} => u \notin Answers
  /\ t \in {"WB_REP", "DRAM_READ_REP"} => u # t

DirOrder(q) ==
  \A i, j \in 1..Len(q) : i < j /\ q[i].c = q[j].c => MayFollow(q[i].t, q[j].t)

\* One reply at a time, and an upgrade is granted to a cache without demands.
LLCOrder(q) ==
  \A i, j \in 1..Len(q) :
    i < j => /\ q[i].t \in Replies => q[j].t \notin Replies
             /\ q[j].t = "UPGRADE_REP" => q[i].t \notin Demands

ReadOnce(q) ==
  \A i, j \in 1..Len(q) : q[i].t = "DRAM_READ_REQ" /\ q[j].t = "DRAM_READ_REQ" => i = j

\* One request per cache, a NULLIFY_REQ only at the front, and only the front
\* request has been worked on.
ReqsOrder(q) ==
  /\ \A i, j \in 1..Len(q) : i < j => q[i].who # q[j].who
  /\ \A i \in 1..Len(q) :
       /\ IF q[i].t = "NULLIFY_REQ" THEN i = 1 /\ q[i].who = NoCore ELSE q[i].who \in LLC
       /\ i > 1 => ~ q[i].wait /\ q[i].fwd = NoCore

-----------------------------------------------------------------------------
(* The inductive invariant                                                 *)

\* Types, with what each kind of message carries.
DirMessages ==
  [t : Requests \cup {"INV_REP"}, c : LLC, d : {NoData}]
    \cup [t : {"FLUSH_REP", "WB_REP"}, c : LLC, d : Data]
    \cup [t : {"DRAM_READ_REP"}, c : {NoCore}, d : Data]

LLCMessages ==
  [t : DataReplies, d : Data] \cup [t : {"UPGRADE_REP"} \cup Demands, d : {NoData}]

DramMessages ==
  [t : {"DRAM_READ_REQ"}, d : {NoData}] \cup [t : {"DRAM_WRITE_REQ"}, d : Data]

RequestRecords ==
  [t : Requests \cup {"NULLIFY_REQ"}, who : LLC \cup {NoCore},
   wait : BOOLEAN, fwd : LLC \cup {NoCore}, d : Data \cup {NoData}]

Types ==
  /\ toDir \in Seq(DirMessages)
  /\ toLLC \in [LLC -> Seq(LLCMessages)]
  /\ toDram \in Seq(DramMessages)
  /\ reqs \in Seq(RequestRecords)
  /\ CachesTypeOK
  /\ DirectoryTypeOK
  /\ \A c \in LLC : cstate[c] # "I" => data[c] \in Data

Queues ==
  /\ DirOrder(toDir)
  /\ \A c \in LLC : LLCOrder(toLLC[c])
  /\ ReadOnce(toDram)
  /\ ReqsOrder(reqs)

\* The copies of a cache that the directory knows of: one that is on its way,
\* one that has been given up, one that the front request waits for.
Coming(c)   == \E t \in DataReplies : Sent(toLLC[c], t)
Left(c)     == \E t \in Answers : Says(toDir, c, t)
Promised(c) == reqs # << >> /\ Head(reqs).who = c
                 /\ (Head(reqs).wait \/ Head(reqs).fwd # NoCore)
Tenured(c)  == cstate[c] # "I" \/ Coming(c)

Owned    == dir.st \in {"EXCLUSIVE", "MODIFIED"}
Asked    == job = Idle /\ reqs # << >> /\ ~ Head(reqs).wait
Takers   == {"EX_REQ", "UPGRADE_REQ", "NULLIFY_REQ"}
Clearing(c) == Asked /\ Head(reqs).t \in Takers /\ Head(reqs).who # c

\* The simulation thread and the state of its line.
ThreadsOK ==
  \A c \in LLC :
    /\ pc[c] = "gap" => waiters[c] # << >> /\ cstate[c] \in {"S", "E", "M"}
    /\ cstate[c] = "SU" => waiters[c] # << >> /\ pc[c] = "idle"

\* A cache has one request, for its front waiter, and no copy it could use.
RequestsOK ==
  \A c \in LLC, t \in Requests :
    Says(toDir, c, t) \/ Wants(reqs, c, t) =>
      /\ waiters[c] # << >> /\ pc[c] = "idle"
      /\ Head(waiters[c]) = (t # "SH_REQ")
      /\ cstate[c] = "I" \/ (t = "UPGRADE_REQ" /\ cstate[c] = "SU")
      /\ \A u \in Requests : ~ (Says(toDir, c, t) /\ Wants(reqs, c, u))
      /\ \A u \in Replies : ~ Sent(toLLC[c], u)

\* A reply is for the front waiter and says what the entry says.
RepliesOK ==
  \A c \in LLC, t \in Replies :
    Sent(toLLC[c], t) =>
      /\ waiters[c] # << >> /\ pc[c] = "idle"
      /\ cstate[c] = IF t = "UPGRADE_REP" THEN "SU" ELSE "I"
      /\ CASE t = "SH_REP" -> ~ Head(waiters[c]) /\ dir.st = "SHARED"
           [] t = "EX_REP" -> Owned /\ (dir.st = "MODIFIED" => Head(waiters[c]))
           [] t = "UPGRADE_REP" -> Head(waiters[c]) /\ dir.st = "MODIFIED"

\* The sharers are the caches with a copy, and these are of one kind.
SharersOK ==
  \A c \in LLC :
    /\ c \in dir.sharers <=> (Tenured(c) \/ Left(c) \/ Promised(c))
    /\ Left(c) \/ Promised(c) => ~ Tenured(c)
    /\ ~ (Left(c) /\ Promised(c))

EntryOK ==
  /\ dir.st = "UNCACHED" <=> dir.sharers = {}
  /\ Owned => dir.owner \in LLC /\ dir.sharers = {dir.owner}
  /\ dir.fwd \in LLC => dir.fwd \in dir.sharers
  /\ config.protocol = "MESIF" /\ dir.st = "SHARED" /\ job \in {Idle, NoData} =>
       dir.fwd # Unset

HoldersOK ==
  \A c \in LLC :
    /\ cstate[c] = "E" => dir.st = "EXCLUSIVE"
    /\ cstate[c] = "M" => Owned
    /\ cstate[c] \in {"S", "SU"} =>
         \/ dir.st = "SHARED"
         \/ Says(toDir, c, "WB_REP")
         \/ Sent(toLLC[c], "UPGRADE_REP")

AnswersOK ==
  \A c \in LLC :
    /\ Says(toDir, c, "INV_REP") =>
         dir.st \in {"SHARED", "EXCLUSIVE"} \/ Says(toDir, c, "WB_REP")
    /\ Says(toDir, c, "FLUSH_REP") =>
         /\ ~ Says(toDir, c, "WB_REP")
         /\ Owned \/ (Asked /\ Head(reqs).t = "UPGRADE_REQ" /\ Head(reqs).who \notin dir.sharers)
    /\ Left(c) => \A t \in Requests :
         /\ Wants(reqs, c, t) => t = "UPGRADE_REQ" /\ Clearing(c)
         /\ Says(toDir, c, t) /\ t = "UPGRADE_REQ" => Clearing(c)

WriteBacksOK ==
  \A c \in LLC :
    Says(toDir, c, "WB_REP") =>
      /\ Asked /\ Head(reqs).t = "SH_REQ" /\ c \in dir.sharers
      /\ \/ Owned /\ Head(reqs).fwd = NoCore
         \/ dir.st = "SHARED" /\ Head(reqs).fwd = c
      /\ cstate[c] \in {"I", "S", "SU"}
      /\ \A t \in Replies : ~ Sent(toLLC[c], t)

\* A demand that reaches a copy is one that the front request waits for.
DemandsOK ==
  \A c \in LLC :
    Tenured(c) =>
      /\ DueOnce(toLLC[c])
      /\ \A t \in Demands : Due(toLLC[c], t) =>
           /\ Asked /\ Head(reqs).who # c /\ ~ Says(toDir, c, "WB_REP")
           /\ CASE t = "INV_REQ" -> Head(reqs).t \in Takers /\ dir.st = "SHARED"
                [] t = "FLUSH_REQ" ->
                     /\ Head(reqs).t \in Takers
                     /\ Owned \/ (Head(reqs).t = "UPGRADE_REQ" /\ Head(reqs).who \notin dir.sharers)
                [] t = "WB_REQ" ->
                     /\ Head(reqs).t = "SH_REQ"
                     /\ \/ Owned /\ Head(reqs).fwd = NoCore
                        \/ dir.st = "SHARED" /\ Head(reqs).fwd = c

FrontOK ==
  /\ job # Idle => reqs # << >> /\ ~ Head(reqs).wait
  /\ job \in Data => dir.st = "UNCACHED" \/ (Head(reqs).t = "SH_REQ" /\ dir.st = "SHARED")
  /\ reqs # << >> /\ Head(reqs).wait =>
       \/ Head(reqs).t = "SH_REQ" /\ dir.st \in {"SHARED", "EXCLUSIVE"}
       \/ Head(reqs).t \in {"EX_REQ", "UPGRADE_REQ"} /\ dir.st = "MODIFIED"
  /\ reqs # << >> /\ Head(reqs).fwd # NoCore => Head(reqs).t = "SH_REQ" /\ dir.st = "SHARED"

\* One read of the DRAM at a time, for the front request.
ReadsOK ==
  /\ Says(toDir, NoCore, "DRAM_READ_REP") \/ Sent(toDram, "DRAM_READ_REQ") =>
       reqs # << >> /\ Head(reqs).wait
  /\ ~ (Says(toDir, NoCore, "DRAM_READ_REP") /\ Sent(toDram, "DRAM_READ_REQ"))

CohInv ==
  /\ Types /\ Queues /\ ThreadsOK /\ RequestsOK /\ RepliesOK /\ SharersOK /\ EntryOK
  /\ HoldersOK /\ AnswersOK /\ WriteBacksOK /\ DemandsOK /\ FrontOK /\ ReadsOK
  /\ NoAssertionFails
-----------------------------------------------------------------------------
(* What sending and taking a message do to the queues                      *)

\* A queue and what it holds after a message is appended.
LEMMA AppendSeq ==
  ASSUME NEW S, NEW q \in Seq(S), NEW m \in S
  PROVE  /\ Append(q, m) \in Seq(S) /\ Append(q, m) # << >>
         /\ Len(q) \in Nat /\ Len(Append(q, m)) = Len(q) + 1
         /\ \A i \in 1..Len(q) : Append(q, m)[i] = q[i] /\ q[i] \in S
         /\ Append(q, m)[Len(q) + 1] = m
         /\ Head(Append(q, m)) = IF q = << >> THEN m ELSE Head(q)
  OBVIOUS

\* A queue and what it holds after its head is taken.
LEMMA TailSeq ==
  ASSUME NEW S, NEW q \in Seq(S), q # << >>
  PROVE  /\ Tail(q) \in Seq(S)
         /\ Len(q) \in Nat \ {0} /\ Len(Tail(q)) = Len(q) - 1
         /\ \A i \in 1..Len(q) - 1 : Tail(q)[i] = q[i + 1]
         /\ Head(q) = q[1] /\ Head(q) \in S
         /\ \A i \in 1..Len(q) : q[i] \in S
  OBVIOUS

\* Sending message m of cache m.c to the directory.
LEMMA AppendToDir ==
  ASSUME NEW q \in Seq(DirMessages), NEW m \in DirMessages, DirOrder(q),
         \A t : Says(q, m.c, t) => MayFollow(t, m.t)
  PROVE  /\ Append(q, m) \in Seq(DirMessages)
         /\ DirOrder(Append(q, m))
         /\ \A c, t : Says(Append(q, m), c, t) <=> Says(q, c, t) \/ (c = m.c /\ t = m.t)
  <1> DEFINE p == Append(q, m)
  <1>1. /\ p \in Seq(DirMessages) /\ Len(q) \in Nat /\ Len(p) = Len(q) + 1
        /\ \A i \in 1..Len(q) : p[i] = q[i]
        /\ p[Len(q) + 1] = m
    BY AppendSeq
  <1> HIDE DEF p
  <1>2. DirOrder(p)
    BY <1>1 DEF DirOrder, Says
  <1>3. \A c, t : Says(p, c, t) <=> Says(q, c, t) \/ (c = m.c /\ t = m.t)
    BY <1>1 DEF Says
  <1> QED BY <1>1, <1>2, <1>3, Zenon DEF p

LEMMA SendsToDir ==
  ASSUME CohInv, NEW c, NEW t, NEW d, [t |-> t, c |-> c, d |-> d] \in DirMessages,
         \A u : Says(toDir, c, u) => MayFollow(u, t), toDir' = DirQueueWith(c, t, d)
  PROVE  /\ toDir' \in Seq(DirMessages) /\ DirOrder(toDir')
         /\ \A b, u : Says(toDir', b, u) <=> Says(toDir, b, u) \/ (b = c /\ u = t)
  <1> DEFINE m == [t |-> t, c |-> c, d |-> d]
  <1>1. /\ m \in DirMessages /\ m.c = c /\ m.t = t /\ toDir' = Append(toDir, m)
        /\ toDir \in Seq(DirMessages) /\ DirOrder(toDir)
    BY Zenon DEF DirQueueWith, CohInv, Types, Queues
  <1> HIDE DEF m
  <1>2. \A u : Says(toDir, m.c, u) => MayFollow(u, m.t)
    BY <1>1, Zenon
  <1>3. /\ Append(toDir, m) \in Seq(DirMessages) /\ DirOrder(Append(toDir, m))
        /\ \A b, u : Says(Append(toDir, m), b, u) <=> Says(toDir, b, u) \/ (b = m.c /\ u = m.t)
    BY <1>1, <1>2, AppendToDir, Zenon
  <1> QED BY <1>1, <1>3, Zenon

\* A cache is sent the line: what was demanded of it before is about nothing.
LEMMA AppendDataReply ==
  ASSUME NEW q \in Seq(LLCMessages), NEW t \in DataReplies, NEW d \in Data, LLCOrder(q),
         \A u \in Replies : ~ Sent(q, u)
  PROVE  LET p == Append(q, [t |-> t, d |-> d])
         IN  /\ p \in Seq(LLCMessages) /\ LLCOrder(p)
             /\ \A u \in Replies : Sent(p, u) <=> u = t
             /\ \A u \in Demands : ~ Due(p, u)
             /\ DueOnce(p)
  <1> DEFINE m == [t |-> t, d |-> d]
             p == Append(q, m)
  <1>1. m \in LLCMessages /\ m.t = t /\ t \in Replies /\ t # "UPGRADE_REP" /\ t \notin Demands
    BY Zenon DEF LLCMessages, DataReplies, Replies, Demands
  <1>2. /\ p \in Seq(LLCMessages) /\ Len(q) \in Nat /\ Len(p) = Len(q) + 1
        /\ \A i \in 1..Len(q) : p[i] = q[i]
        /\ p[Len(q) + 1] = m
    BY <1>1, AppendSeq
  <1> HIDE DEF p, m
  <1>3. \A i \in 1..Len(q) : q[i].t \notin Replies
    BY Zenon DEF Sent
  <1>4. LLCOrder(p)
    BY <1>1, <1>2, <1>3 DEF LLCOrder
  <1>5. \A u \in Replies : Sent(p, u) <=> u = t
    BY <1>1, <1>2, <1>3 DEF Sent
  <1>6. \A i \in 1..Len(p) : ~ DueAt(p, i)
    <2> SUFFICES ASSUME NEW i \in 1..Len(p), DueAt(p, i) PROVE FALSE
      BY Zenon
    <2>1. CASE i = Len(q) + 1
      BY <1>1, <1>2, <2>1, Zenon DEF DueAt
    <2>2. CASE i # Len(q) + 1
      <3>1. i < Len(q) + 1 /\ Len(q) + 1 \in 1..Len(p)
        BY <1>2, <2>2
      <3> QED BY <1>1, <1>2, <3>1, Zenon DEF DueAt
    <2> QED BY <2>1, <2>2, Zenon
  <1> QED BY <1>2, <1>4, <1>5, <1>6, Zenon DEF p, m, Due, DueOnce

\* The front request is done: the one behind it has not been worked on.
LEMMA TailOfReqs ==
  ASSUME NEW q \in Seq(RequestRecords), q # << >>, ReqsOrder(q)
  PROVE  LET p == Tail(q)
             r == Head(q)
         IN  /\ p \in Seq(RequestRecords) /\ r \in RequestRecords /\ ReqsOrder(p)
             /\ IF r.t = "NULLIFY_REQ" THEN r.who = NoCore ELSE r.who \in LLC
             /\ Wants(q, r.who, r.t)
             /\ \A b, u : Wants(p, b, u) <=> Wants(q, b, u) /\ b # r.who
             /\ p # << >> => /\ ~ Head(p).wait /\ Head(p).fwd = NoCore
                             /\ Head(p).t \in Requests /\ Head(p).who \in LLC
                             /\ Wants(p, Head(p).who, Head(p).t)
             /\ Len(q) > 1 => q[2].t # "NULLIFY_REQ"
  <1> DEFINE p == Tail(q)
             r == Head(q)
  <1>1. /\ p \in Seq(RequestRecords) /\ Len(q) \in Nat \ {0} /\ Len(p) = Len(q) - 1
        /\ \A i \in 1..Len(p) : i + 1 \in 1..Len(q) /\ p[i] = q[i + 1]
        /\ r = q[1] /\ r \in RequestRecords /\ 1 \in 1..Len(q)
        /\ \A i \in 1..Len(q) : q[i] \in RequestRecords
    BY TailSeq
  <1>2. \A i \in 1..Len(q) : i # 1 => i - 1 \in 1..Len(p) /\ p[i - 1] = q[i] /\ 1 < i
    <2> TAKE i \in 1..Len(q)
    <2> HAVE i # 1
    <2>1. i - 1 \in 1..Len(p) /\ (i - 1) + 1 = i /\ 1 < i
      BY <1>1
    <2> QED BY <1>1, <2>1, Zenon
  <1>3. p # << >> => 1 \in 1..Len(p) /\ Head(p) = p[1]
    BY <1>1, TailSeq
  <1> HIDE DEF p, r
  <1>4. /\ IF r.t = "NULLIFY_REQ" THEN r.who = NoCore ELSE r.who \in LLC
        /\ Wants(q, r.who, r.t)
    BY <1>1, Zenon DEF ReqsOrder, Wants
  <1>5. ASSUME NEW i \in 1..Len(p)
        PROVE  /\ ~ p[i].wait /\ p[i].fwd = NoCore /\ p[i].t \in Requests /\ p[i].who \in LLC
               /\ p[i].who # r.who
    <2>1. i + 1 \in 1..Len(q) /\ i + 1 > 1 /\ i + 1 # 1 /\ p[i] = q[i + 1]
      BY <1>1
    <2>2. q[i + 1].t # "NULLIFY_REQ" /\ q[i + 1].who # q[1].who
      BY <1>1, <2>1, Zenon DEF ReqsOrder
    <2>3. q[i + 1].t \in Requests
      BY <1>1, <2>1, <2>2, Zenon DEF RequestRecords
    <2> QED BY <1>1, <2>1, <2>2, <2>3, Zenon DEF ReqsOrder
  <1>6. ReqsOrder(p)
    <2>1. ASSUME NEW i \in 1..Len(p), NEW j \in 1..Len(p), i < j PROVE p[i].who # p[j].who
      <3>1. i + 1 \in 1..Len(q) /\ j + 1 \in 1..Len(q) /\ i + 1 < j + 1
        BY <1>1, <2>1
      <3>2. p[i] = q[i + 1] /\ p[j] = q[j + 1]
        BY <1>1, Zenon
      <3> QED BY <3>1, <3>2, Zenon DEF ReqsOrder
    <2>2. "NULLIFY_REQ" \notin Requests
      BY Zenon DEF Requests
    <2> QED BY <1>5, <2>1, <2>2, Zenon DEF ReqsOrder
  <1>7. ASSUME NEW b, NEW u PROVE Wants(p, b, u) <=> Wants(q, b, u) /\ b # r.who
    <2>1. ASSUME Wants(p, b, u) PROVE Wants(q, b, u) /\ b # r.who
      <3>1. PICK i \in 1..Len(p) : p[i].who = b /\ p[i].t = u
        BY <2>1, Zenon DEF Wants
      <3> QED BY <1>1, <1>5, <3>1, Zenon DEF Wants
    <2>2. ASSUME Wants(q, b, u), b # r.who PROVE Wants(p, b, u)
      <3>1. PICK i \in 1..Len(q) : q[i].who = b /\ q[i].t = u
        BY <2>2, Zenon DEF Wants
      <3>2. i # 1
        BY <1>1, <2>2, <3>1, Zenon
      <3> QED BY <1>2, <3>1, <3>2, Zenon DEF Wants
    <2> QED BY <2>1, <2>2, Zenon
  <1>8. p # << >> => Wants(p, Head(p).who, Head(p).t)
    BY <1>3, Zenon DEF Wants
  <1>9. Len(q) > 1 => q[2].t # "NULLIFY_REQ"
    <2> SUFFICES ASSUME Len(q) > 1 PROVE q[2].t # "NULLIFY_REQ"
      BY Zenon
    <2>1. 2 \in 1..Len(q) /\ 2 # 1
      BY <1>1
    <2> QED BY <2>1, Zenon DEF ReqsOrder
  <1> QED BY <1>1, <1>3, <1>4, <1>5, <1>6, <1>7, <1>8, <1>9, Zenon DEF p, r

\* The front request is marked: it waits for the DRAM, or for a cache that
\* shares the line, or keeps the data that a cache has flushed.
LEMMA MarksFront ==
  ASSUME NEW q \in Seq(RequestRecords), q # << >>, ReqsOrder(q), NEW r \in RequestRecords,
         r.t = Head(q).t, r.who = Head(q).who, NEW p, p = [q EXCEPT ![1] = r]
  PROVE  /\ p \in Seq(RequestRecords) /\ p # << >> /\ ReqsOrder(p) /\ Head(p) = r
         /\ \A b, u : Wants(p, b, u) <=> Wants(q, b, u)
  <1>1. Len(q) \in Nat \ {0} /\ 1 \in 1..Len(q) /\ Head(q) = q[1]
    BY TailSeq
  <1>2. /\ p \in Seq(RequestRecords) /\ Len(p) = Len(q) /\ p[1] = r
        /\ \A i \in 1..Len(q) : i # 1 => p[i] = q[i]
    BY <1>1
  <1>3. p # << >> /\ Head(p) = p[1]
    BY <1>1, <1>2
  <1>4. \A i \in 1..Len(q) : p[i].who = q[i].who /\ p[i].t = q[i].t
    BY <1>1, <1>2, Zenon
  <1>5. ReqsOrder(p)
    BY <1>1, <1>2, <1>4 DEF ReqsOrder
  <1>6. \A b, u : Wants(p, b, u) <=> Wants(q, b, u)
    BY <1>2, <1>4, Zenon DEF Wants
  <1> QED BY <1>2, <1>3, <1>5, <1>6, Zenon

\* A write, and a read, is sent to the DRAM.
LEMMA AppendToDram ==
  ASSUME NEW q \in Seq(DramMessages), ReadOnce(q), NEW m \in DramMessages,
         m.t = "DRAM_READ_REQ" => ~ Sent(q, "DRAM_READ_REQ")
  PROVE  LET p == Append(q, m)
         IN  /\ p \in Seq(DramMessages) /\ ReadOnce(p)
             /\ Sent(p, "DRAM_READ_REQ") <=> Sent(q, "DRAM_READ_REQ") \/ m.t = "DRAM_READ_REQ"
  <1> DEFINE p == Append(q, m)
  <1>1. /\ p \in Seq(DramMessages) /\ Len(q) \in Nat /\ Len(p) = Len(q) + 1
        /\ \A i \in 1..Len(q) : p[i] = q[i]
        /\ p[Len(q) + 1] = m
    BY AppendSeq
  <1> HIDE DEF p
  <1>2. ReadOnce(p)
    BY <1>1 DEF ReadOnce, Sent
  <1>3. Sent(p, "DRAM_READ_REQ") <=> Sent(q, "DRAM_READ_REQ") \/ m.t = "DRAM_READ_REQ"
    BY <1>1 DEF Sent
  <1> QED BY <1>1, <1>2, <1>3, Zenon DEF p

\* The DRAM takes its first message: a read is the only one.
LEMMA TailOfDram ==
  ASSUME NEW q \in Seq(DramMessages), q # << >>, ReadOnce(q)
  PROVE  /\ Tail(q) \in Seq(DramMessages) /\ Head(q) \in DramMessages /\ ReadOnce(Tail(q))
         /\ Sent(q, Head(q).t)
         /\ Sent(Tail(q), "DRAM_READ_REQ") =>
              Sent(q, "DRAM_READ_REQ") /\ Head(q).t # "DRAM_READ_REQ"
  <1> DEFINE p == Tail(q)
  <1>1. /\ p \in Seq(DramMessages) /\ Len(q) \in Nat \ {0} /\ Len(p) = Len(q) - 1
        /\ \A i \in 1..Len(p) : i + 1 \in 1..Len(q) /\ p[i] = q[i + 1]
        /\ Head(q) = q[1] /\ Head(q) \in DramMessages /\ 1 \in 1..Len(q)
    BY TailSeq
  <1> HIDE DEF p
  <1>2. ASSUME NEW i \in 1..Len(p), NEW j \in 1..Len(p),
               p[i].t = "DRAM_READ_REQ", p[j].t = "DRAM_READ_REQ"
        PROVE  i = j
    <2>1. i + 1 = j + 1
      BY <1>1, <1>2, Zenon DEF ReadOnce
    <2> QED BY <2>1
  <1>3. ASSUME Sent(p, "DRAM_READ_REQ")
        PROVE  Sent(q, "DRAM_READ_REQ") /\ Head(q).t # "DRAM_READ_REQ"
    <2>1. PICK i \in 1..Len(p) : p[i].t = "DRAM_READ_REQ"
      BY <1>3, Zenon DEF Sent
    <2>2. i + 1 \in 1..Len(q) /\ i + 1 # 1 /\ q[i + 1].t = "DRAM_READ_REQ"
      BY <1>1, <2>1
    <2> QED BY <1>1, <2>2, Zenon DEF Sent, ReadOnce
  <1>4. Sent(q, Head(q).t)
    BY <1>1, Zenon DEF Sent
  <1> QED BY <1>1, <1>2, <1>3, <1>4, Zenon DEF p, ReadOnce

-----------------------------------------------------------------------------
(* The steps of a cache                                                    *)

\* The directory's part of the state is left alone.
LEMMA DirectoryFrame ==
  ASSUME UNCHANGED dirVars
  PROVE  /\ config' = config /\ dir' = dir /\ reqs' = reqs /\ job' = job /\ nuca' = nuca
         /\ dram' = dram
         /\ Asked' = Asked /\ Owned' = Owned
         /\ \A c : Promised(c)' = Promised(c) /\ Clearing(c)' = Clearing(c)
  BY Zenon DEF dirVars, Asked, Owned, Promised, Clearing

\* The threads and the controllers of the caches keep the invariant.
LEMMA CachesKeep == CohInv /\ (Threads \/ Caches) => CohInv'
  \* A cache takes its first message.  A demand that concerns its copy was the
  \* only one.
  <1>TailOfLLC.
    ASSUME NEW q \in Seq(LLCMessages), q # << >>, LLCOrder(q)
    PROVE  LET p == Tail(q)
               h == Head(q).t
           IN  /\ p \in Seq(LLCMessages) /\ Head(q) \in LLCMessages /\ LLCOrder(p)
               /\ Sent(q, h)
               /\ \A u \in Replies : Sent(p, u) <=> Sent(q, u) /\ h \notin Replies
               /\ \A u \in Demands : Due(p, u) => Due(q, u)
               /\ h \in Demands => ~ Sent(q, "UPGRADE_REP")
               /\ DueOnce(q) => DueOnce(p)
               /\ h \in Demands /\ (\A u \in DataReplies : ~ Sent(q, u)) =>
                    Due(q, h) /\ (DueOnce(q) => \A u \in Demands : ~ Due(p, u))
    <2> USE <1>TailOfLLC
    <2> DEFINE p == Tail(q)
               h == Head(q).t
    <2>1. /\ p \in Seq(LLCMessages) /\ Len(q) \in Nat \ {0} /\ Len(p) = Len(q) - 1
          /\ \A i \in 1..Len(p) : i + 1 \in 1..Len(q) /\ p[i] = q[i + 1]
          /\ h = q[1].t /\ Head(q) \in LLCMessages /\ 1 \in 1..Len(q)
      BY TailSeq
    <2>2. \A i \in 1..Len(q) : i # 1 => i - 1 \in 1..Len(p) /\ p[i - 1] = q[i] /\ 1 < i
      <3> TAKE i \in 1..Len(q)
      <3> HAVE i # 1
      <3>1. i - 1 \in 1..Len(p) /\ (i - 1) + 1 = i /\ 1 < i
        BY <2>1
      <3> QED BY <2>1, <3>1, Zenon
    <2> HIDE DEF p, h
    <2>3. LLCOrder(p)
      <3> SUFFICES ASSUME NEW i \in 1..Len(p), NEW j \in 1..Len(p), i < j
                   PROVE  /\ p[i].t \in Replies => p[j].t \notin Replies
                          /\ p[j].t = "UPGRADE_REP" => p[i].t \notin Demands
        BY Zenon DEF LLCOrder
      <3>1. i + 1 \in 1..Len(q) /\ j + 1 \in 1..Len(q) /\ i + 1 < j + 1
        BY <2>1
      <3>2. p[i] = q[i + 1] /\ p[j] = q[j + 1]
        BY <2>1, Zenon
      <3> QED BY <3>1, <3>2, Zenon DEF LLCOrder
    <2>4. Sent(q, h)
      BY <2>1, Zenon DEF Sent
    <2>5. ASSUME NEW u \in Replies PROVE Sent(p, u) <=> Sent(q, u) /\ h \notin Replies
      <3>1. ASSUME Sent(p, u) PROVE Sent(q, u) /\ h \notin Replies
        <4>1. PICK i \in 1..Len(p) : p[i].t = u
          BY <3>1, Zenon DEF Sent
        <4>2. i + 1 \in 1..Len(q) /\ q[i + 1].t = u /\ 1 < i + 1
          BY <2>1, <4>1
        <4> QED BY <2>1, <4>2, Zenon DEF Sent, LLCOrder
      <3>2. ASSUME Sent(q, u), h \notin Replies PROVE Sent(p, u)
        <4>1. PICK i \in 1..Len(q) : q[i].t = u
          BY <3>2, Zenon DEF Sent
        <4>2. i # 1
          BY <2>1, <3>2, <4>1, Zenon
        <4> QED BY <2>2, <4>1, <4>2, Zenon DEF Sent
      <3> QED BY <3>1, <3>2, Zenon
    <2>6. ASSUME NEW i \in 1..Len(p) PROVE DueAt(p, i) <=> DueAt(q, i + 1)
      <3>1. p[i] = q[i + 1] /\ i + 1 \in 1..Len(q)
        BY <2>1, Zenon
      <3>2. ASSUME DueAt(p, i) PROVE DueAt(q, i + 1)
        <4> SUFFICES ASSUME NEW j \in 1..Len(q), i + 1 < j PROVE q[j].t \notin DataReplies
          BY <3>1, <3>2, Zenon DEF DueAt
        <4>1. j # 1 /\ i < j - 1
          BY <2>1
        <4> QED BY <2>2, <3>2, <4>1, Zenon DEF DueAt
      <3>3. ASSUME DueAt(q, i + 1) PROVE DueAt(p, i)
        <4> SUFFICES ASSUME NEW j \in 1..Len(p), i < j PROVE p[j].t \notin DataReplies
          BY <3>1, <3>3, Zenon DEF DueAt
        <4>1. j + 1 \in 1..Len(q) /\ i + 1 < j + 1 /\ p[j] = q[j + 1]
          BY <2>1
        <4> QED BY <3>3, <4>1, Zenon DEF DueAt
      <3> QED BY <3>2, <3>3, Zenon
    <2>7. \A u \in Demands : Due(p, u) => Due(q, u)
      BY <2>1, <2>6, Zenon DEF Due
    <2>8. h \in Demands /\ (\A u \in DataReplies : ~ Sent(q, u)) => DueAt(q, 1)
      BY <2>1, Zenon DEF DueAt, Sent
    <2>9. h \in Demands => ~ Sent(q, "UPGRADE_REP")
      <3> SUFFICES ASSUME h \in Demands, Sent(q, "UPGRADE_REP") PROVE FALSE
        BY Zenon
      <3>1. PICK i \in 1..Len(q) : q[i].t = "UPGRADE_REP"
        BY Zenon DEF Sent
      <3>2. i # 1
        BY <2>1, <3>1, Zenon DEF Demands
      <3> QED BY <2>1, <2>2, <3>1, <3>2, Zenon DEF LLCOrder
    <2>10. ASSUME DueOnce(q) PROVE DueOnce(p)
      <3> SUFFICES ASSUME NEW i \in 1..Len(p), NEW j \in 1..Len(p), DueAt(p, i), DueAt(p, j)
                   PROVE  i = j
        BY Zenon DEF DueOnce
      <3>1. i + 1 = j + 1
        BY <2>1, <2>6, <2>10, Zenon DEF DueOnce
      <3> QED BY <3>1
    <2>11. ASSUME DueOnce(q), DueAt(q, 1), NEW u \in Demands PROVE ~ Due(p, u)
      <3> SUFFICES ASSUME NEW i \in 1..Len(p), DueAt(p, i) PROVE FALSE
        BY Zenon DEF Due
      <3>1. i + 1 = 1
        BY <2>1, <2>6, <2>11, Zenon DEF DueOnce
      <3> QED BY <3>1
    <2>12. DueAt(q, 1) => Due(q, h)
      BY <2>1, Zenon DEF Due
    <2> QED BY <2>1, <2>3, <2>4, <2>5, <2>7, <2>8, <2>9, <2>10, <2>11, <2>12, Zenon DEF p, h
  \* A cache gives up its copy, unasked or because the front request waits for it.
  <1>GivesUpKeeps.
    ASSUME CohInv, NEW c \in LLC, NEW rep \in Answers, NEW d,
           cstate[c] # "I", pc[c] = "idle", GivesUp(c, rep, d),
           rep = "INV_REP" =>
             d = NoData /\ (dir.st \in {"SHARED", "EXCLUSIVE"} \/ Says(toDir, c, "WB_REP")),
           rep = "FLUSH_REP" =>
             /\ d \in Data /\ ~ Says(toDir, c, "WB_REP")
             /\ Owned \/ (Asked /\ Head(reqs).t = "UPGRADE_REQ" /\ Head(reqs).who \notin dir.sharers),
           cstate[c] = "SU" => Clearing(c),
           toLLC' \in [LLC -> Seq(LLCMessages)], LLCOrder(toLLC'[c]),
           \A b \in LLC \ {c} : toLLC'[b] = toLLC[b],
           \A u \in Replies : ~ Sent(toLLC[c], u) /\ ~ Sent(toLLC'[c], u),
           ~ failed', UNCHANGED <<toDram, waiters, pc>>, UNCHANGED dirVars
    PROVE  CohInv'
    <2> USE <1>GivesUpKeeps
    <2>1. [t |-> rep, c |-> c, d |-> d] \in DirMessages
      BY Zenon DEF DirMessages, Answers
    <2>2. toDir' = DirQueueWith(c, rep, d)
      BY Zenon DEF GivesUp
    <2>3. ~ Left(c) /\ ~ Promised(c) /\ ~ Coming(c)
      BY Zenon DEF CohInv, SharersOK, Tenured, Coming, DataReplies, Replies
    <2>4. \A t \in Requests : Says(toDir, c, t) \/ Wants(reqs, c, t) =>
            t = "UPGRADE_REQ" /\ cstate[c] = "SU"
      BY Zenon DEF CohInv, RequestsOK
    <2>5. \A t : Says(toDir, c, t) => MayFollow(t, rep)
      BY <2>3, <2>4, Zenon DEF Left, MayFollow, Requests, Answers
    <2>6. /\ toDir' \in Seq(DirMessages) /\ DirOrder(toDir')
          /\ \A b, t : Says(toDir', b, t) <=> Says(toDir, b, t) \/ (b = c /\ t = rep)
      BY <2>1, <2>2, <2>5, SendsToDir, Zenon
    <2>7. /\ config' = config /\ dir' = dir /\ reqs' = reqs /\ job' = job /\ nuca' = nuca
          /\ dram' = dram /\ toDram' = toDram /\ waiters' = waiters /\ pc' = pc
          /\ Asked' = Asked /\ Owned' = Owned
          /\ \A b : Promised(b)' = Promised(b) /\ Clearing(b)' = Clearing(b)
      BY DirectoryFrame, Zenon
    <2>8. /\ cstate' = [cstate EXCEPT ![c] = "I"] /\ data' = [data EXCEPT ![c] = NoData]
          /\ cstate \in [LLC -> {"I", "S", "SU", "E", "M"}] /\ data \in [LLC -> Data \cup {NoData}]
      BY Zenon DEF GivesUp, CohInv, Types, CachesTypeOK
    <2>9. /\ cstate'[c] = "I" /\ \A b \in LLC \ {c} : cstate'[b] = cstate[b] /\ toLLC'[b] = toLLC[b]
      BY <2>8, Zenon
    <2>10. /\ \A b \in LLC \ {c} : /\ Coming(b)' = Coming(b) /\ Left(b)' = Left(b)
                                   /\ Tenured(b)' = Tenured(b)
           /\ ~ Coming(c)' /\ Left(c)' /\ ~ Tenured(c)'
      BY <2>6, <2>9, Zenon DEF Coming, Left, Tenured, DataReplies, Replies
    <2>11. Types'
      BY <2>6, <2>7, <2>8 DEF CohInv, Types, CachesTypeOK, DirectoryTypeOK, Sleeping
    <2>12. Queues'
      BY <2>6, <2>7, <2>9, Zenon DEF CohInv, Queues
    <2>13. ThreadsOK'
      BY <2>7, <2>9, Zenon DEF CohInv, ThreadsOK
    <2>14. RequestsOK'
      BY <2>4, <2>6, <2>7, <2>9, SMTT(30) DEF CohInv, RequestsOK, Answers, Requests
    <2>15. RepliesOK'
      BY <2>7, <2>9, Zenon DEF CohInv, RepliesOK
    <2>16. SharersOK'
      BY <2>3, <2>7, <2>10, Zenon DEF CohInv, SharersOK, Tenured
    <2>17. EntryOK'
      BY <2>7, Zenon DEF CohInv, EntryOK
    <2>18. HoldersOK'
      BY <2>6, <2>7, <2>9, Zenon DEF CohInv, HoldersOK
    <2>19. AnswersOK'
      BY <2>4, <2>6, <2>7, <2>9, <2>10, Zenon DEF CohInv, AnswersOK, Answers
    <2>20. WriteBacksOK'
      BY <2>6, <2>7, <2>9, Zenon DEF CohInv, WriteBacksOK, Answers
    <2>21. DemandsOK'
      BY <2>6, <2>7, <2>9, <2>10, Zenon DEF CohInv, DemandsOK, Answers
    <2>22. FrontOK' /\ ReadsOK'
      BY <2>6, <2>7, SMTT(30) DEF CohInv, FrontOK, ReadsOK, Answers
    <2> QED BY <2>11, <2>12, <2>13, <2>14, <2>15, <2>16, <2>17, <2>18, <2>19, <2>20, <2>21, <2>22, Zenon
            DEF CohInv, NoAssertionFails
  \* A cache takes a message of type t.
  <1>TakesMessage.
    ASSUME CohInv, NEW c \in LLC, NEW t, Takes(c, t)
    PROVE  /\ pc[c] = "idle" /\ Head(toLLC[c]) \in LLCMessages /\ Head(toLLC[c]).t = t
           /\ toLLC' \in [LLC -> Seq(LLCMessages)]
           /\ \A b \in LLC : LLCOrder(toLLC'[b])
           /\ \A b \in LLC \ {c} : toLLC'[b] = toLLC[b]
           /\ Sent(toLLC[c], t)
           /\ \A u \in Replies : Sent(toLLC'[c], u) <=> Sent(toLLC[c], u) /\ t \notin Replies
           /\ \A u \in Demands : Due(toLLC'[c], u) => Due(toLLC[c], u)
           /\ DueOnce(toLLC[c]) => DueOnce(toLLC'[c])
           /\ t \in Demands => ~ Sent(toLLC[c], "UPGRADE_REP")
           /\ t \in Demands /\ (\A u \in DataReplies : ~ Sent(toLLC[c], u)) =>
                /\ Due(toLLC[c], t)
                /\ DueOnce(toLLC[c]) => \A u \in Demands : ~ Due(toLLC'[c], u)
    <2> USE <1>TakesMessage
    <2>1. /\ toLLC \in [LLC -> Seq(LLCMessages)] /\ \A b \in LLC : LLCOrder(toLLC[b])
      BY Zenon DEF CohInv, Types, Queues
    <2>2. /\ pc[c] = "idle" /\ toLLC[c] # << >> /\ Head(toLLC[c]).t = t
          /\ toLLC' = [toLLC EXCEPT ![c] = Tail(@)]
      BY Zenon DEF Takes
    <2>3. toLLC'[c] = Tail(toLLC[c]) /\ \A b \in LLC \ {c} : toLLC'[b] = toLLC[b]
      BY <2>1, <2>2, Zenon
    <2>4. /\ Tail(toLLC[c]) \in Seq(LLCMessages) /\ Head(toLLC[c]) \in LLCMessages
          /\ LLCOrder(Tail(toLLC[c])) /\ Sent(toLLC[c], t)
          /\ \A u \in Replies : Sent(Tail(toLLC[c]), u) <=> Sent(toLLC[c], u) /\ t \notin Replies
          /\ \A u \in Demands : Due(Tail(toLLC[c]), u) => Due(toLLC[c], u)
          /\ DueOnce(toLLC[c]) => DueOnce(Tail(toLLC[c]))
          /\ t \in Demands => ~ Sent(toLLC[c], "UPGRADE_REP")
          /\ t \in Demands /\ (\A u \in DataReplies : ~ Sent(toLLC[c], u)) =>
               /\ Due(toLLC[c], t)
               /\ DueOnce(toLLC[c]) => \A u \in Demands : ~ Due(Tail(toLLC[c]), u)
      BY <2>1, <2>2, <1>TailOfLLC, Zenon
    <2>5. toLLC' \in [LLC -> Seq(LLCMessages)] /\ \A b \in LLC : LLCOrder(toLLC'[b])
      BY <2>1, <2>2, <2>3, <2>4, Zenon
    <2> QED BY <2>2, <2>3, <2>4, <2>5, Zenon
  \* A demand for a copy that the cache has given up already is dropped.
  <1>IgnoresKeeps.
    ASSUME CohInv, NEW c \in LLC, NEW t \in Demands, Takes(c, t), Ignores(c),
           UNCHANGED <<toDram, waiters, pc>>, UNCHANGED dirVars
    PROVE  CohInv'
    <2> USE <1>IgnoresKeeps
    <2>1. t \notin Replies
      BY Zenon DEF Demands, Replies
    <2>2. /\ toLLC' \in [LLC -> Seq(LLCMessages)]
          /\ \A b \in LLC : LLCOrder(toLLC'[b])
          /\ \A b \in LLC \ {c} : toLLC'[b] = toLLC[b]
          /\ \A b \in LLC : \A u \in Replies : Sent(toLLC'[b], u) <=> Sent(toLLC[b], u)
          /\ \A b \in LLC : \A u \in Demands : Due(toLLC'[b], u) => Due(toLLC[b], u)
          /\ \A b \in LLC : DueOnce(toLLC[b]) => DueOnce(toLLC'[b])
      BY <2>1, <1>TakesMessage, Zenon
    <2>3. /\ config' = config /\ dir' = dir /\ reqs' = reqs /\ job' = job /\ nuca' = nuca
          /\ dram' = dram /\ toDram' = toDram /\ waiters' = waiters /\ pc' = pc
          /\ cstate' = cstate /\ data' = data /\ toDir' = toDir /\ failed' = failed
          /\ Asked' = Asked /\ Owned' = Owned
          /\ \A b : Promised(b)' = Promised(b) /\ Clearing(b)' = Clearing(b)
      BY DirectoryFrame, Zenon DEF Ignores
    <2>4. \A b \in LLC : Coming(b)' = Coming(b) /\ Left(b)' = Left(b) /\ Tenured(b)' = Tenured(b)
      BY <2>2, <2>3, Zenon DEF Coming, Left, Tenured, DataReplies, Replies
    <2>5. Types'
      BY <2>2, <2>3 DEF CohInv, Types, CachesTypeOK, DirectoryTypeOK, Sleeping
    <2>6. Queues' /\ ThreadsOK' /\ EntryOK' /\ FrontOK' /\ ReadsOK' /\ NoAssertionFails'
      BY <2>2, <2>3, Zenon DEF CohInv, Queues, ThreadsOK, EntryOK, FrontOK, ReadsOK, NoAssertionFails
    <2>7. RequestsOK' /\ RepliesOK'
      <3>1. RequestsOK'
        BY <2>2, <2>3, Zenon DEF CohInv, RequestsOK
      <3>2. RepliesOK'
        BY <2>2, <2>3, Zenon DEF CohInv, RepliesOK
      <3> QED BY <3>1, <3>2, Zenon
    <2>8. SharersOK' /\ AnswersOK'
      BY <2>3, <2>4, Zenon DEF CohInv, SharersOK, AnswersOK
    <2>9. HoldersOK' /\ WriteBacksOK'
      BY <2>2, <2>3, SMTT(30) DEF CohInv, HoldersOK, WriteBacksOK, Replies
    <2>10. DemandsOK'
      BY <2>2, <2>3, <2>4, Zenon DEF CohInv, DemandsOK
    <2> QED BY <2>5, <2>6, <2>7, <2>8, <2>9, <2>10, Zenon DEF CohInv
  \* A cache with a copy takes a demand: it is the one the front request waits for.
  <1>DemandReaches.
    ASSUME CohInv, NEW c \in LLC, NEW t \in Demands, Takes(c, t), cstate[c] # "I"
    PROVE  /\ \A u \in Replies : ~ Sent(toLLC[c], u) /\ ~ Sent(toLLC'[c], u)
           /\ \A u \in Demands : ~ Due(toLLC'[c], u)
           /\ DueOnce(toLLC'[c])
           /\ Asked /\ Head(reqs).who # c /\ ~ Says(toDir, c, "WB_REP")
           /\ c \in dir.sharers
           /\ t = "INV_REQ" => Head(reqs).t \in Takers /\ dir.st = "SHARED"
           /\ t = "FLUSH_REQ" =>
                /\ Head(reqs).t \in Takers
                /\ Owned \/ (Head(reqs).t = "UPGRADE_REQ" /\ Head(reqs).who \notin dir.sharers)
           /\ t = "WB_REQ" =>
                /\ Head(reqs).t = "SH_REQ"
                /\ \/ Owned /\ Head(reqs).fwd = NoCore
                   \/ dir.st = "SHARED" /\ Head(reqs).fwd = c
    <2> USE <1>DemandReaches
    <2>1. \A u \in DataReplies : ~ Sent(toLLC[c], u)
      BY Zenon DEF CohInv, RepliesOK, DataReplies, Replies
    <2>2. t \notin Replies /\ Tenured(c)
      BY Zenon DEF Demands, Replies, Tenured
    <2>3. \A u \in Replies : ~ Sent(toLLC[c], u) /\ ~ Sent(toLLC'[c], u)
      BY <2>1, <2>2, <1>TakesMessage DEF Replies, DataReplies
    <2>4. DueOnce(toLLC[c]) /\ Due(toLLC[c], t)
      BY <2>1, <2>2, <1>TakesMessage, Zenon DEF CohInv, DemandsOK
    <2>5. DueOnce(toLLC'[c]) /\ \A u \in Demands : ~ Due(toLLC'[c], u)
      BY <2>1, <2>4, <1>TakesMessage, Zenon
    <2>6. c \in dir.sharers
      BY <2>2, Zenon DEF CohInv, SharersOK
    <2> QED BY <2>2, <2>3, <2>4, <2>5, <2>6, Zenon DEF CohInv, DemandsOK, Demands
  \* A cache with a copy writes it back and keeps it to read.
  <1>WritesBackKeeps.
    ASSUME CohInv, NEW c \in LLC, Takes(c, "WB_REQ"), cstate[c] # "I", NEW d \in Data,
           NEW s, s = IF cstate[c] = "SU" THEN "SU" ELSE "S",
           cstate' = [cstate EXCEPT ![c] = s],
           toDir' = DirQueueWith(c, "WB_REP", d),
           UNCHANGED <<toDram, failed, data, waiters, pc>>, UNCHANGED dirVars
    PROVE  CohInv'
    <2> USE <1>WritesBackKeeps
    <2>1. [t |-> "WB_REP", c |-> c, d |-> d] \in DirMessages
      BY Zenon DEF DirMessages
    <2>3. /\ \A u \in Replies : ~ Sent(toLLC[c], u) /\ ~ Sent(toLLC'[c], u)
          /\ \A u \in Demands : ~ Due(toLLC'[c], u)
          /\ DueOnce(toLLC'[c])
          /\ Asked /\ ~ Says(toDir, c, "WB_REP") /\ c \in dir.sharers
          /\ Head(reqs).t = "SH_REQ"
          /\ \/ Owned /\ Head(reqs).fwd = NoCore
             \/ dir.st = "SHARED" /\ Head(reqs).fwd = c
      BY <1>DemandReaches, Zenon DEF Demands
    <2>4. ~ Left(c) /\ ~ Promised(c) /\ ~ Coming(c)
      BY <2>3, Zenon DEF CohInv, SharersOK, Tenured, Coming, DataReplies, Replies
    <2>5. \A t \in Requests : Says(toDir, c, t) \/ Wants(reqs, c, t) =>
            t = "UPGRADE_REQ" /\ cstate[c] = "SU"
      BY Zenon DEF CohInv, RequestsOK
    <2>6. \A t : Says(toDir, c, t) => MayFollow(t, "WB_REP")
      BY <2>3, <2>4, <2>5, Zenon DEF Left, MayFollow, Requests, Answers
    <2>7. /\ toDir' \in Seq(DirMessages) /\ DirOrder(toDir')
          /\ \A b, t : Says(toDir', b, t) <=> Says(toDir, b, t) \/ (b = c /\ t = "WB_REP")
      BY <2>1, <2>6, SendsToDir, Zenon
    <2>8. /\ config' = config /\ dir' = dir /\ reqs' = reqs /\ job' = job /\ nuca' = nuca
          /\ dram' = dram /\ toDram' = toDram /\ waiters' = waiters /\ pc' = pc /\ data' = data
          /\ failed' = failed /\ Asked' = Asked /\ Owned' = Owned
          /\ \A b : Promised(b)' = Promised(b) /\ Clearing(b)' = Clearing(b)
      BY DirectoryFrame, Zenon
    <2>9. /\ cstate \in [LLC -> {"I", "S", "SU", "E", "M"}] /\ pc[c] = "idle"
          /\ toLLC' \in [LLC -> Seq(LLCMessages)] /\ \A b \in LLC : LLCOrder(toLLC'[b])
          /\ \A b \in LLC \ {c} : toLLC'[b] = toLLC[b]
      BY <1>TakesMessage, Zenon DEF CohInv, Types, CachesTypeOK
    <2>10. /\ cstate' \in [LLC -> {"I", "S", "SU", "E", "M"}]
           /\ cstate'[c] = s /\ \A b \in LLC \ {c} : cstate'[b] = cstate[b]
      BY <2>9, Zenon
    <2>11. \A b \in LLC : /\ Coming(b)' = Coming(b) /\ Left(b)' = Left(b)
                          /\ Tenured(b)' = Tenured(b)
      <3> SUFFICES ASSUME NEW b \in LLC
                   PROVE  /\ Coming(b)' = Coming(b) /\ Left(b)' = Left(b)
                          /\ Tenured(b)' = Tenured(b)
        BY Zenon
      <3>1. Left(b)' = Left(b)
        BY <2>7, Zenon DEF Left, Answers
      <3>2. CASE b = c
        <4>1. Coming(c)' = Coming(c)
          BY <2>3, <2>4, Zenon DEF Coming, DataReplies, Replies
        <4>2. cstate'[c] # "I" /\ cstate[c] # "I"
          BY <2>10, Zenon
        <4> QED BY <3>1, <3>2, <4>1, <4>2, Zenon DEF Tenured
      <3>3. CASE b # c
        BY <2>9, <2>10, <3>1, <3>3, Zenon DEF Tenured, Coming
      <3> QED BY <3>2, <3>3, Zenon
    <2>12. Types'
      BY <2>7, <2>8, <2>9, <2>10 DEF CohInv, Types, CachesTypeOK, DirectoryTypeOK, Sleeping
    <2>13. Queues' /\ EntryOK' /\ FrontOK' /\ ReadsOK' /\ NoAssertionFails'
      <3>1. Queues'
        BY <2>7, <2>8, <2>9, Zenon DEF CohInv, Queues
      <3>2. EntryOK' /\ FrontOK' /\ NoAssertionFails'
        <4>1. EntryOK'
          BY <2>8, Zenon DEF CohInv, EntryOK
        <4>2. FrontOK'
          BY <2>8, Zenon DEF CohInv, FrontOK
        <4>3. NoAssertionFails'
          <5>1. ~ failed /\ failed' = failed
            BY <2>8, Zenon DEF CohInv, NoAssertionFails
          <5> QED BY <5>1 DEF NoAssertionFails
        <4> QED BY <4>1, <4>2, <4>3, Zenon
      <3>3. Says(toDir', NoCore, "DRAM_READ_REP") <=> Says(toDir, NoCore, "DRAM_READ_REP")
        BY <2>7
      <3>4. ReadsOK'
        BY <2>8, <3>3, Zenon DEF CohInv, ReadsOK
      <3> QED BY <3>1, <3>2, <3>4, Zenon
    <2>14. ThreadsOK'
      BY <2>8, <2>9, <2>10, Zenon DEF CohInv, ThreadsOK
    <2>15. RequestsOK'
      <3> SUFFICES ASSUME NEW b \in LLC, NEW t \in Requests,
                          Says(toDir', b, t) \/ Wants(reqs, b, t)
                   PROVE  /\ waiters[b] # << >> /\ pc[b] = "idle"
                          /\ Head(waiters[b]) = (t # "SH_REQ")
                          /\ cstate'[b] = "I" \/ (t = "UPGRADE_REQ" /\ cstate'[b] = "SU")
                          /\ \A u \in Requests : ~ (Says(toDir', b, t) /\ Wants(reqs, b, u))
                          /\ \A u \in Replies : ~ Sent(toLLC'[b], u)
        BY <2>8, Zenon DEF RequestsOK
      <3>1. Says(toDir', b, t) <=> Says(toDir, b, t)
        BY <2>7, Zenon DEF Requests
      <3>2. /\ waiters[b] # << >> /\ pc[b] = "idle"
            /\ Head(waiters[b]) = (t # "SH_REQ")
            /\ cstate[b] = "I" \/ (t = "UPGRADE_REQ" /\ cstate[b] = "SU")
            /\ \A u \in Requests : ~ (Says(toDir, b, t) /\ Wants(reqs, b, u))
            /\ \A u \in Replies : ~ Sent(toLLC[b], u)
        BY <3>1, Zenon DEF CohInv, RequestsOK
      <3>3. CASE b = c
        <4>1. t = "UPGRADE_REQ" /\ cstate'[c] = "SU"
          BY <2>5, <2>10, <3>1, <3>3, Zenon
        <4> QED BY <2>3, <3>1, <3>2, <3>3, <4>1, Zenon
      <3>4. CASE b # c
        BY <2>9, <2>10, <3>1, <3>2, <3>4, Zenon
      <3> QED BY <3>3, <3>4, Zenon
    <2>16. RepliesOK'
      <3>1. \A b \in LLC, u \in Replies : Sent(toLLC'[b], u) =>
              b # c /\ Sent(toLLC[b], u) /\ cstate'[b] = cstate[b]
        BY <2>3, <2>9, <2>10, Zenon
      <3> QED BY <2>8, <3>1, Zenon DEF CohInv, RepliesOK
    <2>17. SharersOK'
      BY <2>8, <2>11, Zenon DEF CohInv, SharersOK
    <2>18. HoldersOK'
      BY <2>7, <2>8, <2>9, <2>10, Zenon DEF CohInv, HoldersOK
    <2>19. AnswersOK'
      BY <2>4, <2>7, <2>8, <2>11, Zenon DEF CohInv, AnswersOK, Left, Answers, Requests
    <2>20. WriteBacksOK'
      <3> SUFFICES ASSUME NEW b \in LLC, Says(toDir', b, "WB_REP")
                   PROVE  /\ Asked /\ Head(reqs).t = "SH_REQ" /\ b \in dir.sharers
                          /\ \/ Owned /\ Head(reqs).fwd = NoCore
                             \/ dir.st = "SHARED" /\ Head(reqs).fwd = b
                          /\ cstate'[b] \in {"I", "S", "SU"}
                          /\ \A t \in Replies : ~ Sent(toLLC'[b], t)
        BY <2>8, Zenon DEF WriteBacksOK
      <3>1. CASE b = c
        <4>1. cstate'[c] \in {"I", "S", "SU"}
          BY <2>10, Zenon
        <4> QED BY <2>3, <3>1, <4>1, Zenon
      <3>2. CASE b # c
        BY <2>7, <2>9, <2>10, <3>2, Zenon DEF CohInv, WriteBacksOK
      <3> QED BY <3>1, <3>2, Zenon
    <2>21. DemandsOK'
      BY <2>3, <2>7, <2>8, <2>9, <2>11, Zenon DEF CohInv, DemandsOK
    <2> QED BY <2>12, <2>13, <2>14, <2>15, <2>16, <2>17, <2>18, <2>19, <2>20, <2>21, Zenon DEF CohInv
  \* The demands of the directory, and evictions.
  <1>processInvReqKeeps.
    ASSUME CohInv, NEW c \in LLC, processInvReq(c), UNCHANGED dirVars
    PROVE  CohInv'
    <2> USE <1>processInvReqKeeps
    <2>1. Takes(c, "INV_REQ") /\ "INV_REQ" \in Demands /\ UNCHANGED <<toDram, waiters, pc>>
      BY Zenon DEF processInvReq, Demands
    <2>2. CASE Ignores(c)
      BY <2>1, <2>2, <1>IgnoresKeeps, Zenon
    <2>3. CASE cstate[c] # "I" /\ Asserts(cstate[c] # "M") /\ GivesUp(c, "INV_REP", NoData)
      <3>1. /\ \A u \in Replies : ~ Sent(toLLC[c], u) /\ ~ Sent(toLLC'[c], u)
            /\ Asked /\ Head(reqs).who # c /\ Head(reqs).t \in Takers /\ dir.st = "SHARED"
        BY <2>1, <2>3, <1>DemandReaches, Zenon
      <3>2. ~ failed'
        BY <2>3, <3>1, Zenon DEF CohInv, HoldersOK, Owned, Asserts
      <3>3. Clearing(c)
        BY <3>1, Zenon DEF Clearing
      <3> QED BY <2>1, <2>3, <3>1, <3>2, <3>3, <1>TakesMessage, <1>GivesUpKeeps, Zenon DEF Answers
    <2> QED BY <2>2, <2>3, Zenon DEF processInvReq
  <1>processFlushReqKeeps.
    ASSUME CohInv, NEW c \in LLC, processFlushReq(c), UNCHANGED dirVars
    PROVE  CohInv'
    <2> USE <1>processFlushReqKeeps
    <2>1. Takes(c, "FLUSH_REQ") /\ "FLUSH_REQ" \in Demands /\ UNCHANGED <<toDram, waiters, pc>>
      BY Zenon DEF processFlushReq, Demands
    <2>2. CASE Ignores(c)
      BY <2>1, <2>2, <1>IgnoresKeeps, Zenon
    <2>3. CASE cstate[c] # "I" /\ GivesUp(c, "FLUSH_REP", data[c]) /\ UNCHANGED failed
      <3>1. /\ \A u \in Replies : ~ Sent(toLLC[c], u) /\ ~ Sent(toLLC'[c], u)
            /\ Asked /\ Head(reqs).who # c /\ ~ Says(toDir, c, "WB_REP")
            /\ Head(reqs).t \in Takers
            /\ Owned \/ (Head(reqs).t = "UPGRADE_REQ" /\ Head(reqs).who \notin dir.sharers)
        BY <2>1, <2>3, <1>DemandReaches, Zenon
      <3>2. ~ failed' /\ data[c] \in Data
        BY <2>3, Zenon DEF CohInv, NoAssertionFails, Types
      <3>3. Clearing(c)
        BY <3>1, Zenon DEF Clearing
      <3> QED BY <2>1, <2>3, <3>1, <3>2, <3>3, <1>TakesMessage, <1>GivesUpKeeps, Zenon DEF Answers
    <2> QED BY <2>2, <2>3, Zenon DEF processFlushReq
  <1>processWbReqKeeps.
    ASSUME CohInv, NEW c \in LLC, processWbReq(c), UNCHANGED dirVars
    PROVE  CohInv'
    <2> USE <1>processWbReqKeeps
    <2>1. Takes(c, "WB_REQ") /\ "WB_REQ" \in Demands /\ UNCHANGED <<toDram, waiters, pc>>
      BY Zenon DEF processWbReq, Demands
    <2>2. CASE Ignores(c)
      BY <2>1, <2>2, <1>IgnoresKeeps, Zenon
    <2>3. CASE /\ cstate[c] \notin {"I", "SU"}
               /\ cstate' = [cstate EXCEPT ![c] = "S"]
               /\ toDir' = DirQueueWith(c, "WB_REP", data[c])
               /\ UNCHANGED <<data, failed>>
      <3>1. data[c] \in Data
        BY <2>3, Zenon DEF CohInv, Types
      <3> QED BY <2>1, <2>3, <3>1, <1>WritesBackKeeps, Zenon
    <2>4. CASE /\ cstate[c] = "SU"
               /\ toDir' = DirQueueWith(c, "WB_REP", Junk)
               /\ UNCHANGED <<cstate, data, failed>>
      <3>1. Junk \in Data
        BY Zenon DEF Data
      <3>2. cstate' = [cstate EXCEPT ![c] = "SU"]
        BY <2>4, Zenon DEF CohInv, Types, CachesTypeOK
      <3> QED BY <2>1, <2>4, <3>1, <3>2, <1>WritesBackKeeps, Zenon
    <2> QED BY <2>2, <2>3, <2>4, Zenon DEF processWbReq
  <1>EvictKeeps.
    ASSUME CohInv, NEW c \in LLC, Evict(c), UNCHANGED dirVars
    PROVE  CohInv'
    <2> USE <1>EvictKeeps
    <2>1. /\ pc[c] = "idle" /\ cstate[c] \in {"S", "E", "M"} /\ ~ failed'
          /\ toLLC' = toLLC /\ UNCHANGED <<toDram, waiters, pc>>
          /\ toLLC \in [LLC -> Seq(LLCMessages)] /\ \A b \in LLC : LLCOrder(toLLC[b])
      BY Zenon DEF Evict, CohInv, NoAssertionFails, Types, Queues
    <2>2. \A u \in Replies : ~ Sent(toLLC[c], u)
      BY <2>1, Zenon DEF CohInv, RepliesOK
    <2>3. CASE cstate[c] = "M"
      <3>1. GivesUp(c, "FLUSH_REP", data[c]) /\ data[c] \in Data
        BY <2>3, Zenon DEF Evict, CohInv, Types
      <3>2. Owned /\ ~ Says(toDir, c, "WB_REP")
        BY <2>3, Zenon DEF CohInv, HoldersOK, WriteBacksOK
      <3> QED BY <2>1, <2>2, <2>3, <3>1, <3>2, <1>GivesUpKeeps, Zenon DEF Answers
    <2>4. CASE cstate[c] # "M"
      <3>1. GivesUp(c, "INV_REP", NoData)
        BY <2>4, Zenon DEF Evict
      <3>2. dir.st \in {"SHARED", "EXCLUSIVE"} \/ Says(toDir, c, "WB_REP")
        BY <2>1, <2>2, <2>4, Zenon DEF CohInv, HoldersOK, Replies
      <3> QED BY <2>1, <2>2, <2>4, <3>1, <3>2, <1>GivesUpKeeps, Zenon DEF Answers
    <2> QED BY <2>3, <2>4, Zenon
  \* The waiters that sleep when w of them are left.
  <1>SleepersOf.
    ASSUME NEW n \in 0..Sharers, NEW p, p = "gap" => n # 0
    PROVE  n - (IF p = "gap" THEN 1 ELSE 0) \in 0..Sharers
    BY <1>SleepersOf, CacheAssumption
  \* A cache whose reply has come, or whose front waiter has been served, has a
  \* copy in state s and turns to the waiters w.
  <1>ServeFrontKeeps.
    ASSUME CohInv, NEW c \in LLC, NEW w \in Seq(BOOLEAN), NEW s \in {"S", "E", "M"}, NEW d \in Data,
           NEW asserted, asserted, ServeFront(c, w, s, d, asserted), UNCHANGED dirVars,
           Len(w) \in 0..Sharers,
           Tenured(c),
           \A t \in Requests : ~ Says(toDir, c, t) /\ ~ Wants(reqs, c, t),
           s = "E" => Owned /\ (dir.st = "MODIFIED" => w # << >> /\ Head(w)),
           s = "M" => Owned,
           s = "S" => dir.st = "SHARED" \/ Says(toDir, c, "WB_REP"),
           s # "S" => ~ Says(toDir, c, "WB_REP"),
           toLLC' \in [LLC -> Seq(LLCMessages)], \A b \in LLC : LLCOrder(toLLC'[b]),
           \A b \in LLC \ {c} : toLLC'[b] = toLLC[b],
           \A u \in Replies : ~ Sent(toLLC'[c], u),
           \A u \in Demands : Due(toLLC'[c], u) => Due(toLLC[c], u),
           DueOnce(toLLC[c]) => DueOnce(toLLC'[c])
    PROVE  CohInv'
    <2> USE <1>ServeFrontKeeps
    <2>1. /\ cstate \in [LLC -> {"I", "S", "SU", "E", "M"}] /\ data \in [LLC -> Data \cup {NoData}]
          /\ waiters \in [LLC -> Seq(BOOLEAN)] /\ pc \in [LLC -> {"idle", "gap"}]
          /\ toDir \in Seq(DirMessages) /\ DirOrder(toDir) /\ dir.st \in {"UNCACHED", "SHARED", "EXCLUSIVE", "MODIFIED"}
      BY Zenon DEF CohInv, Types, CachesTypeOK, DirectoryTypeOK, Queues
    <2>2. ~ Left(c) /\ ~ Promised(c)
      BY Zenon DEF CohInv, SharersOK
    <2>3. w # << >> => Head(w) \in BOOLEAN /\ Len(w) \in Nat \ {0}
      <3>1. w # << >> => Head(w) \in BOOLEAN
        BY TailSeq, Zenon
      <3>2. w # << >> => Len(w) \in Nat \ {0}
        BY TailSeq, Zenon
      <3> QED BY <3>1, <3>2, Zenon
    <2>4. PICK s1 \in {"S", "SU", "E", "M"}, p1 \in {"idle", "gap"}, d1 \in Data :
            /\ cstate' = [cstate EXCEPT ![c] = s1] /\ data' = [data EXCEPT ![c] = d1]
            /\ pc' = [pc EXCEPT ![c] = p1] /\ ~ failed'
            /\ s1 = "E" => dir.st = "EXCLUSIVE"
            /\ s1 = "M" => Owned
            /\ s1 \in {"S", "SU"} => dir.st = "SHARED" \/ Says(toDir, c, "WB_REP")
            /\ s1 \in {"E", "M"} => ~ Says(toDir, c, "WB_REP")
            /\ p1 = "gap" => w # << >> /\ s1 # "SU"
            /\ s1 = "SU" => w # << >> /\ Head(w) /\ p1 = "idle"
            /\ toDir' = IF s1 = "SU" THEN DirQueueWith(c, "UPGRADE_REQ", NoData) ELSE toDir
      <3>1. CASE w = << >>
        BY <2>1, <3>1, Zenon DEF ServeFront, Asserts, Owned
      <3>2. CASE w # << >> /\ Head(w) /\ s = "S"
        BY <3>2, Zenon DEF ServeFront, Asserts, UpgradeRequest
      <3>3. CASE w # << >> /\ Head(w) /\ s # "S"
        <4>1. PICK v \in Values : data' = [data EXCEPT ![c] = v]
          BY <3>3, Zenon DEF ServeFront
        <4>2. v \in Data
          BY Zenon DEF Data
        <4>3. /\ cstate' = [cstate EXCEPT ![c] = "M"] /\ pc' = [pc EXCEPT ![c] = "gap"]
              /\ ~ failed' /\ toDir' = toDir
          BY <3>3, Zenon DEF ServeFront, Asserts
        <4> QED BY <3>3, <4>1, <4>2, <4>3, Zenon
      <3>4. CASE w # << >> /\ ~ Head(w)
        BY <2>1, <3>4, Zenon DEF ServeFront, Asserts, Permitted, Owned
      <3> QED BY <2>3, <3>1, <3>2, <3>3, <3>4, Zenon
    <2>5. /\ toDir' \in Seq(DirMessages) /\ DirOrder(toDir')
          /\ \A b, t : Says(toDir', b, t) <=>
               Says(toDir, b, t) \/ (s1 = "SU" /\ b = c /\ t = "UPGRADE_REQ")
      <3>1. [t |-> "UPGRADE_REQ", c |-> c, d |-> NoData] \in DirMessages
        BY Zenon DEF DirMessages, Requests
      <3>2. \A t : Says(toDir, c, t) => MayFollow(t, "UPGRADE_REQ")
        BY Zenon DEF MayFollow, Answers, Requests
      <3>3. CASE s1 = "SU"
        <4>1. toDir' = DirQueueWith(c, "UPGRADE_REQ", NoData)
          BY <2>4, <3>3, Zenon
        <4> QED BY <3>1, <3>2, <3>3, <4>1, SendsToDir, Zenon
      <3>4. CASE s1 # "SU"
        BY <2>1, <2>4, <3>4, Zenon
      <3> QED BY <3>3, <3>4, Zenon
    <2>5a. \A b, t : t \notin Requests => (Says(toDir', b, t) <=> Says(toDir, b, t))
      BY <2>5, Zenon DEF Requests
    <2>6. /\ config' = config /\ dir' = dir /\ reqs' = reqs /\ job' = job /\ nuca' = nuca
          /\ dram' = dram /\ toDram' = toDram /\ Asked' = Asked /\ Owned' = Owned
          /\ \A b : Promised(b)' = Promised(b) /\ Clearing(b)' = Clearing(b)
      BY DirectoryFrame, Zenon DEF ServeFront
    <2>7. waiters' = [waiters EXCEPT ![c] = w]
      BY Zenon DEF ServeFront
    <2>8. /\ cstate'[c] = s1 /\ pc'[c] = p1 /\ waiters'[c] = w /\ data'[c] = d1
          /\ \A b \in LLC \ {c} : /\ cstate'[b] = cstate[b] /\ pc'[b] = pc[b]
                                  /\ waiters'[b] = waiters[b] /\ data'[b] = data[b]
                                  /\ toLLC'[b] = toLLC[b]
      BY <2>1, <2>4, <2>7, Zenon
    <2>9. /\ \A b \in LLC \ {c} : /\ Coming(b)' = Coming(b) /\ Left(b)' = Left(b)
                                  /\ Tenured(b)' = Tenured(b)
          /\ ~ Coming(c)' /\ ~ Left(c)' /\ Tenured(c)'
      BY <2>2, <2>5, <2>8, Zenon DEF Coming, Left, Tenured, DataReplies, Replies, Answers
    <2>10. Types'
      <3>1. CachesTypeOK'
        <4>1. \A b \in LLC : Sleeping(b)' \in 0..Sharers
          <5> SUFFICES ASSUME NEW b \in LLC PROVE Sleeping(b)' \in 0..Sharers
            BY Zenon
          <5>1. CASE b = c
            <6>1. p1 = "gap" => Len(w) # 0
              <7>1. p1 = "gap" => Len(w) \in Nat \ {0}
                BY <2>3, <2>4, Zenon
              <7> QED BY <7>1, Zenon
            <6>2. Len(w) - (IF p1 = "gap" THEN 1 ELSE 0) \in 0..Sharers
              BY <6>1, <1>SleepersOf, Zenon
            <6>3. Sleeping(c)' = Len(w) - (IF p1 = "gap" THEN 1 ELSE 0)
              BY <2>8, Zenon DEF Sleeping
            <6> QED BY <5>1, <6>2, <6>3, Zenon
          <5>2. CASE b # c
            BY <2>8, <5>2, Zenon DEF CohInv, Types, CachesTypeOK, Sleeping
          <5> QED BY <5>1, <5>2, Zenon
        <4> QED BY <2>1, <2>4, <2>7, <4>1, Zenon DEF CachesTypeOK
      <3> QED BY <2>5, <2>6, <2>8, <3>1, Zenon DEF CohInv, Types, DirectoryTypeOK
    <2>11. Queues' /\ EntryOK' /\ FrontOK' /\ NoAssertionFails'
      BY <2>4, <2>5, <2>6, Zenon DEF CohInv, Queues, EntryOK, FrontOK, NoAssertionFails
    <2>12. ThreadsOK'
      BY <2>4, <2>8, Zenon DEF CohInv, ThreadsOK
    <2>13. RequestsOK'
      <3>1. ASSUME NEW b \in LLC, b # c, NEW t \in Requests
            PROVE  Says(toDir', b, t) <=> Says(toDir, b, t)
        BY <2>5, <3>1, Zenon
      <3>2. \A t \in Requests : /\ Says(toDir', c, t) <=> s1 = "SU" /\ t = "UPGRADE_REQ"
                                /\ ~ Wants(reqs', c, t)
        BY <2>5, <2>6, Zenon
      <3> SUFFICES ASSUME NEW b \in LLC, NEW t \in Requests,
                          Says(toDir', b, t) \/ Wants(reqs', b, t)
                   PROVE  /\ waiters'[b] # << >> /\ pc'[b] = "idle"
                          /\ Head(waiters'[b]) = (t # "SH_REQ")
                          /\ cstate'[b] = "I" \/ (t = "UPGRADE_REQ" /\ cstate'[b] = "SU")
                          /\ \A u \in Requests : ~ (Says(toDir', b, t) /\ Wants(reqs', b, u))
                          /\ \A u \in Replies : ~ Sent(toLLC'[b], u)
        BY Zenon DEF RequestsOK
      <3>3. CASE b = c
        <4>1. s1 = "SU" /\ t = "UPGRADE_REQ"
          BY <3>2, <3>3, Zenon
        <4>2. Head(w) = TRUE
          BY <2>3, <2>4, <4>1, Zenon
        <4> QED BY <2>4, <2>8, <3>2, <3>3, <4>1, <4>2, Zenon
      <3>4. CASE b # c
        BY <2>6, <2>8, <3>1, <3>4, Zenon DEF CohInv, RequestsOK
      <3> QED BY <3>3, <3>4, Zenon
    <2>14. RepliesOK'
      <3>1. \A b \in LLC, u \in Replies : Sent(toLLC'[b], u) =>
              /\ b # c /\ Sent(toLLC[b], u) /\ cstate'[b] = cstate[b]
              /\ waiters'[b] = waiters[b] /\ pc'[b] = pc[b]
        BY <2>8, Zenon
      <3> QED BY <2>6, <3>1, Zenon DEF CohInv, RepliesOK
    <2>15. SharersOK'
      BY <2>2, <2>6, <2>9, Zenon DEF CohInv, SharersOK
    <2>16. HoldersOK'
      <3> SUFFICES ASSUME NEW b \in LLC
                   PROVE  /\ cstate'[b] = "E" => dir'.st = "EXCLUSIVE"
                          /\ cstate'[b] = "M" => Owned'
                          /\ cstate'[b] \in {"S", "SU"} =>
                               \/ dir'.st = "SHARED"
                               \/ Says(toDir', b, "WB_REP")
                               \/ Sent(toLLC'[b], "UPGRADE_REP")
        BY Zenon DEF HoldersOK
      <3>1. \A t : Says(toDir, b, t) => Says(toDir', b, t)
        BY <2>5, Zenon
      <3>2. CASE b = c
        BY <2>4, <2>6, <2>8, <3>1, <3>2, Zenon
      <3>3. CASE b # c
        BY <2>6, <2>8, <3>1, <3>3, Zenon DEF CohInv, HoldersOK
      <3> QED BY <3>2, <3>3, Zenon
    <2>17. AnswersOK'
      BY <2>5, <2>6, <2>9, Zenon DEF CohInv, AnswersOK, Left, Answers, Requests
    <2>18. WriteBacksOK'
      BY <2>4, <2>5a, <2>6, <2>8, Zenon DEF CohInv, WriteBacksOK, Requests
    <2>19. DemandsOK'
      <3>1. \A b \in LLC : Tenured(b)' =>
              /\ Tenured(b)
              /\ \A u \in Demands : Due(toLLC'[b], u) => Due(toLLC[b], u)
              /\ DueOnce(toLLC[b]) => DueOnce(toLLC'[b])
              /\ Says(toDir', b, "WB_REP") <=> Says(toDir, b, "WB_REP")
        BY <2>5a, <2>8, <2>9, Zenon DEF Requests
      <3> QED BY <2>6, <3>1, Zenon DEF CohInv, DemandsOK
    <2>20. ReadsOK'
      BY <2>5a, <2>6, Zenon DEF CohInv, ReadsOK, Requests
    <2> QED BY <2>10, <2>11, <2>12, <2>13, <2>14, <2>15, <2>16, <2>17, <2>18, <2>19, <2>20, Zenon
            DEF CohInv
  <1>TakeDataKeeps.
    ASSUME CohInv, NEW c \in LLC, TakeData(c), UNCHANGED dirVars
    PROVE  CohInv'
    <2> USE <1>TakeDataKeeps
    <2> DEFINE w == waiters[c]
               d == Head(toLLC[c]).d
               asserted == cstate[c] = "I" /\ w # << >>
    <2>1. PICK t \in DataReplies :
            /\ Takes(c, t)
            /\ ServeFront(c, w, IF t = "EX_REP" THEN "E" ELSE "S", d, asserted)
      BY Zenon DEF TakeData, DataReplies
    <2>2. t \in Replies /\ t \notin Demands
      BY Zenon DEF DataReplies, Replies, Demands
    <2>3. /\ pc[c] = "idle" /\ d \in Data /\ Sent(toLLC[c], t)
          /\ toLLC' \in [LLC -> Seq(LLCMessages)] /\ \A b \in LLC : LLCOrder(toLLC'[b])
          /\ \A b \in LLC \ {c} : toLLC'[b] = toLLC[b]
          /\ \A u \in Replies : ~ Sent(toLLC'[c], u)
          /\ \A u \in Demands : Due(toLLC'[c], u) => Due(toLLC[c], u)
          /\ DueOnce(toLLC[c]) => DueOnce(toLLC'[c])
      BY <2>1, <2>2, <1>TakesMessage, Zenon DEF LLCMessages, DataReplies, Demands
    <2>4. /\ cstate[c] = "I" /\ w # << >>
          /\ t = "SH_REP" => dir.st = "SHARED"
          /\ t = "EX_REP" => Owned /\ (dir.st = "MODIFIED" => Head(w))
      BY <2>2, <2>3, Zenon DEF CohInv, RepliesOK, DataReplies
    <2>5. \A u \in Requests : ~ Says(toDir, c, u) /\ ~ Wants(reqs, c, u)
      BY <2>2, <2>3, Zenon DEF CohInv, RequestsOK
    <2>6. ~ Says(toDir, c, "WB_REP")
      BY <2>2, <2>3, Zenon DEF CohInv, WriteBacksOK
    <2>7. Tenured(c)
      BY <2>3, Zenon DEF Tenured, Coming
    <2>8. w \in Seq(BOOLEAN) /\ Len(w) \in 0..Sharers
      BY <2>3 DEF CohInv, Types, CachesTypeOK, Sleeping
    <2>9. asserted
      BY <2>4, Zenon
    <2> HIDE DEF w, d, asserted
    <2>10. CASE t = "EX_REP"
      <3>1. ServeFront(c, w, "E", d, asserted)
        BY <2>1, <2>10, Zenon
      <3> QED BY <2>3, <2>4, <2>5, <2>6, <2>7, <2>8, <2>9, <2>10, <3>1, <1>ServeFrontKeeps, Zenon
    <2>11. CASE t = "SH_REP"
      <3>1. ServeFront(c, w, "S", d, asserted)
        BY <2>1, <2>11, Zenon
      <3> QED BY <2>3, <2>4, <2>5, <2>6, <2>7, <2>8, <2>9, <2>11, <3>1, <1>ServeFrontKeeps, Zenon
    <2> QED BY <2>1, <2>10, <2>11, Zenon DEF DataReplies
  <1>TakeUpgradeKeeps.
    ASSUME CohInv, NEW c \in LLC, TakeUpgrade(c), UNCHANGED dirVars
    PROVE  CohInv'
    <2> USE <1>TakeUpgradeKeeps
    <2> DEFINE w == waiters[c]
               asserted == cstate[c] = "SU" /\ w # << >>
    <2>1. /\ Takes(c, "UPGRADE_REP") /\ ServeFront(c, w, "M", data[c], asserted)
          /\ "UPGRADE_REP" \in Replies /\ "UPGRADE_REP" \notin Demands
      BY Zenon DEF TakeUpgrade, Replies, Demands
    <2>2. /\ pc[c] = "idle" /\ Sent(toLLC[c], "UPGRADE_REP")
          /\ toLLC' \in [LLC -> Seq(LLCMessages)] /\ \A b \in LLC : LLCOrder(toLLC'[b])
          /\ \A b \in LLC \ {c} : toLLC'[b] = toLLC[b]
          /\ \A u \in Replies : ~ Sent(toLLC'[c], u)
          /\ \A u \in Demands : Due(toLLC'[c], u) => Due(toLLC[c], u)
          /\ DueOnce(toLLC[c]) => DueOnce(toLLC'[c])
      BY <2>1, <1>TakesMessage, Zenon
    <2>3. cstate[c] = "SU" /\ w # << >> /\ Owned
      BY <2>1, <2>2, Zenon DEF CohInv, RepliesOK, Owned
    <2>4. data[c] \in Data /\ Tenured(c)
      BY <2>3, Zenon DEF CohInv, Types, Tenured
    <2>5. \A u \in Requests : ~ Says(toDir, c, u) /\ ~ Wants(reqs, c, u)
      BY <2>1, <2>2, Zenon DEF CohInv, RequestsOK
    <2>6. ~ Says(toDir, c, "WB_REP")
      BY <2>1, <2>2, Zenon DEF CohInv, WriteBacksOK
    <2>7. w \in Seq(BOOLEAN) /\ Len(w) \in 0..Sharers
      BY <2>2 DEF CohInv, Types, CachesTypeOK, Sleeping
    <2>8. asserted
      BY <2>3, Zenon
    <2> HIDE DEF w, asserted
    <2> QED BY <2>1, <2>2, <2>3, <2>4, <2>5, <2>6, <2>7, <2>8, <1>ServeFrontKeeps, Zenon
  <1>DropFrontKeeps.
    ASSUME CohInv, NEW c \in LLC, DropFront(c), UNCHANGED dirVars
    PROVE  CohInv'
    <2> USE <1>DropFrontKeeps
    <2> DEFINE w == Tail(waiters[c])
               s == cstate[c]
    <2>1. pc[c] = "gap" /\ ServeFront(c, w, s, data[c], TRUE) /\ toLLC' = toLLC
      BY Zenon DEF DropFront
    <2>2. waiters[c] # << >> /\ s \in {"S", "E", "M"} /\ Tenured(c) /\ data[c] \in Data
      BY <2>1, Zenon DEF CohInv, ThreadsOK, Tenured, Types
    <2>3. /\ toLLC \in [LLC -> Seq(LLCMessages)] /\ \A b \in LLC : LLCOrder(toLLC[b])
          /\ waiters[c] \in Seq(BOOLEAN)
      BY Zenon DEF CohInv, Types, Queues, CachesTypeOK
    <2>4. \A u \in Requests : ~ Says(toDir, c, u) /\ ~ Wants(reqs, c, u)
      BY <2>1, Zenon DEF CohInv, RequestsOK
    <2>5. \A u \in Replies : ~ Sent(toLLC[c], u)
      BY <2>1, Zenon DEF CohInv, RepliesOK
    <2>6. /\ s = "E" => Owned /\ dir.st # "MODIFIED"
          /\ s = "M" => Owned
          /\ s = "S" => dir.st = "SHARED" \/ Says(toDir, c, "WB_REP")
          /\ s # "S" => ~ Says(toDir, c, "WB_REP")
      BY <2>2, <2>5, Zenon DEF CohInv, HoldersOK, WriteBacksOK, Owned, Replies
    <2>7. w \in Seq(BOOLEAN) /\ Len(w) = Len(waiters[c]) - 1
      BY <2>2, <2>3, TailSeq, Zenon
    <2>8. Len(w) \in 0..Sharers
      BY <2>1, <2>7, Zenon DEF CohInv, Types, CachesTypeOK, Sleeping
    <2> HIDE DEF w, s
    <2> QED BY <2>1, <2>2, <2>3, <2>4, <2>5, <2>6, <2>7, <2>8, <1>ServeFrontKeeps, Zenon
  \* The waiters after one more has queued up.
  <1>AppendWaiter.
    ASSUME NEW w \in Seq(BOOLEAN), NEW e \in BOOLEAN
    PROVE  /\ Append(w, e) \in Seq(BOOLEAN) /\ Append(w, e) # << >>
           /\ Len(w) \in Nat /\ Len(Append(w, e)) = Len(w) + 1
           /\ Head(Append(w, e)) = IF w = << >> THEN e ELSE Head(w)
    <2> USE <1>AppendWaiter
    <2> DEFINE B == BOOLEAN
    <2>1. w \in Seq(B) /\ e \in B
      BY Zenon
    <2> HIDE DEF B
    <2>2. /\ Append(w, e) \in Seq(B) /\ Append(w, e) # << >>
          /\ Len(w) \in Nat /\ Len(Append(w, e)) = Len(w) + 1
          /\ Head(Append(w, e)) = IF w = << >> THEN e ELSE Head(w)
      BY <2>1, AppendSeq
    <2> QED BY <2>2, Zenon DEF B
  <1>StoreKeeps.
    ASSUME CohInv, NEW c \in LLC, Store(c), UNCHANGED dirVars
    PROVE  CohInv'
    <2> USE <1>StoreKeeps
    <2>1. PICK v \in Values : data' = [data EXCEPT ![c] = v]
      BY Zenon DEF Store
    <2>2. /\ cstate[c] \in {"E", "M"} /\ cstate' = [cstate EXCEPT ![c] = "M"]
          /\ toDir' = toDir /\ toLLC' = toLLC /\ toDram' = toDram /\ failed' = failed
          /\ waiters' = waiters /\ pc' = pc /\ v \in Data
          /\ cstate \in [LLC -> {"I", "S", "SU", "E", "M"}] /\ data \in [LLC -> Data \cup {NoData}]
      BY Zenon DEF Store, netVars, Data, CohInv, Types, CachesTypeOK
    <2>3. /\ config' = config /\ dir' = dir /\ reqs' = reqs /\ job' = job /\ nuca' = nuca
          /\ dram' = dram /\ Asked' = Asked /\ Owned' = Owned
          /\ \A b : Promised(b)' = Promised(b) /\ Clearing(b)' = Clearing(b)
      BY DirectoryFrame, Zenon
    <2>4. /\ cstate'[c] = "M" /\ \A b \in LLC \ {c} : cstate'[b] = cstate[b]
          /\ data'[c] = v /\ \A b \in LLC \ {c} : data'[b] = data[b]
      BY <2>1, <2>2, Zenon
    <2>5. \A b \in LLC : Coming(b)' = Coming(b) /\ Left(b)' = Left(b) /\ Tenured(b)' = Tenured(b)
      BY <2>2, <2>4, Zenon DEF Coming, Left, Tenured
    <2>6. Types'
      BY <2>1, <2>2, <2>3, <2>4, Zenon DEF CohInv, Types, CachesTypeOK, DirectoryTypeOK, Sleeping
    <2>7. /\ Queues' /\ ThreadsOK' /\ EntryOK' /\ FrontOK' /\ ReadsOK' /\ NoAssertionFails'
      BY <2>2, <2>3, <2>4
         DEF CohInv, Queues, ThreadsOK, EntryOK, FrontOK, ReadsOK, NoAssertionFails
    <2>8. RequestsOK' /\ RepliesOK'
      <3>1. \A t \in Requests : ~ Says(toDir, c, t) /\ ~ Wants(reqs, c, t)
        BY <2>2, Zenon DEF CohInv, RequestsOK
      <3>2. \A u \in Replies : ~ Sent(toLLC[c], u)
        BY <2>2, Zenon DEF CohInv, RepliesOK
      <3>3. RequestsOK'
        BY <2>2, <2>3, <2>4, <3>1, Zenon DEF CohInv, RequestsOK
      <3>4. \A b \in LLC, u \in Replies : Sent(toLLC'[b], u) =>
              b # c /\ Sent(toLLC[b], u) /\ cstate'[b] = cstate[b]
        BY <2>2, <2>4, <3>2, Zenon
      <3>5. RepliesOK'
        BY <2>2, <2>3, <3>4, Zenon DEF CohInv, RepliesOK
      <3> QED BY <3>3, <3>5, Zenon
    <2>9. SharersOK' /\ AnswersOK' /\ DemandsOK'
      BY <2>2, <2>3, <2>5, Zenon DEF CohInv, SharersOK, AnswersOK, DemandsOK
    <2>10. HoldersOK' /\ WriteBacksOK'
      BY <2>2, <2>3, <2>4, Zenon DEF CohInv, HoldersOK, WriteBacksOK, Owned
    <2> QED BY <2>6, <2>7, <2>8, <2>9, <2>10, Zenon DEF CohInv
  \* A thread whose access is not permitted queues up; the first one, at a cache
  \* that holds no copy or one to read, asks the directory.
  <1>MissKeeps.
    ASSUME CohInv, NEW c \in LLC, NEW exclusive \in BOOLEAN, Miss(c, exclusive), UNCHANGED dirVars
    PROVE  CohInv'
    <2> USE <1>MissKeeps
    <2>1. /\ cstate \in [LLC -> {"I", "S", "SU", "E", "M"}] /\ data \in [LLC -> Data \cup {NoData}]
          /\ waiters \in [LLC -> Seq(BOOLEAN)] /\ pc \in [LLC -> {"idle", "gap"}]
          /\ toDir \in Seq(DirMessages) /\ DirOrder(toDir)
          /\ toLLC' = toLLC /\ toDram' = toDram /\ data' = data /\ pc' = pc
          /\ waiters' = [waiters EXCEPT ![c] = Append(waiters[c], exclusive)]
          /\ ~ Permitted(cstate[c], exclusive) /\ ~ (exclusive /\ cstate[c] = "E")
      BY Zenon DEF CohInv, Types, CachesTypeOK, Queues, Miss
    <2>2. /\ config' = config /\ dir' = dir /\ reqs' = reqs /\ job' = job /\ nuca' = nuca
          /\ dram' = dram /\ Asked' = Asked /\ Owned' = Owned
          /\ \A b : Promised(b)' = Promised(b) /\ Clearing(b)' = Clearing(b)
      BY DirectoryFrame, Zenon
    <2>3. /\ waiters'[c] # << >> /\ waiters'[c] \in Seq(BOOLEAN)
          /\ Len(waiters'[c]) = Len(waiters[c]) + 1 /\ Len(waiters[c]) \in Nat
          /\ Head(waiters'[c]) = IF waiters[c] = << >> THEN exclusive ELSE Head(waiters[c])
          /\ \A b \in LLC \ {c} : waiters'[b] = waiters[b]
      <3>1. waiters'[c] = Append(waiters[c], exclusive) /\ waiters[c] \in Seq(BOOLEAN)
        BY <2>1, Zenon
      <3>2. \A b \in LLC \ {c} : waiters'[b] = waiters[b]
        BY <2>1, Zenon
      <3>3. /\ Append(waiters[c], exclusive) \in Seq(BOOLEAN)
            /\ Append(waiters[c], exclusive) # << >> /\ Len(waiters[c]) \in Nat
            /\ Len(Append(waiters[c], exclusive)) = Len(waiters[c]) + 1
            /\ Head(Append(waiters[c], exclusive))
                 = IF waiters[c] = << >> THEN exclusive ELSE Head(waiters[c])
        BY <3>1, <1>AppendWaiter, Zenon
      <3> QED BY <3>1, <3>2, <3>3, Zenon
    <2>4. \A b \in LLC : Sleeping(b)' \in 0..Sharers
      <3> SUFFICES ASSUME NEW b \in LLC PROVE Sleeping(b)' \in 0..Sharers
        BY Zenon
      <3>1. CASE b = c
        <4>1. Sleeping(c) < Sharers /\ Sleeping(c) \in 0..Sharers
          BY Zenon DEF Miss, ThreadRuns, CohInv, Types, CachesTypeOK
        <4>2. Sleeping(c)' = Sleeping(c) + 1
          BY <2>1, <2>3 DEF Sleeping
        <4>3. Sleeping(c) + 1 \in 0..Sharers
          BY <4>1, CacheAssumption
        <4> QED BY <3>1, <4>2, <4>3, Zenon
      <3>2. CASE b # c
        BY <2>1, <2>3, <3>2, Zenon DEF CohInv, Types, CachesTypeOK, Sleeping
      <3> QED BY <3>1, <3>2, Zenon
    <2>5. waiters' \in [LLC -> Seq(BOOLEAN)]
      BY <2>1, <2>3, Zenon
    <2>6. ASSUME waiters[c] # << >>, cstate' = cstate, toDir' = toDir, failed' = failed
          PROVE  CohInv'
      <3>1. \A b \in LLC : /\ Coming(b)' = Coming(b) /\ Left(b)' = Left(b)
                           /\ Tenured(b)' = Tenured(b)
        BY <2>1, <2>6, Zenon DEF Coming, Left, Tenured
      <3>2. \A b \in LLC : waiters[b] # << >> =>
                             waiters'[b] # << >> /\ Head(waiters'[b]) = Head(waiters[b])
        BY <2>3, <2>6, Zenon
      <3>3. Types'
        <4>1. CachesTypeOK'
          BY <2>1, <2>4, <2>5, <2>6, Zenon DEF CohInv, Types, CachesTypeOK
        <4>2. DirectoryTypeOK'
          BY <2>1, <2>2, <2>6, Zenon DEF CohInv, Types, DirectoryTypeOK
        <4> QED BY <2>1, <2>2, <2>6, <4>1, <4>2, Zenon DEF CohInv, Types
      <3>4. Queues' /\ EntryOK' /\ FrontOK' /\ ReadsOK' /\ NoAssertionFails'
        BY <2>1, <2>2, <2>6, Zenon DEF CohInv, Queues, EntryOK, FrontOK, ReadsOK, NoAssertionFails
      <3>5. ThreadsOK' /\ RequestsOK' /\ RepliesOK'
        <4>1. ThreadsOK'
          BY <2>1, <2>6, <3>2, Zenon DEF CohInv, ThreadsOK
        <4>2. RequestsOK'
          BY <2>1, <2>2, <2>6, <3>2, Zenon DEF CohInv, RequestsOK
        <4>3. RepliesOK'
          BY <2>1, <2>2, <2>6, <3>2, Zenon DEF CohInv, RepliesOK
        <4> QED BY <4>1, <4>2, <4>3, Zenon
      <3>6. SharersOK' /\ AnswersOK' /\ DemandsOK'
        BY <2>1, <2>2, <2>6, <3>1, Zenon DEF CohInv, SharersOK, AnswersOK, DemandsOK
      <3>7. HoldersOK' /\ WriteBacksOK'
        BY <2>1, <2>2, <2>6, Zenon DEF CohInv, HoldersOK, WriteBacksOK
      <3> QED BY <3>3, <3>4, <3>5, <3>6, <3>7, Zenon DEF CohInv
    <2>7. ASSUME waiters[c] = << >>, NEW t \in Requests, toDir' = DirQueueWith(c, t, NoData),
                 ~ failed', exclusive = (t # "SH_REQ"),
                 IF t = "UPGRADE_REQ" THEN cstate[c] = "S" /\ cstate' = [cstate EXCEPT ![c] = "SU"]
                                      ELSE cstate[c] = "I" /\ cstate' = cstate
          PROVE  CohInv'
      <3>1. /\ pc[c] = "idle"
            /\ \A u \in Requests : ~ Says(toDir, c, u) /\ ~ Wants(reqs, c, u)
            /\ \A u \in Replies : ~ Sent(toLLC[c], u)
        BY <2>1, <2>7, Zenon DEF CohInv, ThreadsOK, RequestsOK, RepliesOK
      <3>2. [t |-> t, c |-> c, d |-> NoData] \in DirMessages
        BY Zenon DEF DirMessages
      <3>3. \A u : Says(toDir, c, u) => MayFollow(u, t)
        BY <3>1, Zenon DEF MayFollow, Answers, Requests
      <3>4. /\ toDir' \in Seq(DirMessages) /\ DirOrder(toDir')
            /\ \A b, u : Says(toDir', b, u) <=> Says(toDir, b, u) \/ (b = c /\ u = t)
        BY <2>7, <3>2, <3>3, SendsToDir, Zenon
      <3>5. \A b, u : u \notin Requests => (Says(toDir', b, u) <=> Says(toDir, b, u))
        BY <3>4, Zenon
      <3>6. /\ cstate' \in [LLC -> {"I", "S", "SU", "E", "M"}]
            /\ cstate'[c] = IF t = "UPGRADE_REQ" THEN "SU" ELSE "I"
            /\ \A b \in LLC \ {c} : cstate'[b] = cstate[b]
            /\ cstate[c] = IF t = "UPGRADE_REQ" THEN "S" ELSE "I"
        BY <2>1, <2>7, Zenon
      <3>7. \A b \in LLC : /\ Coming(b)' = Coming(b) /\ Left(b)' = Left(b)
                           /\ Tenured(b)' = Tenured(b)
        BY <2>1, <3>5, <3>6, Zenon DEF Coming, Left, Tenured, Requests, Answers
      <3>8. Types'
        BY <2>1, <2>2, <2>4, <2>5, <3>4, <3>6, Zenon DEF CohInv, Types, CachesTypeOK, DirectoryTypeOK
      <3>9. Queues' /\ EntryOK' /\ FrontOK' /\ ReadsOK' /\ NoAssertionFails'
        BY <2>1, <2>2, <2>7, <3>4, <3>5, Zenon
           DEF CohInv, Queues, EntryOK, FrontOK, ReadsOK, NoAssertionFails, Requests
      <3>10. ThreadsOK'
        BY <2>1, <2>3, <3>1, <3>6, Zenon DEF CohInv, ThreadsOK
      <3>11. RequestsOK'
        <4> SUFFICES ASSUME NEW b \in LLC, NEW u \in Requests,
                            Says(toDir', b, u) \/ Wants(reqs', b, u)
                     PROVE  /\ waiters'[b] # << >> /\ pc'[b] = "idle"
                            /\ Head(waiters'[b]) = (u # "SH_REQ")
                            /\ cstate'[b] = "I" \/ (u = "UPGRADE_REQ" /\ cstate'[b] = "SU")
                            /\ \A x \in Requests : ~ (Says(toDir', b, u) /\ Wants(reqs', b, x))
                            /\ \A x \in Replies : ~ Sent(toLLC'[b], x)
          BY Zenon DEF RequestsOK
        <4>1. CASE b = c
          <5>1. u = t
            BY <2>2, <3>1, <3>4, <4>1, Zenon
          <5>2. Head(waiters'[c]) = (u # "SH_REQ")
            BY <2>3, <2>7, <5>1, Zenon
          <5> QED BY <2>1, <2>2, <2>3, <3>1, <3>6, <4>1, <5>1, <5>2, Zenon
        <4>2. CASE b # c
          BY <2>1, <2>2, <2>3, <3>4, <3>6, <4>2 DEF CohInv, RequestsOK
        <4> QED BY <4>1, <4>2, Zenon
      <3>12. RepliesOK'
        <4>1. \A b \in LLC, u \in Replies : Sent(toLLC'[b], u) =>
                /\ b # c /\ Sent(toLLC[b], u) /\ cstate'[b] = cstate[b]
                /\ waiters'[b] = waiters[b] /\ pc'[b] = pc[b]
          BY <2>1, <2>3, <3>1, <3>6, Zenon
        <4> QED BY <2>2, <4>1, Zenon DEF CohInv, RepliesOK
      <3>13. SharersOK'
        BY <2>2, <3>7, Zenon DEF CohInv, SharersOK
      <3>14. HoldersOK' /\ WriteBacksOK'
        <4>1. \A b \in LLC : Says(toDir', b, "WB_REP") <=> Says(toDir, b, "WB_REP")
          BY <3>5, Zenon DEF Requests
        <4>2. HoldersOK'
          BY <2>1, <2>2, <3>6, <4>1, Zenon DEF CohInv, HoldersOK
        <4>3. WriteBacksOK'
          BY <2>1, <2>2, <3>6, <4>1, Zenon DEF CohInv, WriteBacksOK
        <4> QED BY <4>2, <4>3, Zenon
      <3>15. DemandsOK'
        BY <2>1, <2>2, <3>5, <3>7, Zenon DEF CohInv, DemandsOK, Requests
      <3>16. AnswersOK'
        <4>1. t = "UPGRADE_REQ" => ~ Left(c)
          BY <3>6, Zenon DEF CohInv, SharersOK, Tenured
        <4> QED BY <2>2, <3>1, <3>4, <3>5, <3>7, <4>1, Zenon DEF CohInv, AnswersOK, Requests
      <3> QED BY <3>8, <3>9, <3>10, <3>11, <3>12, <3>13, <3>14, <3>15, <3>16, Zenon DEF CohInv
    <2>8. CASE waiters[c] # << >>
      BY <2>6, <2>8, Zenon DEF Miss
    <2>9. CASE waiters[c] = << >>
      <3>1. cstate[c] # "SU"
        BY <2>9, Zenon DEF CohInv, ThreadsOK
      <3>2. ~ failed
        BY Zenon DEF CohInv, NoAssertionFails
      <3>3. CASE exclusive /\ cstate[c] = "S"
        BY <2>7, <2>9, <3>2, <3>3, Zenon DEF Miss, UpgradeRequest, Requests
      <3>4. CASE exclusive /\ cstate[c] # "S"
        <4>1. cstate[c] = "I"
          BY <2>1, <3>1, <3>4, Zenon DEF Permitted
        <4> QED BY <2>7, <2>9, <3>4, <4>1, Zenon DEF Miss, Asserts, Requests
      <3>5. CASE ~ exclusive
        <4>1. cstate[c] = "I"
          BY <2>1, <3>1, <3>5, Zenon DEF Permitted
        <4> QED BY <2>7, <2>9, <3>2, <3>5, <4>1, Zenon DEF Miss, Requests
      <3> QED BY <3>3, <3>4, <3>5, Zenon
    <2> QED BY <2>8, <2>9, Zenon
  <1>1. ASSUME CohInv, Threads PROVE CohInv'
    <2>1. PICK c \in config.caches : ThreadStep(c) /\ UNCHANGED dirVars
      BY <1>1, Zenon DEF Threads
    <2>2. c \in LLC
      BY <1>1, DirectoryAssumption, Zenon DEF CohInv, Types, DirectoryTypeOK
    <2>3. CASE Store(c)
      BY <1>1, <2>1, <2>2, <2>3, <1>StoreKeeps, Zenon
    <2>4. ASSUME NEW exclusive \in BOOLEAN, Miss(c, exclusive) PROVE CohInv'
      BY <1>1, <2>1, <2>2, <2>4, <1>MissKeeps, Zenon
    <2> QED BY <2>1, <2>3, <2>4, Zenon DEF ThreadStep
  <1>2. ASSUME CohInv, Caches PROVE CohInv'
    <2>1. PICK c \in LLC : (CacheStep(c) \/ Evict(c)) /\ UNCHANGED dirVars
      BY <1>2, Zenon DEF Caches
    <2>2. CASE TakeData(c)
      BY <1>2, <2>1, <2>2, <1>TakeDataKeeps, Zenon
    <2>3. CASE TakeUpgrade(c)
      BY <1>2, <2>1, <2>3, <1>TakeUpgradeKeeps, Zenon
    <2>4. CASE DropFront(c)
      BY <1>2, <2>1, <2>4, <1>DropFrontKeeps, Zenon
    <2>5. CASE processInvReq(c)
      BY <1>2, <2>1, <2>5, <1>processInvReqKeeps, Zenon
    <2>6. CASE processFlushReq(c)
      BY <1>2, <2>1, <2>6, <1>processFlushReqKeeps, Zenon
    <2>7. CASE processWbReq(c)
      BY <1>2, <2>1, <2>7, <1>processWbReqKeeps, Zenon
    <2>8. CASE Evict(c)
      BY <1>2, <2>1, <2>8, <1>EvictKeeps, Zenon
    <2> QED BY <2>1, <2>2, <2>3, <2>4, <2>5, <2>6, <2>7, <2>8, Zenon DEF CacheStep
  <1> QED BY <1>1, <1>2, Zenon

-----------------------------------------------------------------------------
(* The steps of the directory                                              *)

\* The caches' part of the state is left alone.
LEMMA CachesFrame ==
  ASSUME UNCHANGED llcVars
  PROVE  cstate' = cstate /\ data' = data /\ waiters' = waiters /\ pc' = pc
         /\ (CachesTypeOK => CachesTypeOK')
  BY Zenon DEF llcVars, CachesTypeOK, Sleeping

\* While the front request is being processed, or waits for the DRAM, no cache
\* has an answer to give to it.
LEMMA NothingAsked ==
  ASSUME CohInv, ~ Asked
  PROVE  \A b \in LLC :
           /\ ~ Says(toDir, b, "WB_REP")
           /\ Says(toDir, b, "FLUSH_REP") => Owned
           /\ Left(b) => \A t \in Requests : ~ Wants(reqs, b, t)
           /\ Left(b) => ~ Says(toDir, b, "UPGRADE_REQ")
           /\ Tenured(b) => \A t \in Demands : ~ Due(toLLC[b], t)
  <1>1. \A b : ~ Clearing(b)
    BY Zenon DEF Clearing
  <1> QED BY <1>1, Zenon DEF CohInv, WriteBacksOK, AnswersOK, DemandsOK, Requests

Entries ==
  [st : {"UNCACHED", "SHARED", "EXCLUSIVE", "MODIFIED"}, sharers : SUBSET LLC,
   owner : LLC \cup {NoCore}, fwd : LLC \cup {NoCore, Unset}]

\* Entry e says that the cache of the front request has the copy that reply rep
\* gives it.
Enters(e, rep) ==
  /\ e \in Entries
  /\ e.sharers = dir.sharers \cup {Head(reqs).who}
  /\ e.fwd \in LLC => e.fwd \in e.sharers
  /\ rep = "SH_REP" => Head(reqs).t = "SH_REQ" /\ e.st = "SHARED" /\ ~ Owned
  /\ rep = "EX_REP" => /\ e.st = IF Head(reqs).t = "SH_REQ" THEN "EXCLUSIVE" ELSE "MODIFIED"
                       /\ e.owner = Head(reqs).who /\ dir.sharers \subseteq {Head(reqs).who}

\* A reply to one cache.
LEMMA SendsData ==
  ASSUME CohInv, NEW c \in LLC, NEW t \in DataReplies, NEW d \in Data,
         toLLC' = LLCQueuesWith({c}, t, d), \A u \in Replies : ~ Sent(toLLC[c], u)
  PROVE  /\ toLLC' \in [LLC -> Seq(LLCMessages)] /\ \A b \in LLC : LLCOrder(toLLC'[b])
         /\ \A b \in LLC : b # c => toLLC'[b] = toLLC[b]
         /\ \A u \in Replies : Sent(toLLC'[c], u) <=> u = t
         /\ \A u \in Demands : ~ Due(toLLC'[c], u)
         /\ DueOnce(toLLC'[c])
  <1> DEFINE m == [t |-> t, d |-> d]
  <1>1. toLLC \in [LLC -> Seq(LLCMessages)] /\ \A b \in LLC : LLCOrder(toLLC[b])
    BY Zenon DEF CohInv, Types, Queues
  <1>2. /\ toLLC' = [b \in LLC |-> IF b \in {c} THEN Append(toLLC[b], m) ELSE toLLC[b]]
    BY Zenon DEF LLCQueuesWith
  <1>3. /\ Append(toLLC[c], m) \in Seq(LLCMessages) /\ LLCOrder(Append(toLLC[c], m))
        /\ \A u \in Replies : Sent(Append(toLLC[c], m), u) <=> u = t
        /\ \A u \in Demands : ~ Due(Append(toLLC[c], m), u)
        /\ DueOnce(Append(toLLC[c], m))
    BY <1>1, AppendDataReply, Zenon
  <1> HIDE DEF m
  <1>4. toLLC'[c] = Append(toLLC[c], m) /\ \A b \in LLC : b # c => toLLC'[b] = toLLC[b]
    BY <1>2, Zenon
  <1>5. toLLC' \in [LLC -> Seq(LLCMessages)]
    BY <1>1, <1>2, <1>3, Zenon
  <1> QED BY <1>1, <1>3, <1>4, <1>5, Zenon

\* No request and no reply is new.
LEMMA RequestsKept ==
  ASSUME RequestsOK, cstate' = cstate, waiters' = waiters, pc' = pc,
         \A b \in LLC, t \in Requests :
           (Says(toDir', b, t) => Says(toDir, b, t)) /\ (Wants(reqs', b, t) => Wants(reqs, b, t)),
         \A b \in LLC, t \in Requests : Says(toDir', b, t) \/ Wants(reqs', b, t) =>
           \A u \in Replies : Sent(toLLC'[b], u) => Sent(toLLC[b], u)
  PROVE  RequestsOK'
  <1> SUFFICES ASSUME NEW b \in LLC, NEW t \in Requests, Says(toDir', b, t) \/ Wants(reqs', b, t)
               PROVE  /\ waiters[b] # << >> /\ pc[b] = "idle"
                      /\ Head(waiters[b]) = (t # "SH_REQ")
                      /\ cstate[b] = "I" \/ (t = "UPGRADE_REQ" /\ cstate[b] = "SU")
                      /\ \A u \in Requests : ~ (Says(toDir', b, t) /\ Wants(reqs', b, u))
                      /\ \A u \in Replies : ~ Sent(toLLC'[b], u)
    BY Zenon DEF RequestsOK
  <1>1. Says(toDir, b, t) \/ Wants(reqs, b, t)
    BY Zenon
  <1>2. Head(waiters[b]) = (t # "SH_REQ")
    BY <1>1, Zenon DEF RequestsOK
  <1>3. /\ waiters[b] # << >> /\ pc[b] = "idle"
        /\ cstate[b] = "I" \/ (t = "UPGRADE_REQ" /\ cstate[b] = "SU")
        /\ \A u \in Requests : ~ (Says(toDir, b, t) /\ Wants(reqs, b, u))
        /\ \A u \in Replies : ~ Sent(toLLC[b], u)
    BY <1>1, Zenon DEF RequestsOK
  <1>4. /\ \A u \in Requests : ~ (Says(toDir', b, t) /\ Wants(reqs', b, u))
        /\ \A u \in Replies : ~ Sent(toLLC'[b], u)
    BY <1>3, Zenon
  <1> QED BY <1>2, <1>3, <1>4, Zenon

\* The front request gets its data, and the next one is turned to.
LEMMA AnswersFront ==
  ASSUME CohInv, UNCHANGED llcVars, ~ Asked, reqs # << >>, Head(reqs).t \in Requests,
         NEW c, c = Head(reqs).who, NEW rep \in DataReplies, NEW d \in Data,
         ~ Tenured(c), Enters(dir', rep),
         config.protocol = "MESIF" /\ dir'.st = "SHARED" => dir'.fwd # Unset,
         toLLC' = LLCQueuesWith({c}, rep, d),
         toDir' \in Seq(DirMessages), DirOrder(toDir'),
         \A b, u : u # "DRAM_READ_REP" => (Says(toDir', b, u) <=> Says(toDir, b, u)),
         ~ Says(toDir', NoCore, "DRAM_READ_REP"),
         toDram' \in Seq(DramMessages), ReadOnce(toDram'), ~ Sent(toDram', "DRAM_READ_REQ"),
         nuca' \in {Absent} \cup [d : Data, mod : BOOLEAN],
         processNextReq, config' = config, dram' = dram, ~ failed'
  PROVE  CohInv'
  <1> DEFINE r == Head(reqs)
  <1>1. cstate' = cstate /\ data' = data /\ waiters' = waiters /\ pc' = pc /\ CachesTypeOK'
    BY CachesFrame, Zenon DEF CohInv, Types
  <1>2. /\ reqs' = Tail(reqs) /\ job' \in {Idle, NoData} /\ (job' # Idle => reqs' # << >>)
    BY Zenon DEF processNextReq
  <1>3. reqs \in Seq(RequestRecords) /\ ReqsOrder(reqs)
    BY Zenon DEF CohInv, Types, Queues
  <1>4. /\ reqs' \in Seq(RequestRecords) /\ ReqsOrder(reqs')
        /\ c \in LLC /\ Wants(reqs, c, r.t)
        /\ \A b, u : Wants(reqs', b, u) <=> Wants(reqs, b, u) /\ b # c
        /\ reqs' # << >> => ~ Head(reqs').wait /\ Head(reqs').fwd = NoCore
    BY <1>2, <1>3, TailOfReqs, Zenon DEF Requests
  <1>5. /\ NoData \notin Data /\ NoCore \notin LLC
    BY NetworkAssumption, Zenon DEF Data
  <1>6. /\ waiters[c] # << >> /\ pc[c] = "idle" /\ cstate[c] = "I"
        /\ \A u \in Requests : ~ Says(toDir, c, u)
        /\ \A u \in Replies : ~ Sent(toLLC[c], u)
    <2>1. RequestsOK /\ c \in LLC /\ r.t \in Requests /\ Wants(reqs, c, r.t)
      BY <1>4, Zenon DEF CohInv
    <2> HIDE DEF r
    <2>2. \A u \in Requests : ~ Says(toDir, c, u)
      BY <2>1, Zenon DEF RequestsOK
    <2>3. /\ waiters[c] # << >> /\ pc[c] = "idle" /\ cstate[c] \in {"I", "SU"}
          /\ \A u \in Replies : ~ Sent(toLLC[c], u)
      BY <2>1, Zenon DEF RequestsOK
    <2>4. cstate[c] = "I"
      BY Zenon DEF Tenured
    <2> QED BY <2>2, <2>3, <2>4, Zenon
  <1>7. /\ toLLC' \in [LLC -> Seq(LLCMessages)] /\ \A b \in LLC : LLCOrder(toLLC'[b])
        /\ \A b \in LLC : b # c => toLLC'[b] = toLLC[b]
        /\ \A u \in Replies : Sent(toLLC'[c], u) <=> u = rep
        /\ \A u \in Demands : ~ Due(toLLC'[c], u)
        /\ DueOnce(toLLC'[c])
    <2>1. c \in LLC /\ \A u \in Replies : ~ Sent(toLLC[c], u)
      BY <1>4, <1>6, Zenon
    <2> QED BY <2>1, SendsData
  <1>8. \A b \in LLC :
           /\ ~ Says(toDir, b, "WB_REP")
           /\ Says(toDir, b, "FLUSH_REP") => Owned
           /\ Left(b) => \A t \in Requests : ~ Wants(reqs, b, t)
           /\ Left(b) => ~ Says(toDir, b, "UPGRADE_REQ")
           /\ Tenured(b) => \A t \in Demands : ~ Due(toLLC[b], t)
    BY NothingAsked, Zenon
  <1>9. \A b \in LLC : Tenured(b) \/ Left(b) => b \in dir.sharers
    BY Zenon DEF CohInv, SharersOK
  <1>10. /\ dir' \in Entries
         /\ dir'.sharers = dir.sharers \cup {c}
         /\ dir'.fwd \in LLC => dir'.fwd \in dir'.sharers
         /\ rep = "SH_REP" => r.t = "SH_REQ" /\ dir'.st = "SHARED" /\ ~ Owned /\ ~ Owned'
         /\ rep = "EX_REP" => /\ dir'.st \in {"EXCLUSIVE", "MODIFIED"} /\ dir'.owner = c
                              /\ dir.sharers \subseteq {c} /\ Owned'
                              /\ dir'.st = "MODIFIED" => r.t # "SH_REQ"
    BY Zenon DEF Enters, Owned
  <1> HIDE DEF r
  <1>11. /\ \A b \in LLC : b # c => Tenured(b)' = Tenured(b)
         /\ \A b \in LLC : Left(b)' = Left(b)
         /\ Tenured(c)' /\ ~ Left(c)
         /\ \A b \in LLC : ~ Promised(b)'
    <2>1. Coming(c)' /\ \A b \in LLC : b # c => Coming(b)' = Coming(b)
      BY <1>4, <1>7, Zenon DEF Coming, DataReplies, Replies
    <2>2. \A b \in LLC : ~ Promised(b)'
      BY <1>4, Zenon DEF Promised
    <2>3. ~ Left(c)
      BY <1>4, <1>8, Zenon DEF r
    <2> QED BY <1>1, <2>1, <2>2, <2>3, Zenon DEF Tenured, Left, Answers
  <1>12. \A b \in LLC : b # c => ~ Promised(b)
    BY Zenon DEF Promised
  <1>13. rep = "SH_REP" \/ rep = "EX_REP"
    BY Zenon DEF DataReplies
  <1>14. rep = "EX_REP" => \A b \in LLC : b # c => ~ Tenured(b) /\ ~ Left(b)
    BY <1>9, <1>10, Zenon
  <1>15. Types'
    <2>1. job' \in {Idle, NoData} \cup Data
      BY <1>2, Zenon
    <2>2. DirectoryTypeOK'
      BY <1>4, <1>10, <2>1, Zenon DEF CohInv, Types, DirectoryTypeOK, Entries, RequestRecords
    <2> QED BY <1>1, <1>4, <1>7, <2>2, Zenon DEF CohInv, Types
  <1>16. Queues' /\ ThreadsOK' /\ NoAssertionFails'
    BY <1>1, <1>4, <1>7, Zenon DEF CohInv, Queues, ThreadsOK, NoAssertionFails
  <1>17. RequestsOK'
    <2>1. \A b \in LLC, t \in Requests : Says(toDir', b, t) \/ Wants(reqs', b, t) => b # c
      BY <1>4, <1>6, Zenon DEF Requests
    <2>2. \A b \in LLC, t \in Requests :
            (Says(toDir', b, t) => Says(toDir, b, t)) /\ (Wants(reqs', b, t) => Wants(reqs, b, t))
      BY <1>4, Zenon DEF Requests
    <2> QED BY <1>1, <1>7, <2>1, <2>2, RequestsKept, Zenon DEF CohInv
  <1>18. RepliesOK'
    <2> SUFFICES ASSUME NEW b \in LLC, NEW t \in Replies, Sent(toLLC'[b], t)
                 PROVE  /\ waiters[b] # << >> /\ pc[b] = "idle"
                        /\ cstate[b] = IF t = "UPGRADE_REP" THEN "SU" ELSE "I"
                        /\ t = "SH_REP" => ~ Head(waiters[b]) /\ dir'.st = "SHARED"
                        /\ t = "EX_REP" => Owned' /\ (dir'.st = "MODIFIED" => Head(waiters[b]))
                        /\ t = "UPGRADE_REP" => Head(waiters[b]) /\ dir'.st = "MODIFIED"
      BY <1>1, Zenon DEF RepliesOK, Replies
    <2>1. CASE b = c
      <3>1. Head(waiters[c]) = (r.t # "SH_REQ")
        <4>1. RequestsOK /\ r.t \in Requests /\ c \in LLC /\ Wants(reqs, c, r.t)
          BY <1>4, Zenon DEF CohInv, r
        <4>2. \A t1 \in Requests : Wants(reqs, c, t1) => Head(waiters[c]) = (t1 # "SH_REQ")
          BY <4>1, Zenon DEF RequestsOK
        <4> QED BY <4>1, <4>2, Zenon
      <3> QED BY <1>6, <1>7, <1>10, <1>13, <2>1, <3>1, Zenon
    <2>2. CASE b # c
      <3>1. /\ Sent(toLLC[b], t) /\ waiters[b] # << >> /\ pc[b] = "idle"
            /\ cstate[b] = IF t = "UPGRADE_REP" THEN "SU" ELSE "I"
            /\ t = "SH_REP" => ~ Head(waiters[b])
            /\ t # "SH_REP" => Owned
        <4>1. RepliesOK /\ Sent(toLLC[b], t)
          BY <1>7, <2>2, Zenon DEF CohInv
        <4> QED BY <4>1, Zenon DEF RepliesOK, Replies, Owned
      <3>2. Tenured(b)
        BY <3>1, Zenon DEF Tenured, Coming, Replies, DataReplies
      <3> QED BY <1>10, <1>13, <1>14, <2>2, <3>1, <3>2, Zenon
    <2> QED BY <2>1, <2>2, Zenon
  <1>19. SharersOK'
    BY <1>10, <1>11, <1>12, Zenon DEF CohInv, SharersOK
  <1>20. EntryOK'
    <2>1. dir'.sharers # {} /\ dir'.st # "UNCACHED"
      BY <1>10, <1>13, Zenon
    <2>2. Owned' => dir'.owner \in LLC /\ dir'.sharers = {dir'.owner}
      BY <1>4, <1>10, <1>13, Zenon
    <2> QED BY <1>10, <2>1, <2>2, Zenon DEF EntryOK
  <1>21. HoldersOK'
    <2>1. \A b \in LLC : cstate[b] # "I" => b # c /\ rep = "SH_REP"
      BY <1>6, <1>13, <1>14, Zenon DEF Tenured
    <2> QED BY <1>1, <1>10, <2>1, Zenon DEF CohInv, HoldersOK, Owned
  <1>22. AnswersOK'
    <2>1. \A b \in LLC : Left(b) => b # c /\ rep = "SH_REP"
      BY <1>11, <1>13, <1>14, Zenon
    <2>2. \A b \in LLC : ~ Says(toDir, b, "FLUSH_REP")
      BY <1>8, <1>10, <2>1, Zenon DEF Left, Answers
    <2>3. \A b \in LLC : Says(toDir', b, "INV_REP") => dir'.st = "SHARED"
      BY <1>10, <2>1, Zenon DEF Left, Answers
    <2> QED BY <1>4, <1>8, <1>11, <2>2, <2>3, Zenon DEF AnswersOK
  <1>23. WriteBacksOK'
    BY <1>8, Zenon DEF WriteBacksOK
  <1>24. DemandsOK'
    <2>1. \A b \in LLC : Tenured(b)' => DueOnce(toLLC'[b]) /\ \A t \in Demands : ~ Due(toLLC'[b], t)
      BY <1>7, <1>8, <1>11, Zenon DEF CohInv, DemandsOK
    <2> QED BY <2>1, Zenon DEF DemandsOK
  <1>25. FrontOK'
    BY <1>2, <1>4, <1>5, DirectoryAssumption, Zenon DEF FrontOK
  <1>26. ReadsOK'
    BY Zenon DEF ReadsOK
  <1> QED BY <1>15, <1>16, <1>17, <1>18, <1>19, <1>20, <1>21, <1>22, <1>23, <1>24, <1>25, <1>26, Zenon
          DEF CohInv

\* The directory keeps the invariant when it receives a message.
LEMMA ReceivesKeep ==
  /\ CohInv
  /\ ReceiveReq \/ ReceiveInvRep \/ ReceiveFlushRep \/ ReceiveWbRep \/ ReceiveDramReply
  /\ UNCHANGED llcVars
  => CohInv'
  \* The directory takes its first message.
  <1>TailOfDir.
    ASSUME NEW q \in Seq(DirMessages), q # << >>, DirOrder(q)
    PROVE  /\ Tail(q) \in Seq(DirMessages) /\ Head(q) \in DirMessages
           /\ DirOrder(Tail(q))
           /\ Says(q, Head(q).c, Head(q).t)
           /\ \A c, t : Says(Tail(q), c, t) => Says(q, c, t)
           /\ \A c, t : Says(q, c, t) => Says(Tail(q), c, t) \/ (c = Head(q).c /\ t = Head(q).t)
           /\ \A t : Says(Tail(q), Head(q).c, t) => MayFollow(Head(q).t, t)
    <2> USE <1>TailOfDir
    <2> DEFINE p == Tail(q)
    <2>1. /\ p \in Seq(DirMessages) /\ Len(q) \in Nat \ {0} /\ Len(p) = Len(q) - 1
          /\ \A i \in 1..Len(q) - 1 : p[i] = q[i + 1]
          /\ Head(q) = q[1] /\ Head(q) \in DirMessages
      BY TailSeq, Zenon
    <2> HIDE DEF p
    <2>2. DirOrder(p)
      <3> SUFFICES ASSUME NEW i \in 1..Len(p), NEW j \in 1..Len(p), i < j, p[i].c = p[j].c
                   PROVE  MayFollow(p[i].t, p[j].t)
        BY Zenon DEF DirOrder
      <3>1. i + 1 \in 1..Len(q) /\ j + 1 \in 1..Len(q) /\ i + 1 < j + 1
        BY <2>1
      <3>2. p[i] = q[i + 1] /\ p[j] = q[j + 1]
        BY <2>1, Zenon
      <3> QED BY <3>1, <3>2, Zenon DEF DirOrder
    <2>3. Says(q, Head(q).c, Head(q).t)
      BY <2>1 DEF Says
    <2>4. \A c, t : Says(p, c, t) => Says(q, c, t)
      BY <2>1 DEF Says
    <2>5. ASSUME NEW c, NEW t, Says(q, c, t)
          PROVE  Says(p, c, t) \/ (c = Head(q).c /\ t = Head(q).t)
      <3>1. PICK i \in 1..Len(q) : q[i].c = c /\ q[i].t = t
        BY <2>5, Zenon DEF Says
      <3>2. CASE i = 1
        BY <2>1, <3>1, <3>2, Zenon
      <3>3. CASE i # 1
        <4>1. i - 1 \in 1..Len(p) /\ p[i - 1] = q[i]
          BY <2>1, <3>3
        <4> QED BY <3>1, <4>1, Zenon DEF Says
      <3> QED BY <3>2, <3>3, Zenon
    <2>6. ASSUME NEW t, Says(p, Head(q).c, t)
          PROVE  MayFollow(Head(q).t, t)
      <3>1. PICK i \in 1..Len(p) : p[i].c = Head(q).c /\ p[i].t = t
        BY <2>6, Zenon DEF Says
      <3>2. 1 \in 1..Len(q) /\ i + 1 \in 1..Len(q) /\ 1 < i + 1
        BY <2>1
      <3>3. p[i] = q[i + 1] /\ Head(q) = q[1]
        BY <2>1, Zenon
      <3> QED BY <3>1, <3>2, <3>3, Zenon DEF DirOrder
    <2> QED BY <2>1, <2>2, <2>3, <2>4, <2>5, <2>6, Zenon DEF p
  \* A request joins the list.
  <1>AppendReq.
    ASSUME NEW q \in Seq(RequestRecords), ReqsOrder(q), NEW c \in LLC, NEW t \in Requests,
           \A u \in Requests : ~ Wants(q, c, u)
    PROVE  LET p == Append(q, NewReq(t, c))
           IN  /\ p \in Seq(RequestRecords) /\ p # << >> /\ ReqsOrder(p)
               /\ \A b, u : Wants(p, b, u) <=> Wants(q, b, u) \/ (b = c /\ u = t)
               /\ Head(p) = IF q = << >> THEN NewReq(t, c) ELSE Head(q)
    <2> USE <1>AppendReq
    <2> DEFINE m == NewReq(t, c)
               p == Append(q, m)
    <2>1. /\ m \in RequestRecords /\ m.t = t /\ m.who = c /\ ~ m.wait /\ m.fwd = NoCore
          /\ t # "NULLIFY_REQ" /\ c # NoCore
      BY NetworkAssumption, Zenon DEF NewReq, RequestRecords, Requests
    <2>2. /\ p \in Seq(RequestRecords) /\ p # << >> /\ Len(q) \in Nat /\ Len(p) = Len(q) + 1
          /\ \A i \in 1..Len(q) : p[i] = q[i] /\ q[i] \in RequestRecords
          /\ p[Len(q) + 1] = m
          /\ Head(p) = IF q = << >> THEN m ELSE Head(q)
      BY <2>1, AppendSeq
    <2> HIDE DEF p, m
    <2>3. \A b, u : Wants(p, b, u) <=> Wants(q, b, u) \/ (b = c /\ u = t)
      BY <2>1, <2>2 DEF Wants
    <2>4. \A i \in 1..Len(q) : q[i].who # c
      <3> SUFFICES ASSUME NEW i \in 1..Len(q), q[i].who = c PROVE FALSE
        BY Zenon
      <3>1. q[i].t # "NULLIFY_REQ"
        BY <2>1, Zenon DEF ReqsOrder
      <3>2. q[i].t \in Requests
        BY <2>2, <3>1, Zenon DEF RequestRecords
      <3> QED BY <3>2, Zenon DEF Wants
    <2>5. ReqsOrder(p)
      BY <2>1, <2>2, <2>4 DEF ReqsOrder
    <2> QED BY <2>2, <2>3, <2>5, Zenon DEF p, m
  \* The directory takes a message of type t.
  <1>ReceivesMessage.
    ASSUME CohInv, NEW t, Receives(t)
    PROVE  /\ job = Idle /\ Head(toDir) \in DirMessages /\ Head(toDir).t = t
           /\ toDir' \in Seq(DirMessages) /\ DirOrder(toDir')
           /\ Says(toDir, Head(toDir).c, t)
           /\ \A b, u : Says(toDir', b, u) => Says(toDir, b, u)
           /\ \A b, u : Says(toDir, b, u) => Says(toDir', b, u) \/ (b = Head(toDir).c /\ u = t)
           /\ \A u : Says(toDir', Head(toDir).c, u) => MayFollow(t, u)
    BY <1>ReceivesMessage, <1>TailOfDir, Zenon DEF CohInv, Types, Queues, Receives
  <1>ReceiveReqKeeps.
    ASSUME CohInv, ReceiveReq, UNCHANGED llcVars
    PROVE  CohInv'
    <2> USE <1>ReceiveReqKeeps
    <2> DEFINE c == Head(toDir).c
    <2>1. PICK t \in Requests : /\ Receives(t) /\ reqs' = Append(reqs, NewReq(t, c))
                                /\ job' = IF reqs = << >> THEN NoData ELSE Idle
      BY Zenon DEF ReceiveReq
    <2>2. /\ toLLC' = toLLC /\ toDram' = toDram /\ failed' = failed /\ config' = config
          /\ dir' = dir /\ nuca' = nuca /\ dram' = dram /\ Owned' = Owned
          /\ cstate' = cstate /\ data' = data /\ waiters' = waiters /\ pc' = pc /\ CachesTypeOK'
      BY CachesFrame, Zenon DEF ReceiveReq, Owned, CohInv, Types
    <2>3. /\ job = Idle /\ Head(toDir) \in DirMessages /\ Head(toDir).t = t
          /\ toDir' \in Seq(DirMessages) /\ DirOrder(toDir')
          /\ Says(toDir, c, t)
          /\ \A b, u : Says(toDir', b, u) => Says(toDir, b, u)
          /\ \A b, u : Says(toDir, b, u) => Says(toDir', b, u) \/ (b = c /\ u = t)
          /\ \A u : Says(toDir', c, u) => MayFollow(t, u)
      BY <2>1, <1>ReceivesMessage, Zenon
    <2>4. c \in LLC
      BY <2>1, <2>3, Zenon DEF DirMessages, Requests
    <2>5. \A u \in Requests : ~ Says(toDir', c, u) /\ ~ Wants(reqs, c, u)
      BY <2>3, <2>4, Zenon DEF MayFollow, CohInv, RequestsOK
    <2>6. /\ reqs \in Seq(RequestRecords) /\ ReqsOrder(reqs)
          /\ job \in {Idle, NoData} \cup Data /\ NoData \notin Data /\ Idle \notin Data \cup {NoData}
      BY NetworkAssumption, DirectoryAssumption, Zenon DEF CohInv, Types, Queues, DirectoryTypeOK, Data
    <2>7. t # "NULLIFY_REQ" /\ NewReq(t, c).t = t /\ NewReq(t, c).who = c
          /\ ~ NewReq(t, c).wait /\ NewReq(t, c).fwd = NoCore
      BY Zenon DEF NewReq, Requests
    <2> HIDE DEF c
    <2>8. /\ reqs' \in Seq(RequestRecords) /\ reqs' # << >> /\ ReqsOrder(reqs')
          /\ \A b, u : Wants(reqs', b, u) <=> Wants(reqs, b, u) \/ (b = c /\ u = t)
          /\ Head(reqs') = IF reqs = << >> THEN NewReq(t, c) ELSE Head(reqs)
      BY <2>1, <2>4, <2>5, <2>6, <1>AppendReq, Zenon
    <2>9. \A b, u : u \notin Requests => (Says(toDir', b, u) <=> Says(toDir, b, u))
      BY <2>3, Zenon
    <2>10. /\ Asked => Asked' /\ Head(reqs') = Head(reqs)
           /\ \A b : Clearing(b) => Clearing(b)'
           /\ \A b : Promised(b)' <=> Promised(b)
      BY <2>1, <2>3, <2>6, <2>7, <2>8, Zenon DEF Asked, Clearing, Promised
    <2>11. \A b \in LLC : Coming(b)' = Coming(b) /\ Left(b)' = Left(b) /\ Tenured(b)' = Tenured(b)
      BY <2>2, <2>9, Zenon DEF Coming, Left, Tenured, Answers, Requests
    <2>12. Types'
      <3>1. job' \in {Idle, NoData} \cup Data
        BY <2>1, Zenon
      <3> QED BY <2>2, <2>3, <2>8, <3>1, Zenon DEF CohInv, Types, DirectoryTypeOK, RequestRecords
    <2>13. Queues' /\ ThreadsOK' /\ NoAssertionFails'
      BY <2>2, <2>3, <2>8, Zenon DEF CohInv, Queues, ThreadsOK, NoAssertionFails
    <2>14. RequestsOK'
      <3> SUFFICES ASSUME NEW b \in LLC, NEW v \in Requests,
                          Says(toDir', b, v) \/ Wants(reqs', b, v)
                   PROVE  /\ waiters[b] # << >> /\ pc[b] = "idle"
                          /\ Head(waiters[b]) = (v # "SH_REQ")
                          /\ cstate[b] = "I" \/ (v = "UPGRADE_REQ" /\ cstate[b] = "SU")
                          /\ \A u \in Requests : ~ (Says(toDir', b, v) /\ Wants(reqs', b, u))
                          /\ \A u \in Replies : ~ Sent(toLLC[b], u)
        BY <2>2, Zenon DEF RequestsOK
      <3>1. Says(toDir, b, v) \/ Wants(reqs, b, v)
        BY <2>3, <2>8, Zenon
      <3>2. /\ waiters[b] # << >> /\ pc[b] = "idle"
            /\ Head(waiters[b]) = (v # "SH_REQ")
            /\ cstate[b] = "I" \/ (v = "UPGRADE_REQ" /\ cstate[b] = "SU")
            /\ \A u \in Requests : ~ (Says(toDir, b, v) /\ Wants(reqs, b, u))
            /\ \A u \in Replies : ~ Sent(toLLC[b], u)
        BY <3>1, Zenon DEF CohInv, RequestsOK
      <3>3. \A u \in Requests : ~ (Says(toDir', b, v) /\ Wants(reqs', b, u))
        BY <2>3, <2>5, <2>8, <3>2, Zenon
      <3> QED BY <3>2, <3>3, Zenon
    <2>15. RepliesOK'
      BY <2>2, Zenon DEF CohInv, RepliesOK
    <2>16. SharersOK'
      BY <2>2, <2>10, <2>11, Zenon DEF CohInv, SharersOK
    <2>17. EntryOK'
      BY <2>1, <2>2, <2>3, Zenon DEF CohInv, EntryOK
    <2>18. HoldersOK'
      BY <2>2, <2>9, Zenon DEF CohInv, HoldersOK, Requests
    <2>19. AnswersOK'
      <3>1. \A b \in LLC : Left(b) => \A u \in Requests :
              /\ Wants(reqs', b, u) => u = "UPGRADE_REQ" /\ Clearing(b)'
              /\ Says(toDir', b, u) /\ u = "UPGRADE_REQ" => Clearing(b)'
        <4> SUFFICES ASSUME NEW b \in LLC, Left(b), NEW u \in Requests
                     PROVE  /\ Wants(reqs', b, u) => u = "UPGRADE_REQ" /\ Clearing(b)'
                            /\ Says(toDir', b, u) /\ u = "UPGRADE_REQ" => Clearing(b)'
          BY Zenon
        <4>1. Says(toDir', b, u) /\ u = "UPGRADE_REQ" => Clearing(b)'
          BY <2>3, <2>10, Zenon DEF CohInv, AnswersOK
        <4>2. Wants(reqs, b, u) => u = "UPGRADE_REQ" /\ Clearing(b)'
          BY <2>10, Zenon DEF CohInv, AnswersOK
        <4>3. b = c /\ u = t => u = "UPGRADE_REQ" /\ Clearing(b)'
          <5> SUFFICES ASSUME b = c, u = t PROVE u = "UPGRADE_REQ" /\ Clearing(b)'
            BY Zenon
          <5>1. t = "UPGRADE_REQ"
            BY <2>3, <2>9, Zenon DEF Left, Answers, Requests, MayFollow
          <5> QED BY <2>3, <2>10, <5>1, Zenon DEF CohInv, AnswersOK
        <4> QED BY <2>8, <4>1, <4>2, <4>3, Zenon
      <3>2. \A b \in LLC :
              /\ Says(toDir', b, "INV_REP") <=> Says(toDir, b, "INV_REP")
              /\ Says(toDir', b, "FLUSH_REP") <=> Says(toDir, b, "FLUSH_REP")
              /\ Says(toDir', b, "WB_REP") <=> Says(toDir, b, "WB_REP")
        BY <2>9, Zenon DEF Requests
      <3> QED BY <2>2, <2>10, <2>11, <3>1, <3>2, Zenon DEF CohInv, AnswersOK
    <2>20. WriteBacksOK'
      BY <2>2, <2>9, <2>10, Zenon DEF CohInv, WriteBacksOK, Requests
    <2>21. DemandsOK'
      BY <2>2, <2>9, <2>10, <2>11, Zenon DEF CohInv, DemandsOK, Requests
    <2>22. FrontOK'
      BY <2>1, <2>2, <2>3, <2>6, <2>7, <2>8, Zenon DEF CohInv, FrontOK
    <2>23. ReadsOK'
      BY <2>2, <2>8, <2>9, Zenon DEF CohInv, ReadsOK, Requests
    <2> QED BY <2>12, <2>13, <2>14, <2>15, <2>16, <2>17, <2>18, <2>19, <2>20, <2>21, <2>22, <2>23, Zenon
            DEF CohInv
  \* The directory takes the answer of a cache c that has given up its copy, and
  \* strikes it off the list of sharers.  When that lets the front request go on,
  \* nothing else is outstanding.
  <1>LosesSharer.
    ASSUME CohInv, NEW c \in LLC, UNCHANGED llcVars,
           Left(c), ~ Says(toDir, c, "WB_REP"),
           toDir' \in Seq(DirMessages), DirOrder(toDir'),
           \A b, u : Says(toDir', b, u) => Says(toDir, b, u),
           \A b, u : Says(toDir, b, u) => Says(toDir', b, u) \/ (b = c /\ u \in Answers),
           \A u \in Answers : ~ Says(toDir', c, u),
           toLLC' = toLLC, config' = config, dram' = dram, ~ failed',
           toDram' \in Seq(DramMessages), ReadOnce(toDram'),
           Sent(toDram', "DRAM_READ_REQ") <=> Sent(toDram, "DRAM_READ_REQ"),
           nuca' \in {Absent} \cup [d : Data, mod : BOOLEAN],
           dir' \in [st : {"UNCACHED", "SHARED", "EXCLUSIVE", "MODIFIED"},
                     sharers : SUBSET LLC, owner : LLC \cup {NoCore},
                     fwd : LLC \cup {NoCore, Unset}],
           dir'.sharers = dir.sharers \ {c},
           dir'.st = IF dir.sharers \subseteq {c} THEN "UNCACHED" ELSE dir.st,
           dir'.fwd \in LLC => dir'.fwd = dir.fwd /\ dir.fwd # c,
           dir'.fwd = Unset => dir.fwd = Unset,
           dir.st = "SHARED" \/ dir.sharers = {c},
           reqs' \in Seq(RequestRecords), ReqsOrder(reqs'),
           \A b, u : Wants(reqs', b, u) <=> Wants(reqs, b, u),
           reqs' = << >> <=> reqs = << >>,
           reqs # << >> =>
             /\ Head(reqs').t = Head(reqs).t /\ Head(reqs').who = Head(reqs).who
             /\ Head(reqs').wait = Head(reqs).wait /\ Head(reqs').fwd = Head(reqs).fwd,
           job = Idle, job' \in {Idle, NoData} \cup Data,
           job' \in Data => dir.sharers = {c},
           job' # Idle =>
             /\ reqs # << >> /\ ~ Head(reqs).wait
             /\ \/ dir.sharers = {c}
                \/ Head(reqs).t = "UPGRADE_REQ" /\ dir.sharers \ {c} \subseteq {Head(reqs).who}
                \/ Head(reqs).t = "SH_REQ" /\ Head(reqs).fwd \in {NoCore, c}
    PROVE  CohInv'
    <2> USE <1>LosesSharer
    <2>1. cstate' = cstate /\ data' = data /\ waiters' = waiters /\ pc' = pc /\ CachesTypeOK'
      BY CachesFrame, Zenon DEF CohInv, Types
    <2>2. /\ Idle \notin Data \cup {NoData} /\ NoCore \notin LLC
          /\ c \in dir.sharers /\ ~ Tenured(c) /\ ~ Promised(c) /\ dir.sharers \subseteq LLC
      BY NetworkAssumption, DirectoryAssumption, Zenon DEF CohInv, SharersOK, Types, DirectoryTypeOK
    <2>3. \A b, u : u \notin Answers \/ b # c => (Says(toDir', b, u) <=> Says(toDir, b, u))
      BY Zenon DEF Answers
    <2>4. /\ ~ Left(c)'
          /\ \A b \in LLC : b # c => Left(b)' = Left(b)
          /\ \A b \in LLC : Coming(b)' = Coming(b) /\ Tenured(b)' = Tenured(b)
          /\ \A b \in LLC : Promised(b)' <=> Promised(b)
      BY <2>1, <2>3, Zenon DEF Left, Coming, Tenured, Promised
    \* The other sharers share, so nobody owns the line any more.
    <2>5. /\ \A b \in dir.sharers : b # c => dir.st = "SHARED" /\ dir'.st = "SHARED"
          /\ ~ Owned' /\ (Owned => dir.sharers = {c})
      BY Zenon DEF Owned, CohInv, EntryOK
    <2>6. \A b \in LLC : Tenured(b) \/ Left(b) \/ Promised(b) => b \in dir.sharers
      BY Zenon DEF CohInv, SharersOK
    <2>7. job' = Idle => /\ Asked => Asked'
                         /\ \A b : Clearing(b) => Clearing(b)'
      BY Zenon DEF Asked, Clearing
    <2>8. ASSUME job' # Idle, NEW b \in dir.sharers, b # c
          PROVE  ~ Clearing(b) /\ ~ (Head(reqs).t = "SH_REQ" /\ Head(reqs).fwd = b)
      <3>1. \/ Head(reqs).t = "UPGRADE_REQ" /\ b = Head(reqs).who
            \/ Head(reqs).t = "SH_REQ" /\ Head(reqs).fwd \in {NoCore, c}
        <4>1. dir.sharers # {c}
          BY <2>8, Zenon
        <4>2. \/ dir.sharers = {c}
              \/ Head(reqs).t = "UPGRADE_REQ" /\ dir.sharers \ {c} \subseteq {Head(reqs).who}
              \/ Head(reqs).t = "SH_REQ" /\ Head(reqs).fwd \in {NoCore, c}
          BY <2>8, Zenon
        <4> HIDE <1>LosesSharer
        <4> QED BY <2>8, <4>1, <4>2, Zenon
      <3>2. b # NoCore
        BY <2>2, <2>8, Zenon
      <3> QED BY <2>8, <3>1, <3>2, Zenon DEF Clearing, Takers
    <2>9. Types'
      BY <2>1, Zenon DEF CohInv, Types, DirectoryTypeOK, RequestRecords
    <2>10. Queues' /\ ThreadsOK' /\ NoAssertionFails'
      BY <2>1, Zenon DEF CohInv, Queues, ThreadsOK, NoAssertionFails
    <2>11. RequestsOK'
      <3>1. RequestsOK /\ toLLC' = toLLC
        BY Zenon DEF CohInv
      <3> QED BY <2>1, <3>1, RequestsKept, Zenon
    <2>12. RepliesOK'
      <3>1. \A b \in LLC : (\E t \in Replies : Sent(toLLC[b], t)) =>
               b # c /\ dir.st = "SHARED" /\ dir'.st = "SHARED"
        <4> SUFFICES ASSUME NEW b \in LLC, NEW t \in Replies, Sent(toLLC[b], t)
                     PROVE  b # c /\ dir.st = "SHARED" /\ dir'.st = "SHARED"
          BY Zenon
        <4>1. Tenured(b)
          BY Zenon DEF Tenured, Coming, CohInv, RepliesOK, Replies, DataReplies
        <4> QED BY <2>2, <2>5, <2>6, <4>1, Zenon
      <3> QED BY <2>1, <2>5, <3>1, Zenon DEF CohInv, RepliesOK, Owned
    <2>13. SharersOK'
      BY <2>2, <2>4, <2>6, Zenon DEF CohInv, SharersOK
    <2>14. EntryOK'
      BY <2>2, <2>5, Zenon DEF CohInv, EntryOK
    <2>15. HoldersOK'
      <3>1. \A b \in LLC : cstate[b] # "I" => dir.st = "SHARED" /\ dir'.st = "SHARED"
        BY <2>2, <2>5, <2>6, Zenon DEF Tenured
      <3> QED BY <2>1, <2>5, <3>1, Zenon DEF CohInv, HoldersOK, Owned
    <2>16. AnswersOK'
      <3> SUFFICES ASSUME NEW b \in LLC
                   PROVE  /\ Says(toDir', b, "INV_REP") => dir'.st = "SHARED"
                          /\ Says(toDir', b, "FLUSH_REP") =>
                               /\ ~ Says(toDir', b, "WB_REP")
                               /\ Asked' /\ Head(reqs').t = "UPGRADE_REQ"
                               /\ Head(reqs').who \notin dir'.sharers
                          /\ Left(b)' => \A t \in Requests :
                               /\ Wants(reqs', b, t) => t = "UPGRADE_REQ" /\ Clearing(b)'
                               /\ Says(toDir', b, t) /\ t = "UPGRADE_REQ" => Clearing(b)'
        BY Zenon DEF AnswersOK
      <3>1. Says(toDir', b, "INV_REP") => dir'.st = "SHARED"
        BY <2>4, <2>5, <2>6, Zenon DEF Left, Answers
      <3>2. ASSUME Says(toDir', b, "FLUSH_REP")
            PROVE  /\ ~ Says(toDir', b, "WB_REP")
                   /\ Asked' /\ Head(reqs').t = "UPGRADE_REQ"
                   /\ Head(reqs').who \notin dir'.sharers
        <4>1. b # c /\ b \in dir.sharers /\ ~ Owned /\ Says(toDir, b, "FLUSH_REP")
          BY <2>5, <2>6, <3>2, Zenon DEF Left, Answers
        <4>2. /\ ~ Says(toDir, b, "WB_REP")
              /\ Asked /\ Head(reqs).t = "UPGRADE_REQ" /\ Head(reqs).who \notin dir.sharers
          BY <4>1, Zenon DEF CohInv, AnswersOK
        <4>3. Clearing(b)
          BY <4>1, <4>2, Zenon DEF Clearing, Takers
        <4>4. job' = Idle
          BY <2>8, <4>1, <4>3, Zenon
        <4> QED BY <2>7, <4>2, <4>4, Zenon DEF Asked
      <3>3. ASSUME Left(b)', NEW t \in Requests
            PROVE  /\ Wants(reqs', b, t) => t = "UPGRADE_REQ" /\ Clearing(b)'
                   /\ Says(toDir', b, t) /\ t = "UPGRADE_REQ" => Clearing(b)'
        <4>1. b # c /\ b \in dir.sharers /\ Left(b)
          BY <2>4, <2>6, <3>3, Zenon
        <4>2. Clearing(b) => Clearing(b)'
          BY <2>7, <2>8, <4>1, Zenon
        <4> QED BY <3>3, <4>1, <4>2, Zenon DEF CohInv, AnswersOK
      <3> QED BY <3>1, <3>2, <3>3, Zenon
    <2>17. WriteBacksOK'
      <3> SUFFICES ASSUME NEW b \in LLC, Says(toDir', b, "WB_REP")
                   PROVE  /\ Asked' /\ Head(reqs').t = "SH_REQ" /\ b \in dir'.sharers
                          /\ dir'.st = "SHARED" /\ Head(reqs').fwd = b
                          /\ cstate[b] \in {"I", "S", "SU"}
                          /\ \A t \in Replies : ~ Sent(toLLC[b], t)
        BY <2>1, Zenon DEF WriteBacksOK
      <3>1. /\ Says(toDir, b, "WB_REP") /\ b # c
            /\ Asked /\ Head(reqs).t = "SH_REQ" /\ b \in dir.sharers
            /\ cstate[b] \in {"I", "S", "SU"} /\ \A t \in Replies : ~ Sent(toLLC[b], t)
        BY Zenon DEF CohInv, WriteBacksOK
      <3>2. dir'.st = "SHARED" /\ dir.st = "SHARED" /\ Head(reqs).fwd = b
        BY <2>5, <3>1, Zenon DEF CohInv, WriteBacksOK
      <3>3. job' = Idle
        BY <2>8, <3>1, <3>2, Zenon
      <3> QED BY <2>2, <2>7, <3>1, <3>2, <3>3, Zenon DEF Asked
    <2>18. DemandsOK'
      <3> SUFFICES ASSUME NEW b \in LLC, Tenured(b),
                          NEW t \in Demands, Due(toLLC[b], t)
                   PROVE  /\ Asked' /\ Head(reqs').who # b /\ ~ Says(toDir', b, "WB_REP")
                          /\ dir'.st = "SHARED"
                          /\ t = "INV_REQ" => Head(reqs').t \in Takers
                          /\ t = "FLUSH_REQ" =>
                               Head(reqs').t = "UPGRADE_REQ" /\ Head(reqs').who \notin dir'.sharers
                          /\ t = "WB_REQ" => Head(reqs').t = "SH_REQ" /\ Head(reqs').fwd = b
        <4>1. \A b \in LLC : Tenured(b) => DueOnce(toLLC[b])
          BY Zenon DEF CohInv, DemandsOK
        <4> QED BY <2>4, <4>1 DEF DemandsOK, Takers, Demands
      <3>1. b # c /\ b \in dir.sharers /\ dir.st = "SHARED" /\ dir'.st = "SHARED" /\ ~ Owned
        BY <2>2, <2>5, <2>6, Zenon
      <3>2. /\ Asked /\ Head(reqs).who # b /\ ~ Says(toDir, b, "WB_REP")
            /\ t = "INV_REQ" => Head(reqs).t \in Takers
            /\ t = "FLUSH_REQ" => Head(reqs).t = "UPGRADE_REQ" /\ Head(reqs).who \notin dir.sharers
            /\ t = "WB_REQ" => Head(reqs).t = "SH_REQ" /\ Head(reqs).fwd = b
        BY <3>1, Zenon DEF CohInv, DemandsOK
      <3>3. Clearing(b) \/ (Head(reqs).t = "SH_REQ" /\ Head(reqs).fwd = b)
        BY <3>2, Zenon DEF Clearing, Demands, Takers
      <3>4. job' = Idle
        BY <2>8, <3>1, <3>3, Zenon
      <3> QED BY <2>2, <2>7, <3>1, <3>2, <3>4, Zenon DEF Asked, Demands
    <2>19. FrontOK'
      <3>1. reqs # << >> /\ (Head(reqs).wait \/ Head(reqs).fwd # NoCore) => dir'.st = dir.st
        <4> SUFFICES ASSUME reqs # << >>, Head(reqs).wait \/ Head(reqs).fwd # NoCore
                     PROVE  dir'.st = dir.st
          BY Zenon
        <4>1. Head(reqs).t \in Requests /\ Head(reqs).who \in LLC
          <5>1. reqs \in Seq(RequestRecords) /\ ReqsOrder(reqs)
            BY Zenon DEF CohInv, Types, DirectoryTypeOK, RequestRecords, Queues
          <5>2. FrontOK
            BY Zenon DEF CohInv
          <5> HIDE <1>LosesSharer
          <5>3. Len(reqs) \in Nat \ {0} /\ Head(reqs) = reqs[1] /\ Head(reqs) \in RequestRecords
            BY <5>1, TailSeq, Zenon
          <5> QED BY <5>1, <5>2, <5>3 DEF FrontOK, ReqsOrder, Requests, RequestRecords
        <4>2. Promised(Head(reqs).who)
          BY Zenon DEF Promised
        <4> QED BY <2>2, <2>5, <2>6, <4>1, <4>2, Zenon
      <3>2. job' \in Data => ~ Owned' /\ dir'.st = "UNCACHED"
        BY <2>5, Zenon
      <3> QED BY <3>1, <3>2, Zenon DEF CohInv, FrontOK
    <2>20. ReadsOK'
      BY <2>3, Zenon DEF CohInv, ReadsOK, Answers
    <2> QED BY <2>9, <2>10, <2>11, <2>12, <2>13, <2>14, <2>15, <2>16, <2>17, <2>18, <2>19, <2>20, Zenon
            DEF CohInv
  \* Data goes to the NUCA slice or to the DRAM: the read of the DRAM is not touched.
  <1>SendsToNUCA.
    ASSUME CohInv, NEW d \in Data, sendDataToNUCA(d)
    PROVE  /\ toDram' \in Seq(DramMessages) /\ ReadOnce(toDram')
           /\ Sent(toDram', "DRAM_READ_REQ") <=> Sent(toDram, "DRAM_READ_REQ")
           /\ nuca' \in {Absent} \cup [d : Data, mod : BOOLEAN]
    <2> USE <1>SendsToNUCA
    <2> DEFINE m == [t |-> "DRAM_WRITE_REQ", d |-> Junk]
    <2>1. m \in DramMessages /\ m.t = "DRAM_WRITE_REQ"
      BY Zenon DEF DramMessages, Data
    <2>2. nuca' \in {Absent} \cup [d : Data, mod : BOOLEAN]
      <3>1. nuca' = [d |-> d, mod |-> FALSE] \/ nuca' = [d |-> d, mod |-> TRUE]
        BY Zenon DEF sendDataToNUCA
      <3>2. /\ [d |-> d, mod |-> FALSE] \in [d : Data, mod : BOOLEAN]
            /\ [d |-> d, mod |-> TRUE] \in [d : Data, mod : BOOLEAN]
        BY Zenon
      <3> QED BY <3>1, <3>2, Zenon
    <2>3. toDram' = toDram \/ toDram' = Append(toDram, m)
      BY Zenon DEF sendDataToNUCA, DramQueueWith
    <2>4. toDram \in Seq(DramMessages) /\ ReadOnce(toDram)
      BY Zenon DEF CohInv, Types, Queues
    <2> HIDE DEF m
    <2> QED BY <2>1, <2>2, <2>3, <2>4, AppendToDram, Zenon
  <1>SendsToDram.
    ASSUME CohInv, NEW d \in Data, sendDataToDram(d)
    PROVE  /\ toDram' \in Seq(DramMessages) /\ ReadOnce(toDram')
           /\ Sent(toDram', "DRAM_READ_REQ") <=> Sent(toDram, "DRAM_READ_REQ")
           /\ nuca' \in {Absent} \cup [d : Data, mod : BOOLEAN]
    <2> USE <1>SendsToDram
    <2> DEFINE m == [t |-> "DRAM_WRITE_REQ", d |-> d]
    <2>1. m \in DramMessages /\ m.t = "DRAM_WRITE_REQ"
      BY Zenon DEF DramMessages
    <2>2. CASE config.nuca
      BY <2>2, <1>SendsToNUCA, Zenon DEF sendDataToDram
    <2>3. CASE ~ config.nuca
      <3>1. toDram' = Append(toDram, m) /\ nuca' = nuca
        BY <2>3, Zenon DEF sendDataToDram, DramQueueWith
      <3>2. /\ toDram \in Seq(DramMessages) /\ ReadOnce(toDram)
            /\ nuca \in {Absent} \cup [d : Data, mod : BOOLEAN]
        BY Zenon DEF CohInv, Types, Queues, DirectoryTypeOK
      <3> HIDE DEF m
      <3> QED BY <2>1, <3>1, <3>2, AppendToDram, Zenon
    <2> QED BY <2>2, <2>3, Zenon
  <1>ReceiveInvRepKeeps.
    ASSUME CohInv, ReceiveInvRep, UNCHANGED llcVars
    PROVE  CohInv'
    <2> USE <1>ReceiveInvRepKeeps
    <2> DEFINE c == Head(toDir).c
               e == [Without(c) EXCEPT !.fwd = IF @ = c THEN NoCore ELSE @]
    <2>1. /\ Receives("INV_REP")
          /\ Asserts(dir.st \in {"SHARED", "EXCLUSIVE"} /\ c \in dir.sharers)
          /\ dir' = e
          /\ job' = IF reqs # << >> /\ GoesOnAfterInv(e, Head(reqs), c) THEN NoData ELSE Idle
          /\ toLLC' = toLLC /\ toDram' = toDram /\ config' = config /\ reqs' = reqs
          /\ nuca' = nuca /\ dram' = dram
      BY Zenon DEF ReceiveInvRep
    <2>2. /\ job = Idle /\ Head(toDir) \in DirMessages /\ Head(toDir).t = "INV_REP"
          /\ toDir' \in Seq(DirMessages) /\ DirOrder(toDir')
          /\ Says(toDir, c, "INV_REP")
          /\ \A b, u : Says(toDir', b, u) => Says(toDir, b, u)
          /\ \A b, u : Says(toDir, b, u) => Says(toDir', b, u) \/ (b = c /\ u = "INV_REP")
          /\ \A u : Says(toDir', c, u) => MayFollow("INV_REP", u)
      BY <2>1, <1>ReceivesMessage, Zenon
    <2>3. c \in LLC
      BY <2>2, Zenon DEF DirMessages
    <2>4. /\ dir \in [st : {"UNCACHED", "SHARED", "EXCLUSIVE", "MODIFIED"},
                      sharers : SUBSET LLC, owner : LLC \cup {NoCore},
                      fwd : LLC \cup {NoCore, Unset}]
          /\ Unset # NoCore /\ NoCore \notin LLC /\ Unset \notin LLC
          /\ NoData # Idle /\ NoData \notin Data
      BY NetworkAssumption, DirectoryAssumption, Zenon DEF CohInv, Types, DirectoryTypeOK, Data
    <2>5. /\ e \in [st : {"UNCACHED", "SHARED", "EXCLUSIVE", "MODIFIED"},
                    sharers : SUBSET LLC, owner : LLC \cup {NoCore},
                    fwd : LLC \cup {NoCore, Unset}]
          /\ e.sharers = dir.sharers \ {c}
          /\ e.st = IF dir.sharers \subseteq {c} THEN "UNCACHED" ELSE dir.st
          /\ e.fwd \in LLC => e.fwd = dir.fwd /\ dir.fwd # c
          /\ e.fwd = Unset => dir.fwd = Unset
      BY <2>4, Zenon DEF Without
    <2> HIDE DEF e, c
    <2>6. Left(c) /\ ~ Says(toDir, c, "WB_REP") /\ \A u \in Answers : ~ Says(toDir', c, u)
      BY <2>2 DEF Left, Answers, MayFollow
    <2>7. dir.st \in {"SHARED", "EXCLUSIVE"} /\ c \in dir.sharers
      BY <2>2, <2>3, <2>6, Zenon DEF CohInv, AnswersOK, SharersOK
    <2>8. ~ failed'
      BY <2>1, <2>7, Zenon DEF Asserts
    <2>9. dir.st = "SHARED" \/ dir.sharers = {c}
      BY <2>7, Zenon DEF CohInv, EntryOK, Owned
    <2>10. ASSUME job' # Idle
           PROVE  /\ reqs # << >> /\ ~ Head(reqs).wait
                  /\ \/ dir.sharers = {c}
                     \/ Head(reqs).t = "UPGRADE_REQ" /\ dir.sharers \ {c} \subseteq {Head(reqs).who}
                     \/ Head(reqs).t = "SH_REQ" /\ Head(reqs).fwd \in {NoCore, c}
      <3>1. reqs # << >> /\ GoesOnAfterInv(e, Head(reqs), c)
        BY <2>1, <2>10, Zenon
      <3>2. CASE Head(reqs).t = "SH_REQ"
        BY <3>1, <3>2, Zenon DEF GoesOnAfterInv
      <3>3. CASE Head(reqs).t # "SH_REQ"
        <4>1. ~ Head(reqs).wait
          BY <2>7, <3>1, <3>3, Zenon DEF CohInv, FrontOK
        <4>2. e.sharers = {} <=> e.st = "UNCACHED"
          BY <2>5, <2>7, Zenon
        <4> QED BY <2>5, <2>7, <3>1, <3>3, <4>1, <4>2, Zenon DEF GoesOnAfterInv
      <3> QED BY <3>2, <3>3, Zenon
    <2>11. /\ toDram' \in Seq(DramMessages) /\ ReadOnce(toDram')
           /\ nuca' \in {Absent} \cup [d : Data, mod : BOOLEAN]
           /\ reqs' \in Seq(RequestRecords) /\ ReqsOrder(reqs')
      BY <2>1, Zenon DEF CohInv, Types, Queues, DirectoryTypeOK
    <2>12. job' \in {Idle, NoData} \cup Data /\ job' \notin Data
      BY <2>1, <2>4, DirectoryAssumption, Zenon
    <2>13. \A b, u : Says(toDir, b, u) => Says(toDir', b, u) \/ (b = c /\ u \in Answers)
      BY <2>2, Zenon DEF Answers
    <2> QED BY <2>1, <2>2, <2>3, <2>5, <2>6, <2>8, <2>9, <2>10, <2>11, <2>12, <2>13, <1>LosesSharer, Zenon
  <1>ReceiveFlushRepKeeps.
    ASSUME CohInv, ReceiveFlushRep, UNCHANGED llcVars
    PROVE  CohInv'
    <2> USE <1>ReceiveFlushRepKeeps
    <2> DEFINE c == Head(toDir).c
               d == Head(toDir).d
               e == [Without(c) EXCEPT !.fwd = NoCore, !.owner = NoCore]
    <2>1. /\ Receives("FLUSH_REP")
          /\ Asserts(c \in dir.sharers /\ (e.sharers # {} => dir.st = "SHARED"))
          /\ dir' = e
          /\ toLLC' = toLLC /\ config' = config /\ dram' = dram
      BY Zenon DEF ReceiveFlushRep
    <2>2. /\ job = Idle /\ Head(toDir) \in DirMessages /\ Head(toDir).t = "FLUSH_REP"
          /\ toDir' \in Seq(DirMessages) /\ DirOrder(toDir')
          /\ Says(toDir, c, "FLUSH_REP")
          /\ \A b, u : Says(toDir', b, u) => Says(toDir, b, u)
          /\ \A b, u : Says(toDir, b, u) => Says(toDir', b, u) \/ (b = c /\ u = "FLUSH_REP")
          /\ \A u : Says(toDir', c, u) => MayFollow("FLUSH_REP", u)
      BY <2>1, <1>ReceivesMessage, Zenon
    <2>3. c \in LLC /\ d \in Data
      BY <2>2, Zenon DEF DirMessages, Requests
    <2>4. /\ dir \in [st : {"UNCACHED", "SHARED", "EXCLUSIVE", "MODIFIED"},
                      sharers : SUBSET LLC, owner : LLC \cup {NoCore},
                      fwd : LLC \cup {NoCore, Unset}]
          /\ Unset # NoCore /\ NoCore \notin LLC /\ Unset \notin LLC
          /\ NoData # Idle /\ NoData \notin Data /\ Idle \notin Data
      BY NetworkAssumption, DirectoryAssumption, Zenon DEF CohInv, Types, DirectoryTypeOK, Data
    <2>5. /\ e \in [st : {"UNCACHED", "SHARED", "EXCLUSIVE", "MODIFIED"},
                    sharers : SUBSET LLC, owner : LLC \cup {NoCore},
                    fwd : LLC \cup {NoCore, Unset}]
          /\ e.sharers = dir.sharers \ {c}
          /\ e.st = IF dir.sharers \subseteq {c} THEN "UNCACHED" ELSE dir.st
          /\ e.fwd \notin LLC /\ e.fwd # Unset
      BY <2>4, Zenon DEF Without
    <2>6. /\ toDram \in Seq(DramMessages) /\ ReadOnce(toDram)
          /\ nuca \in {Absent} \cup [d : Data, mod : BOOLEAN]
          /\ reqs \in Seq(RequestRecords) /\ ReqsOrder(reqs)
      BY Zenon DEF CohInv, Types, Queues, DirectoryTypeOK
    \* What is done with the data.
    <2>7. \/ sendDataToDram(d) /\ reqs' = reqs
          \/ nuca' = nuca /\ toDram' = toDram
      BY Zenon DEF ReceiveFlushRep
    <2>8. \/ reqs = << >> /\ job' = job /\ reqs' = reqs
          \/ reqs # << >> /\ Head(reqs).t # "UPGRADE_REQ" /\ job' \in {d, NoData} /\ reqs' = reqs
          \/ reqs # << >> /\ Head(reqs).t = "UPGRADE_REQ" /\ e.sharers = {} /\ job' = d /\ reqs' = reqs
          \/ /\ reqs # << >> /\ Head(reqs).t = "UPGRADE_REQ" /\ job' = job
             /\ \E x \in {d, Junk} : reqs' = [reqs EXCEPT ![1].d = x]
      BY Zenon DEF ReceiveFlushRep
    <2> HIDE DEF e, c, d
    <2>9. /\ toDram' \in Seq(DramMessages) /\ ReadOnce(toDram')
          /\ Sent(toDram', "DRAM_READ_REQ") <=> Sent(toDram, "DRAM_READ_REQ")
          /\ nuca' \in {Absent} \cup [d : Data, mod : BOOLEAN]
      BY <2>3, <2>6, <2>7, <1>SendsToDram, Zenon
    <2>10. /\ reqs' \in Seq(RequestRecords) /\ ReqsOrder(reqs')
           /\ \A b, u : Wants(reqs', b, u) <=> Wants(reqs, b, u)
           /\ reqs' = << >> <=> reqs = << >>
           /\ reqs # << >> =>
                /\ Head(reqs').t = Head(reqs).t /\ Head(reqs').who = Head(reqs).who
                /\ Head(reqs').wait = Head(reqs).wait /\ Head(reqs').fwd = Head(reqs).fwd
      <3>1. CASE reqs' = reqs
        BY <2>6, <3>1, Zenon
      <3>2. CASE reqs' # reqs
        <4>1. PICK x \in {d, Junk} : reqs # << >> /\ reqs' = [reqs EXCEPT ![1].d = x]
          BY <2>8, <3>2, Zenon
        <4> DEFINE r == [reqs[1] EXCEPT !.d = x]
        <4>2. reqs[1] = Head(reqs) /\ Head(reqs) \in RequestRecords
          BY <2>6, <4>1, TailSeq, Zenon
        <4>3. /\ r \in RequestRecords /\ r.t = Head(reqs).t /\ r.who = Head(reqs).who
              /\ r.wait = Head(reqs).wait /\ r.fwd = Head(reqs).fwd
          BY <2>3, <4>2, Zenon DEF RequestRecords, Data
        <4>4. reqs' = [reqs EXCEPT ![1] = r]
          BY <4>1, Zenon
        <4> HIDE DEF r
        <4>5. /\ reqs' \in Seq(RequestRecords) /\ reqs' # << >> /\ ReqsOrder(reqs') /\ Head(reqs') = r
              /\ \A b, u : Wants(reqs', b, u) <=> Wants(reqs, b, u)
          BY <2>6, <4>1, <4>3, <4>4, MarksFront, Zenon
        <4> QED BY <4>1, <4>3, <4>5, Zenon
      <3> QED BY <3>1, <3>2, Zenon
    <2>11. Left(c) /\ ~ Says(toDir, c, "WB_REP") /\ \A u \in Answers : ~ Says(toDir', c, u)
      BY <2>2 DEF Left, Answers, MayFollow
    <2>12. /\ c \in dir.sharers
           /\ Owned \/ (Head(reqs).t = "UPGRADE_REQ" /\ reqs # << >> /\ dir.st = "SHARED")
      BY <2>2, <2>3, <2>4, <2>11, Zenon DEF CohInv, AnswersOK, SharersOK, EntryOK, Asked, Owned
    <2>13. dir.st = "SHARED" \/ dir.sharers = {c}
      BY <2>12, Zenon DEF CohInv, EntryOK
    <2>14. ~ failed'
      BY <2>1, <2>5, <2>12, <2>13, Zenon DEF Asserts
    <2>15. ASSUME job' # Idle
           PROVE  reqs # << >> /\ ~ Head(reqs).wait /\ dir.sharers = {c}
      <3>1. reqs # << >> /\ dir.sharers = {c}
        BY <2>2, <2>5, <2>8, <2>12, <2>13, <2>15 DEF Owned
      <3>2. ASSUME Head(reqs).wait PROVE FALSE
        <4>1. Head(reqs).t \in Requests
          BY <3>1, <3>2, Zenon DEF CohInv, FrontOK, Requests
        <4>2. Head(reqs).who \in LLC
          BY <2>6, <3>1, <4>1, TailSeq DEF ReqsOrder, Requests
        <4>3. Promised(Head(reqs).who)
          BY <3>1, <3>2, Zenon DEF Promised
        <4> QED BY <2>3, <2>11, <3>1, <4>2, <4>3, Zenon DEF CohInv, SharersOK
      <3> QED BY <3>1, <3>2, Zenon
    <2>16. job' \in {Idle, NoData} \cup Data
      BY <2>2, <2>3, <2>8, Zenon
    <2>17. job' \in Data => dir.sharers = {c}
      BY <2>4, <2>15, Zenon
    <2>18. \A b, u : Says(toDir, b, u) => Says(toDir', b, u) \/ (b = c /\ u \in Answers)
      BY <2>2, Zenon DEF Answers
    <2> QED BY <2>1, <2>2, <2>3, <2>5, <2>9, <2>10, <2>11, <2>13, <2>14, <2>15, <2>16, <2>17, Zenon,
               <2>18, <1>LosesSharer
  \* The write-back that the front SH_REQ asked for: the owner, or the forwarder,
  \* shares the line now.
  <1>ReceiveWbRepKeeps.
    ASSUME CohInv, ReceiveWbRep, UNCHANGED llcVars
    PROVE  CohInv'
    <2> USE <1>ReceiveWbRepKeeps
    <2> DEFINE c == Head(toDir).c
    <2>1. /\ Receives("WB_REP")
          /\ failed' = ~ (c \in dir.sharers /\ reqs # << >> /\ Head(reqs).t = "SH_REQ")
          /\ dir' = [dir EXCEPT !.owner = NoCore, !.st = "SHARED"]
          /\ job' = Head(toDir).d
          /\ toLLC' = toLLC /\ toDram' = toDram /\ config' = config /\ reqs' = reqs
          /\ nuca' = nuca /\ dram' = dram
      BY Zenon DEF ReceiveWbRep, Asserts
    <2>2. /\ job = Idle /\ Head(toDir) \in DirMessages /\ Head(toDir).t = "WB_REP"
          /\ toDir' \in Seq(DirMessages) /\ DirOrder(toDir')
          /\ Says(toDir, c, "WB_REP")
          /\ \A b, u : Says(toDir', b, u) => Says(toDir, b, u)
          /\ \A b, u : Says(toDir, b, u) => Says(toDir', b, u) \/ (b = c /\ u = "WB_REP")
          /\ \A u : Says(toDir', c, u) => MayFollow("WB_REP", u)
      BY <2>1, <1>ReceivesMessage, Zenon
    <2>3. c \in LLC /\ job' \in Data
      BY <2>1, <2>2, Zenon DEF DirMessages, Requests
    <2>4. cstate' = cstate /\ data' = data /\ waiters' = waiters /\ pc' = pc /\ CachesTypeOK'
      BY CachesFrame, Zenon DEF CohInv, Types
    <2>5. /\ NoData \notin Data /\ Idle \notin Data
          /\ dir' \in [st : {"UNCACHED", "SHARED", "EXCLUSIVE", "MODIFIED"},
                       sharers : SUBSET LLC, owner : LLC \cup {NoCore},
                       fwd : LLC \cup {NoCore, Unset}]
          /\ dir'.st = "SHARED" /\ dir'.sharers = dir.sharers /\ dir'.fwd = dir.fwd /\ ~ Owned'
      BY <2>1, NetworkAssumption, DirectoryAssumption, Zenon DEF CohInv, Types, DirectoryTypeOK, Data, Owned
    <2> HIDE DEF c
    <2>6. /\ Asked /\ Head(reqs).t = "SH_REQ" /\ c \in dir.sharers
          /\ \/ Owned /\ Head(reqs).fwd = NoCore
             \/ dir.st = "SHARED" /\ Head(reqs).fwd = c
          /\ cstate[c] \in {"I", "S", "SU"}
          /\ \A t \in Replies : ~ Sent(toLLC[c], t)
      BY <2>2, <2>3, Zenon DEF CohInv, WriteBacksOK
    <2>7. /\ \A b \in dir.sharers : Owned => b = c
          /\ \A b \in LLC : Tenured(b) \/ Left(b) \/ Promised(b) => b \in dir.sharers
          /\ \A b : ~ Clearing(b)
      BY <2>6, Zenon DEF CohInv, EntryOK, SharersOK, Clearing, Takers
    <2>8. \A b, u : u # "WB_REP" => (Says(toDir', b, u) <=> Says(toDir, b, u))
      BY <2>2
    <2>9. \A b \in LLC : /\ Coming(b)' = Coming(b) /\ Left(b)' = Left(b)
                         /\ Tenured(b)' = Tenured(b) /\ Promised(b)' = Promised(b)
      BY <2>1, <2>4, <2>8, Zenon DEF Coming, Left, Tenured, Promised, Answers
    <2>10. \A b \in LLC : ~ Says(toDir', b, "WB_REP")
      <3> SUFFICES ASSUME NEW b \in LLC, Says(toDir', b, "WB_REP") PROVE FALSE
        BY Zenon
      <3>1. Says(toDir, b, "WB_REP") /\ b # c
        BY <2>2, Zenon DEF MayFollow
      <3>2. /\ b \in dir.sharers
            /\ \/ Owned /\ Head(reqs).fwd = NoCore
               \/ dir.st = "SHARED" /\ Head(reqs).fwd = b
        BY <3>1, Zenon DEF CohInv, WriteBacksOK
      <3> QED BY <2>6, <2>7, <3>1, <3>2, Zenon DEF Owned
    <2>11. Types'
      BY <2>1, <2>2, <2>3, <2>4, <2>5 DEF CohInv, Types, DirectoryTypeOK
    <2>12. Queues' /\ ThreadsOK' /\ NoAssertionFails'
      BY <2>1, <2>2, <2>4, <2>6, Zenon DEF CohInv, Queues, ThreadsOK, NoAssertionFails, Asked
    <2>13. RequestsOK'
      BY <2>1, <2>4, <2>8 DEF CohInv, RequestsOK, Requests
    <2>14. RepliesOK'
      <3>1. \A b \in LLC, t \in Replies : Sent(toLLC[b], t) => t = "SH_REP"
        <4> SUFFICES ASSUME NEW b \in LLC, NEW t \in Replies, Sent(toLLC[b], t), t # "SH_REP"
                     PROVE  FALSE
          BY Zenon
        <4>1. Owned /\ b # c
          BY <2>6, Zenon DEF CohInv, RepliesOK, Replies, Owned
        <4>2. Tenured(b)
          BY Zenon DEF Tenured, Coming, CohInv, RepliesOK, Replies, DataReplies
        <4> QED BY <2>7, <4>1, <4>2, Zenon
      <3>2. \A b \in LLC : Sent(toLLC[b], "SH_REP") =>
              waiters[b] # << >> /\ pc[b] = "idle" /\ cstate[b] = "I" /\ ~ Head(waiters[b])
        BY Zenon DEF CohInv, RepliesOK, Replies
      <3> QED BY <2>1, <2>4, <2>5, <3>1, <3>2, Zenon DEF RepliesOK
    <2>15. SharersOK'
      BY <2>5, <2>9, Zenon DEF CohInv, SharersOK
    <2>16. EntryOK'
      BY <2>3, <2>5, <2>6, Zenon DEF CohInv, EntryOK
    <2>17. HoldersOK'
      <3>1. \A b \in LLC : cstate[b] \notin {"E", "M"}
        <4> SUFFICES ASSUME NEW b \in LLC, cstate[b] \in {"E", "M"} PROVE FALSE
          BY Zenon
        <4>1. Owned /\ b # c /\ Tenured(b)
          BY <2>6, Zenon DEF CohInv, HoldersOK, Owned, Tenured
        <4> QED BY <2>7, <4>1, Zenon
      <3> QED BY <2>4, <2>5, <3>1, Zenon DEF HoldersOK
    <2>18. AnswersOK'
      <3>1. \A b \in LLC : ~ Says(toDir, b, "FLUSH_REP")
        <4> SUFFICES ASSUME NEW b \in LLC, Says(toDir, b, "FLUSH_REP") PROVE FALSE
          BY Zenon
        <4>1. b # c /\ Owned
          BY <2>2, <2>6, Zenon DEF CohInv, AnswersOK
        <4> QED BY <2>7, <4>1, Zenon DEF Left, Answers
      <3> QED BY <2>1, <2>5, <2>7, <2>8, <2>9, <3>1, Zenon DEF CohInv, AnswersOK
    <2>19. WriteBacksOK'
      BY <2>10, Zenon DEF WriteBacksOK
    <2>20. DemandsOK'
      <3>1. \A b \in LLC : Tenured(b) => \A t \in Demands : ~ Due(toLLC[b], t)
        <4> SUFFICES ASSUME NEW b \in LLC, Tenured(b), NEW t \in Demands, Due(toLLC[b], t)
                     PROVE  FALSE
          BY Zenon
        <4>1. /\ ~ Says(toDir, b, "WB_REP")
              /\ \/ Owned /\ Head(reqs).fwd = NoCore
                 \/ dir.st = "SHARED" /\ Head(reqs).fwd = b
          BY <2>6, Zenon DEF CohInv, DemandsOK, Demands, Takers
        <4> QED BY <2>2, <2>6, <2>7, <4>1, Zenon DEF Owned
      <3> QED BY <2>1, <2>9, <3>1, Zenon DEF CohInv, DemandsOK
    <2>21. FrontOK'
      BY <2>1, <2>5, <2>6, Zenon DEF CohInv, FrontOK, Asked
    <2>22. ReadsOK'
      BY <2>1, <2>8, Zenon DEF CohInv, ReadsOK
    <2> QED BY <2>11, <2>12, <2>13, <2>14, <2>15, <2>16, <2>17, <2>18, <2>19, <2>20, <2>21, <2>22, Zenon
            DEF CohInv
  <1>ReceiveDramReplyKeeps.
    ASSUME CohInv, ReceiveDramReply, UNCHANGED llcVars
    PROVE  CohInv'
    <2> USE <1>ReceiveDramReplyKeeps
    <2>1. PICK c, rep : c = Head(reqs).who
                        /\ rep = IF Head(reqs).t = "SH_REQ" /\ dir.st # "EXCLUSIVE" THEN "SH_REP" ELSE "EX_REP"
      BY Zenon
    <2>2. /\ Receives("DRAM_READ_REP")
          /\ failed' = ~ (/\ reqs # << >> /\ NextReqKnown
                          /\ CASE Head(reqs).t = "SH_REQ" -> dir.st \in {"SHARED", "EXCLUSIVE"}
                               [] Head(reqs).t = "EX_REQ" -> dir.st = "MODIFIED"
                               [] OTHER -> Head(reqs).t = "UPGRADE_REQ")
          /\ toLLC' = LLCQueuesWith({c}, rep, Head(toDir).d)
          /\ sendDataToNUCA(Head(toDir).d) \/ (nuca' = nuca /\ toDram' = toDram)
          /\ processNextReq /\ config' = config /\ dir' = dir /\ dram' = dram
      BY <2>1, Zenon DEF ReceiveDramReply, Asserts
    <2>3. /\ Head(toDir) \in DirMessages /\ Head(toDir).t = "DRAM_READ_REP"
          /\ toDir' \in Seq(DirMessages) /\ DirOrder(toDir')
          /\ Says(toDir, Head(toDir).c, "DRAM_READ_REP")
          /\ \A b, u : Says(toDir', b, u) => Says(toDir, b, u)
          /\ \A b, u : Says(toDir, b, u) => Says(toDir', b, u) \/ (b = Head(toDir).c /\ u = "DRAM_READ_REP")
          /\ \A u : Says(toDir', Head(toDir).c, u) => MayFollow("DRAM_READ_REP", u)
      BY <2>2, <1>ReceivesMessage
    <2>4. Head(toDir).c = NoCore /\ Head(toDir).d \in Data
      BY <2>3, Zenon DEF DirMessages, Requests
    <2>5. /\ reqs # << >> /\ Head(reqs).wait /\ ~ Sent(toDram, "DRAM_READ_REQ")
          /\ ~ Says(toDir', NoCore, "DRAM_READ_REP") /\ ~ Asked
      BY <2>3, <2>4, Zenon DEF CohInv, ReadsOK, MayFollow, Asked
    <2>6. \/ Head(reqs).t = "SH_REQ" /\ dir.st \in {"SHARED", "EXCLUSIVE"}
          \/ Head(reqs).t \in {"EX_REQ", "UPGRADE_REQ"} /\ dir.st = "MODIFIED"
      BY <2>5, Zenon DEF CohInv, FrontOK
    <2>7. NextReqKnown /\ c \in LLC
      BY <2>1, <2>5, <2>6, TailOfReqs, Zenon DEF CohInv, Types, Queues, NextReqKnown
    <2>8. ~ failed'
      BY <2>2, <2>5, <2>6, <2>7, Zenon
    <2>9. c \in dir.sharers /\ ~ Tenured(c)
      <3>1. Promised(c)
        BY <2>1, <2>5, Zenon DEF Promised
      <3> QED BY <2>7, <3>1, Zenon DEF CohInv, SharersOK
    <2>10. dir \in Entries /\ EntryOK /\ rep \in DataReplies
      BY <2>1, Zenon DEF CohInv, Types, DirectoryTypeOK, Entries, DataReplies
    <2>11. Enters(dir', rep)
      <3>1. rep = "EX_REP" => Owned
        BY <2>1, <2>6, Zenon DEF Owned
      <3>2. Owned => dir.owner = c /\ dir.sharers = {c}
        BY <2>9, <2>10, Zenon DEF EntryOK
      <3> QED BY <2>1, <2>2, <2>6, <2>9, <2>10, <3>1, <3>2, Zenon DEF Enters, Owned, EntryOK
    <2>12. config.protocol = "MESIF" /\ dir'.st = "SHARED" => dir'.fwd # Unset
      <3>1. job = Idle
        BY <2>5, Zenon DEF CohInv, FrontOK
      <3> QED BY <2>2, <2>10, <3>1, Zenon DEF EntryOK
    <2>13. /\ toDram' \in Seq(DramMessages) /\ ReadOnce(toDram') /\ ~ Sent(toDram', "DRAM_READ_REQ")
           /\ nuca' \in {Absent} \cup [d : Data, mod : BOOLEAN]
      <3>1. CASE sendDataToNUCA(Head(toDir).d)
        BY <2>4, <2>5, <3>1, <1>SendsToNUCA, Zenon
      <3>2. CASE nuca' = nuca /\ toDram' = toDram
        BY <2>5, <3>2, Zenon DEF CohInv, Types, Queues, DirectoryTypeOK
      <3> QED BY <2>2, <3>1, <3>2, Zenon
    <2>14. /\ \A b, u : u # "DRAM_READ_REP" => (Says(toDir', b, u) <=> Says(toDir, b, u))
           /\ Head(reqs).t \in Requests
      BY <2>3, <2>6, Zenon DEF Requests
    <2> QED BY <2>1, <2>2, <2>3, <2>4, <2>5, <2>8, <2>9, <2>10, <2>11, <2>12, <2>13, <2>14, AnswersFront, Zenon
  <1> QED BY <1>ReceiveReqKeeps, <1>ReceiveInvRepKeeps, <1>ReceiveFlushRepKeeps, <1>ReceiveWbRepKeeps,
             <1>ReceiveDramReplyKeeps, Zenon

\* Every cache b with a demand ask[b] is sent it.
Asks(ask) ==
  toLLC' = [b \in LLC |-> IF ask[b] \in Demands
                          THEN Append(toLLC[b], [t |-> ask[b], d |-> NoData]) ELSE toLLC[b]]

\* The entry has room for one more sharer.
RoomForOne ==
  \A c \in LLC : c \notin dir.sharers => Cardinality(dir.sharers) < config.hw

\* The directory keeps the invariant when it serves the request at the front of
\* the queue and when it replaces the entry of the line.
LEMMA ServesKeep ==
  /\ RoomForOne /\ CohInv
  /\ processExReq \/ processShReq \/ processUpgradeReq \/ processNullifyReq \/ ReplaceEntry
  /\ UNCHANGED llcVars
  => CohInv'
  \* The cache of a request that is being processed anew.
  <1>FrontRequest.
    ASSUME CohInv, job # Idle
    PROVE  /\ reqs # << >> /\ ~ Head(reqs).wait /\ ~ Asked
           /\ reqs \in Seq(RequestRecords) /\ ReqsOrder(reqs) /\ Head(reqs) \in RequestRecords
           /\ NextReqKnown /\ dir \in Entries
           /\ ~ Says(toDir, NoCore, "DRAM_READ_REP") /\ ~ Sent(toDram, "DRAM_READ_REQ")
           /\ IF Head(reqs).t = "NULLIFY_REQ" THEN Head(reqs).who = NoCore
              ELSE /\ Head(reqs).t \in Requests /\ Head(reqs).who \in LLC
                   /\ ~ Left(Head(reqs).who)
                   /\ \A u \in Replies : ~ Sent(toLLC[Head(reqs).who], u)
                   /\ Head(reqs).t # "UPGRADE_REQ" => ~ Tenured(Head(reqs).who)
    <2> USE <1>FrontRequest
    <2>1. /\ reqs # << >> /\ ~ Head(reqs).wait /\ ~ Asked
          /\ reqs \in Seq(RequestRecords) /\ ReqsOrder(reqs) /\ dir \in Entries
      BY Zenon DEF CohInv, FrontOK, Types, Queues, DirectoryTypeOK, Entries, Asked
    <2>2. /\ Head(reqs) \in RequestRecords
          /\ IF Head(reqs).t = "NULLIFY_REQ" THEN Head(reqs).who = NoCore ELSE Head(reqs).who \in LLC
          /\ Wants(reqs, Head(reqs).who, Head(reqs).t)
          /\ NextReqKnown
      BY <2>1, TailOfReqs, Zenon DEF NextReqKnown
    <2>3. ~ Says(toDir, NoCore, "DRAM_READ_REP") /\ ~ Sent(toDram, "DRAM_READ_REQ")
      BY <2>1, Zenon DEF CohInv, ReadsOK
    <2>4. ASSUME Head(reqs).t # "NULLIFY_REQ"
          PROVE  /\ Head(reqs).t \in Requests
                 /\ ~ Left(Head(reqs).who)
                 /\ \A u \in Replies : ~ Sent(toLLC[Head(reqs).who], u)
                 /\ Head(reqs).t # "UPGRADE_REQ" => ~ Tenured(Head(reqs).who)
      <3>1. Head(reqs).t \in Requests
        BY <2>2, <2>4, Zenon DEF RequestRecords
      <3>2. /\ \A u \in Replies : ~ Sent(toLLC[Head(reqs).who], u)
            /\ Head(reqs).t # "UPGRADE_REQ" => cstate[Head(reqs).who] = "I"
        BY <2>2, <2>4, <3>1, Zenon DEF CohInv, RequestsOK
      <3>3. ~ Left(Head(reqs).who)
        BY <2>1, <2>2, <2>4, <3>1, NothingAsked, Zenon
      <3> QED BY <3>1, <3>2, <3>3, Zenon DEF Tenured, Coming, DataReplies, Replies
    <2> QED BY <2>1, <2>2, <2>3, <2>4, Zenon
  \* A demand is sent to a cache that has none to answer yet.
  <1>AppendDemand.
    ASSUME NEW q \in Seq(LLCMessages), NEW t \in Demands, LLCOrder(q)
    PROVE  LET p == Append(q, [t |-> t, d |-> NoData])
           IN  /\ p \in Seq(LLCMessages) /\ LLCOrder(p)
               /\ \A u \in Replies : Sent(p, u) <=> Sent(q, u)
               /\ \A u \in Demands : Due(p, u) <=> Due(q, u) \/ u = t
               /\ (\A u \in Demands : ~ Due(q, u)) => DueOnce(p)
    <2> USE <1>AppendDemand
    <2> DEFINE m == [t |-> t, d |-> NoData]
               p == Append(q, m)
    <2>1. m \in LLCMessages /\ m.t = t
      BY Zenon DEF LLCMessages
    <2>2. /\ p \in Seq(LLCMessages) /\ Len(q) \in Nat /\ Len(p) = Len(q) + 1
          /\ \A i \in 1..Len(q) : p[i] = q[i]
          /\ p[Len(q) + 1] = m
      BY <2>1, AppendSeq
    <2>3. t \notin Replies /\ t \notin DataReplies
      BY Zenon DEF Demands, Replies, DataReplies
    <2> HIDE DEF p, m
    <2>4. LLCOrder(p)
      BY <2>1, <2>2, <2>3 DEF LLCOrder, Replies
    <2>5. \A u \in Replies : Sent(p, u) <=> Sent(q, u)
      BY <2>1, <2>2, <2>3 DEF Sent
    <2>6. \A i \in 1..Len(q) : DueAt(p, i) <=> DueAt(q, i)
      BY <2>1, <2>2, <2>3 DEF DueAt
    <2>7. DueAt(p, Len(q) + 1)
      BY <2>1, <2>2 DEF DueAt
    <2>8. \A u \in Demands : Due(p, u) <=> Due(q, u) \/ u = t
      BY <2>1, <2>2, <2>6, <2>7 DEF Due
    <2>9. ASSUME \A u \in Demands : ~ Due(q, u) PROVE DueOnce(p)
      <3>1. \A i \in 1..Len(q) : ~ DueAt(q, i)
        BY <2>9, Zenon DEF Due, DueAt
      <3>2. \A i \in 1..Len(p) : DueAt(p, i) => i = Len(q) + 1
        BY <2>2, <2>6, <3>1
      <3> QED BY <3>2, Zenon DEF DueOnce
    <2> QED BY <2>2, <2>4, <2>5, <2>8, <2>9, Zenon DEF p, m
  <1>SendsDemands.
    ASSUME CohInv, ~ Asked, NEW ask, Asks(ask)
    PROVE  /\ toLLC' \in [LLC -> Seq(LLCMessages)] /\ \A b \in LLC : LLCOrder(toLLC'[b])
           /\ \A b \in LLC, u \in Replies : Sent(toLLC'[b], u) <=> Sent(toLLC[b], u)
           /\ \A b \in LLC : Tenured(b) =>
                /\ DueOnce(toLLC'[b])
                /\ \A u \in Demands : Due(toLLC'[b], u) => u = ask[b]
    <2> USE <1>SendsDemands
    <2>1. toLLC \in [LLC -> Seq(LLCMessages)] /\ \A b \in LLC : LLCOrder(toLLC[b])
      BY Zenon DEF CohInv, Types, Queues
    <2>2. \A b \in LLC : Tenured(b) => DueOnce(toLLC[b]) /\ \A u \in Demands : ~ Due(toLLC[b], u)
      BY NothingAsked, Zenon DEF CohInv, DemandsOK
    <2>3. ASSUME NEW b \in LLC
          PROVE  /\ toLLC'[b] \in Seq(LLCMessages) /\ LLCOrder(toLLC'[b])
                 /\ \A u \in Replies : Sent(toLLC'[b], u) <=> Sent(toLLC[b], u)
                 /\ Tenured(b) =>
                      /\ DueOnce(toLLC'[b])
                      /\ \A u \in Demands : Due(toLLC'[b], u) => u = ask[b]
      <3>1. CASE ask[b] \notin Demands
        <4>1. toLLC'[b] = toLLC[b]
          BY <2>3, <3>1, Zenon DEF Asks
        <4> QED BY <2>1, <2>2, <2>3, <4>1, Zenon
      <3>2. CASE ask[b] \in Demands
        <4> DEFINE p == Append(toLLC[b], [t |-> ask[b], d |-> NoData])
        <4>1. toLLC'[b] = p
          BY <2>3, <3>2, Zenon DEF Asks
        <4>2. /\ p \in Seq(LLCMessages) /\ LLCOrder(p)
              /\ \A u \in Replies : Sent(p, u) <=> Sent(toLLC[b], u)
              /\ \A u \in Demands : Due(p, u) <=> Due(toLLC[b], u) \/ u = ask[b]
              /\ (\A u \in Demands : ~ Due(toLLC[b], u)) => DueOnce(p)
          BY <2>1, <2>3, <3>2, <1>AppendDemand, Zenon
        <4> HIDE DEF p
        <4> QED BY <2>2, <2>3, <4>1, <4>2, Zenon
      <3> QED BY <3>1, <3>2, Zenon
    <2>4. toLLC' \in [LLC -> Seq(LLCMessages)]
      BY <2>3, Zenon DEF Asks
    <2> QED BY <2>3, <2>4, Zenon
  \* The front request is promised its copy: the DRAM is read, or the forwarder
  \* is asked to write back.
  <1>PromisesFront.
    ASSUME CohInv, UNCHANGED llcVars, job # Idle, Head(reqs).t \in Requests,
           NEW c, c = Head(reqs).who, NEW rep \in DataReplies,
           ~ Tenured(c), Enters(dir', rep),
           config.protocol = "MESIF" /\ dir'.st = "SHARED" => dir'.fwd # Unset,
           NEW r \in RequestRecords, r.t = Head(reqs).t, r.who = c, reqs' = [reqs EXCEPT ![1] = r],
           Head(reqs).fwd # NoCore => rep = "SH_REP",
           \/ /\ r.wait /\ r.fwd = Head(reqs).fwd
              /\ toLLC' = toLLC /\ toDram' = DramQueueWith("DRAM_READ_REQ", NoData)
           \/ /\ ~ r.wait /\ rep = "SH_REP" /\ r.fwd \in LLC \ {c}
              /\ toLLC' = LLCQueuesWith({r.fwd}, "WB_REQ", NoData) /\ toDram' = toDram,
           job' = Idle, toDir' = toDir, nuca' = nuca, config' = config, dram' = dram, ~ failed'
    PROVE  CohInv'
    <2> USE <1>PromisesFront
    <2>1. cstate' = cstate /\ data' = data /\ waiters' = waiters /\ pc' = pc /\ CachesTypeOK'
      BY CachesFrame, Zenon DEF CohInv, Types
    <2>2. /\ reqs # << >> /\ ~ Head(reqs).wait /\ ~ Asked /\ c \in LLC /\ ~ Left(c)
          /\ ~ Says(toDir, NoCore, "DRAM_READ_REP") /\ ~ Sent(toDram, "DRAM_READ_REQ")
          /\ reqs \in Seq(RequestRecords) /\ ReqsOrder(reqs)
      BY <1>FrontRequest, Zenon DEF Requests
    <2>3. /\ reqs' \in Seq(RequestRecords) /\ reqs' # << >> /\ ReqsOrder(reqs') /\ Head(reqs') = r
          /\ \A b, u : Wants(reqs', b, u) <=> Wants(reqs, b, u)
      BY <2>2, MarksFront, ZenonT(40)
    <2>4. /\ toLLC' \in [LLC -> Seq(LLCMessages)] /\ \A b \in LLC : LLCOrder(toLLC'[b])
          /\ \A b \in LLC, u \in Replies : Sent(toLLC'[b], u) <=> Sent(toLLC[b], u)
          /\ \A b \in LLC : Tenured(b) =>
               /\ DueOnce(toLLC'[b])
               /\ \A u \in Demands : Due(toLLC'[b], u) => u = "WB_REQ" /\ b = r.fwd /\ ~ r.wait
      <3>1. CASE r.wait
        <4>1. /\ toLLC' = toLLC /\ toLLC \in [LLC -> Seq(LLCMessages)]
              /\ \A b \in LLC : LLCOrder(toLLC[b])
          BY <3>1, Zenon DEF CohInv, Types, Queues
        <4>2. \A b \in LLC : Tenured(b) => DueOnce(toLLC[b]) /\ \A u \in Demands : ~ Due(toLLC[b], u)
          BY <2>2, NothingAsked, Zenon DEF CohInv, DemandsOK
        <4> QED BY <4>1, <4>2, Zenon
      <3>2. CASE ~ r.wait
        <4> DEFINE ask == [b \in LLC |-> IF b \in {r.fwd} THEN "WB_REQ" ELSE "none"]
        <4>1. \A b \in LLC : /\ ask[b] \in Demands <=> b \in {r.fwd}
                             /\ ask[b] \in Demands => ask[b] = "WB_REQ"
          BY Zenon DEF Demands
        <4> HIDE DEF ask
        <4>2. Asks(ask)
          BY <3>2, <4>1, Zenon DEF Asks, LLCQueuesWith
        <4>3. /\ toLLC' \in [LLC -> Seq(LLCMessages)] /\ \A b \in LLC : LLCOrder(toLLC'[b])
              /\ \A b \in LLC, u \in Replies : Sent(toLLC'[b], u) <=> Sent(toLLC[b], u)
              /\ \A b \in LLC : Tenured(b) =>
                   /\ DueOnce(toLLC'[b])
                   /\ \A u \in Demands : Due(toLLC'[b], u) => u = ask[b]
          BY <2>2, <4>2, <1>SendsDemands, Zenon
        <4> QED BY <3>2, <4>1, <4>3, Zenon
      <3> QED BY <3>1, <3>2, Zenon
    <2>5. /\ toDram' \in Seq(DramMessages) /\ ReadOnce(toDram')
          /\ Sent(toDram', "DRAM_READ_REQ") => r.wait
      <3> DEFINE m == [t |-> "DRAM_READ_REQ", d |-> NoData]
      <3>1. m \in DramMessages /\ toDram \in Seq(DramMessages) /\ ReadOnce(toDram)
        BY Zenon DEF DramMessages, CohInv, Types, Queues
      <3>2. (r.wait /\ toDram' = Append(toDram, m)) \/ toDram' = toDram
        BY Zenon DEF DramQueueWith
      <3> HIDE DEF m
      <3>3. Append(toDram, m) \in Seq(DramMessages) /\ ReadOnce(Append(toDram, m))
        BY <2>2, <3>1, AppendToDram, Zenon
      <3> QED BY <2>2, <3>1, <3>2, <3>3, Zenon
    <2>6. \A b \in LLC :
             /\ ~ Says(toDir, b, "WB_REP")
             /\ Says(toDir, b, "FLUSH_REP") => Owned
             /\ Left(b) => \A t \in Requests : ~ Wants(reqs, b, t)
             /\ Left(b) => ~ Says(toDir, b, "UPGRADE_REQ")
      BY <2>2, NothingAsked, Zenon
    <2>7. /\ \A b \in LLC : Tenured(b) \/ Left(b) => b \in dir.sharers
          /\ \A b \in LLC : b # c => ~ Promised(b)
      BY Zenon DEF CohInv, SharersOK, Promised
    <2>8. /\ dir' \in Entries
          /\ dir'.sharers = dir.sharers \cup {c}
          /\ dir'.fwd \in LLC => dir'.fwd \in dir'.sharers
          /\ rep = "SH_REP" => r.t = "SH_REQ" /\ dir'.st = "SHARED" /\ ~ Owned /\ ~ Owned'
          /\ rep = "EX_REP" => /\ dir'.st = IF r.t = "SH_REQ" THEN "EXCLUSIVE" ELSE "MODIFIED"
                               /\ dir'.owner = c /\ dir.sharers \subseteq {c} /\ Owned'
          /\ rep = "SH_REP" \/ rep = "EX_REP"
      BY Zenon DEF Enters, Owned, DataReplies
    <2>9. rep = "EX_REP" => \A b \in LLC : ~ Tenured(b) /\ ~ Left(b)
      BY <2>2, <2>7, <2>8, Zenon
    <2>10. r.wait \/ r.fwd # NoCore
      BY NetworkAssumption, Zenon
    <2>11. \A b \in LLC : /\ Tenured(b)' = Tenured(b) /\ Left(b)' = Left(b)
                          /\ Promised(b)' <=> b = c
      BY <2>1, <2>3, <2>4, <2>10, Zenon DEF Tenured, Coming, Left, Promised, DataReplies, Replies
    <2>12. Types'
      <3>1. DirectoryTypeOK'
        BY <2>3, <2>8, Zenon DEF CohInv, Types, DirectoryTypeOK, Entries, RequestRecords
      <3> QED BY <2>1, <2>3, <2>4, <2>5, <3>1, Zenon DEF CohInv, Types
    <2>13. Queues' /\ ThreadsOK' /\ NoAssertionFails'
      BY <2>1, <2>3, <2>4, <2>5, Zenon DEF CohInv, Queues, ThreadsOK, NoAssertionFails
    <2>14. RequestsOK'
      BY <2>1, <2>3, <2>4, Zenon DEF CohInv, RequestsOK
    <2>15. RepliesOK'
      <3> SUFFICES ASSUME NEW b \in LLC, NEW t \in Replies, Sent(toLLC[b], t)
                   PROVE  /\ waiters[b] # << >> /\ pc[b] = "idle" /\ cstate[b] = "I"
                          /\ t = "SH_REP" /\ ~ Head(waiters[b]) /\ dir'.st = "SHARED"
        BY <2>1, <2>4, Zenon DEF RepliesOK
      <3>1. /\ waiters[b] # << >> /\ pc[b] = "idle"
            /\ cstate[b] = IF t = "UPGRADE_REP" THEN "SU" ELSE "I"
            /\ t = "SH_REP" => ~ Head(waiters[b])
            /\ t # "SH_REP" => Owned
        BY Zenon DEF CohInv, RepliesOK, Replies, Owned
      <3>2. Tenured(b)
        BY <3>1, Zenon DEF Tenured, Coming, Replies, DataReplies
      <3> QED BY <2>8, <2>9, <3>1, <3>2, Zenon
    <2>16. SharersOK'
      BY <2>2, <2>7, <2>8, <2>11, Zenon DEF CohInv, SharersOK
    <2>17. EntryOK'
      <3>1. dir'.sharers # {} /\ dir'.st # "UNCACHED"
        BY <2>8, Zenon
      <3>2. Owned' => dir'.owner \in LLC /\ dir'.sharers = {dir'.owner}
        BY <2>2, <2>8, Zenon
      <3> QED BY <2>8, <3>1, <3>2, Zenon DEF EntryOK
    <2>18. HoldersOK'
      <3>1. \A b \in LLC : cstate[b] # "I" => rep = "SH_REP"
        BY <2>8, <2>9, Zenon DEF Tenured
      <3> QED BY <2>1, <2>8, <3>1, Zenon DEF CohInv, HoldersOK, Owned
    <2>19. AnswersOK'
      <3>1. \A b \in LLC : Left(b) => rep = "SH_REP"
        BY <2>8, <2>9, Zenon
      <3>2. \A b \in LLC : ~ Says(toDir, b, "FLUSH_REP")
        BY <2>6, <2>8, <3>1, Zenon DEF Left, Answers
      <3>3. \A b \in LLC : Says(toDir', b, "INV_REP") => dir'.st = "SHARED"
        BY <2>8, <3>1, Zenon DEF Left, Answers
      <3> QED BY <2>3, <2>6, <2>11, <3>2, <3>3, Zenon DEF AnswersOK
    <2>20. WriteBacksOK'
      BY <2>6, Zenon DEF WriteBacksOK
    <2>21. DemandsOK'
      <3> SUFFICES ASSUME NEW b \in LLC, Tenured(b), NEW t \in Demands, Due(toLLC'[b], t)
                   PROVE  /\ Asked' /\ Head(reqs').who # b /\ ~ Says(toDir', b, "WB_REP")
                          /\ t = "WB_REQ" /\ Head(reqs').t = "SH_REQ"
                          /\ dir'.st = "SHARED" /\ Head(reqs').fwd = b
        BY <2>4, <2>11, Zenon DEF DemandsOK
      <3>1. t = "WB_REQ" /\ b = r.fwd /\ ~ r.wait
        BY <2>4, Zenon
      <3> QED BY <2>3, <2>6, <2>8, <3>1, Zenon DEF Asked
    <2>22. FrontOK'
      <3>1. r.wait => \/ r.t = "SH_REQ" /\ dir'.st \in {"SHARED", "EXCLUSIVE"}
                      \/ r.t \in {"EX_REQ", "UPGRADE_REQ"} /\ dir'.st = "MODIFIED"
        BY <2>8, Zenon DEF Requests
      <3>2. r.fwd # NoCore => r.t = "SH_REQ" /\ dir'.st = "SHARED"
        BY <2>8, Zenon
      <3> QED BY <2>3, <3>1, <3>2, DirectoryAssumption, Zenon DEF FrontOK
    <2>23. ReadsOK'
      BY <2>2, <2>3, <2>5, Zenon DEF ReadsOK
    <2> QED BY <2>12, <2>13, <2>14, <2>15, <2>16, <2>17, <2>18, <2>19, <2>20, <2>21, <2>22, <2>23, Zenon
            DEF CohInv
  \* The reply of the front request r, with entry e: from the buffer of the
  \* handler, from the NUCA slice, from the forwarder or from the DRAM.
  <1>RetrieveKeeps.
    ASSUME CohInv, UNCHANGED llcVars, job # Idle, Head(reqs).t \in Requests,
           NEW rep \in DataReplies, NEW e, NEW d \in Data \cup {NoData},
           retrieveDataAndSendToL2Cache(rep, e, Head(reqs), d),
           ~ Tenured(Head(reqs).who), Enters(e, rep), e.fwd = dir.fwd,
           config.protocol = "MESIF" /\ e.st = "SHARED" /\ d = NoData => e.fwd # Unset,
           Head(reqs).fwd # NoCore => rep = "SH_REP",
           UNCHANGED <<toDir, config, dram>>
    PROVE  CohInv'
    <2> USE <1>RetrieveKeeps
    <2>1. PICK c : c = Head(reqs).who
      BY Zenon
    <2>2. /\ reqs # << >> /\ ~ Head(reqs).wait /\ ~ Asked /\ c \in LLC /\ ~ Left(c)
          /\ ~ Says(toDir, NoCore, "DRAM_READ_REP") /\ ~ Sent(toDram, "DRAM_READ_REQ")
          /\ reqs \in Seq(RequestRecords) /\ NextReqKnown /\ Head(reqs) \in RequestRecords
      BY <2>1, <1>FrontRequest, Zenon DEF Requests
    <2>3. /\ toDir' = toDir /\ config' = config /\ dram' = dram
          /\ toDir \in Seq(DirMessages) /\ DirOrder(toDir)
          /\ toDram \in Seq(DramMessages) /\ ReadOnce(toDram)
          /\ nuca \in {Absent} \cup [d : Data, mod : BOOLEAN]
      BY Zenon DEF CohInv, Types, Queues, DirectoryTypeOK
    <2>4. reqs[1] = Head(reqs) /\ NoCore \notin LLC /\ Unset \notin LLC
      BY <2>2, NetworkAssumption, DirectoryAssumption
    <2>5. ASSUME NEW f, NEW x \in Data, Answer(Head(reqs), rep, f, x), Enters(f, rep),
                 config.protocol = "MESIF" /\ f.st = "SHARED" => f.fwd # Unset
          PROVE  CohInv'
      <3>1. /\ toLLC' = LLCQueuesWith({c}, rep, x) /\ dir' = f /\ ~ failed'
            /\ processNextReq /\ toDram' = toDram /\ nuca' = nuca
        BY <2>1, <2>2, <2>5, Zenon DEF Answer, Asserts
      <3> QED BY <2>1, <2>2, <2>3, <2>5, <3>1, AnswersFront, Zenon
    <2>6. CASE d # NoData
      <3> DEFINE f == [e EXCEPT !.fwd = c]
      <3>1. Answer(Head(reqs), rep, f, d)
        BY <2>1, <2>6, Zenon DEF retrieveDataAndSendToL2Cache
      <3>2. Enters(f, rep) /\ f.fwd # Unset
        BY <2>1, <2>2, <2>4, Zenon DEF Enters, Entries
      <3> HIDE DEF f
      <3> QED BY <2>5, <2>6, <3>1, <3>2, Zenon
    <2>7. CASE d = NoData /\ nuca # Absent
      <3>1. Answer(Head(reqs), rep, e, nuca.d)
        BY <2>7, Zenon DEF retrieveDataAndSendToL2Cache
      <3>2. nuca.d \in Data
        BY <2>3, <2>7, Zenon
      <3> QED BY <2>5, <2>7, <3>1, <3>2, Zenon
    <2>8. CASE d = NoData /\ nuca = Absent /\ Forwards(e, Head(reqs))
      <3>1. /\ failed' = ~ (e.fwd # Unset)
            /\ toLLC' = LLCQueuesWith({e.fwd}, "WB_REQ", NoData)
            /\ reqs' = [reqs EXCEPT ![1].fwd = e.fwd]
            /\ dir' = e /\ job' = Idle /\ toDram' = toDram /\ nuca' = nuca
        BY <2>8, Zenon DEF retrieveDataAndSendToL2Cache, Asserts
      <3>2. /\ config.protocol = "MESIF" /\ Head(reqs).fwd = NoCore /\ e.st = "SHARED"
            /\ e.fwd # NoCore /\ e.fwd # Unset
        BY <2>8, Zenon DEF Forwards
      <3>3. rep = "SH_REP" /\ e.fwd \in LLC
        BY <3>2, Zenon DEF Enters, Entries, DataReplies
      <3>4. c \notin dir.sharers
        BY <2>1, <2>2, <3>2, Zenon DEF CohInv, SharersOK, Promised
      <3>5. e.fwd # c
        BY <3>3, <3>4, Zenon DEF CohInv, EntryOK
      <3> DEFINE r == [reqs[1] EXCEPT !.fwd = e.fwd]
      <3>6. /\ r \in RequestRecords /\ r.t = Head(reqs).t /\ r.who = c
            /\ ~ r.wait /\ r.fwd = e.fwd
        BY <2>1, <2>2, <2>4, <3>3, Zenon DEF RequestRecords
      <3>7. reqs' = [reqs EXCEPT ![1] = r]
        BY <3>1, Zenon
      <3> HIDE DEF r
      <3> QED BY <2>1, <2>3, <3>1, <3>2, <3>3, <3>5, <3>6, <3>7, <1>PromisesFront, Zenon
    <2>9. CASE d = NoData /\ nuca = Absent /\ ~ Forwards(e, Head(reqs))
      <3>1. /\ toDram' = DramQueueWith("DRAM_READ_REQ", NoData)
            /\ reqs' = [reqs EXCEPT ![1].wait = TRUE]
            /\ dir' = e /\ job' = Idle /\ toLLC' = toLLC /\ failed' = failed /\ nuca' = nuca
        BY <2>9, Zenon DEF retrieveDataAndSendToL2Cache
      <3> DEFINE r == [reqs[1] EXCEPT !.wait = TRUE]
      <3>2. /\ r \in RequestRecords /\ r.t = Head(reqs).t /\ r.who = c
            /\ r.wait /\ r.fwd = Head(reqs).fwd
        BY <2>1, <2>2, <2>4, Zenon DEF RequestRecords
      <3>3. reqs' = [reqs EXCEPT ![1] = r]
        BY <3>1, Zenon
      <3>4. ~ failed'
        BY <3>1, Zenon DEF CohInv, NoAssertionFails
      <3> HIDE DEF r
      <3> QED BY <2>1, <2>3, <2>9, <3>1, <3>2, <3>3, <3>4, <1>PromisesFront, Zenon
    <2> QED BY <2>6, <2>7, <2>8, <2>9, Zenon
  \* Caches are asked, and the front request waits for their answers.
  <1>AsksKeeps.
    ASSUME CohInv, UNCHANGED llcVars, job # Idle, NEW ask, Asks(ask), job' = Idle,
           UNCHANGED <<toDir, toDram, config, dir, reqs, nuca, dram>>, ~ failed',
           dir.st = "SHARED" => job = NoData,
           \A b \in LLC : Tenured(b) /\ ask[b] \in Demands =>
             /\ Head(reqs).who # b
             /\ ask[b] = "INV_REQ" => Head(reqs).t \in Takers /\ dir.st = "SHARED"
             /\ ask[b] = "FLUSH_REQ" =>
                  /\ Head(reqs).t \in Takers
                  /\ Owned \/ (Head(reqs).t = "UPGRADE_REQ" /\ Head(reqs).who \notin dir.sharers)
             /\ ask[b] = "WB_REQ" => Head(reqs).t = "SH_REQ" /\ Owned /\ Head(reqs).fwd = NoCore
    PROVE  CohInv'
    <2> USE <1>AsksKeeps
    <2>1. cstate' = cstate /\ data' = data /\ waiters' = waiters /\ pc' = pc /\ CachesTypeOK'
      BY CachesFrame, Zenon DEF CohInv, Types
    <2>2. reqs # << >> /\ ~ Head(reqs).wait /\ ~ Asked
      BY <1>FrontRequest, Zenon
    <2>3. /\ toDir' = toDir /\ toDram' = toDram /\ config' = config /\ dir' = dir /\ reqs' = reqs
          /\ nuca' = nuca /\ dram' = dram /\ Owned' = Owned /\ Asked'
      BY <2>2, Zenon DEF Owned, Asked
    <2>4. /\ toLLC' \in [LLC -> Seq(LLCMessages)] /\ \A b \in LLC : LLCOrder(toLLC'[b])
          /\ \A b \in LLC, u \in Replies : Sent(toLLC'[b], u) <=> Sent(toLLC[b], u)
          /\ \A b \in LLC : Tenured(b) =>
               /\ DueOnce(toLLC'[b])
               /\ \A u \in Demands : Due(toLLC'[b], u) => u = ask[b]
      BY <2>2, <1>SendsDemands, Zenon
    <2>5. \A b \in LLC :
             /\ ~ Says(toDir, b, "WB_REP")
             /\ Says(toDir, b, "FLUSH_REP") => Owned
             /\ Left(b) => \A t \in Requests : ~ Wants(reqs, b, t)
             /\ Left(b) => ~ Says(toDir, b, "UPGRADE_REQ")
      BY <2>2, NothingAsked, Zenon
    <2>6. \A b \in LLC : /\ Tenured(b)' = Tenured(b) /\ Left(b)' = Left(b)
                         /\ Promised(b)' = Promised(b)
      BY <2>1, <2>3, <2>4, Zenon DEF Tenured, Coming, Left, Promised, DataReplies, Replies
    <2>7. Types'
      <3>1. DirectoryTypeOK'
        BY <2>3, Zenon DEF CohInv, Types, DirectoryTypeOK
      <3> QED BY <2>1, <2>3, <2>4, <3>1, Zenon DEF CohInv, Types
    <2>8. Queues' /\ ThreadsOK' /\ NoAssertionFails'
      BY <2>1, <2>3, <2>4, Zenon DEF CohInv, Queues, ThreadsOK, NoAssertionFails
    <2>9. RequestsOK'
      BY <2>1, <2>3, <2>4, Zenon DEF CohInv, RequestsOK
    <2>10. RepliesOK'
      BY <2>1, <2>3, <2>4, Zenon DEF CohInv, RepliesOK
    <2>11. SharersOK'
      BY <2>3, <2>6, Zenon DEF CohInv, SharersOK
    <2>12. EntryOK'
      BY <2>3, Zenon DEF CohInv, EntryOK
    <2>13. HoldersOK'
      BY <2>1, <2>3, <2>4, Zenon DEF CohInv, HoldersOK, Replies
    <2>14. AnswersOK'
      BY <2>3, <2>5, <2>6, Zenon DEF CohInv, AnswersOK
    <2>15. WriteBacksOK'
      BY <2>3, <2>5, Zenon DEF WriteBacksOK
    <2>16. DemandsOK'
      <3> SUFFICES ASSUME NEW b \in LLC, Tenured(b), NEW t \in Demands, Due(toLLC'[b], t)
                   PROVE  /\ Head(reqs).who # b /\ ~ Says(toDir, b, "WB_REP")
                          /\ CASE t = "INV_REQ" -> Head(reqs).t \in Takers /\ dir.st = "SHARED"
                               [] t = "FLUSH_REQ" ->
                                    /\ Head(reqs).t \in Takers
                                    /\ Owned \/ (Head(reqs).t = "UPGRADE_REQ" /\ Head(reqs).who \notin dir.sharers)
                               [] t = "WB_REQ" ->
                                    /\ Head(reqs).t = "SH_REQ"
                                    /\ \/ Owned /\ Head(reqs).fwd = NoCore
                                       \/ dir.st = "SHARED" /\ Head(reqs).fwd = b
        BY <2>3, <2>4, <2>6, Zenon DEF DemandsOK
      <3>1. t = ask[b]
        BY <2>4, Zenon
      <3> QED BY <2>5, <3>1, Zenon DEF Demands
    <2>17. FrontOK'
      BY <2>2, <2>3, DirectoryAssumption, Zenon DEF CohInv, FrontOK
    <2>18. ReadsOK'
      BY <2>3, Zenon DEF CohInv, ReadsOK
    <2> QED BY <2>7, <2>8, <2>9, <2>10, <2>11, <2>12, <2>13, <2>14, <2>15, <2>16, <2>17, <2>18, Zenon
            DEF CohInv
  <1>AskAndWaitKeeps.
    ASSUME CohInv, UNCHANGED llcVars, job # Idle, NEW cs, NEW t \in Demands, AskAndWait(cs, t),
           UNCHANGED <<toDir, config, dram>>, ~ failed',
           dir.st = "SHARED" => job = NoData,
           \A b \in LLC : Tenured(b) /\ b \in cs => Head(reqs).who # b,
           t = "INV_REQ" => Head(reqs).t \in Takers /\ dir.st = "SHARED",
           t = "FLUSH_REQ" => Head(reqs).t \in Takers /\ Owned,
           t = "WB_REQ" => Head(reqs).t = "SH_REQ" /\ Owned /\ Head(reqs).fwd = NoCore
    PROVE  CohInv'
    <2> USE <1>AskAndWaitKeeps
    <2> DEFINE ask == [b \in LLC |-> IF b \in cs THEN t ELSE "none"]
    <2>1. \A b \in LLC : (ask[b] \in Demands <=> b \in cs) /\ (ask[b] \in Demands => ask[b] = t)
      BY Zenon DEF Demands
    <2> HIDE DEF ask
    <2>2. toLLC' = LLCQueuesWith(cs, t, NoData) /\ job' = Idle
          /\ UNCHANGED <<toDir, toDram, config, dir, reqs, nuca, dram>>
      BY Zenon DEF AskAndWait
    <2>3. Asks(ask)
      BY <2>1, <2>2, Zenon DEF Asks, LLCQueuesWith
    <2> QED BY <2>1, <2>2, <2>3, <1>AsksKeeps, Zenon
  <1>processExReqKeeps.
    ASSUME CohInv, processExReq, UNCHANGED llcVars
    PROVE  CohInv'
    <2> USE <1>processExReqKeeps
    <2>1. job # Idle /\ Head(reqs).t = "EX_REQ" /\ UNCHANGED <<toDir, config, dram>>
      BY Zenon DEF processExReq, Processes
    <2>2. /\ reqs # << >> /\ dir \in Entries /\ Head(reqs).who \in LLC
          /\ ~ Tenured(Head(reqs).who) /\ Head(reqs).t \in Requests /\ Head(reqs).t \in Takers
      BY <2>1, <1>FrontRequest, Zenon DEF Requests, Takers
    <2>3. /\ job \in {NoData} \cup Data /\ Idle \notin Data /\ NoData \notin Data
          /\ dir.st \in {"UNCACHED", "SHARED", "EXCLUSIVE", "MODIFIED"}
      BY <2>1, <2>2, NetworkAssumption, DirectoryAssumption, Zenon DEF CohInv, Types, DirectoryTypeOK, Entries, Data
    <2>4. dir.st # "UNCACHED" => job = NoData
      BY <2>1, <2>3, Zenon DEF CohInv, FrontOK
    <2>5. Owned => dir.owner \in LLC
      BY Zenon DEF CohInv, EntryOK
    <2>6. CASE Owned
      <3>1. Asserts(job = NoData /\ dir.owner \in LLC) /\ AskAndWait({dir.owner}, "FLUSH_REQ")
        BY <2>6, Zenon DEF processExReq, Owned
      <3>2. ~ failed' /\ dir.st # "SHARED" /\ "FLUSH_REQ" \in Demands
        BY <2>4, <2>5, <2>6, <3>1, Zenon DEF Asserts, Owned, Demands
      <3> QED BY <2>1, <2>2, <2>6, <3>1, <3>2, <1>AskAndWaitKeeps, Zenon
    <2>7. CASE dir.st = "SHARED"
      <3>1. Asserts(job = NoData) /\ AskAndWait(dir.sharers, "INV_REQ")
        BY <2>7, Zenon DEF processExReq
      <3>2. ~ failed' /\ "INV_REQ" \in Demands
        BY <2>4, <2>7, <3>1, Zenon DEF Asserts, Demands
      <3> QED BY <2>1, <2>2, <2>4, <2>7, <3>1, <3>2, <1>AskAndWaitKeeps, Zenon
    <2>8. CASE dir.st = "UNCACHED"
      <3> DEFINE e == OwnedBy(Head(reqs).who, "MODIFIED")
      <3>1. retrieveDataAndSendToL2Cache("EX_REP", e, Head(reqs), job)
        BY <2>8, Zenon DEF processExReq
      <3>2. dir.sharers = {} /\ dir.fwd \notin LLC
        BY <2>8, Zenon DEF CohInv, EntryOK
      <3>3. /\ e \in Entries /\ e.st = "MODIFIED" /\ e.sharers = dir.sharers \cup {Head(reqs).who}
            /\ e.owner = Head(reqs).who /\ e.fwd = dir.fwd
        BY <2>2, Zenon DEF OwnedBy, Entries
      <3> HIDE DEF e
      <3>4. Enters(e, "EX_REP")
        BY <2>1, <3>2, <3>3, Zenon DEF Enters
      <3>5. Head(reqs).fwd = NoCore
        BY <2>2, <2>8, Zenon DEF CohInv, FrontOK
      <3>6. job \in Data \cup {NoData} /\ "EX_REP" \in DataReplies
        BY <2>3, Zenon DEF DataReplies
      <3> QED BY <2>1, <2>2, <3>1, <3>3, <3>4, <3>5, <3>6, <1>RetrieveKeeps, Zenon
    <2> QED BY <2>3, <2>6, <2>7, <2>8, Zenon DEF Owned
  <1>processShReqKeeps.
    ASSUME RoomForOne, CohInv, processShReq, UNCHANGED llcVars
    PROVE  CohInv'
    <2> USE <1>processShReqKeeps
    <2>1. job # Idle /\ Head(reqs).t = "SH_REQ" /\ UNCHANGED <<toDir, config, dram>>
      BY Zenon DEF processShReq, Processes
    <2>2. /\ reqs # << >> /\ ~ Head(reqs).wait /\ dir \in Entries /\ Head(reqs).who \in LLC
          /\ ~ Tenured(Head(reqs).who) /\ ~ Left(Head(reqs).who) /\ Head(reqs).t \in Requests
      BY <2>1, <1>FrontRequest, Zenon DEF Requests
    <2>3. /\ job \in {NoData} \cup Data /\ Idle \notin Data /\ NoData \notin Data
          /\ dir.st \in {"UNCACHED", "SHARED", "EXCLUSIVE", "MODIFIED"}
      BY <2>1, <2>2, NetworkAssumption, DirectoryAssumption, Zenon DEF CohInv, Types, DirectoryTypeOK, Entries, Data
    <2>4. dir.st # "SHARED" => Head(reqs).fwd = NoCore /\ Head(reqs).who \notin dir.sharers
      BY <2>2, Zenon DEF CohInv, FrontOK, SharersOK, Promised
    <2>5. job \in Data \cup {NoData} /\ {"EX_REP", "SH_REP"} \subseteq DataReplies
      BY <2>3, Zenon DEF DataReplies
    <2>6. CASE Owned
      <3>1. /\ Asserts(/\ job = NoData /\ dir.owner \in LLC
                       /\ dir.st = "EXCLUSIVE" => Head(reqs).who # dir.owner)
            /\ AskAndWait({dir.owner}, "WB_REQ")
        BY <2>6, Zenon DEF processShReq, Owned
      <3>2. dir.st # "SHARED" /\ "WB_REQ" \in Demands
        BY <2>6, Zenon DEF Owned, Demands
      <3>3. job = NoData
        BY <2>3, <2>6, <3>2, Zenon DEF CohInv, FrontOK, Owned
      <3>4. dir.owner \in LLC /\ Head(reqs).who # dir.owner
        BY <2>4, <2>6, <3>2, Zenon DEF CohInv, EntryOK
      <3>5. ~ failed'
        BY <3>1, <3>3, <3>4, Zenon DEF Asserts
      <3> QED BY <2>1, <2>4, <2>6, <3>1, <3>2, <3>4, <3>5, <1>AskAndWaitKeeps, Zenon
    <2>7. CASE dir.st = "SHARED"
      <3> DEFINE e == [dir EXCEPT !.sharers = @ \cup {Head(reqs).who}]
      <3>1. Head(reqs).who \in dir.sharers \/ Cardinality(dir.sharers) < config.hw
        BY <2>2, Zenon DEF RoomForOne
      <3>2. retrieveDataAndSendToL2Cache("SH_REP", e, Head(reqs), job)
        BY <2>7, <3>1, Zenon DEF processShReq
      <3>3. /\ e \in Entries /\ e.st = "SHARED" /\ e.sharers = dir.sharers \cup {Head(reqs).who}
            /\ e.fwd = dir.fwd
        BY <2>2, <2>7, Zenon DEF Entries
      <3> HIDE DEF e
      <3>4. Enters(e, "SH_REP")
        BY <2>1, <2>7, <3>3, Zenon DEF Enters, Owned, CohInv, EntryOK
      <3>5. config.protocol = "MESIF" /\ job = NoData => e.fwd # Unset
        BY <2>7, <3>3, Zenon DEF CohInv, EntryOK
      <3> QED BY <2>1, <2>2, <2>5, <3>2, <3>3, <3>4, <3>5, <1>RetrieveKeeps, Zenon
    <2>8. CASE dir.st = "UNCACHED"
      <3>1. dir.sharers = {} /\ dir.fwd \notin LLC
        BY <2>8, Zenon DEF CohInv, EntryOK
      <3>2. CASE config.protocol = "MSI"
        <4> DEFINE e == OwnedBy(Head(reqs).who, "SHARED")
        <4>1. retrieveDataAndSendToL2Cache("SH_REP", e, Head(reqs), job)
          BY <2>8, <3>2, Zenon DEF processShReq
        <4>2. /\ e \in Entries /\ e.st = "SHARED" /\ e.sharers = dir.sharers \cup {Head(reqs).who}
              /\ e.owner = Head(reqs).who /\ e.fwd = dir.fwd
          BY <2>2, Zenon DEF OwnedBy, Entries
        <4> HIDE DEF e
        <4>3. Enters(e, "SH_REP")
          BY <2>1, <2>8, <3>1, <4>2, Zenon DEF Enters, Owned
        <4> QED BY <2>1, <2>2, <2>5, <3>2, <4>1, <4>2, <4>3, <1>RetrieveKeeps, Zenon
      <3>3. CASE config.protocol # "MSI"
        <4> DEFINE e == OwnedBy(Head(reqs).who, "EXCLUSIVE")
        <4>1. retrieveDataAndSendToL2Cache("EX_REP", e, Head(reqs), job)
          BY <2>8, <3>3, Zenon DEF processShReq
        <4>2. /\ e \in Entries /\ e.st = "EXCLUSIVE" /\ e.sharers = dir.sharers \cup {Head(reqs).who}
              /\ e.owner = Head(reqs).who /\ e.fwd = dir.fwd
          BY <2>2, Zenon DEF OwnedBy, Entries
        <4> HIDE DEF e
        <4>3. Enters(e, "EX_REP")
          BY <2>1, <3>1, <4>2, Zenon DEF Enters
        <4> QED BY <2>1, <2>2, <2>4, <2>5, <2>8, <4>1, <4>2, <4>3, <1>RetrieveKeeps, Zenon
      <3> QED BY <3>2, <3>3, Zenon
    <2> QED BY <2>3, <2>6, <2>7, <2>8, Zenon DEF Owned
  \* A cache is granted its upgrade.
  <1>AppendUpgradeReply.
    ASSUME NEW q \in Seq(LLCMessages), LLCOrder(q),
           \A u \in Replies : ~ Sent(q, u), \A u \in Demands : ~ Due(q, u)
    PROVE  LET p == Append(q, [t |-> "UPGRADE_REP", d |-> NoData])
           IN  /\ p \in Seq(LLCMessages) /\ LLCOrder(p)
               /\ \A u \in Replies : Sent(p, u) <=> u = "UPGRADE_REP"
               /\ \A u \in Demands : ~ Due(p, u)
               /\ DueOnce(p)
    <2> USE <1>AppendUpgradeReply
    <2> DEFINE m == [t |-> "UPGRADE_REP", d |-> NoData]
               p == Append(q, m)
    <2>1. m \in LLCMessages /\ m.t = "UPGRADE_REP" /\ m.t \in Replies /\ m.t \notin Demands
      BY Zenon DEF LLCMessages, Replies, Demands
    <2>2. /\ p \in Seq(LLCMessages) /\ Len(q) \in Nat /\ Len(p) = Len(q) + 1
          /\ \A i \in 1..Len(q) : p[i] = q[i]
          /\ p[Len(q) + 1] = m
      BY <2>1, AppendSeq
    <2> HIDE DEF p, m
    <2>3. \A i \in 1..Len(q) : q[i].t \notin Replies
      BY Zenon DEF Sent
    <2>4. \A i \in 1..Len(q) : q[i].t \notin Demands
      BY <2>3, Zenon DEF Due, DueAt, DataReplies, Replies
    <2>5. LLCOrder(p)
      <3>1. \A i, j \in 1..Len(p) : i < j => i \in 1..Len(q)
        BY <2>2
      <3>2. \A i \in 1..Len(q) : p[i].t \notin Replies /\ p[i].t \notin Demands
        BY <2>2, <2>3, <2>4, Zenon
      <3> QED BY <3>1, <3>2, Zenon DEF LLCOrder
    <2>6. \A u \in Replies : Sent(p, u) <=> u = "UPGRADE_REP"
      BY <2>1, <2>2, <2>3 DEF Sent
    <2>7. \A i \in 1..Len(p) : ~ DueAt(p, i)
      BY <2>1, <2>2, <2>4 DEF DueAt
    <2> QED BY <2>2, <2>5, <2>6, <2>7, Zenon DEF p, m, Due, DueOnce
  \* The only sharer gets the right to write its copy.
  <1>GrantsUpgrade.
    ASSUME CohInv, UNCHANGED llcVars, job # Idle, Head(reqs).t = "UPGRADE_REQ",
           NEW c, c = Head(reqs).who, dir.st = "SHARED", dir.sharers = {c},
           Answer(Head(reqs), "UPGRADE_REP", OwnedBy(c, "MODIFIED"), NoData),
           UNCHANGED <<toDir, config, dram>>
    PROVE  CohInv'
    <2> USE <1>GrantsUpgrade
    <2>1. cstate' = cstate /\ data' = data /\ waiters' = waiters /\ pc' = pc /\ CachesTypeOK'
      BY CachesFrame, Zenon DEF CohInv, Types
    <2>2. /\ reqs # << >> /\ ~ Head(reqs).wait /\ ~ Asked
          /\ reqs \in Seq(RequestRecords) /\ ReqsOrder(reqs) /\ NextReqKnown /\ dir \in Entries
          /\ ~ Says(toDir, NoCore, "DRAM_READ_REP") /\ ~ Sent(toDram, "DRAM_READ_REQ")
          /\ c \in LLC /\ ~ Left(c) /\ \A u \in Replies : ~ Sent(toLLC[c], u)
      BY <1>FrontRequest, Zenon
    <2>3. /\ toLLC' = LLCQueuesWith({c}, "UPGRADE_REP", NoData) /\ dir' = OwnedBy(c, "MODIFIED")
          /\ ~ failed' /\ toDram' = toDram /\ nuca' = nuca
          /\ toDir' = toDir /\ config' = config /\ dram' = dram
          /\ reqs' = Tail(reqs) /\ job' \in {Idle, NoData} /\ (job' # Idle => reqs' # << >>)
      BY <2>2, Zenon DEF Answer, Asserts, processNextReq
    <2>4. /\ reqs' \in Seq(RequestRecords) /\ ReqsOrder(reqs')
          /\ Wants(reqs, c, "UPGRADE_REQ")
          /\ \A b, u : Wants(reqs', b, u) <=> Wants(reqs, b, u) /\ b # c
          /\ reqs' # << >> => ~ Head(reqs').wait /\ Head(reqs').fwd = NoCore
      BY <2>2, <2>3, TailOfReqs, Zenon
    <2>5. /\ dir' \in Entries /\ dir'.st = "MODIFIED" /\ dir'.sharers = {c} /\ dir'.owner = c
          /\ dir'.fwd = dir.fwd /\ Owned'
      BY <2>2, <2>3, Zenon DEF OwnedBy, Entries, Owned
    \* Nothing but the copy of c is left.
    <2>6. /\ \A b \in LLC : b # c => ~ Tenured(b) /\ ~ Left(b) /\ ~ Promised(b)
          /\ ~ Promised(c) /\ Tenured(c)
      <3>1. ~ Promised(c)
        BY <2>2, Zenon DEF CohInv, FrontOK, Promised
      <3> QED BY <2>2, <3>1, Zenon DEF CohInv, SharersOK
    <2>7. /\ cstate[c] = "SU" /\ waiters[c] # << >> /\ pc[c] = "idle"
          /\ \A u \in Requests : ~ Says(toDir, c, u)
      <3>1. RequestsOK /\ "UPGRADE_REQ" \in Requests /\ DataReplies \subseteq Replies
        BY DEF CohInv, Requests, DataReplies, Replies
      <3>2. cstate[c] # "I"
        BY <2>2, <2>6, <3>1, Zenon DEF Tenured, Coming
      <3>3. /\ waiters[c] # << >> /\ pc[c] = "idle" /\ cstate[c] \in {"I", "SU"}
            /\ \A u \in Requests : ~ Says(toDir, c, u)
        BY <2>2, <2>4, <3>1, Zenon DEF RequestsOK
      <3> QED BY <3>2, <3>3, Zenon
    <2>8. Head(waiters[c])
      <3>1. RequestsOK /\ "UPGRADE_REQ" \in Requests
        BY Zenon DEF CohInv, Requests
      <3>2. Head(waiters[c]) = ("UPGRADE_REQ" # "SH_REQ")
        BY <2>2, <2>4, <3>1, Zenon DEF RequestsOK
      <3> QED BY <3>2, Zenon
    <2>9. \A b \in LLC :
             /\ ~ Says(toDir, b, "WB_REP")
             /\ Tenured(b) => \A t \in Demands : ~ Due(toLLC[b], t)
      BY <2>2, NothingAsked, Zenon
    <2>10. /\ toLLC' \in [LLC -> Seq(LLCMessages)] /\ \A b \in LLC : LLCOrder(toLLC'[b])
           /\ \A b \in LLC : b # c => toLLC'[b] = toLLC[b]
           /\ \A u \in Replies : Sent(toLLC'[c], u) <=> u = "UPGRADE_REP"
           /\ \A u \in Demands : ~ Due(toLLC'[c], u)
           /\ DueOnce(toLLC'[c])
      <3> DEFINE m == [t |-> "UPGRADE_REP", d |-> NoData]
      <3>1. toLLC \in [LLC -> Seq(LLCMessages)] /\ \A b \in LLC : LLCOrder(toLLC[b])
        BY Zenon DEF CohInv, Types, Queues
      <3>2. toLLC' = [b \in LLC |-> IF b \in {c} THEN Append(toLLC[b], m) ELSE toLLC[b]]
        BY <2>3, Zenon DEF LLCQueuesWith
      <3>3. /\ Append(toLLC[c], m) \in Seq(LLCMessages) /\ LLCOrder(Append(toLLC[c], m))
            /\ \A u \in Replies : Sent(Append(toLLC[c], m), u) <=> u = "UPGRADE_REP"
            /\ \A u \in Demands : ~ Due(Append(toLLC[c], m), u)
            /\ DueOnce(Append(toLLC[c], m))
        BY <2>2, <2>6, <2>9, <3>1, <1>AppendUpgradeReply, Zenon
      <3> HIDE DEF m
      <3>4. toLLC'[c] = Append(toLLC[c], m) /\ \A b \in LLC : b # c => toLLC'[b] = toLLC[b]
        BY <2>2, <3>2, Zenon
      <3>5. toLLC' \in [LLC -> Seq(LLCMessages)]
        BY <3>1, <3>2, <3>3, Zenon
      <3> QED BY <3>1, <3>3, <3>4, <3>5, Zenon
    <2>11. \A b \in LLC : Tenured(b)' = Tenured(b) /\ Left(b)' = Left(b) /\ ~ Promised(b)'
      <3>1. \A b \in LLC : Coming(b)' = Coming(b)
        BY <2>2, <2>10, Zenon DEF Coming, DataReplies, Replies
      <3>2. \A b \in LLC : ~ Promised(b)'
        BY <2>4, Zenon DEF Promised
      <3> QED BY <2>1, <2>3, <3>1, <3>2, Zenon DEF Tenured, Left
    <2>12. Types'
      <3>1. DirectoryTypeOK'
        BY <2>3, <2>4, <2>5, Zenon DEF CohInv, Types, DirectoryTypeOK, Entries, RequestRecords
      <3> QED BY <2>1, <2>3, <2>4, <2>10, <3>1, Zenon DEF CohInv, Types
    <2>13. Queues' /\ ThreadsOK' /\ NoAssertionFails'
      BY <2>1, <2>3, <2>4, <2>10, Zenon DEF CohInv, Queues, ThreadsOK, NoAssertionFails
    <2>14. RequestsOK'
      <3>1. \A b \in LLC, t \in Requests : Says(toDir', b, t) \/ Wants(reqs', b, t) =>
              b # c /\ toLLC'[b] = toLLC[b]
        BY <2>3, <2>4, <2>7, <2>10, Zenon
      <3> QED BY <2>1, <2>3, <2>4, <3>1, RequestsKept, Zenon DEF CohInv
    <2>15. RepliesOK'
      <3>1. \A b \in LLC, t \in Replies : Sent(toLLC'[b], t) => b = c /\ t = "UPGRADE_REP"
        <4> SUFFICES ASSUME NEW b \in LLC, NEW t \in Replies, Sent(toLLC'[b], t), b # c
                     PROVE  FALSE
          BY <2>2, <2>10, Zenon
        <4>1. Sent(toLLC[b], t)
          BY <2>10, Zenon
        <4>2. Tenured(b)
          BY <4>1, Zenon DEF Tenured, Coming, CohInv, RepliesOK, Replies, DataReplies
        <4> QED BY <2>6, <4>2, Zenon
      <3> QED BY <2>1, <2>5, <2>7, <2>8, <3>1, Zenon DEF RepliesOK
    <2>16. SharersOK'
      BY <2>2, <2>5, <2>6, <2>11, Zenon DEF SharersOK
    <2>17. EntryOK'
      BY <2>2, <2>5, Zenon DEF CohInv, EntryOK
    <2>18. HoldersOK'
      <3>1. \A b \in LLC : cstate[b] # "I" => b = c
        BY <2>6, Zenon DEF Tenured
      <3> QED BY <2>1, <2>7, <2>10, <3>1, Zenon DEF HoldersOK, Replies
    <2>19. AnswersOK'
      <3>1. \A b \in LLC : ~ Left(b) /\ ~ Left(b)'
        BY <2>2, <2>6, <2>11, Zenon
      <3> QED BY <2>3, <3>1, Zenon DEF AnswersOK, Left, Answers
    <2>20. WriteBacksOK'
      BY <2>3, <2>9, Zenon DEF WriteBacksOK
    <2>21. DemandsOK'
      <3>1. \A b \in LLC : Tenured(b)' => DueOnce(toLLC'[b]) /\ \A t \in Demands : ~ Due(toLLC'[b], t)
        BY <2>6, <2>10, <2>11, Zenon
      <3> QED BY <3>1, Zenon DEF DemandsOK
    <2>22. FrontOK'
      BY <2>3, <2>4, NetworkAssumption, DirectoryAssumption, Zenon DEF FrontOK, Data
    <2>23. ReadsOK'
      BY <2>2, <2>3, Zenon DEF ReadsOK
    <2> QED BY <2>12, <2>13, <2>14, <2>15, <2>16, <2>17, <2>18, <2>19, <2>20, <2>21, <2>22, <2>23, Zenon
            DEF CohInv
  \* getOneSharer of an entry with one sharer.
  <1>MinOfOne.
    ASSUME NEW x \in Nat
    PROVE  Min({x}) = x
    BY <1>MinOfOne DEF Min
  <1>processUpgradeReqKeeps.
    ASSUME CohInv, processUpgradeReq, UNCHANGED llcVars
    PROVE  CohInv'
    <2> USE <1>processUpgradeReqKeeps
    <2> DEFINE first == Min(dir.sharers)
               who == Head(reqs).who
    <2>1. job # Idle /\ Head(reqs).t = "UPGRADE_REQ" /\ UNCHANGED <<toDir, config, dram>>
      BY Zenon DEF processUpgradeReq, Processes
    <2>2. /\ reqs # << >> /\ ~ Head(reqs).wait /\ ~ Asked /\ dir \in Entries /\ who \in LLC
          /\ ~ Left(who) /\ Head(reqs).t \in Requests /\ Head(reqs).t \in Takers
          /\ Head(reqs) \in RequestRecords
          /\ \A u \in Replies : ~ Sent(toLLC[who], u)
      BY <2>1, <1>FrontRequest, Zenon DEF Requests, Takers
    <2>3. /\ job \in {NoData} \cup Data /\ Idle \notin Data /\ NoData \notin Data
          /\ dir.st \in {"UNCACHED", "SHARED", "EXCLUSIVE", "MODIFIED"}
      BY <2>1, <2>2, NetworkAssumption, DirectoryAssumption, Zenon DEF CohInv, Types, DirectoryTypeOK, Entries, Data
    <2>4. Head(reqs).fwd = NoCore
      BY <2>1, <2>2, Zenon DEF CohInv, FrontOK
    <2>5. dir.st = "SHARED" => job = NoData
      BY <2>1, <2>3, Zenon DEF CohInv, FrontOK
    <2>6. CASE Owned
      <3>1. dir.owner \in LLC /\ dir.sharers = {dir.owner} /\ dir.st # "SHARED"
        BY <2>6, Zenon DEF CohInv, EntryOK, Owned
      <3>2. first = dir.owner
        BY <3>1, <1>MinOfOne, NetworkAssumption, Zenon
      \* Who waits for an upgrade and still has a copy shares the line.
      <3>3. dir.owner # who
        <4> SUFFICES ASSUME dir.owner = who PROVE FALSE
          BY Zenon
        <4>1. ~ Promised(who)
          BY <2>2, <2>4, Zenon DEF Promised
        <4>2. cstate[who] # "I"
          BY <2>2, <3>1, <4>1, Zenon DEF CohInv, SharersOK, Tenured, Coming, DataReplies, Replies
        <4>3. Wants(reqs, who, "UPGRADE_REQ")
          BY <2>1, <2>2, TailOfReqs, Zenon DEF CohInv, Types, Queues
        <4>4. cstate[who] = "SU"
          BY <2>1, <2>2, <4>2, <4>3, Zenon DEF CohInv, RequestsOK
        <4>5. ~ Says(toDir, who, "WB_REP")
          BY <2>2, NothingAsked, Zenon
        <4> QED BY <2>2, <3>1, <4>4, <4>5, Zenon DEF CohInv, HoldersOK, Replies
      <3>4. Asserts(dir.owner \in LLC) /\ AskAndWait({dir.owner}, "FLUSH_REQ")
        BY <2>6, <3>2, <3>3, Zenon DEF processUpgradeReq, Owned
      <3>5. ~ failed' /\ "FLUSH_REQ" \in Demands
        BY <3>1, <3>4, Zenon DEF Asserts, Demands
      <3> QED BY <2>1, <2>2, <2>6, <3>1, <3>3, <3>4, <3>5, <1>AskAndWaitKeeps, Zenon
    <2>7. CASE dir.st = "SHARED" /\ dir.sharers = {who}
      <3>1. Answer(Head(reqs), "UPGRADE_REP", OwnedBy(who, "MODIFIED"), NoData)
        BY <2>7, Zenon DEF processUpgradeReq
      <3>2. PICK c : c = Head(reqs).who
        BY Zenon
      <3> QED BY <2>1, <2>7, <3>1, <3>2, <1>GrantsUpgrade, Zenon
    <2>8. CASE dir.st = "SHARED" /\ dir.sharers # {who}
      <3> DEFINE flushed == IF who \in dir.sharers THEN {} ELSE {first}
                 ask == [c \in LLC |-> CASE c \in flushed -> "FLUSH_REQ"
                                         [] c \in dir.sharers \ (flushed \cup {who}) -> "INV_REQ"
                                         [] OTHER -> "none"]
      <3>1. /\ toLLC' = [c \in LLC |->
                  CASE c \in flushed -> Append(toLLC[c], [t |-> "FLUSH_REQ", d |-> NoData])
                    [] c \in dir.sharers \ (flushed \cup {who}) ->
                         Append(toLLC[c], [t |-> "INV_REQ", d |-> NoData])
                    [] OTHER -> toLLC[c]]
            /\ job' = Idle /\ failed' = failed
            /\ UNCHANGED <<toDir, toDram, config, dir, reqs, nuca, dram>>
        BY <2>1, <2>8, Zenon DEF processUpgradeReq
      <3>2. \A c \in LLC :
              /\ c \in flushed => ask[c] = "FLUSH_REQ"
              /\ c \notin flushed /\ c \in dir.sharers \ (flushed \cup {who}) => ask[c] = "INV_REQ"
              /\ c \notin flushed /\ c \notin dir.sharers \ (flushed \cup {who}) => ask[c] = "none"
        BY Zenon
      <3>3. \A c \in LLC : c \in flushed => who \notin dir.sharers
        BY Zenon
      <3> HIDE DEF ask, flushed
      <3>4. Asks(ask)
        <4>1. ASSUME NEW c \in LLC
              PROVE  (CASE c \in flushed -> Append(toLLC[c], [t |-> "FLUSH_REQ", d |-> NoData])
                        [] c \in dir.sharers \ (flushed \cup {who}) ->
                             Append(toLLC[c], [t |-> "INV_REQ", d |-> NoData])
                        [] OTHER -> toLLC[c])
                     = IF ask[c] \in Demands
                       THEN Append(toLLC[c], [t |-> ask[c], d |-> NoData]) ELSE toLLC[c]
          <5>1. CASE c \in flushed
            BY <3>2, <4>1, <5>1, Zenon DEF Demands
          <5>2. CASE c \notin flushed /\ c \in dir.sharers \ (flushed \cup {who})
            BY <3>2, <4>1, <5>2, Zenon DEF Demands
          <5>3. CASE c \notin flushed /\ c \notin dir.sharers \ (flushed \cup {who})
            BY <3>2, <4>1, <5>3, Zenon DEF Demands
          <5> QED BY <5>1, <5>2, <5>3, Zenon
        <4> QED BY <3>1, <4>1, Zenon DEF Asks
      <3>5. \A b \in LLC : Tenured(b) /\ ask[b] \in Demands =>
              /\ who # b
              /\ ask[b] # "WB_REQ"
              /\ ask[b] = "FLUSH_REQ" => who \notin dir.sharers
        <4> SUFFICES ASSUME NEW b \in LLC, Tenured(b), ask[b] \in Demands
                     PROVE  /\ who # b
                            /\ ask[b] # "WB_REQ"
                            /\ ask[b] = "FLUSH_REQ" => who \notin dir.sharers
          BY Zenon
        <4>1. b \in dir.sharers
          BY Zenon DEF CohInv, SharersOK
        <4> QED BY <3>2, <3>3, <4>1, Zenon DEF Demands
      <3>6. ~ failed'
        BY <3>1, Zenon DEF CohInv, NoAssertionFails
      <3> QED BY <2>1, <2>2, <2>5, <2>8, <3>1, <3>4, <3>5, <3>6, <1>AsksKeeps, Zenon
    <2>9. CASE dir.st = "UNCACHED"
      <3> DEFINE e == OwnedBy(who, "MODIFIED")
                 x == IF job = NoData THEN Head(reqs).d ELSE job
      <3>1. retrieveDataAndSendToL2Cache("EX_REP", e, Head(reqs), x)
        BY <2>9, Zenon DEF processUpgradeReq
      <3>2. dir.sharers = {} /\ dir.fwd \notin LLC
        BY <2>9, Zenon DEF CohInv, EntryOK
      <3>3. /\ e \in Entries /\ e.st = "MODIFIED" /\ e.sharers = dir.sharers \cup {who}
            /\ e.owner = who /\ e.fwd = dir.fwd
        BY <2>2, Zenon DEF OwnedBy, Entries
      <3>4. x \in Data \cup {NoData} /\ "EX_REP" \in DataReplies
        BY <2>2, <2>3, Zenon DEF DataReplies, RequestRecords
      <3> HIDE DEF e, x
      <3>5. Enters(e, "EX_REP")
        BY <2>1, <3>2, <3>3, Zenon DEF Enters
      <3>6. ~ Tenured(who)
        BY <2>2, <3>2, Zenon DEF CohInv, SharersOK
      <3> QED BY <2>1, <2>2, <2>4, <3>1, <3>3, <3>4, <3>5, <3>6, <1>RetrieveKeeps, Zenon
    <2> QED BY <2>3, <2>6, <2>7, <2>8, <2>9, Zenon DEF Owned
  \* A request is taken up or dropped while no cache is asked for anything.
  <1>FrontChanges.
    ASSUME CohInv, UNCHANGED llcVars, ~ Asked,
           UNCHANGED <<toDir, toLLC, toDram, config, nuca, dram>>, ~ failed',
           dir' \in Entries, dir'.st = dir.st, dir'.sharers = dir.sharers,
           dir' = dir \/ (dir.st = "UNCACHED" /\ dir'.fwd \notin LLC),
           reqs' \in Seq(RequestRecords), ReqsOrder(reqs'),
           \A b \in LLC : ~ Promised(b),
           \A b \in LLC : \A u : Wants(reqs', b, u) => Wants(reqs, b, u),
           reqs' # << >> => ~ Head(reqs').wait /\ Head(reqs').fwd = NoCore,
           job \in {Idle, NoData} \/ dir.st = "UNCACHED",
           job' \in {Idle, NoData}, job' # Idle => reqs' # << >>,
           ~ Says(toDir, NoCore, "DRAM_READ_REP"), ~ Sent(toDram, "DRAM_READ_REQ")
    PROVE  CohInv'
    <2> USE <1>FrontChanges
    <2>1. cstate' = cstate /\ data' = data /\ waiters' = waiters /\ pc' = pc /\ CachesTypeOK'
      BY CachesFrame, Zenon DEF CohInv, Types
    <2>2. /\ toDir' = toDir /\ toLLC' = toLLC /\ toDram' = toDram /\ config' = config
          /\ nuca' = nuca /\ dram' = dram /\ Owned' = Owned /\ (Owned => dir' = dir)
      BY Zenon DEF Owned
    <2>3. \A b \in LLC :
             /\ ~ Says(toDir, b, "WB_REP")
             /\ Says(toDir, b, "FLUSH_REP") => Owned
             /\ Left(b) => \A t \in Requests : ~ Wants(reqs, b, t)
             /\ Left(b) => ~ Says(toDir, b, "UPGRADE_REQ")
             /\ Tenured(b) => \A t \in Demands : ~ Due(toLLC[b], t)
      BY NothingAsked, Zenon
    <2>4. \A b \in LLC : Tenured(b)' = Tenured(b) /\ Left(b)' = Left(b) /\ ~ Promised(b)'
      BY <2>1, <2>2, Zenon DEF Tenured, Coming, Left, Promised
    <2>5. Types'
      <3>1. job' \in {Idle, NoData} \cup Data
        BY Zenon
      <3>2. DirectoryTypeOK'
        BY <2>2, <3>1, Zenon DEF CohInv, Types, DirectoryTypeOK, Entries, RequestRecords
      <3> QED BY <2>1, <2>2, <3>2, Zenon DEF CohInv, Types
    <2>6. Queues' /\ ThreadsOK' /\ NoAssertionFails'
      BY <2>1, <2>2, Zenon DEF CohInv, Queues, ThreadsOK, NoAssertionFails
    <2>7. RequestsOK'
      BY <2>1, <2>2, RequestsKept, Zenon DEF CohInv
    <2>8. RepliesOK'
      BY <2>1, <2>2, Zenon DEF CohInv, RepliesOK
    <2>9. SharersOK'
      BY <2>4, Zenon DEF CohInv, SharersOK
    <2>10. EntryOK'
      BY <2>2, Zenon DEF CohInv, EntryOK
    <2>11. HoldersOK'
      BY <2>1, <2>2, Zenon DEF CohInv, HoldersOK
    <2>12. AnswersOK'
      BY <2>2, <2>3, <2>4, Zenon DEF CohInv, AnswersOK
    <2>13. WriteBacksOK'
      BY <2>2, <2>3, Zenon DEF WriteBacksOK
    <2>14. DemandsOK'
      <3>1. \A b \in LLC : Tenured(b)' => DueOnce(toLLC'[b]) /\ \A t \in Demands : ~ Due(toLLC'[b], t)
        BY <2>2, <2>3, <2>4, Zenon DEF CohInv, DemandsOK
      <3> QED BY <3>1, Zenon DEF DemandsOK
    <2>15. FrontOK'
      BY NetworkAssumption, DirectoryAssumption, Zenon DEF FrontOK, Data
    <2>16. ReadsOK'
      BY <2>2, Zenon DEF ReadsOK
    <2> QED BY <2>5, <2>6, <2>7, <2>8, <2>9, <2>10, <2>11, <2>12, <2>13, <2>14, <2>15, <2>16, Zenon
            DEF CohInv
  <1>processNullifyReqKeeps.
    ASSUME CohInv, processNullifyReq, UNCHANGED llcVars
    PROVE  CohInv'
    <2> USE <1>processNullifyReqKeeps
    <2>1. job # Idle /\ Head(reqs).t = "NULLIFY_REQ" /\ UNCHANGED <<toDir, config, dram>>
      BY Zenon DEF processNullifyReq, Processes
    <2>2. /\ reqs # << >> /\ ~ Asked /\ dir \in Entries /\ Head(reqs).who = NoCore
          /\ NextReqKnown /\ reqs \in Seq(RequestRecords) /\ ReqsOrder(reqs)
          /\ ~ Says(toDir, NoCore, "DRAM_READ_REP") /\ ~ Sent(toDram, "DRAM_READ_REQ")
          /\ Head(reqs).t \in Takers /\ NoCore \notin LLC
      BY <2>1, <1>FrontRequest, NetworkAssumption, Zenon DEF Takers
    <2>3. /\ job \in {NoData} \cup Data /\ Idle \notin Data /\ NoData \notin Data
          /\ dir.st \in {"UNCACHED", "SHARED", "EXCLUSIVE", "MODIFIED"}
      BY <2>1, <2>2, NetworkAssumption, DirectoryAssumption, Zenon DEF CohInv, Types, DirectoryTypeOK, Entries, Data
    <2>4. dir.st = "SHARED" => job = NoData
      BY <2>1, <2>3, Zenon DEF CohInv, FrontOK
    <2>5. CASE Owned
      <3>1. Asserts(dir.owner \in LLC) /\ AskAndWait({dir.owner}, "FLUSH_REQ")
        BY <2>5, Zenon DEF processNullifyReq, Owned
      <3>2. ~ failed' /\ dir.st # "SHARED" /\ "FLUSH_REQ" \in Demands
        BY <2>5, <3>1, Zenon DEF Asserts, Owned, Demands, CohInv, EntryOK
      <3> QED BY <2>1, <2>2, <2>5, <3>1, <3>2, <1>AskAndWaitKeeps, Zenon
    <2>6. CASE dir.st = "SHARED"
      <3>1. AskAndWait(dir.sharers, "INV_REQ") /\ failed' = failed
        BY <2>6, Zenon DEF processNullifyReq
      <3>2. ~ failed' /\ "INV_REQ" \in Demands
        BY <3>1, Zenon DEF Demands, CohInv, NoAssertionFails
      <3> QED BY <2>1, <2>2, <2>4, <2>6, <3>1, <3>2, <1>AskAndWaitKeeps, Zenon
    <2>7. CASE dir.st = "UNCACHED"
      <3>1. /\ Asserts(NextReqKnown) /\ dir' = NewEntry /\ processNextReq
            /\ UNCHANGED <<toDir, toLLC, toDram, config, nuca, dram>>
        BY <2>1, <2>7, Zenon DEF processNullifyReq
      <3>2. dir.sharers = {}
        BY <2>7, Zenon DEF CohInv, EntryOK
      <3>3. dir' \in Entries /\ dir'.st = "UNCACHED" /\ dir'.sharers = {} /\ dir'.fwd \notin LLC
        BY <3>1, DirectoryAssumption, Zenon DEF NewEntry, Entries
      <3>4. /\ reqs' = Tail(reqs) /\ job' \in {Idle, NoData} /\ (job' # Idle => reqs' # << >>)
            /\ ~ failed'
        BY <2>2, <3>1, Zenon DEF processNextReq, Asserts
      <3>5. /\ reqs' \in Seq(RequestRecords) /\ ReqsOrder(reqs')
            /\ \A b \in LLC : \A u : Wants(reqs', b, u) => Wants(reqs, b, u)
            /\ reqs' # << >> => ~ Head(reqs').wait /\ Head(reqs').fwd = NoCore
        BY <2>2, <3>4, TailOfReqs, Zenon
      <3>6. \A b \in LLC : ~ Promised(b)
        BY <2>2, Zenon DEF Promised
      <3> QED BY <2>2, <2>7, <3>1, <3>2, <3>3, <3>4, <3>5, <3>6, <1>FrontChanges, Zenon
    <2> QED BY <2>3, <2>5, <2>6, <2>7, Zenon DEF Owned
  <1>ReplaceEntryKeeps.
    ASSUME CohInv, ReplaceEntry, UNCHANGED llcVars
    PROVE  CohInv'
    <2> USE <1>ReplaceEntryKeeps
    <2> DEFINE r == NewReq("NULLIFY_REQ", NoCore)
    <2>1. /\ job = Idle /\ reqs = << >> /\ reqs' = <<r>> /\ job' = NoData
          /\ UNCHANGED <<toDir, toLLC, toDram, config, nuca, dram>> /\ failed' = failed /\ dir' = dir
      BY Zenon DEF ReplaceEntry, netVars
    <2>2. /\ r \in RequestRecords /\ r.t = "NULLIFY_REQ" /\ r.who = NoCore /\ ~ r.wait
          /\ r.fwd = NoCore /\ NoCore \notin LLC
      BY NetworkAssumption, Zenon DEF NewReq, RequestRecords
    <2> HIDE DEF r
    <2>3. /\ reqs' \in Seq(RequestRecords) /\ reqs' # << >> /\ Head(reqs') = r
          /\ Len(reqs') = 1 /\ reqs'[1] = r
      BY <2>1, <2>2
    <2>4. ReqsOrder(reqs') /\ \A b \in LLC : \A u : ~ Wants(reqs', b, u)
      BY <2>2, <2>3 DEF ReqsOrder, Wants
    <2>5. ~ Asked /\ \A b \in LLC : ~ Promised(b)
      BY <2>1, Zenon DEF Asked, Promised
    <2>6. /\ ~ Says(toDir, NoCore, "DRAM_READ_REP") /\ ~ Sent(toDram, "DRAM_READ_REQ")
          /\ dir' \in Entries /\ ~ failed'
      BY <2>1, Zenon DEF CohInv, ReadsOK, Types, DirectoryTypeOK, Entries, NoAssertionFails
    <2> QED BY <2>1, <2>2, <2>3, <2>4, <2>5, <2>6, <1>FrontChanges, Zenon
  <1> QED BY <1>processExReqKeeps, <1>processShReqKeeps, <1>processUpgradeReqKeeps,
             <1>processNullifyReqKeeps, <1>ReplaceEntryKeeps, Zenon

\* A step of the NUCA slice or of the DRAM, which no controller sees but through
\* the read it waits for.
LEMMA MemoryKeeps ==
  ASSUME CohInv, UNCHANGED llcVars, UNCHANGED <<toLLC, failed, config, dir, reqs, job>>,
         toDir' \in Seq(DirMessages), DirOrder(toDir'),
         \A b \in LLC : \A u : Says(toDir', b, u) <=> Says(toDir, b, u),
         toDram' \in Seq(DramMessages), ReadOnce(toDram'), ReadsOK',
         nuca' \in {Absent} \cup [d : Data, mod : BOOLEAN], dram' \in Data
  PROVE  CohInv'
  <1>1. cstate' = cstate /\ data' = data /\ waiters' = waiters /\ pc' = pc /\ CachesTypeOK'
    BY CachesFrame, Zenon DEF CohInv, Types
  <1>2. /\ toLLC' = toLLC /\ failed' = failed /\ config' = config /\ dir' = dir /\ reqs' = reqs
        /\ job' = job /\ Owned' = Owned /\ Asked' = Asked
        /\ \A b : Promised(b)' = Promised(b) /\ Clearing(b)' = Clearing(b)
    BY Zenon DEF Owned, Asked, Promised, Clearing
  <1>3. \A b \in LLC : Tenured(b)' = Tenured(b) /\ Left(b)' = Left(b)
    BY <1>1, <1>2, Zenon DEF Tenured, Coming, Left
  <1>4. Types'
    <2>1. DirectoryTypeOK'
      BY <1>2, Zenon DEF CohInv, Types, DirectoryTypeOK
    <2> QED BY <1>1, <1>2, <2>1, Zenon DEF CohInv, Types
  <1>5. Queues' /\ ThreadsOK' /\ NoAssertionFails'
    <2>1. ThreadsOK'
      BY <1>1, Zenon DEF CohInv, ThreadsOK
    <2>2. NoAssertionFails'
      BY <1>2, SMT DEF CohInv, NoAssertionFails
    <2>3. Queues'
      BY <1>2, Zenon DEF CohInv, Queues
    <2> QED BY <2>1, <2>2, <2>3, Zenon
  <1>6. RequestsOK'
    BY <1>1, <1>2, RequestsKept, Zenon DEF CohInv
  <1>7. RepliesOK' /\ EntryOK'
    BY <1>1, <1>2, Zenon DEF CohInv, RepliesOK, EntryOK
  <1>8. SharersOK'
    BY <1>2, <1>3, Zenon DEF CohInv, SharersOK
  <1>9. HoldersOK'
    BY <1>1, <1>2, Zenon DEF CohInv, HoldersOK
  <1>10. AnswersOK'
    BY <1>2, <1>3, Zenon DEF CohInv, AnswersOK
  <1>11. WriteBacksOK'
    BY <1>1, <1>2, Zenon DEF CohInv, WriteBacksOK
  <1>12. DemandsOK'
    BY <1>2, <1>3, Zenon DEF CohInv, DemandsOK
  <1>13. FrontOK'
    BY <1>2, Zenon DEF CohInv, FrontOK
  <1> QED BY <1>4, <1>5, <1>6, <1>7, <1>8, <1>9, <1>10, <1>11, <1>12, <1>13, Zenon DEF CohInv

LEMMA NucaEvictKeeps ==
  ASSUME CohInv, NucaEvict, UNCHANGED llcVars
  PROVE  CohInv'
  <1> DEFINE m == [t |-> "DRAM_WRITE_REQ", d |-> nuca.d]
  <1>1. /\ nuca # Absent /\ nuca' = Absent /\ toDram' \in {toDram, Append(toDram, m)}
        /\ UNCHANGED <<toLLC, failed, config, dir, reqs, job>> /\ toDir' = toDir /\ dram' = dram
    BY Zenon DEF NucaEvict, DramQueueWith
  <1>2. /\ nuca.d \in Data /\ toDir \in Seq(DirMessages) /\ DirOrder(toDir) /\ dram \in Data
        /\ toDram \in Seq(DramMessages) /\ ReadOnce(toDram)
    BY <1>1, Zenon DEF CohInv, Types, Queues, DirectoryTypeOK
  <1>3. m \in DramMessages /\ m.t = "DRAM_WRITE_REQ"
    BY <1>2, Zenon DEF DramMessages
  <1> HIDE DEF m
  <1>4. /\ Append(toDram, m) \in Seq(DramMessages) /\ ReadOnce(Append(toDram, m))
        /\ Sent(Append(toDram, m), "DRAM_READ_REQ") <=> Sent(toDram, "DRAM_READ_REQ")
    BY <1>2, <1>3, AppendToDram, Zenon
  <1>5. ReadsOK'
    BY <1>1, <1>4, Zenon DEF CohInv, ReadsOK
  <1> QED BY <1>1, <1>2, <1>4, <1>5, MemoryKeeps, Zenon

LEMMA HandleDramKeeps ==
  ASSUME CohInv, HandleDram, UNCHANGED llcVars
  PROVE  CohInv'
  <1>1. /\ toDram # << >> /\ toDram' = Tail(toDram)
        /\ UNCHANGED <<toLLC, failed, config, dir, reqs, job>> /\ nuca' = nuca
        /\ IF Head(toDram).t = "DRAM_READ_REQ"
           THEN toDir' = DirQueueWith(NoCore, "DRAM_READ_REP", dram) /\ dram' = dram
           ELSE dram' = Head(toDram).d /\ toDir' = toDir
    BY Zenon DEF HandleDram
  <1>2. /\ toDir \in Seq(DirMessages) /\ DirOrder(toDir) /\ dram \in Data /\ NoCore \notin LLC
        /\ toDram \in Seq(DramMessages) /\ ReadOnce(toDram)
        /\ nuca \in {Absent} \cup [d : Data, mod : BOOLEAN]
    BY NetworkAssumption, Zenon DEF CohInv, Types, Queues, DirectoryTypeOK
  <1>3. /\ toDram' \in Seq(DramMessages) /\ Head(toDram) \in DramMessages /\ ReadOnce(toDram')
        /\ Sent(toDram, Head(toDram).t)
        /\ Sent(toDram', "DRAM_READ_REQ") =>
             Sent(toDram, "DRAM_READ_REQ") /\ Head(toDram).t # "DRAM_READ_REQ"
    BY <1>1, <1>2, TailOfDram, Zenon
  <1>4. CASE Head(toDram).t = "DRAM_READ_REQ"
    <2>1. /\ ~ Says(toDir, NoCore, "DRAM_READ_REP") /\ reqs # << >> /\ Head(reqs).wait
      BY <1>3, <1>4, Zenon DEF CohInv, ReadsOK
    <2>2. [t |-> "DRAM_READ_REP", c |-> NoCore, d |-> dram] \in DirMessages
      BY <1>2, Zenon DEF DirMessages
    <2>3. \A u : Says(toDir, NoCore, u) => MayFollow(u, "DRAM_READ_REP")
      <3>1. \A i \in 1..Len(toDir) : toDir[i] \in DirMessages
        BY <1>2
      <3> QED BY <1>2, <2>1, <3>1, Zenon DEF Says, DirMessages, MayFollow, Requests, Answers
    <2>4. /\ toDir' \in Seq(DirMessages) /\ DirOrder(toDir')
          /\ \A b, u : Says(toDir', b, u) <=> Says(toDir, b, u) \/ (b = NoCore /\ u = "DRAM_READ_REP")
      BY <1>1, <1>4, <2>2, <2>3, SendsToDir, Zenon
    <2>5. ReadsOK'
      BY <1>1, <1>3, <1>4, <2>1, Zenon DEF ReadsOK
    <2> QED BY <1>1, <1>2, <1>3, <1>4, <2>4, <2>5, MemoryKeeps, Zenon
  <1>5. CASE Head(toDram).t # "DRAM_READ_REQ"
    <2>1. dram' \in Data /\ toDir' = toDir
      BY <1>1, <1>3, <1>5, Zenon DEF DramMessages
    <2>2. ReadsOK'
      BY <1>1, <1>3, <2>1, Zenon DEF CohInv, ReadsOK
    <2> QED BY <1>1, <1>2, <1>3, <2>1, <2>2, MemoryKeeps, Zenon
  <1> QED BY <1>4, <1>5, Zenon

-----------------------------------------------------------------------------
(* The initial states                                                      *)

LEMMA InitInv ==
  ASSUME Init
  PROVE  CohInv
  <1>1. /\ toDir = << >> /\ toLLC = [c \in LLC |-> << >>] /\ toDram = << >> /\ failed = FALSE
        /\ cstate = [c \in LLC |-> "I"] /\ data = [c \in LLC |-> NoData]
        /\ waiters = [c \in LLC |-> << >>] /\ pc = [c \in LLC |-> "idle"]
        /\ config \in Configs /\ dir = NewEntry /\ reqs = << >> /\ job = Idle
        /\ nuca = Absent /\ dram \in Values
    BY Zenon DEF Init, InitNetwork, InitCaches, InitDirectory
  <1>2. /\ dir \in Entries /\ dir.st = "UNCACHED" /\ dir.sharers = {} /\ dir.fwd \notin LLC
    BY <1>1, DirectoryAssumption, Zenon DEF NewEntry, Entries
  <1>3. /\ \A c, t : ~ Says(toDir, c, t) /\ ~ Wants(reqs, c, t)
        /\ \A t : ~ Sent(toDram, t)
        /\ \A c \in LLC : \A t : ~ Sent(toLLC[c], t) /\ ~ Due(toLLC[c], t)
    BY <1>1, SMTT(30) DEF Says, Wants, Sent, Due
  <1>4. Queues
    BY <1>1, SMTT(30) DEF Queues, DirOrder, LLCOrder, ReadOnce, ReqsOrder
  <1>5. \A c \in LLC : ~ Tenured(c) /\ ~ Left(c) /\ ~ Promised(c)
    BY <1>1, <1>3, Zenon DEF Tenured, Coming, Left, Promised
  <1>6. CachesTypeOK
    <2>1. \A c \in LLC : Sleeping(c) \in 0..Sharers
      BY <1>1, CacheAssumption DEF Sleeping
    <2>2. waiters \in [LLC -> Seq(BOOLEAN)]
      <3> DEFINE B == BOOLEAN
      <3> HIDE DEF B
      <3>1. waiters \in [LLC -> Seq(B)]
        BY <1>1
      <3> QED BY <3>1, Zenon DEF B
    <2>3. /\ cstate \in [LLC -> {"I", "S", "SU", "E", "M"}]
          /\ data \in [LLC -> Data \cup {NoData}] /\ pc \in [LLC -> {"idle", "gap"}]
      BY <1>1, Zenon
    <2> QED BY <2>1, <2>2, <2>3, Zenon DEF CachesTypeOK
  <1>7. Types
    <2>1. DirectoryTypeOK
      BY <1>1, <1>2 DEF DirectoryTypeOK, Entries, Data
    <2>2. toDir \in Seq(DirMessages) /\ toLLC \in [LLC -> Seq(LLCMessages)]
          /\ toDram \in Seq(DramMessages) /\ reqs \in Seq(RequestRecords)
      BY <1>1
    <2> QED BY <1>1, <1>6, <2>1, <2>2, Zenon DEF Types
  <1>8. ThreadsOK /\ HoldersOK /\ NoAssertionFails
    BY <1>1, Zenon DEF ThreadsOK, HoldersOK, NoAssertionFails
  <1>9. RequestsOK /\ RepliesOK /\ WriteBacksOK /\ ReadsOK
    BY <1>3, Zenon DEF RequestsOK, RepliesOK, WriteBacksOK, ReadsOK
  <1>10. SharersOK /\ DemandsOK
    BY <1>2, <1>5, Zenon DEF SharersOK, DemandsOK
  <1>11. AnswersOK
    BY <1>3, <1>5, Zenon DEF AnswersOK
  <1>12. EntryOK /\ FrontOK
    BY <1>1, <1>2, DirectoryAssumption, Zenon DEF EntryOK, FrontOK, Owned
  <1> QED BY <1>4, <1>7, <1>8, <1>9, <1>10, <1>11, <1>12, Zenon DEF CohInv

=============================================================================
