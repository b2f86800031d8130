----------------------------- MODULE ShmemNetwork -----------------------------
(***************************************************************************)
(* The messages about one cache line between the last-level caches, the    *)
(* DRAM directory that is home to the line and the DRAM controller.        *)
(*                                                                         *)
(* SmTransport keeps one queue per receiving node and a simulation thread  *)
(* takes its messages in order (Network::netPullFromTransport), so each    *)
(* receiver has one FIFO.  A node that is home to the line as well as the  *)
(* master of a cache has one queue for both; keeping them apart allows     *)
(* every order of the shared queue and more.                               *)
(*                                                                         *)
(* LOG_ASSERT_ERROR, assert and LOG_PRINT_ERROR end the simulation: the    *)
(* handler that fails one sets failed.                                     *)
(***************************************************************************)
EXTENDS Naturals, Sequences, FiniteSets

CONSTANTS
  LLC,        \* the last-level caches, by the id of their master core
  Values,     \* what a line can hold
  NoData,     \* data_buf == NULL
  Junk,       \* what an uninitialised or freed buffer holds
  NoCore      \* INVALID_CORE_ID

ASSUME NetworkAssumption ==
  /\ LLC \subseteq Nat /\ IsFiniteSet(LLC)
  /\ NoCore \notin LLC
  /\ NoData \notin Values \cup {Junk}

VARIABLES
  toDir,      \* messages of the tag directory
  toLLC,      \* messages of each last-level cache
  toDram,     \* messages of the DRAM controller
  failed      \* an assertion of the code has failed

netVars == <<toDir, toLLC, toDram, failed>>

Data == Values \cup {Junk}

Requests == {"EX_REQ", "SH_REQ", "UPGRADE_REQ"}
Replies  == {"EX_REP", "SH_REP", "UPGRADE_REP"}

InitNetwork ==
  /\ toDir = << >>
  /\ toLLC = [c \in LLC |-> << >>]
  /\ toDram = << >>
  /\ failed = FALSE

\* MemoryManager::sendMsg: the queue of the directory, of the caches cs, and
\* of the DRAM controller after a message of type t with data d.
DirQueueWith(c, t, d) == Append(toDir, [t |-> t, c |-> c, d |-> d])

LLCQueuesWith(cs, t, d) ==
  [c \in LLC |-> IF c \in cs THEN Append(toLLC[c], [t |-> t, d |-> d]) ELSE toLLC[c]]

DramQueueWith(t, d) == Append(toDram, [t |-> t, d |-> d])

\* The conditions P that a handler asserts.
Asserts(P) == failed' = ~P

NetworkTypeOK ==
  /\ toDir \in Seq([t : Requests \cup {"INV_REP", "FLUSH_REP", "WB_REP", "DRAM_READ_REP"},
                    c : LLC \cup {NoCore}, d : Data \cup {NoData}])
  /\ toLLC \in [LLC -> Seq([t : Replies \cup {"INV_REQ", "FLUSH_REQ", "WB_REQ"},
                            d : Data \cup {NoData}])]
  /\ toDram \in Seq([t : {"DRAM_READ_REQ", "DRAM_WRITE_REQ"}, d : Data \cup {NoData}])
  /\ failed \in BOOLEAN
=============================================================================
