--------------------------- MODULE MCSyscallServer ---------------------------
(* Instances of SyscallServer for TLC. *)
EXTENDS SyscallServer

CONSTANTS t1, t2, t3, f1, f2, b1

\* Every operation and every comparison once.
MCWakeOps ==
  { [op |-> "SET",  oparg |-> 1, cmp |-> "EQ", cmparg |-> 0],
    [op |-> "ADD",  oparg |-> 1, cmp |-> "NE", cmparg |-> 0],
    [op |-> "OR",   oparg |-> 1, cmp |-> "LT", cmparg |-> 1],
    [op |-> "ANDN", oparg |-> 1, cmp |-> "GE", cmparg |-> 1],
    [op |-> "XOR",  oparg |-> 1, cmp |-> "LE", cmparg |-> 0],
    [op |-> "SET",  oparg |-> 0, cmp |-> "GT", cmparg |-> 0] }
=============================================================================
