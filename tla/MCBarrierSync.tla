---------------------------- MODULE MCBarrierSync ----------------------------
(* Instances of BarrierSync for TLC. *)
EXTENDS BarrierSync, TLC

CONSTANTS c1, c2, c3, c4, t1, t2, t3, t4

Symmetry == Permutations(Cores) \cup Permutations(Threads)
=============================================================================
