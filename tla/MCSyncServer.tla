---------------------------- MODULE MCSyncServer ----------------------------
(* Instances of SyncServer for TLC. *)
EXTENDS SyncServer, TLC

CONSTANTS t1, t2, t3, m1, m2, c1, b1

Count3 == b1 :> 3
=============================================================================
