--------------------------- MODULE MCSchedulerOpen ---------------------------
(* Instances of SchedulerOpen for TLC. *)
EXTENDS SchedulerOpen, TLC

\* Three tasks on three cores: the first two fit together, the third has to wait
\* until the second is done.
Req3 == 0 :> 1 @@ 1 :> 2 @@ 2 :> 2

\* The first two are there from the start, so that one may be migrated while the
\* other has not started.
Arrival3 == 0 :> 0 @@ 1 :> 0 @@ 2 :> 1

Mask3 == {0, 1, 2}

\* Two tasks of one and two cores, the second arriving later.
Req2 == 0 :> 1 @@ 1 :> 2

ArrivalLate2 == 0 :> 0 @@ 1 :> 2

Mask2 == {0, 1}

\* Two tasks of one core that are there from the start.
ReqOne2 == 0 :> 1 @@ 1 :> 1

ArrivalNow2 == 0 :> 0 @@ 1 :> 0

Mask1 == {0}
=============================================================================
