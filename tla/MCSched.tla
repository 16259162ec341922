------------------------------ MODULE MCSched ------------------------------
(* Instances of the scheduler for TLC. *)
EXTENDS Sched

SmallDurations == {0, 2}
=============================================================================
