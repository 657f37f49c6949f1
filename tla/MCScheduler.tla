---------------------------- MODULE MCScheduler ----------------------------
(* Instances of the scheduler for TLC.                                     *)
EXTENDS Scheduler

(* Three VCPUs whose priorities do not divide each other, so that ageing   *)
(* reaches every order and ties occur.                                     *)
MCPriority == <<2, 3, 5>>
=============================================================================
