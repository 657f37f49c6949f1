------------------------- MODULE MCSchedulerShare --------------------------
(* Instances of the weighted share for TLC.                                *)
EXTENDS SchedulerShare

MCPriority == <<2, 3, 5>>
MCSteady == {1, 3}
=============================================================================
