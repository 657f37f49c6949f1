--------------------------- MODULE MCVCPUContext ---------------------------
(* Instances of the context switch for TLC: two values tell a VCPU's       *)
(* registers from another's.                                               *)
EXTENDS VCPUContext

MCValue == {0, 1}
=============================================================================
