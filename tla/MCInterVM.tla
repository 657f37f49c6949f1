----------------------------- MODULE MCInterVM -----------------------------
(* Instances of inter-VM communication for TLC: VCPU 2 receives from the   *)
(* other VCPU and from itself.                                             *)
EXTENDS InterVM

MCPriority == [v \in VCPU |-> 1]
MCTraffic == [source : {1, 2}, target : {2}, payload : {0, 1}]
=============================================================================
