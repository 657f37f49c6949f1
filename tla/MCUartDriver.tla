---------------------------- MODULE MCUartDriver ----------------------------
(* Instances of the console driver for TLC: equal priorities.              *)
EXTENDS UartDriver

MCPriority == [v \in VCPU |-> 1]
=============================================================================
