------------------------ MODULE MCVirtualInterrupts ------------------------
(* Instances of the virtual interrupts for TLC.                            *)
EXTENDS VirtualInterrupts

MCPriority == [v \in VCPU |-> 1]

OneGuestRedirects == <<2, 0>>     \* both IRQs go to VCPU 1
TwoGuestsRedirect == <<1, 1>>     \* one IRQ each
=============================================================================
