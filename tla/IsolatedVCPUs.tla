--------------------------- MODULE IsolatedVCPUs ---------------------------
(***************************************************************************)
(* What the context switch promises the guests: each VCPU has a register   *)
(* file of its own.  Only the VCPU in execution changes registers, and     *)
(* only its own.  When an interrupt gives the processor to another VCPU,   *)
(* or to nobody, no register changes; when a hypercall does, the caller    *)
(* finds its result and is past the instruction.                           *)
(***************************************************************************)
CONSTANTS
  VCPU,      \* the VCPUs
  NULL,      \* not a VCPU: the processor idles
  GPRs,      \* contents of the general-purpose registers
  CP0s,      \* contents of the guest CP0 registers
  PCs,       \* program counters
  After      \* the program counter past an instruction, by program counter

VARIABLES
  executing,   \* the VCPU that has the processor, or NULL
  gpr,         \* register files, one per VCPU
  cp0,
  pc

vars == <<executing, gpr, cp0, pc>>

Init ==
  /\ executing = NULL
  /\ gpr \in [VCPU -> GPRs]
  /\ cp0 \in [VCPU -> CP0s]
  /\ pc \in [VCPU -> PCs]

(* The VCPU in execution computes, with hypercalls that return to it.      *)
Compute ==
  /\ executing # NULL
  /\ \E g \in GPRs : gpr' = [gpr EXCEPT ![executing] = g]
  /\ \E c \in CP0s : cp0' = [cp0 EXCEPT ![executing] = c]
  /\ \E p \in PCs : pc' = [pc EXCEPT ![executing] = p]
  /\ UNCHANGED executing

(* A hypercall after which another VCPU, or nobody, gets the processor.    *)
BlockingCall ==
  /\ executing # NULL
  /\ \E g \in GPRs : gpr' = [gpr EXCEPT ![executing] = g]
  /\ pc' = [pc EXCEPT ![executing] = After[@]]
  /\ executing' \in VCPU \cup {NULL}
  /\ UNCHANGED cp0

(* An interrupt: whoever gets the processor, no register changes.          *)
Dispatch ==
  /\ executing' \in VCPU \cup {NULL}
  /\ UNCHANGED <<gpr, cp0, pc>>

Next == Compute \/ BlockingCall \/ Dispatch

Spec == Init /\ [][Next]_vars
=============================================================================
