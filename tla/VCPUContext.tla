---------------------------- MODULE VCPUContext ----------------------------
(***************************************************************************)
(* The context switch: contextSave() and contextRestore() of               *)
(* arch/mips/common/vcpu.c, the general-purpose register (GPR) sets that   *)
(* create_vcpu() assigns, and the traps at which the hypervisor enters and *)
(* leaves a guest.                                                         *)
(*                                                                         *)
(* The VCPU the scheduler picks is left open: any VCPU or none.            *)
(***************************************************************************)
EXTENDS Naturals

CONSTANTS
  NVMACHINES,        \* number of VCPUs
  NUM_SHADOW_GPRS,   \* SRSCTL.HSS: highest shadow set of the processor
  PORT_SAVES_GPRS,   \* gpr_context_save() copies (baikal-t1) or is empty (pic32mz)
  GPRs,              \* contents of a set of general-purpose registers
  CP0s,              \* contents of the guest CP0 registers of a context
  ZEROED,            \* contents after memset(..., 0, ...)
  PC_RANGE           \* guest code addresses, counted in instructions

VCPU == 1..NVMACHINES
NULL == 0
ROOT == 0                     \* guest id of the hypervisor
PCs == 0..(PC_RANGE - 1)
ENTRY_POINT == 0
CPU_IDLE == PC_RANGE          \* address of cpu_idle(), in hypervisor code

ASSUME ContextAssumption ==
  /\ NVMACHINES \in Nat \ {0}
  /\ NUM_SHADOW_GPRS \in Nat
  /\ PORT_SAVES_GPRS \in BOOLEAN
  /\ ZEROED \in GPRs \cap CP0s
  /\ PC_RANGE \in Nat \ {0}

(* Sets counted from zero, the hypervisor's.                               *)
gprshadowset_MutantOffByOne(v) == v + 1

(* create_vcpu(): the set of the VCPU's number while there is one.  Past   *)
(* the last set, every VCPU gets set 1, or set 0 on a processor without    *)
(* shadow sets, and memory for its registers.                              *)
gprshadowset(v) ==
  IF v <= NUM_SHADOW_GPRS THEN v
  ELSE IF NUM_SHADOW_GPRS = 0 THEN 0 ELSE 1

HasGPRArea(v) == v > NUM_SHADOW_GPRS

GPRSets == 0..NUM_SHADOW_GPRS

VARIABLES
  executing,    \* scheduler_info.vcpu_executing
  init,         \* vcpu->init
  savedGPR,     \* vcpu->gpr, for the VCPUs that have one
  savedCP0,     \* vcpu->cp0_registers
  savedPC,      \* vcpu->pc
  gprSet,       \* hardware: the GPR sets (set 0 of baikal-t1: the trap frame)
  guestCP0,     \* hardware: guest CP0 registers
  epc,          \* where eret resumes
  pss,          \* SRSCTL.PSS: the set eret resumes on
  guestID,      \* GuestCtl1.ID
  guestMode     \* GuestCtl0.GM

contexts == <<savedGPR, savedCP0, savedPC>>
hardware == <<gprSet, guestCP0, epc, pss, guestID, guestMode>>
vars == <<executing, init, contexts, hardware>>

-----------------------------------------------------------------------------
(* contextSave(), contextRestore()                                         *)

(* contextSave(): the registers of the VCPU in execution go to its context.*)
(* regs and resume are what the trap left in the guest's GPR set and EPC.  *)
MustSave == executing # NULL /\ ~init[executing]

SavedCP0 ==
  IF MustSave THEN [savedCP0 EXCEPT ![executing] = guestCP0] ELSE savedCP0

(* EPC is not stored: only hypercalls update the program counter.          *)
SavedPC_MutantStale(resume) == savedPC

SavedPC(resume) ==
  IF MustSave THEN [savedPC EXCEPT ![executing] = resume] ELSE savedPC

CopiesGPR(v) == PORT_SAVES_GPRS /\ HasGPRArea(v)

SavedGPR(regs) ==
  IF MustSave /\ CopiesGPR(executing)
  THEN [savedGPR EXCEPT ![executing] = regs]
  ELSE savedGPR

(* setGuestID(0) is missing: the idle loop runs under the last guest's id. *)
ConfigIdle_MutantGuestID(regs) ==
  /\ guestID' = guestID
  /\ guestMode' = FALSE
  /\ epc' = CPU_IDLE
  /\ gprSet' = [gprSet EXCEPT ![pss] = regs]
  /\ UNCHANGED <<init, guestCP0, pss>>

(* config_idle_cpu(): the register sets stay as they are.                  *)
ConfigIdle(regs) ==
  /\ guestID' = ROOT
  /\ guestMode' = FALSE
  /\ epc' = CPU_IDLE
  /\ gprSet' = [gprSet EXCEPT ![pss] = regs]
  /\ UNCHANGED <<init, guestCP0, pss>>

(* contextRestore() of next, from the contexts contextSave() left.         *)
ContextRestore(next, regs, resume) ==
  /\ guestID' = next
  /\ guestMode' = TRUE
  /\ init' = [init EXCEPT ![next] = FALSE]
  /\ guestCP0' = SavedCP0[next]
  /\ epc' = SavedPC(resume)[next]
  /\ pss' = IF gprshadowset(next) # 0 THEN gprshadowset(next) ELSE pss
  /\ gprSet' = IF CopiesGPR(next)
               THEN [gprSet EXCEPT ![pss] = regs, ![pss'] = SavedGPR(regs)[next]]
               ELSE [gprSet EXCEPT ![pss] = regs]

(* run_scheduler() when the VCPU picked is not the one in execution:       *)
(* contextSave(), then vcpu_executing becomes next, then contextRestore(). *)
Switch(next, regs, resume) ==
  /\ next # executing
  /\ savedCP0' = SavedCP0
  /\ savedPC' = SavedPC(resume)
  /\ savedGPR' = SavedGPR(regs)
  /\ executing' = next
  /\ IF next = NULL THEN ConfigIdle(regs) ELSE ContextRestore(next, regs, resume)

-----------------------------------------------------------------------------
(* The guest in execution computes until its next trap.                    *)
GuestComputes ==
  /\ guestMode
  /\ \E g \in GPRs : gprSet' = [gprSet EXCEPT ![pss] = g]
  /\ guestCP0' \in CP0s
  /\ epc' \in PCs
  /\ UNCHANGED <<executing, init, contexts, pss, guestID, guestMode>>

(* An interrupt handler whose run_scheduler() picks another VCPU; any other*)
(* one leaves all of this as it is.                                        *)
Interrupt(next) == Switch(next, gprSet[pss], epc)

(* guest_exit_exception() for a hypercall: the result goes to the guest's  *)
(* GPR set and the guest resumes after the instruction.                    *)
After == [p \in PCs |-> (p + 1) % PC_RANGE]
AfterInstruction == After[epc]

Hypercall ==
  /\ guestMode
  /\ \E g \in GPRs : gprSet' = [gprSet EXCEPT ![pss] = g]
  /\ savedPC' = [savedPC EXCEPT ![executing] = AfterInstruction]
  /\ epc' = AfterInstruction
  /\ UNCHANGED <<executing, init, savedGPR, savedCP0, guestCP0, pss, guestID,
                 guestMode>>

(* The same for a hypercall that blocked the caller: run_scheduler() then  *)
(* switches in the same handler.                                           *)
BlockingHypercall(next) ==
  /\ guestMode
  /\ \E g \in GPRs : Switch(next, g, AfterInstruction)

(* On a port without shadow sets a trap from cpu_idle() leaves the idle    *)
(* loop's registers in the trap frame.                                     *)
IdleTrap ==
  /\ executing = NULL
  /\ NUM_SHADOW_GPRS = 0
  /\ \E g \in GPRs : gprSet' = [gprSet EXCEPT ![0] = g]
  /\ UNCHANGED <<executing, init, contexts, guestCP0, epc, pss, guestID, guestMode>>

-----------------------------------------------------------------------------
(* After initializeMachines(), waiting for the first timer interrupt.      *)
Init ==
  /\ executing = NULL
  /\ init = [v \in VCPU |-> TRUE]
  /\ savedGPR = [v \in VCPU |-> ZEROED]
  /\ savedCP0 = [v \in VCPU |-> ZEROED]
  /\ savedPC = [v \in VCPU |-> ENTRY_POINT]
  /\ gprSet \in [GPRSets -> GPRs]
  /\ guestCP0 \in CP0s
  /\ epc = CPU_IDLE
  /\ pss = 0
  /\ guestID = ROOT
  /\ guestMode = FALSE

Next ==
  \/ GuestComputes
  \/ Hypercall
  \/ IdleTrap
  \/ \E next \in VCPU \cup {NULL} : Interrupt(next) \/ BlockingHypercall(next)

Spec == Init /\ [][Next]_vars

-----------------------------------------------------------------------------
(* Type invariant.                                                         *)
TypeOK ==
  /\ executing \in VCPU \cup {NULL}
  /\ init \in [VCPU -> BOOLEAN]
  /\ savedGPR \in [VCPU -> GPRs]
  /\ savedCP0 \in [VCPU -> CP0s]
  /\ savedPC \in [VCPU -> PCs]
  /\ gprSet \in [GPRSets -> GPRs]
  /\ guestCP0 \in CP0s
  /\ epc \in PCs \cup {CPU_IDLE}
  /\ pss \in GPRSets
  /\ guestID \in VCPU \cup {ROOT}
  /\ guestMode \in BOOLEAN

(* When the hypervisor returns with eret, the hardware resumes the VCPU    *)
(* the scheduler believes in execution: its guest id (which selects its    *)
(* TLB entries), its register set, guest code; or the idle loop, in root   *)
(* mode, when there is none.                                               *)
HardwareRunsTheVCPU ==
  IF executing = NULL
  THEN ~guestMode /\ guestID = ROOT /\ epc = CPU_IDLE
  ELSE /\ guestMode /\ guestID = executing /\ pss = gprshadowset(executing)
       /\ epc \in PCs

(* The registers of a VCPU: in the hardware while it is in execution and,  *)
(* for what a switch does not copy, at any time.                           *)
RegistersOf(v) ==
  IF CopiesGPR(v) /\ v # executing THEN savedGPR[v] ELSE gprSet[gprshadowset(v)]
CP0Of(v) == IF v = executing THEN guestCP0 ELSE savedCP0[v]
PCOf(v) == IF v = executing THEN epc ELSE savedPC[v]

(* The context switch implements a register file per VCPU: a VCPU resumes  *)
(* with the registers, CP0 state and program counter it left, whatever ran *)
(* in between.                                                             *)
Isolated == INSTANCE IsolatedVCPUs WITH
  gpr <- [v \in VCPU |-> RegistersOf(v)],
  cp0 <- [v \in VCPU |-> CP0Of(v)],
  pc <- [v \in VCPU |-> PCOf(v)]
ContextsAreIsolated == Isolated!Spec
=============================================================================
