------------------------- MODULE VCPUContextProofs -------------------------
(***************************************************************************)
(* Proofs about the context switch, for every number of VCPUs and shadow   *)
(* sets: the hardware always runs the VCPU the scheduler dispatched, and   *)
(* where no two VCPUs share a register set without saving it, the switch   *)
(* implements a register file per VCPU.                                    *)
(***************************************************************************)
EXTENDS VCPUContext, TLAPS

(* A VCPU in execution was restored before: contextSave() does save it.    *)
IInv ==
  /\ TypeOK
  /\ HardwareRunsTheVCPU
  /\ executing # NULL => ~init[executing]

(* Either a shadow set for each VCPU (pic32mz), or none and registers      *)
(* copied at each switch (baikal-t1).                                      *)
EnoughGPRSets ==
  \/ NVMACHINES <= NUM_SHADOW_GPRS
  \/ NUM_SHADOW_GPRS = 0 /\ PORT_SAVES_GPRS

LEMMA ShadowSetExists ==
  ASSUME NEW v \in VCPU
  PROVE  /\ gprshadowset(v) \in GPRSets
         /\ gprshadowset(v) = 0 <=> NUM_SHADOW_GPRS = 0
  BY ContextAssumption DEF gprshadowset, GPRSets, VCPU

LEMMA AfterInstructionInGuest ==
  ASSUME epc \in PCs
  PROVE  AfterInstruction \in PCs
  BY ContextAssumption DEF AfterInstruction, After, PCs

LEMMA NullIsNoVCPU == NULL \notin VCPU
  BY DEF NULL, VCPU

(* A switch from a trap of a guest, or of the idle loop, at address resume.*)
LEMMA SwitchStep ==
  ASSUME IInv, NEW next \in VCPU \cup {NULL}, NEW regs \in GPRs,
         NEW resume, executing # NULL => resume \in PCs,
         Switch(next, regs, resume)
  PROVE  IInv'
<1> USE DEF IInv, TypeOK
<1>1. /\ savedCP0' \in [VCPU -> CP0s]
      /\ savedPC' \in [VCPU -> PCs]
      /\ savedGPR' \in [VCPU -> GPRs]
  BY NullIsNoVCPU DEF Switch, SavedCP0, SavedPC, SavedGPR, MustSave
<1>2. CASE next = NULL
  BY <1>1, <1>2 DEF Switch, ConfigIdle, HardwareRunsTheVCPU, ROOT
<1>3. CASE next # NULL
  <2>1. next \in VCPU /\ ContextRestore(next, regs, resume)
    BY <1>3 DEF Switch
  <2>2. SavedGPR(regs)[next] \in GPRs /\ SavedPC(resume)[next] \in PCs
        /\ SavedCP0[next] \in CP0s
    BY <1>1, <2>1 DEF Switch
  <2>3. pss' \in GPRSets /\ pss' = gprshadowset(next)
    <3>1. GPRSets = {0} \/ gprshadowset(next) # 0
      BY <2>1, ShadowSetExists, ContextAssumption DEF GPRSets
    <3>2. gprshadowset(next) \in GPRSets
      BY <2>1, ShadowSetExists
    <3>3. QED
      BY <2>1, <3>1, <3>2 DEF ContextRestore
  <2>4. gprSet' \in [GPRSets -> GPRs]
    BY <2>1, <2>2, <2>3 DEF ContextRestore
  <2>5. init' \in [VCPU -> BOOLEAN] /\ ~init'[next]
    BY <2>1 DEF ContextRestore
  <2>6. QED
    BY <1>1, <1>3, <2>1, <2>2, <2>3, <2>4, <2>5
       DEF Switch, ContextRestore, HardwareRunsTheVCPU
<1>4. QED
  BY <1>2, <1>3

LEMMA InitEstablishesIInv == Init => IInv
<1> SUFFICES ASSUME Init PROVE IInv
  OBVIOUS
<1>1. ENTRY_POINT \in PCs /\ 0 \in GPRSets
  BY ContextAssumption DEF ENTRY_POINT, PCs, GPRSets
<1>2. ZEROED \in GPRs /\ ZEROED \in CP0s
  BY ContextAssumption
<1>3. TypeOK
  BY <1>1, <1>2 DEF Init, TypeOK
<1>4. QED
  BY <1>3 DEF Init, IInv, HardwareRunsTheVCPU

LEMMA NextPreservesIInv == IInv /\ [Next]_vars => IInv'
<1> SUFFICES ASSUME IInv, [Next]_vars PROVE IInv'
  OBVIOUS
<1>1. executing # NULL => epc \in PCs
  BY DEF IInv, HardwareRunsTheVCPU
<1>2. guestMode <=> executing # NULL
  BY DEF IInv, HardwareRunsTheVCPU
<1>3. gprSet[pss] \in GPRs
  BY DEF IInv, TypeOK
<1>4. CASE GuestComputes
  BY <1>2, <1>4 DEF GuestComputes, IInv, TypeOK, HardwareRunsTheVCPU, contexts
<1>5. CASE Hypercall
  <2>1. AfterInstruction \in PCs
    BY <1>1, <1>2, <1>5, AfterInstructionInGuest DEF Hypercall
  <2>2. QED
    BY <1>2, <1>5, <2>1 DEF Hypercall, IInv, TypeOK, HardwareRunsTheVCPU
<1>6. CASE IdleTrap
  BY <1>6 DEF IdleTrap, IInv, TypeOK, HardwareRunsTheVCPU, contexts
<1>7. ASSUME NEW next \in VCPU \cup {NULL}, Interrupt(next) PROVE IInv'
  BY <1>1, <1>3, <1>7, SwitchStep DEF Interrupt
<1>8. ASSUME NEW next \in VCPU \cup {NULL}, BlockingHypercall(next) PROVE IInv'
  <2>1. AfterInstruction \in PCs
    BY <1>1, <1>2, <1>8, AfterInstructionInGuest DEF BlockingHypercall
  <2>2. PICK g \in GPRs : Switch(next, g, AfterInstruction)
    BY <1>8 DEF BlockingHypercall
  <2>3. QED
    BY <2>1, <2>2, SwitchStep
<1>9. CASE UNCHANGED vars
  BY <1>9 DEF vars, contexts, hardware, IInv, TypeOK, HardwareRunsTheVCPU
<1>10. QED
  BY <1>4, <1>5, <1>6, <1>7, <1>8, <1>9 DEF Next

THEOREM InvariantHolds == Spec => []IInv
  BY InitEstablishesIInv, NextPreservesIInv, PTL DEF Spec

(* Type correctness.                                                       *)
THEOREM TypeCorrect == Spec => []TypeOK
<1>1. IInv => TypeOK
  BY DEF IInv
<1>2. QED
  BY InvariantHolds, <1>1, PTL

(* eret always resumes the dispatched VCPU, or the idle loop in root mode. *)
THEOREM HardwareFollows == Spec => []HardwareRunsTheVCPU
<1>1. IInv => HardwareRunsTheVCPU
  BY DEF IInv
<1>2. QED
  BY InvariantHolds, <1>1, PTL

-----------------------------------------------------------------------------
(* The refinement.  Mapped registers of the contexts.                      *)
GPR == [v \in VCPU |-> RegistersOf(v)]
CP0 == [v \in VCPU |-> CP0Of(v)]
PC == [v \in VCPU |-> PCOf(v)]

(* The two ports: a set per VCPU and no copies, or one set and copies.     *)
OwnSets ==
  /\ \A v \in VCPU : ~CopiesGPR(v)
  /\ \A v, w \in VCPU : v # w => gprshadowset(v) # gprshadowset(w)
OneSet ==
  /\ GPRSets = {0}
  /\ \A v \in VCPU : CopiesGPR(v) /\ gprshadowset(v) = 0

LEMMA TwoPorts ==
  ASSUME EnoughGPRSets
  PROVE  OwnSets \/ OneSet
<1>1. CASE NVMACHINES <= NUM_SHADOW_GPRS
  <2>1. \A v \in VCPU : v \in Nat /\ v <= NUM_SHADOW_GPRS
    BY <1>1, ContextAssumption DEF VCPU
  <2>2. QED
    BY <2>1, ContextAssumption DEF OwnSets, CopiesGPR, HasGPRArea, gprshadowset
<1>2. CASE NUM_SHADOW_GPRS = 0 /\ PORT_SAVES_GPRS
  BY <1>2, ContextAssumption
     DEF OneSet, GPRSets, CopiesGPR, HasGPRArea, gprshadowset, VCPU
<1>3. QED
  BY <1>1, <1>2 DEF EnoughGPRSets

LEMMA InitRefines == Init => Isolated!Init
<1> SUFFICES ASSUME Init PROVE Isolated!Init
  OBVIOUS
<1>1. TypeOK
  BY InitEstablishesIInv DEF IInv
<1>2. /\ GPR \in [VCPU -> GPRs]
      /\ CP0 \in [VCPU -> CP0s]
      /\ PC \in [VCPU -> PCs]
  BY <1>1, ShadowSetExists, NullIsNoVCPU
     DEF Init, TypeOK, GPR, CP0, PC, RegistersOf, CP0Of, PCOf
<1>3. QED
  BY <1>2 DEF Init, Isolated!Init, GPR, CP0, PC

(* A switch from a guest: the guest's registers are those of the trap, and *)
(* no other VCPU's change.                                                 *)
LEMMA SwitchFromGuest ==
  ASSUME EnoughGPRSets, IInv, executing # NULL, NEW next \in VCPU \cup {NULL},
         NEW regs \in GPRs, NEW resume \in PCs, Switch(next, regs, resume)
  PROVE  /\ GPR' = [GPR EXCEPT ![executing] = regs]
         /\ CP0' = [CP0 EXCEPT ![executing] = guestCP0]
         /\ PC' = [PC EXCEPT ![executing] = resume]
<1>1. /\ executing \in VCPU /\ MustSave
      /\ pss = gprshadowset(executing) /\ pss \in GPRSets
      /\ gprSet \in [GPRSets -> GPRs] /\ savedGPR \in [VCPU -> GPRs]
      /\ savedCP0 \in [VCPU -> CP0s] /\ savedPC \in [VCPU -> PCs]
  BY DEF IInv, TypeOK, HardwareRunsTheVCPU, MustSave
<1>2. executing' = next
  BY DEF Switch
<1>3. CP0' = [CP0 EXCEPT ![executing] = guestCP0]
  <2>1. ASSUME NEW v \in VCPU PROVE CP0Of(v)' = [CP0 EXCEPT ![executing] = guestCP0][v]
    BY <1>1, <1>2, NullIsNoVCPU
       DEF Switch, ContextRestore, SavedCP0, CP0, CP0Of
  <2>2. QED
    BY <2>1 DEF CP0
<1>4. PC' = [PC EXCEPT ![executing] = resume]
  <2>1. ASSUME NEW v \in VCPU PROVE PCOf(v)' = [PC EXCEPT ![executing] = resume][v]
    BY <1>1, <1>2, NullIsNoVCPU
       DEF Switch, ContextRestore, SavedPC, PC, PCOf
  <2>2. QED
    BY <2>1 DEF PC
<1>5. GPR' = [GPR EXCEPT ![executing] = regs]
  <2>1. ASSUME NEW v \in VCPU
        PROVE  RegistersOf(v)' = [GPR EXCEPT ![executing] = regs][v]
    <3>1. CASE OwnSets
      <4>1. gprSet' = [gprSet EXCEPT ![pss] = regs]
        BY <3>1, <1>1 DEF OwnSets, Switch, ConfigIdle, ContextRestore
      <4>2. ~CopiesGPR(v)
        BY <3>1 DEF OwnSets
      <4>3. RegistersOf(v)' = gprSet'[gprshadowset(v)]
        BY <4>2 DEF RegistersOf
      <4>4. GPR[v] = gprSet[gprshadowset(v)]
        BY <4>2 DEF RegistersOf, GPR
      <4>5. v # executing => gprshadowset(v) # pss
        BY <3>1, <1>1 DEF OwnSets
      <4>6. gprshadowset(v) \in GPRSets
        BY ShadowSetExists
      <4>7. QED
        BY <1>1, <4>1, <4>3, <4>4, <4>5, <4>6 DEF GPR
    <3>2. CASE OneSet
      <4>1. CopiesGPR(v) /\ gprshadowset(v) = 0 /\ CopiesGPR(executing) /\ pss = 0
        BY <3>2, <1>1 DEF OneSet
      <4>2. savedGPR' = [savedGPR EXCEPT ![executing] = regs]
        BY <1>1, <4>1 DEF Switch, SavedGPR
      <4>3. CASE v = next
        <5>1. gprSet' = [gprSet EXCEPT ![0] = SavedGPR(regs)[next]]
          BY <3>2, <1>1, <4>1, <4>3, NullIsNoVCPU
             DEF OneSet, Switch, ContextRestore
        <5>2. gprSet'[0] = SavedGPR(regs)[v]
          BY <5>1, <1>1, <3>2, <4>3 DEF OneSet
        <5>3. RegistersOf(v)' = gprSet'[0]
          BY <4>1, <4>3, <1>2 DEF RegistersOf
        <5>4. SavedGPR(regs)[v] = savedGPR'[v]
          BY DEF Switch
        <5>5. QED
          BY <5>2, <5>3, <5>4, <4>1, <4>2, <1>1 DEF GPR, RegistersOf
      <4>4. CASE v # next
        <5>1. RegistersOf(v)' = savedGPR'[v]
          BY <4>1, <4>4, <1>2 DEF RegistersOf
        <5>2. QED
          BY <5>1, <4>1, <4>2, <1>1 DEF GPR, RegistersOf
      <4>5. QED
        BY <4>3, <4>4
    <3>3. QED
      BY <3>1, <3>2, TwoPorts
  <2>2. QED
    BY <2>1 DEF GPR
<1>6. QED
  BY <1>3, <1>4, <1>5

(* A switch from the idle loop changes no VCPU's registers.                *)
LEMMA SwitchFromIdle ==
  ASSUME EnoughGPRSets, IInv, executing = NULL, NEW next \in VCPU \cup {NULL},
         NEW resume, Switch(next, gprSet[pss], resume)
  PROVE  UNCHANGED <<GPR, CP0, PC>>
<1>1. /\ ~MustSave /\ executing' = next /\ UNCHANGED contexts
      /\ gprSet \in [GPRSets -> GPRs] /\ savedGPR \in [VCPU -> GPRs]
  BY DEF IInv, TypeOK, MustSave, Switch, SavedCP0, SavedPC, SavedGPR, contexts
<1>2. UNCHANGED <<CP0, PC>>
  <2>1. ASSUME NEW v \in VCPU PROVE CP0Of(v)' = CP0Of(v) /\ PCOf(v)' = PCOf(v)
    BY <1>1, NullIsNoVCPU
       DEF contexts, Switch, ContextRestore, SavedCP0, SavedPC, CP0Of, PCOf
  <2>2. QED
    BY <2>1 DEF CP0, PC
<1>3. UNCHANGED GPR
  <2>1. ASSUME NEW v \in VCPU PROVE RegistersOf(v)' = RegistersOf(v)
    <3>1. CASE OwnSets
      <4>1. gprSet' = gprSet
        BY <3>1, <1>1 DEF OwnSets, Switch, ConfigIdle, ContextRestore
      <4>2. QED
        BY <3>1, <4>1 DEF OwnSets, RegistersOf
    <3>2. CASE OneSet
      <4>1. CopiesGPR(v) /\ gprshadowset(v) = 0
        BY <3>2 DEF OneSet
      <4>2. savedGPR' = savedGPR /\ SavedGPR(gprSet[pss]) = savedGPR
        BY <1>1 DEF contexts, SavedGPR
      <4>3. v # executing
        BY NullIsNoVCPU
      <4>4. CASE v = next
        <5>1. pss \in GPRSets
          BY DEF IInv, TypeOK
        <5>2. pss = 0
          BY <5>1, <3>2 DEF OneSet
        <5>3. gprSet' = [gprSet EXCEPT ![0] = savedGPR[next]]
          BY <5>2, <4>1, <4>2, <4>4, <1>1, NullIsNoVCPU DEF Switch, ContextRestore
        <5>4. gprSet'[0] = savedGPR[v]
          BY <5>3, <4>4, <3>2, <1>1 DEF OneSet
        <5>5. QED
          BY <5>4, <4>1, <4>3, <4>4, <1>1 DEF RegistersOf
      <4>5. CASE v # next
        BY <4>1, <4>2, <4>3, <4>5, <1>1 DEF RegistersOf
      <4>6. QED
        BY <4>4, <4>5
    <3>3. QED
      BY <3>1, <3>2, TwoPorts
  <2>2. QED
    BY <2>1 DEF GPR
<1>4. QED
  BY <1>2, <1>3

(* A guest that runs on, or gets a hypercall's result, keeps the processor.*)
LEMMA GuestStep ==
  ASSUME EnoughGPRSets, IInv, executing # NULL, NEW g \in GPRs,
         gprSet' = [gprSet EXCEPT ![pss] = g],
         \A v \in VCPU \ {executing} : savedPC'[v] = savedPC[v],
         UNCHANGED <<executing, savedGPR, savedCP0>>
  PROVE  /\ GPR' = [GPR EXCEPT ![executing] = g]
         /\ CP0' = [CP0 EXCEPT ![executing] = guestCP0']
         /\ PC' = [PC EXCEPT ![executing] = epc']
<1>1. /\ executing \in VCPU /\ pss = gprshadowset(executing) /\ pss \in GPRSets
      /\ gprSet \in [GPRSets -> GPRs]
  BY DEF IInv, TypeOK, HardwareRunsTheVCPU
<1>2. ASSUME NEW v \in VCPU
      PROVE  RegistersOf(v)' = [GPR EXCEPT ![executing] = g][v]
  <2>1. CASE OwnSets
    BY <2>1, <1>1, ShadowSetExists DEF OwnSets, GPR, RegistersOf
  <2>2. CASE OneSet
    BY <2>2, <1>1 DEF OneSet, GPR, RegistersOf
  <2>3. QED
    BY <2>1, <2>2, TwoPorts
<1>3. ASSUME NEW v \in VCPU
      PROVE  /\ CP0Of(v)' = [CP0 EXCEPT ![executing] = guestCP0'][v]
             /\ PCOf(v)' = [PC EXCEPT ![executing] = epc'][v]
  BY <1>1 DEF CP0, CP0Of, PC, PCOf
<1>4. QED
  BY <1>2, <1>3 DEF GPR, CP0, PC

(* What the hardware holds for the VCPU in execution is its registers.     *)
LEMMA HardwareRegisters ==
  ASSUME EnoughGPRSets, IInv, executing # NULL
  PROVE  /\ executing \in VCPU
         /\ GPR = [GPR EXCEPT ![executing] = gprSet[pss]]
         /\ CP0 = [CP0 EXCEPT ![executing] = guestCP0]
         /\ PC = [PC EXCEPT ![executing] = epc]
         /\ PC[executing] = epc
<1>1. executing \in VCPU /\ pss = gprshadowset(executing)
  BY DEF IInv, TypeOK, HardwareRunsTheVCPU
<1>2. /\ GPR[executing] = gprSet[pss]
      /\ CP0[executing] = guestCP0
      /\ PC[executing] = epc
  BY <1>1 DEF GPR, CP0, PC, RegistersOf, CP0Of, PCOf
<1>3. QED
  BY <1>1, <1>2 DEF GPR, CP0, PC

(* Every step is a step of the VCPU in execution on its own registers, a   *)
(* dispatch, or invisible.                                                 *)
LEMMA NextRefines ==
  ASSUME EnoughGPRSets, IInv, IInv', [Next]_vars
  PROVE  [Isolated!Next]_(Isolated!vars)
<1>1. guestMode <=> executing # NULL
  BY DEF IInv, HardwareRunsTheVCPU
<1>2. /\ executing' \in VCPU \cup {NULL} /\ guestCP0 \in CP0s /\ gprSet[pss] \in GPRs
      /\ guestCP0' \in CP0s
  BY DEF IInv, TypeOK
<1>3. executing # NULL => epc \in PCs
  BY DEF IInv, HardwareRunsTheVCPU
<1> DEFINE Computes ==
      /\ executing # NULL
      /\ \E g \in GPRs : GPR' = [GPR EXCEPT ![executing] = g]
      /\ \E c \in CP0s : CP0' = [CP0 EXCEPT ![executing] = c]
      /\ \E p \in PCs : PC' = [PC EXCEPT ![executing] = p]
      /\ UNCHANGED executing
    Calls ==
      /\ executing # NULL
      /\ \E g \in GPRs : GPR' = [GPR EXCEPT ![executing] = g]
      /\ PC' = [PC EXCEPT ![executing] = After[PC[executing]]]
      /\ UNCHANGED CP0
    Stays == UNCHANGED <<GPR, CP0, PC>>
<1>4. SUFFICES Computes \/ Calls \/ Stays
  BY <1>2 DEF Isolated!Next, Isolated!Compute, Isolated!BlockingCall,
              Isolated!Dispatch, GPR, CP0, PC
<1>5. CASE GuestComputes
  <2>1. executing # NULL /\ epc' \in PCs
    BY <1>1, <1>5 DEF GuestComputes
  <2>2. PICK g \in GPRs : gprSet' = [gprSet EXCEPT ![pss] = g]
    BY <1>5 DEF GuestComputes
  <2>3. Computes
    BY <1>2, <1>5, <2>1, <2>2, GuestStep DEF GuestComputes, contexts
  <2>4. QED
    BY <2>3
<1>6. CASE Hypercall
  <2>1. executing # NULL /\ epc' \in PCs
    BY <1>1, <1>3, <1>6, AfterInstructionInGuest DEF Hypercall
  <2>2. PICK g \in GPRs : gprSet' = [gprSet EXCEPT ![pss] = g]
    BY <1>6 DEF Hypercall
  <2>3. \A v \in VCPU \ {executing} : savedPC'[v] = savedPC[v]
    BY <1>6 DEF Hypercall, IInv, TypeOK
  <2>4. Computes
    BY <1>2, <1>6, <2>1, <2>2, <2>3, GuestStep DEF Hypercall
  <2>5. QED
    BY <2>4
<1>7. CASE IdleTrap
  <2>1. OneSet
    BY <1>7, TwoPorts, ContextAssumption
       DEF IdleTrap, EnoughGPRSets, OneSet, GPRSets, CopiesGPR, HasGPRArea,
           gprshadowset, VCPU
  <2>2. ASSUME NEW v \in VCPU
        PROVE  RegistersOf(v)' = RegistersOf(v) /\ CP0Of(v)' = CP0Of(v) /\ PCOf(v)' = PCOf(v)
    BY <1>7, <2>1, NullIsNoVCPU
       DEF IdleTrap, OneSet, RegistersOf, CP0Of, PCOf, contexts
  <2>3. QED
    BY <2>2 DEF GPR, CP0, PC
<1>8. ASSUME NEW next \in VCPU \cup {NULL}, Interrupt(next)
      PROVE  Stays
  <2>1. CASE executing = NULL
    BY <1>8, <2>1, SwitchFromIdle DEF Interrupt
  <2>2. CASE executing # NULL
    BY <1>2, <1>3, <1>8, <2>2, SwitchFromGuest, HardwareRegisters DEF Interrupt
  <2>3. QED
    BY <2>1, <2>2
<1>9. ASSUME NEW next \in VCPU \cup {NULL}, BlockingHypercall(next)
      PROVE  Calls
  <2>1. executing # NULL /\ AfterInstruction \in PCs
    BY <1>1, <1>3, <1>9, AfterInstructionInGuest DEF BlockingHypercall
  <2>2. PICK g \in GPRs : Switch(next, g, AfterInstruction)
    BY <1>9 DEF BlockingHypercall
  <2>3. /\ GPR' = [GPR EXCEPT ![executing] = g]
        /\ CP0' = CP0
        /\ PC' = [PC EXCEPT ![executing] = AfterInstruction]
    BY <2>1, <2>2, SwitchFromGuest, HardwareRegisters
  <2>4. AfterInstruction = After[PC[executing]]
    BY <2>1, HardwareRegisters DEF AfterInstruction
  <2>5. QED
    BY <2>1, <2>3, <2>4
<1>10. CASE UNCHANGED vars
  BY <1>10 DEF vars, contexts, hardware, GPR, CP0, PC, RegistersOf, CP0Of, PCOf
<1>11. QED
  BY <1>5, <1>6, <1>7, <1>8, <1>9, <1>10 DEF Next

(* With enough register sets the context switch gives each VCPU a register *)
(* file of its own.                                                        *)
THEOREM ContextsIsolated ==
  ASSUME EnoughGPRSets
  PROVE  Spec => ContextsAreIsolated
<1>1. Init => Isolated!Init
  BY InitRefines
<1>2. IInv /\ IInv' /\ [Next]_vars => [Isolated!Next]_(Isolated!vars)
  BY NextRefines
<1>3. QED
  BY <1>1, <1>2, InvariantHolds, PTL DEF Spec, ContextsAreIsolated, Isolated!Spec
=============================================================================
