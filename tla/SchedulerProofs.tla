-------------------------- MODULE SchedulerProofs --------------------------
(***************************************************************************)
(* Proofs about the scheduler, for every number of VCPUs, every assignment *)
(* of priorities, every quantum and every width of the tick counter; at    *)
(* the end the weighted fair share of module SchedulerShare, for every set *)
(* of steady VCPUs.                                                        *)
(***************************************************************************)
EXTENDS SchedulerShare, FiniteSetTheorems, TLAPS

-----------------------------------------------------------------------------
(* The operators the scheduler is built from.                              *)

(* A nonempty set of naturals has a least element: the intervals below its *)
(* elements are finite sets, which strict inclusion orders well.           *)
LEMMA LeastNatural ==
  ASSUME NEW S \in SUBSET Nat, S # {}
  PROVE  \E x \in S : \A y \in S : x <= y
<1> DEFINE Below == {0..x : x \in S}
           R == StrictSubsetOrdering(Nat)
<1>1. Below \subseteq FiniteSubsetsOf(Nat) /\ Below # {}
  <2>1. \A x \in S : 0..x \subseteq Nat /\ IsFiniteSet(0..x)
    BY FS_Interval
  <2>2. QED
    BY <2>1 DEF FiniteSubsetsOf
<1>2. PICK B \in Below : \A C \in Below : <<C, B>> \notin R
  <2>1. IsWellFoundedOn(R, FiniteSubsetsOf(Nat))
    BY FS_StrictSubsetOrderingWellFounded
  <2> HIDE DEF Below, R
  <2>2. QED
    BY <1>1, <2>1, WFMin
<1>3. PICK x \in S : B = 0..x
  OBVIOUS
<1>4. ASSUME NEW y \in S, y < x
      PROVE  FALSE
  <2>1. 0..y \subseteq 0..x /\ x \in 0..x /\ x \notin 0..y
    BY <1>4
  <2>2. <<0..y, B>> \in R
    BY <2>1, <1>3 DEF StrictSubsetOrdering
  <2>3. QED
    BY <2>2, <1>2
<1>5. \A y \in S : x <= y
  BY <1>4
<1>6. QED
  BY <1>5

(* FirstOf picks the least of a nonempty set of queue positions.           *)
LEMMA FirstOfIsMember ==
  ASSUME NEW S \in SUBSET Nat, S # {}
  PROVE  FirstOf(S) \in S
BY LeastNatural DEF FirstOf

(* Rotating the ready queue keeps its length and every VCPU in it.         *)
LEMMA RotateKeepsElements ==
  ASSUME NEW list \in [1..NVMACHINES -> VCPU], NEW i \in 1..NVMACHINES
  PROVE  /\ RotateBy(list, i) \in [1..NVMACHINES -> VCPU]
         /\ \A j \in 1..NVMACHINES :
              \E k \in 1..NVMACHINES : RotateBy(list, i)[k] = list[j]
<1> USE ConfigAssumption
<1>1. list \in Seq(VCPU) /\ Len(list) = NVMACHINES
  OBVIOUS
<1>2. /\ SubSeq(list, i + 1, NVMACHINES) \in Seq(VCPU)
      /\ Len(SubSeq(list, i + 1, NVMACHINES)) = NVMACHINES - i
      /\ \A k \in 1..(NVMACHINES - i) : SubSeq(list, i + 1, NVMACHINES)[k] = list[i + k]
  BY <1>1
<1>3. /\ SubSeq(list, 1, i) \in Seq(VCPU)
      /\ Len(SubSeq(list, 1, i)) = i
      /\ \A k \in 1..i : SubSeq(list, 1, i)[k] = list[k]
  BY <1>1
<1>4. /\ RotateBy(list, i) \in Seq(VCPU)
      /\ Len(RotateBy(list, i)) = NVMACHINES
      /\ \A k \in 1..NVMACHINES :
           RotateBy(list, i)[k] = IF k <= NVMACHINES - i
                                  THEN list[i + k]
                                  ELSE list[k - (NVMACHINES - i)]
  BY <1>1, <1>2, <1>3 DEF RotateBy
<1>5. RotateBy(list, i) \in [1..NVMACHINES -> VCPU]
  BY <1>4
<1>6. ASSUME NEW j \in 1..NVMACHINES
      PROVE  \E k \in 1..NVMACHINES : RotateBy(list, i)[k] = list[j]
  <2>1. CASE j <= i
    <3>1. /\ j + (NVMACHINES - i) \in 1..NVMACHINES
          /\ ~(j + (NVMACHINES - i) <= NVMACHINES - i)
      BY <2>1
    <3>2. RotateBy(list, i)[j + (NVMACHINES - i)] = list[j]
      BY <1>4, <3>1
    <3>3. QED
      BY <3>1, <3>2
  <2>2. CASE j > i
    <3>1. j - i \in 1..NVMACHINES /\ j - i <= NVMACHINES - i
      BY <2>2
    <3>2. RotateBy(list, i)[j - i] = list[j]
      BY <1>4, <3>1
    <3>3. QED
      BY <3>1, <3>2
  <2>3. QED
    BY <2>1, <2>2
<1>7. QED
  BY <1>5, <1>6
-----------------------------------------------------------------------------
(* The inductive invariant.  Each conjunct needs the others: the pick of a *)
(* critical VCPU keeps "pending" a natural only because it counts a        *)
(* nonempty set, and a pick by priority subtracts a minimum over the queue.*)
IInv ==
  /\ TypeOK
  /\ PendingCountsCritical
  /\ ExecutingIsReady
  /\ NobodyLeavesTheQueue

VCPUState == [VCPU -> {RUNNING, BLOCKED}]

LEMMA CriticalIsFinite ==
  IsFiniteSet(VCPU) /\ IsFiniteSet(CriticalVCPUs)
<1>1. IsFiniteSet(VCPU)
  BY FS_Interval, ConfigAssumption DEF VCPU
<1>2. CriticalVCPUs \subseteq VCPU
  BY DEF CriticalVCPUs
<1>3. QED
  BY <1>1, <1>2, FS_Subset

(* The critical VCPU found first loses its mark, and the queue is rotated. *)
LEMMA PickCriticalStep ==
  ASSUME TypeOK, PendingCountsCritical, NobodyLeavesTheQueue,
         NEW st \in VCPUState, NEW next, PickCritical(st, next)
  PROVE  /\ next \in VCPU /\ critical[next] /\ st[next] = RUNNING
         /\ readyList' \in [1..NVMACHINES -> VCPU]
         /\ NobodyLeavesTheQueue'
         /\ critical' \in [VCPU -> BOOLEAN]
         /\ pending' \in Nat
         /\ PendingCountsCritical'
<1> DEFINE i == FirstOf(CriticalAt(st))
<1>1. i \in CriticalAt(st)
  <2>1. CriticalAt(st) \in SUBSET Nat /\ CriticalAt(st) # {}
    BY DEF CriticalAt, PickCritical
  <2>2. QED
    BY <2>1, FirstOfIsMember
<1>2. /\ i \in 1..NVMACHINES
      /\ next = readyList[i]
      /\ next \in VCPU /\ critical[next] /\ st[next] = RUNNING
  BY <1>1, ConfigAssumption DEF CriticalAt, PickCritical, TypeOK
<1>3. /\ readyList' \in [1..NVMACHINES -> VCPU]
      /\ \A j \in 1..NVMACHINES : \E k \in 1..NVMACHINES :
           readyList'[k] = readyList[j]
  <2>1. readyList' = RotateBy(readyList, i)
    BY DEF PickCritical
  <2>2. NVMACHINES \in Nat /\ readyList \in [1..NVMACHINES -> VCPU]
    BY ConfigAssumption DEF TypeOK
  <2>3. i \in 1..NVMACHINES
    BY <1>2
  <2> HIDE DEF i
  <2>4. /\ RotateBy(readyList, i) \in [1..NVMACHINES -> VCPU]
        /\ \A j \in 1..NVMACHINES : \E k \in 1..NVMACHINES :
             RotateBy(readyList, i)[k] = readyList[j]
    BY <2>2, <2>3, RotateKeepsElements
  <2>5. QED
    BY <2>1, <2>4
<1>4. NobodyLeavesTheQueue'
  BY <1>3 DEF NobodyLeavesTheQueue
<1>5. critical' = [critical EXCEPT ![next] = FALSE] /\ pending' = pending - 1
  BY DEF PickCritical
<1>6. CriticalVCPUs' = CriticalVCPUs \ {next} /\ next \in CriticalVCPUs
  BY <1>2, <1>5 DEF CriticalVCPUs, TypeOK
<1>7. /\ Cardinality(CriticalVCPUs') = Cardinality(CriticalVCPUs) - 1
      /\ Cardinality(CriticalVCPUs') \in Nat
  BY <1>6, CriticalIsFinite, FS_RemoveElement, FS_CardinalityType
<1>8. pending' \in Nat /\ PendingCountsCritical'
  BY <1>5, <1>7 DEF PendingCountsCritical
<1>9. QED
  BY <1>2, <1>3, <1>4, <1>5, <1>8 DEF TypeOK

(* A pick by priority subtracts the least priority_rem of the ready VCPUs  *)
(* from the others: no unsigned subtraction wraps.                         *)
LEMMA PickByPriorityStep ==
  ASSUME TypeOK, NobodyLeavesTheQueue,
         NEW st \in VCPUState, NEW next, PickByPriority(st, next)
  PROVE  /\ next \in VCPU /\ st[next] = RUNNING
         /\ \A v \in VCPU : st[v] = RUNNING => priorityRem[next] <= priorityRem[v]
         /\ priorityRem' \in [VCPU -> Nat]
         /\ \A v \in VCPU : priorityRem'[v] <= Priority[v]
<1> DEFINE Rem == {priorityRem[readyList[i]] : i \in EligibleAt(st)}
<1>1. EligibleAt(st) \subseteq 1..NVMACHINES /\ EligibleAt(st) # {}
  BY ConfigAssumption DEF EligibleAt, PickByPriority, TypeOK
<1>2. UrgentAt(st) # {}
  <2>1. Rem \in SUBSET Nat /\ Rem # {}
    BY <1>1 DEF TypeOK
  <2>2. PICK m \in Rem : \A y \in Rem : m <= y
    BY <2>1, LeastNatural
  <2>3. PICK i \in EligibleAt(st) : m = priorityRem[readyList[i]]
    OBVIOUS
  <2>4. QED
    BY <2>2, <2>3 DEF UrgentAt
<1>3. PICK i \in UrgentAt(st) : next = readyList[i]
  <2>1. UrgentAt(st) \in SUBSET Nat
    BY <1>1 DEF UrgentAt
  <2>2. FirstOf(UrgentAt(st)) \in UrgentAt(st)
    BY <2>1, <1>2, FirstOfIsMember
  <2>3. QED
    BY <2>2 DEF PickByPriority
<1>4. /\ next \in VCPU /\ st[next] = RUNNING
      /\ priorityRem[next] < PRIORITY_LIMIT
  BY <1>1, <1>3, ConfigAssumption DEF UrgentAt, EligibleAt, TypeOK
<1>5. ASSUME NEW v \in VCPU, st[v] = RUNNING
      PROVE  priorityRem[next] <= priorityRem[v]
  <2>1. PICK j \in 1..NVMACHINES : readyList[j] = v
    BY DEF NobodyLeavesTheQueue
  <2>2. CASE priorityRem[v] < PRIORITY_LIMIT
    <3>1. j \in EligibleAt(st)
      BY <1>5, <2>1, <2>2, ConfigAssumption DEF EligibleAt, TypeOK
    <3>2. QED
      BY <3>1, <2>1, <1>3 DEF UrgentAt
  <2>3. CASE ~(priorityRem[v] < PRIORITY_LIMIT)
    BY <2>3, <1>4 DEF TypeOK, PRIORITY_LIMIT
  <2>4. QED
    BY <2>2, <2>3
<1>6. priorityRem' =
        [v \in VCPU |->
           IF v = next THEN Priority[v]
           ELSE IF st[v] = RUNNING THEN priorityRem[v] - priorityRem[next]
           ELSE priorityRem[v]]
  BY DEF PickByPriority
<1>7. ASSUME NEW v \in VCPU
      PROVE  priorityRem'[v] \in Nat /\ priorityRem'[v] <= Priority[v]
  <2>1. /\ priorityRem[v] \in Nat /\ priorityRem[next] \in Nat
        /\ Priority[v] \in Nat /\ priorityRem[v] <= Priority[v]
    BY <1>4, ConfigAssumption DEF TypeOK
  <2>2. QED
    BY <2>1, <1>5, <1>6
<1>8. QED
  BY <1>4, <1>5, <1>6, <1>7
(* One run of the round-robin, whoever it picks: NULL only when no ready   *)
(* VCPU is below the priority limit.                                       *)
LEMMA RoundRobinStep ==
  ASSUME TypeOK, PendingCountsCritical, NobodyLeavesTheQueue,
         NEW st \in VCPUState, NEW next, RoundRobin(st, next)
  PROVE  /\ readyList' \in [1..NVMACHINES -> VCPU]
         /\ NobodyLeavesTheQueue'
         /\ critical' \in [VCPU -> BOOLEAN]
         /\ pending' \in Nat
         /\ PendingCountsCritical'
         /\ priorityRem' \in [VCPU -> Nat]
         /\ \A v \in VCPU : priorityRem'[v] <= Priority[v]
         /\ \/ next \in VCPU /\ st[next] = RUNNING
            \/ /\ next = NULL
               /\ \A v \in VCPU : st[v] = RUNNING => priorityRem[v] >= PRIORITY_LIMIT
<1>1. CASE PickCritical(st, next)
  <2>1. UNCHANGED priorityRem
    BY <1>1 DEF PickCritical
  <2>2. QED
    BY <1>1, <2>1, PickCriticalStep DEF TypeOK
<1>2. CASE PickByPriority(st, next)
  <2>1. UNCHANGED <<readyList, critical, pending>>
    BY <1>2 DEF PickByPriority
  <2>2. QED
    BY <1>2, <2>1, PickByPriorityStep
       DEF TypeOK, PendingCountsCritical, CriticalVCPUs, NobodyLeavesTheQueue
<1>3. CASE PickNone(st, next)
  <2>1. UNCHANGED <<readyList, critical, pending, priorityRem>> /\ next = NULL
    BY <1>3 DEF PickNone
  <2>2. ASSUME NEW v \in VCPU, st[v] = RUNNING
        PROVE  priorityRem[v] >= PRIORITY_LIMIT
    <3>1. PICK j \in 1..NVMACHINES : readyList[j] = v
      BY DEF NobodyLeavesTheQueue
    <3>2. j \in 1..Len(readyList)
      BY ConfigAssumption DEF TypeOK
    <3>3. EligibleAt(st) = {}
      BY <1>3 DEF PickNone
    <3>4. ~(priorityRem[v] < PRIORITY_LIMIT)
      BY <2>2, <3>1, <3>2, <3>3 DEF EligibleAt
    <3>5. QED
      BY <3>4 DEF TypeOK, PRIORITY_LIMIT
  <2>3. QED
    BY <2>1, <2>2
       DEF TypeOK, PendingCountsCritical, CriticalVCPUs, NobodyLeavesTheQueue
<1>4. QED
  BY <1>1, <1>2, <1>3 DEF RoundRobin

(* One run of run_scheduler(), for whatever VCPU states the caller leaves, *)
(* as long as only the VCPU in execution can have been blocked by it.      *)
LEMMA RunSchedulerStep ==
  ASSUME IInv, NEW st \in VCPUState, RunScheduler(st),
         executing # NULL => st[executing] = RUNNING \/ SchedulingPoint(st)
  PROVE  IInv'
<1> USE ConfigAssumption
<1>1. state' = st /\ tickCount' \in 0..(TICK_MODULUS - 1)
  BY DEF RunScheduler, IInv, TypeOK
<1>2. CASE ~SchedulingPoint(st)
  <2>1. UNCHANGED <<readyList, critical, priorityRem, pending, executing, init>>
    BY <1>2 DEF RunScheduler
  <2>2. QED
    BY <1>1, <1>2, <2>1
       DEF IInv, TypeOK, VCPUState, PendingCountsCritical, CriticalVCPUs,
           ExecutingIsReady, NobodyLeavesTheQueue
<1>3. CASE SchedulingPoint(st)
  <2>1. PICK next \in VCPU \cup {NULL} : RoundRobin(st, next) /\ SwitchTo(next)
    BY <1>3 DEF RunScheduler
  <2>2. /\ readyList' \in [1..NVMACHINES -> VCPU]
        /\ NobodyLeavesTheQueue'
        /\ critical' \in [VCPU -> BOOLEAN]
        /\ pending' \in Nat
        /\ PendingCountsCritical'
        /\ priorityRem' \in [VCPU -> Nat]
        /\ \A v \in VCPU : priorityRem'[v] <= Priority[v]
    BY <2>1, RoundRobinStep DEF IInv
  <2>3. next \in VCPU => st[next] = RUNNING
    <3>1. next \in VCPU => next # NULL
      BY ConfigAssumption DEF VCPU, NULL
    <3>2. next # NULL => st[next] = RUNNING
      BY <2>1, RoundRobinStep DEF IInv
    <3>3. QED
      BY <3>1, <3>2
  <2>4. /\ executing' = next
        /\ init' \in [VCPU -> BOOLEAN]
        /\ next # NULL => ~init'[next]
    BY <2>1 DEF SwitchTo, IInv, TypeOK, ExecutingIsReady
  <2>5. TypeOK'
    BY <1>1, <2>1, <2>2, <2>4 DEF TypeOK, VCPUState
  <2>6. ExecutingIsReady'
    BY <1>1, <2>1, <2>3, <2>4 DEF ExecutingIsReady
  <2>7. QED
    BY <2>2, <2>5, <2>6 DEF IInv
<1>4. QED
  BY <1>2, <1>3

-----------------------------------------------------------------------------
LEMMA InitEstablishesIInv == Init => IInv
<1> SUFFICES ASSUME Init
             PROVE  IInv
  OBVIOUS
<1> USE ConfigAssumption DEF Init
<1>1. TypeOK
  <2>1. /\ readyList \in [1..NVMACHINES -> VCPU]
        /\ state \in [VCPU -> {RUNNING, BLOCKED}]
        /\ critical \in [VCPU -> BOOLEAN]
        /\ init \in [VCPU -> BOOLEAN]
    BY DEF VCPU
  <2>2. /\ priorityRem \in [VCPU -> Nat]
        /\ \A v \in VCPU : priorityRem[v] <= Priority[v]
    <3>1. priorityRem = Priority /\ Priority \in [VCPU -> 0..255]
      BY DEF PRIORITY_LIMIT
    <3>2. \A v \in VCPU : Priority[v] \in Nat
      BY <3>1
    <3>3. Priority = [v \in VCPU |-> Priority[v]]
      BY <3>1
    <3> HIDE DEF Init
    <3>4. QED
      BY <3>1, <3>2, <3>3
  <2>3. /\ pending \in Nat
        /\ executing \in VCPU \cup {NULL}
        /\ tickCount \in 0..(TICK_MODULUS - 1)
    OBVIOUS
  <2>4. QED
    BY <2>1, <2>2, <2>3 DEF TypeOK
<1>2. PendingCountsCritical
  <2>1. CriticalVCPUs = {}
    BY DEF CriticalVCPUs
  <2>2. QED
    BY <2>1, FS_EmptySet DEF PendingCountsCritical
<1>3. ExecutingIsReady
  BY DEF ExecutingIsReady
<1>4. NobodyLeavesTheQueue
  BY DEF NobodyLeavesTheQueue, VCPU
<1>5. QED
  BY <1>1, <1>2, <1>3, <1>4 DEF IInv
(* Every handler preserves the invariant.                                  *)
LEMMA NextPreservesIInv == IInv /\ [Next]_vars => IInv'
<1> SUFFICES ASSUME IInv, [Next]_vars
             PROVE  IInv'
  OBVIOUS
<1>1. CASE TimerTick
  <2>1. state \in VCPUState
    BY DEF IInv, TypeOK, VCPUState
  <2>2. executing # NULL => state[executing] = RUNNING
    BY DEF IInv, ExecutingIsReady
  <2>3. QED
    BY <1>1, <2>1, <2>2, RunSchedulerStep DEF TimerTick
<1>2. CASE GuestBlocks
  <2> DEFINE st == [state EXCEPT ![executing] = BLOCKED]
  <2>1. executing \in VCPU /\ RunScheduler(st)
    BY <1>2 DEF GuestBlocks, IInv, TypeOK
  <2>2. st \in VCPUState /\ st[executing] = BLOCKED
    BY <2>1 DEF IInv, TypeOK, VCPUState
  <2>3. SchedulingPoint(st)
    BY <1>2, <2>2 DEF SchedulingPoint, GuestBlocks
  <2> HIDE DEF st
  <2>4. QED
    BY <2>1, <2>2, <2>3, RunSchedulerStep
<1>3. ASSUME NEW v \in VCPU, Unblock(v)
      PROVE  IInv'
  <2>1. TypeOK'
    BY <1>3 DEF Unblock, IInv, TypeOK
  <2>2. PendingCountsCritical' /\ NobodyLeavesTheQueue'
    BY <1>3 DEF Unblock, IInv, PendingCountsCritical, CriticalVCPUs,
                NobodyLeavesTheQueue
  <2>3. ExecutingIsReady'
    BY <1>3 DEF Unblock, IInv, TypeOK, ExecutingIsReady
  <2>4. QED
    BY <2>1, <2>2, <2>3 DEF IInv
<1>4. ASSUME NEW v \in VCPU, FastInterruptDelivery(v)
      PROVE  IInv'
  <2>1. /\ critical' = [critical EXCEPT ![v] = TRUE] /\ ~critical[v]
        /\ pending' = pending + 1
        /\ UNCHANGED <<readyList, state, priorityRem, executing, tickCount, init>>
    BY <1>4 DEF FastInterruptDelivery
  <2>2. TypeOK'
    BY <2>1 DEF IInv, TypeOK
  <2>3. CriticalVCPUs' = CriticalVCPUs \cup {v} /\ v \notin CriticalVCPUs
    BY <2>1 DEF CriticalVCPUs, IInv, TypeOK
  <2>4. Cardinality(CriticalVCPUs') = Cardinality(CriticalVCPUs) + 1
    BY <2>3, CriticalIsFinite, FS_AddElement
  <2>5. PendingCountsCritical'
    BY <2>1, <2>4 DEF IInv, PendingCountsCritical
  <2>6. NobodyLeavesTheQueue' /\ ExecutingIsReady'
    BY <2>1 DEF IInv, NobodyLeavesTheQueue, ExecutingIsReady
  <2>7. QED
    BY <2>2, <2>5, <2>6 DEF IInv
<1>5. CASE UNCHANGED vars
  BY <1>5 DEF vars, IInv, TypeOK, PendingCountsCritical, CriticalVCPUs,
              ExecutingIsReady, NobodyLeavesTheQueue
<1>6. QED
  BY <1>1, <1>2, <1>3, <1>4, <1>5 DEF Next

THEOREM InvariantHolds == Spec => []IInv
BY InitEstablishesIInv, NextPreservesIInv, PTL DEF Spec

(* Types, and with them: priority_rem never wraps and never exceeds the    *)
(* configured priority.                                                    *)
THEOREM TypeCorrect == Spec => []TypeOK
<1>1. IInv => TypeOK
  BY DEF IInv
<1>2. QED
  BY <1>1, InvariantHolds, PTL

(* The pending counter of scheduler.c is the number of critical VCPUs.     *)
THEOREM PendingIsExact == Spec => []PendingCountsCritical
<1>1. IInv => PendingCountsCritical
  BY DEF IInv
<1>2. QED
  BY <1>1, InvariantHolds, PTL

(* A blocked or never restored VCPU is never in execution.                 *)
THEOREM ExecutingVCPUIsReady == Spec => []ExecutingIsReady
<1>1. IInv => ExecutingIsReady
  BY DEF IInv
<1>2. QED
  BY <1>1, InvariantHolds, PTL

(* vcpu_ready_list always holds every VCPU.                                *)
THEOREM QueueIsComplete == Spec => []NobodyLeavesTheQueue
<1>1. IInv => NobodyLeavesTheQueue
  BY DEF IInv
<1>2. QED
  BY <1>1, InvariantHolds, PTL
-----------------------------------------------------------------------------
(* What a run of the scheduler does to the processor: it is given to a     *)
(* ready VCPU, or to nobody because every ready VCPU has reached the       *)
(* priority limit.                                                         *)
LEMMA RunSchedulerDispatch ==
  ASSUME IInv, NEW st \in VCPUState, RunScheduler(st)
  PROVE  /\ state' = st
         /\ executing' # executing => SchedulingPoint(st)
         /\ executing' # executing /\ executing' = NULL =>
              \A v \in VCPU : st[v] = RUNNING => priorityRem[v] >= PRIORITY_LIMIT
<1>1. state' = st
  BY DEF RunScheduler
<1>2. CASE ~SchedulingPoint(st)
  BY <1>1, <1>2 DEF RunScheduler
<1>3. CASE SchedulingPoint(st)
  <2>1. PICK next \in VCPU \cup {NULL} : RoundRobin(st, next) /\ SwitchTo(next)
    BY <1>3 DEF RunScheduler
  <2>2. executing' = next
    BY <2>1 DEF SwitchTo
  <2>3. NULL \notin VCPU
    BY ConfigAssumption DEF VCPU, NULL
  <2>4. \/ next \in VCPU
        \/ \A v \in VCPU : st[v] = RUNNING => priorityRem[v] >= PRIORITY_LIMIT
    BY <2>1, RoundRobinStep DEF IInv
  <2>5. QED
    BY <1>1, <1>3, <2>2, <2>3, <2>4
<1>4. QED
  BY <1>2, <1>3

(* No handler but the scheduler hands the processor over.                  *)
LEMMA OnlyTheSchedulerDispatches ==
  ASSUME IInv, Next, executing' # executing
  PROVE  \E st \in VCPUState : RunScheduler(st)
<1>1. CASE TimerTick
  BY <1>1 DEF TimerTick, IInv, TypeOK, VCPUState
<1>2. CASE GuestBlocks
  <2>1. [state EXCEPT ![executing] = BLOCKED] \in VCPUState
    BY DEF IInv, TypeOK, VCPUState
  <2>2. QED
    BY <1>2, <2>1 DEF GuestBlocks
<1>3. QED
  BY <1>1, <1>2 DEF Next, Unblock, FastInterruptDelivery

(* When every configured priority is below 255, the processor enters       *)
(* cpu_idle() only if all VCPUs are blocked.                               *)
THEOREM IdleOnlyWhenNobodyReady ==
  ASSUME \A v \in VCPU : Priority[v] < PRIORITY_LIMIT
  PROVE  Spec => IdleMeansNobodyReady
<1> DEFINE Idle == GoesIdle => \A v \in VCPU : state'[v] = BLOCKED
<1>1. IInv /\ [Next]_vars => [Idle]_vars
  <2> SUFFICES ASSUME IInv, Next, GoesIdle, NEW v \in VCPU, state'[v] # BLOCKED
               PROVE  FALSE
    BY DEF vars
  <2>1. executing' # executing /\ executing' = NULL
    BY DEF GoesIdle
  <2>2. PICK st \in VCPUState : RunScheduler(st)
    BY <2>1, OnlyTheSchedulerDispatches
  <2>3. st[v] = RUNNING => priorityRem[v] >= PRIORITY_LIMIT
    BY <2>1, <2>2, RunSchedulerDispatch
  <2>4. priorityRem[v] < PRIORITY_LIMIT
    <3>1. priorityRem[v] \in Nat /\ priorityRem[v] <= Priority[v]
      BY DEF IInv, TypeOK
    <3>2. Priority[v] \in Nat /\ Priority[v] < PRIORITY_LIMIT
      BY ConfigAssumption
    <3>3. QED
      BY <3>1, <3>2 DEF PRIORITY_LIMIT
  <2>5. st[v] = RUNNING
    <3>1. state' = st
      BY <2>2, RunSchedulerDispatch
    <3>2. QED
      BY <3>1 DEF VCPUState
  <2>6. priorityRem[v] \in Nat
    BY DEF IInv, TypeOK
  <2>7. QED
    BY <2>3, <2>4, <2>5, <2>6 DEF PRIORITY_LIMIT
<1> HIDE DEF Idle
<1>2. Spec => [][Idle]_vars
  BY <1>1, InvariantHolds, PTL DEF Spec
<1>3. QED
  BY <1>2 DEF IdleMeansNobodyReady, Idle

(* A ready VCPU is preempted in the middle of its quantum only while some  *)
(* VCPU is marked critical.                                                *)
THEOREM QuantumKept == Spec => QuantumIsKept
<1> DEFINE Kept == PreemptedEarly => CriticalVCPUs # {}
<1>1. IInv /\ [Next]_vars => [Kept]_vars
  <2> SUFFICES ASSUME IInv, Next, PreemptedEarly
               PROVE  CriticalVCPUs # {}
    BY DEF vars
  <2>1. /\ executing # NULL /\ executing' # executing
        /\ state'[executing] = RUNNING
        /\ tickCount % TICKS_BEFORE_SCHEDULING # 0
    BY DEF PreemptedEarly
  <2>2. PICK st \in VCPUState : RunScheduler(st)
    BY <2>1, OnlyTheSchedulerDispatches
  <2>3. SchedulingPoint(st) /\ state' = st
    BY <2>1, <2>2, RunSchedulerDispatch
  <2>4. pending # 0
    BY <2>1, <2>3 DEF SchedulingPoint, RUNNING, BLOCKED
  <2>5. QED
    BY <2>4, FS_EmptySet DEF IInv, PendingCountsCritical
<1> HIDE DEF Kept
<1>2. Spec => [][Kept]_vars
  BY <1>1, InvariantHolds, PTL DEF Spec
<1>3. QED
  BY <1>2 DEF QuantumIsKept, Kept

-----------------------------------------------------------------------------
(* The share of the processor.                                             *)

(* The charge equation is inductive together with the scheduler's own      *)
(* invariant, because a steady VCPU is never picked as critical and never  *)
(* skipped by the ageing of the ready VCPUs.                               *)
ShareIInv ==
  /\ IInv
  /\ ShareTypeOK
  /\ SteadyIsReady
  /\ ChargedPerPick

(* One more job costs one more priority.                                   *)
LEMMA ChargeOfOneJob ==
  ASSUME NEW p \in Nat, NEW b \in Nat
  PROVE  p * (b + 1) = p * b + p
OBVIOUS

LEMMA ShareTypesAt ==
  ASSUME ShareIInv, NEW v \in VCPU
  PROVE  /\ Priority[v] \in Nat
         /\ bgjobs[v] \in Nat
         /\ virtualTime \in Nat
         /\ priorityRem[v] \in Nat
         /\ priorityRem[v] <= Priority[v]
<1>1. Priority[v] \in Nat
  BY ConfigAssumption DEF PRIORITY_LIMIT
<1>2. bgjobs[v] \in Nat /\ virtualTime \in Nat
  BY DEF ShareIInv, ShareTypeOK
<1>3. priorityRem[v] \in Nat /\ priorityRem[v] <= Priority[v]
  BY DEF ShareIInv, ShareTypeOK, TypeOK
<1>4. QED
  BY <1>1, <1>2, <1>3

(* One run of the scheduler that leaves the steady VCPUs ready.            *)
LEMMA SchedulingKeepsCharge ==
  ASSUME ShareIInv, NEW st \in VCPUState, RunScheduler(st), CountJob(st),
         \A v \in Steady : st[v] = RUNNING
  PROVE  /\ bgjobs' \in [VCPU -> Nat]
         /\ virtualTime' \in Nat
         /\ SteadyIsReady'
         /\ ChargedPerPick'
<1> USE ConfigAssumption, ShareAssumption
<1>1. CASE ~SchedulingPoint(st)
  <2>1. UNCHANGED <<readyList, critical, priorityRem, bgjobs, virtualTime>>
    BY <1>1 DEF RunScheduler, CountJob
  <2>2. state' = st
    BY DEF RunScheduler
  <2>3. QED
    BY <2>1, <2>2 DEF ShareIInv, ShareTypeOK, SteadyIsReady, ChargedPerPick
<1>2. CASE SchedulingPoint(st)
  <2>1. PICK next \in VCPU \cup {NULL} : RoundRobin(st, next) /\ SwitchTo(next)
    BY <1>2 DEF RunScheduler
  <2>2. state' = st /\ executing' = next
    BY <2>1 DEF RunScheduler, SwitchTo
  <2>3. NULL \notin VCPU
    BY DEF VCPU, NULL
  <2>4. CASE PickCritical(st, next)
    <3>1. next \in VCPU /\ critical[next]
      BY <2>4, PickCriticalStep DEF ShareIInv, IInv
    <3>2. /\ critical' = [critical EXCEPT ![next] = FALSE]
          /\ UNCHANGED priorityRem
          /\ CriticalAt(st) # {}
      BY <2>4 DEF PickCritical
    <3>3. bgjobs' = [bgjobs EXCEPT ![next] = @ + 1] /\ UNCHANGED virtualTime
      BY <1>2, <2>2, <2>3, <3>1, <3>2 DEF CountJob
    <3>4. next \notin Steady
      BY <3>1 DEF ShareIInv, SteadyIsReady
    <3>5. \A v \in Steady : bgjobs'[v] = bgjobs[v] /\ critical'[v] = critical[v]
      BY <3>1, <3>2, <3>3, <3>4 DEF ShareIInv, ShareTypeOK, TypeOK
    <3>6. SteadyIsReady' /\ ChargedPerPick'
      BY <2>2, <3>2, <3>3, <3>5 DEF ShareIInv, SteadyIsReady, ChargedPerPick
    <3>7. QED
      BY <3>1, <3>3, <3>6 DEF ShareIInv, ShareTypeOK
  <2>5. CASE PickByPriority(st, next)
    <3>1. next \in VCPU
      BY <2>5, PickByPriorityStep DEF ShareIInv, IInv
    <3>2. /\ UNCHANGED critical
          /\ CriticalAt(st) = {}
          /\ \A v \in Steady :
               priorityRem'[v] = IF v = next THEN Priority[v]
                                 ELSE priorityRem[v] - priorityRem[next]
      BY <2>5 DEF PickByPriority
    <3>3. /\ bgjobs' = [bgjobs EXCEPT ![next] = @ + 1]
          /\ virtualTime' = virtualTime + priorityRem[next]
      BY <1>2, <2>2, <2>3, <3>1, <3>2 DEF CountJob
    <3>4. priorityRem[next] \in Nat
      BY <3>1 DEF ShareIInv, ShareTypeOK, TypeOK
    <3>5. SteadyIsReady'
      BY <2>2, <3>2 DEF ShareIInv, SteadyIsReady
    <3>6. ASSUME NEW v \in Steady
          PROVE  Priority[v] * bgjobs'[v] + Priority[v] = virtualTime' + priorityRem'[v]
      <4>1. /\ Priority[v] \in Nat /\ bgjobs[v] \in Nat /\ virtualTime \in Nat
            /\ priorityRem[v] \in Nat
            /\ Priority[v] * bgjobs[v] + Priority[v] = virtualTime + priorityRem[v]
        <5>1. v \in VCPU
          OBVIOUS
        <5>2. /\ Priority[v] \in Nat /\ bgjobs[v] \in Nat /\ virtualTime \in Nat
              /\ priorityRem[v] \in Nat
          BY <5>1, ShareTypesAt
        <5>3. QED
          BY <5>2 DEF ShareIInv, ChargedPerPick
      <4>2. CASE v = next
        <5>1. bgjobs'[v] = bgjobs[v] + 1 /\ priorityRem'[v] = Priority[v]
          BY <4>2, <3>1, <3>2, <3>3 DEF ShareIInv, ShareTypeOK
        <5>2. Priority[v] * (bgjobs[v] + 1) = Priority[v] * bgjobs[v] + Priority[v]
          BY <4>1, ChargeOfOneJob
        <5>3. Priority[v] * bgjobs'[v] = virtualTime + priorityRem[v]
          BY <5>1, <5>2, <4>1
        <5>4. QED
          BY <5>1, <5>3, <4>2, <3>3
      <4>3. CASE v # next
        <5>1. /\ bgjobs'[v] = bgjobs[v]
              /\ priorityRem'[v] = priorityRem[v] - priorityRem[next]
          BY <4>3, <3>1, <3>2, <3>3 DEF ShareIInv, ShareTypeOK
        <5>2. virtualTime' + priorityRem'[v] = virtualTime + priorityRem[v]
          BY <5>1, <4>1, <3>3, <3>4
        <5>3. QED
          BY <5>1, <5>2, <4>1
      <4>4. QED
        BY <4>2, <4>3
    <3>7. QED
      BY <3>1, <3>3, <3>4, <3>5, <3>6 DEF ShareIInv, ShareTypeOK, ChargedPerPick
  <2>6. CASE PickNone(st, next)
    <3>1. next = NULL /\ UNCHANGED <<critical, priorityRem>>
      BY <2>6 DEF PickNone
    <3>2. UNCHANGED <<bgjobs, virtualTime>>
      BY <2>2, <3>1 DEF CountJob
    <3>3. QED
      BY <2>2, <3>1, <3>2
         DEF ShareIInv, ShareTypeOK, SteadyIsReady, ChargedPerPick
  <2>7. QED
    BY <2>1, <2>4, <2>5, <2>6 DEF RoundRobin
<1>3. QED
  BY <1>1, <1>2
-----------------------------------------------------------------------------
LEMMA ShareInitEstablishesIInv == ShareInit => ShareIInv
<1> SUFFICES ASSUME ShareInit
             PROVE  ShareIInv
  OBVIOUS
<1> USE ConfigAssumption, ShareAssumption
<1>1. IInv
  BY InitEstablishesIInv DEF ShareInit
<1>2. ShareTypeOK
  BY <1>1 DEF ShareInit, ShareTypeOK, IInv
<1>3. SteadyIsReady
  BY DEF ShareInit, Init, SteadyIsReady
<1>4. ChargedPerPick
  <2> SUFFICES ASSUME NEW v \in Steady
               PROVE  Priority[v] * bgjobs[v] + Priority[v] = virtualTime + priorityRem[v]
    BY DEF ChargedPerPick
  <2>1. v \in VCPU
    OBVIOUS
  <2>2. bgjobs[v] = 0 /\ virtualTime = 0 /\ priorityRem[v] = Priority[v]
    BY <2>1 DEF ShareInit, Init
  <2>3. Priority[v] \in Nat
    BY <2>1 DEF PRIORITY_LIMIT
  <2>4. QED
    BY <2>2, <2>3
<1>5. QED
  BY <1>1, <1>2, <1>3, <1>4 DEF ShareIInv

LEMMA ShareNextIsNext == [ShareNext]_shareVars => [Next]_vars
BY DEF ShareNext, ShareTick, ShareGuestBlocks, Next, shareVars

LEMMA ShareNextPreservesIInv == ShareIInv /\ [ShareNext]_shareVars => ShareIInv'
<1> SUFFICES ASSUME ShareIInv, [ShareNext]_shareVars
             PROVE  ShareIInv'
  OBVIOUS
<1> USE ConfigAssumption, ShareAssumption
<1>1. IInv'
  BY ShareNextIsNext, NextPreservesIInv DEF ShareIInv
<1>2. CASE ShareTick
  <2>1. RunScheduler(state) /\ CountJob(state)
    BY <1>2 DEF ShareTick, TimerTick
  <2>2. state \in VCPUState /\ \A v \in Steady : state[v] = RUNNING
    BY DEF ShareIInv, ShareTypeOK, TypeOK, VCPUState, SteadyIsReady
  <2>3. QED
    BY <1>1, <2>1, <2>2, SchedulingKeepsCharge DEF ShareIInv, ShareTypeOK, IInv
<1>3. CASE ShareGuestBlocks
  <2> DEFINE st == [state EXCEPT ![executing] = BLOCKED]
  <2>1. RunScheduler(st) /\ CountJob(st) /\ executing \notin Steady
    BY <1>3 DEF ShareGuestBlocks, GuestBlocks
  <2>2. st \in VCPUState /\ \A v \in Steady : st[v] = RUNNING
    BY <2>1 DEF ShareIInv, ShareTypeOK, TypeOK, VCPUState, SteadyIsReady
  <2> HIDE DEF st
  <2>3. QED
    BY <1>1, <2>1, <2>2, SchedulingKeepsCharge DEF ShareIInv, ShareTypeOK, IInv
<1>4. ASSUME NEW v \in VCPU, Unblock(v), UNCHANGED <<bgjobs, virtualTime>>
      PROVE  ShareIInv'
  BY <1>1, <1>4
     DEF Unblock, ShareIInv, ShareTypeOK, TypeOK, IInv, SteadyIsReady, ChargedPerPick
<1>5. ASSUME NEW v \in VCPU \ Steady, FastInterruptDelivery(v),
             UNCHANGED <<bgjobs, virtualTime>>
      PROVE  ShareIInv'
  BY <1>1, <1>5
     DEF FastInterruptDelivery, ShareIInv, ShareTypeOK, TypeOK, IInv,
         SteadyIsReady, ChargedPerPick
<1>6. CASE UNCHANGED shareVars
  BY <1>1, <1>6
     DEF shareVars, vars, ShareIInv, ShareTypeOK, IInv, SteadyIsReady, ChargedPerPick
<1>7. QED
  BY <1>2, <1>3, <1>4, <1>5, <1>6 DEF ShareNext

(* The charge equation at two VCPUs gives the bound: what is left of a     *)
(* charge is between zero and the priority.                                *)
LEMMA ChargeGivesFairShare == ShareIInv => WeightedFairShare
<1> SUFFICES ASSUME ShareIInv, NEW v \in Steady, NEW w \in Steady
             PROVE  Priority[v] * bgjobs[v] <= Priority[w] * bgjobs[w] + Priority[w]
  BY DEF WeightedFairShare
<1> DEFINE cv == Priority[v] * bgjobs[v]
           cw == Priority[w] * bgjobs[w]
<1>1. v \in VCPU /\ w \in VCPU
  BY ShareAssumption
<1>2. /\ Priority[v] \in Nat /\ Priority[w] \in Nat
      /\ bgjobs[v] \in Nat /\ bgjobs[w] \in Nat
      /\ virtualTime \in Nat
      /\ priorityRem[v] \in Nat /\ priorityRem[v] <= Priority[v]
      /\ priorityRem[w] \in Nat
  BY <1>1, ShareTypesAt
<1>3. cv \in Nat /\ cw \in Nat
  BY <1>2
<1>4. /\ cv + Priority[v] = virtualTime + priorityRem[v]
      /\ cw + Priority[w] = virtualTime + priorityRem[w]
  BY DEF ShareIInv, ChargedPerPick
<1> HIDE DEF cv, cw
<1>5. cv <= cw + Priority[w]
  BY <1>2, <1>3, <1>4
<1>6. QED
  BY <1>5 DEF cv, cw

(* The weighted fair share of steady VCPUs.                                *)
THEOREM FairShare == ShareSpec => []WeightedFairShare
<1>1. ShareSpec => []ShareIInv
  BY ShareInitEstablishesIInv, ShareNextPreservesIInv, PTL DEF ShareSpec
<1>2. QED
  BY <1>1, ChargeGivesFairShare, PTL
=============================================================================
