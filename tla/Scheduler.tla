----------------------------- MODULE Scheduler -----------------------------
(***************************************************************************)
(* The VCPU scheduler of the hypervisor: sys/kernel/scheduler.c, with the  *)
(* callers that decide when it runs (the timer interrupt handler and the   *)
(* guest-exit exception) and the part of the context switch that changes   *)
(* scheduling state.                                                       *)
(*                                                                         *)
(* The hypervisor runs its handlers with interrupts disabled (EXL set), so *)
(* every handler is one action.  Guests are preempted between handlers.    *)
(***************************************************************************)
EXTENDS Integers, Sequences, FiniteSets

CONSTANTS
  NVMACHINES,               \* number of virtual machines, one VCPU each
  Priority,                 \* vcpu->priority, from the configuration file
  TICKS_BEFORE_SCHEDULING,  \* system ticks in one scheduler quantum
  TICK_MODULUS              \* tick_count is a uint32_t: 2^32 in the code

VCPU == 1..NVMACHINES       \* create_vcpu() numbers VCPUs from 1
NULL == 0                   \* no VCPU in execution: the processor idles

(* highestp starts at 255 and is compared with a strict ">": a VCPU whose  *)
(* priority_rem is 255 is not a candidate.                                 *)
PRIORITY_LIMIT == 255

(* genconf.c accepts any priority in 0..255.                               *)
ASSUME ConfigAssumption ==
  /\ NVMACHINES \in Nat \ {0}
  /\ Priority \in [VCPU -> 0..PRIORITY_LIMIT]
  /\ TICKS_BEFORE_SCHEDULING \in Nat \ {0}
  /\ TICK_MODULUS \in Nat \ {0}

VARIABLES
  readyList,     \* scheduler_info.vcpu_ready_list, head first
  state,         \* vcpu->state
  critical,      \* vcpu->critical
  priorityRem,   \* vcpu->priority_rem
  pending,       \* static counter of critical events
  executing,     \* scheduler_info.vcpu_executing
  tickCount,     \* static tick_count
  init           \* vcpu->init: the VCPU was never restored

vars == <<readyList, state, critical, priorityRem, pending, executing,
          tickCount, init>>

RUNNING == "RUNNING"        \* VCPU_RUNNING: ready, whether on the CPU or not
BLOCKED == "BLOCKED"        \* VCPU_BLOCKED

-----------------------------------------------------------------------------
(* round_robin_scheduler()                                                 *)

(* Definitions whose name ends in _Mutant... are faulty variants of the    *)
(* definition that follows them; nothing uses them but the mutation runs   *)
(* that show each property can fail.                                       *)

(* The VCPU put at the tail is not the one taken from the head.            *)
RotateBy_MutantTail(list, i) == SubSeq(list, 2, Len(list)) \o <<list[i]>>

(* i removals from the head, each followed by an insertion at the tail.    *)
RotateBy(list, i) == SubSeq(list, i + 1, Len(list)) \o SubSeq(list, 1, i)

FirstOf(S) == CHOOSE i \in S : \A j \in S : i <= j

(* Queue positions of the VCPUs that bypass the queue.  st is the state of *)
(* the VCPUs when the scheduler runs.                                      *)
CriticalAt(st) ==
  {i \in 1..Len(readyList) : critical[readyList[i]] /\ st[readyList[i]] = RUNNING}

(* The scan skips the VCPU that is leaving the processor.                  *)
EligibleAt_MutantSkip(st) ==
  {i \in 1..Len(readyList) : /\ st[readyList[i]] = RUNNING
                             /\ priorityRem[readyList[i]] < PRIORITY_LIMIT
                             /\ readyList[i] # executing}

(* Queue positions of the VCPUs the priority scan may pick.                *)
EligibleAt(st) ==
  {i \in 1..Len(readyList) : /\ st[readyList[i]] = RUNNING
                             /\ priorityRem[readyList[i]] < PRIORITY_LIMIT}

(* Among those, the positions with the least priority_rem.                 *)
UrgentAt(st) ==
  {i \in EligibleAt(st) : \A j \in EligibleAt(st) :
                            priorityRem[readyList[i]] <= priorityRem[readyList[j]]}

(* The queue is put back as it was: the served VCPU stays in front.        *)
PickCritical_MutantNoRotation(st, next) ==
  /\ CriticalAt(st) # {}
  /\ next = readyList[FirstOf(CriticalAt(st))]
  /\ critical' = [critical EXCEPT ![next] = FALSE]
  /\ pending' = pending - 1
  /\ UNCHANGED <<readyList, priorityRem>>

(* The served event stays pending.                                         *)
PickCritical_MutantPending(st, next) ==
  LET i == FirstOf(CriticalAt(st))
  IN /\ CriticalAt(st) # {}
     /\ next = readyList[i]
     /\ readyList' = RotateBy(readyList, i)
     /\ critical' = [critical EXCEPT ![next] = FALSE]
     /\ UNCHANGED <<pending, priorityRem>>

(* The first critical VCPU met while rotating the queue is returned at     *)
(* once: the queue stays rotated just past it and no priority is updated.  *)
PickCritical(st, next) ==
  LET i == FirstOf(CriticalAt(st))
  IN /\ CriticalAt(st) # {}
     /\ next = readyList[i]
     /\ readyList' = RotateBy(readyList, i)
     /\ critical' = [critical EXCEPT ![next] = FALSE]
     /\ pending' = pending - 1
     /\ UNCHANGED priorityRem

(* The picked VCPU is recharged but nobody ages.                           *)
PickByPriority_MutantNoAgeing(st, next) ==
  /\ CriticalAt(st) = {}
  /\ EligibleAt(st) # {}
  /\ next = readyList[FirstOf(UrgentAt(st))]
  /\ priorityRem' = [priorityRem EXCEPT ![next] = Priority[next]]
  /\ UNCHANGED <<readyList, critical, pending>>

(* Ageing by the priority instead of what remained of it.                  *)
PickByPriority_MutantAgeing(st, next) ==
  /\ CriticalAt(st) = {}
  /\ EligibleAt(st) # {}
  /\ next = readyList[FirstOf(UrgentAt(st))]
  /\ priorityRem' =
       [v \in VCPU |->
          IF v = next THEN Priority[v]
          ELSE IF st[v] = RUNNING THEN priorityRem[v] - Priority[next]
          ELSE priorityRem[v]]
  /\ UNCHANGED <<readyList, critical, pending>>

(* Otherwise the first VCPU with the least priority_rem: every other ready *)
(* VCPU ages by that amount.  Complete rotations leave the queue as it was.*)
PickByPriority(st, next) ==
  /\ CriticalAt(st) = {}
  /\ EligibleAt(st) # {}
  /\ next = readyList[FirstOf(UrgentAt(st))]
  /\ priorityRem' =
       [v \in VCPU |->
          IF v = next THEN Priority[v]
          ELSE IF st[v] = RUNNING THEN priorityRem[v] - priorityRem[next]
          ELSE priorityRem[v]]
  /\ UNCHANGED <<readyList, critical, pending>>

PickNone(st, next) ==
  /\ CriticalAt(st) = {}
  /\ EligibleAt(st) = {}
  /\ next = NULL
  /\ UNCHANGED <<readyList, critical, pending, priorityRem>>

RoundRobin(st, next) ==
  \/ PickCritical(st, next)
  \/ PickByPriority(st, next)
  \/ PickNone(st, next)

-----------------------------------------------------------------------------
(* run_scheduler()                                                         *)

(* When the VCPU picked is another one, contextSave() and contextRestore():*)
(* only the first restore of a VCPU changes scheduling state.              *)
SwitchTo(next) ==
  /\ executing' = next
  /\ init' = IF next \notin {NULL, executing}
             THEN [init EXCEPT ![next] = FALSE] ELSE init

(* The check that the VCPU in execution was blocked is missing.            *)
SchedulingPoint_MutantBlocked(st) ==
  \/ tickCount % TICKS_BEFORE_SCHEDULING = 0
  \/ pending # 0

SchedulingPoint(st) ==
  \/ tickCount % TICKS_BEFORE_SCHEDULING = 0
  \/ pending # 0
  \/ executing # NULL /\ st[executing] = BLOCKED

(* st: the VCPU states the caller leaves behind.                           *)
RunScheduler(st) ==
  /\ state' = st
  /\ tickCount' = (tickCount + 1) % TICK_MODULUS
  /\ \/ /\ SchedulingPoint(st)
        /\ \E next \in VCPU \cup {NULL} : /\ RoundRobin(st, next)
                                          /\ SwitchTo(next)
     \/ /\ ~SchedulingPoint(st)
        /\ UNCHANGED <<readyList, critical, priorityRem, pending, executing, init>>

-----------------------------------------------------------------------------
(* The handlers that reach the scheduler                                   *)

(* timer_interrupt_handler()                                               *)
TimerTick == RunScheduler(state)

(* guest_exit_exception(): a hypercall of the VCPU in execution blocked it *)
(* (only the UART driver does), so the scheduler runs before returning.    *)
GuestBlocks ==
  /\ executing # NULL
  /\ RunScheduler([state EXCEPT ![executing] = BLOCKED])

(* A device interrupt handler makes a blocked VCPU ready again.  It does   *)
(* not call the scheduler.                                                 *)
Unblock(v) ==
  /\ state[v] = BLOCKED
  /\ state' = [state EXCEPT ![v] = RUNNING]
  /\ UNCHANGED <<readyList, critical, priorityRem, pending, executing,
                 tickCount, init>>

(* A second event for a VCPU that is already marked is counted again.      *)
FastInterruptDelivery_MutantTwice(target) ==
  /\ executing # target
  /\ pending < NVMACHINES + 1
  /\ critical' = [critical EXCEPT ![target] = TRUE]
  /\ pending' = pending + 1
  /\ UNCHANGED <<readyList, state, priorityRem, executing, tickCount, init>>

(* fast_interrupt_delivery(target), from a device interrupt handler or     *)
(* from the hypercall that sends a message.                                *)
FastInterruptDelivery(target) ==
  /\ executing # target
  /\ ~critical[target]
  /\ critical' = [critical EXCEPT ![target] = TRUE]
  /\ pending' = pending + 1
  /\ UNCHANGED <<readyList, state, priorityRem, executing, tickCount, init>>

-----------------------------------------------------------------------------
(* After initializeMachines(): the queue in creation order, every field    *)
(* zeroed by create_vcpu() but init and the priorities.                    *)
Init ==
  /\ readyList = [i \in 1..NVMACHINES |-> i]
  /\ state = [v \in VCPU |-> RUNNING]
  /\ critical = [v \in VCPU |-> FALSE]
  /\ priorityRem = Priority
  /\ pending = 0
  /\ executing = NULL
  /\ tickCount = 0
  /\ init = [v \in VCPU |-> TRUE]

Next ==
  \/ TimerTick
  \/ GuestBlocks
  \/ \E v \in VCPU : Unblock(v)
  \/ \E v \in VCPU : FastInterruptDelivery(v)

(* The CP0 timer is re-armed at the start of every timer interrupt, so     *)
(* ticks never stop.  Guests and devices owe nothing.                      *)
Spec == Init /\ [][Next]_vars
FairSpec == Spec /\ WF_vars(TimerTick)

-----------------------------------------------------------------------------
(* Type invariant.  The unsigned priority_rem never wraps below zero and   *)
(* never exceeds the configured priority.                                  *)
TypeOK ==
  /\ readyList \in [1..NVMACHINES -> VCPU]
  /\ state \in [VCPU -> {RUNNING, BLOCKED}]
  /\ critical \in [VCPU -> BOOLEAN]
  /\ priorityRem \in [VCPU -> Nat]
  /\ \A v \in VCPU : priorityRem[v] <= Priority[v]
  /\ pending \in Nat
  /\ executing \in VCPU \cup {NULL}
  /\ tickCount \in 0..(TICK_MODULUS - 1)
  /\ init \in [VCPU -> BOOLEAN]

(* "pending", which decides whether a tick reschedules, is exactly the     *)
(* number of VCPUs marked critical: fast_interrupt_delivery() and          *)
(* round_robin_scheduler() never count an event twice or forget one.       *)
CriticalVCPUs == {v \in VCPU : critical[v]}
PendingCountsCritical == pending = Cardinality(CriticalVCPUs)

(* Between handlers the VCPU in execution is ready and has been restored   *)
(* at least once (contextSave() relies on both): a guest never resumes     *)
(* after the hypercall that blocked it.                                    *)
ExecutingIsReady ==
  executing # NULL => state[executing] = RUNNING /\ ~init[executing]

(* However the queue is rotated, every VCPU stays in it.                   *)
NobodyLeavesTheQueue ==
  \A v \in VCPU : \E i \in 1..NVMACHINES : readyList[i] = v

(* The processor enters cpu_idle() only when no VCPU is ready.             *)
GoesIdle == executing # NULL /\ executing' = NULL
IdleMeansNobodyReady == [][GoesIdle => \A v \in VCPU : state'[v] = BLOCKED]_vars

(* A VCPU that is still ready loses the processor in the middle of its     *)
(* quantum only while some fast interrupt is waiting for delivery.         *)
PreemptedEarly ==
  /\ executing # NULL /\ executing' # executing
  /\ state'[executing] = RUNNING
  /\ tickCount % TICKS_BEFORE_SCHEDULING # 0
QuantumIsKept == [][PreemptedEarly => CriticalVCPUs # {}]_vars

(* A VCPU with a fast interrupt that does not stay blocked is eventually   *)
(* picked, however many fast interrupts the other VCPUs receive: a served  *)
(* VCPU goes behind the others in the queue.                               *)
FastInterruptServed ==
  \A v \in VCPU :
    (critical[v] /\ <>[](state[v] = RUNNING)) ~> ~critical[v]

(* A ready VCPU is eventually dispatched once the fast interrupts cease:   *)
(* ageing lets no priority starve, whatever the others do with blocking.   *)
EveryReadyVCPURuns ==
  \A v \in VCPU :
    (<>[](state[v] = RUNNING) /\ <>[](CriticalVCPUs = {})) => []<>(executing = v)
=============================================================================
