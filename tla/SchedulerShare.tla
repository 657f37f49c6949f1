--------------------------- MODULE SchedulerShare ---------------------------
(***************************************************************************)
(* The share of the processor each VCPU gets: module Scheduler with        *)
(* vcpu->bgjobs, the count of the times round_robin_scheduler() returned a *)
(* VCPU, and a virtual clock that is not in the code.                      *)
(*                                                                         *)
(* The VCPUs in Steady never block and never receive a fast interrupt; the *)
(* others do anything.                                                     *)
(***************************************************************************)
EXTENDS Scheduler

CONSTANTS
  Steady,       \* VCPUs that only compute
  MAX_JOBS      \* bound: no tick is taken once a bgjobs counter reaches it

ASSUME ShareAssumption ==
  /\ Steady \subseteq VCPU
  /\ MAX_JOBS \in Nat

VARIABLES
  bgjobs,       \* vcpu->bgjobs
  virtualTime   \* sum of the amounts the picks by priority subtracted

shareVars == <<vars, bgjobs, virtualTime>>

(* Both picks of round_robin_scheduler() count one job for the VCPU they   *)
(* return.  The clock advances only with a pick by priority.               *)
CountJob(st) ==
  /\ bgjobs' = IF SchedulingPoint(st) /\ executing' # NULL
               THEN [bgjobs EXCEPT ![executing'] = @ + 1]
               ELSE bgjobs
  /\ virtualTime' =
       IF SchedulingPoint(st) /\ executing' # NULL /\ CriticalAt(st) = {}
       THEN virtualTime + priorityRem[executing']
       ELSE virtualTime

ShareTick ==
  /\ \A v \in VCPU : bgjobs[v] < MAX_JOBS
  /\ TimerTick
  /\ CountJob(state)

ShareGuestBlocks ==
  /\ \A v \in VCPU : bgjobs[v] < MAX_JOBS
  /\ executing \notin Steady
  /\ GuestBlocks
  /\ CountJob([state EXCEPT ![executing] = BLOCKED])

ShareInit == Init /\ bgjobs = [v \in VCPU |-> 0] /\ virtualTime = 0

ShareNext ==
  \/ ShareTick
  \/ ShareGuestBlocks
  \/ \E v \in VCPU : Unblock(v) /\ UNCHANGED <<bgjobs, virtualTime>>
  \/ \E v \in VCPU \ Steady : /\ FastInterruptDelivery(v)
                              /\ UNCHANGED <<bgjobs, virtualTime>>

ShareSpec == ShareInit /\ [][ShareNext]_shareVars

-----------------------------------------------------------------------------
ShareTypeOK ==
  /\ TypeOK
  /\ bgjobs \in [VCPU -> Nat]
  /\ virtualTime \in Nat

SteadyIsReady ==
  \A v \in Steady : state[v] = RUNNING /\ ~critical[v]

(* A steady VCPU is charged its priority for every pick, and what is left  *)
(* of the last charge is its priority_rem.                                 *)
ChargedPerPick ==
  \A v \in Steady :
    Priority[v] * bgjobs[v] + Priority[v] = virtualTime + priorityRem[v]

(* Two VCPUs that only compute share the processor in inverse proportion   *)
(* to their priority values: their weighted counts of scheduling decisions *)
(* differ by at most one decision of the other, whatever the remaining     *)
(* VCPUs do with blocking and fast interrupts.                             *)
WeightedFairShare ==
  \A v, w \in Steady :
    Priority[v] * bgjobs[v] <= Priority[w] * bgjobs[w] + Priority[w]
=============================================================================
