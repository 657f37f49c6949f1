------------------------- MODULE VirtualInterrupts -------------------------
(***************************************************************************)
(* Virtual interrupts of the guests on pic32mz: the timer interrupt        *)
(* (arch/mips/pic32mz/timer.c) and the device interrupts redirected to     *)
(* guests (drivers/pic32mz-interrupt-redirect.c), kept in vcpu->guestclt2  *)
(* and, for the guest in execution, in the hardware register GuestCtl2.    *)
(* Composed with the scheduler; no guest blocks here.                      *)
(***************************************************************************)
EXTENDS Scheduler

CONSTANTS
  RedirectSize,   \* vmconf->interrupt_redirect_sz, by VCPU
  GUEST_TICKS     \* GUEST_QUANTUM_MS, in system ticks

(* GuestCtl2.GRIPL has room for two user-defined interrupts.               *)
ASSUME RedirectAssumption ==
  /\ RedirectSize \in [VCPU -> 0..2]
  /\ GUEST_TICKS \in Nat \ {0}

TIMER == 0                     \* GUEST_TIMER_INT
UserInterrupt == 1..2          \* GUEST_USER_DEFINED_INT_1, _2
GuestInterrupt == {TIMER} \cup UserInterrupt

(* interrupt_mapping_list: the j-th redirected IRQ of a VCPU is its j-th   *)
(* user-defined interrupt.  The list is ordered by VCPU, then by j.        *)
Mapping == {[vcpu |-> v, guest |-> j] : v \in VCPU, j \in UserInterrupt}
mappingList == {e \in Mapping : e.guest <= RedirectSize[e.vcpu]}

VARIABLES
  guestclt2,   \* vcpu->guestclt2
  guestCtl2,   \* hardware: interrupts pending for the current guest
  ifs,         \* hardware: mapped IRQs that are flagged
  iec,         \* hardware: mapped IRQs that are enabled
  handling,    \* interrupts each guest is handling
  elapsed,     \* ticks since the last virtual timer interrupt (past, now)
  unseen       \* history: IRQs raised since their guest last took them

irqVars == <<guestclt2, guestCtl2, ifs, iec, handling, elapsed, unseen>>
allVars == <<vars, irqVars>>

-----------------------------------------------------------------------------
(* timer_interrupt_handler()                                               *)

(* GuestCtl2 is not saved.                                                 *)
SavedInterrupts_MutantNone == guestclt2

(* contextSave(), on a switch to another VCPU                              *)
SavedInterrupts ==
  IF executing # NULL
  THEN [guestclt2 EXCEPT ![executing] = @ \cup guestCtl2]
  ELSE guestclt2

(* The interrupts of the next VCPU, given the contexts: contextRestore().  *)
(* A timer interrupt is moved to the hardware, the others are copied.      *)
Restored(saved, next) == IF next = NULL THEN guestCtl2 ELSE saved[next]
AfterRestore(saved, next) ==
  IF next = NULL THEN saved ELSE [saved EXCEPT ![next] = @ \ {TIMER}]

(* After the scheduler, the virtual timer interrupt goes to the hardware   *)
(* register, for whichever guest is there.                                 *)
TimerDue == elapsed + 1 >= GUEST_TICKS
Inject(pendingBits) == IF TimerDue THEN pendingBits \cup {TIMER} ELSE pendingBits

GuestTick ==
  /\ TimerTick
  /\ IF executing' # executing
     THEN /\ guestCtl2' = Inject(Restored(SavedInterrupts, executing'))
          /\ guestclt2' = AfterRestore(SavedInterrupts, executing')
     ELSE /\ guestCtl2' = Inject(guestCtl2)
          /\ UNCHANGED guestclt2
  /\ elapsed' = IF TimerDue THEN 0 ELSE elapsed + 1
  /\ UNCHANGED <<ifs, iec, handling, unseen>>

-----------------------------------------------------------------------------
(* The redirect driver                                                     *)

(* interrupt_injection() scans the list: a flagged interrupt is skipped    *)
(* when GuestCtl2 has one of its number, be it there before or put there   *)
(* by this scan.                                                           *)
Earlier(d, e) ==
  d.vcpu < e.vcpu \/ (d.vcpu = e.vcpu /\ d.guest < e.guest)

(* The test is made on the context of the target.                          *)
Skipped_MutantContext(e) == e.guest \in guestclt2[e.vcpu]

Skipped(e) ==
  \/ e.guest \in guestCtl2
  \/ \E d \in ifs : Earlier(d, e) /\ d.vcpu = executing /\ d.guest = e.guest

Injected == {e \in ifs : ~Skipped(e)}

BitsFor(v) == {e.guest : e \in {d \in Injected : d.vcpu = v}}

(* fast_interrupt_delivery() for each target that is not in execution.     *)
Targets == {e.vcpu : e \in Injected} \ {executing}
FastDeliveries ==
  /\ critical' = [v \in VCPU |-> critical[v] \/ v \in Targets]
  /\ pending' = pending + Cardinality({v \in Targets : ~critical[v]})
  /\ UNCHANGED <<readyList, state, priorityRem, executing, tickCount, init>>

(* interrupt_injection(): every flagged IRQ is acknowledged; one that is   *)
(* not skipped is disabled and passed to its guest, directly if it is in   *)
(* execution and in its context otherwise.                                 *)
InterruptInjection ==
  /\ ifs \cap iec # {}
  /\ ifs' = {}
  /\ iec' = iec \ Injected
  /\ guestCtl2' = IF executing = NULL THEN guestCtl2
                  ELSE guestCtl2 \cup BitsFor(executing)
  /\ guestclt2' = [v \in VCPU |-> IF v = executing THEN guestclt2[v]
                                   ELSE guestclt2[v] \cup BitsFor(v)]
  /\ FastDeliveries
  /\ UNCHANGED <<handling, elapsed, unseen>>

(* reenable_interrupt(), the hypercall at the end of a guest's handler.    *)
ReenableInterrupt(e) ==
  /\ executing = e.vcpu
  /\ e.guest \in handling[e.vcpu]
  /\ iec' = iec \cup {e}
  /\ guestclt2' = [guestclt2 EXCEPT ![e.vcpu] = @ \ {e.guest}]
  /\ handling' = [handling EXCEPT ![e.vcpu] = @ \ {e.guest}]
  /\ UNCHANGED <<vars, guestCtl2, ifs, elapsed, unseen>>

-----------------------------------------------------------------------------
(* Devices and guests                                                      *)

RaiseIRQ(e) ==
  /\ e \notin ifs
  /\ ifs' = ifs \cup {e}
  /\ unseen' = unseen \cup {e}
  /\ UNCHANGED <<vars, guestclt2, guestCtl2, iec, handling, elapsed>>

(* The guest takes all that is pending, which acknowledges it in the       *)
(* hardware, and then calls the handlers one by one.                       *)
TakenBy(v) == {e \in mappingList : e.vcpu = v /\ e.guest \in guestCtl2}

TakeInterrupts(v) ==
  /\ executing = v
  /\ handling[v] = {}
  /\ guestCtl2 # {}
  /\ handling' = [handling EXCEPT ![v] = guestCtl2]
  /\ guestCtl2' = {}
  /\ unseen' = unseen \ (TakenBy(v) \ ifs)
  /\ UNCHANGED <<vars, guestclt2, ifs, iec, elapsed>>

HandleTimer(v) ==
  /\ executing = v
  /\ TIMER \in handling[v]
  /\ handling' = [handling EXCEPT ![v] = @ \ {TIMER}]
  /\ UNCHANGED <<vars, guestclt2, guestCtl2, ifs, iec, elapsed, unseen>>

GuestStep(v) ==
  \/ TakeInterrupts(v)
  \/ HandleTimer(v)
  \/ \E e \in mappingList : e.vcpu = v /\ ReenableInterrupt(e)

-----------------------------------------------------------------------------
(* After interrupt_redirect_init().                                        *)
IrqInit ==
  /\ Init
  /\ guestclt2 = [v \in VCPU |-> {}]
  /\ guestCtl2 = {}
  /\ ifs = {}
  /\ iec = mappingList
  /\ handling = [v \in VCPU |-> {}]
  /\ elapsed = 0
  /\ unseen = {}

IrqNext ==
  \/ GuestTick
  \/ InterruptInjection
  \/ \E v \in VCPU : GuestStep(v)
  \/ \E e \in mappingList : RaiseIRQ(e)

(* Ticks never stop and enabled interrupts are taken; a VCPU dispatched    *)
(* again and again executes instructions.  Devices owe nothing.            *)
IrqSpec == IrqInit /\ [][IrqNext]_allVars
IrqFairSpec ==
  /\ IrqSpec
  /\ WF_allVars(GuestTick)
  /\ WF_allVars(InterruptInjection)
  /\ \A v \in VCPU : SF_allVars(GuestStep(v))

-----------------------------------------------------------------------------
(* Type invariant.                                                         *)
IrqTypeOK ==
  /\ TypeOK
  /\ guestclt2 \in [VCPU -> SUBSET GuestInterrupt]
  /\ guestCtl2 \in SUBSET GuestInterrupt
  /\ ifs \in SUBSET mappingList
  /\ iec \in SUBSET mappingList
  /\ handling \in [VCPU -> SUBSET GuestInterrupt]
  /\ elapsed \in 0..(GUEST_TICKS - 1)
  /\ unseen \in SUBSET mappingList

(* The driver disables an IRQ until its guest re-enables it: whenever one  *)
(* is disabled its guest has the interrupt pending, in its context or in   *)
(* the hardware, or is handling it.  No IRQ is left disabled for good.     *)
DisabledUntilHandled ==
  \A e \in mappingList \ iec :
    \/ e.guest \in guestclt2[e.vcpu] \cup handling[e.vcpu]
    \/ executing = e.vcpu /\ e.guest \in guestCtl2

(* Both copies of the pending bits have their types and account for every  *)
(* IRQ that is disabled.                                                   *)
IrqsAreTracked == IrqTypeOK /\ DisabledUntilHandled

(* "Otherwise, the virtual interrupt will be injected on next execution":  *)
(* the guest of a raised IRQ takes the interrupt, also the last one that   *)
(* its device raises.                                                      *)
InterruptsAreTaken ==
  \A e \in mappingList :
    /\ (e \in unseen) ~> (e.guest \in handling[e.vcpu])
    /\ <>[](e \notin ifs) => <>[](e \notin unseen)
=============================================================================
