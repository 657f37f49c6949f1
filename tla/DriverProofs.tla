---------------------------- MODULE DriverProofs ----------------------------
(***************************************************************************)
(* Proofs about the two drivers that move the VCPUs of the scheduler.      *)
(* UartDriver: for every number of VCPUs, every configuration of the       *)
(* scheduler, every depth of the transmit queue and every length of the    *)
(* messages.  VirtualInterrupts: for every number of guests and every      *)
(* assignment of redirected IRQs, an IRQ that the redirect driver disabled *)
(* is on its way to its guest, so no order of IRQs, ticks, switches and    *)
(* hypercalls leaves one disabled for good.                                *)
(***************************************************************************)
EXTENDS UartDriver, VirtualInterrupts, SchedulerProofs

-----------------------------------------------------------------------------
(* The inductive invariant.                                                *)

(* A queued transfer has characters left; only the active one has begun.   *)
TransfersHaveRest ==
  /\ \A v \in Queued : transfers[v].next < transfers[v].size
  /\ \A v \in Queued \ {activeTransfer} : transfers[v].next = 0

(* The last characters written are the last of their message, or the ones  *)
(* the active transfer goes on from.                                       *)
BurstGoesOn ==
  \/ /\ burst.to = burst.size
     /\ activeTransfer # NULL => transfers[activeTransfer].next = 0
  \/ /\ activeTransfer # NULL
     /\ burst.vcpu = activeTransfer
     /\ burst.size = transfers[activeTransfer].size
     /\ burst.to = transfers[activeTransfer].next

UartInv ==
  /\ IInv
  /\ TransfersAreTracked
  /\ TransfersHaveRest
  /\ BurstGoesOn

Transfer == [pending : BOOLEAN, next : 0..MAX_SIZE, size : 0..MAX_SIZE]
Burst == [vcpu : VCPU \cup {NULL}, from : 0..MAX_SIZE, to : 0..MAX_SIZE,
          size : 0..MAX_SIZE]

-----------------------------------------------------------------------------
(* The operators the handlers are built from.                              *)

(* NULL stands for the -1 of active_transfer: it names no VCPU.            *)
LEMMA NullIsNoVCPU == NULL \notin VCPU
BY ConfigAssumption DEF VCPU, NULL

(* The first of the waiting transfers is one of them.                      *)
LEMMA FirstWaiting ==
  ASSUME NEW S \in SUBSET VCPU, S # {}
  PROVE  FirstOf(S) \in S
BY FirstOfIsMember, ConfigAssumption DEF VCPU

(* What the loop that fills the transmit queue leaves behind.              *)
LEMMA WriteLoopStep ==
  ASSUME UartTypeOK, NEW v \in VCPU, NEW first \in 0..MAX_SIZE,
         NEW size \in 0..MAX_SIZE, NEW last, WriteLoop(v, first, size, last)
  PROVE  /\ last \in 0..MAX_SIZE /\ first <= last /\ last <= size
         /\ fifo' \in 0..FIFO_DEPTH
         /\ burst' \in Burst
         /\ last = first => burst' = burst
         /\ last # first => burst' = [vcpu |-> v, from |-> first, to |-> last,
                                      size |-> size]
<1>1. last \in first..size /\ fifo' \in 0..FIFO_DEPTH
  BY DEF WriteLoop
<1>2. last \in 0..MAX_SIZE /\ first <= last /\ last <= size
  BY <1>1, UartAssumption
<1>3. burst' = IF last = first THEN burst
               ELSE [vcpu |-> v, from |-> first, to |-> last, size |-> size]
  BY DEF WriteLoop
<1>4. burst' \in Burst
  BY <1>2, <1>3 DEF UartTypeOK, Burst
<1>5. QED
  BY <1>1, <1>2, <1>3, <1>4

(* The flag stays a Boolean, whichever of the two outcomes it has.         *)
LEMMA FlagSteps ==
  ASSUME UartTypeOK, FlagAfterWriting \/ FlagAfterClear
  PROVE  irqFlag' \in BOOLEAN
BY DEF FlagAfterWriting, FlagAfterClear, UartTypeOK

-----------------------------------------------------------------------------
LEMMA UartInitEstablishesInv == UartInit => UartInv
<1> SUFFICES ASSUME UartInit
             PROVE  UartInv
  OBVIOUS
<1>1. IInv /\ \A v \in VCPU : state[v] = RUNNING
  BY InitEstablishesIInv DEF UartInit, Init
<1>2. Queued = {} /\ activeTransfer = NULL /\ irqEnabled = FALSE
  BY DEF UartInit, Queued, NoTransfer
<1>3. UartTypeOK
  <2>1. NoTransfer \in Transfer /\ 0 \in 0..FIFO_DEPTH /\ 0 \in 0..MAX_SIZE
    BY UartAssumption DEF NoTransfer, Transfer
  <2>2. transfers \in [VCPU -> Transfer]
    BY <2>1 DEF UartInit
  <2>3. QED
    BY <1>1, <2>1, <2>2 DEF UartInit, UartTypeOK, IInv, Transfer
<1>4. BlockedWhileQueued /\ InterruptHasATransfer
  BY <1>1, <1>2 DEF BlockedWhileQueued, InterruptHasATransfer, RUNNING, BLOCKED
<1>5. TransfersHaveRest
  BY <1>2 DEF TransfersHaveRest
<1>6. BurstGoesOn
  BY <1>2 DEF BurstGoesOn, UartInit
<1>7. QED
  BY <1>1, <1>3, <1>4, <1>5, <1>6 DEF UartInv, TransfersAreTracked

(* The active transfer is a queued one, and its VCPU is blocked.           *)
LEMMA ActiveIsQueued ==
  ASSUME UartInv, irqEnabled
  PROVE  /\ activeTransfer \in VCPU /\ activeTransfer \in Queued
         /\ state[activeTransfer] = BLOCKED
         /\ transfers[activeTransfer] \in Transfer
         /\ transfers[activeTransfer].next < transfers[activeTransfer].size
<1>1. activeTransfer \in Queued /\ Queued \subseteq VCPU
  BY DEF UartInv, TransfersAreTracked, InterruptHasATransfer, Queued
<1>2. transfers[activeTransfer].next < transfers[activeTransfer].size
  BY <1>1 DEF UartInv, TransfersHaveRest
<1>3. state[activeTransfer] = BLOCKED
  BY <1>1, <1>2 DEF UartInv, TransfersAreTracked, BlockedWhileQueued
<1>4. transfers[activeTransfer] \in Transfer
  BY <1>1 DEF UartInv, TransfersAreTracked, UartTypeOK, Transfer
<1>5. QED
  BY <1>1, <1>2, <1>3, <1>4

(* Every step of the driver is one of the scheduler or leaves it alone.    *)
LEMMA UartStepsSchedule ==
  ASSUME UartInv, UartNext
  PROVE  [Next]_vars
<1>1. CASE UartTimerTick
  BY <1>1 DEF UartTimerTick, Next
<1>2. CASE TransferTxDone
  <2>1. activeTransfer \in VCPU
    BY <1>2, ActiveIsQueued DEF TransferTxDone
  <2>2. Unblock(activeTransfer) \/ UNCHANGED vars
    BY <1>2 DEF TransferTxDone, FinishTransfer
  <2>3. QED
    BY <2>1, <2>2 DEF Next
<1>3. CASE UartTransmits
  BY <1>3 DEF UartTransmits
<1>4. ASSUME NEW size \in 1..MAX_SIZE, Send(size)
      PROVE  [Next]_vars
  BY <1>4 DEF Send, Next
<1>5. QED
  BY <1>1, <1>2, <1>3, <1>4 DEF UartNext

(* send(): a message that fits leaves no transfer; the rest of one that    *)
(* does not is queued and its VCPU, which had none, is blocked.            *)
LEMMA SendStep ==
  ASSUME UartInv, NEW size \in 1..MAX_SIZE, Send(size)
  PROVE  UartInv'
<1> DEFINE v == executing
<1> USE UartAssumption
<1>1. PICK last \in 0..size :
         /\ StartWriting(v, size, last)
         /\ IF last < size
            THEN SchedulerTransferInterrupt(v, last, size) /\ GuestBlocks
            ELSE UNCHANGED <<vars, transfers, activeTransfer, irqEnabled>>
  BY DEF Send
<1>2. v \in VCPU /\ state[v] = RUNNING /\ v \notin Queued
  <2>1. v \in VCPU /\ state[v] = RUNNING
    BY DEF Send, UartInv, IInv, TypeOK, ExecutingIsReady
  <2>2. QED
    BY <2>1 DEF UartInv, TransfersAreTracked, BlockedWhileQueued, TransfersHaveRest,
                RUNNING, BLOCKED
<1>3. v # activeTransfer
  BY <1>2, NullIsNoVCPU DEF UartInv, TransfersAreTracked, InterruptHasATransfer
<1>4. IInv'
  <2>1. UartNext
    BY DEF UartNext
  <2>2. QED
    BY <2>1, UartStepsSchedule, NextPreservesIInv DEF UartInv
<1>5. UartTypeOK /\ size \in 0..MAX_SIZE
  BY DEF UartInv, TransfersAreTracked
<1>6. /\ fifo' \in 0..FIFO_DEPTH /\ irqFlag' \in BOOLEAN /\ burst' \in Burst
      /\ activeTransfer # NULL \/ last = 0 => burst' = burst
      /\ activeTransfer = NULL /\ last # 0 =>
           burst' = [vcpu |-> v, from |-> 0, to |-> last, size |-> size]
      /\ activeTransfer # NULL => last = 0
  <2>1. CASE activeTransfer = NULL
    <3>1. WriteLoop(v, 0, size, last) /\ FlagAfterWriting
      BY <1>1, <2>1 DEF StartWriting
    <3>2. QED
      BY <1>2, <1>5, <2>1, <3>1, WriteLoopStep, FlagSteps
  <2>2. CASE activeTransfer # NULL
    <3>1. last = 0 /\ UNCHANGED <<fifo, burst, irqFlag>>
      BY <1>1, <2>2 DEF StartWriting
    <3>2. QED
      BY <1>5, <2>2, <3>1 DEF UartTypeOK, Burst
  <2>3. QED
    BY <2>1, <2>2
<1>7. CASE last < size
  <2>1. /\ transfers' = [transfers EXCEPT ![v] =
                           [pending |-> TRUE, next |-> last, size |-> size]]
        /\ activeTransfer = NULL => irqEnabled' = TRUE /\ activeTransfer' = v
        /\ activeTransfer # NULL => UNCHANGED <<irqEnabled, activeTransfer>>
    BY <1>1, <1>7 DEF SchedulerTransferInterrupt
  <2>2. state' = [state EXCEPT ![v] = BLOCKED]
    BY <1>1, <1>7 DEF GuestBlocks, RunScheduler
  <2>3. transfers' \in [VCPU -> Transfer]
    <3>1. [pending |-> TRUE, next |-> last, size |-> size] \in Transfer
      BY <1>5 DEF Transfer
    <3>2. transfers \in [VCPU -> Transfer]
      BY <1>5 DEF UartTypeOK, Transfer
    <3>3. QED
      BY <2>1, <3>1, <3>2
  <2>4. UartTypeOK'
    BY <1>2, <1>4, <1>5, <1>6, <2>1, <2>3 DEF UartTypeOK, IInv, Transfer, Burst
  <2>5. Queued' = Queued \cup {v}
    BY <1>2, <1>5, <2>1 DEF Queued, UartTypeOK
  <2>6. BlockedWhileQueued'
    BY <1>2, <1>5, <1>7, <2>1, <2>2, <2>5
       DEF BlockedWhileQueued, UartInv, TransfersAreTracked, UartTypeOK, IInv, TypeOK
  <2>7. InterruptHasATransfer'
    BY <1>2, <2>1, <2>5, NullIsNoVCPU
       DEF InterruptHasATransfer, UartInv, TransfersAreTracked
  <2>8. TransfersHaveRest'
    <3>1. ASSUME NEW w \in Queued'
          PROVE  /\ transfers'[w].next < transfers'[w].size
                 /\ w # activeTransfer' => transfers'[w].next = 0
      <4>1. CASE w = v
        BY <1>2, <1>5, <1>6, <1>7, <2>1, <4>1 DEF UartTypeOK
      <4>2. CASE w # v
        <5>1. w \in Queued /\ transfers'[w] = transfers[w] /\ w \in VCPU
          BY <2>1, <2>5, <4>2, <1>5 DEF UartTypeOK, Queued
        <5>2. w # activeTransfer' => w # activeTransfer
          BY <2>1, <5>1, NullIsNoVCPU
        <5>3. QED
          BY <5>1, <5>2 DEF UartInv, TransfersHaveRest
      <4>3. QED
        BY <4>1, <4>2
    <3>2. QED
      BY <3>1 DEF TransfersHaveRest
  <2>9. BurstGoesOn'
    <3>1. CASE activeTransfer = NULL
      <4>1. activeTransfer' = v /\ transfers'[v].next = last /\ transfers'[v].size = size
        BY <1>2, <1>5, <2>1, <3>1 DEF UartTypeOK
      <4>2. CASE last = 0
        BY <1>6, <3>1, <4>1, <4>2 DEF BurstGoesOn, UartInv
      <4>3. CASE last # 0
        BY <1>2, <1>6, <3>1, <4>1, <4>3, NullIsNoVCPU DEF BurstGoesOn
      <4>4. QED
        BY <4>2, <4>3
    <3>2. CASE activeTransfer # NULL
      <4>1. activeTransfer' = activeTransfer
            /\ transfers'[activeTransfer] = transfers[activeTransfer]
        BY <1>3, <1>5, <2>1, <3>2 DEF UartTypeOK
      <4>2. QED
        BY <1>6, <3>2, <4>1 DEF BurstGoesOn, UartInv
    <3>3. QED
      BY <3>1, <3>2
  <2>10. QED
    BY <1>4, <2>4, <2>6, <2>7, <2>8, <2>9 DEF UartInv, TransfersAreTracked
<1>8. CASE last = size
  <2>1. UNCHANGED <<vars, transfers, activeTransfer, irqEnabled>>
    BY <1>1, <1>8
  <2>2. activeTransfer = NULL /\ last # 0
    BY <1>6, <1>8
  <2>3. UartTypeOK'
    BY <1>4, <1>5, <1>6, <2>1 DEF UartTypeOK, IInv, Burst
  <2>4. BlockedWhileQueued' /\ InterruptHasATransfer' /\ TransfersHaveRest'
    BY <2>1 DEF vars, UartInv, TransfersAreTracked, BlockedWhileQueued,
                InterruptHasATransfer, TransfersHaveRest, Queued
  <2>5. BurstGoesOn'
    BY <1>6, <1>8, <2>1, <2>2 DEF BurstGoesOn
  <2>6. QED
    BY <1>4, <2>3, <2>4, <2>5 DEF UartInv, TransfersAreTracked
<1>9. QED
  BY <1>7, <1>8

(* The handler when it has written the end of the active message: its VCPU *)
(* is ready again and the next transfer, if any, is the active one.        *)
LEMMA FinishStep ==
  ASSUME UartInv, TransferTxDone, FinishTransfer(activeTransfer),
         burst'.to = burst'.size, IInv', UartTypeOK'
  PROVE  UartInv'
<1> DEFINE v == activeTransfer
           waiting == Queued \ {v}
<1>1. v \in VCPU /\ v \in Queued
  BY ActiveIsQueued DEF TransferTxDone
<1>2. /\ state' = [state EXCEPT ![v] = RUNNING]
      /\ transfers' = [transfers EXCEPT ![v] = NoTransfer]
      /\ waiting # {} => activeTransfer' = FirstOf(waiting) /\ UNCHANGED irqEnabled
      /\ waiting = {} => activeTransfer' = NULL /\ irqEnabled' = FALSE
  BY DEF FinishTransfer, NextTransfer, Unblock
<1>3. /\ transfers \in [VCPU -> Transfer] /\ irqEnabled
      /\ state \in [VCPU -> {RUNNING, BLOCKED}]
  BY DEF UartInv, TransfersAreTracked, UartTypeOK, Transfer, TransferTxDone, IInv, TypeOK
<1>4. /\ Queued' = waiting
      /\ \A w \in waiting : transfers'[w] = transfers[w]
  BY <1>1, <1>2, <1>3 DEF Queued, NoTransfer
<1>5. waiting # {} => FirstOf(waiting) \in waiting
  BY FirstWaiting DEF Queued
<1>6. BlockedWhileQueued'
  <2>1. ASSUME NEW w \in VCPU
        PROVE  (state'[w] = BLOCKED) <=>
                 (w \in Queued' /\ transfers'[w].next < transfers'[w].size)
    <3>1. CASE w = v
      BY <1>2, <1>3, <1>4, <3>1 DEF RUNNING, BLOCKED
    <3>2. CASE w # v
      <4>1. state'[w] = state[w] /\ transfers'[w] = transfers[w]
        BY <1>2, <1>3, <3>2
      <4>2. w \in Queued' <=> w \in Queued
        BY <1>4, <3>2
      <4>3. QED
        BY <4>1, <4>2 DEF UartInv, TransfersAreTracked, BlockedWhileQueued
    <3>3. QED
      BY <3>1, <3>2
  <2>2. QED
    BY <2>1 DEF BlockedWhileQueued
<1>7. InterruptHasATransfer'
  BY <1>1, <1>2, <1>3, <1>4, <1>5, NullIsNoVCPU DEF InterruptHasATransfer, Queued
<1>8. TransfersHaveRest'
  BY <1>4 DEF TransfersHaveRest, UartInv
<1>9. BurstGoesOn'
  <2>1. activeTransfer' # NULL => transfers'[activeTransfer'].next = 0
    BY <1>2, <1>4, <1>5 DEF UartInv, TransfersHaveRest
  <2>2. QED
    BY <2>1 DEF BurstGoesOn
<1>10. QED
  BY <1>6, <1>7, <1>8, <1>9 DEF UartInv, TransfersAreTracked

(* The handler when the transmit queue is full before the end.             *)
LEMMA ContinueStep ==
  ASSUME UartInv, TransferTxDone, IInv', UartTypeOK',
         NEW last \in 0..MAX_SIZE, last < transfers[activeTransfer].size,
         transfers' = [transfers EXCEPT ![activeTransfer].next = last],
         UNCHANGED <<vars, activeTransfer, irqEnabled>>,
         last = transfers[activeTransfer].next => burst' = burst,
         last # transfers[activeTransfer].next =>
           burst' = [vcpu |-> activeTransfer, from |-> transfers[activeTransfer].next,
                     to |-> last, size |-> transfers[activeTransfer].size]
  PROVE  UartInv'
<1> DEFINE v == activeTransfer
<1>1. v \in VCPU /\ v \in Queued /\ v # NULL
  BY ActiveIsQueued, NullIsNoVCPU DEF TransferTxDone
<1>2. transfers \in [VCPU -> Transfer]
  BY DEF UartInv, TransfersAreTracked, UartTypeOK, Transfer
<1>3. /\ transfers'[v].next = last /\ transfers'[v].size = transfers[v].size
      /\ transfers'[v].pending = transfers[v].pending
      /\ \A w \in VCPU \ {v} : transfers'[w] = transfers[w]
  BY <1>1, <1>2 DEF Transfer
<1>4. Queued' = Queued
  BY <1>3 DEF Queued
<1>5. TransfersHaveRest'
  BY <1>1, <1>3, <1>4 DEF UartInv, TransfersHaveRest, Queued
<1>6. BlockedWhileQueued'
  BY <1>3, <1>4, <1>5 DEF UartInv, TransfersAreTracked, BlockedWhileQueued,
                           TransfersHaveRest, vars
<1>7. InterruptHasATransfer'
  BY <1>4 DEF UartInv, TransfersAreTracked, InterruptHasATransfer
<1>8. BurstGoesOn'
  <2>1. CASE last = transfers[v].next
    BY <1>1, <1>3, <2>1 DEF BurstGoesOn, UartInv
  <2>2. CASE last # transfers[v].next
    BY <1>1, <1>3, <2>2 DEF BurstGoesOn
  <2>3. QED
    BY <2>1, <2>2
<1>9. QED
  BY <1>5, <1>6, <1>7, <1>8 DEF UartInv, TransfersAreTracked

(* transfer_tx_done()                                                      *)
LEMMA TransferTxDoneStep ==
  ASSUME UartInv, TransferTxDone
  PROVE  UartInv'
<1> DEFINE v == activeTransfer
           message == transfers[v]
<1>1. /\ v \in VCPU /\ v \in Queued /\ message \in Transfer
      /\ message.next < message.size
  BY ActiveIsQueued DEF TransferTxDone
<1>2. message.next \in 0..MAX_SIZE /\ message.size \in 0..MAX_SIZE
  BY <1>1 DEF Transfer
<1>3. PICK last \in message.next..message.size :
         /\ WriteLoop(v, message.next, message.size, last)
         /\ IF last = message.size
            THEN FinishTransfer(v)
            ELSE /\ transfers' = [transfers EXCEPT ![v].next = last]
                 /\ UNCHANGED <<vars, activeTransfer, irqEnabled>>
  BY DEF TransferTxDone
<1>4. UartTypeOK
  BY DEF UartInv, TransfersAreTracked
<1>5. /\ last \in 0..MAX_SIZE /\ last <= message.size
      /\ fifo' \in 0..FIFO_DEPTH /\ burst' \in Burst
      /\ last = message.next => burst' = burst
      /\ last # message.next =>
           burst' = [vcpu |-> v, from |-> message.next, to |-> last,
                     size |-> message.size]
  BY <1>1, <1>2, <1>3, <1>4, WriteLoopStep
<1>6. irqFlag' \in BOOLEAN
  BY <1>4, FlagSteps DEF TransferTxDone
<1>7. IInv'
  BY UartStepsSchedule, NextPreservesIInv DEF UartInv, UartNext
<1>8. transfers \in [VCPU -> Transfer]
  BY <1>4 DEF UartTypeOK, Transfer
<1>9. CASE last = message.size
  <2>1. FinishTransfer(v)
    BY <1>3, <1>9
  <2>2. activeTransfer' \in VCPU \cup {NULL} /\ irqEnabled' \in BOOLEAN
    <3>1. Queued \ {v} # {} => FirstOf(Queued \ {v}) \in VCPU
      BY FirstWaiting DEF Queued
    <3>2. QED
      BY <1>4, <2>1, <3>1 DEF FinishTransfer, NextTransfer, UartTypeOK
  <2>3. transfers' \in [VCPU -> Transfer]
    <3>1. NoTransfer \in Transfer
      BY UartAssumption DEF NoTransfer, Transfer
    <3>2. QED
      BY <1>8, <2>1, <3>1 DEF FinishTransfer
  <2>4. UartTypeOK'
    BY <1>5, <1>6, <1>7, <2>2, <2>3 DEF UartTypeOK, IInv, Transfer, Burst
  <2>5. burst'.to = burst'.size
    BY <1>1, <1>2, <1>5, <1>9
  <2>6. QED
    BY <1>7, <2>1, <2>4, <2>5, FinishStep
<1>10. CASE last # message.size
  <2>1. /\ transfers' = [transfers EXCEPT ![v].next = last]
        /\ UNCHANGED <<vars, activeTransfer, irqEnabled>>
    BY <1>3, <1>10
  <2>2. transfers' \in [VCPU -> Transfer]
    <3>1. [message EXCEPT !.next = last] \in Transfer
      BY <1>1, <1>5 DEF Transfer
    <3>2. transfers' = [transfers EXCEPT ![v] = [message EXCEPT !.next = last]]
      BY <2>1
    <3>3. QED
      BY <1>8, <3>1, <3>2
  <2>3. UartTypeOK'
    BY <1>4, <1>5, <1>6, <1>7, <2>1, <2>2 DEF UartTypeOK, IInv, Transfer, Burst
  <2>4. last < message.size
    BY <1>2, <1>5, <1>10
  <2>5. QED
    BY <1>5, <1>7, <2>1, <2>3, <2>4, ContinueStep
<1>11. QED
  BY <1>9, <1>10

-----------------------------------------------------------------------------
(* Every step of the driver, of the UART and of the timer preserves it.    *)
LEMMA UartNextPreservesInv == UartInv /\ [UartNext]_driverVars => UartInv'
<1> SUFFICES ASSUME UartInv, [UartNext]_driverVars
             PROVE  UartInv'
  OBVIOUS
<1> USE DEF UartInv, TransfersAreTracked
<1>1. CASE UartTimerTick
  <2>1. UNCHANGED uartVars /\ state' = state
    BY <1>1 DEF UartTimerTick, TimerTick, RunScheduler
  <2>2. IInv'
    BY <1>1, UartStepsSchedule, NextPreservesIInv DEF UartNext
  <2>3. UartTypeOK'
    BY <2>1, <2>2 DEF uartVars, UartTypeOK, IInv
  <2>4. BlockedWhileQueued' /\ InterruptHasATransfer' /\ TransfersHaveRest' /\ BurstGoesOn'
    BY <2>1 DEF uartVars, BlockedWhileQueued, InterruptHasATransfer, TransfersHaveRest,
                BurstGoesOn, Queued
  <2>5. QED
    BY <2>2, <2>3, <2>4
<1>2. CASE TransferTxDone
  BY <1>2, TransferTxDoneStep
<1>3. CASE UartTransmits
  <2>1. UNCHANGED <<vars, transfers, activeTransfer, irqEnabled, burst>>
        /\ fifo' \in 0..FIFO_DEPTH /\ irqFlag' \in BOOLEAN
    BY <1>3, UartAssumption DEF UartTransmits, UartTypeOK
  <2>2. IInv'
    BY <1>3, UartStepsSchedule, NextPreservesIInv DEF UartNext
  <2>3. UartTypeOK'
    BY <2>1, <2>2 DEF UartTypeOK, IInv
  <2>4. BlockedWhileQueued' /\ InterruptHasATransfer' /\ TransfersHaveRest' /\ BurstGoesOn'
    BY <2>1 DEF vars, BlockedWhileQueued, InterruptHasATransfer, TransfersHaveRest,
                BurstGoesOn, Queued
  <2>5. QED
    BY <2>2, <2>3, <2>4
<1>4. ASSUME NEW size \in 1..MAX_SIZE, Send(size)
      PROVE  UartInv'
  BY <1>4, SendStep
<1>5. CASE UNCHANGED driverVars
  <2>1. UNCHANGED vars /\ UNCHANGED uartVars
    BY <1>5 DEF driverVars
  <2>2. IInv'
    BY <2>1, NextPreservesIInv
  <2>3. UartTypeOK'
    BY <2>1, <2>2 DEF uartVars, UartTypeOK, IInv
  <2>4. BlockedWhileQueued' /\ InterruptHasATransfer' /\ TransfersHaveRest' /\ BurstGoesOn'
    BY <2>1 DEF vars, uartVars, BlockedWhileQueued, InterruptHasATransfer,
                TransfersHaveRest, BurstGoesOn, Queued
  <2>5. QED
    BY <2>2, <2>3, <2>4
<1>6. QED
  BY <1>1, <1>2, <1>3, <1>4, <1>5 DEF UartNext

THEOREM UartInvariantHolds == UartSpec => []UartInv
BY UartInitEstablishesInv, UartNextPreservesInv, PTL DEF UartSpec

(* Between handlers a VCPU is blocked exactly while a transfer of it is    *)
(* queued with characters left, and the transmit interrupt is enabled      *)
(* exactly while there is an active transfer, which is queued:             *)
(* transfer_tx_done() never dereferences the VCPU of no transfer, and      *)
(* nobody sleeps without an interrupt to come.                             *)
THEOREM TransfersTracked == UartSpec => []TransfersAreTracked
<1>1. UartInv => TransfersAreTracked
  BY DEF UartInv
<1>2. QED
  BY <1>1, UartInvariantHolds, PTL

(* No message is written into another one, whatever blocks, is preempted   *)
(* or is drained meanwhile.                                                *)
THEOREM MessagesWhole == UartSpec => MessagesNeverInterleave
<1> DEFINE InOrder ==
      burst' # burst =>
        \/ burst'.from = 0 /\ burst.to = burst.size
        \/ /\ burst'.vcpu = burst.vcpu /\ burst'.size = burst.size
           /\ burst'.from = burst.to
<1>1. UartInv /\ [UartNext]_driverVars => [InOrder]_driverVars
  <2> SUFFICES ASSUME UartInv, UartNext, burst' # burst
               PROVE  \/ burst'.from = 0 /\ burst.to = burst.size
                      \/ /\ burst'.vcpu = burst.vcpu /\ burst'.size = burst.size
                         /\ burst'.from = burst.to
    BY DEF driverVars, uartVars
  <2>1. CASE TransferTxDone
    <3> DEFINE message == transfers[activeTransfer]
    <3>1. activeTransfer \in VCPU
      BY <2>1, ActiveIsQueued DEF TransferTxDone
    <3>2. PICK last \in message.next..message.size :
             WriteLoop(activeTransfer, message.next, message.size, last)
      BY <2>1 DEF TransferTxDone
    <3>3. burst' = [vcpu |-> activeTransfer, from |-> message.next, to |-> last,
                    size |-> message.size]
      BY <3>2 DEF WriteLoop
    <3>4. activeTransfer # NULL
      BY <3>1, NullIsNoVCPU
    <3>5. QED
      BY <3>3, <3>4 DEF UartInv, BurstGoesOn
  <2>2. ASSUME NEW size \in 1..MAX_SIZE, Send(size)
        PROVE  burst'.from = 0 /\ burst.to = burst.size
    <3>1. PICK last \in 0..size : StartWriting(executing, size, last)
      BY <2>2 DEF Send
    <3>2. activeTransfer = NULL /\ WriteLoop(executing, 0, size, last)
      BY <3>1 DEF StartWriting
    <3>3. burst'.from = 0
      BY <3>2 DEF WriteLoop
    <3>4. QED
      BY <3>2, <3>3 DEF UartInv, BurstGoesOn
  <2>3. QED
    BY <2>1, <2>2 DEF UartNext, UartTimerTick, UartTransmits, uartVars
<1> HIDE DEF InOrder
<1>2. UartSpec => [][InOrder]_driverVars
  BY <1>1, UartInvariantHolds, PTL DEF UartSpec
<1>3. QED
  BY <1>2 DEF MessagesNeverInterleave, InOrder
-----------------------------------------------------------------------------
(* The redirected IRQs.                                                    *)

IrqInv ==
  /\ IInv
  /\ IrqsAreTracked

LEMMA VCPUIsNotNull == NULL \notin VCPU
  BY DEF NULL, VCPU

(* A mapped IRQ has a guest, and is none of its timer interrupt.           *)
LEMMA MappedIRQ ==
  ASSUME NEW e \in mappingList
  PROVE  /\ e.vcpu \in VCPU /\ e.guest \in UserInterrupt
         /\ e.guest \in GuestInterrupt /\ e.guest # TIMER
         /\ e = [vcpu |-> e.vcpu, guest |-> e.guest]
  BY DEF mappingList, Mapping, UserInterrupt, GuestInterrupt, TIMER

-----------------------------------------------------------------------------
(* The steps on the scheduler.                                             *)

(* One scan of interrupt_injection() marks any number of targets, and      *)
(* counts each once.                                                       *)
LEMMA FastDeliveriesStep ==
  ASSUME IInv, IrqTypeOK, FastDeliveries
  PROVE  IInv'
<1> DEFINE New == {v \in Targets : ~critical[v]}
<1>1. /\ critical' = [v \in VCPU |-> critical[v] \/ v \in Targets]
      /\ pending' = pending + Cardinality(New)
      /\ UNCHANGED <<readyList, state, priorityRem, executing, tickCount, init>>
  BY DEF FastDeliveries
<1>2. Targets \subseteq VCPU
  <2>1. \A e \in Injected : e.vcpu \in VCPU
    BY MappedIRQ DEF Injected, IrqTypeOK
  <2>2. QED
    BY <2>1 DEF Targets
<1>3. CriticalVCPUs' = CriticalVCPUs \cup New /\ CriticalVCPUs \cap New = {}
  BY <1>1, <1>2 DEF CriticalVCPUs
<1>4. IsFiniteSet(New) /\ IsFiniteSet(CriticalVCPUs)
  BY <1>2, CriticalIsFinite, FS_Subset
<1> HIDE DEF New
<1>5. /\ Cardinality(CriticalVCPUs') =
           Cardinality(CriticalVCPUs) + Cardinality(New) - Cardinality({})
      /\ Cardinality({}) = 0 /\ Cardinality(New) \in Nat
      /\ Cardinality(CriticalVCPUs) \in Nat
  BY <1>3, <1>4, FS_Union, FS_EmptySet, FS_CardinalityType
<1>6. PendingCountsCritical'
  BY <1>1, <1>5 DEF PendingCountsCritical, IInv
<1>7. TypeOK'
  BY <1>1, <1>5 DEF TypeOK, IInv
<1>8. NobodyLeavesTheQueue' /\ ExecutingIsReady'
  BY <1>1 DEF IInv, NobodyLeavesTheQueue, ExecutingIsReady
<1>9. QED
  BY <1>6, <1>7, <1>8 DEF IInv

LEMMA IrqStepsKeepIInv == IInv /\ IrqTypeOK /\ [IrqNext]_allVars => IInv'
<1> SUFFICES ASSUME IInv, IrqTypeOK, [IrqNext]_allVars PROVE IInv'
  OBVIOUS
<1>1. CASE GuestTick
  BY <1>1, NextPreservesIInv DEF GuestTick, Next
<1>2. CASE InterruptInjection
  BY <1>2, FastDeliveriesStep DEF InterruptInjection
<1>3. CASE UNCHANGED vars
  BY <1>3, NextPreservesIInv
<1>4. ASSUME NEW v \in VCPU, GuestStep(v)
      PROVE  UNCHANGED vars
  BY <1>4 DEF GuestStep, TakeInterrupts, HandleTimer, ReenableInterrupt
<1>5. ASSUME NEW e \in mappingList, RaiseIRQ(e)
      PROVE  UNCHANGED vars
  BY <1>5 DEF RaiseIRQ
<1>6. QED
  BY <1>1, <1>2, <1>3, <1>4, <1>5 DEF IrqNext, allVars

-----------------------------------------------------------------------------
LEMMA IrqInitEstablishesInv == IrqInit => IrqInv
<1> SUFFICES ASSUME IrqInit PROVE IrqInv
  OBVIOUS
<1>1. IInv
  BY InitEstablishesIInv DEF IrqInit
<1>2. IrqTypeOK
  BY <1>1, RedirectAssumption DEF IrqInit, IrqTypeOK, IInv
<1>3. DisabledUntilHandled
  BY DEF IrqInit, DisabledUntilHandled
<1>4. QED
  BY <1>1, <1>2, <1>3 DEF IrqInv, IrqsAreTracked

(* A context switch moves the pending bits of the VCPU that leaves from    *)
(* the hardware to its context, and back those of the one that enters.     *)
LEMMA GuestTickStep ==
  ASSUME IrqInv, GuestTick, IInv'
  PROVE  IrqInv'
<1>1. /\ IrqTypeOK /\ DisabledUntilHandled
      /\ executing \in VCPU \cup {NULL} /\ executing' \in VCPU \cup {NULL}
  BY DEF IrqInv, IrqsAreTracked, IInv, TypeOK
<1>2. UNCHANGED <<ifs, iec, handling, unseen>>
  BY DEF GuestTick
<1>3. SavedInterrupts \in [VCPU -> SUBSET GuestInterrupt]
  BY <1>1 DEF SavedInterrupts, IrqTypeOK
<1>4. elapsed' \in 0..(GUEST_TICKS - 1)
  BY <1>1, RedirectAssumption DEF GuestTick, TimerDue, IrqTypeOK
<1>5. CASE executing' = executing
  <2>1. guestCtl2' = Inject(guestCtl2) /\ UNCHANGED guestclt2
    BY <1>5 DEF GuestTick
  <2>2. guestCtl2' \in SUBSET GuestInterrupt /\ guestCtl2 \subseteq guestCtl2'
    BY <1>1, <2>1 DEF Inject, IrqTypeOK, GuestInterrupt
  <2>3. IrqTypeOK'
    BY <1>1, <1>2, <1>4, <2>1, <2>2 DEF IrqTypeOK, IrqInv, IInv
  <2>4. DisabledUntilHandled'
    BY <1>1, <1>2, <1>5, <2>1, <2>2 DEF DisabledUntilHandled
  <2>5. QED
    BY <2>3, <2>4 DEF IrqInv, IrqsAreTracked
<1>6. CASE executing' # executing
  <2>1. /\ guestCtl2' = Inject(Restored(SavedInterrupts, executing'))
        /\ guestclt2' = AfterRestore(SavedInterrupts, executing')
    BY <1>6 DEF GuestTick
  <2>2. Restored(SavedInterrupts, executing') \in SUBSET GuestInterrupt
    BY <1>1, <1>3 DEF Restored, IrqTypeOK
  <2>3. /\ guestCtl2' \in SUBSET GuestInterrupt
        /\ Restored(SavedInterrupts, executing') \subseteq guestCtl2'
    BY <2>1, <2>2 DEF Inject, GuestInterrupt
  <2>4. guestclt2' \in [VCPU -> SUBSET GuestInterrupt]
    BY <1>1, <1>3, <2>1 DEF AfterRestore
  <2>5. IrqTypeOK'
    BY <1>1, <1>2, <1>4, <2>3, <2>4 DEF IrqTypeOK, IrqInv, IInv
  <2>6. ASSUME NEW e \in mappingList \ iec
        PROVE  \/ e.guest \in guestclt2'[e.vcpu] \cup handling[e.vcpu]
               \/ executing' = e.vcpu /\ e.guest \in guestCtl2'
    <3>1. e.vcpu \in VCPU /\ e.guest # TIMER
      BY MappedIRQ
    <3>2. e.guest \in SavedInterrupts[e.vcpu] \cup handling[e.vcpu]
      <4>1. CASE executing = e.vcpu
        BY <1>1, <3>1, <4>1, VCPUIsNotNull
           DEF SavedInterrupts, DisabledUntilHandled, IrqTypeOK
      <4>2. CASE executing # e.vcpu
        <5>1. SavedInterrupts[e.vcpu] = guestclt2[e.vcpu]
          BY <1>1, <3>1, <4>2 DEF SavedInterrupts, IrqTypeOK
        <5>2. QED
          BY <1>1, <4>2, <5>1 DEF DisabledUntilHandled
      <4>3. QED
        BY <4>1, <4>2
    <3>3. e.guest \in SavedInterrupts[e.vcpu] => e.guest \in guestclt2'[e.vcpu]
      BY <1>3, <2>1, <3>1 DEF AfterRestore
    <3>4. QED
      BY <3>2, <3>3
  <2>7. DisabledUntilHandled'
    BY <1>2, <2>6 DEF DisabledUntilHandled, mappingList, Mapping
  <2>8. QED
    BY <2>5, <2>7 DEF IrqInv, IrqsAreTracked
<1>7. QED
  BY <1>5, <1>6

(* Whatever a scan disables it has made pending for its guest.             *)
LEMMA InjectionStep ==
  ASSUME IrqInv, InterruptInjection, IInv'
  PROVE  IrqInv'
<1>1. IrqTypeOK /\ DisabledUntilHandled
  BY DEF IrqInv, IrqsAreTracked
<1>2. /\ ifs' = {} /\ iec' = iec \ Injected
      /\ guestCtl2' = IF executing = NULL THEN guestCtl2
                      ELSE guestCtl2 \cup BitsFor(executing)
      /\ guestclt2' = [v \in VCPU |-> IF v = executing THEN guestclt2[v]
                                       ELSE guestclt2[v] \cup BitsFor(v)]
      /\ executing' = executing /\ UNCHANGED <<handling, elapsed, unseen>>
  BY DEF InterruptInjection, FastDeliveries
<1>3. Injected \subseteq mappingList
  BY <1>1 DEF Injected, IrqTypeOK
<1>4. \A v : BitsFor(v) \subseteq GuestInterrupt
  BY <1>3, MappedIRQ DEF BitsFor
<1>5. IrqTypeOK'
  <2>1. guestCtl2' \in SUBSET GuestInterrupt
    BY <1>1, <1>2, <1>4 DEF IrqTypeOK
  <2>2. guestclt2' \in [VCPU -> SUBSET GuestInterrupt]
    <3>1. \A v \in VCPU : guestclt2[v] \in SUBSET GuestInterrupt
      BY <1>1 DEF IrqTypeOK
    <3>2. QED
      BY <1>2, <1>4, <3>1
  <2>3. QED
    BY <1>1, <1>2, <2>1, <2>2 DEF IrqTypeOK, IrqInv, IInv, mappingList, Mapping
<1>6. ASSUME NEW e \in mappingList, e \notin iec'
      PROVE  \/ e.guest \in guestclt2'[e.vcpu] \cup handling[e.vcpu]
             \/ executing = e.vcpu /\ e.guest \in guestCtl2'
  <2>1. e.vcpu \in VCPU
    BY MappedIRQ
  <2>2. guestclt2[e.vcpu] \subseteq guestclt2'[e.vcpu] /\ guestCtl2 \subseteq guestCtl2'
    BY <1>2, <2>1
  <2>3. CASE e \in Injected
    <3>1. e.guest \in BitsFor(e.vcpu)
      BY <2>3 DEF BitsFor
    <3>2. QED
      BY <1>2, <2>1, <3>1, VCPUIsNotNull
  <2>4. CASE e \notin Injected
    BY <1>1, <1>2, <1>6, <2>2, <2>4 DEF DisabledUntilHandled
  <2>5. QED
    BY <2>3, <2>4
<1>7. DisabledUntilHandled'
  BY <1>2, <1>6 DEF DisabledUntilHandled, mappingList, Mapping
<1>8. QED
  BY <1>5, <1>7 DEF IrqInv, IrqsAreTracked

(* The hypercall enables what it removes, and nothing else: an IRQ is      *)
(* known by its guest and its number there.                                *)
LEMMA ReenableStep ==
  ASSUME IrqInv, NEW e \in mappingList, ReenableInterrupt(e), IInv'
  PROVE  IrqInv'
<1>1. /\ IrqTypeOK /\ DisabledUntilHandled
      /\ e.vcpu \in VCPU /\ e = [vcpu |-> e.vcpu, guest |-> e.guest]
  BY MappedIRQ DEF IrqInv, IrqsAreTracked
<1>2. /\ iec' = iec \cup {e} /\ executing' = executing
      /\ guestclt2' = [guestclt2 EXCEPT ![e.vcpu] = @ \ {e.guest}]
      /\ handling' = [handling EXCEPT ![e.vcpu] = @ \ {e.guest}]
      /\ UNCHANGED <<guestCtl2, ifs, elapsed, unseen>>
  BY DEF ReenableInterrupt, vars
<1>3. IrqTypeOK'
  BY <1>1, <1>2 DEF IrqTypeOK, IrqInv, IInv, mappingList, Mapping
<1>4. ASSUME NEW d \in mappingList, d \notin iec'
      PROVE  \/ d.guest \in guestclt2'[d.vcpu] \cup handling'[d.vcpu]
             \/ executing = d.vcpu /\ d.guest \in guestCtl2
  <2>1. d.vcpu \in VCPU /\ d = [vcpu |-> d.vcpu, guest |-> d.guest]
    BY MappedIRQ
  <2>2. d.vcpu # e.vcpu \/ d.guest # e.guest
    BY <1>1, <1>2, <1>4, <2>1
  <2>3. \/ d.guest \in guestclt2[d.vcpu] \cup handling[d.vcpu]
        \/ executing = d.vcpu /\ d.guest \in guestCtl2
    BY <1>1, <1>2, <1>4 DEF DisabledUntilHandled
  <2>4. QED
    BY <1>1, <1>2, <2>1, <2>2, <2>3 DEF IrqTypeOK
<1>5. DisabledUntilHandled'
  BY <1>2, <1>4 DEF DisabledUntilHandled, mappingList, Mapping
<1>6. QED
  BY <1>3, <1>5 DEF IrqInv, IrqsAreTracked

(* The guest moves what is pending to what it handles.                     *)
LEMMA TakeInterruptsStep ==
  ASSUME IrqInv, NEW v \in VCPU, TakeInterrupts(v), IInv'
  PROVE  IrqInv'
<1>1. IrqTypeOK /\ DisabledUntilHandled
  BY DEF IrqInv, IrqsAreTracked
<1>2. /\ executing = v /\ handling[v] = {} /\ executing' = executing
      /\ handling' = [handling EXCEPT ![v] = guestCtl2] /\ guestCtl2' = {}
      /\ unseen' = unseen \ (TakenBy(v) \ ifs)
      /\ UNCHANGED <<guestclt2, ifs, iec, elapsed>>
  BY DEF TakeInterrupts, vars
<1>3. IrqTypeOK'
  BY <1>1, <1>2 DEF IrqTypeOK, IrqInv, IInv, mappingList, Mapping
<1>4. ASSUME NEW d \in mappingList, d \notin iec
      PROVE  d.guest \in guestclt2[d.vcpu] \cup handling'[d.vcpu]
  <2>1. d.vcpu \in VCPU
    BY MappedIRQ
  <2>2. QED
    BY <1>1, <1>2, <1>4, <2>1 DEF IrqTypeOK, DisabledUntilHandled
<1>5. DisabledUntilHandled'
  BY <1>2, <1>4 DEF DisabledUntilHandled, mappingList, Mapping
<1>6. QED
  BY <1>3, <1>5 DEF IrqInv, IrqsAreTracked

LEMMA HandleTimerStep ==
  ASSUME IrqInv, NEW v \in VCPU, HandleTimer(v), IInv'
  PROVE  IrqInv'
<1>1. IrqTypeOK /\ DisabledUntilHandled
  BY DEF IrqInv, IrqsAreTracked
<1>2. /\ handling' = [handling EXCEPT ![v] = @ \ {TIMER}] /\ executing' = executing
      /\ UNCHANGED <<guestclt2, guestCtl2, ifs, iec, elapsed, unseen>>
  BY DEF HandleTimer, vars
<1>3. IrqTypeOK'
  BY <1>1, <1>2 DEF IrqTypeOK, IrqInv, IInv, mappingList, Mapping
<1>4. ASSUME NEW d \in mappingList, d.guest \in handling[d.vcpu]
      PROVE  d.guest \in handling'[d.vcpu]
  <2>1. d.vcpu \in VCPU /\ d.guest # TIMER
    BY MappedIRQ
  <2>2. QED
    BY <1>1, <1>2, <1>4, <2>1 DEF IrqTypeOK
<1>5. DisabledUntilHandled'
  BY <1>1, <1>2, <1>4 DEF DisabledUntilHandled, mappingList, Mapping
<1>6. QED
  BY <1>3, <1>5 DEF IrqInv, IrqsAreTracked

LEMMA IrqNextPreservesInv == IrqInv /\ [IrqNext]_allVars => IrqInv'
<1> SUFFICES ASSUME IrqInv, [IrqNext]_allVars PROVE IrqInv'
  OBVIOUS
<1>1. IInv' /\ IrqTypeOK /\ DisabledUntilHandled
  BY IrqStepsKeepIInv DEF IrqInv, IrqsAreTracked
<1>2. CASE GuestTick
  BY <1>1, <1>2, GuestTickStep
<1>3. CASE InterruptInjection
  BY <1>1, <1>3, InjectionStep
<1>4. ASSUME NEW v \in VCPU, GuestStep(v)
      PROVE  IrqInv'
  BY <1>1, <1>4, TakeInterruptsStep, HandleTimerStep, ReenableStep DEF GuestStep
<1>5. ASSUME NEW e \in mappingList, RaiseIRQ(e)
      PROVE  IrqInv'
  <2>1. /\ ifs' = ifs \cup {e} /\ unseen' = unseen \cup {e} /\ executing' = executing
        /\ UNCHANGED <<guestclt2, guestCtl2, iec, handling, elapsed>>
    BY <1>5 DEF RaiseIRQ, vars
  <2>2. IrqTypeOK'
    BY <1>1, <2>1 DEF IrqTypeOK, IInv, mappingList, Mapping
  <2>3. DisabledUntilHandled'
    BY <1>1, <2>1 DEF DisabledUntilHandled, mappingList, Mapping
  <2>4. QED
    BY <1>1, <2>2, <2>3 DEF IrqInv, IrqsAreTracked
<1>6. CASE UNCHANGED allVars
  <2>1. UNCHANGED vars /\ UNCHANGED irqVars
    BY <1>6 DEF allVars
  <2>2. IrqTypeOK'
    BY <1>1, <2>1 DEF irqVars, IrqTypeOK, IInv, mappingList, Mapping
  <2>3. DisabledUntilHandled'
    BY <1>1, <2>1 DEF vars, irqVars, DisabledUntilHandled, mappingList, Mapping
  <2>4. QED
    BY <1>1, <2>2, <2>3 DEF IrqInv, IrqsAreTracked
<1>7. QED
  BY <1>2, <1>3, <1>4, <1>5, <1>6 DEF IrqNext

(* A disabled IRQ is pending for its guest, in its context or in the       *)
(* hardware, or is being handled: the copies that contextSave() and        *)
(* contextRestore() make of GuestCtl2 lose no interrupt.                   *)
THEOREM IrqsTracked == IrqSpec => []IrqsAreTracked
<1>1. IrqSpec => []IrqInv
  BY IrqInitEstablishesInv, IrqNextPreservesInv, PTL DEF IrqSpec
<1>2. IrqInv => IrqsAreTracked
  BY DEF IrqInv
<1>3. QED
  BY <1>1, <1>2, PTL
=============================================================================
