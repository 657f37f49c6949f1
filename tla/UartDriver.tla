----------------------------- MODULE UartDriver -----------------------------
(***************************************************************************)
(* The interrupt-driven console driver, arch/mips/pic32mz/uart_driver.c,   *)
(* composed with the scheduler: a guest whose message does not fit in the  *)
(* transmit queue is blocked until the interrupt handler has written the   *)
(* rest.  Characters are abstracted to their position in the message.      *)
(*                                                                         *)
(* The UART drains its queue while the driver fills it.                    *)
(***************************************************************************)
EXTENDS Scheduler

CONSTANTS
  MAX_SIZE,     \* longest message a guest sends
  FIFO_DEPTH    \* characters the transmit queue holds

ASSUME UartAssumption ==
  /\ MAX_SIZE \in Nat \ {0}
  /\ FIFO_DEPTH \in Nat \ {0}

VARIABLES
  transfers,       \* transfers[j - 1]: what is left of the message of VCPU j
  activeTransfer,  \* active_transfer: a VCPU here, NULL for -1
  irqEnabled,      \* IEC bit of the UART transmit interrupt
  irqFlag,         \* IFS bit of the UART transmit interrupt
  fifo,            \* characters in the transmit queue
  burst            \* history: the characters last written to UARTTXREG

uartVars == <<transfers, activeTransfer, irqEnabled, irqFlag, fifo, burst>>
driverVars == <<vars, uartVars>>

NoTransfer == [pending |-> FALSE, next |-> 0, size |-> 0]
Queued == {v \in VCPU : transfers[v].pending}

(* The loop that writes characters first..size-1 of the message of v while *)
(* the queue is not full, and stops before position last.  The UART may    *)
(* drain any part of it meanwhile.                                         *)
WriteLoop(v, first, size, last) ==
  /\ last \in first..size
  /\ fifo' \in 0..FIFO_DEPTH
  /\ fifo' <= fifo + (last - first)
  /\ last < size => fifo' = FIFO_DEPTH
  /\ burst' = IF last = first THEN burst
              ELSE [vcpu |-> v, from |-> first, to |-> last, size |-> size]

(* The flag is set when the last character leaves the queue.               *)
FlagAfterWriting ==
  \/ irqFlag' = irqFlag /\ fifo' > 0
  \/ irqFlag' = TRUE

(* To clear it while the transmitter is still empty may have no effect.    *)
FlagAfterClear ==
  \/ irqFlag' = FALSE /\ fifo' > 0
  \/ irqFlag' = TRUE

-----------------------------------------------------------------------------
(* The transmit interrupt is left disabled.                                *)
SchedulerTransferInterrupt_MutantNoIrq(v, next, size) ==
  /\ UNCHANGED irqEnabled
  /\ activeTransfer' = IF activeTransfer = NULL THEN v ELSE activeTransfer
  /\ transfers' = [transfers EXCEPT ![v] =
                     [pending |-> TRUE, next |-> next, size |-> size]]

(* scheduler_transfer_interrupt()                                          *)
SchedulerTransferInterrupt(v, next, size) ==
  /\ IF activeTransfer = NULL
     THEN irqEnabled' = TRUE /\ activeTransfer' = v
     ELSE UNCHANGED <<irqEnabled, activeTransfer>>
  /\ transfers' = [transfers EXCEPT ![v] =
                     [pending |-> TRUE, next |-> next, size |-> size]]

(* send() writes to the queue although another message is on its way.      *)
StartWriting_MutantNoCheck(v, size, last) ==
  WriteLoop(v, 0, size, last) /\ FlagAfterWriting

StartWriting(v, size, last) ==
  IF activeTransfer = NULL
  THEN WriteLoop(v, 0, size, last) /\ FlagAfterWriting
  ELSE last = 0 /\ UNCHANGED <<fifo, burst, irqFlag>>

(* send(): a hypercall of the VCPU in execution.  When it blocks the       *)
(* caller, guest_exit_exception() runs the scheduler before it returns.    *)
Send(size) ==
  /\ executing # NULL
  /\ \E last \in 0..size :
       /\ StartWriting(executing, size, last)
       /\ IF last < size
          THEN /\ SchedulerTransferInterrupt(executing, last, size)
               /\ GuestBlocks
          ELSE UNCHANGED <<vars, transfers, activeTransfer, irqEnabled>>

(* After the transfer of v: the pending one of lowest index, or none and   *)
(* the interrupt is disabled.                                              *)
NextTransfer(v) ==
  LET waiting == Queued \ {v}
  IN IF waiting # {}
     THEN activeTransfer' = FirstOf(waiting) /\ UNCHANGED irqEnabled
     ELSE activeTransfer' = NULL /\ irqEnabled' = FALSE

(* The owner of the finished transfer is not made ready.                   *)
FinishTransfer_MutantNoWake(v) ==
  /\ UNCHANGED vars
  /\ transfers' = [transfers EXCEPT ![v] = NoTransfer]
  /\ NextTransfer(v)

FinishTransfer(v) ==
  /\ Unblock(v)
  /\ transfers' = [transfers EXCEPT ![v] = NoTransfer]
  /\ NextTransfer(v)

(* transfer_tx_done(): the UART interrupt handler.                         *)
TransferTxDone ==
  LET v == activeTransfer
      message == transfers[v]
  IN /\ irqEnabled /\ irqFlag
     /\ \E last \in message.next..message.size :
          /\ WriteLoop(v, message.next, message.size, last)
          /\ IF last = message.size
             THEN FinishTransfer(v)
             ELSE /\ transfers' = [transfers EXCEPT ![v].next = last]
                  /\ UNCHANGED <<vars, activeTransfer, irqEnabled>>
     /\ FlagAfterClear

(* The UART transmits the first character of its queue.                    *)
UartTransmits ==
  /\ fifo > 0
  /\ fifo' = fifo - 1
  /\ irqFlag' = (irqFlag \/ fifo' = 0)
  /\ UNCHANGED <<vars, transfers, activeTransfer, irqEnabled, burst>>

UartTimerTick == TimerTick /\ UNCHANGED uartVars

-----------------------------------------------------------------------------
(* After uart_driver_init().                                               *)
UartInit ==
  /\ Init
  /\ transfers = [v \in VCPU |-> NoTransfer]
  /\ activeTransfer = NULL
  /\ irqEnabled = FALSE
  /\ irqFlag = FALSE
  /\ fifo = 0
  /\ burst = [vcpu |-> NULL, from |-> 0, to |-> 0, size |-> 0]

UartNext ==
  \/ UartTimerTick
  \/ TransferTxDone
  \/ UartTransmits
  \/ \E size \in 1..MAX_SIZE : Send(size)

(* Ticks never stop, an enabled interrupt is taken, the UART transmits.    *)
(* Guests owe nothing: they may compute for ever.                          *)
UartSpec == UartInit /\ [][UartNext]_driverVars
UartFairSpec ==
  /\ UartSpec
  /\ WF_driverVars(UartTimerTick)
  /\ WF_driverVars(TransferTxDone)
  /\ WF_driverVars(UartTransmits)

-----------------------------------------------------------------------------
(* Type invariant.                                                         *)
UartTypeOK ==
  /\ TypeOK
  /\ transfers \in [VCPU -> [pending : BOOLEAN, next : 0..MAX_SIZE, size : 0..MAX_SIZE]]
  /\ activeTransfer \in VCPU \cup {NULL}
  /\ irqEnabled \in BOOLEAN
  /\ irqFlag \in BOOLEAN
  /\ fifo \in 0..FIFO_DEPTH
  /\ burst \in [vcpu : VCPU \cup {NULL}, from : 0..MAX_SIZE, to : 0..MAX_SIZE,
                size : 0..MAX_SIZE]

(* A VCPU is blocked exactly while the driver holds a transfer of it, with *)
(* characters left: no sleep without somebody to end it, and no guest that *)
(* runs on and reuses a buffer the driver still reads.                     *)
BlockedWhileQueued ==
  \A v \in VCPU :
    (state[v] = BLOCKED) <=> (v \in Queued /\ transfers[v].next < transfers[v].size)

(* The interrupt is enabled exactly while transfers are queued, and then   *)
(* the active one is among them: transfer_tx_done() never indexes with -1, *)
(* never dereferences a NULL vcpu, and no queued transfer waits for an     *)
(* interrupt that is disabled.                                             *)
InterruptHasATransfer ==
  /\ irqEnabled <=> Queued # {}
  /\ irqEnabled <=> activeTransfer # NULL
  /\ irqEnabled => activeTransfer \in Queued

(* What the driver knows of its transfers, what the scheduler knows of     *)
(* their VCPUs and what the controller was told agree between handlers.    *)
TransfersAreTracked == UartTypeOK /\ BlockedWhileQueued /\ InterruptHasATransfer

(* Messages reach the line whole and in order: what is written either      *)
(* continues the last message where it stopped or, that one being          *)
(* complete, starts another.                                               *)
MessagesNeverInterleave ==
  [][burst' # burst =>
       \/ burst'.from = 0 /\ burst.to = burst.size
       \/ /\ burst'.vcpu = burst.vcpu /\ burst'.size = burst.size
          /\ burst'.from = burst.to]_driverVars

(* The active transfer ends: its VCPU runs again, whatever the interrupt   *)
(* flag was when the interrupt was enabled.                                *)
ActiveTransferEnds ==
  \A v \in VCPU : (activeTransfer = v) ~> (state[v] = RUNNING)
=============================================================================
