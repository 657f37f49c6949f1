------------------------------- MODULE UsbHost -------------------------------
(***************************************************************************)
(* The USB host driver of pic32mz (src/drivers/pic32mz-usb.c).             *)
(*                                                                         *)
(* The driver has no thread: a guest calls usb_polling() every 100 ms,     *)
(* and each call advances one of two state machines by one step, the one   *)
(* that reads the descriptor of a new device or, once the device is        *)
(* RUNNING, the one that sends data to it.  The interrupt handler moves    *)
(* both.  The device, the controller and its faults are the environment.   *)
(***************************************************************************)
EXTENDS Integers, FiniteSets

CONSTANTS
  PacketSizes,   \* the sizes of endpoint 0 that devices have, in bytes
  MAX_FAULTS     \* bound: VBUS errors, overcurrents and failed transactions

\* MAX_REQUESTS is the 5 of update_state_machine(), TRANSFER_SZ the 3 bytes
\* that update_transfer_state_machine() sends whatever the guest asked for.
DESCRIPTOR_SZ == 18
MAX_REQUESTS  == 5
TRANSFER_SZ   == 3
FIFO_SZ       == 8

ASSUME UsbAssumption ==
  /\ PacketSizes \subseteq 8 .. 64 /\ PacketSizes # {}
  /\ MAX_FAULTS \in Nat

VARIABLES
  (* usb_status *)
  state, connected, available, elapsed,
  (* static request_count, and descriptor_data without its bytes *)
  requests, received, descrSz, transferSz,
  (* usb_transfer_status, sent_sz *)
  transfer, sent_sz,
  (* a call of usb_polling() has entered the hypervisor *)
  polling,
  (* the controller: pending causes, transaction of endpoint 0, its FIFO *)
  irq, ep0if, ep0, fifo,
  (* the board and the device: the supply, the packet size of the attached *)
  (* device or 0, bytes it has given, last packet it was sent, faults      *)
  power, overcurrent, device, given, lastPacket, faults

status     == <<state, connected, available, elapsed>>
descriptor == <<requests, received, descrSz, transferSz>>
sending    == <<transfer, sent_sz>>
controller == <<irq, ep0if, ep0, fifo>>
board      == <<power, overcurrent, device, given, lastPacket, faults>>
usbVars == <<status, descriptor, sending, polling, controller, board>>

\* How long ago wait_debounce was taken, as calc_wait_time() tells it.
JUST == 0   \* not more than 100 ms
SHORT == 1  \* more than RESET_MS and POST_RESET_DELAY_MS, both 100
LONG == 2   \* more than DEBOUNCE_MS and the 500 ms of WAIT_DESCRIPTOR

States == {"IDLE", "DEBOUNCE", "USB_RESET", "AFTER_RESET_DELAY",
           "REQUEST_DESCRIPTOR", "WAIT_TX_INT", "HANDSHAKE",
           "WAIT_DESCRIPTOR", "READ_DESCRIPTOR", "RUNNING", "VBUSERROR",
           "GENERALERROR"}
TransferStates == {"TRANSFER_IDLE", "TRANSFER_START", "TRANSFER_SENDING",
                   "TRANSFER_WAIT_TX_INT", "TRANSFER_DONE"}
Causes == {"DEVCONN", "DEVDISCONN", "VBUSERR"}

\* The packet received last: RXCNT, and the packet size of who sent it.
NoPacket == [size |-> 0, from |-> 0]

Attached == device # 0
Pending  == irq # {} \/ ep0if
Lesser(a, b) == IF a < b THEN a ELSE b

\* usb_start()
UsbInit ==
  /\ state = "IDLE" /\ connected = FALSE /\ available = FALSE /\ elapsed = LONG
  /\ requests = 0 /\ received = 0 /\ descrSz = 0 /\ transferSz = 0
  /\ transfer = "TRANSFER_IDLE" /\ sent_sz = 0
  /\ polling = FALSE
  /\ irq = {} /\ ep0if = FALSE /\ ep0 = "none" /\ fifo = NoPacket
  /\ power = TRUE /\ overcurrent = FALSE /\ device = 0 /\ given = 0
  /\ lastPacket = "none" /\ faults = 0

-----------------------------------------------------------------------------
(* usb_int_handler(): the causes of one read of the register are taken in  *)
(* the order of the code, whatever order they occurred in; endpoint 0 is   *)
(* looked at last, in the state the causes led to.                         *)

\* A mistake: a disconnect leaves the transfer as it is.
General_MutantTransferKept ==
  [state |-> IF "VBUSERR" \in irq THEN "VBUSERROR"
             ELSE IF "DEVDISCONN" \in irq THEN "IDLE"
             ELSE IF "DEVCONN" \in irq THEN "DEBOUNCE" ELSE state,
   transfer |-> transfer]

\* A mistake: the causes are looked at in the opposite order.
General_MutantOrder ==
  [state |-> IF "DEVCONN" \in irq THEN "DEBOUNCE"
             ELSE IF "DEVDISCONN" \in irq THEN "IDLE"
             ELSE IF "VBUSERR" \in irq THEN "VBUSERROR" ELSE state,
   transfer |-> IF "DEVDISCONN" \in irq THEN "TRANSFER_IDLE" ELSE transfer]

General ==
  [state |-> IF "VBUSERR" \in irq THEN "VBUSERROR"
             ELSE IF "DEVDISCONN" \in irq THEN "IDLE"
             ELSE IF "DEVCONN" \in irq THEN "DEBOUNCE" ELSE state,
   transfer |-> IF "DEVDISCONN" \in irq THEN "TRANSFER_IDLE" ELSE transfer]

\* A mistake: the end of a transmission is taken for the descriptor.
EndpointState_MutantNoHandshake(s) ==
  IF s \in {"WAIT_TX_INT", "WAIT_DESCRIPTOR"} THEN "READ_DESCRIPTOR" ELSE s

EndpointState(s) ==
  CASE s = "WAIT_TX_INT"     -> "HANDSHAKE"
    [] s = "WAIT_DESCRIPTOR" -> "READ_DESCRIPTOR"
    [] OTHER                 -> s

EndpointTransfer(s, t) ==
  IF s \notin {"WAIT_TX_INT", "WAIT_DESCRIPTOR"} /\ t = "TRANSFER_WAIT_TX_INT"
  THEN "TRANSFER_SENDING" ELSE t

\* A disconnect and a VBUS error both take the descriptor back.
Forget == available /\ irq \cap {"DEVDISCONN", "VBUSERR"} = {}

InterruptHandler ==
  /\ ~polling /\ Pending
  /\ state' = IF ep0if THEN EndpointState(General.state) ELSE General.state
  /\ transfer' = IF ep0if THEN EndpointTransfer(General.state, General.transfer)
                 ELSE General.transfer
  /\ connected' = ((connected \/ "DEVCONN" \in irq)
                     /\ irq \cap {"DEVDISCONN", "VBUSERR"} = {})
  /\ available' = Forget
  /\ elapsed' = IF "DEVCONN" \in irq THEN JUST ELSE elapsed
  /\ irq' = {} /\ ep0if' = FALSE
  /\ UNCHANGED <<descriptor, sent_sz, polling, ep0, fifo, board>>

-----------------------------------------------------------------------------
(* Hypercalls.  The guest executes them with its interrupts taken; what    *)
(* the controller raises during a call waits for the end of the call.  A   *)
(* setup packet is out long before the next poll, 100 ms later.            *)

EnterPolling ==
  /\ ~polling /\ ~Pending
  /\ ep0 # "setup"
  /\ polling' = TRUE
  /\ UNCHANGED <<status, descriptor, sending, controller, board>>

\* usb_send_data(): there is no return after the answer for busy.
SendData ==
  /\ ~polling /\ ~Pending
  /\ transfer' = "TRANSFER_START"
  /\ UNCHANGED <<status, descriptor, sent_sz, polling, controller, board>>

\* setup_packet_send(): the FIFO is the one a late packet was received in.
SendSetup(packet) ==
  /\ ep0' = "setup" /\ lastPacket' = packet
  /\ given' = 0
  /\ fifo' \in {NoPacket, fifo}
  /\ UNCHANGED <<irq, ep0if>>

\* The end of update_state_machine().
Updated(s) ==
  /\ state' = IF overcurrent THEN "GENERALERROR" ELSE s
  /\ power' = (power /\ ~overcurrent)
  /\ connected' = (connected /\ ~overcurrent)

\* usb_polling() chooses this state machine.
Detecting(s) == polling /\ polling' = FALSE /\ state = s

\* A step that only waits: the next state is entered after the delay.
Wait(s, delay, next) ==
  /\ Detecting(s)
  /\ Updated(IF elapsed >= delay THEN next ELSE s)
  /\ UNCHANGED <<available, descriptor, sending, controller,
                 overcurrent, device, given, lastPacket, faults>>

Debounce == Wait("DEBOUNCE", LONG, "USB_RESET") /\ UNCHANGED elapsed

UsbReset ==
  /\ Wait("USB_RESET", SHORT, "AFTER_RESET_DELAY")
  /\ elapsed' = IF elapsed >= SHORT THEN JUST ELSE elapsed

AfterReset ==
  /\ Wait("AFTER_RESET_DELAY", SHORT, "REQUEST_DESCRIPTOR")
  /\ UNCHANGED elapsed

ReceivedAtRequest == 0

RequestDescriptor ==
  /\ Detecting("REQUEST_DESCRIPTOR")
  /\ received' = ReceivedAtRequest /\ descrSz' = 0 /\ transferSz' = 0
  /\ SendSetup("get_descriptor")
  /\ elapsed' = JUST
  /\ Updated("WAIT_TX_INT")
  /\ UNCHANGED <<available, requests, sending, overcurrent, device, faults>>

Handshake ==
  /\ Detecting("HANDSHAKE")
  /\ ep0' = "in"
  /\ elapsed' = JUST
  /\ Updated("WAIT_DESCRIPTOR")
  /\ UNCHANGED <<available, descriptor, sending, irq, ep0if, fifo,
                 overcurrent, device, given, lastPacket, faults>>

\* A mistake: the retries are not counted.
RequestsAfterTimeout_MutantEndless == requests
RequestsAfterTimeout == requests + 1

WaitDescriptor ==
  /\ Detecting("WAIT_DESCRIPTOR")
  /\ \/ /\ elapsed < LONG
        /\ Updated("WAIT_DESCRIPTOR")
        /\ UNCHANGED requests
     \/ /\ elapsed = LONG /\ requests < MAX_REQUESTS
        /\ requests' = RequestsAfterTimeout
        /\ Updated("REQUEST_DESCRIPTOR")
     \/ /\ elapsed = LONG /\ requests >= MAX_REQUESTS
        /\ Updated("GENERALERROR")
        /\ UNCHANGED requests
  /\ UNCHANGED <<available, elapsed, received, descrSz, transferSz, sending, controller,
                 overcurrent, device, given, lastPacket, faults>>

(* read_descriptor(): the first byte of a descriptor is its size, the      *)
(* eighth the packet size, both 0 where nothing was received.  A packet    *)
(* shorter than the packet size ends the descriptor.                       *)

SizeGiven(got)     == IF descrSz = 0 /\ got > 0 THEN DESCRIPTOR_SZ ELSE descrSz
TransferGiven(got) == IF descrSz = 0 /\ got > 0 THEN fifo.from ELSE transferSz

SizeAfter(got) ==
  IF fifo.size < TransferGiven(got) THEN got ELSE SizeGiven(got)

ReadDescriptor ==
  LET got == received + fifo.size
      whole == got >= SizeAfter(got)
  IN  /\ Detecting("READ_DESCRIPTOR")
      /\ received' = got /\ descrSz' = SizeAfter(got)
      /\ transferSz' = TransferGiven(got)
      /\ fifo' = NoPacket
      /\ Updated(IF whole THEN "RUNNING" ELSE "WAIT_DESCRIPTOR")
      /\ available' = (available \/ whole)
      /\ ep0' = IF whole THEN ep0 ELSE "in"
      /\ elapsed' = IF whole THEN elapsed ELSE JUST
      /\ UNCHANGED <<requests, sending, irq, ep0if,
                     overcurrent, device, given, lastPacket, faults>>

(* A controller that slipped out of host mode is given a new session and   *)
(* detects the device again.                                               *)
StayIdle ==
  /\ Detecting("IDLE")
  /\ irq' \in {irq, irq \cup (IF Attached THEN {"DEVCONN"} ELSE {})}
  /\ Updated("IDLE")
  /\ UNCHANGED <<available, elapsed, descriptor, sending, ep0if, ep0, fifo,
                 overcurrent, device, given, lastPacket, faults>>

\* States the poll leaves to the interrupt handler.
NoStep ==
  /\ \E s \in {"WAIT_TX_INT", "VBUSERROR"} : Detecting(s) /\ Updated(s)
  /\ UNCHANGED <<available, elapsed, descriptor, sending, controller,
                 overcurrent, device, given, lastPacket, faults>>

GeneralError ==
  /\ Detecting("GENERALERROR")
  /\ requests' = 0
  /\ Updated("GENERALERROR")
  /\ UNCHANGED <<available, elapsed, received, descrSz, transferSz, sending, controller,
                 overcurrent, device, given, lastPacket, faults>>

UpdateStateMachine ==
  \/ Debounce \/ UsbReset \/ AfterReset \/ RequestDescriptor \/ Handshake
  \/ WaitDescriptor \/ ReadDescriptor \/ StayIdle \/ NoStep \/ GeneralError

-----------------------------------------------------------------------------
(* update_transfer_state_machine() *)

Transferring(s) ==
  /\ polling /\ polling' = FALSE
  /\ state = "RUNNING" /\ transfer = s
  /\ UNCHANGED <<state, connected, available, descriptor,
                 power, overcurrent, device, faults>>

TransferStart ==
  /\ Transferring("TRANSFER_START")
  /\ transfer' = "TRANSFER_SENDING" /\ sent_sz' = 0
  /\ SendSetup("data_follows")
  /\ UNCHANGED elapsed

\* data_packet_sent()
DataSent == Lesser(TRANSFER_SZ, sent_sz + FIFO_SZ)

\* All three bytes fit into the FIFO: the transmission is never waited for.
AfterData(size) ==
  IF size > TRANSFER_SZ - 1 THEN "TRANSFER_DONE" ELSE "TRANSFER_WAIT_TX_INT"

TransferSending ==
  /\ Transferring("TRANSFER_SENDING")
  /\ sent_sz' = DataSent
  /\ ep0' = "data" /\ lastPacket' = "data"
  /\ transfer' = AfterData(DataSent)
  /\ elapsed' = IF transfer' = "TRANSFER_DONE" THEN JUST ELSE elapsed
  /\ UNCHANGED <<irq, ep0if, fifo, given>>

TransferRest ==
  /\ \/ Transferring("TRANSFER_DONE") /\ transfer' = "TRANSFER_IDLE"
     \/ \E s \in {"TRANSFER_IDLE", "TRANSFER_WAIT_TX_INT"} :
          Transferring(s) /\ UNCHANGED transfer
  /\ UNCHANGED <<elapsed, sent_sz, controller, given, lastPacket>>

UpdateTransferStateMachine == TransferStart \/ TransferSending \/ TransferRest

Poll == UpdateStateMachine \/ UpdateTransferStateMachine

-----------------------------------------------------------------------------
(* The environment.  The controller reports every attachment and every     *)
(* detachment; a device without supply is detached.                        *)

driver == <<state, connected, available, descriptor, sending, polling>>

Attach ==
  /\ ~Attached /\ power
  /\ device' \in PacketSizes
  /\ irq' = irq \cup {"DEVCONN"}
  /\ given' = 0 /\ lastPacket' = "none"
  /\ UNCHANGED <<driver, elapsed, ep0if, ep0, fifo, power, overcurrent, faults>>

Detach ==
  /\ Attached
  /\ device' = 0 /\ irq' = irq \cup {"DEVDISCONN"}
  /\ UNCHANGED <<driver, elapsed, ep0if, ep0, fifo, power, overcurrent, given,
                 lastPacket, faults>>

\* A packet is out, with or without a device to take it.
PacketSent ==
  /\ ep0 \in {"setup", "data"}
  /\ ep0' = "none" /\ ep0if' = TRUE
  /\ UNCHANGED <<driver, elapsed, irq, fifo, board>>

\* The device answers a request with the next packet of its descriptor.
PacketReceived ==
  LET size == Lesser(device, DESCRIPTOR_SZ - given)
  IN  /\ ep0 = "in" /\ Attached
      /\ ep0' = "none" /\ ep0if' = TRUE
      /\ fifo' = [size |-> size, from |-> device] /\ given' = given + size
      /\ UNCHANGED <<driver, elapsed, irq, power, overcurrent, device,
                     lastPacket, faults>>

Fault ==
  /\ faults < MAX_FAULTS /\ faults' = faults + 1
  /\ \/ /\ irq' = irq \cup {"VBUSERR"}
        /\ UNCHANGED <<ep0, ep0if, fifo, overcurrent>>
     \/ /\ ~overcurrent /\ overcurrent' = TRUE
        /\ UNCHANGED controller
     \/ /\ ep0 = "in" \* the device stalls or is gone
        /\ ep0' = "none" /\ ep0if' = TRUE /\ fifo' = NoPacket
        /\ UNCHANGED <<irq, overcurrent>>
  /\ UNCHANGED <<driver, elapsed, power, device, given, lastPacket>>

OvercurrentEnds ==
  /\ overcurrent /\ overcurrent' = FALSE
  /\ UNCHANGED <<driver, elapsed, controller, power, device, given, lastPacket,
                 faults>>

TimePasses ==
  /\ elapsed < LONG /\ elapsed' = elapsed + 1
  /\ UNCHANGED <<driver, controller, board>>

Environment ==
  Attach \/ Detach \/ PacketSent \/ PacketReceived \/ Fault \/ OvercurrentEnds
    \/ TimePasses

UsbNext == InterruptHandler \/ EnterPolling \/ SendData \/ Poll \/ Environment

UsbSpec == UsbInit /\ [][UsbNext]_usbVars

(* The application polls for ever (src/bare-metal-apps/apps/usb/usb.c),    *)
(* interrupts are taken, packets leave the controller and time passes.     *)
(* Nothing makes a device answer.                                          *)
UsbFairSpec ==
  /\ UsbSpec
  /\ WF_usbVars(EnterPolling) /\ WF_usbVars(Poll) /\ WF_usbVars(InterruptHandler)
  /\ WF_usbVars(PacketSent) /\ WF_usbVars(TimePasses)

-----------------------------------------------------------------------------
(* The variables have their types.  The bytes received never exceed the    *)
(* array descriptor[18] of struct descriptor_receive.                      *)
UsbFlags == {connected, available, polling, ep0if, power, overcurrent} \subseteq BOOLEAN

UsbRanges ==
  /\ state \in States /\ transfer \in TransferStates
  /\ elapsed \in JUST .. LONG /\ requests \in 0 .. MAX_REQUESTS
  /\ received \in 0 .. DESCRIPTOR_SZ /\ descrSz \in 0 .. DESCRIPTOR_SZ
  /\ transferSz \in PacketSizes \cup {0} /\ sent_sz \in 0 .. TRANSFER_SZ
  /\ irq \subseteq Causes /\ ep0 \in {"none", "setup", "in", "data"}
  /\ fifo \in [size : 0 .. DESCRIPTOR_SZ, from : PacketSizes \cup {0}]
  /\ device \in PacketSizes \cup {0} /\ given \in 0 .. DESCRIPTOR_SZ
  /\ lastPacket \in {"none", "get_descriptor", "data_follows", "data"}
  /\ faults \in 0 .. MAX_FAULTS

UsbTypeOK == UsbFlags /\ UsbRanges

(* Once the interrupt handler has taken a detachment, in whatever states   *)
(* the two machines were and whatever else it took with it, the driver     *)
(* reports no device and has no transfer under way; a transfer the guest   *)
(* asks for while there is no device is only kept to be started.           *)
NoGhostDevice ==
  ~Attached /\ "DEVDISCONN" \notin irq =>
    /\ ~connected /\ ~available
    /\ state \in {"IDLE", "VBUSERROR", "GENERALERROR"}
    /\ transfer \in {"TRANSFER_IDLE", "TRANSFER_START"}

(* While usb_polling() answers that a descriptor is available, the one     *)
(* get_descriptor() copies is complete and nothing overwrites it; it is    *)
(* the whole descriptor unless a transaction failed.                       *)
ReportedDescriptorIsWhole ==
  available =>
    /\ state \in {"RUNNING", "GENERALERROR"}
    /\ received = descrSz
    /\ faults = 0 => received = DESCRIPTOR_SZ

(* The count of received bytes stays within the array, and what the guest  *)
(* is told about is what was read.                                         *)
DescriptorIsWhole == UsbTypeOK /\ ReportedDescriptorIsWhole

(* The data of a transfer go out right after the setup packet that         *)
(* announces them, to the same device, all three bytes: no step of the     *)
(* other machine, no other transfer and no change of devices comes         *)
(* between, but one the interrupt handler could not have taken yet.        *)
DataFollowsSetup ==
  [][TransferSending =>
       /\ lastPacket = "data_follows" \/ "DEVDISCONN" \in irq
       /\ sent_sz' - sent_sz = TRANSFER_SZ]_usbVars

(* A device that was noticed is running, gone or given up in the end, even *)
(* when it never answers: the timeout of WAIT_DESCRIPTOR is retried a      *)
(* bounded number of times and no wait for an interrupt is for ever.       *)
DetectionEnds ==
  (state = "DEBOUNCE") ~>
    (state \in {"RUNNING", "IDLE", "VBUSERROR", "GENERALERROR"})
=============================================================================
