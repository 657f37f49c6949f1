------------------------------ MODULE InterVM ------------------------------
(***************************************************************************)
(* Communication between VMs: the hypercalls of drivers/inter-vm-comm.c    *)
(* over the message ring of each VCPU, the virtual interrupt that          *)
(* announces messages across context switches, and the guest library that  *)
(* receives them (bare-metal-apps/lib/network.c), composed with the        *)
(* scheduler.                                                              *)
(*                                                                         *)
(* Hypercalls are atomic; a guest is preempted between any two of them.    *)
(* Hypercalls that fail without an effect but their error code (message    *)
(* too big, no such VCPU, VCPU not initialised, queue empty) change        *)
(* nothing here.  Messages are not of size zero.                           *)
(***************************************************************************)
EXTENDS Scheduler

CONSTANTS
  MESSAGELIST_SZ,   \* slots of a ring, in the hypervisor and in the guest
  Traffic           \* what the guests send: records [source, target, payload]

ASSUME InterVMAssumption ==
  /\ MESSAGELIST_SZ \in Nat \ {0}
  /\ \A m \in Traffic : m.source \in VCPU /\ m.target \in VCPU

VARIABLES
  messages,     \* vcpu->messages
  guestclt2,    \* GUEST_INTERVM_INT in vcpu->guestclt2
  guestCtl2,    \* the same bit in the hardware register GuestCtl2
  messageList,  \* message_list of the library in each guest
  handling      \* the guest is in irq_network()

commVars == <<messages, guestclt2, guestCtl2, messageList, handling>>
allVars == <<vars, commVars>>

-----------------------------------------------------------------------------
(* The ring, the same in the hypervisor and in the guest.                  *)

NoMessage == [source |-> NULL]      \* slots are zeroed at start
EmptyRing == [in |-> 0, out |-> 0, num |-> 0,
              list |-> [i \in 0..(MESSAGELIST_SZ - 1) |-> NoMessage]]

Insert(ring, m) ==
  [in |-> (ring.in + 1) % MESSAGELIST_SZ, out |-> ring.out, num |-> ring.num + 1,
   list |-> [ring.list EXCEPT ![ring.in] = m]]

Remove(ring) ==
  [ring EXCEPT !.out = (@ + 1) % MESSAGELIST_SZ, !.num = @ - 1]

Oldest(ring) == ring.list[ring.out]

Contents(ring) ==
  [i \in 1..ring.num |-> ring.list[(ring.out + i - 1) % MESSAGELIST_SZ]]

-----------------------------------------------------------------------------
(* Hypercalls                                                              *)

(* fast_interrupt_delivery(): nothing for a target in execution or already *)
(* marked.                                                                 *)
Notify(target) ==
  IF executing # target /\ ~critical[target]
  THEN FastInterruptDelivery(target)
  ELSE UNCHANGED vars

InApplication(v) == executing = v /\ ~handling[v]

(* The check that the ring of the target is full is missing.               *)
SendMsg_MutantOverwrite(m) ==
  /\ InApplication(m.source)
  /\ ~init[m.target]
  /\ messages' = [messages EXCEPT ![m.target] = Insert(@, m)]
  /\ guestclt2' = [guestclt2 EXCEPT ![m.target] = TRUE]
  /\ Notify(m.target)
  /\ UNCHANGED <<guestCtl2, messageList, handling>>

(* intervm_send_msg(), accepted.                                           *)
SendMsg(m) ==
  /\ InApplication(m.source)
  /\ ~init[m.target]
  /\ messages[m.target].num # MESSAGELIST_SZ
  /\ messages' = [messages EXCEPT ![m.target] = Insert(@, m)]
  /\ guestclt2' = [guestclt2 EXCEPT ![m.target] = TRUE]
  /\ Notify(m.target)
  /\ UNCHANGED <<guestCtl2, messageList, handling>>

(* MESSAGE_FULL: the message is dropped and the target reminded.           *)
SendMsgFull(m) ==
  /\ InApplication(m.source)
  /\ ~init[m.target]
  /\ messages[m.target].num = MESSAGELIST_SZ
  /\ guestclt2' = [guestclt2 EXCEPT ![m.target] = TRUE]
  /\ UNCHANGED <<vars, messages, guestCtl2, messageList, handling>>

(* intervm_recv_msg(), with a message to receive: the interrupt is cleared *)
(* in the hardware and in the context, even when messages are left.        *)
RecvMsg(v) ==
  /\ messages[v].num # 0
  /\ messages' = [messages EXCEPT ![v] = Remove(@)]
  /\ guestclt2' = [guestclt2 EXCEPT ![v] = FALSE]
  /\ guestCtl2' = FALSE

-----------------------------------------------------------------------------
(* The guest                                                               *)

(* The guest takes the virtual interrupt; to acknowledge it clears the bit *)
(* in the hardware register.                                               *)
TakeInterrupt(v) ==
  /\ InApplication(v)
  /\ guestCtl2
  /\ guestCtl2' = FALSE
  /\ handling' = [handling EXCEPT ![v] = TRUE]
  /\ UNCHANGED <<vars, messages, guestclt2, messageList>>

(* The loop of irq_network(): one ipc_recv().                              *)
IrqReceive(v) ==
  /\ executing = v /\ handling[v]
  /\ messageList[v].num < MESSAGELIST_SZ
  /\ RecvMsg(v)
  /\ messageList' = [messageList EXCEPT ![v] = Insert(@, Oldest(messages[v]))]
  /\ UNCHANGED <<vars, handling>>

(* It ends when there is no message or no room for one.                    *)
IrqReturn(v) ==
  /\ executing = v /\ handling[v]
  /\ messages[v].num = 0 \/ messageList[v].num = MESSAGELIST_SZ
  /\ handling' = [handling EXCEPT ![v] = FALSE]
  /\ UNCHANGED <<vars, messages, guestclt2, guestCtl2, messageList>>

(* ReceiveMessage(), with the guest's interrupts disabled.                 *)
ReceiveMessage(v) ==
  /\ InApplication(v)
  /\ messageList[v].num # 0
  /\ messageList' = [messageList EXCEPT ![v] = Remove(@)]
  /\ UNCHANGED <<vars, messages, guestclt2, guestCtl2, handling>>

-----------------------------------------------------------------------------
(* The context is overwritten by the hardware register.                    *)
SavedInterrupts_MutantAssign ==
  IF executing # NULL
  THEN [guestclt2 EXCEPT ![executing] = guestCtl2]
  ELSE guestclt2

(* contextSave() adds the hardware's interrupt to the context's.           *)
SavedInterrupts ==
  IF executing # NULL
  THEN [guestclt2 EXCEPT ![executing] = @ \/ guestCtl2]
  ELSE guestclt2

(* A switch saves it for one VCPU and restores it for the next.            *)
CommTick ==
  /\ TimerTick
  /\ IF executing' # executing
     THEN /\ guestclt2' = SavedInterrupts
          /\ guestCtl2' = IF executing' = NULL THEN guestCtl2
                          ELSE SavedInterrupts[executing']
     ELSE UNCHANGED <<guestclt2, guestCtl2>>
  /\ UNCHANGED <<messages, messageList, handling>>

CommInit ==
  /\ Init
  /\ messages = [v \in VCPU |-> EmptyRing]
  /\ guestclt2 = [v \in VCPU |-> FALSE]
  /\ guestCtl2 = FALSE
  /\ messageList = [v \in VCPU |-> EmptyRing]
  /\ handling = [v \in VCPU |-> FALSE]

Handler(v) == TakeInterrupt(v) \/ IrqReceive(v) \/ IrqReturn(v)

CommNext ==
  \/ CommTick
  \/ \E m \in Traffic : SendMsg(m) \/ SendMsgFull(m)
  \/ \E v \in VCPU : Handler(v) \/ ReceiveMessage(v)

(* Ticks never stop.  A VCPU that is dispatched again and again executes   *)
(* instructions each time, so its interrupt handler advances; what the     *)
(* applications do is up to them.                                          *)
CommSpec == CommInit /\ [][CommNext]_allVars
CommFairSpec ==
  /\ CommSpec
  /\ WF_allVars(CommTick)
  /\ \A v \in VCPU : SF_allVars(Handler(v))

-----------------------------------------------------------------------------
(* Type invariant.                                                         *)
Ring == [in : 0..(MESSAGELIST_SZ - 1), out : 0..(MESSAGELIST_SZ - 1),
         num : 0..MESSAGELIST_SZ,
         list : [0..(MESSAGELIST_SZ - 1) -> Traffic \cup {NoMessage}]]

CommTypeOK ==
  /\ TypeOK
  /\ messages \in [VCPU -> Ring]
  /\ guestclt2 \in [VCPU -> BOOLEAN]
  /\ guestCtl2 \in BOOLEAN
  /\ messageList \in [VCPU -> Ring]
  /\ handling \in [VCPU -> BOOLEAN]

(* The rings of the hypervisor and of the guest library are one channel:   *)
(* the application receives every accepted message, once and in the order  *)
(* in which the hypervisor accepted them, however sends, interrupts and    *)
(* switches interleave.                                                    *)
Channel == INSTANCE MessageChannel WITH
  Capacity <- 2 * MESSAGELIST_SZ,
  inbox <- [v \in VCPU |-> Contents(messageList[v]) \o Contents(messages[v])]
ImplementsChannel == Channel!Spec

(* While the library of a guest has room, every message reaches it: the    *)
(* virtual interrupt survives any number of context switches, and a        *)
(* message sent while the handler runs, or to oneself, is not forgotten.   *)
HasRoom(v) == messageList[v].num < MESSAGELIST_SZ
MessagesFlow ==
  \A v \in VCPU :
    []HasRoom(v) => ((messages[v].num # 0) ~> (messages[v].num = 0))
=============================================================================
