--------------------------- MODULE SharedEthernet ---------------------------
(***************************************************************************)
(* The Ethernet device shared by several VMs,                              *)
(* drivers/pic32mz-ethernet-shared.c.  A VM that polls takes the frames    *)
(* from the DMA ring up to the first one for itself; those for other VMs   *)
(* are kept in buffers that all the VMs share.  Hypercalls are not         *)
(* interrupted, so each is one action; the controller fills the DMA ring   *)
(* at any time.                                                            *)
(***************************************************************************)
EXTENDS Integers, FiniteSets, Sequences

CONSTANTS
  NUMBER_OF_VM,       \* entries of VMCTRLbuf
  NUMBER_OF_FRAMES,   \* entries of b_buf, and of the ring of each VM
  Payload,            \* contents of frames
  POLLING,            \* the VMs that poll for ever
  WINDOW,             \* frames the driver holds at any time (a bound)
  NONE                \* no frame, no buffer

ASSUME EthernetAssumption ==
  /\ NUMBER_OF_VM \in Nat \ {0}
  /\ NUMBER_OF_FRAMES \in Nat \ {0}
  /\ POLLING \subseteq 0..(NUMBER_OF_VM - 1)
  /\ WINDOW \in Nat
  /\ NONE \notin Nat

(* VMs are named by their position in VMCTRLbuf: the order in which they   *)
(* ask for their MAC address, which is also what is added to the last      *)
(* octet of the address.                                                   *)
Slot == 0..(NUMBER_OF_VM - 1)
BROADCAST == NUMBER_OF_VM
STRANGER == NUMBER_OF_VM + 1
Frame == [dst : Slot \cup {BROADCAST, STRANGER}, payload : Payload]

Buffer == 0..(NUMBER_OF_FRAMES - 1)

VARIABLES
  vm_counter,   \* VMs that asked for their MAC address
  ctrl,         \* VMCTRLbuf: [input, output, list]; an entry that was read is NONE
  b_buf,        \* [used, frame]; a buffer that is not used has no frame
  rx,           \* frames in the DMA ring, oldest first
  is_up,        \* eth_port.is_up
  rxen,         \* the RXEN bit of ETHCON1: the receiver is enabled
  got,          \* the last receive_frame(): the VM and the frame it returned
  wild          \* an array was indexed with -1

vars == <<vm_counter, ctrl, b_buf, rx, is_up, rxen, got, wild>>

Registered == 0..(vm_counter - 1)

-----------------------------------------------------------------------------
(* The buffers and rings, as they are passed along receive_frame().        *)
Store == [buf |-> b_buf, ctrl |-> ctrl, wild |-> FALSE]

Free(s) == {b \in Buffer : s.buf[b].used = 0}

Following(i) == (i + 1) % NUMBER_OF_FRAMES

(* Frame f is put in the first free buffer, for the VMs at targets.        *)
Deposit(s, f, targets) ==
  LET b == CHOOSE b \in Free(s) : \A c \in Free(s) : b <= c
      put(c) == [c EXCEPT !.list[c.input] = b, !.input = Following(@)]
  IN [s EXCEPT !.buf[b] = IF targets = {} THEN @
                          ELSE [used |-> Cardinality(targets), frame |-> f],
               !.ctrl = [i \in Slot |-> IF i \in targets THEN put(@[i]) ELSE @[i]]]

(* get_vm_destination() finds the VM of a frame.                           *)
Known(f) == f.dst \in Registered

(* A frame for another VM.  The results -1 of get_free_buffer() and        *)
(* get_vm_destination() are compared as unsigned: they are taken for       *)
(* indices.                                                                *)
KeepForeign(s, f) ==
  IF s.wild \/ Free(s) = {} \/ ~Known(f)
  THEN [s EXCEPT !.wild = TRUE]
  ELSE Deposit(s, f, {f.dst})

(* A broadcast frame is only for the VM that polls.                        *)
Others_MutantNone(f, j) == {}

(* The other VMs a frame found by the VM at j is also for.                 *)
Others(f, j) == IF f.dst = BROADCAST THEN Registered \ {j} ELSE {}

(* The frame found by the VM at j is read through a free buffer too.       *)
TakeOwn(s, f, j) ==
  IF s.wild \/ Free(s) = {}
  THEN [s EXCEPT !.wild = TRUE]
  ELSE Deposit(s, f, Others(f, j))

(* Frames that the VM polling finds one after the other, all for others.   *)
KeepAll(s, frames) ==
  LET after[k \in 0..Len(frames)] ==
        IF k = 0 THEN s ELSE KeepForeign(after[k - 1], frames[k])
  IN after[Len(frames)]

Becomes(s) == b_buf' = s.buf /\ ctrl' = s.ctrl /\ wild' = s.wild

-----------------------------------------------------------------------------
(* en_get_mac(), which each VM calls just once.                            *)
EnGetMac ==
  /\ vm_counter < NUMBER_OF_VM
  /\ vm_counter' = vm_counter + 1
  /\ UNCHANGED <<ctrl, b_buf, rx, is_up, rxen, got, wild>>

(* The use of the buffer is not given back.                                *)
ReceiveKept_MutantLeak(j) ==
  LET b == ctrl[j].list[ctrl[j].output]
  IN /\ ctrl[j].input # ctrl[j].output
     /\ got' = [vm |-> j, frame |-> b_buf[b].frame]
     /\ ctrl' = [ctrl EXCEPT ![j].list[ctrl[j].output] = NONE, ![j].output = Following(@)]
     /\ UNCHANGED <<vm_counter, b_buf, rx, is_up, rxen, wild>>

(* receive_frame() of a VM for which a frame was kept.                     *)
ReceiveKept(j) ==
  LET b == ctrl[j].list[ctrl[j].output]
  IN /\ ctrl[j].input # ctrl[j].output
     /\ got' = [vm |-> j, frame |-> b_buf[b].frame]
     /\ b_buf' = [b_buf EXCEPT
                    ![b] = IF @.used = 1 THEN [used |-> 0, frame |-> NONE]
                           ELSE [used |-> @.used - 1, frame |-> @.frame]]
     /\ ctrl' = [ctrl EXCEPT ![j].list[ctrl[j].output] = NONE, ![j].output = Following(@)]
     /\ UNCHANGED <<vm_counter, rx, is_up, rxen, wild>>

(* Frames en_ll_input() can read.                                          *)
Readable == IF is_up THEN rx ELSE <<>>

(* Where the frames for the VM at j are.                                   *)
Own(j) == {k \in DOMAIN Readable : Readable[k].dst \in {j, BROADCAST}}

(* A frame for another VM ends the poll and stays in the DMA ring.         *)
ReceiveFromRing_MutantFirst(j) ==
  /\ ctrl[j].input = ctrl[j].output
  /\ IF 1 \in Own(j)
     THEN /\ Becomes(TakeOwn(Store, rx[1], j))
          /\ rx' = Tail(rx)
          /\ got' = [vm |-> j, frame |-> rx[1]]
     ELSE got' = [vm |-> j, frame |-> NONE] /\ UNCHANGED <<b_buf, ctrl, wild, rx>>
  /\ UNCHANGED <<vm_counter, is_up, rxen>>

(* receive_frame() of a VM for which none was kept reads the DMA ring up   *)
(* to a frame for itself.                                                  *)
ReceiveFromRing(j) ==
  /\ ctrl[j].input = ctrl[j].output
  /\ IF Own(j) # {}
     THEN LET k == CHOOSE k \in Own(j) : \A l \in Own(j) : k <= l
          IN /\ Becomes(TakeOwn(KeepAll(Store, SubSeq(rx, 1, k - 1)), rx[k], j))
             /\ rx' = SubSeq(rx, k + 1, Len(rx))
             /\ got' = [vm |-> j, frame |-> rx[k]]
     ELSE /\ Becomes(KeepAll(Store, Readable))
          /\ rx' = IF is_up THEN <<>> ELSE rx
          /\ got' = [vm |-> j, frame |-> NONE]
  /\ UNCHANGED <<vm_counter, is_up, rxen>>

(* receive_frame() of a VM that has no entry, because it did not ask for   *)
(* its address or the table was full: the result -1 of                     *)
(* get_vm_buffer_pos() is compared as unsigned, and is an index too.       *)
ReceiveUnregistered ==
  /\ ~wild
  /\ wild' = TRUE
  /\ UNCHANGED <<vm_counter, ctrl, b_buf, rx, is_up, rxen, got>>

(* receive_frame().  What the VMs receive after a wild access is not       *)
(* modelled.                                                               *)
ReceiveFrame(j) ==
  /\ ~wild
  /\ j \in Registered
  /\ ReceiveKept(j) \/ ReceiveFromRing(j)

(* en_watchdog(): the receiver follows the link.  The DMA ring is set up   *)
(* again when the link comes back.                                         *)
EnWatchdog(linked) ==
  /\ is_up' = linked
  /\ rxen' = linked
  /\ rx' = IF linked /\ ~rxen THEN <<>> ELSE rx
  /\ UNCHANGED <<vm_counter, ctrl, b_buf, got, wild>>

Held == Len(rx) + Cardinality({b \in Buffer : b_buf[b].used # 0})

(* The controller: a frame comes.  The receive filter accepts broadcast    *)
(* and every unicast frame, whoever has its address.  WINDOW bounds the    *)
(* frames the VMs have not yet polled for.                                 *)
Arrive(f) ==
  /\ rxen
  /\ Held < WINDOW
  /\ rx' = Append(rx, f)
  /\ UNCHANGED <<vm_counter, ctrl, b_buf, is_up, rxen, got, wild>>

-----------------------------------------------------------------------------
(* en_init()                                                               *)
Init ==
  /\ vm_counter = 0
  /\ ctrl = [i \in Slot |-> [input |-> 0, output |-> 0,
                             list |-> [n \in Buffer |-> NONE]]]
  /\ b_buf = [b \in Buffer |-> [used |-> 0, frame |-> NONE]]
  /\ rx = <<>>
  /\ is_up = FALSE
  /\ rxen = FALSE
  /\ got = [vm |-> 0, frame |-> NONE]
  /\ wild = FALSE

Next ==
  \/ EnGetMac
  \/ \E j \in Slot : ReceiveFrame(j)
  \/ ReceiveUnregistered
  \/ \E linked \in BOOLEAN : EnWatchdog(linked)
  \/ \E f \in Frame : Arrive(f)

(* The polling method of the guests' driver: they poll for ever.           *)
Spec ==
  /\ Init
  /\ [][Next]_vars
  /\ \A j \in POLLING : WF_vars(ReceiveFrame(j))

-----------------------------------------------------------------------------
(* Type invariant.                                                         *)
EthTypeOK ==
  /\ vm_counter \in 0..NUMBER_OF_VM
  /\ ctrl \in [Slot -> [input : Buffer, output : Buffer,
                        list : [Buffer -> Buffer \cup {NONE}]]]
  /\ b_buf \in [Buffer -> [used : 0..NUMBER_OF_VM, frame : Frame \cup {NONE}]]
  /\ rx \in Seq(Frame)
  /\ is_up \in BOOLEAN
  /\ rxen \in BOOLEAN
  /\ got \in [vm : Slot, frame : Frame \cup {NONE}]
  /\ wild \in BOOLEAN

(* All the entries of the ring of the VM at i are taken: it looks empty,   *)
(* and whatever waits for the VM, it is told that nothing does.            *)
Full(i) == ctrl[i].input = ctrl[i].output /\ ctrl[i].list[ctrl[i].output] # NONE

(* The frames kept for the VM at i: indices of the ring from output to     *)
(* input.                                                                  *)
Kept(i) ==
  LET n == IF Full(i) THEN NUMBER_OF_FRAMES
           ELSE (ctrl[i].input - ctrl[i].output) % NUMBER_OF_FRAMES
  IN [k \in 1..n |-> ctrl[i].list[(ctrl[i].output + k - 1) % NUMBER_OF_FRAMES]]

(* A buffer is used as many times as it is kept for a VM: it is freed when *)
(* the last one has read it, not before and not later.  "Frames will be    *)
(* copied here until the destination VM request it."                       *)
UseIsExact ==
  \A b \in Buffer :
    b_buf[b].used =
      Cardinality({u \in Slot \X (1..NUMBER_OF_FRAMES) :
                     u[2] \in DOMAIN Kept(u[1]) /\ Kept(u[1])[u[2]] = b})

(* The uses of the shared buffers are counted right, also when all are in  *)
(* use, until an array is indexed with -1.                                 *)
BuffersAreExact == EthTypeOK /\ (~wild => UseIsExact)

(* Those of some frames that are for the VM at i.                          *)
Addressed(frames, i) ==
  LET among[k \in 0..Len(frames)] ==
        IF k = 0 THEN <<>>
        ELSE IF frames[k].dst \in {i, BROADCAST} THEN Append(among[k - 1], frames[k])
        ELSE among[k - 1]
  IN among[Len(frames)]

(* The frames for the VM at i: those kept for it, then those in the DMA    *)
(* ring.                                                                   *)
ForVM(i) ==
  LET kept == Kept(i)
  IN IF i \in Registered
     THEN [k \in DOMAIN kept |-> b_buf[kept[k]].frame]
            \o Addressed(Readable, i)
     ELSE <<>>

Inboxes == INSTANCE FrameInboxes WITH
  Port <- Slot, up <- is_up, member <- Registered, inbox <- [i \in Slot |-> ForVM(i)]

(* The VM at i, whose ring is full, is told that no frame waits for it.    *)
FullLooksEmpty(i) ==
  /\ Full(i)
  /\ got' = [vm |-> i, frame |-> NONE]
  /\ UNCHANGED <<is_up, vm_counter, [k \in Slot |-> ForVM(k)]>>

(* An array is indexed with -1: more frames wait than there are buffers,   *)
(* or one for an address that no VM has.                                   *)
IndexIsWild ==
  /\ ~wild /\ wild'
  /\ \/ Held > NUMBER_OF_FRAMES
     \/ \E k \in DOMAIN Readable : Readable[k].dst \notin Registered \cup {BROADCAST}

(* Each VM has a device of its own: whichever VMs poll, and however their  *)
(* polls interleave with arrivals, each receives exactly the frames for    *)
(* it, once and in the order they came, and is told that there is none     *)
(* while one waits only when its ring is full.  It holds until an array is *)
(* indexed with -1, which two kinds of traffic make happen; for all other  *)
(* traffic the driver stays within its arrays.                             *)
ImplementsInboxes ==
  /\ Inboxes!Init
  /\ [][Inboxes!Next \/ (\E i \in Slot : FullLooksEmpty(i)) \/ IndexIsWild
       ]_<<is_up, Registered, [i \in Slot |-> ForVM(i)], got>>

(* A frame that came for a VM that polls is received, even if no other VM  *)
(* polls; or the link goes down, the ring of the VM is full, or an array   *)
(* was indexed with -1.                                                    *)
FramesAreReceived ==
  \A i \in POLLING :
    ForVM(i) # <<>> ~> (got.vm = i /\ got.frame # NONE) \/ ~is_up \/ Full(i) \/ wild
=============================================================================
