---------------------------- MODULE EthernetDMA ----------------------------
(***************************************************************************)
(* The Ethernet driver for one guest, drivers/pic32mz-ethernet.c, and the  *)
(* controller it shares its DMA descriptors and buffers with.  A hypercall *)
(* is not interrupted but the controller works while it is served: it      *)
(* fills reception descriptors while others are copied or given back, and  *)
(* reads the transmission buffer while the next frame is written to it.    *)
(*                                                                         *)
(* Sizes are in units smaller than a descriptor's buffer.  The controller  *)
(* is external: it hands a frame over with all its descriptors at once,    *)
(* each full but the last, and drops a frame that they do not hold.  What  *)
(* lies in memory behind tx_buf, where send_frame() writes the rest of a   *)
(* frame that is too large, is not modelled.                               *)
(***************************************************************************)
EXTENDS Integers, Sequences, FiniteSetsExt

CONSTANTS
  RX_DESCRIPTORS,      \* entries of the reception ring
  RX_BYTES_PER_DESC,   \* bytes in the buffer of one of them
  FrameSizes,          \* sizes of the frames that come
  MaxArrivals,         \* frames that come (a bound)
  MTU,                 \* bytes in the transmission buffer
  SIZES,               \* values of the uint16_t that en_ll_output() takes
  SendSizes,           \* sizes of the frames that the guest sends
  MaxSends             \* frames that the guest sends (a bound)

ASSUME DmaAssumption ==
  /\ RX_DESCRIPTORS \in Nat \ {0}
  /\ RX_BYTES_PER_DESC \in Nat \ {0}
  /\ FrameSizes \subseteq Nat \ {0}
  /\ MaxArrivals \in Nat
  /\ MTU \in Nat \ {0}
  /\ SIZES \in Nat /\ MTU < SIZES
  /\ SendSizes \subseteq Nat
  /\ MaxSends \in Nat

Index == 0..(RX_DESCRIPTORS - 1)
Ring(i) == i % RX_DESCRIPTORS

(* Frame n that comes, of the given size, byte by byte.                    *)
FrameBytes(n, bytes) == [k \in 1..bytes |-> <<n, k>>]

VARIABLES
  is_up,           \* e->is_up
  rxen,            \* ETHCON1.RXEN: reception is enabled
  rx_desc,         \* descriptors: [eown, eop, size, bytes]
  receive_index,   \* the descriptor the next frame starts at
  dma_index,       \* the descriptor the controller fills next
  arrived,         \* frames that came
  input,           \* where en_ll_input() is
  result,          \* what the last HCALL_ETHERNET_RECV returned: [size, bytes]
  tx_buf,          \* the frame in the transmission buffer
  tx_desc,         \* the transmission descriptor is the controller's (EOWN)
  output,          \* where send_frame() is
  txrts,           \* ETHCON1.TXRTS: a transmission was started and is not over
  txread,          \* the frame whose first half the controller has read
  sent,            \* frames handed to send_frame()
  started,         \* the last frame whose transmission was started
  wire             \* the last frame transmitted: the frames of its two halves

rxVars == <<is_up, rxen, rx_desc, receive_index, dma_index, arrived, input, result>>
txVars == <<tx_buf, tx_desc, output, txrts, txread, sent, started, wire>>
dmaVars == <<rxVars, txVars>>

-----------------------------------------------------------------------------
(* Descriptor n of those that hold the frame to be read.                   *)
Desc(n) == rx_desc[Ring(receive_index + n - 1)]

(* The bytes of descriptors 1 to n.                                        *)
Bytes(n) ==
  LET upto[k \in 0..RX_DESCRIPTORS] ==
        IF k = 0 THEN <<>> ELSE upto[k - 1] \o Desc(k).bytes
  IN upto[n]

(* The copy stops after n descriptors: nothing is left, the next one is    *)
(* the controller's, the packet ends, or as much was read as is left.      *)
StopsAfter(n) ==
  LET left == Desc(1).size - Len(Bytes(n))
  IN \/ left <= 0
     \/ Desc(n + 1).eown
     \/ Desc(n).eop
     \/ Len(Bytes(n)) = left

(* The bytes that en_ll_input() copies to the guest: of as many            *)
(* descriptors as it goes through, never more than the size of the frame.  *)
Copied ==
  LET n == CHOOSE n \in 1..RX_DESCRIPTORS :
             StopsAfter(n) /\ \A k \in 1..(n - 1) : ~StopsAfter(k)
  IN SubSeq(Bytes(n), 1, Min({Desc(1).size, Len(Bytes(n))}))

NothingToRead == ~is_up \/ Desc(1).eown \/ Desc(1).size = 0

NoFrame == [size |-> 0, bytes |-> <<>>]

Clear == [eown |-> TRUE, eop |-> FALSE, size |-> 0, bytes |-> <<>>]

(* A PHY that does not answer in time, has no link, negotiates or is done. *)
PhyAnswer == {"timeout", "no_link", "negotiating", "done"}

(* is_phy_linked(), from what phy_read() returns.                          *)
Linked(answer) == answer = "done"

Idle == input = "idle" /\ output = "idle"

-----------------------------------------------------------------------------
(* The controller receives a frame, or drops it when it owns too few       *)
(* descriptors.                                                            *)
Arrive(bytes) ==
  LET count == (bytes + RX_BYTES_PER_DESC - 1) \div RX_BYTES_PER_DESC
      Part(k) == [j \in 1..Min({RX_BYTES_PER_DESC, bytes - k * RX_BYTES_PER_DESC})
                    |-> FrameBytes(arrived + 1, bytes)[k * RX_BYTES_PER_DESC + j]]
      Filled(i, k) == [eown |-> FALSE, eop |-> k = count - 1, bytes |-> Part(k),
                       size |-> IF k = 0 THEN bytes ELSE rx_desc[i].size]
      Room == /\ count <= RX_DESCRIPTORS
              /\ \A k \in 0..(count - 1) : rx_desc[Ring(dma_index + k)].eown
  IN /\ rxen /\ arrived < MaxArrivals
     /\ arrived' = arrived + 1
     /\ IF Room
        THEN /\ dma_index' = Ring(dma_index + count)
             /\ rx_desc' = [i \in Index |-> LET k == Ring(i - dma_index)
                                            IN IF k < count THEN Filled(i, k) ELSE rx_desc[i]]
        ELSE UNCHANGED <<rx_desc, dma_index>>
     /\ UNCHANGED <<is_up, rxen, receive_index, input, result, txVars>>

(* receive_frame(): en_ll_input() up to the release of the descriptors.    *)
ReceiveFrame ==
  /\ Idle
  /\ IF NothingToRead
     THEN result' = NoFrame /\ UNCHANGED input
     ELSE /\ result' = [size |-> Desc(1).size, bytes |-> Copied]
          /\ input' = "free"
  /\ UNCHANGED <<is_up, rxen, rx_desc, receive_index, dma_index, arrived, txVars>>

(* Frames that come meanwhile are released with the one that was read.     *)
FreeDescriptor_MutantAll ==
  /\ input = "free"
  /\ LET d == rx_desc[receive_index]
     IN IF d.eown
        THEN input' = "idle" /\ UNCHANGED <<rx_desc, receive_index>>
        ELSE /\ rx_desc' = [rx_desc EXCEPT ![receive_index].eown = TRUE]
             /\ receive_index' = Ring(receive_index + 1)
             /\ UNCHANGED input
  /\ UNCHANGED <<is_up, rxen, dma_index, arrived, result, txVars>>

(* One turn of the second loop of en_ll_input(): a descriptor of the frame *)
(* is the controller's again.                                              *)
FreeDescriptor ==
  /\ input = "free"
  /\ LET d == rx_desc[receive_index]
     IN IF d.eown
        THEN input' = "idle" /\ UNCHANGED <<rx_desc, receive_index>>
        ELSE /\ rx_desc' = [rx_desc EXCEPT ![receive_index].eown = TRUE]
             /\ receive_index' = Ring(receive_index + 1)
             /\ input' = IF d.eop THEN "idle" ELSE "free"
  /\ UNCHANGED <<is_up, rxen, dma_index, arrived, result, txVars>>

(* receive_index is kept when the ring is set up again.                    *)
SetupDMA_MutantIndex ==
  /\ rx_desc' = [i \in Index |-> Clear]
  /\ dma_index' = 0
  /\ tx_desc' = FALSE
  /\ UNCHANGED receive_index

(* en_setup_dma(): every reception descriptor is the controller's, and the *)
(* transmission descriptor the driver's, even during a transmission.       *)
SetupDMA ==
  /\ rx_desc' = [i \in Index |-> Clear]
  /\ receive_index' = 0
  /\ dma_index' = 0
  /\ tx_desc' = FALSE

(* en_watchdog(), called by the guest every now and then.                  *)
Watchdog(answer) ==
  /\ Idle
  /\ is_up' = Linked(answer)
  /\ rxen' = Linked(answer)
  /\ IF Linked(answer) /\ ~rxen
     THEN SetupDMA
     ELSE UNCHANGED <<rx_desc, receive_index, dma_index, tx_desc>>
  /\ UNCHANGED <<arrived, input, result, tx_buf, output, txrts, txread, sent, started, wire>>

-----------------------------------------------------------------------------
(* The sizes that en_ll_output() transmits; its parameter has 16 bits.     *)
Transmits(length) == length % SIZES \in 1..MTU

(* send_frame() up to the wait of en_ll_output(): the buffer is written    *)
(* whatever is being transmitted and whatever the size.  A frame that is   *)
(* not transmitted is overwritten by the next; of one of SIZES bytes or    *)
(* more only the first length % SIZES bytes are.                           *)
SendFrame(length) ==
  /\ Idle /\ sent < MaxSends
  /\ sent' = sent + 1
  /\ tx_buf' = IF length = 0 THEN tx_buf ELSE sent + 1
  /\ output' = IF Transmits(length) THEN "wait" ELSE "idle"
  /\ UNCHANGED <<tx_desc, txrts, txread, started, wire, rxVars>>

(* A transmission is started during another one.                           *)
StartTransmission_MutantNoWait ==
  /\ output = "wait"
  /\ tx_desc' = TRUE
  /\ txrts' = TRUE
  /\ started' = tx_buf
  /\ output' = "idle"
  /\ UNCHANGED <<tx_buf, txread, sent, wire, rxVars>>

(* en_ll_output() once the previous transmission is over.                  *)
StartTransmission ==
  /\ output = "wait" /\ ~txrts
  /\ tx_desc' = TRUE
  /\ txrts' = TRUE
  /\ started' = tx_buf
  /\ output' = "idle"
  /\ UNCHANGED <<tx_buf, txread, sent, wire, rxVars>>

(* The controller reads its descriptor and the buffer in two halves, then  *)
(* the frame is out.                                                       *)
ReadHalf ==
  /\ txrts /\ tx_desc /\ txread = 0
  /\ txread' = tx_buf
  /\ UNCHANGED <<tx_buf, tx_desc, output, txrts, sent, started, wire, rxVars>>

Transmitted ==
  /\ txrts /\ txread # 0
  /\ wire' = <<txread, tx_buf>>
  /\ txread' = 0
  /\ txrts' = FALSE
  /\ tx_desc' = FALSE
  /\ UNCHANGED <<tx_buf, output, sent, started, rxVars>>

(* It finds that the descriptor is not its own any more, and stops.        *)
GiveUp ==
  /\ txrts /\ ~tx_desc
  /\ txread' = 0
  /\ txrts' = FALSE
  /\ UNCHANGED <<tx_buf, tx_desc, output, sent, started, wire, rxVars>>

-----------------------------------------------------------------------------
(* en_init(), when a PHY is found: the link is down.                       *)
DmaInit ==
  /\ is_up = FALSE /\ rxen = FALSE
  /\ rx_desc = [i \in Index |-> Clear]
  /\ receive_index = 0 /\ dma_index = 0
  /\ arrived = 0
  /\ input = "idle" /\ result = NoFrame
  /\ tx_buf = 0 /\ tx_desc = FALSE /\ output = "idle"
  /\ txrts = FALSE /\ txread = 0
  /\ sent = 0 /\ started = 0 /\ wire = <<0, 0>>

DmaNext ==
  \/ \E bytes \in FrameSizes : Arrive(bytes)
  \/ ReceiveFrame
  \/ FreeDescriptor
  \/ \E answer \in PhyAnswer : Watchdog(answer)
  \/ \E length \in SendSizes : SendFrame(length)
  \/ StartTransmission
  \/ ReadHalf
  \/ Transmitted
  \/ GiveUp

DmaSpec == DmaInit /\ [][DmaNext]_dmaVars

-----------------------------------------------------------------------------
(* Descriptors the driver owns from receive_index on.                      *)
Held == Max({n \in 0..RX_DESCRIPTORS : \A k \in 1..n : ~Desc(k).eown})

(* Type invariant, and whose turn it is: the driver owns the descriptors   *)
(* from receive_index up to the one the controller fills next, and only    *)
(* those, so that neither passes the other around the ring.                *)
DescriptorsInTurn ==
  /\ is_up \in BOOLEAN /\ rxen = is_up
  /\ rx_desc \in [Index -> [eown : BOOLEAN, eop : BOOLEAN, size : FrameSizes \cup {0},
                            bytes : Seq((1..MaxArrivals) \X Nat)]]
  /\ {receive_index, dma_index} \subseteq Index
  /\ input \in {"idle", "free"} /\ output \in {"idle", "wait"}
  /\ tx_desc \in BOOLEAN /\ txrts \in BOOLEAN
  /\ {tx_buf, txread, started, wire[1], wire[2]} \subseteq 0..sent
  /\ Ring(receive_index + Held) = dma_index
  /\ \A i \in Index : ~rx_desc[i].eown => Ring(i - receive_index) < Held

(* The end of the first packet.                                            *)
FirstEnd == Min({k \in 1..Held : Desc(k).eop})

(* Descriptors of the frame that was returned and is not released yet.     *)
Released == IF input = "free" /\ Held > 0 THEN FirstEnd ELSE 0

(* The frames in the descriptors d after the first m of them, up to any    *)
(* one: those that an end of packet completes, and the part of the next.   *)
Cut(d, m) ==
  LET upto[k \in m..RX_DESCRIPTORS] ==
        IF k = m
        THEN [frames |-> <<>>, part |-> <<>>]
        ELSE LET part == upto[k - 1].part \o d[k].bytes
             IN IF d[k].eop
                THEN [frames |-> Append(upto[k - 1].frames, part), part |-> <<>>]
                ELSE [frames |-> upto[k - 1].frames, part |-> part]
  IN upto

FramesInRing == Cut([k \in 1..RX_DESCRIPTORS |-> Desc(k)], Released)[Held].frames

(* The ring is a FIFO of frames: each is returned to the guest once, in    *)
(* the order of arrival and with its size, and "no frame" is said only     *)
(* when there is none; the controller may fill descriptors between any two *)
(* steps of the driver.  Each is copied entire, but for those that fill an *)
(* even number of descriptors: half of the bytes of such a frame come.     *)
Fifo == INSTANCE FrameFifo WITH
  up <- is_up,
  frames <- IF is_up THEN FramesInRing ELSE <<>>,
  returned <- result
RingIsFifo == Fifo!Spec

(* A transmission that ends has sent the frame it was started for, all of  *)
(* it, unless another frame, even one that is not to be transmitted, was   *)
(* written to the buffer meanwhile, or the watchdog cleared its            *)
(* descriptor: a descriptor is written and a transmission started only     *)
(* when no other is under way.                                             *)
LastFrameIsWhole ==
  [][(txrts /\ ~txrts' /\ tx_desc /\ tx_buf = started) => wire' = <<started, started>>]_dmaVars
=============================================================================
