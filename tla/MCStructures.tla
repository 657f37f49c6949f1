---------------------------- MODULE MCStructures ----------------------------
(* The structures that the rest of the code relies on, each on its own:    *)
(* the queue, the heap, the descriptor rings of the Ethernet driver and    *)
(* its PHY, the page of flash of the guests, the integer and the floating  *)
(* point arithmetic of their library, and the tables of hypercalls and     *)
(* interrupts.                                                             *)
(* They share nothing, so a behaviour moves one of them and the others     *)
(* stay as they were created.                                              *)
EXTENDS CircularQueue, Heap, EthernetDMA, GuestFlash, GuestArithmetic,
        GuestFloat, EthernetPHY, MCDispatch

MCFloatWords ==
  {-300000, -4097, -1, 0, 1, 2, 3, 2047, 2048, 4095, 4096, 4097, 8191, 8193, 524287}

QueueAtRest == Init /\ UNCHANGED vars
HeapAtRest == HeapInit /\ UNCHANGED heapVars
DmaAtRest == DmaInit /\ UNCHANGED dmaVars
FlashAtRest == FlashInit /\ UNCHANGED flashVars
ArithmeticAtRest == ArithmeticInit /\ UNCHANGED args
FloatAtRest == FloatInit /\ UNCHANGED operands
PhyAtRest == PhyInit /\ phys = <<>> /\ UNCHANGED phyVars
DispatchAtRest == build = StarterKit /\ DispatchInit /\ UNCHANGED dispatchVars

MCInit ==
  /\ Init /\ HeapInit /\ DmaInit /\ FlashInit /\ ArithmeticInit /\ FloatInit
  /\ PhyInit /\ DispatchInit /\ (phys = <<>> \/ build = StarterKit)

MCNext ==
  \/ /\ HeapAtRest /\ DmaAtRest /\ FlashAtRest /\ ArithmeticAtRest /\ FloatAtRest
     /\ PhyAtRest /\ DispatchAtRest
     /\ Next
  \/ /\ QueueAtRest /\ DmaAtRest /\ FlashAtRest /\ ArithmeticAtRest /\ FloatAtRest
     /\ PhyAtRest /\ DispatchAtRest
     /\ HeapNext
  \/ /\ QueueAtRest /\ HeapAtRest /\ FlashAtRest /\ ArithmeticAtRest /\ FloatAtRest
     /\ PhyAtRest /\ DispatchAtRest
     /\ DmaNext
  \/ /\ QueueAtRest /\ HeapAtRest /\ DmaAtRest /\ ArithmeticAtRest /\ FloatAtRest
     /\ PhyAtRest /\ DispatchAtRest
     /\ FlashNext
  \/ /\ QueueAtRest /\ HeapAtRest /\ DmaAtRest /\ FlashAtRest /\ FloatAtRest
     /\ PhyAtRest /\ DispatchAtRest
     /\ ArithmeticNext
  \/ /\ QueueAtRest /\ HeapAtRest /\ DmaAtRest /\ FlashAtRest /\ ArithmeticAtRest
     /\ FloatAtRest /\ PhyAtRest
     /\ DispatchNext
  \/ /\ QueueAtRest /\ HeapAtRest /\ DmaAtRest /\ FlashAtRest /\ ArithmeticAtRest
     /\ PhyAtRest /\ DispatchAtRest
     /\ FloatNext
  \/ /\ QueueAtRest /\ HeapAtRest /\ DmaAtRest /\ FlashAtRest /\ ArithmeticAtRest
     /\ FloatAtRest /\ DispatchAtRest
     /\ PhyNext

MCSpec ==
  MCInit /\ [][MCNext]_<<vars, heapVars, dmaVars, flashVars, args, operands, phyVars,
                        dispatchVars>>
=============================================================================
