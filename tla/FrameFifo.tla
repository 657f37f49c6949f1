----------------------------- MODULE FrameFifo -----------------------------
(***************************************************************************)
(* What the reception side of drivers/pic32mz-ethernet.c promises a guest: *)
(* while the link is up, each hypercall returns the oldest frame that came *)
(* and was not returned yet, and its size; frames are lost only with the   *)
(* link, or when the ring has no room for them.                            *)
(***************************************************************************)
EXTENDS Integers, Sequences

CONSTANT RX_BYTES_PER_DESC   \* bytes in the buffer of a descriptor

VARIABLES
  up,        \* the link
  frames,    \* the frames that came while it is up
  returned   \* what the last hypercall returned: [size, bytes]

vars == <<up, frames, returned>>

(* The bytes of frame f that the guest gets.  The copy compares what it    *)
(* has read with what is left, and stops where they are the same: halfway, *)
(* when that is the end of a descriptor.                                   *)
Given(f) ==
  IF Len(f) % (2 * RX_BYTES_PER_DESC) = 0 THEN SubSeq(f, 1, Len(f) \div 2) ELSE f

Init ==
  /\ up = FALSE
  /\ frames = <<>>
  /\ returned = [size |-> 0, bytes |-> <<>>]

Arrive ==
  /\ up
  /\ Len(frames') = Len(frames) + 1
  /\ SubSeq(frames', 1, Len(frames)) = frames
  /\ UNCHANGED <<up, returned>>

Receive ==
  /\ up /\ frames # <<>>
  /\ returned' = [size |-> Len(Head(frames)), bytes |-> Given(Head(frames))]
  /\ frames' = Tail(frames)
  /\ UNCHANGED up

ReceiveNothing ==
  /\ frames = <<>>
  /\ returned' = [size |-> 0, bytes |-> <<>>]
  /\ UNCHANGED <<up, frames>>

(* Frames that were not taken are gone when the link goes down.            *)
Link == up' = ~up /\ frames' = <<>> /\ UNCHANGED returned

Next == Arrive \/ Receive \/ ReceiveNothing \/ Link

Spec == Init /\ [][Next]_vars
=============================================================================
