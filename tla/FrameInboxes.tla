---------------------------- MODULE FrameInboxes ----------------------------
(***************************************************************************)
(* What the shared Ethernet driver promises the VMs: each has a network    *)
(* device of its own, an inbox with the frames addressed to it and the     *)
(* broadcast ones, in the order they came.  Frames are lost only when the  *)
(* link goes down, the latest ones first.                                  *)
(***************************************************************************)
EXTENDS Naturals, Sequences, SequencesExt

CONSTANTS
  Port,        \* the VMs, by the order of their MAC addresses
  Frame,       \* records with a destination dst
  BROADCAST,   \* the destination of a broadcast frame
  NONE         \* what receiving returns when there is no frame

VARIABLES
  up,       \* the state of the link
  member,   \* ports in use
  inbox,    \* frames that came and were not received
  got       \* the last receive: the port and what it returned

Init ==
  /\ up = FALSE
  /\ member = {}
  /\ inbox = [p \in Port |-> <<>>]
  /\ got = [vm |-> 0, frame |-> NONE]

(* A new port may see broadcast frames that came before it.                *)
Join(p) ==
  /\ p \notin member
  /\ member' = member \cup {p}
  /\ inbox'[p] \in Seq(Frame)
  /\ inbox' = [inbox EXCEPT ![p] = inbox'[p]]
  /\ UNCHANGED <<up, got>>

Arrive(f) ==
  /\ up
  /\ inbox' = [p \in Port |-> IF p \in member /\ f.dst \in {p, BROADCAST}
                              THEN Append(inbox[p], f) ELSE inbox[p]]
  /\ UNCHANGED <<up, member, got>>

Receive(p) ==
  /\ p \in member
  /\ IF inbox[p] = <<>>
     THEN got' = [vm |-> p, frame |-> NONE] /\ UNCHANGED inbox
     ELSE /\ got' = [vm |-> p, frame |-> Head(inbox[p])]
          /\ inbox' = [inbox EXCEPT ![p] = Tail(@)]
  /\ UNCHANGED <<up, member>>

LinkDown ==
  /\ up
  /\ up' = FALSE
  /\ DOMAIN inbox' = Port
  /\ \A p \in Port : IsPrefix(inbox'[p], inbox[p])
  /\ UNCHANGED <<member, got>>

LinkUp ==
  /\ ~up
  /\ up' = TRUE
  /\ UNCHANGED <<member, inbox, got>>

Next ==
  \/ \E p \in Port : Join(p) \/ Receive(p)
  \/ \E f \in Frame : Arrive(f)
  \/ LinkDown
  \/ LinkUp

Spec == Init /\ [][Next]_<<up, member, inbox, got>>
=============================================================================
