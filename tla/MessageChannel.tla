--------------------------- MODULE MessageChannel ---------------------------
(***************************************************************************)
(* What inter-VM communication promises the applications: an inbox per VM, *)
(* first in first out.  A message that was accepted is received once, by   *)
(* the VM it was sent to, after those accepted before it.                  *)
(***************************************************************************)
EXTENDS Naturals, Sequences

CONSTANTS
  VCPU,       \* the VMs, by their VCPU
  Traffic,    \* messages: records with source, target and payload
  Capacity    \* messages an inbox holds

VARIABLE inbox

Init == inbox = [v \in VCPU |-> <<>>]

Accept(m) ==
  /\ Len(inbox[m.target]) < Capacity
  /\ inbox' = [inbox EXCEPT ![m.target] = Append(@, m)]

Receive(v) ==
  /\ inbox[v] # <<>>
  /\ inbox' = [inbox EXCEPT ![v] = Tail(@)]

Next ==
  \/ \E m \in Traffic : Accept(m)
  \/ \E v \in VCPU : Receive(v)

Spec == Init /\ [][Next]_inbox
=============================================================================
