---------------------------- MODULE BoundedQueue ----------------------------
(***************************************************************************)
(* What sys/lib/queue.c promises the scheduler: a sequence of at most      *)
(* Capacity elements.  ret is what the last operation returned.            *)
(***************************************************************************)
EXTENDS Integers, Sequences

CONSTANTS Capacity, Elem, NULL

VARIABLES contents, ret

vars == <<contents, ret>>

OK == 0
FAILED == -1

(* queue_get() and queue_set() count positions from zero.                  *)
InQueue(i) == i < Len(contents)

Init == contents = <<>> /\ ret = OK

AddTail(e) ==
  IF Len(contents) < Capacity
  THEN contents' = Append(contents, e) /\ ret' = OK
  ELSE ret' = FAILED /\ UNCHANGED contents

RemHead ==
  IF contents # <<>>
  THEN contents' = Tail(contents) /\ ret' = Head(contents)
  ELSE ret' = NULL /\ UNCHANGED contents

Get(i) ==
  /\ ret' = IF InQueue(i) THEN contents[i + 1] ELSE NULL
  /\ UNCHANGED contents

Set(i, e) ==
  IF InQueue(i)
  THEN contents' = [contents EXCEPT ![i + 1] = e] /\ ret' = OK
  ELSE ret' = FAILED /\ UNCHANGED contents

Swap(i, j) ==
  IF InQueue(i) /\ InQueue(j)
  THEN /\ contents' = [contents EXCEPT ![i + 1] = contents[j + 1],
                                       ![j + 1] = contents[i + 1]]
       /\ ret' = OK
  ELSE ret' = FAILED /\ UNCHANGED contents

Next ==
  \/ \E e \in Elem : AddTail(e)
  \/ RemHead
  \/ \E i \in 0..Capacity : Get(i)
  \/ \E i \in 0..Capacity, e \in Elem : Set(i, e)
  \/ \E i, j \in 0..Capacity : Swap(i, j)

Spec == Init /\ [][Next]_vars
=============================================================================
