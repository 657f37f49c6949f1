--------------------------- MODULE CircularQueue ---------------------------
(***************************************************************************)
(* The queue of the ready list, sys/lib/queue.c: a ring with one slot more *)
(* than its capacity, so that full and empty differ.  Module Scheduler     *)
(* takes the ready list for a sequence; this module shows that it may.     *)
(***************************************************************************)
EXTENDS Integers, Sequences

CONSTANTS
  Capacity,    \* the size asked from queue_create()
  Elem,        \* pointers put in the queue
  NULL,        \* the null pointer
  GARBAGE      \* what malloc() left in the slots

ASSUME QueueAssumption ==
  /\ Capacity \in Nat \ {0}
  /\ NULL \notin Elem
  /\ GARBAGE \notin Elem \cup {NULL}

size == Capacity + 1           \* q->size
Slot == 0..Capacity

OK == 0
FAILED == -1

VARIABLES
  head, tail, elem, data,   \* the fields of struct queue_t
  ret                       \* what the last operation returned

vars == <<head, tail, elem, data, ret>>

-----------------------------------------------------------------------------
(* The slot of the n-th element.                                           *)
At(n) == (head + n) % size

(* The bound n-th elements are checked against.                            *)
Missing(n) == elem <= n \/ head = tail

(* The slot kept free to tell full from empty is used.                     *)
AddTail_MutantFull(e) ==
  /\ tail' = (tail + 1) % size
  /\ data' = [data EXCEPT ![tail] = e]
  /\ elem' = elem + 1
  /\ ret' = OK
  /\ UNCHANGED head

(* queue_addtail()                                                         *)
AddTail(e) ==
  LET next == (tail + 1) % size
  IN IF next = head
     THEN ret' = FAILED /\ UNCHANGED <<head, tail, elem, data>>
     ELSE /\ data' = [data EXCEPT ![tail] = e]
          /\ tail' = next
          /\ elem' = elem + 1
          /\ ret' = OK
          /\ UNCHANGED head

(* queue_remhead()                                                         *)
RemHead ==
  IF head = tail
  THEN ret' = NULL /\ UNCHANGED <<head, tail, elem, data>>
  ELSE /\ ret' = data[head]
       /\ head' = (head + 1) % size
       /\ elem' = elem - 1
       /\ UNCHANGED <<tail, data>>

(* queue_get()                                                             *)
Get(n) ==
  /\ ret' = IF Missing(n) THEN NULL ELSE data[At(n)]
  /\ UNCHANGED <<head, tail, elem, data>>

(* queue_set()                                                             *)
Set(n, e) ==
  /\ IF Missing(n)
     THEN ret' = FAILED /\ UNCHANGED data
     ELSE ret' = OK /\ data' = [data EXCEPT ![At(n)] = e]
  /\ UNCHANGED <<head, tail, elem>>

(* queue_swap()                                                            *)
Swap(n, m) ==
  /\ IF Missing(n) \/ Missing(m)
     THEN ret' = FAILED /\ UNCHANGED data
     ELSE ret' = OK /\ data' = [data EXCEPT ![At(n)] = data[At(m)],
                                            ![At(m)] = data[At(n)]]
  /\ UNCHANGED <<head, tail, elem>>

-----------------------------------------------------------------------------
(* queue_create(), when malloc() succeeds.                                 *)
Init ==
  /\ head = 0 /\ tail = 0 /\ elem = 0
  /\ data = [s \in Slot |-> GARBAGE]
  /\ ret = OK

(* What the hypervisor calls, and queue_set() and queue_swap().            *)
Next ==
  \/ \E e \in Elem : AddTail(e)
  \/ RemHead
  \/ \E n \in 0..Capacity : Get(n)
  \/ \E n \in 0..Capacity, e \in Elem : Set(n, e)
  \/ \E n, m \in 0..Capacity : Swap(n, m)

Spec == Init /\ [][Next]_vars

-----------------------------------------------------------------------------
(* Type invariant.                                                         *)
QueueTypeOK ==
  /\ head \in Slot
  /\ tail \in Slot
  /\ elem \in 0..Capacity
  /\ data \in [Slot -> Elem \cup {GARBAGE}]
  /\ ret \in Elem \cup {NULL, OK, FAILED}

(* elem, which bounds the scans of the ready list, is the distance from    *)
(* head to tail, by which insertions and removals decide full and empty.   *)
ElemIsDistance ==
  \/ head <= tail /\ elem = tail - head
  \/ tail < head /\ elem = tail - head + size

(* The elements in the queue, in order.                                    *)
Contents == [i \in 1..elem |-> data[At(i - 1)]]

(* The ring is a sequence of at most Capacity elements: nothing is lost,   *)
(* duplicated or reordered when head and tail wrap, and the slots malloc() *)
(* left uninitialised are never returned.                                  *)
Sequence == INSTANCE BoundedQueue WITH contents <- Contents
ImplementsSequence == Sequence!Spec
=============================================================================
