-------------------------- MODULE ComponentProofs --------------------------
(***************************************************************************)
(* The components that share nothing with the others, for every value of   *)
(* their constants: the queue of sys/lib/queue.c implements the bounded    *)
(* sequence the scheduler takes it for; the page of flash holds one write; *)
(* the PHY is found and its mode is used; the descriptor ring and the      *)
(* transmitter of the Ethernet driver; the device mapping hypercalls; the  *)
(* tables of hypercalls and interrupt handlers; and the heap.              *)
(***************************************************************************)
EXTENDS CircularQueue, GuestFlash, EthernetPHY, EthernetDMA, UsbHost, Dispatch,
        Heap, SequenceTheorems, FiniteSetTheorems, WellFoundedInduction, TLAPS

-----------------------------------------------------------------------------
(* The queue.                                                              *)

(* The slots between head and tail were written.                           *)
IInv ==
  /\ QueueTypeOK
  /\ ElemIsDistance
  /\ \A n \in 0..(elem - 1) : data[At(n)] \in Elem

(* The remainders of the code, without remainders.                         *)
LEMMA Wrap ==
  ASSUME NEW k \in 0..(2 * Capacity + 1)
  PROVE  k % size = IF k <= Capacity THEN k ELSE k - size
<1>1. size \in Nat /\ size > 0 /\ size = Capacity + 1
  BY QueueAssumption DEF size
<1>2. CASE k <= Capacity
  BY <1>1, <1>2, QueueAssumption
<1>3. CASE k > Capacity
  <2>1. k - size \in 0..Capacity
    BY <1>1, <1>3, QueueAssumption
  <2>2. k = 1 * size + (k - size)
    BY <1>1, <1>3, QueueAssumption
  <2>3. QED
    BY <1>1, <1>3, <2>1, <2>2, QueueAssumption
<1>4. QED
  BY <1>2, <1>3, QueueAssumption

LEMMA NextSlot ==
  ASSUME NEW s \in Slot
  PROVE  /\ (s + 1) % size = IF s < Capacity THEN s + 1 ELSE 0
         /\ (s + 1) % size \in Slot
<1> DEFINE k == s + 1
<1>1. k \in 0..(2 * Capacity + 1)
  BY QueueAssumption DEF Slot
<1> HIDE DEF k
<1>2. k % size = IF k <= Capacity THEN k ELSE k - size
  BY <1>1, Wrap
<1>3. QED
  BY <1>2, QueueAssumption DEF k, Slot, size

LEMMA SlotAt ==
  ASSUME NEW h \in Slot, NEW n \in 0..Capacity
  PROVE  /\ (h + n) % size = IF h + n <= Capacity THEN h + n ELSE h + n - size
         /\ (h + n) % size \in Slot
<1> DEFINE k == h + n
<1>1. k \in 0..(2 * Capacity + 1)
  BY QueueAssumption DEF Slot
<1> HIDE DEF k
<1>2. k % size = IF k <= Capacity THEN k ELSE k - size
  BY <1>1, Wrap
<1>3. QED
  BY <1>1, <1>2, QueueAssumption DEF k, Slot, size

LEMMA AtIs ==
  ASSUME QueueTypeOK, NEW n \in 0..Capacity
  PROVE  /\ At(n) = IF head + n <= Capacity THEN head + n ELSE head + n - size
         /\ At(n) \in Slot
  BY SlotAt DEF QueueTypeOK, At

(* Different positions are in different slots.                             *)
LEMMA AtInjective ==
  ASSUME QueueTypeOK, NEW n \in 0..Capacity, NEW m \in 0..Capacity, At(n) = At(m)
  PROVE  n = m
<1>1. /\ At(n) = IF head + n <= Capacity THEN head + n ELSE head + n - size
      /\ At(m) = IF head + m <= Capacity THEN head + m ELSE head + m - size
  BY AtIs
<1>2. head \in Int /\ n \in 0..Capacity /\ m \in 0..Capacity /\ Capacity \in Nat
      /\ size = Capacity + 1
  BY QueueAssumption DEF QueueTypeOK, Slot, size
<1>3. CASE head + n <= Capacity /\ head + m <= Capacity
  <2>1. head + n = head + m
    BY <1>1, <1>3
  <2>2. QED
    BY <1>2, <2>1
<1>4. CASE head + n <= Capacity /\ ~(head + m <= Capacity)
  <2>1. head + n = head + m - size
    BY <1>1, <1>4
  <2>2. QED
    BY <1>2, <2>1
<1>5. CASE ~(head + n <= Capacity) /\ head + m <= Capacity
  <2>1. head + n - size = head + m
    BY <1>1, <1>5
  <2>2. QED
    BY <1>2, <2>1
<1>6. CASE ~(head + n <= Capacity) /\ ~(head + m <= Capacity)
  <2>1. head + n - size = head + m - size
    BY <1>1, <1>6
  <2>2. QED
    BY <1>2, <2>1
<1>7. QED
  BY <1>3, <1>4, <1>5, <1>6

(* Full and empty, in terms of elem.                                       *)
LEMMA FullAndEmpty ==
  ASSUME QueueTypeOK, ElemIsDistance
  PROVE  /\ At(elem) = tail
         /\ head = tail <=> elem = 0
         /\ (tail + 1) % size = head <=> elem = Capacity
         /\ (tail + 1) % size \in Slot
         /\ (head + 1) % size \in Slot
<1>1. /\ head \in 0..Capacity /\ tail \in 0..Capacity /\ elem \in 0..Capacity
      /\ size = Capacity + 1
  BY DEF QueueTypeOK, Slot, size
<1>2. /\ (tail + 1) % size = IF tail < Capacity THEN tail + 1 ELSE 0
      /\ (head + 1) % size = IF head < Capacity THEN head + 1 ELSE 0
  BY NextSlot DEF QueueTypeOK
<1>3. At(elem) = IF head + elem <= Capacity THEN head + elem ELSE head + elem - size
  BY <1>1, AtIs
<1>4. QED
  BY <1>1, <1>2, <1>3, QueueAssumption DEF ElemIsDistance, Slot

LEMMA InBounds ==
  ASSUME IInv, NEW n \in 0..Capacity
  PROVE  Missing(n) <=> ~(n < elem)
  BY FullAndEmpty, QueueAssumption DEF Missing, IInv, QueueTypeOK

-----------------------------------------------------------------------------
LEMMA InitEstablishesIInv == Init => IInv
  BY QueueAssumption DEF Init, IInv, QueueTypeOK, ElemIsDistance, Slot

LEMMA AddTailStep ==
  ASSUME IInv, NEW e \in Elem, AddTail(e)
  PROVE  IInv'
<1> DEFINE next == (tail + 1) % size
<1>0. QueueTypeOK /\ ElemIsDistance
  BY DEF IInv
<1>1. CASE next = head
  BY <1>1 DEF AddTail, IInv, QueueTypeOK, ElemIsDistance, At
<1>2. CASE next # head
  <2>1. /\ data' = [data EXCEPT ![tail] = e] /\ tail' = next /\ elem' = elem + 1
        /\ ret' = OK /\ head' = head
    BY <1>2 DEF AddTail
  <2>2. elem < Capacity /\ next \in Slot /\ At(elem) = tail
    <3>1. elem \in 0..Capacity /\ elem # Capacity
      BY <1>0, <1>2, FullAndEmpty DEF QueueTypeOK
    <3>2. QED
      BY <1>0, <3>1, FullAndEmpty, QueueAssumption
  <2>3. QueueTypeOK'
    BY <1>0, <2>1, <2>2, QueueAssumption DEF QueueTypeOK, Slot
  <2>4. ElemIsDistance'
    <3>1. next = IF tail < Capacity THEN tail + 1 ELSE 0
      BY <1>0, NextSlot DEF QueueTypeOK
    <3>2. QED
      BY <1>0, <1>2, <2>1, <2>2, <3>1, QueueAssumption
         DEF ElemIsDistance, QueueTypeOK, Slot, size
  <2>5. ASSUME NEW n \in 0..elem PROVE data'[At(n)] \in Elem
    <3>1. At(n) \in Slot
      <4>1. n \in 0..Capacity
        BY <1>0, QueueAssumption DEF QueueTypeOK
      <4>2. QED
        BY <1>0, <4>1, AtIs
    <3>2. CASE n = elem
      BY <1>0, <2>1, <2>2, <3>2 DEF QueueTypeOK
    <3>3. CASE n # elem
      <4>1. n \in 0..(elem - 1) /\ data[At(n)] \in Elem
        BY <1>0, <3>3 DEF IInv, QueueTypeOK
      <4>2. QED
        BY <1>0, <2>1, <3>1, <4>1, QueueAssumption DEF QueueTypeOK
    <3>4. QED
      BY <3>2, <3>3
  <2>6. QED
    BY <1>0, <2>1, <2>3, <2>4, <2>5 DEF IInv, At, QueueTypeOK
<1>3. QED
  BY <1>1, <1>2

LEMMA RemHeadStep ==
  ASSUME IInv, RemHead
  PROVE  IInv'
<1>0. QueueTypeOK /\ ElemIsDistance
  BY DEF IInv
<1>1. CASE head = tail
  BY <1>1 DEF RemHead, IInv, QueueTypeOK, ElemIsDistance, At
<1>2. CASE head # tail
  <2>1. /\ ret' = data[head] /\ head' = (head + 1) % size /\ elem' = elem - 1
        /\ tail' = tail /\ data' = data
    BY <1>2 DEF RemHead
  <2>2. elem \in 1..Capacity
    BY <1>0, <1>2, FullAndEmpty DEF QueueTypeOK
  <2>3. head' = IF head < Capacity THEN head + 1 ELSE 0
    BY <1>0, <2>1, NextSlot DEF QueueTypeOK
  <2>4. QueueTypeOK'
    <3>1. head' \in Slot
      BY <1>0, <2>1, NextSlot DEF QueueTypeOK
    <3>2. data[head] \in Elem
      <4>1. At(0) = head
        BY <1>0, AtIs, QueueAssumption DEF QueueTypeOK, Slot
      <4>2. QED
        BY <2>2, <4>1, QueueAssumption DEF IInv
    <3>3. QED
      BY <1>0, <2>1, <2>2, <3>1, <3>2, QueueAssumption DEF QueueTypeOK
  <2>5. ElemIsDistance'
    BY <1>0, <1>2, <2>1, <2>2, <2>3, QueueAssumption
       DEF ElemIsDistance, QueueTypeOK, Slot, size
  <2>6. ASSUME NEW n \in 0..(elem - 2) PROVE At(n)' = At(n + 1)
    <3>1. n \in 0..Capacity /\ n + 1 \in 0..Capacity
      BY <2>2, QueueAssumption
    <3>2. At(n)' = IF head' + n <= Capacity THEN head' + n ELSE head' + n - size
      BY <2>4, <3>1, SlotAt DEF At, QueueTypeOK
    <3>3. At(n + 1) = IF head + (n + 1) <= Capacity THEN head + (n + 1)
                      ELSE head + (n + 1) - size
      BY <1>0, <3>1, AtIs
    <3>4. QED
      BY <1>0, <2>3, <3>1, <3>2, <3>3, QueueAssumption DEF QueueTypeOK, Slot, size
  <2>7. QED
    BY <2>1, <2>2, <2>4, <2>5, <2>6 DEF IInv, At
<1>3. QED
  BY <1>1, <1>2

(* queue_get(), queue_set() and queue_swap() move no end of the queue, and *)
(* write elements into slots.                                              *)
LEMMA StoreStep ==
  ASSUME IInv, UNCHANGED <<head, tail, elem>>,
         data' \in [Slot -> Elem \cup {GARBAGE}],
         \A n \in 0..(elem - 1) : data'[At(n)] \in Elem,
         ret' \in Elem \cup {NULL, OK, FAILED}
  PROVE  IInv'
  BY DEF IInv, QueueTypeOK, ElemIsDistance, At

LEMMA GetStep ==
  ASSUME IInv, NEW n \in 0..Capacity, Get(n)
  PROVE  IInv'
<1>1. ~Missing(n) => data[At(n)] \in Elem
  BY InBounds DEF IInv, QueueTypeOK
<1>2. QED
  BY <1>1, StoreStep DEF Get, IInv, QueueTypeOK

LEMMA SetStep ==
  ASSUME IInv, NEW n \in 0..Capacity, NEW e \in Elem, Set(n, e)
  PROVE  IInv'
<1>0. /\ QueueTypeOK
      /\ \A m \in 0..Capacity : At(m) \in Slot
      /\ \A m \in 0..(elem - 1) : m \in 0..Capacity /\ data[At(m)] \in Elem
  BY AtIs, QueueAssumption DEF IInv, QueueTypeOK
<1>1. data' = data \/ data' = [data EXCEPT ![At(n)] = e]
  BY DEF Set
<1>2. data' \in [Slot -> Elem \cup {GARBAGE}]
  BY <1>0, <1>1 DEF QueueTypeOK
<1>3. \A m \in 0..(elem - 1) : data'[At(m)] \in Elem
  BY <1>0, <1>1 DEF QueueTypeOK
<1>4. QED
  BY <1>2, <1>3, StoreStep DEF Set

LEMMA SwapStep ==
  ASSUME IInv, NEW n \in 0..Capacity, NEW m \in 0..Capacity, Swap(n, m)
  PROVE  IInv'
<1>0. /\ QueueTypeOK
      /\ \A k \in 0..Capacity : At(k) \in Slot
      /\ \A k \in 0..(elem - 1) : k \in 0..Capacity /\ data[At(k)] \in Elem
  BY AtIs, QueueAssumption DEF IInv, QueueTypeOK
<1>1. CASE Missing(n) \/ Missing(m)
  BY <1>0, <1>1, StoreStep DEF Swap, QueueTypeOK
<1>2. CASE ~(Missing(n) \/ Missing(m))
  <2>1. data' = [data EXCEPT ![At(n)] = data[At(m)], ![At(m)] = data[At(n)]]
    BY <1>2 DEF Swap
  <2>2. n \in 0..(elem - 1) /\ m \in 0..(elem - 1)
    BY <1>0, <1>2, InBounds DEF QueueTypeOK
  <2>3. data[At(n)] \in Elem /\ data[At(m)] \in Elem
    BY <1>0, <2>2
  <2>4. data' \in [Slot -> Elem \cup {GARBAGE}]
    BY <1>0, <2>1, <2>3 DEF QueueTypeOK
  <2>5. \A k \in 0..(elem - 1) : data'[At(k)] \in Elem
    BY <1>0, <2>1, <2>3 DEF QueueTypeOK
  <2>6. QED
    BY <1>2, <2>4, <2>5, StoreStep DEF Swap
<1>3. QED
  BY <1>1, <1>2

LEMMA NextPreservesIInv == IInv /\ [Next]_vars => IInv'
<1>1. ASSUME IInv, Next PROVE IInv'
  BY <1>1, AddTailStep, RemHeadStep, GetStep, SetStep, SwapStep DEF Next
<1>2. ASSUME IInv, UNCHANGED vars PROVE IInv'
  BY <1>2 DEF vars, IInv, QueueTypeOK, ElemIsDistance, At
<1>3. QED
  BY <1>1, <1>2

THEOREM InvariantHolds == Spec => []IInv
  BY InitEstablishesIInv, NextPreservesIInv, PTL DEF Spec

(* Type correctness.                                                       *)
THEOREM TypeCorrect == Spec => []QueueTypeOK
<1>1. IInv => QueueTypeOK
  BY DEF IInv
<1>2. QED
  BY InvariantHolds, <1>1, PTL

(* elem is always the distance from head to tail.                          *)
THEOREM CountIsExact == Spec => []ElemIsDistance
<1>1. IInv => ElemIsDistance
  BY DEF IInv
<1>2. QED
  BY InvariantHolds, <1>1, PTL

-----------------------------------------------------------------------------
(* The refinement.                                                         *)

LEMMA ContentsIs ==
  ASSUME IInv
  PROVE  /\ Contents \in Seq(Elem)
         /\ Len(Contents) = elem
         /\ \A n \in 0..Capacity : n < elem => Contents[n + 1] = data[At(n)]
<1>1. elem \in 0..Capacity
  BY DEF IInv, QueueTypeOK
<1>2. \A i \in 1..elem : data[At(i - 1)] \in Elem
  BY <1>1 DEF IInv
<1>3. \A n \in 0..Capacity : n < elem => n + 1 \in 1..elem /\ (n + 1) - 1 = n
  BY <1>1
<1>4. QED
  BY <1>1, <1>2, <1>3 DEF Contents

LEMMA AddTailRefines ==
  ASSUME IInv, NEW e \in Elem, AddTail(e)
  PROVE  Sequence!AddTail(e)
<1> USE DEF Sequence!AddTail, Sequence!OK, Sequence!FAILED
<1>0. QueueTypeOK /\ ElemIsDistance /\ elem \in 0..Capacity /\ Len(Contents) = elem
      /\ Contents \in Seq(Elem)
  BY ContentsIs DEF IInv, QueueTypeOK
<1>1. CASE (tail + 1) % size = head
  <2>1. elem = Capacity
    BY <1>0, <1>1, FullAndEmpty
  <2>2. UNCHANGED Contents /\ ret' = FAILED
    BY <1>1 DEF AddTail, Contents, At
  <2>3. QED
    BY <1>0, <2>1, <2>2, QueueAssumption DEF FAILED
<1>2. CASE (tail + 1) % size # head
  <2>1. /\ data' = [data EXCEPT ![tail] = e] /\ elem' = elem + 1
        /\ ret' = OK /\ head' = head
    BY <1>2 DEF AddTail
  <2>2. elem < Capacity /\ At(elem) = tail
    BY <1>0, <1>2, FullAndEmpty, QueueAssumption
  <2>3. ASSUME NEW i \in 1..(elem + 1)
        PROVE  data'[At(i - 1)] = IF i <= elem THEN Contents[i] ELSE e
    <3>1. i - 1 \in 0..Capacity /\ At(i - 1) \in Slot /\ tail \in Slot
      BY <1>0, <2>2, AtIs, QueueAssumption DEF QueueTypeOK
    <3>2. CASE i = elem + 1
      <4>1. At(i - 1) = tail
        BY <2>2, <3>2, <1>0
      <4>2. QED
        BY <1>0, <2>1, <3>1, <3>2, <4>1 DEF QueueTypeOK
    <3>3. CASE i <= elem
      <4>1. At(i - 1) # tail
        BY <1>0, <2>2, <3>1, <3>3, AtInjective
      <4>2. Contents[i] = data[At(i - 1)]
        BY <3>3, <1>0 DEF Contents
      <4>3. QED
        BY <1>0, <2>1, <3>1, <3>3, <4>1, <4>2 DEF QueueTypeOK
    <3>4. QED
      BY <1>0, <3>2, <3>3
  <2>4. Contents' = [i \in 1..(elem + 1) |-> data'[At(i - 1)]]
    BY <2>1 DEF Contents, At
  <2>5. /\ Append(Contents, e) \in [1..(elem + 1) -> Elem]
        /\ \A i \in 1..(elem + 1) :
             Append(Contents, e)[i] = IF i <= elem THEN Contents[i] ELSE e
    <3>1. Append(Contents, e) \in Seq(Elem) /\ Len(Append(Contents, e)) = elem + 1
      BY <1>0
    <3>2. Append(Contents, e) \in [1..(elem + 1) -> Elem]
      BY <3>1, LenProperties
    <3>3. ASSUME NEW i \in 1..(elem + 1)
          PROVE  Append(Contents, e)[i] = IF i <= elem THEN Contents[i] ELSE e
      BY <1>0
    <3>4. QED
      BY <3>2, <3>3
  <2>6. Contents' = Append(Contents, e)
    BY <2>3, <2>4, <2>5
  <2>7. QED
    BY <1>0, <2>1, <2>2, <2>6 DEF OK
<1>3. QED
  BY <1>1, <1>2

LEMMA RemHeadRefines ==
  ASSUME IInv, RemHead
  PROVE  Sequence!RemHead
<1> USE DEF Sequence!RemHead
<1>0. QueueTypeOK /\ ElemIsDistance /\ elem \in 0..Capacity /\ Len(Contents) = elem
      /\ Contents \in Seq(Elem)
  BY ContentsIs DEF IInv, QueueTypeOK
<1>1. CASE head = tail
  <2>1. elem = 0
    BY <1>0, <1>1, FullAndEmpty
  <2>2. UNCHANGED Contents /\ ret' = NULL
    BY <1>1 DEF RemHead, Contents, At
  <2>3. QED
    BY <1>0, <2>1, <2>2
<1>2. CASE head # tail
  <2>1. /\ ret' = data[head] /\ head' = (head + 1) % size /\ elem' = elem - 1
        /\ data' = data
    BY <1>2 DEF RemHead
  <2>2. elem \in 1..Capacity
    BY <1>0, <1>2, FullAndEmpty
  <2>3. Contents # <<>> /\ Head(Contents) = data[head]
    <3>1. At(0) = head
      BY <1>0, AtIs, QueueAssumption DEF QueueTypeOK, Slot
    <3>2. Contents[1] = data[At(0)]
      BY <2>2 DEF Contents
    <3>3. QED
      BY <1>0, <2>2, <3>1, <3>2
  <2>4. ASSUME NEW i \in 1..(elem - 1)
        PROVE  data[At(i - 1)'] = Contents[i + 1]
    <3>1. i - 1 \in 0..Capacity /\ i \in 0..Capacity
      BY <2>2, QueueAssumption
    <3>2. head' = IF head < Capacity THEN head + 1 ELSE 0
      BY <1>0, <2>1, NextSlot DEF QueueTypeOK
    <3>3. head' \in Slot
      BY <1>0, <2>1, NextSlot DEF QueueTypeOK
    <3>4. At(i - 1)' = IF head' + (i - 1) <= Capacity THEN head' + (i - 1)
                       ELSE head' + (i - 1) - size
      BY <3>1, <3>3, SlotAt DEF At
    <3>5. At(i) = IF head + i <= Capacity THEN head + i ELSE head + i - size
      BY <1>0, <3>1, AtIs
    <3>6. At(i - 1)' = At(i)
      BY <1>0, <3>1, <3>2, <3>4, <3>5, QueueAssumption DEF QueueTypeOK, Slot, size
    <3>7. Contents[i + 1] = data[At(i)]
      BY <2>2, <3>1, ContentsIs
    <3>8. QED
      BY <3>6, <3>7
  <2>5. Contents' = [i \in 1..(elem - 1) |-> data[At(i - 1)']]
    BY <2>1 DEF Contents
  <2>6. /\ Tail(Contents) \in [1..(elem - 1) -> Elem]
        /\ \A i \in 1..(elem - 1) : Tail(Contents)[i] = Contents[i + 1]
    BY <1>0, <2>2, <2>3, HeadTailProperties, LenProperties
  <2>7. Contents' = Tail(Contents)
    BY <2>4, <2>5, <2>6
  <2>8. QED
    BY <2>1, <2>3, <2>7
<1>3. QED
  BY <1>1, <1>2

LEMMA GetRefines ==
  ASSUME IInv, NEW n \in 0..Capacity, Get(n)
  PROVE  Sequence!Get(n)
<1>1. UNCHANGED Contents
  BY DEF Get, Contents, At
<1>2. QED
  BY <1>1, ContentsIs, InBounds DEF Get, Sequence!Get, Sequence!InQueue

LEMMA SetRefines ==
  ASSUME IInv, NEW n \in 0..Capacity, NEW e \in Elem, Set(n, e)
  PROVE  Sequence!Set(n, e)
<1> USE DEF Sequence!Set, Sequence!InQueue, Sequence!OK, Sequence!FAILED
<1>0. QueueTypeOK /\ elem \in 0..Capacity /\ Len(Contents) = elem
  BY ContentsIs DEF IInv, QueueTypeOK
<1>1. CASE ~(n < elem)
  <2>1. UNCHANGED Contents /\ ret' = FAILED
    BY <1>1, InBounds DEF Set, Contents, At
  <2>2. QED
    BY <1>0, <1>1, <2>1 DEF FAILED
<1>2. CASE n < elem
  <2>1. data' = [data EXCEPT ![At(n)] = e] /\ ret' = OK /\ UNCHANGED <<head, elem>>
    BY <1>2, InBounds DEF Set
  <2>2. ASSUME NEW i \in 1..elem
        PROVE  data'[At(i - 1)] = IF i = n + 1 THEN e ELSE Contents[i]
    <3>1. i - 1 \in 0..Capacity /\ At(i - 1) \in Slot /\ At(n) \in Slot
      BY <1>0, AtIs, QueueAssumption
    <3>2. i # n + 1 => At(i - 1) # At(n)
      BY <1>0, <3>1, AtInjective
    <3>3. Contents[i] = data[At(i - 1)]
      BY DEF Contents
    <3>4. i = n + 1 => At(i - 1) = At(n)
      OBVIOUS
    <3>5. QED
      BY <1>0, <2>1, <3>1, <3>2, <3>3, <3>4 DEF QueueTypeOK
  <2>3. Contents' = [i \in 1..elem |-> data'[At(i - 1)]]
    BY <2>1 DEF Contents, At
  <2>4. Contents = [i \in 1..elem |-> data[At(i - 1)]]
    BY DEF Contents
  <2>5. Contents' = [Contents EXCEPT ![n + 1] = e]
    BY <1>0, <2>2, <2>3, <2>4
  <2>6. QED
    BY <1>0, <1>2, <2>1, <2>5 DEF OK
<1>3. QED
  BY <1>1, <1>2

LEMMA SwapRefines ==
  ASSUME IInv, NEW n \in 0..Capacity, NEW m \in 0..Capacity, Swap(n, m)
  PROVE  Sequence!Swap(n, m)
<1> USE DEF Sequence!Swap, Sequence!InQueue, Sequence!OK, Sequence!FAILED
<1>0. QueueTypeOK /\ elem \in 0..Capacity /\ Len(Contents) = elem
  BY ContentsIs DEF IInv, QueueTypeOK
<1>1. CASE ~(n < elem /\ m < elem)
  <2>1. Missing(n) \/ Missing(m)
    BY <1>1, InBounds
  <2>2. UNCHANGED Contents /\ ret' = FAILED
    BY <2>1 DEF Swap, Contents, At
  <2>3. QED
    BY <1>0, <1>1, <2>2 DEF FAILED
<1>2. CASE n < elem /\ m < elem
  <2>1. ~(Missing(n) \/ Missing(m))
    BY <1>2, InBounds
  <2>2. /\ data' = [data EXCEPT ![At(n)] = data[At(m)], ![At(m)] = data[At(n)]]
        /\ ret' = OK /\ UNCHANGED <<head, elem>>
    BY <2>1 DEF Swap
  <2>3. ASSUME NEW i \in 1..elem
        PROVE  data'[At(i - 1)] = IF i = m + 1 THEN Contents[n + 1]
                                  ELSE IF i = n + 1 THEN Contents[m + 1]
                                  ELSE Contents[i]
    <3>1. i - 1 \in 0..Capacity /\ At(i - 1) \in Slot /\ At(n) \in Slot /\ At(m) \in Slot
      BY <1>0, AtIs, QueueAssumption
    <3>2. (i # n + 1 => At(i - 1) # At(n)) /\ (i # m + 1 => At(i - 1) # At(m))
      BY <1>0, <3>1, AtInjective
    <3>3. /\ Contents[i] = data[At(i - 1)]
          /\ Contents[n + 1] = data[At(n)] /\ Contents[m + 1] = data[At(m)]
      BY <1>2, <1>0, <3>1, ContentsIs DEF Contents
    <3>4. (i = n + 1 => At(i - 1) = At(n)) /\ (i = m + 1 => At(i - 1) = At(m))
      OBVIOUS
    <3>5. QED
      BY <1>0, <2>2, <3>1, <3>2, <3>3, <3>4 DEF QueueTypeOK
  <2>4. Contents' = [i \in 1..elem |-> data'[At(i - 1)]]
    BY <2>2 DEF Contents, At
  <2>5. Contents = [i \in 1..elem |-> data[At(i - 1)]]
    BY DEF Contents
  <2>6. Contents' = [Contents EXCEPT ![n + 1] = Contents[m + 1],
                                     ![m + 1] = Contents[n + 1]]
    BY <1>0, <2>3, <2>4, <2>5
  <2>7. QED
    BY <1>0, <1>2, <2>2, <2>6 DEF OK
<1>3. QED
  BY <1>1, <1>2

(* For every capacity, the queue of the hypervisor is a bounded sequence.  *)
THEOREM QueueIsSequence == Spec => ImplementsSequence
<1>1. Init => Sequence!Init
  BY DEF Init, Sequence!Init, Contents, OK, Sequence!OK
<1>2. ASSUME IInv, Next PROVE Sequence!Next
  BY <1>2, AddTailRefines, RemHeadRefines, GetRefines, SetRefines, SwapRefines
     DEF Next, Sequence!Next
<1>3. ASSUME UNCHANGED vars PROVE UNCHANGED Sequence!vars
  BY <1>3 DEF vars, Sequence!vars, Contents, At
<1>4. IInv /\ [Next]_vars => [Sequence!Next]_(Sequence!vars)
  BY <1>2, <1>3
<1>5. QED
  BY <1>1, <1>4, InvariantHolds, PTL DEF Spec, ImplementsSequence, Sequence!Spec

-----------------------------------------------------------------------------
(* The page of flash.                                                      *)

Cell == {ERASED, SPOILED} \cup {Word(c, i) : c \in Payloads, i \in Quad}

(* The words of p that are neither erased nor spoiled are of one write.    *)
OfOneWrite(p) ==
  \E c \in Payloads : \A i \in Quad : p[i] \in {ERASED, SPOILED, Word(c, i)}

FlashTypeOK ==
  /\ page \in [Quad -> Cell] /\ before \in [Quad -> Cell]
  /\ step \in {"idle", "erase", "program"}
  /\ source \in Payloads \cup {ERASED} /\ stored \in Payloads \cup {ERASED}
  /\ step # "idle" => source \in Payloads
  /\ done \in 0..QUADS

(* What the page holds between two operations of the flash.                *)
FlashInv ==
  /\ FlashTypeOK
  /\ Payloads # {} => OfOneWrite(page)
  /\ Payloads = {} => page = Blank
  /\ step = "erase" => page = before
  /\ step = "program" =>
       page = [i \in Quad |-> IF i < done THEN Word(source, i) ELSE ERASED]
  /\ step = "idle" /\ cut = "nothing" => page = Whole(stored)
  /\ step = "idle" /\ cut = "program" => \E n \in 0..QUADS : IsPartial(page, source, n)
  /\ step = "idle" /\ cut \notin {"nothing", "program"} =>
       \A i \in Quad : page[i] \in {ERASED, SPOILED, before[i]}

LEMMA FlashInitEstablishesInv == FlashInit => FlashInv
<1> SUFFICES ASSUME FlashInit PROVE FlashInv
  OBVIOUS
<1>1. /\ page = Blank /\ before = Blank /\ step = "idle" /\ source = ERASED
      /\ done = 0 /\ stored = ERASED /\ cut = "nothing"
  BY DEF FlashInit
<1>2. Blank \in [Quad -> Cell] /\ Whole(ERASED) = Blank
  BY DEF Blank, Cell, Whole
<1>3. FlashTypeOK
  BY <1>1, <1>2, FlashAssumption DEF FlashTypeOK
<1>4. Payloads # {} => OfOneWrite(Blank)
  BY DEF OfOneWrite, Blank
<1>5. QED
  BY <1>1, <1>2, <1>3, <1>4 DEF FlashInv

LEMMA WordsAreCells ==
  ASSUME NEW c \in Payloads, NEW i \in Quad
  PROVE  Word(c, i) \in Cell
  BY DEF Cell

LEMMA WriteQuadStep ==
  ASSUME FlashInv, step = "program", done < QUADS
  PROVE  LET p == Programmed(done, Word(source, done))
         IN  /\ done \in Quad /\ source \in Payloads
             /\ p = [i \in Quad |-> IF i < done + 1 THEN Word(source, i) ELSE ERASED]
             /\ p \in [Quad -> Cell] /\ OfOneWrite(p)
             /\ IsPartial(page, source, done)
             /\ IsPartial([page EXCEPT ![done] = SPOILED], source, done)
             /\ [page EXCEPT ![done] = SPOILED] \in [Quad -> Cell]
             /\ OfOneWrite([page EXCEPT ![done] = SPOILED])
             /\ IsPartial(p, source, done + 1)
<1> DEFINE p == Programmed(done, Word(source, done))
           q == [page EXCEPT ![done] = SPOILED]
<1>1. /\ done \in Quad /\ source \in Payloads /\ done \in Int /\ QUADS \in Nat
      /\ page = [i \in Quad |-> IF i < done THEN Word(source, i) ELSE ERASED]
      /\ page \in [Quad -> Cell]
  BY FlashAssumption DEF FlashInv, FlashTypeOK, Quad
<1>2. p = [i \in Quad |-> IF i < done + 1 THEN Word(source, i) ELSE ERASED]
  BY <1>1 DEF Programmed, Quad
<1>3. q = [i \in Quad |-> IF i < done THEN Word(source, i)
                           ELSE IF i = done THEN SPOILED ELSE ERASED]
  BY <1>1 DEF Quad
<1>4. p \in [Quad -> Cell] /\ q \in [Quad -> Cell]
  BY <1>1, <1>2, <1>3, WordsAreCells DEF Cell
<1>5. OfOneWrite(p) /\ OfOneWrite(q)
  BY <1>1, <1>2, <1>3 DEF OfOneWrite
<1>6. IsPartial(page, source, done)
  BY <1>1 DEF IsPartial, Quad
<1>7. IsPartial(q, source, done)
  BY <1>1, <1>3 DEF IsPartial, Quad
<1>8. IsPartial(p, source, done + 1)
  BY <1>1, <1>2 DEF IsPartial, Quad
<1>9. QED
  BY <1>1, <1>2, <1>4, <1>5, <1>6, <1>7, <1>8

(* A reset leaves the page as the operation that it cuts may leave it.     *)
LEMMA ResetStep ==
  ASSUME FlashInv, Reset
  PROVE  FlashInv'
<1>1. /\ step' = "idle" /\ cut' = IF step = "idle" THEN cut ELSE step
      /\ UNCHANGED <<source, done, before, stored>>
  BY DEF Reset
<1>2. CASE step = "idle"
  <2>1. page' = page
    BY <1>2 DEF Reset
  <2>2. QED
    BY <1>1, <1>2, <2>1 DEF FlashInv, FlashTypeOK, OfOneWrite, IsPartial
<1>3. CASE step = "erase"
  <2>1. PICK left \in [Quad -> {"old", "new", "neither"}] :
          page' = [i \in Quad |-> CASE left[i] = "old" -> page[i]
                                    [] left[i] = "new" -> ERASED
                                    [] OTHER -> SPOILED]
    BY <1>3 DEF Reset
  <2>2. \A i \in Quad : page'[i] \in {ERASED, SPOILED, page[i]}
    BY <2>1
  <2>3. page' \in [Quad -> Cell]
    BY <2>1 DEF FlashInv, FlashTypeOK, Cell
  <2>4. OfOneWrite(page)
    BY <1>3 DEF FlashInv, FlashTypeOK
  <2>5. OfOneWrite(page')
    BY <2>2, <2>4 DEF OfOneWrite
  <2>6. \A i \in Quad : page'[i] \in {ERASED, SPOILED, before'[i]}
    BY <1>1, <1>3, <2>2 DEF FlashInv
  <2>7. Payloads # {}
    BY <1>3 DEF FlashInv, FlashTypeOK
  <2>8. QED
    BY <1>1, <1>3, <2>3, <2>5, <2>6, <2>7 DEF FlashInv, FlashTypeOK, OfOneWrite
<1>4. CASE step = "program"
  <2>1. \E n \in 0..QUADS : IsPartial(page', source, n)
    <3>1. CASE done < QUADS
      <4>1. /\ IsPartial(page', source, done) \/ IsPartial(page', source, done + 1)
        BY <1>4, <3>1, WriteQuadStep DEF Reset
      <4>2. done \in 0..QUADS /\ done + 1 \in 0..QUADS
        BY <3>1, FlashAssumption DEF FlashInv, FlashTypeOK
      <4>3. QED
        BY <4>1, <4>2
    <3>2. CASE ~(done < QUADS)
      <4>1. page' = page /\ done = QUADS
        BY <1>4, <3>2, FlashAssumption DEF Reset, FlashInv, FlashTypeOK
      <4>2. IsPartial(page, source, QUADS)
        BY <1>4, <4>1, FlashAssumption DEF FlashInv, FlashTypeOK, IsPartial, Quad
      <4>3. QED
        BY <4>1, <4>2, FlashAssumption
    <3>3. QED
      BY <3>1, <3>2
  <2>2. page' \in [Quad -> Cell] /\ OfOneWrite(page')
    <3>1. CASE done < QUADS
      <4>1. OfOneWrite(page) /\ page \in [Quad -> Cell]
        BY <1>4 DEF FlashInv, FlashTypeOK
      <4>2. QED
        BY <1>4, <3>1, <4>1, WriteQuadStep DEF Reset
    <3>2. CASE ~(done < QUADS)
      BY <1>4, <3>2 DEF Reset, FlashInv, FlashTypeOK, OfOneWrite
    <3>3. QED
      BY <3>1, <3>2
  <2>3. Payloads # {}
    BY <1>4 DEF FlashInv, FlashTypeOK
  <2>4. QED
    BY <1>1, <1>4, <2>1, <2>2, <2>3 DEF FlashInv, FlashTypeOK, OfOneWrite, IsPartial
<1>5. QED
  BY <1>2, <1>3, <1>4 DEF FlashInv, FlashTypeOK

LEMMA FlashNextPreservesInv == FlashInv /\ [FlashNext]_flashVars => FlashInv'
<1> SUFFICES ASSUME FlashInv, [FlashNext]_flashVars PROVE FlashInv'
  OBVIOUS
<1>1. ASSUME NEW c \in Payloads, FlashWrite(c) PROVE FlashInv'
  BY <1>1 DEF FlashWrite, FlashInv, FlashTypeOK, OfOneWrite
<1>2. CASE ErasePage
  <2>1. Blank \in [Quad -> Cell] /\ OfOneWrite(Blank)
    BY <1>2 DEF ErasePage, FlashInv, FlashTypeOK, Blank, Cell, OfOneWrite
  <2>2. QED
    BY <1>2, <2>1, FlashAssumption
       DEF ErasePage, FlashInv, FlashTypeOK, OfOneWrite, Blank, Quad
<1>3. CASE WriteQuad
  <2>1. done' \in 0..QUADS
    BY <1>3, FlashAssumption DEF WriteQuad, FlashInv, FlashTypeOK
  <2>2. QED
    BY <1>3, <2>1, WriteQuadStep DEF WriteQuad, FlashInv, FlashTypeOK, OfOneWrite
<1>4. CASE EndOfWrite
  <2>1. page = [i \in Quad |-> Word(source, i)] /\ source # ERASED
    BY <1>4, FlashAssumption DEF EndOfWrite, FlashInv, FlashTypeOK, Quad
  <2>2. page' = Whole(stored')
    BY <1>4, <2>1 DEF EndOfWrite, Whole
  <2>3. QED
    BY <1>4, <2>2 DEF EndOfWrite, FlashInv, FlashTypeOK, OfOneWrite
<1>5. CASE Reset
  BY <1>5, ResetStep
<1>6. CASE UNCHANGED flashVars
  BY <1>6 DEF flashVars, FlashInv, FlashTypeOK, OfOneWrite, IsPartial
<1>7. QED
  BY <1>1, <1>2, <1>3, <1>4, <1>5, <1>6 DEF FlashNext

(* A guest reads what the last complete write wrote unless a reset has cut *)
(* a write since; then it reads a part of the new contents, or of the old, *)
(* and words of two writes are never mixed.                                *)
THEOREM FlashKeepsOneWrite == FlashSpec => []FlashHoldsOneWrite
<1>1. FlashInv => FlashHoldsOneWrite
  <2> SUFFICES ASSUME FlashInv PROVE FlashHoldsOneWrite
    OBVIOUS
  <2>1. FlashRead = page
    BY DEF FlashRead, FlashInv, FlashTypeOK
  <2>2. ASSUME NEW i \in Quad, NEW j \in Quad,
               {page[i], page[j]} \cap {ERASED, SPOILED} = {}
        PROVE  page[i][1] = page[j][1]
    <3>1. CASE Payloads = {}
      BY <2>2, <3>1 DEF FlashInv, Blank
    <3>2. CASE Payloads # {}
      <4>1. PICK c \in Payloads : \A k \in Quad : page[k] \in {ERASED, SPOILED, Word(c, k)}
        BY <3>2 DEF FlashInv, OfOneWrite
      <4>2. page[i] = Word(c, i) /\ page[j] = Word(c, j)
        BY <2>2, <4>1
      <4>3. QED
        BY <4>2 DEF Word
    <3>3. QED
      BY <3>1, <3>2
  <2>3. QED
    BY <2>1, <2>2 DEF FlashInv, FlashHoldsOneWrite
<1>2. QED
  BY <1>1, FlashInitEstablishesInv, FlashNextPreservesInv, PTL DEF FlashSpec

-----------------------------------------------------------------------------
(* The PHY.                                                                *)

Phy == [advrt : SUBSET Modes, resetting : BOOLEAN, restarted : BOOLEAN]
Searching == {"clear", "is_clear", "set", "is_set", "reset", "scan", "advertise",
              "negotiate"}

PhyTypeOK ==
  /\ phys \in [DOMAIN phys -> Phy] /\ DOMAIN phys \subseteq 0..LAST_ADDRESS
  /\ op \in Searching \cup {"idle", "special", "absent"}
  /\ timeouts \in Nat
  /\ phy_addr \in Nat
  /\ op # "absent" => phy_addr <= LAST_ADDRESS
  /\ changed \in BOOLEAN /\ receiving \in BOOLEAN

(* What the search knows while nothing has timed out.                      *)
SearchIsExact ==
  /\ \A a \in DOMAIN phys : phy_addr <= a /\ op # "absent"
  /\ \A a \in DOMAIN phys : phys[a].resetting => a = phy_addr /\ op = "scan"
  /\ op = "is_clear" /\ Present => phys[phy_addr].advrt = {}
  /\ op \in {"is_set", "negotiate"} => phys[phy_addr].advrt = Modes
  /\ op \in {"idle", "special"} =>
       phys[phy_addr] = [advrt |-> Modes, resetting |-> FALSE, restarted |-> TRUE]

PhyInv ==
  /\ PhyTypeOK
  /\ op \notin {"clear", "is_clear", "absent"} => Present
  /\ timeouts = 0 => SearchIsExact
  /\ op \notin {"idle", "special"} => ~receiving
  /\ op = "idle" /\ receiving /\ ~changed /\ timeouts = 0 =>
       line.state = "up" /\ speed = line.mode
  /\ op = "special" /\ ~changed =>
       line.state = "up" /\ (receiving /\ timeouts = 0 => speed = line.mode)

LEMMA PhyInitEstablishesInv == PhyInit => PhyInv
<1> SUFFICES ASSUME PhyInit PROVE PhyInv
  OBVIOUS
<1>1. PICK present \in SUBSET (0..LAST_ADDRESS) :
        phys = [a \in present |-> [advrt |-> Strap, resetting |-> FALSE,
                                   restarted |-> FALSE]]
  BY DEF PhyInit
<1> DEFINE atBoot == [advrt |-> Strap, resetting |-> FALSE, restarted |-> FALSE]
<1>2. /\ phys \in [DOMAIN phys -> Phy] /\ DOMAIN phys \subseteq 0..LAST_ADDRESS
      /\ \A a \in DOMAIN phys : phys[a].resetting = FALSE
  <2>1. atBoot \in Phy /\ atBoot.resetting = FALSE
    <3>1. Strap \in SUBSET Modes
      BY PhyAssumption
    <3>2. QED
      BY <3>1 DEF Phy
  <2>2. phys = [a \in present |-> atBoot]
    BY <1>1
  <2> HIDE DEF atBoot
  <2>3. DOMAIN phys = present /\ \A a \in present : phys[a] = atBoot
    BY <2>2
  <2>4. phys \in [present -> Phy]
    BY <2>1, <2>2
  <2>5. QED
    BY <1>1, <2>1, <2>3, <2>4
<1>3. /\ phy_addr = 0 /\ op = "clear" /\ timeouts = 0 /\ changed = FALSE
      /\ receiving = FALSE
  BY DEF PhyInit
<1>4. PhyTypeOK
  <2>1. op \in Searching \cup {"idle", "special", "absent"}
    BY <1>3 DEF Searching
  <2>2. phy_addr \in Nat /\ timeouts \in Nat /\ phy_addr <= LAST_ADDRESS
    BY <1>3, PhyAssumption
  <2>3. changed \in BOOLEAN /\ receiving \in BOOLEAN
    BY <1>3
  <2>4. QED
    BY <1>2, <2>1, <2>2, <2>3 DEF PhyTypeOK
<1>5. SearchIsExact
  <2>1. \A a \in DOMAIN phys : phy_addr <= a
    <3>1. \A a \in 0..LAST_ADDRESS : 0 <= a
      OBVIOUS
    <3>2. QED
      BY <1>2, <1>3, <3>1
  <2>2. op # "absent" /\ op # "advertise"
    BY <1>3
  <2>3. QED
    BY <1>2, <1>3, <2>1, <2>2 DEF SearchIsExact
<1>6. QED
  BY <1>3, <1>4, <1>5 DEF PhyInv

LEMMA TimeoutCounts ==
  ASSUME timeouts \in Nat, Timeout
  PROVE  timeouts' \in Nat /\ timeouts' # 0
  BY DEF Timeout

(* An operation that fails has timed out, unless there is no PHY.          *)
LEMMA BusSteps ==
  ASSUME PhyTypeOK
  PROVE  /\ \A ok \in BOOLEAN, modes \in SUBSET Modes :
              PhyWrite("advrt", modes, ok) =>
                /\ phys' \in [DOMAIN phys -> Phy] /\ DOMAIN phys' = DOMAIN phys
                /\ timeouts' \in Nat
                /\ timeouts' = 0 =>
                     /\ timeouts = 0 /\ ok
                     /\ \A a \in DOMAIN phys :
                          /\ phys'[a].advrt = IF a = phy_addr THEN modes ELSE phys[a].advrt
                          /\ phys'[a].resetting = phys[a].resetting
                          /\ phys'[a].restarted = phys[a].restarted
         /\ \A modes : PhyReadAdvrt(modes) =>
              /\ timeouts' \in Nat
              /\ ~Present => modes = AllOnes
              /\ timeouts' = 0 =>
                   timeouts = 0 /\ (Present => modes = phys[phy_addr].advrt)
<1>1. ASSUME NEW ok \in BOOLEAN, NEW modes \in SUBSET Modes, PhyWrite("advrt", modes, ok)
      PROVE  /\ phys' \in [DOMAIN phys -> Phy] /\ DOMAIN phys' = DOMAIN phys
             /\ timeouts' \in Nat
             /\ timeouts' = 0 =>
                  /\ timeouts = 0 /\ ok
                  /\ \A a \in DOMAIN phys :
                       /\ phys'[a].advrt = IF a = phy_addr THEN modes ELSE phys[a].advrt
                       /\ phys'[a].resetting = phys[a].resetting
                       /\ phys'[a].restarted = phys[a].restarted
  <2> DEFINE w == Written("advrt", modes)
  <2>1. /\ w \in [DOMAIN phys -> Phy] /\ DOMAIN w = DOMAIN phys
        /\ \A a \in DOMAIN phys :
             /\ w[a].advrt = IF a = phy_addr THEN modes ELSE phys[a].advrt
             /\ w[a].resetting = phys[a].resetting
             /\ w[a].restarted = phys[a].restarted
    BY DEF PhyTypeOK, Written, Present, Phy
  <2>2. phys' \in {phys, w} /\ (ok => phys' = w /\ timeouts' = timeouts) /\ (~ok => Timeout)
    BY <1>1 DEF PhyWrite
  <2> HIDE DEF w
  <2>3. QED
    BY <2>1, <2>2, TimeoutCounts DEF PhyTypeOK
<1>2. QED
  BY <1>1, TimeoutCounts DEF PhyReadAdvrt, PhyTypeOK

(* The same for the two bits that are set.                                 *)
LEMMA BusSetsBits ==
  ASSUME PhyTypeOK, Present, NEW field \in {"resetting", "restarted"}, NEW ok \in BOOLEAN,
         PhyWrite(field, TRUE, ok)
  PROVE  /\ phys' \in [DOMAIN phys -> Phy] /\ DOMAIN phys' = DOMAIN phys
         /\ timeouts' \in Nat
         /\ timeouts' = 0 =>
              /\ timeouts = 0 /\ ok
              /\ phys' = [phys EXCEPT ![phy_addr] =
                            IF field = "resetting" THEN [@ EXCEPT !.resetting = TRUE]
                            ELSE [@ EXCEPT !.restarted = TRUE]]
<1> DEFINE w == [phys EXCEPT ![phy_addr] =
                   IF field = "resetting" THEN [@ EXCEPT !.resetting = TRUE]
                   ELSE [@ EXCEPT !.restarted = TRUE]]
<1>1. phys \in [DOMAIN phys -> Phy] /\ phy_addr \in DOMAIN phys
  BY DEF PhyTypeOK, Present
<1>2. w \in [DOMAIN phys -> Phy] /\ DOMAIN w = DOMAIN phys
  BY <1>1 DEF Phy
<1>3. phys' \in {phys, w} /\ (ok => phys' = w /\ timeouts' = timeouts) /\ (~ok => Timeout)
  BY <1>1 DEF PhyWrite, Written, Present
<1> HIDE DEF w
<1>4. QED
  BY <1>1, <1>2, <1>3, TimeoutCounts DEF PhyTypeOK, w

(* A PHY is rejected only when an operation timed out or there is none.    *)
LEMMA RejectStep ==
  ASSUME PhyInv, Reject, op \in Searching, UNCHANGED link,
         phys' \in [DOMAIN phys -> Phy], DOMAIN phys' = DOMAIN phys, timeouts' \in Nat,
         timeouts' = 0 => timeouts = 0 /\ ~Present /\ phys' = phys
  PROVE  PhyInv'
<1>1. /\ phy_addr' = phy_addr + 1
      /\ op' = IF phy_addr = LAST_ADDRESS THEN "absent" ELSE "clear"
      /\ phy_addr \in Nat /\ phy_addr <= LAST_ADDRESS /\ ~receiving
  BY DEF Reject, PhyInv, PhyTypeOK, Searching
<1>2. PhyTypeOK'
  BY <1>1, PhyAssumption DEF PhyInv, PhyTypeOK, Searching, link
<1>3. ASSUME timeouts' = 0
      PROVE  SearchIsExact'
  <2>1. /\ phys' = phys /\ phy_addr \notin DOMAIN phys /\ DOMAIN phys \subseteq 0..LAST_ADDRESS
        /\ \A a \in DOMAIN phys : phy_addr <= a /\ (phys[a].resetting => a = phy_addr)
    BY <1>3 DEF PhyInv, PhyTypeOK, SearchIsExact, Present
  <2>2. \A a \in DOMAIN phys : phy_addr + 1 <= a /\ phy_addr # LAST_ADDRESS
    BY <1>1, <2>1, PhyAssumption
  <2>3. QED
    BY <1>1, <2>1, <2>2 DEF SearchIsExact
<1>4. QED
  BY <1>1, <1>2, <1>3 DEF PhyInv, link, Searching

(* The search goes on at the same address.                                 *)
LEMMA ProceedStep ==
  ASSUME PhyInv, NEW to \in Searching \cup {"idle"}, Proceed(to), op \in Searching,
         UNCHANGED link, to \notin {"clear", "is_clear"} => Present',
         phys' \in [DOMAIN phys -> Phy], DOMAIN phys' = DOMAIN phys, timeouts' \in Nat,
         timeouts' = 0 => SearchIsExact'
  PROVE  PhyInv'
  BY DEF PhyInv, PhyTypeOK, Proceed, link, Searching

LEMMA PhyResetStep ==
  ASSUME PhyInv, PhyReset
  PROVE  PhyInv'
<1>1. /\ PhyTypeOK /\ phys \in [DOMAIN phys -> Phy] /\ timeouts \in Nat
      /\ timeouts = 0 => SearchIsExact
  BY DEF PhyInv, PhyTypeOK
<1>2. CASE ClearAdvrt
  <2>1. PICK ok \in BOOLEAN : PhyWrite("advrt", {}, ok)
    BY <1>2 DEF ClearAdvrt
  <2>2. op = "clear" /\ Proceed("is_clear") /\ UNCHANGED link
    BY <1>2 DEF ClearAdvrt
  <2>3. timeouts' = 0 => SearchIsExact'
    BY <1>1, <2>1, <2>2, BusSteps DEF SearchIsExact, Proceed, Present
  <2>4. QED
    BY <1>1, <2>1, <2>2, <2>3, BusSteps, ProceedStep DEF Searching
<1>3. CASE IsClear
  <2>1. PICK modes \in SUBSET Modes :
          PhyReadAdvrt(modes) /\ IF modes # {} THEN Reject ELSE Proceed("set")
    BY <1>3 DEF IsClear
  <2>2. op = "is_clear" /\ UNCHANGED <<phys, link>>
    BY <1>3 DEF IsClear
  <2>3. timeouts' \in Nat /\ (~Present => modes = AllOnes)
        /\ (timeouts' = 0 => timeouts = 0 /\ (Present => modes = phys[phy_addr].advrt))
    BY <1>1, <2>1, BusSteps
  <2>4. CASE modes # {}
    BY <1>1, <2>1, <2>2, <2>3, <2>4, RejectStep DEF SearchIsExact, Searching
  <2>5. CASE modes = {}
    <3>1. Proceed("set") /\ Present /\ UNCHANGED Present
      BY <2>1, <2>2, <2>3, <2>5 DEF AllOnes, Modes, Present, Proceed
    <3>2. timeouts' = 0 => SearchIsExact'
      BY <1>1, <2>2, <2>3, <3>1 DEF SearchIsExact, Proceed
    <3>3. QED
      BY <1>1, <2>2, <2>3, <3>1, <3>2, ProceedStep DEF Searching
  <2>6. QED
    BY <2>4, <2>5
<1>4. CASE SetAdvrt
  <2>1. PICK ok \in BOOLEAN : PhyWrite("advrt", Modes, ok)
    BY <1>4 DEF SetAdvrt
  <2>2. op = "set" /\ Proceed("is_set") /\ UNCHANGED link /\ Present
    BY <1>4 DEF SetAdvrt, PhyInv
  <2>3. DOMAIN phys' = DOMAIN phys /\ Present'
    BY <1>1, <2>1, <2>2, BusSteps DEF Present, Proceed
  <2>4. timeouts' = 0 => SearchIsExact'
    BY <1>1, <2>1, <2>2, BusSteps DEF SearchIsExact, Proceed, Present
  <2>5. QED
    BY <1>1, <2>1, <2>2, <2>3, <2>4, BusSteps, ProceedStep DEF Searching
<1>5. CASE IsSet
  <2>1. PICK modes \in SUBSET Modes :
          PhyReadAdvrt(modes) /\ IF modes # Modes THEN Reject ELSE Proceed("reset")
    BY <1>5 DEF IsSet
  <2>2. op = "is_set" /\ UNCHANGED <<phys, link>> /\ Present
    BY <1>5 DEF IsSet, PhyInv
  <2>3. timeouts' \in Nat
        /\ (timeouts' = 0 => timeouts = 0 /\ modes = phys[phy_addr].advrt)
    BY <1>1, <2>1, <2>2, BusSteps
  <2>4. CASE modes # Modes
    BY <1>1, <2>1, <2>2, <2>3, <2>4, RejectStep DEF SearchIsExact, Searching
  <2>5. CASE modes = Modes
    <3>1. Proceed("reset") /\ UNCHANGED Present
      BY <2>1, <2>2, <2>5 DEF Present, Proceed
    <3>2. timeouts' = 0 => SearchIsExact'
      BY <1>1, <2>2, <2>3, <3>1 DEF SearchIsExact, Proceed
    <3>3. QED
      BY <1>1, <2>2, <2>3, <3>1, <3>2, ProceedStep DEF Searching
  <2>6. QED
    BY <2>4, <2>5
<1>6. CASE SendReset
  <2>1. PICK ok \in BOOLEAN :
          PhyWrite("resetting", TRUE, ok) /\ IF ok THEN Proceed("scan") ELSE Reject
    BY <1>6 DEF SendReset
  <2>2. op = "reset" /\ UNCHANGED link /\ Present
    BY <1>6 DEF SendReset, PhyInv
  <2>3. /\ phys' \in [DOMAIN phys -> Phy] /\ DOMAIN phys' = DOMAIN phys
        /\ timeouts' \in Nat
        /\ timeouts' = 0 =>
             timeouts = 0 /\ ok /\ phys' = [phys EXCEPT ![phy_addr].resetting = TRUE]
    BY <1>1, <2>1, <2>2, BusSetsBits
  <2>4. CASE ~ok
    BY <2>1, <2>2, <2>3, <2>4, RejectStep DEF Searching
  <2>5. CASE ok
    <3>1. Proceed("scan") /\ Present'
      BY <2>1, <2>2, <2>3, <2>5 DEF Present, Proceed
    <3>2. timeouts' = 0 => SearchIsExact'
      BY <1>1, <2>2, <2>3, <3>1 DEF SearchIsExact, Proceed, Present, Phy
    <3>3. QED
      BY <1>1, <2>2, <2>3, <3>1, <3>2, ProceedStep DEF Searching
  <2>6. QED
    BY <2>4, <2>5
<1>7. CASE WaitForReset
  <2>1. PICK ok \in BOOLEAN : PhyScan(ok) /\ IF ok THEN Proceed("advertise") ELSE Reject
    BY <1>7 DEF WaitForReset
  <2>2. op = "scan" /\ UNCHANGED <<phys, link>> /\ Present
    BY <1>7 DEF WaitForReset, PhyInv
  <2>3. timeouts' \in Nat /\ (timeouts' = 0 => timeouts = 0 /\ ok)
        /\ (ok => ~phys[phy_addr].resetting)
    BY <1>1, <2>1, <2>2, TimeoutCounts DEF PhyScan
  <2>4. CASE ~ok
    BY <1>1, <2>1, <2>2, <2>3, <2>4, RejectStep DEF Searching
  <2>5. CASE ok
    <3>1. Proceed("advertise") /\ Present'
      BY <2>1, <2>2, <2>5 DEF Present, Proceed
    <3>2. timeouts' = 0 => SearchIsExact'
      BY <1>1, <2>2, <2>3, <2>5, <3>1 DEF SearchIsExact, Proceed
    <3>3. QED
      BY <1>1, <2>2, <2>3, <3>1, <3>2, ProceedStep DEF Searching
  <2>6. QED
    BY <2>4, <2>5
<1>8. CASE Advertise
  <2>1. PICK ok \in BOOLEAN : PhyWrite("advrt", Modes, ok)
    BY <1>8 DEF Advertise
  <2>2. op = "advertise" /\ Proceed("negotiate") /\ UNCHANGED link /\ Present
    BY <1>8 DEF Advertise, PhyInv
  <2>3. DOMAIN phys' = DOMAIN phys /\ Present'
    BY <1>1, <2>1, <2>2, BusSteps DEF Present, Proceed
  <2>4. timeouts' = 0 => SearchIsExact'
    BY <1>1, <2>1, <2>2, BusSteps DEF SearchIsExact, Proceed, Present
  <2>5. QED
    BY <1>1, <2>1, <2>2, <2>3, <2>4, BusSteps, ProceedStep DEF Searching
<1>9. CASE Negotiate
  <2>1. PICK ok \in BOOLEAN : PhyWrite("restarted", TRUE, ok)
    BY <1>9 DEF Negotiate
  <2>2. op = "negotiate" /\ Proceed("idle") /\ UNCHANGED link /\ Present
    BY <1>9 DEF Negotiate, PhyInv
  <2>3. /\ phys' \in [DOMAIN phys -> Phy] /\ DOMAIN phys' = DOMAIN phys
        /\ timeouts' \in Nat
        /\ timeouts' = 0 =>
             timeouts = 0 /\ phys' = [phys EXCEPT ![phy_addr].restarted = TRUE]
    BY <1>1, <2>1, <2>2, BusSetsBits
  <2>4. Present'
    BY <2>2, <2>3 DEF Present, Proceed
  <2>5. ASSUME timeouts' = 0
        PROVE  SearchIsExact'
    <3>1. /\ SearchIsExact /\ phys' = [phys EXCEPT ![phy_addr].restarted = TRUE]
          /\ phys[phy_addr] \in Phy /\ phy_addr \in DOMAIN phys
          /\ phys[phy_addr].advrt = Modes /\ phys[phy_addr].resetting = FALSE
      BY <1>1, <2>2, <2>3, <2>5 DEF SearchIsExact, Present, Phy
    <3>2. phys'[phy_addr] = [advrt |-> Modes, resetting |-> FALSE, restarted |-> TRUE]
      BY <3>1 DEF Phy
    <3>3. \A a \in DOMAIN phys : a # phy_addr => phys'[a] = phys[a]
      BY <1>1, <3>1
    <3>4. QED
      BY <2>2, <2>3, <3>1, <3>2, <3>3 DEF SearchIsExact, Proceed
  <2>6. QED
    BY <2>2, <2>3, <2>4, <2>5, ProceedStep DEF Searching
<1>10. QED
  BY <1>2, <1>3, <1>4, <1>5, <1>6, <1>7, <1>8, <1>9 DEF PhyReset

LEMMA PhyNextPreservesInv == PhyInv /\ [PhyNext]_phyVars => PhyInv'
<1> SUFFICES ASSUME PhyInv, [PhyNext]_phyVars PROVE PhyInv'
  OBVIOUS
<1>1. CASE PhyReset
  BY <1>1, PhyResetStep
<1>2. CASE PollStatus
  <2>1. /\ op = "idle" /\ UNCHANGED <<phys, phy_addr, line>>
        /\ timeouts' \in Nat /\ (timeouts' = 0 => timeouts = 0)
    BY <1>2, TimeoutCounts DEF PollStatus, PhyInv, PhyTypeOK
  <2>2. \/ /\ IsLinked /\ op' = "special" /\ changed' = (changed /\ receiving)
           /\ UNCHANGED <<receiving, speed>>
        \/ NoLink
    BY <1>2 DEF PollStatus
  <2>3. PhyTypeOK' /\ Present' /\ (timeouts' = 0 => SearchIsExact')
    BY <2>1, <2>2 DEF PhyInv, PhyTypeOK, SearchIsExact, Present, NoLink, Searching
  <2>4. CASE NoLink
    BY <2>1, <2>3, <2>4 DEF PhyInv, NoLink
  <2>5. CASE ~NoLink
    <3>1. line'.state = "up" /\ op' = "special" /\ speed' = speed /\ receiving' = receiving
      BY <2>1, <2>2, <2>5 DEF IsLinked
    <3>2. receiving /\ ~changed' => ~changed
      BY <2>2, <2>5 DEF PhyInv, PhyTypeOK
    <3>3. receiving /\ timeouts' = 0 /\ ~changed' => speed = line.mode
      BY <2>1, <3>2 DEF PhyInv
    <3>4. QED
      BY <2>1, <2>3, <3>1, <3>3 DEF PhyInv
  <2>6. QED
    BY <2>4, <2>5
<1>3. CASE PollMode
  <2>1. PICK mode \in Modes :
          /\ \/ mode = (IF line.state = "up" THEN line.mode ELSE "100") /\ UNCHANGED timeouts
             \/ mode = "100" /\ Timeout
          /\ speed' = IF receiving THEN speed ELSE mode
    BY <1>3 DEF PollMode
  <2>2. /\ timeouts' \in Nat /\ (timeouts' = 0 => timeouts = 0)
        /\ timeouts' = 0 /\ line.state = "up" => mode = line.mode
    BY <2>1, TimeoutCounts DEF PhyInv, PhyTypeOK
  <2>3. op = "special" /\ op' = "idle" /\ receiving' = TRUE
        /\ UNCHANGED <<phys, phy_addr, line, changed>>
    BY <1>3 DEF PollMode
  <2>4. QED
    BY <2>1, <2>2, <2>3 DEF PhyInv, PhyTypeOK, SearchIsExact, Present
<1>4. CASE ResetEnds
  <2>1. PICK b \in DOMAIN phys :
          /\ phys[b].resetting
          /\ phys' = [phys EXCEPT ![b] = [advrt |-> Strap, resetting |-> FALSE,
                                           restarted |-> FALSE]]
    BY <1>4 DEF ResetEnds
  <2>2. UNCHANGED <<phy_addr, op, timeouts, link>>
    BY <1>4 DEF ResetEnds
  <2>3. phys' \in [DOMAIN phys -> Phy] /\ DOMAIN phys' = DOMAIN phys
    BY <2>1, PhyAssumption DEF PhyInv, PhyTypeOK, Phy
  <2>4. timeouts = 0 => SearchIsExact'
    BY <2>1, <2>2, <2>3 DEF PhyInv, PhyTypeOK, SearchIsExact, Phy, Present
  <2>5. QED
    BY <2>2, <2>3, <2>4 DEF PhyInv, PhyTypeOK, Present, link
<1>5. CASE LineChanges
  BY <1>5 DEF LineChanges, PhyInv, PhyTypeOK, SearchIsExact, Present, bus
<1>6. CASE UNCHANGED phyVars
  BY <1>6 DEF phyVars, bus, link, PhyInv, PhyTypeOK, SearchIsExact, Present
<1>7. QED
  BY <1>1, <1>2, <1>3, <1>4, <1>5, <1>6 DEF PhyNext, NotDetected

(* The driver takes no address without a PHY for one, whatever times out;  *)
(* and, when nothing does, it finds the first PHY, if there is one, after  *)
(* its reset and negotiating with all modes, and receives in the mode that *)
(* was negotiated until the line changes.                                  *)
THEOREM PhyWorks == PhySpec => []LinkIsNegotiated
<1>1. PhyInv => LinkIsNegotiated
  <2> SUFFICES ASSUME PhyInv PROVE LinkIsNegotiated
    OBVIOUS
  <2>1. ASSUME Detected, timeouts = 0
        PROVE  phy_addr = Min(DOMAIN phys)
    <3>1. phy_addr \in DOMAIN phys /\ DOMAIN phys \subseteq Nat
      BY <2>1, PhyAssumption DEF Detected, PhyInv, PhyTypeOK, Present
    <3>2. \A a \in DOMAIN phys : phy_addr <= a
      BY <2>1 DEF PhyInv, SearchIsExact
    <3>3. \A a \in DOMAIN phys : a <= phy_addr => a = phy_addr
      BY <3>1, <3>2
    <3>4. QED
      BY <3>1, <3>2, <3>3 DEF Min
  <2>2. op = "absent" => DOMAIN phys = {} \/ timeouts > 0
    <3>1. timeouts = 0 \/ timeouts > 0
      BY DEF PhyInv, PhyTypeOK
    <3>2. op = "absent" /\ timeouts = 0 => DOMAIN phys = {}
      BY DEF PhyInv, SearchIsExact
    <3>3. QED
      BY <3>1, <3>2
  <2>3. PhyIsFound
    BY <2>1, <2>2 DEF Detected, PhyInv, SearchIsExact, PhyIsFound
  <2>4. QED
    BY <2>3 DEF PhyInv, LinkIsNegotiated
<1>2. QED
  BY <1>1, PhyInitEstablishesInv, PhyNextPreservesInv, PTL DEF PhySpec

-----------------------------------------------------------------------------
(* The reception ring of the Ethernet driver.                              *)

(* The remainders that occur, without remainders.                          *)
LEMMA RingIs ==
  ASSUME NEW a \in (-RX_DESCRIPTORS)..(2 * RX_DESCRIPTORS - 1)
  PROVE  /\ Ring(a) = IF a < 0 THEN a + RX_DESCRIPTORS
                      ELSE IF a < RX_DESCRIPTORS THEN a ELSE a - RX_DESCRIPTORS
         /\ Ring(a) \in Index
<1> DEFINE N == RX_DESCRIPTORS
<1>1. N \in Nat /\ N > 0 /\ a \in Int
  BY DmaAssumption
<1>2. \A q \in {-1, 0, 1} : a - q * N \in 0..(N - 1) => a % N = a - q * N
  <2>1. \A q, r \in Int : r \in 0..(N - 1) => (q * N + r) % N = r
    BY <1>1
  <2>2. QED
    BY <1>1, <2>1
<1>3. CASE a < 0
  BY <1>1, <1>2, <1>3 DEF Ring, Index
<1>4. CASE 0 <= a /\ a < N
  BY <1>1, <1>2, <1>4 DEF Ring, Index
<1>5. CASE N <= a
  BY <1>1, <1>2, <1>5 DEF Ring, Index
<1>6. QED
  BY <1>1, <1>3, <1>4, <1>5

LEMMA PositionIs ==
  ASSUME NEW i \in Index, NEW r \in Index
  PROVE  /\ Ring(i - r) = IF r <= i THEN i - r ELSE i - r + RX_DESCRIPTORS
         /\ Ring(i - r) \in Index
<1> DEFINE a == i - r
<1>1. a \in (-RX_DESCRIPTORS)..(2 * RX_DESCRIPTORS - 1) /\ a < RX_DESCRIPTORS
      /\ (a < 0 <=> ~(r <= i))
  BY DmaAssumption DEF Index
<1> HIDE DEF a
<1>2. /\ Ring(a) = IF a < 0 THEN a + RX_DESCRIPTORS
                   ELSE IF a < RX_DESCRIPTORS THEN a ELSE a - RX_DESCRIPTORS
      /\ Ring(a) \in Index
  BY <1>1, RingIs
<1>3. QED
  BY <1>1, <1>2 DEF a

LEMMA SlotIsAt ==
  ASSUME NEW r \in Index, NEW n \in 0..RX_DESCRIPTORS
  PROVE  /\ Ring(r + n) = IF r + n < RX_DESCRIPTORS THEN r + n ELSE r + n - RX_DESCRIPTORS
         /\ Ring(r + n) \in Index
<1> DEFINE a == r + n
<1>1. a \in (-RX_DESCRIPTORS)..(2 * RX_DESCRIPTORS - 1) /\ ~(a < 0)
  BY DmaAssumption DEF Index
<1> HIDE DEF a
<1>2. /\ Ring(a) = IF a < 0 THEN a + RX_DESCRIPTORS
                   ELSE IF a < RX_DESCRIPTORS THEN a ELSE a - RX_DESCRIPTORS
      /\ Ring(a) \in Index
  BY <1>1, RingIs
<1>3. /\ Ring(a) = IF a < RX_DESCRIPTORS THEN a ELSE a - RX_DESCRIPTORS
      /\ Ring(a) \in Index
  BY <1>1, <1>2
<1>4. a = r + n /\ r \in Int /\ n \in Int /\ RX_DESCRIPTORS \in Int
  BY DmaAssumption DEF a, Index
<1>5. QED
  BY <1>3, <1>4

(* The driver owns the n descriptors from receive_index on.                *)
InTurn(n) ==
  /\ dma_index = Ring(receive_index + n)
  /\ \A i \in Index : ~rx_desc[i].eown <=> Ring(i - receive_index) < n

Descriptor == [eown : BOOLEAN, eop : BOOLEAN, size : FrameSizes \cup {0},
               bytes : Seq((1..MaxArrivals) \X Nat)]

DmaTypeOK ==
  /\ is_up \in BOOLEAN /\ rxen = is_up
  /\ rx_desc \in [Index -> Descriptor]
  /\ receive_index \in Index /\ dma_index \in Index
  /\ arrived \in Nat
  /\ input \in {"idle", "free"} /\ output \in {"idle", "wait"}
  /\ sent \in Nat /\ tx_buf \in 0..sent /\ txread \in 0..sent
  /\ wire[1] \in 0..sent /\ wire[2] \in 0..sent /\ started \in 0..sent
  /\ tx_desc \in BOOLEAN /\ txrts \in BOOLEAN

DmaInv == DmaTypeOK /\ \E n \in 0..RX_DESCRIPTORS : InTurn(n)

(* The descriptors that hold the frame which comes are free.               *)
LEMMA FrameFits ==
  ASSUME DmaTypeOK, NEW n \in 0..RX_DESCRIPTORS, InTurn(n),
         NEW count \in 0..RX_DESCRIPTORS,
         \A k \in 0..(count - 1) : rx_desc[Ring(dma_index + k)].eown
  PROVE  n + count <= RX_DESCRIPTORS
<1> SUFFICES ASSUME n + count > RX_DESCRIPTORS PROVE FALSE
  BY DmaAssumption
<1> DEFINE k == RX_DESCRIPTORS - n
<1>1. k \in 0..(count - 1) /\ n > 0 /\ n \in Nat /\ RX_DESCRIPTORS \in Nat
  BY DmaAssumption
<1>2. Ring(dma_index + k) = receive_index
  <2>1. dma_index = IF receive_index + n < RX_DESCRIPTORS THEN receive_index + n
                    ELSE receive_index + n - RX_DESCRIPTORS
    BY SlotIsAt DEF InTurn, DmaTypeOK
  <2>2. k \in 0..RX_DESCRIPTORS /\ dma_index \in Index /\ receive_index \in Index
    BY <1>1 DEF DmaTypeOK
  <2> HIDE DEF k
  <2>3. Ring(dma_index + k) = IF dma_index + k < RX_DESCRIPTORS THEN dma_index + k
                              ELSE dma_index + k - RX_DESCRIPTORS
    BY <2>2, SlotIsAt
  <2>4. QED
    BY <1>1, <2>1, <2>2, <2>3 DEF k, Index
<1>3. rx_desc[receive_index].eown
  BY <1>1, <1>2
<1>4. Ring(receive_index - receive_index) = 0
  BY PositionIs DEF DmaTypeOK, Index
<1>5. QED
  BY <1>1, <1>3, <1>4 DEF InTurn, DmaTypeOK

LEMMA ArriveKeepsTurn ==
  ASSUME DmaTypeOK, NEW n \in 0..RX_DESCRIPTORS, InTurn(n),
         NEW count \in 0..RX_DESCRIPTORS,
         \A k \in 0..(count - 1) : rx_desc[Ring(dma_index + k)].eown,
         dma_index' = Ring(dma_index + count), UNCHANGED receive_index,
         \A i \in Index : rx_desc'[i].eown =
            IF Ring(i - dma_index) < count THEN FALSE ELSE rx_desc[i].eown
  PROVE  n + count \in 0..RX_DESCRIPTORS /\ InTurn(n + count)'
<1>1. n + count \in 0..RX_DESCRIPTORS
  <2>1. n + count <= RX_DESCRIPTORS
    BY FrameFits
  <2>2. QED
    BY <2>1, DmaAssumption
<1>2. dma_index = IF receive_index + n < RX_DESCRIPTORS THEN receive_index + n
                  ELSE receive_index + n - RX_DESCRIPTORS
  BY SlotIsAt DEF InTurn, DmaTypeOK
<1>3. receive_index \in Index /\ dma_index \in Index
  BY DEF DmaTypeOK
<1>4. Ring(dma_index + count) = Ring(receive_index + (n + count))
  <2>1. Ring(dma_index + count) =
          IF dma_index + count < RX_DESCRIPTORS THEN dma_index + count
          ELSE dma_index + count - RX_DESCRIPTORS
    BY <1>3, SlotIsAt
  <2> DEFINE m == n + count
  <2>2. m \in 0..RX_DESCRIPTORS
    BY <1>1
  <2> HIDE DEF m
  <2>3. Ring(receive_index + m) =
          IF receive_index + m < RX_DESCRIPTORS THEN receive_index + m
          ELSE receive_index + m - RX_DESCRIPTORS
    BY <1>3, <2>2, SlotIsAt
  <2>4. QED
    BY <1>2, <1>3, <2>1, <2>2, <2>3, DmaAssumption DEF m, Index
<1>5. ASSUME NEW i \in Index
      PROVE  ~rx_desc'[i].eown <=> Ring(i - receive_index) < n + count
  <2>1. Ring(i - receive_index) = IF receive_index <= i THEN i - receive_index
                                  ELSE i - receive_index + RX_DESCRIPTORS
    BY <1>3, PositionIs
  <2>2. Ring(i - dma_index) = IF dma_index <= i THEN i - dma_index
                              ELSE i - dma_index + RX_DESCRIPTORS
    BY <1>3, PositionIs
  <2>3. ~rx_desc[i].eown <=> Ring(i - receive_index) < n
    BY DEF InTurn
  <2>4. Ring(i - dma_index) < count \/ Ring(i - receive_index) < n
          <=> Ring(i - receive_index) < n + count
    BY <1>1, <1>2, <1>3, <2>1, <2>2, DmaAssumption DEF Index
  <2>5. QED
    BY <2>3, <2>4
<1>6. QED
  BY <1>1, <1>4, <1>5 DEF InTurn

LEMMA FreeKeepsTurn ==
  ASSUME DmaTypeOK, NEW n \in 0..RX_DESCRIPTORS, InTurn(n),
         ~rx_desc[receive_index].eown,
         receive_index' = Ring(receive_index + 1), UNCHANGED dma_index,
         \A i \in Index : rx_desc'[i].eown =
            IF i = receive_index THEN TRUE ELSE rx_desc[i].eown
  PROVE  n - 1 \in 0..RX_DESCRIPTORS /\ InTurn(n - 1)'
<1>1. receive_index \in Index /\ n \in Nat /\ RX_DESCRIPTORS \in Nat \ {0}
  BY DmaAssumption DEF DmaTypeOK
<1>2. Ring(receive_index - receive_index) = 0
  BY <1>1, PositionIs DEF Index
<1>3. n - 1 \in 0..RX_DESCRIPTORS
  BY <1>1, <1>2 DEF InTurn
<1>4. /\ receive_index' = IF receive_index + 1 < RX_DESCRIPTORS THEN receive_index + 1
                          ELSE receive_index + 1 - RX_DESCRIPTORS
      /\ receive_index' \in Index
  <2>1. 1 \in 0..RX_DESCRIPTORS
    BY <1>1
  <2>2. QED
    BY <1>1, <2>1, SlotIsAt
<1>5. dma_index' = Ring(receive_index' + (n - 1))
  <2> DEFINE m == n - 1
  <2> HIDE DEF m
  <2>1. /\ Ring(receive_index + n) =
             IF receive_index + n < RX_DESCRIPTORS THEN receive_index + n
             ELSE receive_index + n - RX_DESCRIPTORS
    BY <1>1, SlotIsAt
  <2>2. Ring(receive_index' + m) =
          IF receive_index' + m < RX_DESCRIPTORS THEN receive_index' + m
          ELSE receive_index' + m - RX_DESCRIPTORS
    BY <1>3, <1>4, SlotIsAt DEF m
  <2>3. Ring(receive_index + n) = Ring(receive_index' + m)
    BY <1>1, <1>3, <1>4, <2>1, <2>2 DEF m, Index
  <2>4. QED
    BY <2>3 DEF InTurn, m
<1>6. ASSUME NEW i \in Index
      PROVE  ~rx_desc'[i].eown <=> Ring(i - receive_index') < n - 1
  <2>1. Ring(i - receive_index) = IF receive_index <= i THEN i - receive_index
                                  ELSE i - receive_index + RX_DESCRIPTORS
    BY <1>1, PositionIs
  <2>2. Ring(i - receive_index') = IF receive_index' <= i THEN i - receive_index'
                                   ELSE i - receive_index' + RX_DESCRIPTORS
    BY <1>4, PositionIs
  <2>3. ~rx_desc[i].eown <=> Ring(i - receive_index) < n
    BY DEF InTurn
  <2>4. i # receive_index /\ Ring(i - receive_index) < n
          <=> Ring(i - receive_index') < n - 1
    BY <1>1, <1>3, <1>4, <2>1, <2>2 DEF Index
  <2>5. QED
    BY <2>3, <2>4
<1>7. QED
  BY <1>3, <1>5, <1>6 DEF InTurn

(* The driver's descriptors are the first ones from receive_index on.      *)
LEMMA DescOwned ==
  ASSUME DmaTypeOK, NEW n \in 0..RX_DESCRIPTORS, InTurn(n), NEW k \in 1..RX_DESCRIPTORS
  PROVE  ~Desc(k).eown <=> k <= n
<1>1. /\ receive_index \in Index /\ n \in Nat /\ RX_DESCRIPTORS \in Nat \ {0}
  BY DmaAssumption DEF DmaTypeOK
<1> DEFINE i == Ring(receive_index + k - 1)
           m == k - 1
<1>2. m \in 0..RX_DESCRIPTORS /\ m < RX_DESCRIPTORS
  BY <1>1
<1>3. i = Ring(receive_index + m)
  BY <1>1
<1> HIDE DEF i, m
<1>4. /\ i = IF receive_index + m < RX_DESCRIPTORS THEN receive_index + m
             ELSE receive_index + m - RX_DESCRIPTORS
      /\ i \in Index
  BY <1>1, <1>2, <1>3, SlotIsAt
<1>5. Ring(i - receive_index) = IF receive_index <= i THEN i - receive_index
                                ELSE i - receive_index + RX_DESCRIPTORS
  BY <1>1, <1>4, PositionIs
<1>6. Ring(i - receive_index) = m
  BY <1>1, <1>2, <1>4, <1>5 DEF Index
<1>7. m < n <=> k <= n
  BY <1>1 DEF m
<1>8. QED
  BY <1>4, <1>6, <1>7 DEF InTurn, Desc, i

(* Held counts the descriptors that the driver owns in turn.               *)
LEMMA HeldIs ==
  ASSUME DmaTypeOK, NEW n \in 0..RX_DESCRIPTORS, InTurn(n)
  PROVE  Held = n
<1>1. /\ receive_index \in Index /\ n \in Nat /\ RX_DESCRIPTORS \in Nat \ {0}
  BY DmaAssumption DEF DmaTypeOK
<1>2. \A k \in 1..RX_DESCRIPTORS : ~Desc(k).eown <=> k <= n
  BY DescOwned
<1> DEFINE S == {m \in 0..RX_DESCRIPTORS : \A k \in 1..m : ~Desc(k).eown}
<1>3. \A m \in 0..RX_DESCRIPTORS : m \in S <=> m <= n
  <2>1. ASSUME NEW m \in 0..RX_DESCRIPTORS, m <= n PROVE m \in S
    BY <1>1, <1>2, <2>1
  <2>2. ASSUME NEW m \in 0..RX_DESCRIPTORS, m > n PROVE m \notin S
    <3>1. m \in 1..RX_DESCRIPTORS /\ m \in 1..m /\ ~(m <= n)
      BY <1>1, <2>2
    <3>2. QED
      BY <1>2, <3>1
  <2>3. QED
    BY <1>1, <2>1, <2>2
<1>4. n \in S /\ \A m \in S : n >= m
  BY <1>1, <1>3
<1>5. S \subseteq Int
  BY <1>1
<1>6. Held = Max(S)
  BY DEF Held
<1> HIDE DEF S
<1>7. Max(S) = n
  <2>1. Max(S) \in S /\ \A m \in S : Max(S) >= m
    <3>1. \E x \in S : \A m \in S : x >= m
      BY <1>4
    <3>2. Max(S) = CHOOSE x \in S : \A m \in S : x >= m
      BY DEF Max
    <3>3. QED
      BY <3>1, <3>2
  <2>2. Max(S) \in Int
    BY <1>5, <2>1
  <2>3. Max(S) >= n /\ n >= Max(S)
    BY <1>4, <2>1
  <2>4. QED
    BY <1>1, <2>2, <2>3
<1>8. QED
  BY <1>6, <1>7

(* What the controller writes into a descriptor is a part of the frame.    *)
LEMMA PartIsBytes ==
  ASSUME DmaTypeOK, arrived < MaxArrivals, NEW bytes \in Nat, NEW k \in Nat
  PROVE  [j \in 1..Min({RX_BYTES_PER_DESC, bytes - k * RX_BYTES_PER_DESC})
            |-> FrameBytes(arrived + 1, bytes)[k * RX_BYTES_PER_DESC + j]]
           \in Seq((1..MaxArrivals) \X Nat)
<1> DEFINE start == k * RX_BYTES_PER_DESC
           left == bytes - start
           len == Min({RX_BYTES_PER_DESC, left})
           T == (1..MaxArrivals) \X Nat
<1>1. start \in Nat /\ RX_BYTES_PER_DESC \in Nat /\ left \in Int
  BY DmaAssumption
<1>2. arrived + 1 \in 1..MaxArrivals
  BY DmaAssumption DEF DmaTypeOK
<1> HIDE DEF start
<1>3. len \in Int /\ len <= left
  <2>1. \A x, y \in Int : Min({x, y}) \in Int /\ Min({x, y}) <= y
    <3> TAKE x, y \in Int
    <3>1. \E z \in {x, y} : \A w \in {x, y} : z <= w
      OBVIOUS
    <3>2. Min({x, y}) = CHOOSE z \in {x, y} : \A w \in {x, y} : z <= w
      BY DEF Min
    <3>3. Min({x, y}) \in {x, y} /\ \A w \in {x, y} : Min({x, y}) <= w
      BY <3>1, <3>2
    <3>4. QED
      BY <3>3
  <2>2. QED
    BY <1>1, <2>1
<1> HIDE DEF len, T
<1>4. ASSUME NEW j \in 1..len PROVE FrameBytes(arrived + 1, bytes)[start + j] \in T
  <2>1. start + j \in 1..bytes /\ start + j \in Nat
    BY <1>1, <1>3 DEF left
  <2>2. FrameBytes(arrived + 1, bytes)[start + j] = <<arrived + 1, start + j>>
    BY <2>1 DEF FrameBytes
  <2>3. QED
    BY <1>2, <2>1, <2>2 DEF T
<1> DEFINE part == [j \in 1..len |-> FrameBytes(arrived + 1, bytes)[start + j]]
<1>5. part \in [1..len -> T]
  BY <1>4
<1> HIDE DEF part
<1>6. \E l \in Nat : part \in [1..l -> T]
  <2>1. CASE len >= 0
    BY <1>3, <1>5, <2>1
  <2>2. CASE len < 0
    <3>1. 1..len = 1..0
      BY <1>3, <2>2
    <3>2. QED
      BY <1>5, <3>1
  <2>3. QED
    BY <1>3, <2>1, <2>2
<1>7. part \in Seq(T)
  BY <1>6
<1>8. QED
  BY <1>7 DEF part, len, left, start, T

LEMMA ArriveKeepsInv ==
  ASSUME DmaInv, NEW bytes \in FrameSizes, Arrive(bytes)
  PROVE  DmaInv'
<1> USE DEF DmaInv
<1> DEFINE count == (bytes + RX_BYTES_PER_DESC - 1) \div RX_BYTES_PER_DESC
           Part(k) == [j \in 1..Min({RX_BYTES_PER_DESC, bytes - k * RX_BYTES_PER_DESC})
                         |-> FrameBytes(arrived + 1, bytes)[k * RX_BYTES_PER_DESC + j]]
           Filled(i, k) == [eown |-> FALSE, eop |-> k = count - 1, bytes |-> Part(k),
                            size |-> IF k = 0 THEN bytes ELSE rx_desc[i].size]
           Room == /\ count <= RX_DESCRIPTORS
                   /\ \A k \in 0..(count - 1) : rx_desc[Ring(dma_index + k)].eown
           New(i) == LET k == Ring(i - dma_index)
                     IN IF k < count THEN Filled(i, k) ELSE rx_desc[i]
<1>1. PICK n \in 0..RX_DESCRIPTORS : InTurn(n)
  OBVIOUS
<1>2. /\ arrived' = arrived + 1 /\ arrived < MaxArrivals
      /\ UNCHANGED <<is_up, rxen, receive_index, input, txVars>>
      /\ \/ /\ Room /\ dma_index' = Ring(dma_index + count)
            /\ rx_desc' = [i \in Index |-> New(i)]
         \/ UNCHANGED <<rx_desc, dma_index>>
  BY DEF Arrive
<1>3. count \in Nat /\ bytes \in Nat
  BY DmaAssumption
<1>4. ASSUME NEW i \in Index
      PROVE  /\ New(i) \in Descriptor
             /\ New(i).eown = IF Ring(i - dma_index) < count THEN FALSE
                             ELSE rx_desc[i].eown
  <2>1. Ring(i - dma_index) \in Nat
    BY PositionIs DEF DmaTypeOK, Index
  <2>2. Part(Ring(i - dma_index)) \in Seq((1..MaxArrivals) \X Nat)
    BY <1>2, <1>3, <2>1, PartIsBytes
  <2>3. rx_desc[i] \in Descriptor
    BY DEF DmaTypeOK
  <2> HIDE DEF Part, count
  <2>4. QED
    BY <2>2, <2>3 DEF Descriptor
<1> HIDE DEF count, New
<1>5. CASE Room /\ dma_index' = Ring(dma_index + count) /\ rx_desc' = [i \in Index |-> New(i)]
  <2>1. count \in 0..RX_DESCRIPTORS
    BY <1>3, <1>5, DmaAssumption
  <2>2. \A i \in Index : rx_desc'[i] = New(i)
    BY <1>5
  <2>3. rx_desc' \in [Index -> Descriptor]
    BY <1>4, <1>5
  <2>4. dma_index' \in Index
    BY <1>5, <2>1, SlotIsAt DEF DmaTypeOK
  <2>5. n + count \in 0..RX_DESCRIPTORS /\ InTurn(n + count)'
    <3>1. \A i \in Index : rx_desc'[i].eown =
             IF Ring(i - dma_index) < count THEN FALSE ELSE rx_desc[i].eown
      BY <1>4, <2>2
    <3>2. UNCHANGED receive_index
      BY <1>2
    <3> HIDE DEF Room
    <3>3. \A k \in 0..(count - 1) : rx_desc[Ring(dma_index + k)].eown
      BY <1>5 DEF Room
    <3>4. QED
      BY <1>1, <1>5, <2>1, <3>1, <3>2, <3>3, ArriveKeepsTurn
  <2>6. DmaTypeOK'
    BY <1>2, <2>3, <2>4 DEF DmaTypeOK, txVars
  <2>7. QED
    BY <2>5, <2>6
<1>6. CASE UNCHANGED <<rx_desc, dma_index>>
  <2>1. DmaTypeOK'
    BY <1>2, <1>6 DEF DmaTypeOK, txVars
  <2>2. InTurn(n)'
    BY <1>1, <1>2, <1>6 DEF InTurn
  <2>3. QED
    BY <1>1, <2>1, <2>2
<1>7. QED
  BY <1>2, <1>5, <1>6

LEMMA FreeKeepsInv ==
  ASSUME DmaInv, FreeDescriptor
  PROVE  DmaInv'
<1>1. PICK n \in 0..RX_DESCRIPTORS : InTurn(n)
  BY DEF DmaInv
<1>2. UNCHANGED <<is_up, rxen, dma_index, arrived, txVars>>
  BY DEF FreeDescriptor
<1>3. CASE rx_desc[receive_index].eown
  <2>1. input' = "idle" /\ UNCHANGED <<rx_desc, receive_index>>
    BY <1>3 DEF FreeDescriptor
  <2>2. DmaTypeOK'
    BY <1>2, <2>1 DEF DmaInv, DmaTypeOK, txVars
  <2>3. InTurn(n)'
    BY <1>1, <1>2, <2>1 DEF InTurn
  <2>4. QED
    BY <2>2, <2>3 DEF DmaInv
<1>4. CASE ~rx_desc[receive_index].eown
  <2>1. /\ rx_desc' = [rx_desc EXCEPT ![receive_index].eown = TRUE]
        /\ receive_index' = Ring(receive_index + 1)
        /\ input' \in {"idle", "free"}
    BY <1>4 DEF FreeDescriptor
  <2>2. rx_desc \in [Index -> Descriptor] /\ receive_index \in Index
    BY DEF DmaInv, DmaTypeOK
  <2>3. /\ rx_desc' \in [Index -> Descriptor]
        /\ \A i \in Index : rx_desc'[i].eown =
             IF i = receive_index THEN TRUE ELSE rx_desc[i].eown
    <3>1. /\ rx_desc'[receive_index] = [rx_desc[receive_index] EXCEPT !.eown = TRUE]
          /\ \A i \in Index \ {receive_index} : rx_desc'[i] = rx_desc[i]
          /\ rx_desc' = [i \in Index |-> rx_desc'[i]]
      BY <2>1, <2>2
    <3>2. rx_desc'[receive_index] \in Descriptor /\ rx_desc'[receive_index].eown = TRUE
      BY <2>2, <3>1 DEF Descriptor
    <3>3. QED
      BY <2>2, <3>1, <3>2
  <2>4. receive_index' \in Index
    BY <2>1, <2>2, SlotIsAt, DmaAssumption
  <2>5. n - 1 \in 0..RX_DESCRIPTORS /\ InTurn(n - 1)'
    BY <1>1, <1>2, <1>4, <2>1, <2>3, FreeKeepsTurn DEF DmaInv
  <2>6. DmaTypeOK'
    BY <1>2, <2>1, <2>3, <2>4 DEF DmaInv, DmaTypeOK, txVars
  <2>7. QED
    BY <2>5, <2>6 DEF DmaInv
<1>5. QED
  BY <1>3, <1>4

LEMMA ClearRing ==
  /\ [i \in Index |-> Clear] \in [Index -> Descriptor] /\ Clear.eown = TRUE
  /\ 0 \in Index /\ 0 \in 0..RX_DESCRIPTORS
  /\ Ring(0 + 0) = 0 /\ \A i \in Index : ~(Ring(i - 0) < 0)
<1>1. Clear \in Descriptor /\ Clear.eown = TRUE
  BY DEF Clear, Descriptor
<1>2. 0 \in Index /\ 0 \in 0..RX_DESCRIPTORS
  BY DmaAssumption DEF Index
<1>3. Ring(0 + 0) = 0
  BY <1>2, SlotIsAt, DmaAssumption
<1>4. \A i \in Index : ~(Ring(i - 0) < 0)
  BY <1>2, PositionIs DEF Index
<1>5. QED
  BY <1>1, <1>2, <1>3, <1>4

LEMMA DmaInitEstablishesInv == DmaInit => DmaInv
<1> SUFFICES ASSUME DmaInit PROVE DmaInv
  OBVIOUS
<1>1. /\ rx_desc \in [Index -> Descriptor] /\ receive_index \in Index
      /\ dma_index \in Index /\ InTurn(0)
  BY ClearRing DEF DmaInit, InTurn
<1>2. DmaTypeOK
  <2>1. sent \in Nat /\ tx_buf \in 0..sent /\ txread \in 0..sent /\ arrived \in Nat
    BY DEF DmaInit
  <2>2. wire[1] \in 0..sent /\ wire[2] \in 0..sent /\ started \in 0..sent
    BY DEF DmaInit
  <2>3. tx_desc \in BOOLEAN /\ txrts \in BOOLEAN
    BY Zenon DEF DmaInit
  <2>4. QED
    BY <1>1, <2>1, <2>2, <2>3 DEF DmaInit, DmaTypeOK
<1>3. 0 \in 0..RX_DESCRIPTORS
  BY DmaAssumption
<1>4. QED
  BY <1>1, <1>2, <1>3 DEF DmaInv

LEMMA DmaNextPreservesInv == DmaInv /\ [DmaNext]_dmaVars => DmaInv'
<1> SUFFICES ASSUME DmaInv, [DmaNext]_dmaVars PROVE DmaInv'
  OBVIOUS
<1>1. ASSUME DmaTypeOK', UNCHANGED <<rx_desc, receive_index, dma_index>> PROVE DmaInv'
  BY <1>1 DEF DmaInv, InTurn
<1>2. CASE UNCHANGED dmaVars
  BY <1>1, <1>2 DEF DmaInv, DmaTypeOK, dmaVars, rxVars, txVars
<1>3. CASE \E bytes \in FrameSizes : Arrive(bytes)
  BY <1>3, ArriveKeepsInv
<1>4. CASE ReceiveFrame
  BY <1>1, <1>4 DEF ReceiveFrame, DmaInv, DmaTypeOK, txVars
<1>5. CASE FreeDescriptor
  BY <1>5, FreeKeepsInv
<1>6. ASSUME NEW answer \in PhyAnswer, Watchdog(answer) PROVE DmaInv'
  <2>1. /\ is_up' \in BOOLEAN /\ rxen' = is_up'
        /\ UNCHANGED <<arrived, input, tx_buf, output, txrts, txread, sent, started, wire>>
    BY <1>6 DEF Watchdog, Linked
  <2>2. CASE SetupDMA
    <3>1. /\ rx_desc' \in [Index -> Descriptor] /\ receive_index' \in Index
          /\ dma_index' \in Index /\ InTurn(0)'
      BY <2>2, ClearRing DEF SetupDMA, InTurn
    <3>2. DmaTypeOK'
      BY <2>1, <2>2, <3>1 DEF DmaInv, DmaTypeOK, SetupDMA
    <3>3. 0 \in 0..RX_DESCRIPTORS
      BY DmaAssumption
    <3>4. QED
      BY <3>1, <3>2, <3>3 DEF DmaInv
  <2>3. CASE UNCHANGED <<rx_desc, receive_index, dma_index, tx_desc>>
    BY <1>1, <2>1, <2>3 DEF DmaInv, DmaTypeOK
  <2>4. QED
    BY <1>6, <2>2, <2>3 DEF Watchdog
<1>7. ASSUME NEW length \in SendSizes, SendFrame(length) PROVE DmaInv'
  BY <1>1, <1>7 DEF SendFrame, DmaInv, DmaTypeOK, rxVars
<1>8. CASE StartTransmission
  BY <1>1, <1>8 DEF StartTransmission, DmaInv, DmaTypeOK, rxVars
<1>9. CASE ReadHalf
  BY <1>1, <1>9 DEF ReadHalf, DmaInv, DmaTypeOK, rxVars
<1>10. CASE Transmitted
  <2>1. tx_desc' \in BOOLEAN /\ txrts' \in BOOLEAN
    BY <1>10, Zenon DEF Transmitted, DmaInv, DmaTypeOK
  <2>2. QED
    BY <1>1, <1>10, <2>1 DEF Transmitted, DmaInv, DmaTypeOK, rxVars
<1>11. CASE GiveUp
  <2>1. tx_desc' \in BOOLEAN /\ txrts' \in BOOLEAN
    BY <1>11, Zenon DEF GiveUp, DmaInv, DmaTypeOK
  <2>2. QED
    BY <1>1, <1>11, <2>1 DEF GiveUp, DmaInv, DmaTypeOK, rxVars
<1>12. QED
  BY <1>2, <1>3, <1>4, <1>5, <1>6, <1>7, <1>8, <1>9, <1>10, <1>11 DEF DmaNext

(* The driver and the controller never pass each other on the ring, of any *)
(* size, for frames of any size, also ones that no ring holds.             *)
THEOREM DescriptorsTakeTurns == DmaSpec => []DescriptorsInTurn
<1>1. DmaInv => DescriptorsInTurn
  <2> SUFFICES ASSUME DmaInv PROVE DescriptorsInTurn
    OBVIOUS
  <2>1. PICK n \in 0..RX_DESCRIPTORS : InTurn(n)
    BY DEF DmaInv
  <2>2. Held = n
    BY <2>1, HeldIs DEF DmaInv
  <2>3. QED
    BY <2>1, <2>2 DEF DmaInv, DmaTypeOK, Descriptor, InTurn, DescriptorsInTurn
<1>2. QED
  BY <1>1, DmaInitEstablishesInv, DmaNextPreservesInv, PTL DEF DmaSpec

-----------------------------------------------------------------------------
(* The transmitter of the Ethernet driver.                                 *)

(* What the controller has read of the buffer, of a descriptor that is     *)
(* still its own, is in it or was overwritten by a later frame.            *)
TransmitInv ==
  /\ tx_buf \in Nat /\ sent \in Nat /\ started \in Nat /\ txread \in Nat
  /\ started <= tx_buf /\ tx_buf <= sent
  /\ ~txrts => txread = 0
  /\ tx_desc /\ txrts => txread = 0 \/ txread >= started
  /\ txread <= tx_buf

(* Whatever is sent meanwhile, of any size, and whenever the link comes    *)
(* and goes, a transmission that ends has sent all of its frame unless the *)
(* buffer was written again or its descriptor was cleared.                 *)
THEOREM LastFrameGoesOut == DmaSpec => LastFrameIsWhole
<1>1. DmaInit => TransmitInv
  BY DEF DmaInit, TransmitInv
<1>2. TransmitInv /\ [DmaNext]_dmaVars => TransmitInv'
  <2> SUFFICES ASSUME TransmitInv, [DmaNext]_dmaVars PROVE TransmitInv'
    OBVIOUS
  <2> USE DEF TransmitInv
  <2>1. CASE UNCHANGED txVars
    BY <2>1 DEF txVars
  <2>2. ASSUME NEW bytes \in FrameSizes, Arrive(bytes) PROVE UNCHANGED txVars
    BY <2>2 DEF Arrive
  <2>3. ReceiveFrame \/ FreeDescriptor => UNCHANGED txVars
    BY DEF ReceiveFrame, FreeDescriptor
  <2>4. ASSUME NEW answer \in PhyAnswer, Watchdog(answer) PROVE TransmitInv'
    <3>1. tx_desc' = FALSE \/ tx_desc' = tx_desc
      BY <2>4 DEF Watchdog, SetupDMA
    <3>2. UNCHANGED <<tx_buf, txrts, txread, sent, started>>
      BY <2>4 DEF Watchdog
    <3>3. QED
      BY <3>1, <3>2
  <2>5. ASSUME NEW length \in SendSizes, SendFrame(length) PROVE TransmitInv'
    BY <2>5 DEF SendFrame
  <2>6. CASE StartTransmission
    BY <2>6 DEF StartTransmission
  <2>7. CASE ReadHalf
    BY <2>7 DEF ReadHalf
  <2>8. CASE Transmitted \/ GiveUp
    BY <2>8 DEF Transmitted, GiveUp
  <2>9. QED
    BY <2>1, <2>2, <2>3, <2>4, <2>5, <2>6, <2>7, <2>8 DEF DmaNext, dmaVars
<1>3. TransmitInv /\ [DmaNext]_dmaVars
        => [(txrts /\ ~txrts' /\ tx_desc /\ tx_buf = started)
              => wire' = <<started, started>>]_dmaVars
  <2> SUFFICES ASSUME TransmitInv, DmaNext, txrts, ~txrts', tx_desc, tx_buf = started
               PROVE  wire' = <<started, started>>
    OBVIOUS
  <2>1. \A bytes \in FrameSizes : ~Arrive(bytes)
    BY DEF Arrive, txVars
  <2>2. ~ReceiveFrame /\ ~FreeDescriptor
    BY DEF ReceiveFrame, FreeDescriptor, txVars
  <2>3. \A answer \in PhyAnswer : ~Watchdog(answer)
    BY DEF Watchdog
  <2>4. \A length \in SendSizes : ~SendFrame(length)
    BY DEF SendFrame
  <2>5. ~StartTransmission /\ ~ReadHalf /\ ~GiveUp
    BY DEF StartTransmission, ReadHalf, GiveUp
  <2>6. Transmitted
    BY <2>1, <2>2, <2>3, <2>4, <2>5 DEF DmaNext
  <2>7. txread = started
    BY <2>6 DEF Transmitted, TransmitInv
  <2>8. QED
    BY <2>6, <2>7 DEF Transmitted
<1>4. QED
  BY <1>1, <1>2, <1>3, PTL DEF DmaSpec, LastFrameIsWhole

-----------------------------------------------------------------------------
(* The USB host.                                                           *)

Resting == {"TRANSFER_IDLE", "TRANSFER_START"}

(* Only a running device is sent data; the poll that has announced them    *)
(* was the last to send a packet.                                          *)
TransferInv ==
  /\ transfer # "TRANSFER_WAIT_TX_INT"
  /\ state = "IDLE" => transfer \in Resting
  /\ transfer = "TRANSFER_SENDING" =>
       /\ sent_sz = 0 /\ state \in {"RUNNING", "VBUSERROR", "GENERALERROR"}
       /\ lastPacket = "data_follows" \/ "DEVDISCONN" \in irq

(* An attachment that was not yet taken comes after a detachment that was. *)
NewDeviceWaits ==
  "DEVCONN" \in irq /\ "DEVDISCONN" \notin irq =>
    /\ Attached /\ ~available
    /\ state \in {"IDLE", "VBUSERROR", "GENERALERROR"} /\ transfer \in Resting

Requesting ==
  /\ state \in {"WAIT_TX_INT", "HANDSHAKE"} =>
       /\ ep0 \in {"setup", "none"}
       /\ received = 0 /\ descrSz = 0 /\ given = 0
  /\ state = "HANDSHAKE" /\ polling => ep0 = "none" /\ ~ep0if

(* The packet in the FIFO is the next one of a descriptor, of a device     *)
(* whose packet size is the one in the first packet.                       *)
NextPacket ==
  /\ received < DESCRIPTOR_SZ
  /\ fifo.size = Lesser(fifo.from, DESCRIPTOR_SZ - received)
  /\ fifo.from \in PacketSizes
  /\ descrSz = 0 => received = 0
  /\ descrSz # 0 => transferSz = fifo.from

(* As long as no cause is pending, the driver has what the device gave.    *)
Waiting ==
  state = "WAIT_DESCRIPTOR" =>
    /\ ep0 \in {"in", "none"} /\ (ep0if => ep0 = "none")
    /\ descrSz \in {0, DESCRIPTOR_SZ}
    /\ irq = {} =>
         /\ received + (IF ep0if THEN fifo.size ELSE 0) = given
         /\ faults = 0 =>
              /\ received < DESCRIPTOR_SZ
              /\ descrSz = 0 => received = 0
              /\ descrSz # 0 => transferSz = device
              /\ ep0if => fifo.from = device /\ NextPacket

Reading ==
  state = "READ_DESCRIPTOR" =>
    /\ ep0 = "none" /\ ~ep0if
    /\ descrSz \in {0, DESCRIPTOR_SZ}
    /\ received + fifo.size <= DESCRIPTOR_SZ
    /\ irq = {} => received + fifo.size = given
    /\ faults = 0 => NextPacket /\ (irq = {} => fifo.from = device)

UsbPhases ==
  /\ NoGhostDevice /\ ReportedDescriptorIsWhole /\ TransferInv
  /\ NewDeviceWaits /\ Requesting /\ Waiting /\ Reading

UsbInv == UsbTypeOK /\ UsbPhases

LEMMA UsbInitEstablishesInv == UsbInit => UsbInv
<1> SUFFICES ASSUME UsbInit PROVE UsbInv
  OBVIOUS
<1>1. UsbFlags
  BY Zenon DEF UsbInit, UsbFlags
<1>2. UsbRanges
  BY UsbAssumption DEF UsbInit, UsbRanges, States, TransferStates, Causes, NoPacket,
      DESCRIPTOR_SZ, MAX_REQUESTS, TRANSFER_SZ, JUST, LONG
<1>3. UsbPhases
  BY DEF UsbInit, UsbPhases, NoGhostDevice, ReportedDescriptorIsWhole, TransferInv,
      NewDeviceWaits, Requesting, Waiting, Reading, Resting
<1>4. QED
  BY <1>1, <1>2, <1>3 DEF UsbInv, UsbTypeOK

(* Each step of the two machines, of the handler and of the controller     *)
(* keeps the types of the flags.                                           *)
LEMMA FlagsStayBoolean == UsbFlags /\ UsbNext => UsbFlags'
<1> SUFFICES ASSUME UsbFlags, UsbNext PROVE UsbFlags'
  OBVIOUS
<1>1. CASE InterruptHandler
  BY <1>1, Zenon DEF UsbFlags, InterruptHandler, General, EndpointState,
      EndpointTransfer, Forget, Pending, descriptor, board, Lesser, Attached
<1>2. CASE EnterPolling
  BY <1>2, Zenon DEF UsbFlags, EnterPolling, status, descriptor, sending,
      controller, board, Lesser, Attached
<1>3. CASE SendData
  BY <1>3, Zenon DEF UsbFlags, SendData, status, descriptor, controller,
      board, Lesser, Attached
<1>4. CASE Debounce
  BY <1>4, Zenon DEF UsbFlags, Debounce, Wait, SHORT, Detecting, Updated,
      descriptor, sending, controller, Lesser, Attached
<1>5. CASE UsbReset
  BY <1>5, Zenon DEF UsbFlags, UsbReset, Wait, SHORT, Detecting, Updated,
      descriptor, sending, controller, Lesser, Attached
<1>6. CASE AfterReset
  BY <1>6, Zenon DEF UsbFlags, AfterReset, Wait, SHORT, Detecting, Updated,
      descriptor, sending, controller, Lesser, Attached
<1>7. CASE RequestDescriptor
  BY <1>7, Zenon DEF UsbFlags, RequestDescriptor, Detecting, Updated,
      SendSetup, ReceivedAtRequest, NoPacket, sending, Lesser, Attached
<1>8. CASE Handshake
  BY <1>8, Zenon DEF UsbFlags, Handshake, Detecting, Updated, descriptor,
      sending, Lesser, Attached
<1>9. CASE WaitDescriptor
  BY <1>9, Zenon DEF UsbFlags, WaitDescriptor, Detecting, Updated,
      RequestsAfterTimeout, sending, controller, Lesser, Attached
<1>10. CASE ReadDescriptor
  BY <1>10, Zenon DEF UsbFlags, ReadDescriptor, Detecting, Updated,
      SizeAfter, TransferGiven, SizeGiven, NoPacket, sending, Lesser,
      Attached
<1>11. CASE StayIdle
  BY <1>11, Zenon DEF UsbFlags, StayIdle, Detecting, Updated, descriptor,
      sending, Lesser, Attached
<1>12. CASE NoStep
  BY <1>12, Zenon DEF UsbFlags, NoStep, Detecting, Updated, descriptor,
      sending, controller, Lesser, Attached
<1>13. CASE GeneralError
  BY <1>13, Zenon DEF UsbFlags, GeneralError, Detecting, Updated, sending,
      controller, Lesser, Attached
<1>14. CASE TransferStart
  BY <1>14, Zenon DEF UsbFlags, TransferStart, Transferring, descriptor,
      SendSetup, NoPacket, Lesser, Attached
<1>15. CASE TransferSending
  BY <1>15, Zenon DEF UsbFlags, TransferSending, Transferring, descriptor,
      DataSent, AfterData, FIFO_SZ, Lesser, Attached
<1>16. CASE TransferRest
  BY <1>16, Zenon DEF UsbFlags, TransferRest, Transferring, descriptor,
      controller, Lesser, Attached
<1>17. CASE Attach
  BY <1>17, Zenon DEF UsbFlags, Attach, driver, descriptor, sending, Lesser,
      Attached
<1>18. CASE Detach
  BY <1>18, Zenon DEF UsbFlags, Detach, driver, descriptor, sending, Lesser,
      Attached
<1>19. CASE PacketSent
  BY <1>19, Zenon DEF UsbFlags, PacketSent, driver, descriptor, sending,
      board, Lesser, Attached
<1>20. CASE PacketReceived
  BY <1>20, Zenon DEF UsbFlags, PacketReceived, driver, descriptor, sending,
      Lesser, Attached
<1>21. CASE Fault
  BY <1>21, Zenon DEF UsbFlags, Fault, driver, descriptor, sending,
      controller, NoPacket, Lesser, Attached
<1>22. CASE OvercurrentEnds
  BY <1>22, Zenon DEF UsbFlags, OvercurrentEnds, driver, descriptor,
      sending, controller, Lesser, Attached
<1>23. CASE TimePasses
  BY <1>23, Zenon DEF UsbFlags, TimePasses, driver, descriptor, sending,
      controller, board, Lesser, Attached
<1>24. QED
  BY <1>1, <1>2, <1>3, <1>4, <1>5, <1>6, <1>7, <1>8, <1>9, <1>10, <1>11,
      <1>12, <1>13, <1>14, <1>15, <1>16, <1>17, <1>18, <1>19, <1>20, <1>21,
      <1>22, <1>23 DEF UsbNext, Poll, UpdateStateMachine,
      UpdateTransferStateMachine, Environment

(* The bytes received stay within the descriptor because the packet that   *)
(* is read is the next one.                                                *)
LEMMA RangesAreKept == UsbRanges /\ Reading /\ UsbNext => UsbRanges'
<1> SUFFICES ASSUME UsbRanges, Reading, UsbNext PROVE UsbRanges'
  OBVIOUS
<1>1. CASE InterruptHandler
  BY <1>1, UsbAssumption DEF UsbRanges, InterruptHandler, States,
      TransferStates, Causes, Attached, Lesser, DESCRIPTOR_SZ, MAX_REQUESTS,
      TRANSFER_SZ, JUST, LONG, General, EndpointState, EndpointTransfer,
      Forget, Pending, descriptor, board
<1>2. CASE EnterPolling
  BY <1>2, UsbAssumption DEF UsbRanges, EnterPolling, States,
      TransferStates, Causes, Attached, Lesser, DESCRIPTOR_SZ, MAX_REQUESTS,
      TRANSFER_SZ, JUST, LONG, status, descriptor, sending, controller,
      board
<1>3. CASE SendData
  BY <1>3, UsbAssumption DEF UsbRanges, SendData, States, TransferStates,
      Causes, Attached, Lesser, DESCRIPTOR_SZ, MAX_REQUESTS, TRANSFER_SZ,
      JUST, LONG, status, descriptor, controller, board
<1>4. CASE Debounce
  BY <1>4, UsbAssumption DEF UsbRanges, Debounce, States, TransferStates,
      Causes, Attached, Lesser, DESCRIPTOR_SZ, MAX_REQUESTS, TRANSFER_SZ,
      JUST, LONG, Wait, SHORT, Detecting, Updated, descriptor, sending,
      controller
<1>5. CASE UsbReset
  BY <1>5, UsbAssumption DEF UsbRanges, UsbReset, States, TransferStates,
      Causes, Attached, Lesser, DESCRIPTOR_SZ, MAX_REQUESTS, TRANSFER_SZ,
      JUST, LONG, Wait, SHORT, Detecting, Updated, descriptor, sending,
      controller
<1>6. CASE AfterReset
  BY <1>6, UsbAssumption DEF UsbRanges, AfterReset, States, TransferStates,
      Causes, Attached, Lesser, DESCRIPTOR_SZ, MAX_REQUESTS, TRANSFER_SZ,
      JUST, LONG, Wait, SHORT, Detecting, Updated, descriptor, sending,
      controller
<1>7. CASE RequestDescriptor
  BY <1>7, UsbAssumption DEF UsbRanges, RequestDescriptor, States,
      TransferStates, Causes, Attached, Lesser, DESCRIPTOR_SZ, MAX_REQUESTS,
      TRANSFER_SZ, JUST, LONG, Detecting, Updated, SendSetup,
      ReceivedAtRequest, NoPacket, sending
<1>8. CASE Handshake
  BY <1>8, UsbAssumption DEF UsbRanges, Handshake, States, TransferStates,
      Causes, Attached, Lesser, DESCRIPTOR_SZ, MAX_REQUESTS, TRANSFER_SZ,
      JUST, LONG, Detecting, Updated, descriptor, sending
<1>9. CASE WaitDescriptor
  BY <1>9, UsbAssumption DEF UsbRanges, WaitDescriptor, States,
      TransferStates, Causes, Attached, Lesser, DESCRIPTOR_SZ, MAX_REQUESTS,
      TRANSFER_SZ, JUST, LONG, Detecting, Updated, RequestsAfterTimeout,
      sending, controller
<1>10. CASE ReadDescriptor
  BY <1>10, UsbAssumption DEF UsbRanges, Reading, ReadDescriptor, States,
      TransferStates, Causes, Attached, Lesser, DESCRIPTOR_SZ, MAX_REQUESTS,
      TRANSFER_SZ, JUST, LONG, Detecting, Updated, SizeAfter, TransferGiven,
      SizeGiven, NoPacket, sending
<1>11. CASE StayIdle
  BY <1>11, UsbAssumption DEF UsbRanges, StayIdle, States, TransferStates,
      Causes, Attached, Lesser, DESCRIPTOR_SZ, MAX_REQUESTS, TRANSFER_SZ,
      JUST, LONG, Detecting, Updated, descriptor, sending
<1>12. CASE NoStep
  BY <1>12, UsbAssumption DEF UsbRanges, NoStep, States, TransferStates,
      Causes, Attached, Lesser, DESCRIPTOR_SZ, MAX_REQUESTS, TRANSFER_SZ,
      JUST, LONG, Detecting, Updated, descriptor, sending, controller
<1>13. CASE GeneralError
  BY <1>13, UsbAssumption DEF UsbRanges, GeneralError, States,
      TransferStates, Causes, Attached, Lesser, DESCRIPTOR_SZ, MAX_REQUESTS,
      TRANSFER_SZ, JUST, LONG, Detecting, Updated, sending, controller
<1>14. CASE TransferStart
  BY <1>14, UsbAssumption DEF UsbRanges, TransferStart, States,
      TransferStates, Causes, Attached, Lesser, DESCRIPTOR_SZ, MAX_REQUESTS,
      TRANSFER_SZ, JUST, LONG, Transferring, descriptor, SendSetup, NoPacket
<1>15. CASE TransferSending
  BY <1>15, UsbAssumption DEF UsbRanges, TransferSending, States,
      TransferStates, Causes, Attached, Lesser, DESCRIPTOR_SZ, MAX_REQUESTS,
      TRANSFER_SZ, JUST, LONG, Transferring, descriptor, DataSent,
      AfterData, FIFO_SZ
<1>16. CASE TransferRest
  BY <1>16, UsbAssumption DEF UsbRanges, TransferRest, States,
      TransferStates, Causes, Attached, Lesser, DESCRIPTOR_SZ, MAX_REQUESTS,
      TRANSFER_SZ, JUST, LONG, Transferring, descriptor, controller
<1>17. CASE Attach
  BY <1>17, UsbAssumption DEF UsbRanges, Attach, States, TransferStates,
      Causes, Attached, Lesser, DESCRIPTOR_SZ, MAX_REQUESTS, TRANSFER_SZ,
      JUST, LONG, driver, descriptor, sending
<1>18. CASE Detach
  BY <1>18, UsbAssumption DEF UsbRanges, Detach, States, TransferStates,
      Causes, Attached, Lesser, DESCRIPTOR_SZ, MAX_REQUESTS, TRANSFER_SZ,
      JUST, LONG, driver, descriptor, sending
<1>19. CASE PacketSent
  BY <1>19, UsbAssumption DEF UsbRanges, PacketSent, States, TransferStates,
      Causes, Attached, Lesser, DESCRIPTOR_SZ, MAX_REQUESTS, TRANSFER_SZ,
      JUST, LONG, driver, descriptor, sending, board
<1>20. CASE PacketReceived
  BY <1>20, UsbAssumption DEF UsbRanges, PacketReceived, States,
      TransferStates, Causes, Attached, Lesser, DESCRIPTOR_SZ, MAX_REQUESTS,
      TRANSFER_SZ, JUST, LONG, driver, descriptor, sending
<1>21. CASE Fault
  <2>1. CASE irq' = irq \cup {"VBUSERR"} /\ UNCHANGED <<ep0, fifo>>
    BY <1>21, <2>1, UsbAssumption DEF UsbRanges, Fault, States,
        TransferStates, Causes, Attached, Lesser, DESCRIPTOR_SZ,
        MAX_REQUESTS, TRANSFER_SZ, JUST, LONG, driver, descriptor, sending,
        controller, NoPacket
  <2>2. CASE ep0' = "none" /\ fifo' = NoPacket /\ UNCHANGED irq
    BY <1>21, <2>2, UsbAssumption DEF UsbRanges, Fault, States,
        TransferStates, Causes, Attached, Lesser, DESCRIPTOR_SZ,
        MAX_REQUESTS, TRANSFER_SZ, JUST, LONG, driver, descriptor, sending,
        controller, NoPacket
  <2>3. CASE UNCHANGED controller
    BY <1>21, <2>3, UsbAssumption DEF UsbRanges, Fault, States,
        TransferStates, Causes, Attached, Lesser, DESCRIPTOR_SZ,
        MAX_REQUESTS, TRANSFER_SZ, JUST, LONG, driver, descriptor, sending,
        controller, NoPacket
  <2>4. QED
    BY <1>21, <2>1, <2>2, <2>3 DEF Fault
<1>22. CASE OvercurrentEnds
  BY <1>22, UsbAssumption DEF UsbRanges, OvercurrentEnds, States,
      TransferStates, Causes, Attached, Lesser, DESCRIPTOR_SZ, MAX_REQUESTS,
      TRANSFER_SZ, JUST, LONG, driver, descriptor, sending, controller
<1>23. CASE TimePasses
  BY <1>23, UsbAssumption DEF UsbRanges, TimePasses, States, TransferStates,
      Causes, Attached, Lesser, DESCRIPTOR_SZ, MAX_REQUESTS, TRANSFER_SZ,
      JUST, LONG, driver, descriptor, sending, controller, board
<1>24. QED
  BY <1>1, <1>2, <1>3, <1>4, <1>5, <1>6, <1>7, <1>8, <1>9, <1>10, <1>11,
      <1>12, <1>13, <1>14, <1>15, <1>16, <1>17, <1>18, <1>19, <1>20, <1>21,
      <1>22, <1>23 DEF UsbNext, Poll, UpdateStateMachine,
      UpdateTransferStateMachine, Environment

(* What the driver, the controller and the device know of each other is    *)
(* kept: each action is followed through all states of the two machines.   *)
LEMMA PhasesAreKept == UsbInv /\ UsbNext => UsbPhases'
<1> SUFFICES ASSUME UsbInv, UsbNext PROVE UsbPhases'
  OBVIOUS
<1> USE UsbAssumption DEF UsbInv, UsbTypeOK, UsbFlags, UsbRanges, UsbPhases
<1>1. CASE InterruptHandler
  <2>1. NoGhostDevice'
    <3>1. CASE "DEVDISCONN" \in irq
      <4>1. ~connected' /\ ~available'
        BY <1>1, <3>1 DEF InterruptHandler, Forget
      <4>2. General.state \in {"IDLE", "VBUSERROR"} /\ General.transfer = "TRANSFER_IDLE"
        BY <3>1 DEF General
      <4>3. state' = General.state /\ transfer' = General.transfer
        BY <1>1, <4>2 DEF InterruptHandler, EndpointState, EndpointTransfer
      <4>4. QED
        BY <4>1, <4>2, <4>3 DEF NoGhostDevice
    <3>2. CASE "DEVDISCONN" \notin irq /\ Attached
      BY <1>1, <3>2 DEF InterruptHandler, NoGhostDevice, Attached, board
    <3>3. CASE "DEVDISCONN" \notin irq /\ ~Attached
      <4>1. "DEVCONN" \notin irq /\ ~connected /\ ~available
        BY <3>3 DEF NoGhostDevice, NewDeviceWaits
      <4>2. QED
        BY <1>1, <3>3, <4>1 DEF InterruptHandler, NoGhostDevice, General, EndpointState,
          EndpointTransfer, Forget, Attached, Resting, board
    <3>4. QED
      BY <3>1, <3>2, <3>3
  <2>2. ReportedDescriptorIsWhole'
    BY <1>1 DEF NoGhostDevice, ReportedDescriptorIsWhole, TransferInv,
        NewDeviceWaits, Requesting, Waiting, Reading, NextPacket, Resting,
        InterruptHandler, States, TransferStates, Causes, Attached, Lesser,
        DESCRIPTOR_SZ, MAX_REQUESTS, TRANSFER_SZ, JUST, LONG, General,
        EndpointState, EndpointTransfer, Forget, Pending, descriptor, board
  <2>3. TransferInv'
    BY <1>1 DEF NoGhostDevice, ReportedDescriptorIsWhole, TransferInv,
        NewDeviceWaits, Requesting, Waiting, Reading, NextPacket, Resting,
        InterruptHandler, States, TransferStates, Causes, Attached, Lesser,
        DESCRIPTOR_SZ, MAX_REQUESTS, TRANSFER_SZ, JUST, LONG, General,
        EndpointState, EndpointTransfer, Forget, Pending, descriptor, board
  <2>4. NewDeviceWaits'
    BY <1>1 DEF NoGhostDevice, ReportedDescriptorIsWhole, TransferInv,
        NewDeviceWaits, Requesting, Waiting, Reading, NextPacket, Resting,
        InterruptHandler, States, TransferStates, Causes, Attached, Lesser,
        DESCRIPTOR_SZ, MAX_REQUESTS, TRANSFER_SZ, JUST, LONG, General,
        EndpointState, EndpointTransfer, Forget, Pending, descriptor, board
  <2>5. Requesting'
    BY <1>1 DEF NoGhostDevice, ReportedDescriptorIsWhole, TransferInv,
        NewDeviceWaits, Requesting, Waiting, Reading, NextPacket, Resting,
        InterruptHandler, States, TransferStates, Causes, Attached, Lesser,
        DESCRIPTOR_SZ, MAX_REQUESTS, TRANSFER_SZ, JUST, LONG, General,
        EndpointState, EndpointTransfer, Forget, Pending, descriptor, board
  <2>6. Waiting'
    BY <1>1 DEF NoGhostDevice, ReportedDescriptorIsWhole, TransferInv,
        NewDeviceWaits, Requesting, Waiting, Reading, NextPacket, Resting,
        InterruptHandler, States, TransferStates, Causes, Attached, Lesser,
        DESCRIPTOR_SZ, MAX_REQUESTS, TRANSFER_SZ, JUST, LONG, General,
        EndpointState, EndpointTransfer, Forget, Pending, descriptor, board
  <2>7. Reading'
    BY <1>1 DEF NoGhostDevice, ReportedDescriptorIsWhole, TransferInv,
        NewDeviceWaits, Requesting, Waiting, Reading, NextPacket, Resting,
        InterruptHandler, States, TransferStates, Causes, Attached, Lesser,
        DESCRIPTOR_SZ, MAX_REQUESTS, TRANSFER_SZ, JUST, LONG, General,
        EndpointState, EndpointTransfer, Forget, Pending, descriptor, board
  <2>8. QED
    BY <2>1, <2>2, <2>3, <2>4, <2>5, <2>6, <2>7 DEF UsbPhases
<1>2. CASE EnterPolling
  <2>1. NoGhostDevice'
    BY <1>2, Zenon DEF EnterPolling, NoGhostDevice, status, sending,
        controller, board, Attached
  <2>2. ReportedDescriptorIsWhole'
    BY <1>2 DEF NoGhostDevice, ReportedDescriptorIsWhole, TransferInv,
        NewDeviceWaits, Requesting, Waiting, Reading, NextPacket, Resting,
        EnterPolling, States, TransferStates, Causes, Attached, Lesser,
        DESCRIPTOR_SZ, MAX_REQUESTS, TRANSFER_SZ, JUST, LONG, status,
        descriptor, sending, controller, board
  <2>3. TransferInv'
    BY <1>2 DEF NoGhostDevice, ReportedDescriptorIsWhole, TransferInv,
        NewDeviceWaits, Requesting, Waiting, Reading, NextPacket, Resting,
        EnterPolling, States, TransferStates, Causes, Attached, Lesser,
        DESCRIPTOR_SZ, MAX_REQUESTS, TRANSFER_SZ, JUST, LONG, status,
        descriptor, sending, controller, board
  <2>4. NewDeviceWaits'
    BY <1>2 DEF EnterPolling, NewDeviceWaits, Pending, controller
  <2>5. Requesting'
    BY <1>2, Zenon DEF EnterPolling, Requesting, Pending, status, descriptor, controller, board
  <2>6. Waiting'
    BY <1>2 DEF NoGhostDevice, ReportedDescriptorIsWhole, TransferInv,
        NewDeviceWaits, Requesting, Waiting, Reading, NextPacket, Resting,
        EnterPolling, States, TransferStates, Causes, Attached, Lesser,
        DESCRIPTOR_SZ, MAX_REQUESTS, TRANSFER_SZ, JUST, LONG, status,
        descriptor, sending, controller, board
  <2>7. Reading'
    BY <1>2 DEF NoGhostDevice, ReportedDescriptorIsWhole, TransferInv,
        NewDeviceWaits, Requesting, Waiting, Reading, NextPacket, Resting,
        EnterPolling, States, TransferStates, Causes, Attached, Lesser,
        DESCRIPTOR_SZ, MAX_REQUESTS, TRANSFER_SZ, JUST, LONG, status,
        descriptor, sending, controller, board
  <2>8. QED
    BY <2>1, <2>2, <2>3, <2>4, <2>5, <2>6, <2>7 DEF UsbPhases
<1>3. CASE SendData
  BY <1>3 DEF NoGhostDevice, ReportedDescriptorIsWhole, TransferInv,
      NewDeviceWaits, Requesting, Waiting, Reading, NextPacket, Resting,
      SendData, States, TransferStates, Causes, Attached, Lesser,
      DESCRIPTOR_SZ, MAX_REQUESTS, TRANSFER_SZ, JUST, LONG, status,
      descriptor, controller, board
<1>4. CASE Debounce
  BY <1>4 DEF NoGhostDevice, ReportedDescriptorIsWhole, TransferInv,
      NewDeviceWaits, Requesting, Waiting, Reading, NextPacket, Resting,
      Debounce, States, TransferStates, Causes, Attached, Lesser,
      DESCRIPTOR_SZ, MAX_REQUESTS, TRANSFER_SZ, JUST, LONG, Wait, SHORT,
      Detecting, Updated, descriptor, sending, controller
<1>5. CASE UsbReset
  BY <1>5 DEF NoGhostDevice, ReportedDescriptorIsWhole, TransferInv,
      NewDeviceWaits, Requesting, Waiting, Reading, NextPacket, Resting,
      UsbReset, States, TransferStates, Causes, Attached, Lesser,
      DESCRIPTOR_SZ, MAX_REQUESTS, TRANSFER_SZ, JUST, LONG, Wait, SHORT,
      Detecting, Updated, descriptor, sending, controller
<1>6. CASE AfterReset
  BY <1>6 DEF NoGhostDevice, ReportedDescriptorIsWhole, TransferInv,
      NewDeviceWaits, Requesting, Waiting, Reading, NextPacket, Resting,
      AfterReset, States, TransferStates, Causes, Attached, Lesser,
      DESCRIPTOR_SZ, MAX_REQUESTS, TRANSFER_SZ, JUST, LONG, Wait, SHORT,
      Detecting, Updated, descriptor, sending, controller
<1>7. CASE RequestDescriptor
  BY <1>7 DEF NoGhostDevice, ReportedDescriptorIsWhole, TransferInv,
      NewDeviceWaits, Requesting, Waiting, Reading, NextPacket, Resting,
      RequestDescriptor, States, TransferStates, Causes, Attached, Lesser,
      DESCRIPTOR_SZ, MAX_REQUESTS, TRANSFER_SZ, JUST, LONG, Detecting,
      Updated, SendSetup, ReceivedAtRequest, NoPacket, sending
<1>8. CASE Handshake
  BY <1>8 DEF NoGhostDevice, ReportedDescriptorIsWhole, TransferInv,
      NewDeviceWaits, Requesting, Waiting, Reading, NextPacket, Resting,
      Handshake, States, TransferStates, Causes, Attached, Lesser,
      DESCRIPTOR_SZ, MAX_REQUESTS, TRANSFER_SZ, JUST, LONG, Detecting,
      Updated, descriptor, sending
<1>9. CASE WaitDescriptor
  BY <1>9 DEF NoGhostDevice, ReportedDescriptorIsWhole, TransferInv,
      NewDeviceWaits, Requesting, Waiting, Reading, NextPacket, Resting,
      WaitDescriptor, States, TransferStates, Causes, Attached, Lesser,
      DESCRIPTOR_SZ, MAX_REQUESTS, TRANSFER_SZ, JUST, LONG, Detecting,
      Updated, RequestsAfterTimeout, sending, controller
<1>10. CASE ReadDescriptor
  BY <1>10 DEF NoGhostDevice, ReportedDescriptorIsWhole, TransferInv,
      NewDeviceWaits, Requesting, Waiting, Reading, NextPacket, Resting,
      ReadDescriptor, States, TransferStates, Causes, Attached, Lesser,
      DESCRIPTOR_SZ, MAX_REQUESTS, TRANSFER_SZ, JUST, LONG, Detecting,
      Updated, SizeAfter, TransferGiven, SizeGiven, NoPacket, sending
<1>11. CASE StayIdle
  BY <1>11 DEF NoGhostDevice, ReportedDescriptorIsWhole, TransferInv,
      NewDeviceWaits, Requesting, Waiting, Reading, NextPacket, Resting,
      StayIdle, States, TransferStates, Causes, Attached, Lesser,
      DESCRIPTOR_SZ, MAX_REQUESTS, TRANSFER_SZ, JUST, LONG, Detecting,
      Updated, descriptor, sending
<1>12. CASE NoStep
  BY <1>12 DEF NoGhostDevice, ReportedDescriptorIsWhole, TransferInv,
      NewDeviceWaits, Requesting, Waiting, Reading, NextPacket, Resting,
      NoStep, States, TransferStates, Causes, Attached, Lesser,
      DESCRIPTOR_SZ, MAX_REQUESTS, TRANSFER_SZ, JUST, LONG, Detecting,
      Updated, descriptor, sending, controller
<1>13. CASE GeneralError
  BY <1>13 DEF NoGhostDevice, ReportedDescriptorIsWhole, TransferInv,
      NewDeviceWaits, Requesting, Waiting, Reading, NextPacket, Resting,
      GeneralError, States, TransferStates, Causes, Attached, Lesser,
      DESCRIPTOR_SZ, MAX_REQUESTS, TRANSFER_SZ, JUST, LONG, Detecting,
      Updated, sending, controller
<1>14. CASE TransferStart
  BY <1>14 DEF NoGhostDevice, ReportedDescriptorIsWhole, TransferInv,
      NewDeviceWaits, Requesting, Waiting, Reading, NextPacket, Resting,
      TransferStart, States, TransferStates, Causes, Attached, Lesser,
      DESCRIPTOR_SZ, MAX_REQUESTS, TRANSFER_SZ, JUST, LONG, Transferring,
      descriptor, SendSetup, NoPacket
<1>15. CASE TransferSending
  BY <1>15 DEF NoGhostDevice, ReportedDescriptorIsWhole, TransferInv,
      NewDeviceWaits, Requesting, Waiting, Reading, NextPacket, Resting,
      TransferSending, States, TransferStates, Causes, Attached, Lesser,
      DESCRIPTOR_SZ, MAX_REQUESTS, TRANSFER_SZ, JUST, LONG, Transferring,
      descriptor, DataSent, AfterData, FIFO_SZ
<1>16. CASE TransferRest
  BY <1>16 DEF NoGhostDevice, ReportedDescriptorIsWhole, TransferInv,
      NewDeviceWaits, Requesting, Waiting, Reading, NextPacket, Resting,
      TransferRest, States, TransferStates, Causes, Attached, Lesser,
      DESCRIPTOR_SZ, MAX_REQUESTS, TRANSFER_SZ, JUST, LONG, Transferring,
      descriptor, controller
<1>17. CASE Attach
  BY <1>17 DEF NoGhostDevice, ReportedDescriptorIsWhole, TransferInv,
      NewDeviceWaits, Requesting, Waiting, Reading, NextPacket, Resting,
      Attach, States, TransferStates, Causes, Attached, Lesser,
      DESCRIPTOR_SZ, MAX_REQUESTS, TRANSFER_SZ, JUST, LONG, driver,
      descriptor, sending
<1>18. CASE Detach
  BY <1>18 DEF NoGhostDevice, ReportedDescriptorIsWhole, TransferInv,
      NewDeviceWaits, Requesting, Waiting, Reading, NextPacket, Resting,
      Detach, States, TransferStates, Causes, Attached, Lesser,
      DESCRIPTOR_SZ, MAX_REQUESTS, TRANSFER_SZ, JUST, LONG, driver,
      descriptor, sending
<1>19. CASE PacketSent
  BY <1>19 DEF NoGhostDevice, ReportedDescriptorIsWhole, TransferInv,
      NewDeviceWaits, Requesting, Waiting, Reading, NextPacket, Resting,
      PacketSent, States, TransferStates, Causes, Attached, Lesser,
      DESCRIPTOR_SZ, MAX_REQUESTS, TRANSFER_SZ, JUST, LONG, driver,
      descriptor, sending, board
<1>20. CASE PacketReceived
  BY <1>20 DEF NoGhostDevice, ReportedDescriptorIsWhole, TransferInv,
      NewDeviceWaits, Requesting, Waiting, Reading, NextPacket, Resting,
      PacketReceived, States, TransferStates, Causes, Attached, Lesser,
      DESCRIPTOR_SZ, MAX_REQUESTS, TRANSFER_SZ, JUST, LONG, driver,
      descriptor, sending
<1>21. CASE Fault
  BY <1>21 DEF NoGhostDevice, ReportedDescriptorIsWhole, TransferInv,
      NewDeviceWaits, Requesting, Waiting, Reading, NextPacket, Resting,
      Fault, States, TransferStates, Causes, Attached, Lesser,
      DESCRIPTOR_SZ, MAX_REQUESTS, TRANSFER_SZ, JUST, LONG, driver,
      descriptor, sending, controller, NoPacket
<1>22. CASE OvercurrentEnds
  BY <1>22 DEF NoGhostDevice, ReportedDescriptorIsWhole, TransferInv,
      NewDeviceWaits, Requesting, Waiting, Reading, NextPacket, Resting,
      OvercurrentEnds, States, TransferStates, Causes, Attached, Lesser,
      DESCRIPTOR_SZ, MAX_REQUESTS, TRANSFER_SZ, JUST, LONG, driver,
      descriptor, sending, controller
<1>23. CASE TimePasses
  BY <1>23 DEF NoGhostDevice, ReportedDescriptorIsWhole, TransferInv,
      NewDeviceWaits, Requesting, Waiting, Reading, NextPacket, Resting,
      TimePasses, States, TransferStates, Causes, Attached, Lesser,
      DESCRIPTOR_SZ, MAX_REQUESTS, TRANSFER_SZ, JUST, LONG, driver,
      descriptor, sending, controller, board
<1>24. QED
  BY <1>1, <1>2, <1>3, <1>4, <1>5, <1>6, <1>7, <1>8, <1>9, <1>10, <1>11,
      <1>12, <1>13, <1>14, <1>15, <1>16, <1>17, <1>18, <1>19, <1>20, <1>21,
      <1>22, <1>23 DEF UsbNext, Poll, UpdateStateMachine,
      UpdateTransferStateMachine, Environment

LEMMA UsbInvIsInductive == UsbInv /\ [UsbNext]_usbVars => UsbInv'
<1> SUFFICES ASSUME UsbInv, [UsbNext]_usbVars PROVE UsbInv'
  OBVIOUS
<1>1. CASE UsbNext
  BY <1>1, FlagsStayBoolean, RangesAreKept, PhasesAreKept DEF UsbInv, UsbTypeOK, UsbPhases
<1>2. CASE UNCHANGED usbVars
  <2>1. UsbTypeOK'
    BY <1>2 DEF UsbInv, UsbTypeOK, UsbFlags, UsbRanges, usbVars, status, descriptor,
        sending, controller, board
  <2>2. UsbPhases'
    BY <1>2, Zenon DEF UsbInv, UsbPhases, NoGhostDevice, ReportedDescriptorIsWhole, TransferInv,
        NewDeviceWaits, Requesting, Waiting, Reading, NextPacket, Attached, usbVars,
        status, descriptor, sending, controller, board
  <2>3. QED
    BY <2>1, <2>2 DEF UsbInv
<1>3. QED
  BY <1>1, <1>2

LEMMA UsbInvariantHolds == UsbSpec => []UsbInv
  BY UsbInitEstablishesInv, UsbInvIsInductive, PTL DEF UsbSpec

(* After a detachment was taken no trace of the device is left in either   *)
(* of the two state machines, whatever was pending with it.                *)
THEOREM NoGhosts == UsbSpec => []NoGhostDevice
<1>1. UsbInv => NoGhostDevice
  BY DEF UsbInv, UsbPhases
<1>2. QED
  BY <1>1, UsbInvariantHolds, PTL

(* The descriptor stays within its array, and the one that is reported is  *)
(* complete, for devices of any packet size.                               *)
THEOREM DescriptorsWhole == UsbSpec => []DescriptorIsWhole
<1>1. UsbInv => DescriptorIsWhole
  BY DEF UsbInv, UsbPhases, DescriptorIsWhole
<1>2. QED
  BY <1>1, UsbInvariantHolds, PTL

(* Data go out next to the packet that announces them.                     *)
THEOREM DataAnnounced == UsbSpec => DataFollowsSetup
<1>1. UsbInv /\ [UsbNext]_usbVars =>
        [TransferSending => /\ lastPacket = "data_follows" \/ "DEVDISCONN" \in irq
                            /\ sent_sz' - sent_sz = TRANSFER_SZ]_usbVars
  <2> SUFFICES ASSUME UsbInv, TransferSending
               PROVE  /\ lastPacket = "data_follows" \/ "DEVDISCONN" \in irq
                      /\ sent_sz' - sent_sz = TRANSFER_SZ
    OBVIOUS
  <2>1. transfer = "TRANSFER_SENDING" /\ sent_sz' = DataSent
    BY DEF TransferSending, Transferring
  <2>2. QED
    BY <2>1 DEF UsbInv, UsbPhases, TransferInv, DataSent, Lesser, TRANSFER_SZ, FIFO_SZ
<1>2. QED
  BY <1>1, UsbInvariantHolds, PTL DEF UsbSpec, DataFollowsSetup

-----------------------------------------------------------------------------
(* The device mapping hypercalls.                                          *)

WritesWereAllowed ==
  /\ io \in [IoAddress -> DOMAIN Mapped \cup {NONE}]
  /\ \A a \in IoAddress : io[a] # NONE => io[a] \in DOMAIN Mapped /\ Allowed(io[a], a)

(* A register of a device is written only by guests that the device is     *)
(* mapped to, and no other address, for any devices that share no register *)
(* and however close they are.                                             *)
THEOREM DevicesAreTheGuests == DispatchSpec => []DevicesKeepToTheirGuests
<1>1. DispatchInit => WritesWereAllowed
  BY DEF DispatchInit, WritesWereAllowed
<1>2. WritesWereAllowed /\ [DispatchNext]_dispatchVars => WritesWereAllowed'
  <2> SUFFICES ASSUME WritesWereAllowed, [DispatchNext]_dispatchVars
               PROVE  WritesWereAllowed'
    OBVIOUS
  <2>1. InitialiseDriver \/ StartTimer \/ UNCHANGED dispatchVars => UNCHANGED io
    BY DEF InitialiseDriver, StartTimer, dispatchVars
  <2>2. ASSUME UNCHANGED io PROVE WritesWereAllowed'
    BY <2>2 DEF WritesWereAllowed, Allowed
  <2>3. ASSUME NEW vm \in DOMAIN Mapped, NEW b \in IoAddress, WriteAddress(vm, b)
        PROVE  WritesWereAllowed'
    <3>1. io' = io \/ (Allowed(vm, b) /\ io' = [io EXCEPT ![b] = vm])
      BY <2>3 DEF WriteAddress
    <3>2. QED
      BY <2>3, <3>1 DEF WritesWereAllowed, Allowed
  <2>4. QED
    BY <2>1, <2>2, <2>3 DEF DispatchNext
<1>3. WritesWereAllowed => DevicesKeepToTheirGuests
  <2> SUFFICES ASSUME WritesWereAllowed, NEW a \in IoAddress, io[a] # NONE
               PROVE  /\ \E d \in DOMAIN Devices : a \in Registers(d)
                      /\ \A d \in DOMAIN Devices : a \in Registers(d) => d \in Mapped[io[a]]
    BY DEF DevicesKeepToTheirGuests
  <2>1. PICK e \in Mapped[io[a]] :
          Devices[e].start <= a /\ Devices[e].start + Devices[e].size >= a
    BY DEF WritesWereAllowed, Allowed
  <2>2. e \in DOMAIN Devices /\ a \in Nat
    BY DispatchAssumption DEF WritesWereAllowed
  <2>3. Devices[e].start \in Nat /\ Devices[e].size \in Nat
    BY <2>2, DispatchAssumption
  <2>4. a \in Registers(e)
    BY <2>1, <2>2, <2>3 DEF Registers
  <2>5. ASSUME NEW d \in DOMAIN Devices, a \in Registers(d)
        PROVE  d \in Mapped[io[a]]
    <3>1. Devices[d].start \in Nat /\ Devices[d].size \in Nat
      BY DispatchAssumption
    <3>2. Devices[d].start <= a /\ a <= Devices[d].start + Devices[d].size
      BY <2>5, <3>1 DEF Registers
    <3>3. d # e => \/ Devices[d].start + Devices[d].size < Devices[e].start
                   \/ Devices[e].start + Devices[e].size < Devices[d].start
      BY <2>2, DispatchAssumption
    <3>4. d = e
      BY <2>1, <2>2, <2>3, <3>1, <3>2, <3>3
    <3>5. QED
      BY <2>1, <3>4
  <2>6. QED
    BY <2>2, <2>4, <2>5
<1>4. QED
  BY <1>1, <1>2, <1>3, PTL DEF DispatchSpec
-----------------------------------------------------------------------------
(* The hypercall table and the interrupt handlers.                         *)

(* What the calls of the drivers are.                                      *)
LEMMA Calls ==
  ASSUME NEW b
  PROVE  /\ InitCall("inter-vm-comm", b)
               = <<Hypercall(0), Hypercall(2), Hypercall(1), Hypercall(3)>>
         /\ InitCall("interrupts", b) = InterruptInit(b)
         /\ InitCall("pic32mz-ethernet", b) = EnInit(b)
         /\ InitCall("pic32mz-ethernet-shared", b) = EnInit(b)
         /\ InitCall("pic32mz-interrupt-redirect", b) = InterruptRedirectInit(b)
         /\ InitCall("pic32mz-usb", b) = UsbStart
         /\ InitCall("pic32mz-puf-flash", b) = FlashPufInit
         /\ InitCall("pic32mz-timer-test", b) = TimerTestInit
         /\ InitCall("pic32mz-interrupt-latency-test", b) = StartLatencyInit
         /\ InitCall("performance-counter", b) = PerformanceInit
         /\ InitCall("reset", b) = Sw1ButtonInit
         /\ InitCall("t1-baikal-UART-test", b) = T1UartTestInit
         /\ InitCall("uart_driver", b) = UartDriverInit(b)
         /\ InitCall("virtual-io", b) = VirtualIoInit
         /\ InitCall("timer", b) = StartTimerSteps(b)
  BY DEF InitCall, IntervmInit

\* Drivers that register a handler.
Registering ==
  {"pic32mz-ethernet", "pic32mz-ethernet-shared", "pic32mz-interrupt-redirect",
   "pic32mz-usb", "pic32mz-timer-test", "pic32mz-interrupt-latency-test", "reset",
   "t1-baikal-UART-test", "uart_driver"}

\* Both Ethernet drivers offer the hypercalls of one device.
Device(d) == IF d = "pic32mz-ethernet-shared" THEN "pic32mz-ethernet" ELSE d

\* The device that a code is for.
Home(c) ==
  IF c < 4 THEN "inter-vm-comm" ELSE IF c < 8 THEN "pic32mz-ethernet"
  ELSE IF c < 11 THEN "pic32mz-usb" ELSE IF c < 13 THEN "virtual-io"
  ELSE IF c < 14 THEN "pic32mz-interrupt-redirect" ELSE IF c < 16 THEN "pic32mz-puf-flash"
  ELSE IF c < 18 THEN "performance-counter" ELSE "uart_driver"

\* What is true of the call q of driver d on a port.
Orderly(q, d, port) ==
  /\ Len(q) \in 0..5 /\ DOMAIN q = 1..Len(q)
  /\ \A k \in 1..Len(q) :
       \/ /\ q[k].kind = "hypercall" /\ q[k].code \in 0..(HCALL_TABLE_SIZE - 1)
          /\ Home(q[k].code) = Device(d)
       \/ /\ q[k].kind = "interrupt" /\ d \in Registering \cup {"timer"}
          /\ q[k].checked => \/ d = "t1-baikal-UART-test"
                             \/ d = "uart_driver" /\ port = "pic32mz"
       \/ q[k].kind = "clear" /\ d = "interrupts" /\ port # "pic32mz"
  /\ \A k, l \in 1..Len(q) :
       \/ k = l
       \/ q[k].kind = "hypercall" /\ q[l].kind = "interrupt"
       \/ q[l].kind = "hypercall" /\ q[k].kind = "interrupt"
       \/ q[k].kind = "hypercall" /\ q[l].kind = "hypercall" /\ q[k].code # q[l].code
  /\ d = "t1-baikal-UART-test" => \A k \in 1..Len(q) : q[k].kind # "hypercall"
  /\ Device(d) = "pic32mz-ethernet" /\ Len(q) # 0 => q[1].kind = "hypercall"

LEMMA CallsAreOrderly ==
  ASSUME NEW b, NEW d \in Drivers \cup {"timer"}
  PROVE  Orderly(InitCall(d, b), d, b.port)
<1>1. CASE d = "inter-vm-comm"
  <2>1. PICK q : q = InitCall(d, b)
    OBVIOUS
  <2>2. /\ DOMAIN q = 1..4 /\ Len(q) = 4
         /\ q[1].kind = "hypercall" /\ q[1].code = 0
         /\ q[2].kind = "hypercall" /\ q[2].code = 2
         /\ q[3].kind = "hypercall" /\ q[3].code = 1
         /\ q[4].kind = "hypercall" /\ q[4].code = 3
    BY <2>1, <1>1, Calls DEF Hypercall, Handler
  <2>3. QED
    BY <2>1, <2>2, <1>1 DEF Orderly, Home, Device, Registering, HCALL_TABLE_SIZE
<1>2. CASE d = "pic32mz-usb"
  <2>1. PICK q : q = InitCall(d, b)
    OBVIOUS
  <2>2. /\ DOMAIN q = 1..4 /\ Len(q) = 4
         /\ q[1].kind = "interrupt" /\ q[1].checked = FALSE
         /\ q[2].kind = "hypercall" /\ q[2].code = 8
         /\ q[3].kind = "hypercall" /\ q[3].code = 9
         /\ q[4].kind = "hypercall" /\ q[4].code = 10
    BY <2>1, <1>2, Calls DEF Hypercall, Handler, UsbStart
  <2>3. QED
    BY <2>1, <2>2, <1>2 DEF Orderly, Home, Device, Registering, HCALL_TABLE_SIZE
<1>3. CASE d = "pic32mz-puf-flash"
  <2>1. PICK q : q = InitCall(d, b)
    OBVIOUS
  <2>2. /\ DOMAIN q = 1..2 /\ Len(q) = 2
         /\ q[1].kind = "hypercall" /\ q[1].code = 14
         /\ q[2].kind = "hypercall" /\ q[2].code = 15
    BY <2>1, <1>3, Calls DEF Hypercall, Handler, FlashPufInit
  <2>3. QED
    BY <2>1, <2>2, <1>3 DEF Orderly, Home, Device, Registering, HCALL_TABLE_SIZE
<1>4. CASE d = "pic32mz-timer-test"
  <2>1. PICK q : q = InitCall(d, b)
    OBVIOUS
  <2>2. /\ DOMAIN q = 1..1 /\ Len(q) = 1
         /\ q[1].kind = "interrupt" /\ q[1].checked = FALSE
    BY <2>1, <1>4, Calls DEF Hypercall, Handler, TimerTestInit
  <2>3. QED
    BY <2>1, <2>2, <1>4 DEF Orderly, Home, Device, Registering, HCALL_TABLE_SIZE
<1>5. CASE d = "pic32mz-interrupt-latency-test"
  <2>1. PICK q : q = InitCall(d, b)
    OBVIOUS
  <2>2. /\ DOMAIN q = 1..1 /\ Len(q) = 1
         /\ q[1].kind = "interrupt" /\ q[1].checked = FALSE
    BY <2>1, <1>5, Calls DEF Hypercall, Handler, StartLatencyInit
  <2>3. QED
    BY <2>1, <2>2, <1>5 DEF Orderly, Home, Device, Registering, HCALL_TABLE_SIZE
<1>6. CASE d = "performance-counter"
  <2>1. PICK q : q = InitCall(d, b)
    OBVIOUS
  <2>2. /\ DOMAIN q = 1..2 /\ Len(q) = 2
         /\ q[1].kind = "hypercall" /\ q[1].code = 16
         /\ q[2].kind = "hypercall" /\ q[2].code = 17
    BY <2>1, <1>6, Calls DEF Hypercall, Handler, PerformanceInit
  <2>3. QED
    BY <2>1, <2>2, <1>6 DEF Orderly, Home, Device, Registering, HCALL_TABLE_SIZE
<1>7. CASE d = "reset"
  <2>1. PICK q : q = InitCall(d, b)
    OBVIOUS
  <2>2. /\ DOMAIN q = 1..1 /\ Len(q) = 1
         /\ q[1].kind = "interrupt" /\ q[1].checked = FALSE
    BY <2>1, <1>7, Calls DEF Hypercall, Handler, Sw1ButtonInit
  <2>3. QED
    BY <2>1, <2>2, <1>7 DEF Orderly, Home, Device, Registering, HCALL_TABLE_SIZE
<1>8. CASE d = "t1-baikal-UART-test"
  <2>1. PICK q : q = InitCall(d, b)
    OBVIOUS
  <2>2. /\ DOMAIN q = 1..1 /\ Len(q) = 1
         /\ q[1].kind = "interrupt" /\ q[1].checked = TRUE
    BY <2>1, <1>8, Calls DEF Hypercall, Handler, T1UartTestInit
  <2>3. QED
    BY <2>1, <2>2, <1>8 DEF Orderly, Home, Device, Registering, HCALL_TABLE_SIZE
<1>9. CASE d = "virtual-io"
  <2>1. PICK q : q = InitCall(d, b)
    OBVIOUS
  <2>2. /\ DOMAIN q = 1..2 /\ Len(q) = 2
         /\ q[1].kind = "hypercall" /\ q[1].code = 11
         /\ q[2].kind = "hypercall" /\ q[2].code = 12
    BY <2>1, <1>9, Calls DEF Hypercall, Handler, VirtualIoInit
  <2>3. QED
    BY <2>1, <2>2, <1>9 DEF Orderly, Home, Device, Registering, HCALL_TABLE_SIZE
<1>10. CASE d = "interrupts"
  <2>0. InitCall(d, b) = InterruptInit(b)
    BY <1>10, Calls
  <2>1. CASE b.port = "pic32mz"
    BY <1>10, <2>0, <2>1 DEF InterruptInit, Orderly, Device
  <2>2. CASE b.port # "pic32mz"
    <3>1. PICK q : q = InitCall(d, b)
      OBVIOUS
    <3>2. DOMAIN q = 1..1 /\ Len(q) = 1 /\ q[1].kind = "clear"
      BY <2>0, <2>2, <3>1 DEF InterruptInit
    <3>3. 1..Len(q) = {1} /\ Device(d) # "pic32mz-ethernet" /\ d # "t1-baikal-UART-test"
      BY <1>10, <3>2 DEF Device
    <3>4. QED
      BY <1>10, <2>2, <3>1, <3>2, <3>3 DEF Orderly
  <2>3. QED
    BY <2>1, <2>2
<1>11. CASE d \in {"pic32mz-ethernet", "pic32mz-ethernet-shared"}
  <2>0. InitCall(d, b) = EnInit(b)
    BY <1>11, Calls
  <2>1. CASE ~b.phy
    BY <1>11, <2>0, <2>1 DEF EnInit, Orderly, Device
  <2>2. CASE b.phy /\ ~b.fastEthernet
    <3>1. PICK q : q = InitCall(d, b)
      OBVIOUS
    <3>2. /\ DOMAIN q = 1..4 /\ Len(q) = 4
           /\ q[1].kind = "hypercall" /\ q[1].code = 4
           /\ q[2].kind = "hypercall" /\ q[2].code = 7
           /\ q[3].kind = "hypercall" /\ q[3].code = 5
           /\ q[4].kind = "hypercall" /\ q[4].code = 6
      BY <3>1, <2>0, <2>2 DEF EnInit, Hypercall, Handler
    <3>3. QED
      BY <3>1, <3>2, <1>11, <2>2 DEF Orderly, Home, Device, Registering, HCALL_TABLE_SIZE
  <2>3. CASE b.phy /\ b.fastEthernet
    <3>1. PICK q : q = InitCall(d, b)
      OBVIOUS
    <3>2. /\ DOMAIN q = 1..5 /\ Len(q) = 5
           /\ q[1].kind = "hypercall" /\ q[1].code = 4
           /\ q[2].kind = "hypercall" /\ q[2].code = 7
           /\ q[3].kind = "hypercall" /\ q[3].code = 5
           /\ q[4].kind = "hypercall" /\ q[4].code = 6
           /\ q[5].kind = "interrupt" /\ q[5].checked = FALSE
      BY <3>1, <2>0, <2>3 DEF EnInit, Hypercall, Handler
    <3>3. QED
      BY <3>1, <3>2, <1>11, <2>3 DEF Orderly, Home, Device, Registering, HCALL_TABLE_SIZE
  <2>4. QED
    BY <2>1, <2>2, <2>3
<1>12. CASE d = "pic32mz-interrupt-redirect"
  <2>0. InitCall(d, b) = InterruptRedirectInit(b)
    BY <1>12, Calls
  <2>1. CASE b.redirected = {}
    BY <1>12, <2>0, <2>1 DEF InterruptRedirectInit, Orderly, Device
  <2>2. CASE b.redirected # {}
    <3>1. PICK q : q = InitCall(d, b)
      OBVIOUS
    <3>2. /\ DOMAIN q = 1..2 /\ Len(q) = 2
           /\ q[1].kind = "interrupt" /\ q[1].checked = FALSE
           /\ q[2].kind = "hypercall" /\ q[2].code = 13
      BY <3>1, <2>0, <2>2 DEF InterruptRedirectInit, Hypercall, Handler
    <3>3. QED
      BY <3>1, <3>2, <1>12, <2>2 DEF Orderly, Home, Device, Registering, HCALL_TABLE_SIZE
  <2>3. QED
    BY <2>1, <2>2
<1>13. CASE d = "uart_driver"
  <2>0. InitCall(d, b) = UartDriverInit(b)
    BY <1>13, Calls
  <2>1. CASE b.port = "pic32mz"
    <3>1. PICK q : q = InitCall(d, b)
      OBVIOUS
    <3>2. /\ DOMAIN q = 1..2 /\ Len(q) = 2
           /\ q[1].kind = "hypercall" /\ q[1].code = 18
           /\ q[2].kind = "interrupt" /\ q[2].checked = TRUE
      BY <3>1, <2>0, <2>1 DEF UartDriverInit, Hypercall, Handler
    <3>3. QED
      BY <3>1, <3>2, <1>13, <2>1 DEF Orderly, Home, Device, Registering, HCALL_TABLE_SIZE
  <2>2. CASE b.port # "pic32mz"
    <3>1. PICK q : q = InitCall(d, b)
      OBVIOUS
    <3>2. /\ DOMAIN q = 1..1 /\ Len(q) = 1
           /\ q[1].kind = "hypercall" /\ q[1].code = 18
      BY <3>1, <2>0, <2>2 DEF UartDriverInit, Hypercall, Handler
    <3>3. QED
      BY <3>1, <3>2, <1>13, <2>2 DEF Orderly, Home, Device, Registering, HCALL_TABLE_SIZE
  <2>3. QED
    BY <2>1, <2>2
<1>14. CASE d = "timer"
  <2>0. InitCall(d, b) = StartTimerSteps(b)
    BY <1>14, Calls
  <2>1. PICK q : q = InitCall(d, b)
    OBVIOUS
  <2>2. /\ DOMAIN q = 1..1 /\ Len(q) = 1
         /\ q[1].kind = "interrupt" /\ q[1].checked = FALSE
    BY <2>1, <2>0 DEF StartTimerSteps, Hypercall, Handler
  <2>3. QED
    BY <2>1, <2>2, <1>14 DEF Orderly, Home, Device, Registering, HCALL_TABLE_SIZE
<1>15. QED
  BY <1>1, <1>2, <1>3, <1>4, <1>5, <1>6, <1>7, <1>8, <1>9, <1>10, <1>11, <1>12, <1>13, <1>14
     DEF Drivers

(* The state between two steps of an initialisation.                       *)
Shape(s) ==
  \E h, g, v, o, f :
    s = [hypercalls |-> h, handlers |-> g, vector |-> v, owner |-> o, failed |-> f]

LEMMA ShapeFields ==
  ASSUME NEW h, NEW g, NEW v, NEW o, NEW f, NEW t,
         t = [hypercalls |-> h, handlers |-> g, vector |-> v, owner |-> o, failed |-> f]
  PROVE  /\ Shape(t) /\ t.hypercalls = h /\ t.handlers = g /\ t.failed = f
<1>1. Shape(t)
  BY Zenon DEF Shape
<1>2. QED
  BY <1>1

LEMMA LeastNatural ==
  ASSUME NEW S \in SUBSET Nat, S # {}
  PROVE  \E x \in S : \A y \in S : x <= y
<1> DEFINE Below == {0..x : x \in S}
           R == StrictSubsetOrdering(Nat)
<1>1. Below \subseteq FiniteSubsetsOf(Nat) /\ Below # {}
  <2>1. \A x \in S : 0..x \subseteq Nat /\ IsFiniteSet(0..x)
    BY FS_Interval
  <2>2. QED
    BY <2>1 DEF FiniteSubsetsOf
<1>2. PICK B \in Below : \A C \in Below : <<C, B>> \notin R
  <2>1. IsWellFoundedOn(R, FiniteSubsetsOf(Nat))
    BY FS_StrictSubsetOrderingWellFounded
  <2> HIDE DEF Below, R
  <2>2. QED
    BY <1>1, <2>1, WFMin
<1>3. PICK x \in S : B = 0..x
  OBVIOUS
<1>4. ASSUME NEW y \in S, y < x
      PROVE  FALSE
  <2>1. 0..y \subseteq 0..x /\ x \in 0..x /\ x \notin 0..y
    BY <1>4
  <2>2. <<0..y, B>> \in R
    BY <2>1, <1>3 DEF StrictSubsetOrdering
  <2>3. QED
    BY <2>2, <1>2
<1>5. \A y \in S : x <= y
  BY <1>4
<1>6. QED
  BY <1>5

(* A set of handler numbers that is not empty has a least element.         *)
LEMMA LeastHandler ==
  ASSUME NEW S, S \subseteq 0..(MAX_NUM_INTERRUPTS - 1), S # {}
  PROVE  Min(S) \in S /\ \A y \in S : Min(S) <= y
<1>1. PICK x \in S : \A y \in S : x <= y
  <2>1. S \in SUBSET Nat
    BY DEF MAX_NUM_INTERRUPTS
  <2>2. QED
    BY <2>1, LeastNatural
<1>2. QED
  BY <1>1 DEF Min

(* The handler that pic32mz registers is a free one.                       *)
Registered(s, d, call, t) ==
  /\ Shape(t) /\ t.hypercalls = s.hypercalls
  /\ t.failed => /\ call.checked
                 /\ \A i \in 0..(MAX_NUM_INTERRUPTS - 1) : s.handlers[i] # NONE
  /\ \/ t.handlers = s.handlers
     \/ \E i \in 0..(MAX_NUM_INTERRUPTS - 1) :
          s.handlers[i] = NONE /\ t.handlers = [s.handlers EXCEPT ![i] = d]

LEMMA RegisterKeeps ==
  ASSUME NEW s, Shape(s), ~s.failed, NEW d, NEW call,
         NEW H, s.handlers \in [0..(MAX_NUM_INTERRUPTS - 1) -> H],
         NEW t, t = RegisterInterrupt(s, d, call)
  PROVE  Registered(s, d, call, t)
<1> USE DEF Registered
<1> DEFINE free == {i \in 0..(MAX_NUM_INTERRUPTS - 1) : s.handlers[i] = NONE}
           Taken(n) == Overlaid(s.vector, call.lines, n)
           Owned == Overlaid(s.owner, call.lines, d)
           OffSet(n) == [s EXCEPT !.vector = Taken(n), !.owner = Owned]
<1>0. PICK h, g, v, o, f :
        s = [hypercalls |-> h, handlers |-> g, vector |-> v, owner |-> o, failed |-> f]
  BY Zenon DEF Shape
<1>s. ~s.failed
  OBVIOUS
<1>y. PICK y : y = TRUE
  OBVIOUS
<1>2. t = IF free # {}
          THEN [OffSet(Min(free) + 1) EXCEPT !.handlers[Min(free)] = d]
          ELSE IF call.checked THEN [s EXCEPT !.failed = TRUE] ELSE OffSet(0)
  BY DEF RegisterInterrupt
<1>3. ASSUME NEW n
      PROVE  \E w, x : OffSet(n) = [hypercalls |-> h, handlers |-> g, vector |-> w,
                                    owner |-> x, failed |-> f]
  <2> HIDE DEF Taken, Owned
  <2>a. PICK w, x : w = Taken(n) /\ x = Owned
    OBVIOUS
  <2>b. PICK u : u = [s EXCEPT !.vector = w]
    OBVIOUS
  <2>c. OffSet(n) = [u EXCEPT !.owner = x]
    BY <2>a, <2>b
  <2>d. u = [hypercalls |-> h, handlers |-> g, vector |-> w, owner |-> o, failed |-> f]
    BY <1>0, <2>b
  <2>1. OffSet(n) = [hypercalls |-> h, handlers |-> g, vector |-> w, owner |-> x, failed |-> f]
    BY <2>c, <2>d
  <2> HIDE DEF OffSet
  <2>2. QED
    BY <2>1
<1> HIDE DEF OffSet
<1>4. CASE free # {}
  <2>1. PICK i : i = Min(free)
    OBVIOUS
  <2>2. i \in free
    BY <1>4, <2>1, LeastHandler
  <2>3. t = [OffSet(i + 1) EXCEPT !.handlers[i] = d]
    BY <1>2, <1>4, <2>1
  <2>4. PICK w, x : OffSet(i + 1) = [hypercalls |-> h, handlers |-> g, vector |-> w,
                                     owner |-> x, failed |-> f]
    BY <1>3
  <2>5. t = [hypercalls |-> h, handlers |-> [g EXCEPT ![i] = d], vector |-> w,
             owner |-> x, failed |-> f]
    BY <2>3, <2>4
  <2>6. s.handlers = g /\ s.hypercalls = h /\ ~s.failed
    BY <1>0
  <2>7. t.handlers = [g EXCEPT ![i] = d] /\ t.hypercalls = h /\ t.failed = f /\ Shape(t)
    BY <2>5, ShapeFields
  <2>8. s.handlers[i] = NONE /\ t.handlers = [s.handlers EXCEPT ![i] = d]
    BY <2>2, <2>6, <2>7
  <2>9. i \in 0..(MAX_NUM_INTERRUPTS - 1) /\ ~t.failed /\ t.hypercalls = s.hypercalls
    <3>1. ~t.failed
      BY <1>s, <1>0, <2>7
    <3>2. QED
      BY <2>2, <2>6, <2>7, <3>1
  <2> HIDE DEF free
  <2>10. QED
    BY <2>7, <2>8, <2>9
<1>5. CASE free = {} /\ call.checked
  <2>1. t = [hypercalls |-> h, handlers |-> g, vector |-> v, owner |-> o, failed |-> y]
    BY <1>0, <1>y, <1>2, <1>5
  <2>2. Shape(t) /\ t.handlers = s.handlers /\ t.hypercalls = s.hypercalls /\ t.failed = y
    BY <1>0, <2>1, ShapeFields
  <2>3. t.failed
    BY <1>y, <2>2
  <2>4. QED
    BY <1>5, <2>2, <2>3
<1>6. CASE free = {} /\ ~call.checked
  <2>1. t = OffSet(0)
    BY <1>2, <1>6
  <2>2. PICK w, x : OffSet(0) = [hypercalls |-> h, handlers |-> g, vector |-> w,
                                 owner |-> x, failed |-> f]
    BY <1>3
  <2>3. Shape(t) /\ t.handlers = s.handlers /\ t.hypercalls = s.hypercalls /\ t.failed = s.failed
    BY <1>0, <2>1, <2>2, ShapeFields
  <2>4. QED
    BY <2>3
<1>7. QED
  BY <1>4, <1>5, <1>6

LEMMA RegisterT1Keeps ==
  ASSUME NEW s, Shape(s), ~s.failed, NEW d, NEW call,
         NEW t, t = RegisterInterruptT1(s, d, call)
  PROVE  /\ Shape(t) /\ t.hypercalls = s.hypercalls
         /\ t.failed => call.checked
<1>0. PICK h, g, v, o, f :
        s = [hypercalls |-> h, handlers |-> g, vector |-> v, owner |-> o, failed |-> f]
  BY Zenon DEF Shape
<1>s. ~s.failed
  OBVIOUS
<1>y. PICK y : y = TRUE
  OBVIOUS
<1> DEFINE n == Max(call.lines)
           Taken == Overlaid(s.vector, {n}, n)
           Owned == Overlaid(s.owner, {n}, d)
           Claimed == [s EXCEPT !.vector = Taken, !.owner = Owned]
<1>2. PICK w, x : Claimed = [hypercalls |-> h, handlers |-> g, vector |-> w,
                             owner |-> x, failed |-> f]
  <2> HIDE DEF Taken, Owned
  <2>a. PICK w, x : w = Taken /\ x = Owned
    OBVIOUS
  <2>b. PICK u : u = [s EXCEPT !.vector = w]
    OBVIOUS
  <2>c. Claimed = [u EXCEPT !.owner = x]
    BY <2>a, <2>b
  <2>d. u = [hypercalls |-> h, handlers |-> g, vector |-> w, owner |-> o, failed |-> f]
    BY <1>0, <2>b
  <2>1. Claimed = [hypercalls |-> h, handlers |-> g, vector |-> w, owner |-> x, failed |-> f]
    BY <2>c, <2>d
  <2> HIDE DEF Claimed
  <2>2. QED
    BY <2>1
<1>3. \/ t = [Claimed EXCEPT !.handlers[n] = d]
      \/ call.checked /\ t = [s EXCEPT !.failed = TRUE]
      \/ t = Claimed
  BY DEF RegisterInterruptT1
<1> HIDE DEF Claimed, n
<1>4. CASE t = [Claimed EXCEPT !.handlers[n] = d]
  <2>1. t = [hypercalls |-> h, handlers |-> [g EXCEPT ![n] = d], vector |-> w,
             owner |-> x, failed |-> f]
    BY <1>2, <1>4
  <2>2. QED
    BY <1>0, <2>1, ShapeFields
<1>5. CASE call.checked /\ t = [s EXCEPT !.failed = TRUE]
  <2>1. t = [hypercalls |-> h, handlers |-> g, vector |-> v, owner |-> o, failed |-> y]
    BY <1>0, <1>y, <1>5
  <2>2. QED
    BY <1>0, <1>5, <2>1, ShapeFields
<1>6. CASE t = Claimed
  BY <1>0, <1>2, <1>6, ShapeFields
<1>7. QED
  BY <1>3, <1>4, <1>5, <1>6

(* The first k steps of q register code c.                                 *)
Offers(q, k, c) == \E j \in 1..k : q[j].kind = "hypercall" /\ q[j].code = c

(* Nothing stops driver d, which has the steps q.                          *)
Ready(q, d) ==
  /\ Orderly(q, d, build.port)
  /\ hypercall_table \in [0..(HCALL_TABLE_SIZE - 1) -> Drivers \cup {NONE}]
  /\ build.port = "pic32mz" =>
       interrupt_handlers \in [0..(MAX_NUM_INTERRUPTS - 1) -> Registering \cup {"timer", NONE}]
  /\ \A j \in 1..Len(q) : q[j].kind = "hypercall" => hypercall_table[q[j].code] = NONE
  /\ d = "uart_driver" /\ build.port = "pic32mz" =>
       \E i \in 0..(MAX_NUM_INTERRUPTS - 1) : interrupt_handlers[i] = NONE

(* Driver d has made the first k steps of q and is in state t.             *)
Table(t, k, q, d) ==
  t.hypercalls = [c \in 0..(HCALL_TABLE_SIZE - 1) |->
                    IF Offers(q, k, c) THEN d ELSE hypercall_table[c]]

Handlers(t, k, q, d) ==
  build.port = "pic32mz" =>
    \/ t.handlers = interrupt_handlers
    \/ /\ \E j \in 1..k : q[j].kind = "interrupt"
       /\ \E i \in 0..(MAX_NUM_INTERRUPTS - 1) :
            interrupt_handlers[i] = NONE /\ t.handlers = [interrupt_handlers EXCEPT ![i] = d]

Fine(t, k, q, d) ==
  /\ Shape(t)
  /\ t.failed => d = "t1-baikal-UART-test"
  /\ Table(t, k, q, d)
  /\ Handlers(t, k, q, d)

LEMMA OneMoreStep ==
  ASSUME NEW q, NEW d, Orderly(q, d, build.port), NEW k \in 1..Len(q)
  PROVE  /\ k - 1 \in 0..Len(q) /\ Len(q) \in Nat
         /\ \A c : Offers(q, k, c)
              <=> (Offers(q, k - 1, c) \/ (q[k].kind = "hypercall" /\ q[k].code = c))
         /\ (\E j \in 1..(k - 1) : q[j].kind = "interrupt") => q[k].kind # "interrupt"
         /\ q[k].kind # "clear" \/ build.port # "pic32mz"
         /\ q[k].kind \in {"hypercall", "interrupt", "clear"}
<1>1. Len(q) \in 0..5
  BY DEF Orderly
<1>2. k - 1 \in 0..Len(q) /\ Len(q) \in Nat
  BY <1>1
<1>3. ASSUME NEW c
      PROVE  Offers(q, k, c)
               <=> (Offers(q, k - 1, c) \/ (q[k].kind = "hypercall" /\ q[k].code = c))
  <2>1. 1..k = 1..(k - 1) \cup {k}
    BY <1>1
  <2>2. \A j : j \in 1..k <=> (j \in 1..(k - 1) \/ j = k)
    BY <2>1
  <2>3. QED
    BY Zenon, <2>2 DEF Offers
<1>4. (\E j \in 1..(k - 1) : q[j].kind = "interrupt") => q[k].kind # "interrupt"
  <2>1. SUFFICES ASSUME NEW j \in 1..(k - 1), q[j].kind = "interrupt", q[k].kind = "interrupt"
                 PROVE  FALSE
    OBVIOUS
  <2>2. j \in 1..Len(q) /\ j # k
    BY <1>1
  <2>3. QED
    BY <2>1, <2>2 DEF Orderly
<1>5. q[k].kind # "clear" \/ build.port # "pic32mz"
  BY DEF Orderly
<1>6. q[k].kind \in {"hypercall", "interrupt", "clear"}
  BY DEF Orderly
<1>7. QED
  BY <1>2, <1>3, <1>4, <1>5, <1>6

LEMMA TableStays ==
  ASSUME NEW q, NEW d, Orderly(q, d, build.port), NEW k \in 1..Len(q),
         q[k].kind # "hypercall",
         NEW s, Table(s, k - 1, q, d), NEW t, t.hypercalls = s.hypercalls
  PROVE  Table(t, k, q, d)
<1> DEFINE D == 0..(HCALL_TABLE_SIZE - 1)
<1>1. \A c : Offers(q, k, c) <=> Offers(q, k - 1, c)
  BY OneMoreStep
<1> HIDE DEF D
<1>2. t.hypercalls = [c \in D |-> IF Offers(q, k - 1, c) THEN d ELSE hypercall_table[c]]
  BY DEF Table, D
<1>3. t.hypercalls = [c \in D |-> IF Offers(q, k, c) THEN d ELSE hypercall_table[c]]
  BY <1>1, <1>2
<1>4. QED
  BY Zenon, <1>3 DEF Table, D

LEMMA StepIsFine ==
  ASSUME NEW q, NEW d, Ready(q, d), NEW k \in 1..Len(q),
         NEW s, Fine(s, k - 1, q, d), NEW t, t = Perform(s, d, q[k])
  PROVE  Fine(t, k, q, d)
<1>0. Orderly(q, d, build.port)
  BY DEF Ready
<1>s. Shape(s) /\ Table(s, k - 1, q, d)
  BY DEF Fine
<1>1. CASE s.failed
  <2>1. t = s
    BY <1>1 DEF Perform
  <2>2. d = "t1-baikal-UART-test"
    BY <1>1 DEF Fine
  <2>3. q[k].kind # "hypercall"
    BY <1>0, <2>2 DEF Orderly
  <2>4. Table(t, k, q, d)
    BY <1>0, <1>s, <2>1, <2>3, TableStays
  <2>5. Handlers(t, k, q, d)
    <3>1. 1..(k - 1) \subseteq 1..k
      BY <1>0, OneMoreStep
    <3>2. QED
      BY <2>1, <3>1 DEF Fine, Handlers
  <2>6. QED
    BY <2>1, <2>2, <2>4, <2>5 DEF Fine
<1>2. CASE ~s.failed /\ q[k].kind = "hypercall"
  <2>1. t = RegisterHypercall(s, d, q[k].code)
    BY <1>2 DEF Perform
  <2>2. q[k].code \in 0..(HCALL_TABLE_SIZE - 1) /\ hypercall_table[q[k].code] = NONE
    BY <1>0, <1>2 DEF Ready, Orderly
  <2>3. ~Offers(q, k - 1, q[k].code)
    <3>1. SUFFICES ASSUME NEW j \in 1..(k - 1), q[j].kind = "hypercall", q[j].code = q[k].code
                   PROVE  FALSE
      BY DEF Offers
    <3>2. j \in 1..Len(q) /\ j # k
      BY <1>0, OneMoreStep
    <3>3. QED
      BY <1>0, <1>2, <3>1, <3>2 DEF Orderly
  <2>4. s.hypercalls[q[k].code] = NONE
    BY <2>2, <2>3 DEF Fine, Table
  <2> PICK c : c = q[k].code
    OBVIOUS
  <2>c. c = q[k].code
    OBVIOUS
  <2>n. ~(c >= HCALL_TABLE_SIZE \/ s.hypercalls[c] # NONE)
    <3>1. c \in 0..29 /\ s.hypercalls[c] = NONE
      BY <2>2, <2>4, <2>c DEF HCALL_TABLE_SIZE
    <3>2. ~(c >= 30)
      <4>1. \A n \in 0..29 : ~(n >= 30)
        OBVIOUS
      <4>2. QED
        BY Zenon, <3>1, <4>1
    <3>3. QED
      BY Zenon, <3>1, <3>2 DEF HCALL_TABLE_SIZE
  <2>5. t = [s EXCEPT !.hypercalls[c] = d]
    BY Zenon, <2>1, <2>c, <2>n DEF RegisterHypercall
  <2>6. PICK h, g, v, o, f :
          s = [hypercalls |-> h, handlers |-> g, vector |-> v, owner |-> o, failed |-> f]
    BY Zenon DEF Fine, Shape
  <2>7. t = [hypercalls |-> [h EXCEPT ![c] = d], handlers |-> g, vector |-> v,
             owner |-> o, failed |-> f]
    BY <2>5, <2>6
  <2>8. /\ Shape(t) /\ t.hypercalls = [s.hypercalls EXCEPT ![c] = d]
        /\ t.handlers = s.handlers /\ t.failed = s.failed
    <3>1. PICK n : n = [h EXCEPT ![c] = d]
      OBVIOUS
    <3>2. Shape(t) /\ t.hypercalls = n /\ t.handlers = g /\ t.failed = f
      BY <2>7, <3>1, ShapeFields
    <3>3. s.hypercalls = h /\ s.handlers = g /\ s.failed = f
      BY <2>6
    <3>4. QED
      BY <3>1, <3>2, <3>3
  <2>9. Table(t, k, q, d)
    <3>1. ASSUME NEW e \in 0..(HCALL_TABLE_SIZE - 1)
          PROVE  t.hypercalls[e] = IF Offers(q, k, e) THEN d ELSE hypercall_table[e]
      <4>1. s.hypercalls[e] = IF Offers(q, k - 1, e) THEN d ELSE hypercall_table[e]
        BY <1>s DEF Table
      <4>2. e \in DOMAIN s.hypercalls
        BY <1>s DEF Table
      <4>3. t.hypercalls[e] = IF e = c THEN d ELSE s.hypercalls[e]
        BY <2>8, <4>2
      <4>4. Offers(q, k, e) <=> (Offers(q, k - 1, e) \/ e = c)
        BY <1>0, <1>2, <2>c, OneMoreStep
      <4>5. QED
        BY <4>1, <4>3, <4>4
    <3>2. t.hypercalls = [e \in 0..(HCALL_TABLE_SIZE - 1) |-> t.hypercalls[e]]
      BY <1>s, <2>8 DEF Table
    <3> PICK T : T = t.hypercalls
      OBVIOUS
    <3>3. QED
      BY <3>1, <3>2 DEF Table
  <2>10. Handlers(t, k, q, d)
    <3>1. 1..(k - 1) \subseteq 1..k
      BY <1>0, OneMoreStep
    <3>2. QED
      BY <2>8, <3>1 DEF Fine, Handlers
  <2>11. QED
    BY <1>2, <2>8, <2>9, <2>10 DEF Fine
<1>3. CASE ~s.failed /\ q[k].kind = "interrupt" /\ build.port = "pic32mz"
  <2>1. t = RegisterInterrupt(s, d, q[k])
    BY <1>3 DEF Perform
  <2>2. s.handlers = interrupt_handlers
    BY <1>0, <1>3, OneMoreStep DEF Fine, Handlers
  <2>3. s.handlers \in [0..(MAX_NUM_INTERRUPTS - 1) -> Registering \cup {"timer", NONE}]
    BY <1>3, <2>2 DEF Ready
  <2>4. /\ Shape(t) /\ t.hypercalls = s.hypercalls
        /\ t.failed => /\ q[k].checked
                       /\ \A i \in 0..(MAX_NUM_INTERRUPTS - 1) : s.handlers[i] # NONE
        /\ \/ t.handlers = s.handlers
           \/ \E i \in 0..(MAX_NUM_INTERRUPTS - 1) :
                s.handlers[i] = NONE /\ t.handlers = [s.handlers EXCEPT ![i] = d]
    <3>1. PICK H : s.handlers \in [0..(MAX_NUM_INTERRUPTS - 1) -> H]
      BY <2>3
    <3>2. PICK call : call = q[k]
      OBVIOUS
    <3>3. t = RegisterInterrupt(s, d, call)
      BY Zenon, <2>1, <3>2
    <3>4. Registered(s, d, call, t)
      BY <1>3, <1>s, <3>1, <3>3, RegisterKeeps
    <3>5. QED
      BY Zenon, <3>2, <3>4 DEF Registered
  <2>5. t.failed => d = "t1-baikal-UART-test"
    BY <1>0, <1>3, <2>2, <2>4 DEF Ready, Orderly
  <2>6. Table(t, k, q, d)
    BY <1>0, <1>s, <1>3, <2>4, TableStays
  <2>7. Handlers(t, k, q, d)
    <3>1. k \in 1..k
      BY <1>0, OneMoreStep
    <3>2. QED
      BY <1>3, <2>2, <2>4, <3>1 DEF Handlers
  <2>8. QED
    BY <2>4, <2>5, <2>6, <2>7 DEF Fine
<1>4. CASE ~s.failed /\ q[k].kind = "interrupt" /\ build.port # "pic32mz"
  <2>1. t = RegisterInterruptT1(s, d, q[k])
    BY <1>4 DEF Perform
  <2>2. Shape(t) /\ t.hypercalls = s.hypercalls /\ (t.failed => q[k].checked)
    BY <1>4, <2>1, <1>s, RegisterT1Keeps
  <2>3. t.failed => d = "t1-baikal-UART-test"
    BY <1>0, <1>4, <2>2 DEF Orderly
  <2>4. Table(t, k, q, d)
    BY <1>0, <1>s, <1>4, <2>2, TableStays
  <2>5. QED
    BY <1>4, <2>2, <2>3, <2>4 DEF Fine, Handlers
<1>5. CASE ~s.failed /\ q[k].kind = "clear"
  <2>1. t = ClearHandlers(s)
    BY <1>5 DEF Perform
  <2>2. PICK h, g, v, o, f :
          s = [hypercalls |-> h, handlers |-> g, vector |-> v, owner |-> o, failed |-> f]
    BY Zenon DEF Fine, Shape
  <2>3. PICK n : t = [s EXCEPT !.handlers = n]
    BY <2>1 DEF ClearHandlers
  <2>4. t = [hypercalls |-> h, handlers |-> n, vector |-> v, owner |-> o, failed |-> f]
    BY <2>2, <2>3
  <2>5. Shape(t) /\ t.hypercalls = s.hypercalls /\ t.failed = s.failed
    BY <2>2, <2>4, ShapeFields
  <2>6. Table(t, k, q, d)
    BY <1>0, <1>s, <1>5, <2>5, TableStays
  <2>7. Handlers(t, k, q, d)
    BY <1>0, <1>5, OneMoreStep DEF Handlers
  <2>8. QED
    BY <1>5, <2>5, <2>6, <2>7 DEF Fine
<1>6. QED
  BY <1>0, <1>1, <1>2, <1>3, <1>4, <1>5, OneMoreStep

(* Induction up to n, on a set.                                            *)
LEMMA UpTo ==
  ASSUME NEW n \in Nat, NEW T, 0 \in T, \A k \in 1..n : k - 1 \in T => k \in T
  PROVE  \A k \in 0..n : k \in T
<1> SUFFICES ASSUME NEW m \in 0..n, m \notin T PROVE FALSE
  OBVIOUS
<1> DEFINE S == {k \in 0..n : k \notin T}
<1>1. PICK x \in S : \A y \in S : x <= y
  <2>1. S \in SUBSET Nat /\ S # {}
    OBVIOUS
  <2> HIDE DEF S
  <2>2. QED
    BY <2>1, LeastNatural
<1>2. x \in 1..n /\ x - 1 \in 0..n /\ x - 1 \notin S
  BY <1>1
<1>3. QED
  BY <1>1, <1>2


(* The state that an initialisation starts from.                           *)
Before == [hypercalls |-> hypercall_table, handlers |-> interrupt_handlers,
           vector |-> vector, owner |-> owner, failed |-> FALSE]

(* An initialisation goes through a row of states.                         *)
LEMMA InitialiseSteps ==
  ASSUME NEW d, Initialise(d), NEW q, q = InitCall(d, build), Len(q) \in Nat
  PROVE  \E f : /\ f = [k \in 0..Len(q) |->
                          IF k = 0 THEN Before ELSE Perform(f[k - 1], d, q[k])]
                /\ hypercall_table' = f[Len(q)].hypercalls
                /\ interrupt_handlers' = f[Len(q)].handlers
                /\ vector' = f[Len(q)].vector /\ owner' = f[Len(q)].owner
                /\ failed' = IF f[Len(q)].failed THEN failed \cup {d} ELSE failed
<1> DEFINE Steps(f, n) ==
             f = [k \in 0..n |-> IF k = 0 THEN Before ELSE Perform(f[k - 1], d, q[k])]
           T == {n \in Nat : \E f : Steps(f, n)}
<1>1. 0 \in T
  <2> DEFINE g == [k \in 0..0 |-> Before]
  <2>1. Steps(g, 0)
    OBVIOUS
  <2>2. QED
    BY <2>1
<1>2. ASSUME NEW n \in 1..Len(q), n - 1 \in T PROVE n \in T
  <2>1. PICK f : Steps(f, n - 1)
    BY <1>2
  <2> DEFINE g == [k \in 0..n |-> IF k < n THEN f[k] ELSE Perform(f[n - 1], d, q[n])]
  <2>2. ASSUME NEW k \in 0..n
        PROVE  g[k] = IF k = 0 THEN Before ELSE Perform(g[k - 1], d, q[k])
    <3>1. CASE k = n
      <4>1. g[n - 1] = f[n - 1] /\ g[n] = Perform(f[n - 1], d, q[n])
        OBVIOUS
      <4>2. QED
        BY <3>1, <4>1
    <3>2. CASE k < n
      <4>1. k \in 0..(n - 1)
        BY <3>2
      <4>2. f[k] = IF k = 0 THEN Before ELSE Perform(f[k - 1], d, q[k])
        BY <2>1, <4>1
      <4>3. g[k] = f[k] /\ (k # 0 => g[k - 1] = f[k - 1])
        BY <3>2
      <4>4. QED
        BY <4>2, <4>3
    <3>3. QED
      BY <3>1, <3>2
  <2>3. Steps(g, n)
    BY <2>2
  <2> HIDE DEF g
  <2>4. QED
    BY <2>3
<1>3. Len(q) \in T
  <2> HIDE DEF T
  <2>1. \A k \in 0..Len(q) : k \in T
    BY <1>1, <1>2, UpTo
  <2>2. QED
    BY <2>1
<1> DEFINE f == CHOOSE f : Steps(f, Len(q))
<1>4. Steps(f, Len(q))
  BY <1>3
<1>5. /\ hypercall_table' = f[Len(q)].hypercalls
      /\ interrupt_handlers' = f[Len(q)].handlers
      /\ vector' = f[Len(q)].vector /\ owner' = f[Len(q)].owner
      /\ failed' = IF f[Len(q)].failed THEN failed \cup {d} ELSE failed
  BY Zenon DEF Initialise, Before
<1> HIDE DEF f
<1>6. QED
  BY <1>4, <1>5

(* A driver that nothing stops gets through all its steps.                 *)
LEMMA ReadyStarts ==
  ASSUME NEW d, Initialise(d), NEW q, q = InitCall(d, build), Ready(q, d)
  PROVE  \E t : /\ Fine(t, Len(q), q, d)
                /\ hypercall_table' = t.hypercalls
                /\ interrupt_handlers' = t.handlers
                /\ failed' = IF t.failed THEN failed \cup {d} ELSE failed
<1>1. Len(q) \in Nat
  BY DEF Ready, Orderly
<1>2. PICK f : /\ f = [k \in 0..Len(q) |->
                         IF k = 0 THEN Before ELSE Perform(f[k - 1], d, q[k])]
               /\ hypercall_table' = f[Len(q)].hypercalls
               /\ interrupt_handlers' = f[Len(q)].handlers
               /\ failed' = IF f[Len(q)].failed THEN failed \cup {d} ELSE failed
  BY <1>1, InitialiseSteps
<1> DEFINE T == {k \in 0..Len(q) : Fine(f[k], k, q, d)}
<1>3. 0 \in T
  <2>1. f[0] = Before
    BY <1>1, <1>2
  <2>2. Shape(Before) /\ Before.hypercalls = hypercall_table
        /\ Before.handlers = interrupt_handlers /\ Before.failed = FALSE
    <3>1. PICK y : y = FALSE
      OBVIOUS
    <3>2. Before = [hypercalls |-> hypercall_table, handlers |-> interrupt_handlers,
                    vector |-> vector, owner |-> owner, failed |-> y]
      BY <3>1 DEF Before
    <3>3. QED
      BY <3>1, <3>2, ShapeFields
  <2>3. \A c : ~Offers(q, 0, c)
    BY DEF Offers
  <2>4. hypercall_table = [c \in 0..(HCALL_TABLE_SIZE - 1) |-> hypercall_table[c]]
    BY DEF Ready
  <2>5. Table(Before, 0, q, d)
    BY <2>2, <2>3, <2>4 DEF Table
  <2>6. Handlers(Before, 0, q, d)
    BY <2>2 DEF Handlers
  <2>7. Fine(f[0], 0, q, d)
    BY <2>1, <2>2, <2>5, <2>6 DEF Fine
  <2>8. QED
    BY <1>1, <2>7
<1>4. ASSUME NEW k \in 1..Len(q), k - 1 \in T PROVE k \in T
  <2>1. k \in 0..Len(q)
    BY <1>1
  <2>2. Fine(f[k - 1], k - 1, q, d)
    BY <1>4
  <2>3. f[k] = Perform(f[k - 1], d, q[k])
    BY <1>1, <1>2, <2>1
  <2>4. Fine(f[k], k, q, d)
    BY <2>2, <2>3, StepIsFine
  <2>5. QED
    BY <2>1, <2>4
<1>5. Fine(f[Len(q)], Len(q), q, d)
  <2> HIDE DEF T
  <2>1. \A k \in 0..Len(q) : k \in T
    BY <1>1, <1>3, <1>4, UpTo
  <2>2. Len(q) \in T
    BY <1>1, <2>1
  <2>3. QED
    BY <2>2 DEF T
<1>6. QED
  BY <1>2, <1>5

(* A driver whose first hypercall is taken gives up at once.               *)
LEMMA TakenGivesUp ==
  ASSUME NEW d, Initialise(d), NEW q, q = InitCall(d, build), Len(q) \in Nat \ {0},
         q[1].kind = "hypercall", hypercall_table[q[1].code] # NONE
  PROVE  /\ hypercall_table' = hypercall_table /\ interrupt_handlers' = interrupt_handlers
         /\ failed' = failed \cup {d}
<1>1. PICK f : /\ f = [k \in 0..Len(q) |->
                         IF k = 0 THEN Before ELSE Perform(f[k - 1], d, q[k])]
               /\ hypercall_table' = f[Len(q)].hypercalls
               /\ interrupt_handlers' = f[Len(q)].handlers
               /\ failed' = IF f[Len(q)].failed THEN failed \cup {d} ELSE failed
  BY InitialiseSteps
<1> DEFINE Stuck(t) == /\ t.hypercalls = hypercall_table /\ t.handlers = interrupt_handlers
                       /\ t.failed
           T == {k \in 0..Len(q) : k # 0 => Stuck(f[k])}
<1>2. 0 \in T
  OBVIOUS
<1>3. ASSUME NEW k \in 1..Len(q), k - 1 \in T PROVE k \in T
  <2>1. f[k] = Perform(f[k - 1], d, q[k]) /\ f[0] = Before /\ k \in 0..Len(q)
    BY <1>1
  <2>2. CASE k = 1
    <3>1. f[1] = Perform(Before, d, q[1])
      BY <2>1, <2>2
    <3>2. /\ Before.failed = FALSE /\ Before.hypercalls = hypercall_table
          /\ Before.handlers = interrupt_handlers
      BY DEF Before
    <3>3. f[1] = [Before EXCEPT !.failed = TRUE]
      BY <3>1, <3>2 DEF Perform, RegisterHypercall
    <3>4. f[1].hypercalls = hypercall_table /\ f[1].handlers = interrupt_handlers /\ f[1].failed
      BY <3>3 DEF Before
    <3>5. QED
      BY <2>1, <2>2, <3>4
  <2>3. CASE k # 1
    <3>1. Stuck(f[k - 1])
      BY <1>3, <2>3
    <3>2. f[k] = f[k - 1]
      BY <2>1, <3>1 DEF Perform
    <3>3. QED
      BY <2>1, <3>1, <3>2
  <2>4. QED
    BY <2>2, <2>3
<1>4. Stuck(f[Len(q)])
  <2> HIDE DEF T
  <2>1. \A k \in 0..Len(q) : k \in T
    BY <1>2, <1>3, UpTo
  <2>2. Len(q) \in T
    BY <2>1
  <2>3. QED
    BY <2>2 DEF T
<1>5. QED
  BY <1>1, <1>4

\* The drivers that had their turn.
Done == ToSet(build.order) \ ToSet(starting)

\* A code belongs to the driver that offers it and did not give up.
TableIsKept ==
  \A c \in 0..(HCALL_TABLE_SIZE - 1) :
    {d \in Done \ failed : c \in Offered(d)} = {hypercall_table[c]} \ {NONE}

\* No driver has two handlers.
HandlersAreKept ==
  /\ interrupt_handlers \in [0..(MAX_NUM_INTERRUPTS - 1) -> (Registering \cap Done) \cup {NONE}]
  /\ \A i, j \in 0..(MAX_NUM_INTERRUPTS - 1) :
       interrupt_handlers[i] = interrupt_handlers[j] => i = j \/ interrupt_handlers[i] = NONE

DispatchInv ==
  /\ build \in Builds
  /\ starting \in Seq(Drivers) /\ IsInjective(starting)
  /\ ToSet(starting) \subseteq ToSet(build.order)
  /\ running => starting = <<>>
  /\ hypercall_table \in [0..(HCALL_TABLE_SIZE - 1) -> Drivers \cup {NONE}]
  /\ failed \subseteq Done
  /\ TableIsKept
  /\ build.port = "pic32mz" /\ ~running => HandlersAreKept

LEMMA OfferedCodes ==
  ASSUME build \in Builds, NEW d \in Drivers \cup {"timer"}
  PROVE  /\ \A c : c \in Offered(d)
                     <=> Offers(InitCall(d, build), Len(InitCall(d, build)), c)
         /\ \A c \in Offered(d) : c \in 0..(HCALL_TABLE_SIZE - 1) /\ Home(c) = Device(d)
<1>1. PICK q : q = InitCall(d, build)
  OBVIOUS
<1>2. Orderly(q, d, build.port)
  BY <1>1, CallsAreOrderly
<1>3. DOMAIN q = 1..Len(q)
  BY <1>2 DEF Orderly
<1>4. Offered(d) = {q[i].code : i \in {j \in DOMAIN q : q[j].kind = "hypercall"}}
  BY <1>1 DEF Offered
<1>5. \A c : c \in Offered(d) <=> Offers(q, Len(q), c)
  BY <1>3, <1>4 DEF Offers
<1>6. \A c \in Offered(d) : c \in 0..(HCALL_TABLE_SIZE - 1) /\ Home(c) = Device(d)
  BY <1>2, <1>3, <1>4 DEF Orderly
<1>7. QED
  BY <1>1, <1>5, <1>6

(* The first driver that starts is the one that its turn takes out.        *)
LEMMA Turn ==
  ASSUME DispatchInv, starting # <<>>, starting' = Tail(starting), build' = build
  PROVE  /\ Head(starting) \in Drivers /\ Head(starting) \notin Done
         /\ Done' = Done \cup {Head(starting)}
         /\ starting' \in Seq(Drivers) /\ IsInjective(starting')
         /\ ToSet(starting') \subseteq ToSet(build.order)
<1>1. PICK s \in Seq(Drivers) : s = starting
  BY DEF DispatchInv
<1>2. PICK t \in Seq(Drivers) : t = Tail(s)
  BY <1>1, HeadTailProperties
<1>3. /\ s[1] \in Drivers /\ Len(s) \in Nat \ {0} /\ Len(t) = Len(s) - 1
      /\ DOMAIN s = 1..Len(s) /\ DOMAIN t = 1..Len(t)
      /\ \A i \in 1..Len(t) : t[i] = s[i + 1]
  BY <1>1, <1>2, HeadTailProperties
<1>4. Head(starting) = s[1]
  BY <1>1
<1>5. \A i, j \in 1..Len(s) : s[i] = s[j] => i = j
  BY <1>1, <1>3 DEF DispatchInv, IsInjective
<1>6. IsInjective(t)
  BY <1>3, <1>5 DEF IsInjective
<1>7. ToSet(t) = ToSet(s) \ {s[1]}
  <2>1. ASSUME NEW x PROVE x \in ToSet(t) <=> x \in ToSet(s) /\ x # s[1]
    <3>1. CASE x \in ToSet(t)
      <4>1. PICK i \in 1..Len(t) : x = t[i]
        BY <1>3, <3>1 DEF ToSet
      <4>2. i + 1 \in 1..Len(s) /\ x = s[i + 1] /\ i + 1 # 1 /\ 1 \in 1..Len(s)
        BY <1>3, <4>1
      <4>3. QED
        BY <1>3, <1>5, <3>1, <4>2 DEF ToSet
    <3>2. CASE x \in ToSet(s) /\ x # s[1]
      <4>1. PICK i \in 1..Len(s) : x = s[i]
        BY <1>3, <3>2 DEF ToSet
      <4>2. i - 1 \in 1..Len(t) /\ t[i - 1] = s[i]
        BY <1>3, <3>2, <4>1
      <4>3. QED
        BY <1>3, <3>2, <4>1, <4>2 DEF ToSet
    <3>3. QED
      BY <3>1, <3>2
  <2>2. QED
    BY <2>1
<1>8. s[1] \in ToSet(s)
  <2>1. 1 \in DOMAIN s
    BY <1>3
  <2>2. QED
    BY <2>1 DEF ToSet
<1>9. ToSet(s) \subseteq ToSet(build.order)
  BY <1>1 DEF DispatchInv
<1>10. Done = ToSet(build.order) \ ToSet(s) /\ Done' = ToSet(build.order) \ ToSet(t)
  BY <1>1, <1>2 DEF Done
<1>11. starting' = t
  BY <1>1, <1>2
<1>12. QED
  BY <1>2, <1>3, <1>4, <1>6, <1>7, <1>8, <1>9, <1>10, <1>11

(* There are more handlers than drivers that register one.                 *)
LEMMA UartHasRoom ==
  ASSUME DispatchInv, build.port = "pic32mz", ~running, "uart_driver" \notin Done
  PROVE  \E i \in 0..(MAX_NUM_INTERRUPTS - 1) : interrupt_handlers[i] = NONE
<1> DEFINE Rank(d) ==
             CASE d = "pic32mz-ethernet" -> 1
               [] d = "pic32mz-ethernet-shared" -> 2
               [] d = "pic32mz-interrupt-redirect" -> 3
               [] d = "pic32mz-usb" -> 4
               [] d = "pic32mz-timer-test" -> 5
               [] d = "pic32mz-interrupt-latency-test" -> 6
               [] d = "reset" -> 7
               [] d = "t1-baikal-UART-test" -> 8
           f == [i \in 0..9 |-> Rank(interrupt_handlers[i])]
<1>1. SUFFICES ASSUME \A i \in 0..9 : interrupt_handlers[i] # NONE PROVE FALSE
  BY DEF MAX_NUM_INTERRUPTS
<1>2. \A i \in 0..9 : interrupt_handlers[i] \in Registering \ {"uart_driver"}
  BY <1>1 DEF DispatchInv, HandlersAreKept, MAX_NUM_INTERRUPTS
<1>3. \A d \in Registering \ {"uart_driver"} : Rank(d) \in 1..8
  BY DEF Registering
<1>4. \A d, e \in Registering \ {"uart_driver"} : Rank(d) = Rank(e) => d = e
  BY DEF Registering
<1> HIDE DEF Rank
<1>5. f \in [0..9 -> 1..8]
  BY <1>2, <1>3
<1>6. /\ IsFiniteSet(0..9) /\ Cardinality(0..9) = 10
      /\ IsFiniteSet(1..8) /\ Cardinality(1..8) = 8
  <2>0. 0 \in Int /\ 9 \in Int /\ 1 \in Int /\ 8 \in Int
    OBVIOUS
  <2>1. IsFiniteSet(0..9) /\ Cardinality(0..9) = IF 0 > 9 THEN 0 ELSE 9 - 0 + 1
    BY <2>0, FS_Interval
  <2>2. IsFiniteSet(1..8) /\ Cardinality(1..8) = IF 1 > 8 THEN 0 ELSE 8 - 1 + 1
    BY <2>0, FS_Interval
  <2>3. QED
    BY <2>1, <2>2
<1>7. PICK i, j \in 0..9 : i # j /\ f[i] = f[j]
  <2> HIDE DEF f
  <2>1. QED
    BY <1>5, <1>6, FS_PigeonHole
<1>8. interrupt_handlers[i] = interrupt_handlers[j]
  BY <1>2, <1>4, <1>7
<1>9. QED
  BY <1>1, <1>7, <1>8 DEF DispatchInv, HandlersAreKept, MAX_NUM_INTERRUPTS

(* What a driver offers depends on the build only.                         *)
LEMMA OfferedStays ==
  ASSUME build' = build
  PROVE  \A d : Offered(d)' = Offered(d)
BY DEF Offered, InitCall, InterruptInit, EnInit, InterruptRedirectInit, UartDriverInit,
       StartTimerSteps

(* A driver in its turn either takes all codes that it offers, or another  *)
(* driver has them all.                                                    *)
LEMMA TableStep ==
  ASSUME DispatchInv, NEW d \in Drivers, d \notin Done, build' = build,
         Done' = Done \cup {d},
         hypercall_table' = [c \in 0..(HCALL_TABLE_SIZE - 1) |->
                               IF c \in Offered(d) THEN d ELSE hypercall_table[c]],
         \A c \in Offered(d) : hypercall_table[c] = NONE,
         \/ failed' = failed
         \/ failed' = failed \cup {d} /\ Offered(d) = {}
  PROVE  /\ TableIsKept' /\ failed' \subseteq Done'
         /\ hypercall_table' \in [0..(HCALL_TABLE_SIZE - 1) -> Drivers \cup {NONE}]
<1>1. failed' \subseteq Done'
  BY DEF DispatchInv
<1>2. hypercall_table' \in [0..(HCALL_TABLE_SIZE - 1) -> Drivers \cup {NONE}]
  BY DEF DispatchInv
<1>3. ASSUME NEW c \in 0..(HCALL_TABLE_SIZE - 1)
      PROVE  {e \in Done' \ failed' : c \in Offered(e)} = {hypercall_table'[c]} \ {NONE}
  <2>1. {e \in Done \ failed : c \in Offered(e)} = {hypercall_table[c]} \ {NONE}
    BY DEF DispatchInv, TableIsKept
  <2>2. hypercall_table'[c] = IF c \in Offered(d) THEN d ELSE hypercall_table[c]
    OBVIOUS
  <2>3. d # NONE
    BY DispatchAssumption
  <2>4. d \notin failed
    BY DEF DispatchInv
  <2>5. CASE c \in Offered(d)
    BY <2>1, <2>2, <2>3, <2>4, <2>5
  <2>6. CASE c \notin Offered(d)
    BY <2>1, <2>2, <2>4, <2>6
  <2>7. QED
    BY <2>5, <2>6
<1>4. \A c \in 0..(HCALL_TABLE_SIZE - 1) :
        {e \in Done' \ failed' : c \in Offered(e)'} = {hypercall_table'[c]} \ {NONE}
  BY <1>3, OfferedStays
<1>5. TableIsKept'
  BY <1>4 DEF TableIsKept
<1>6. QED
  BY <1>1, <1>2, <1>5

LEMMA TurnIsKept ==
  ASSUME DispatchInv, InitialiseDriver
  PROVE  DispatchInv'
<1> DEFINE d == Head(starting)
           q == InitCall(d, build)
<1>1. /\ starting # <<>> /\ Initialise(d) /\ starting' = Tail(starting)
      /\ build' = build /\ running' = running /\ ~running
  BY DEF InitialiseDriver, DispatchInv
<1>2. /\ d \in Drivers /\ d \notin Done /\ Done' = Done \cup {d}
      /\ starting' \in Seq(Drivers) /\ IsInjective(starting')
      /\ ToSet(starting') \subseteq ToSet(build'.order)
  BY <1>1, Turn
<1>3. build \in Builds /\ Orderly(q, d, build.port)
  BY <1>2, CallsAreOrderly DEF DispatchInv
<1>4. /\ \A c : c \in Offered(d) <=> Offers(q, Len(q), c)
      /\ \A c \in Offered(d) : c \in 0..(HCALL_TABLE_SIZE - 1) /\ Home(c) = Device(d)
  BY <1>2, <1>3, OfferedCodes
<1> HIDE DEF d, q
<1>q. q = InitCall(d, build)
  BY DEF d, q
<1>5. CASE \A c \in Offered(d) : hypercall_table[c] = NONE
  <2>1. Ready(q, d)
    <3>1. \A j \in 1..Len(q) : q[j].kind = "hypercall" => hypercall_table[q[j].code] = NONE
      <4>1. \A j \in 1..Len(q) : q[j].kind = "hypercall" => q[j].code \in Offered(d)
        BY <1>4 DEF Offers
      <4>2. QED
        BY <1>5, <4>1
    <3>2. build.port = "pic32mz" =>
            interrupt_handlers \in [0..(MAX_NUM_INTERRUPTS - 1) -> Registering \cup {"timer", NONE}]
      BY <1>1 DEF DispatchInv, HandlersAreKept
    <3>3. d = "uart_driver" /\ build.port = "pic32mz" =>
            \E i \in 0..(MAX_NUM_INTERRUPTS - 1) : interrupt_handlers[i] = NONE
      BY <1>1, <1>2, UartHasRoom
    <3>4. QED
      BY <1>3, <3>1, <3>2, <3>3 DEF Ready, DispatchInv
  <2>2. PICK t : /\ Fine(t, Len(q), q, d)
                 /\ hypercall_table' = t.hypercalls
                 /\ interrupt_handlers' = t.handlers
                 /\ failed' = IF t.failed THEN failed \cup {d} ELSE failed
    BY <1>1, <1>q, <2>1, ReadyStarts
  <2>3. hypercall_table' = [c \in 0..(HCALL_TABLE_SIZE - 1) |->
                              IF c \in Offered(d) THEN d ELSE hypercall_table[c]]
    <3>1. t.hypercalls = [c \in 0..(HCALL_TABLE_SIZE - 1) |->
                            IF Offers(q, Len(q), c) THEN d ELSE hypercall_table[c]]
      BY Zenon, <2>2 DEF Fine, Table
    <3>2. QED
      BY <1>4, <2>2, <3>1
  <2>4. \/ failed' = failed
        \/ failed' = failed \cup {d} /\ Offered(d) = {}
    <3>1. CASE t.failed
      <4>1. d = "t1-baikal-UART-test"
        BY <2>2, <3>1 DEF Fine
      <4>2. \A k \in 1..Len(q) : q[k].kind # "hypercall"
        BY <1>3, <4>1 DEF Orderly
      <4>3. Offered(d) = {}
        BY <1>4, <4>2 DEF Offers
      <4>4. QED
        BY <2>2, <3>1, <4>3
    <3>2. CASE ~t.failed
      BY Zenon, <2>2, <3>2
    <3>3. QED
      BY <3>1, <3>2
  <2>5. /\ TableIsKept' /\ failed' \subseteq Done'
        /\ hypercall_table' \in [0..(HCALL_TABLE_SIZE - 1) -> Drivers \cup {NONE}]
    BY <1>1, <1>2, <1>5, <2>3, <2>4, TableStep
  <2>6. ASSUME build.port = "pic32mz" PROVE HandlersAreKept'
    <3>1. HandlersAreKept
      BY <1>1, <2>6 DEF DispatchInv
    <3>2. CASE interrupt_handlers' = interrupt_handlers
      BY <1>2, <3>1, <3>2 DEF HandlersAreKept
    <3>3. CASE interrupt_handlers' # interrupt_handlers
      <4>1. PICK i \in 0..(MAX_NUM_INTERRUPTS - 1) :
              /\ interrupt_handlers[i] = NONE
              /\ interrupt_handlers' = [interrupt_handlers EXCEPT ![i] = d]
        BY <2>2, <2>6, <3>3 DEF Fine, Handlers
      <4>2. d \in Registering
        <5>1. PICK j \in 1..Len(q) : q[j].kind = "interrupt"
          BY <2>2, <2>6, <3>3 DEF Fine, Handlers
        <5>2. d # "timer"
          BY <1>2 DEF Drivers
        <5>3. QED
          BY <1>3, <5>1, <5>2 DEF Orderly
      <4>3. d \in Registering \cap Done'
        BY <1>2, <4>2
      <4>4. interrupt_handlers' \in
              [0..(MAX_NUM_INTERRUPTS - 1) -> (Registering \cap Done') \cup {NONE}]
        BY <1>2, <3>1, <4>1, <4>3 DEF HandlersAreKept
      <4>5. \A k \in 0..(MAX_NUM_INTERRUPTS - 1) : interrupt_handlers[k] # d
        <5>1. d # NONE
          BY <1>2, DispatchAssumption
        <5>2. QED
          BY <1>2, <3>1, <5>1 DEF HandlersAreKept
      <4>6. \A k \in 0..(MAX_NUM_INTERRUPTS - 1) :
              interrupt_handlers'[k] = IF k = i THEN d ELSE interrupt_handlers[k]
        BY <3>1, <4>1 DEF HandlersAreKept
      <4>7. \A k, l \in 0..(MAX_NUM_INTERRUPTS - 1) :
              interrupt_handlers'[k] = interrupt_handlers'[l]
                => k = l \/ interrupt_handlers'[k] = NONE
        BY <3>1, <4>5, <4>6 DEF HandlersAreKept
      <4>8. QED
        BY <4>4, <4>7 DEF HandlersAreKept
    <3>4. QED
      BY <3>2, <3>3
  <2>7. QED
    BY <1>1, <1>2, <2>5, <2>6 DEF DispatchInv
<1>6. CASE \E c \in Offered(d) : hypercall_table[c] # NONE
  <2>1. PICK c \in Offered(d) : hypercall_table[c] # NONE
    BY <1>6
  <2>2. PICK e : e = hypercall_table[c]
    OBVIOUS
  <2>3. c \in 0..(HCALL_TABLE_SIZE - 1) /\ Home(c) = Device(d)
    BY <1>4
  <2>4. e \in Done \ failed /\ c \in Offered(e) /\ e \in Drivers
    BY <2>1, <2>2, <2>3 DEF DispatchInv, TableIsKept
  <2>5. Home(c) = Device(e) /\ e # d
    BY <1>2, <1>3, <2>4, OfferedCodes
  <2>6. d \in {"pic32mz-ethernet", "pic32mz-ethernet-shared"}
        /\ e \in {"pic32mz-ethernet", "pic32mz-ethernet-shared"}
    BY <2>3, <2>5 DEF Device
  <2>7. q = InitCall(e, build)
    BY <1>q, <2>6, Calls
  <2>8. Len(q) \in Nat \ {0} /\ q[1].kind = "hypercall"
    <3>1. Len(q) \in Nat
      BY <1>3 DEF Orderly
    <3>2. Len(q) # 0
      <4>1. Offers(q, Len(q), c)
        BY <1>4
      <4>2. QED
        BY <4>1 DEF Offers
    <3>3. QED
      BY <1>3, <2>6, <3>1, <3>2 DEF Orderly, Device
  <2>9. hypercall_table[q[1].code] # NONE
    <3>1. Offers(q, Len(q), q[1].code)
      BY <2>8 DEF Offers
    <3>2. q[1].code \in Offered(d)
      BY <1>4, <3>1
    <3>3. q[1].code \in 0..(HCALL_TABLE_SIZE - 1)
      BY <1>4, <3>2
    <3>4. q[1].code \in Offered(e)
      BY <1>3, <2>4, <2>7, <3>1, OfferedCodes
    <3>5. QED
      BY <2>4, <3>3, <3>4 DEF DispatchInv, TableIsKept
  <2>10. /\ hypercall_table' = hypercall_table /\ interrupt_handlers' = interrupt_handlers
         /\ failed' = failed \cup {d}
    BY <1>1, <1>q, <2>8, <2>9, TakenGivesUp
  <2>11. Done' \ failed' = Done \ failed
    BY <1>2, <2>10
  <2>12. TableIsKept'
    <3>1. \A x \in 0..(HCALL_TABLE_SIZE - 1) :
            {y \in Done' \ failed' : x \in Offered(y)'} = {hypercall_table'[x]} \ {NONE}
      BY <1>1, <2>10, <2>11, OfferedStays DEF DispatchInv, TableIsKept
    <3>2. QED
      BY <3>1 DEF TableIsKept
  <2>13. build.port = "pic32mz" => HandlersAreKept'
    BY <1>1, <1>2, <2>10 DEF DispatchInv, HandlersAreKept
  <2>14. QED
    BY <1>1, <1>2, <2>10, <2>12, <2>13 DEF DispatchInv
<1>7. QED
  BY <1>5, <1>6

LEMMA TimerIsKept ==
  ASSUME DispatchInv, StartTimer
  PROVE  DispatchInv'
<1>1. /\ starting = <<>> /\ ~running /\ Initialise("timer") /\ running' = TRUE
      /\ build' = build /\ starting' = starting
  BY DEF StartTimer
<1>2. PICK q : q = InitCall("timer", build)
  OBVIOUS
<1>3. Orderly(q, "timer", build.port)
  BY <1>2, CallsAreOrderly
<1>4. \A k \in 1..Len(q) : q[k].kind # "hypercall"
  <2>1. \A c : Home(c) # "timer"
    BY DEF Home
  <2>2. Device("timer") = "timer"
    BY DEF Device
  <2>3. QED
    BY <1>3, <2>1, <2>2 DEF Orderly
<1>5. Ready(q, "timer")
  BY <1>1, <1>3, <1>4 DEF Ready, DispatchInv, HandlersAreKept
<1>6. PICK t : /\ Fine(t, Len(q), q, "timer")
               /\ hypercall_table' = t.hypercalls
               /\ interrupt_handlers' = t.handlers
               /\ failed' = IF t.failed THEN failed \cup {"timer"} ELSE failed
  BY <1>1, <1>2, <1>5, ReadyStarts
<1>7. failed' = failed
  <2>1. ~t.failed
    BY <1>6 DEF Fine
  <2>2. QED
    BY Zenon, <1>6, <2>1
<1>8. hypercall_table' = hypercall_table
  <2>1. \A c : ~Offers(q, Len(q), c)
    BY <1>4 DEF Offers
  <2>2. t.hypercalls = [c \in 0..(HCALL_TABLE_SIZE - 1) |->
                          IF Offers(q, Len(q), c) THEN "timer" ELSE hypercall_table[c]]
    BY Zenon, <1>6 DEF Fine, Table
  <2>3. t.hypercalls = [c \in 0..(HCALL_TABLE_SIZE - 1) |-> hypercall_table[c]]
    BY <2>1, <2>2
  <2>4. QED
    BY <1>6, <2>3 DEF DispatchInv
<1>9. Done' = Done
  BY <1>1 DEF Done
<1>10. TableIsKept'
  <2>1. \A x \in 0..(HCALL_TABLE_SIZE - 1) :
          {y \in Done' \ failed' : x \in Offered(y)'} = {hypercall_table'[x]} \ {NONE}
    BY <1>1, <1>7, <1>8, <1>9, OfferedStays DEF DispatchInv, TableIsKept
  <2>2. QED
    BY <2>1 DEF TableIsKept
<1>11. QED
  BY <1>1, <1>7, <1>8, <1>9, <1>10 DEF DispatchInv

LEMMA DispatchInvariant == DispatchSpec => []DispatchInv
<1>1. DispatchInit => DispatchInv
  <2> SUFFICES ASSUME DispatchInit PROVE DispatchInv
    OBVIOUS
  <2>1. /\ build \in Builds /\ starting = build.order /\ running = FALSE /\ failed = {}
        /\ hypercall_table = [c \in 0..(HCALL_TABLE_SIZE - 1) |-> NONE]
    BY DEF DispatchInit
  <2>2. starting \in Seq(Drivers) /\ IsInjective(starting)
    BY <2>1, DispatchAssumption
  <2>3. Done = {}
    BY <2>1 DEF Done
  <2>4. TableIsKept
    BY <2>1, <2>3 DEF TableIsKept
  <2>5. build.port = "pic32mz" => HandlersAreKept
    BY DEF DispatchInit, HandlersAreKept
  <2>6. QED
    BY <2>1, <2>2, <2>3, <2>4, <2>5 DEF DispatchInv
<1>2. DispatchInv /\ [DispatchNext]_dispatchVars => DispatchInv'
  <2> SUFFICES ASSUME DispatchInv, [DispatchNext]_dispatchVars PROVE DispatchInv'
    OBVIOUS
  <2>1. CASE InitialiseDriver
    BY <2>1, TurnIsKept
  <2>2. CASE StartTimer
    BY <2>2, TimerIsKept
  <2>3. CASE \/ \E vm \in DOMAIN Mapped, a \in IoAddress : WriteAddress(vm, a)
             \/ UNCHANGED dispatchVars
    <3>1. UNCHANGED <<build, starting, running, failed, hypercall_table, interrupt_handlers>>
      BY <2>3 DEF WriteAddress, dispatchVars, tables
    <3>2. Done' = Done
      BY <3>1 DEF Done
    <3>3. TableIsKept'
      <4>1. \A x \in 0..(HCALL_TABLE_SIZE - 1) :
              {y \in Done' \ failed' : x \in Offered(y)'} = {hypercall_table'[x]} \ {NONE}
        BY <3>1, <3>2, OfferedStays DEF DispatchInv, TableIsKept
      <4>2. QED
        BY <4>1 DEF TableIsKept
    <3>4. build.port = "pic32mz" /\ ~running => HandlersAreKept'
      BY <3>1, <3>2 DEF DispatchInv, HandlersAreKept
    <3>5. QED
      BY <3>1, <3>2, <3>3, <3>4 DEF DispatchInv
  <2>4. QED
    BY <2>1, <2>2, <2>3 DEF DispatchNext
<1>3. QED
  BY <1>1, <1>2, PTL DEF DispatchSpec

(* Once the hypervisor runs, each hypercall reaches the driver that offers *)
(* it, of whatever drivers a build consists and in whatever order they     *)
(* were linked (drivers_initialization() and register_hypercall()).        *)
THEOREM HypercallsFindDrivers == DispatchSpec => []HypercallsReachTheirDriver
<1>1. DispatchInv => HypercallsReachTheirDriver
  <2>1. SUFFICES ASSUME DispatchInv, running, NEW c \in Code
                 PROVE  {d \in ToSet(build.order) \ failed : c \in Offered(d)}
                          = {HypercallExecution(c)} \ {NONE}
    BY DEF HypercallsReachTheirDriver
  <2>2. Done = ToSet(build.order)
    BY <2>1 DEF DispatchInv, Done, ToSet
  <2>3. CASE c < HCALL_TABLE_SIZE
    <3>1. c \in 0..(HCALL_TABLE_SIZE - 1)
      BY <2>3 DEF Code, HCALL_TABLE_SIZE
    <3>2. HypercallExecution(c) = hypercall_table[c]
      BY <3>1 DEF HypercallExecution, HCALL_TABLE_SIZE
    <3>3. QED
      BY <2>1, <2>2, <3>1, <3>2 DEF DispatchInv, TableIsKept
  <2>4. CASE ~(c < HCALL_TABLE_SIZE)
    <3>1. c >= HCALL_TABLE_SIZE /\ c \notin 0..(HCALL_TABLE_SIZE - 1)
      BY <2>4 DEF Code, HCALL_TABLE_SIZE
    <3>2. HypercallExecution(c) = NONE
      BY <3>1 DEF HypercallExecution
    <3>3. ASSUME NEW d \in ToSet(build.order) PROVE c \notin Offered(d)
      <4>1. d \in Drivers
        BY <2>1, <3>3, DispatchAssumption DEF DispatchInv, ToSet
      <4>2. QED
        BY <2>1, <3>1, <4>1, OfferedCodes DEF DispatchInv
    <3>4. QED
      BY <3>2, <3>3
  <2>5. QED
    BY <2>3, <2>4
<1>2. QED
  BY <1>1, DispatchInvariant, PTL

\* The handlers are taken in order, and while the sixth is free each claimed
\* interrupt has the vector of its driver's handler.
Leads(h, v, o) ==
  /\ DOMAIN h = 0..(MAX_NUM_INTERRUPTS - 1)
  /\ \A i, j \in 0..(MAX_NUM_INTERRUPTS - 1) : i < j /\ h[i] = NONE => h[j] = NONE
  /\ DOMAIN v = DOMAIN o
  /\ h[5] = NONE =>
       \A l \in DOMAIN o : \E i \in 0..(MAX_NUM_INTERRUPTS - 1) :
         v[l] = i + 1 /\ h[i] = o[l] /\ o[l] # NONE

LEMMA ShapeAll ==
  ASSUME NEW h, NEW g, NEW v, NEW o, NEW f, NEW t,
         t = [hypercalls |-> h, handlers |-> g, vector |-> v, owner |-> o, failed |-> f]
  PROVE  t.handlers = g /\ t.vector = v /\ t.owner = o /\ Shape(t)
<1>1. t.vector = v /\ t.owner = o
  OBVIOUS
<1>2. QED
  BY <1>1, ShapeFields

LEMMA LeadsOn ==
  ASSUME NEW d, d # NONE, NEW q, Orderly(q, d, build.port), build.port = "pic32mz",
         NEW k \in 1..Len(q),
         NEW s, Shape(s), Leads(s.handlers, s.vector, s.owner),
         NEW t, t = Perform(s, d, q[k])
  PROVE  Shape(t) /\ Leads(t.handlers, t.vector, t.owner)
<1>0. PICK h, g, v, o, f : s = [hypercalls |-> h, handlers |-> g, vector |-> v,
                               owner |-> o, failed |-> f]
  BY Zenon DEF Shape
<1>g. s.handlers = g /\ s.vector = v /\ s.owner = o
  BY <1>0
<1>y. PICK y : y = TRUE
  OBVIOUS
<1>1. CASE s.failed
  BY <1>1 DEF Perform
<1>2. CASE ~s.failed /\ q[k].kind = "hypercall"
  <2>1. t = RegisterHypercall(s, d, q[k].code)
    BY <1>2 DEF Perform
  <2>2. t = [s EXCEPT !.failed = TRUE] \/ t = [s EXCEPT !.hypercalls[q[k].code] = d]
    BY <2>1 DEF RegisterHypercall
  <2>3. \E n, w : t = [hypercalls |-> n, handlers |-> g, vector |-> v, owner |-> o,
                       failed |-> w]
    <3>1. CASE t = [s EXCEPT !.failed = TRUE]
      <4>1. t = [hypercalls |-> h, handlers |-> g, vector |-> v, owner |-> o, failed |-> y]
        BY <1>0, <1>y, <3>1
      <4>2. QED
        BY <4>1
    <3>2. CASE t = [s EXCEPT !.hypercalls[q[k].code] = d]
      <4>1. PICK n : n = [h EXCEPT ![q[k].code] = d]
        OBVIOUS
      <4>2. t = [hypercalls |-> n, handlers |-> g, vector |-> v, owner |-> o, failed |-> f]
        BY <1>0, <3>2, <4>1
      <4>3. QED
        BY <4>2
    <3>3. QED
      BY <2>2, <3>1, <3>2
  <2>4. t.handlers = g /\ t.vector = v /\ t.owner = o /\ Shape(t)
    <3>1. PICK n, w : t = [hypercalls |-> n, handlers |-> g, vector |-> v, owner |-> o,
                           failed |-> w]
      BY <2>3
    <3>2. QED
      BY <3>1, ShapeAll
  <2>5. QED
    BY <1>g, <2>4
<1>3. CASE ~s.failed /\ q[k].kind = "interrupt"
  <2> DEFINE free == {i \in 0..(MAX_NUM_INTERRUPTS - 1) : s.handlers[i] = NONE}
             Taken(n) == Overlaid(s.vector, q[k].lines, n)
             Owned == Overlaid(s.owner, q[k].lines, d)
             OffSet(n) == [s EXCEPT !.vector = Taken(n), !.owner = Owned]
  <2>1. t = IF free # {}
            THEN [OffSet(Min(free) + 1) EXCEPT !.handlers[Min(free)] = d]
            ELSE IF q[k].checked THEN [s EXCEPT !.failed = TRUE] ELSE OffSet(0)
    BY <1>3 DEF Perform, RegisterInterrupt
  <2>2. ASSUME NEW n
        PROVE  OffSet(n) = [hypercalls |-> h, handlers |-> g, vector |-> Taken(n),
                            owner |-> Owned, failed |-> f]
    <3>a. PICK w, x : w = Taken(n) /\ x = Owned
      OBVIOUS
    <3>b. PICK u : u = [s EXCEPT !.vector = w]
      OBVIOUS
    <3>c. OffSet(n) = [u EXCEPT !.owner = x]
      BY <3>a, <3>b
    <3>d. u = [hypercalls |-> h, handlers |-> g, vector |-> w, owner |-> o, failed |-> f]
      BY <1>0, <3>b
    <3> HIDE DEF Taken, Owned, OffSet
    <3>e. OffSet(n) = [hypercalls |-> h, handlers |-> g, vector |-> w, owner |-> x,
                       failed |-> f]
      BY <3>c, <3>d
    <3>f. QED
      BY <3>a, <3>e
  <2>3. ASSUME NEW n
        PROVE  /\ DOMAIN Taken(n) = q[k].lines \cup DOMAIN v
               /\ \A l \in DOMAIN Taken(n) :
                    Taken(n)[l] = IF l \in q[k].lines THEN n ELSE v[l]
    BY <1>g DEF Overlaid
  <2>4. /\ DOMAIN Owned = q[k].lines \cup DOMAIN o
        /\ \A l \in DOMAIN Owned : Owned[l] = IF l \in q[k].lines THEN d ELSE o[l]
    BY <1>g DEF Overlaid
  <2> HIDE DEF OffSet, Taken, Owned
  <2>5. Leads(g, v, o)
    BY <1>g
  <2>6. CASE free # {}
    <3>1. PICK i : i = Min(free)
      OBVIOUS
    <3>2. i \in free /\ \A j \in free : i <= j
      BY <2>6, <3>1, LeastHandler
    <3>3. PICK w, x, n : w = Taken(i + 1) /\ x = Owned /\ n = [g EXCEPT ![i] = d]
      OBVIOUS
    <3>4. OffSet(i + 1) = [hypercalls |-> h, handlers |-> g, vector |-> w, owner |-> x,
                           failed |-> f]
      BY <2>2, <3>3
    <3>5. t = [OffSet(i + 1) EXCEPT !.handlers[i] = d]
      BY <2>1, <2>6, <3>1
    <3>6. t = [hypercalls |-> h, handlers |-> n, vector |-> w, owner |-> x, failed |-> f]
      BY <3>3, <3>4, <3>5
    <3>7. t.handlers = n /\ t.vector = w /\ t.owner = x /\ Shape(t)
      BY <3>6, ShapeAll
    <3>8. i \in 0..9 /\ g[i] = NONE /\ \A j \in 0..9 : g[j] = NONE => i <= j
      BY <1>g, <3>2 DEF MAX_NUM_INTERRUPTS
    <3>9. DOMAIN n = 0..9 /\ \A j \in 0..9 : n[j] = IF j = i THEN d ELSE g[j]
      BY <2>5, <3>3, <3>8 DEF Leads, MAX_NUM_INTERRUPTS
    <3>10. \A a, b \in 0..9 : a < b /\ n[a] = NONE => n[b] = NONE
      <4>1. SUFFICES ASSUME NEW a \in 0..9, NEW b \in 0..9, a < b, n[a] = NONE
                     PROVE  n[b] = NONE
        OBVIOUS
      <4>2. a # i /\ g[a] = NONE
        BY <3>9, <4>1
      <4>3. i <= a
        BY <3>8, <4>2
      <4>4. b # i
        BY <3>8, <4>1, <4>3
      <4>5. g[b] = NONE
        BY <2>5, <4>1, <4>2 DEF Leads, MAX_NUM_INTERRUPTS
      <4>6. QED
        BY <3>9, <4>4, <4>5
    <3>11. DOMAIN w = DOMAIN x
      BY <2>3, <2>4, <2>5, <3>3 DEF Leads
    <3>12. ASSUME n[5] = NONE, NEW l \in DOMAIN x
           PROVE  \E j \in 0..9 : w[l] = j + 1 /\ n[j] = x[l] /\ x[l] # NONE
      <4>1. CASE l \in q[k].lines
        <5>1. w[l] = i + 1 /\ x[l] = d
          BY <2>3, <2>4, <3>3, <3>11, <3>12, <4>1
        <5>2. QED
          BY <3>8, <3>9, <5>1
      <4>2. CASE l \notin q[k].lines
        <5>1. w[l] = v[l] /\ x[l] = o[l] /\ l \in DOMAIN o
          BY <2>3, <2>4, <3>3, <3>11, <3>12, <4>2
        <5>2. g[5] = NONE
          BY <3>8, <3>9, <3>12
        <5>3. PICK j \in 0..9 : v[l] = j + 1 /\ g[j] = o[l] /\ o[l] # NONE
          BY <2>5, <5>1, <5>2 DEF Leads, MAX_NUM_INTERRUPTS
        <5>4. j # i
          BY <3>8, <5>3
        <5>5. QED
          BY <3>9, <5>1, <5>3, <5>4
      <4>3. QED
        BY <4>1, <4>2
    <3>13. Leads(n, w, x)
      BY <3>9, <3>10, <3>11, <3>12 DEF Leads, MAX_NUM_INTERRUPTS
    <3>14. QED
      BY <3>7, <3>13
  <2>7. CASE free = {} /\ q[k].checked
    <3>1. t = [hypercalls |-> h, handlers |-> g, vector |-> v, owner |-> o, failed |-> y]
      BY <1>0, <1>y, <2>1, <2>7
    <3>2. t.handlers = g /\ t.vector = v /\ t.owner = o /\ Shape(t)
      BY <3>1, ShapeAll
    <3>3. QED
      BY <2>5, <3>2
  <2>8. CASE free = {} /\ ~q[k].checked
    <3>1. PICK w, x : w = Taken(0) /\ x = Owned
      OBVIOUS
    <3>2. t = [hypercalls |-> h, handlers |-> g, vector |-> w, owner |-> x, failed |-> f]
      BY <2>1, <2>2, <2>8, <3>1
    <3>3. t.handlers = g /\ t.vector = w /\ t.owner = x /\ Shape(t)
      BY <3>2, ShapeAll
    <3>4. g[5] # NONE
      BY <1>g, <2>8 DEF MAX_NUM_INTERRUPTS
    <3>5. DOMAIN w = DOMAIN x
      BY <2>3, <2>4, <2>5, <3>1 DEF Leads
    <3>6. Leads(g, w, x)
      BY <2>5, <3>4, <3>5 DEF Leads
    <3>7. QED
      BY <3>3, <3>6
  <2>9. QED
    BY <2>6, <2>7, <2>8
<1>4. QED
  BY <1>1, <1>2, <1>3, OneMoreStep

LEMMA DriverLeadsOn ==
  ASSUME build \in Builds, build.port = "pic32mz", NEW d \in Drivers \cup {"timer"},
         Initialise(d), Leads(interrupt_handlers, vector, owner)
  PROVE  Leads(interrupt_handlers', vector', owner')
<1>1. PICK q : q = InitCall(d, build)
  OBVIOUS
<1>2. Orderly(q, d, build.port) /\ Len(q) \in Nat
  BY <1>1, CallsAreOrderly DEF Orderly
<1>3. d # NONE
  BY DispatchAssumption
<1>4. PICK f : /\ f = [k \in 0..Len(q) |->
                         IF k = 0 THEN Before ELSE Perform(f[k - 1], d, q[k])]
               /\ interrupt_handlers' = f[Len(q)].handlers
               /\ vector' = f[Len(q)].vector /\ owner' = f[Len(q)].owner
  BY <1>1, <1>2, InitialiseSteps
<1> DEFINE Right(t) == Shape(t) /\ Leads(t.handlers, t.vector, t.owner)
           T == {k \in 0..Len(q) : Right(f[k])}
<1>5. 0 \in T
  <2>1. f[0] = Before
    BY <1>2, <1>4
  <2>2. PICK y : y = FALSE
    OBVIOUS
  <2>3. Before = [hypercalls |-> hypercall_table, handlers |-> interrupt_handlers,
                  vector |-> vector, owner |-> owner, failed |-> y]
    BY <2>2 DEF Before
  <2>4. Right(Before)
    BY <2>3, ShapeAll
  <2>5. QED
    BY <1>2, <2>1, <2>4
<1>6. ASSUME NEW k \in 1..Len(q), k - 1 \in T PROVE k \in T
  <2>1. k \in 0..Len(q) /\ f[k] = Perform(f[k - 1], d, q[k])
    BY <1>2, <1>4
  <2>2. Right(f[k - 1])
    BY <1>6
  <2>3. Right(f[k])
    BY <1>2, <1>3, <2>1, <2>2, LeadsOn
  <2>4. QED
    BY <2>1, <2>3
<1>7. Right(f[Len(q)])
  <2> HIDE DEF T
  <2>1. \A k \in 0..Len(q) : k \in T
    BY <1>2, <1>5, <1>6, UpTo
  <2>2. Len(q) \in T
    BY <1>2, <2>1
  <2>3. QED
    BY <2>2 DEF T
<1>8. QED
  BY <1>4, <1>7

VectorsLead == build.port = "pic32mz" => Leads(interrupt_handlers, vector, owner)

LEMMA VectorsLeadOn == DispatchSpec => []VectorsLead
<1>1. DispatchInit => VectorsLead
  BY DEF DispatchInit, VectorsLead, Leads
<1>2. DispatchInv /\ VectorsLead /\ [DispatchNext]_dispatchVars => VectorsLead'
  <2> SUFFICES ASSUME DispatchInv, VectorsLead, [DispatchNext]_dispatchVars,
                      build'.port = "pic32mz"
               PROVE  Leads(interrupt_handlers', vector', owner')
    BY DEF VectorsLead, Leads
  <2>1. build \in Builds
    BY DEF DispatchInv
  <2>2. CASE InitialiseDriver
    <3>1. build' = build /\ Initialise(Head(starting)) /\ starting # <<>>
      BY <2>2 DEF InitialiseDriver
    <3>2. Head(starting) \in Drivers
      BY <3>1, HeadTailProperties DEF DispatchInv
    <3>3. QED
      BY <2>1, <3>1, <3>2, DriverLeadsOn DEF VectorsLead
  <2>3. CASE StartTimer
    <3>1. build' = build /\ Initialise("timer")
      BY <2>3 DEF StartTimer
    <3>2. QED
      BY <2>1, <3>1, DriverLeadsOn DEF VectorsLead
  <2>4. CASE \/ \E vm \in DOMAIN Mapped, a \in IoAddress : WriteAddress(vm, a)
             \/ UNCHANGED dispatchVars
    <3>1. UNCHANGED <<build, interrupt_handlers, vector, owner>>
      BY <2>4 DEF WriteAddress, dispatchVars, tables
    <3>2. QED
      BY <3>1 DEF VectorsLead
  <2>5. QED
    BY <2>2, <2>3, <2>4 DEF DispatchNext
<1>3. QED
  BY <1>1, <1>2, DispatchInvariant, PTL DEF DispatchSpec

(* At most five handlers are registered, on pic32mz.                       *)
FiveHandlers == build.port = "pic32mz" /\ interrupt_handlers[5] = NONE

(* The vectors given to the first five handlers are those where the linker *)
(* script placed their calls, or where the nops before lead to them:       *)
(* while at most five are registered (register_interrupt()), an interrupt  *)
(* runs the handler of the driver that claimed it.                         *)
THEOREM InterruptsFindHandlers ==
  DispatchSpec => [](FiveHandlers => InterruptsReachTheirHandler)
<1>1. VectorsLead /\ FiveHandlers => InterruptsReachTheirHandler
  <2> SUFFICES ASSUME VectorsLead, FiveHandlers, NEW l \in DOMAIN owner
               PROVE  InterruptTaken(l) = owner[l]
    BY DEF InterruptsReachTheirHandler
  <2>1. Leads(interrupt_handlers, vector, owner) /\ build.port = "pic32mz"
    BY DEF VectorsLead, FiveHandlers
  <2>2. PICK i \in 0..9 : /\ vector[l] = i + 1
                          /\ interrupt_handlers[i] = owner[l] /\ owner[l] # NONE
    BY <2>1 DEF Leads, FiveHandlers, MAX_NUM_INTERRUPTS
  <2>3. i < 5
    <3>1. i # 5
      BY <2>2 DEF FiveHandlers
    <3>2. ~(5 < i)
      BY <2>1, <2>2 DEF Leads, FiveHandlers, MAX_NUM_INTERRUPTS
    <3>3. QED
      BY <3>1, <3>2
  <2> DEFINE ahead == {j \in DOMAIN Stub : Stub[j] >= i + 1}
             First(j) == j \in ahead /\ \A k \in ahead : Stub[j] <= Stub[k]
  <2>4. DOMAIN Stub = 0..5 /\ \A j \in 0..5 : Stub[j] = IF j < 4 THEN j + 1 ELSE j + 4
    BY DEF Stub
  <2>5. First(i)
    BY <2>3, <2>4
  <2>6. \A j : First(j) => j = i
    BY <2>3, <2>4, <2>5
  <2>7. (CHOOSE j \in ahead : \A k \in ahead : Stub[j] <= Stub[k]) = i
    <3>1. \A j \in ahead : (\A k \in ahead : Stub[j] <= Stub[k]) <=> j = i
      BY <2>5, <2>6
    <3> HIDE DEF ahead
    <3>2. QED
      BY <2>5, <3>1
  <2>8. TakenAt(i + 1) = interrupt_handlers[i]
    <3>1. ahead # {} /\ i + 1 # 0
      BY <2>5
    <3>2. TakenAt(i + 1) = interrupt_handlers[CHOOSE j \in ahead :
                                                \A k \in ahead : Stub[j] <= Stub[k]]
      BY <3>1 DEF TakenAt
    <3>3. QED
      BY Zenon, <2>7, <3>2
  <2>9. QED
    BY <2>1, <2>2, <2>8 DEF InterruptTaken
<1>2. QED
  BY <1>1, VectorsLeadOn, PTL

-----------------------------------------------------------------------------
(* The heap.                                                               *)

(* q is the block after p in a circular list of F in address order.        *)
Follows(F, p, q) ==
  /\ q \in F
  /\ \/ p < q /\ \A r \in F : ~(p < r /\ r < q)
     \/ q <= p /\ \A r \in F : q <= r /\ r <= p

(* The free list holds F, in address order; F and the blocks U in use      *)
(* divide the heap.                                                        *)
FreeList(hd, F) ==
  /\ F \subseteq Address
  /\ \A p \in F : Follows(F, p, hd[p].ptr)
  /\ \A p, q \in F : p + hd[p].size # q

Tiled(hd, B) ==
  /\ \A b \in B : hd[b].size >= 1 /\ b + hd[b].size <= UNITS
  /\ \A b, c \in B : b < c => b + hd[b].size <= c
  /\ \A u \in Address : \E b \in B : b <= u /\ u < b + hd[b].size

HeadersOK(hd) == hd \in [Address -> [ptr : Address, size : 0..UNITS]]

Sound(h, U, F) ==
  /\ h.freep \in F
  /\ HeadersOK(h.hdr)
  /\ FreeList(h.hdr, F)
  /\ U \subseteq Address /\ U \cap F = {}
  /\ Tiled(h.hdr, U \cup F)

(* How far block p is from block f along the list.                         *)
Beyond(f, p) == IF p >= f THEN p - f ELSE p - f + UNITS

LEMMA HeaderFields ==
  ASSUME NEW hd, HeadersOK(hd), NEW x \in Address
  PROVE  hd[x].ptr \in Address /\ hd[x].size \in 0..UNITS
BY DEF HeadersOK

(* Following the list leads further from f, past no block, or back to f.   *)
LEMMA StepAlong ==
  ASSUME NEW F \in SUBSET Address, NEW f \in F, NEW p \in F, NEW q, Follows(F, p, q)
  PROVE  \/ q = f /\ \A r \in F : Beyond(f, r) <= Beyond(f, p)
         \/ /\ q # f /\ Beyond(f, q) > Beyond(f, p)
            /\ \A r \in F : Beyond(f, r) <= Beyond(f, p) \/ Beyond(f, r) >= Beyond(f, q)
<1>1. UNITS \in Nat /\ \A r \in F : r \in Int /\ 0 <= r /\ r < UNITS
  BY HeapAssumption DEF Address
<1>2. q \in F
  BY DEF Follows
<1>3. CASE p < q /\ \A r \in F : ~(p < r /\ r < q)
  BY <1>1, <1>2, <1>3 DEF Beyond
<1>4. CASE q <= p /\ \A r \in F : q <= r /\ r <= p
  BY <1>1, <1>2, <1>4 DEF Beyond
<1>5. QED
  BY <1>3, <1>4 DEF Follows

LEMMA BeyondIs ==
  ASSUME NEW f \in Address, NEW p \in Address
  PROVE  /\ Beyond(f, p) \in 0..(UNITS - 1)
         /\ Beyond(f, p) = 0 <=> p = f
         /\ \A q \in Address : Beyond(f, p) = Beyond(f, q) => p = q
<1>1. UNITS \in Nat /\ \A r \in Address : r \in Int /\ 0 <= r /\ r < UNITS
  BY HeapAssumption DEF Address
<1>2. QED
  BY <1>1 DEF Beyond

(* The walk along the free list is well defined.                           *)
LEMMA WalkIs ==
  ASSUME NEW h
  PROVE  /\ Walk(h)[0] = h.freep
         /\ \A k \in 1..UNITS : Walk(h)[k] = h.hdr[Walk(h)[k - 1]].ptr
<1> DEFINE Steps(w, n) ==
             w = [k \in 0..n |-> IF k = 0 THEN h.freep ELSE h.hdr[w[k - 1]].ptr]
           T == {n \in Nat : \E w : Steps(w, n)}
<1>0. UNITS \in Nat /\ UNITS > 0
  BY HeapAssumption
<1>1. 0 \in T
  <2> DEFINE w == [k \in 0..0 |-> h.freep]
  <2>1. Steps(w, 0)
    OBVIOUS
  <2>2. QED
    BY <2>1
<1>2. ASSUME NEW n \in 1..UNITS, n - 1 \in T PROVE n \in T
  <2>1. PICK v : Steps(v, n - 1)
    BY <1>2
  <2>v. \A k \in 0..(n - 1) : v[k] = IF k = 0 THEN h.freep ELSE h.hdr[v[k - 1]].ptr
    BY <2>1
  <2> DEFINE w == [k \in 0..n |-> IF k < n THEN v[k] ELSE h.hdr[v[n - 1]].ptr]
  <2>2. ASSUME NEW k \in 0..n
        PROVE  w[k] = IF k = 0 THEN h.freep ELSE h.hdr[w[k - 1]].ptr
    <3>1. CASE k = n
      <4>1. w[n - 1] = v[n - 1] /\ w[n] = h.hdr[v[n - 1]].ptr
        OBVIOUS
      <4>2. QED
        BY <3>1, <4>1
    <3>2. CASE k < n
      <4>1. w[k] = v[k] /\ (k # 0 => w[k - 1] = v[k - 1])
        BY <3>2
      <4>2. QED
        BY <2>v, <3>2, <4>1
    <3>3. QED
      BY <3>1, <3>2
  <2>3. Steps(w, n)
    BY <2>2
  <2> HIDE DEF w
  <2>4. QED
    BY <2>3
<1>3. UNITS \in T
  <2> HIDE DEF T
  <2>1. \A k \in 0..UNITS : k \in T
    BY <1>0, <1>1, <1>2, UpTo
  <2>2. QED
    BY <1>0, <2>1
<1> DEFINE w == CHOOSE w : Steps(w, UNITS)
<1>4. Steps(w, UNITS)
  BY <1>3
<1>5. Walk(h) = w
  BY Zenon DEF Walk
<1> HIDE DEF w
<1>6. \A k \in 0..UNITS : w[k] = IF k = 0 THEN h.freep ELSE h.hdr[w[k - 1]].ptr
  BY <1>4
<1>7. QED
  BY <1>0, <1>5, <1>6

(* What a walk along a sound free list does.                               *)
LEMMA WalkStays ==
  ASSUME NEW h, NEW F, FreeList(h.hdr, F), h.freep \in F
  PROVE  /\ \A k \in 0..UNITS : Walk(h)[k] \in F
         /\ \A k \in 1..UNITS : Follows(F, Walk(h)[k - 1], Walk(h)[k])
<1> DEFINE T == {k \in 0..UNITS : Walk(h)[k] \in F}
<1>0. UNITS \in Nat /\ UNITS > 0
  BY HeapAssumption
<1>1. 0 \in T
  BY <1>0, WalkIs
<1>2. ASSUME NEW k \in 1..UNITS, k - 1 \in T PROVE k \in T
  <2>1. Follows(F, Walk(h)[k - 1], Walk(h)[k])
    BY <1>2, WalkIs DEF FreeList
  <2>2. QED
    BY <2>1 DEF Follows
<1>3. \A k \in 0..UNITS : k \in T
  <2> HIDE DEF T
  <2>1. QED
    BY <1>0, <1>1, <1>2, UpTo
<1>4. ASSUME NEW k \in 1..UNITS PROVE Follows(F, Walk(h)[k - 1], Walk(h)[k])
  <2>1. k - 1 \in T
    BY <1>0, <1>3
  <2>2. QED
    BY <2>1, WalkIs DEF FreeList
<1>5. QED
  BY <1>3, <1>4

(* A walk comes back to where it began.                                    *)
LEMMA WalkReturns ==
  ASSUME NEW h, NEW F, FreeList(h.hdr, F), h.freep \in F
  PROVE  \E k \in 1..UNITS : Walk(h)[k] = h.freep
<1> SUFFICES ASSUME \A k \in 1..UNITS : Walk(h)[k] # h.freep
             PROVE  FALSE
  OBVIOUS
<1> DEFINE f == h.freep
           Nth(k) == Walk(h)[k]
           T == {k \in 0..UNITS : Beyond(f, Nth(k)) >= k}
<1>0. UNITS \in Nat /\ UNITS > 0 /\ F \in SUBSET Address
  BY HeapAssumption DEF FreeList
<1>1. 0 \in T
  <2>1. Nth(0) = f
    BY WalkIs
  <2>2. Beyond(f, f) = 0
    BY <1>0, BeyondIs
  <2>3. QED
    BY <1>0, <2>1, <2>2
<1>2. ASSUME NEW k \in 1..UNITS, k - 1 \in T PROVE k \in T
  <2>1. k - 1 \in 0..UNITS
    BY <1>0
  <2>2. Follows(F, Nth(k - 1), Nth(k)) /\ Nth(k - 1) \in F /\ Nth(k) \in F
    BY <2>1, WalkStays
  <2>3. Nth(k) # f /\ Beyond(f, Nth(k - 1)) >= k - 1
    BY <1>2
  <2>4. /\ Beyond(f, Nth(k)) \in 0..(UNITS - 1)
        /\ Beyond(f, Nth(k - 1)) \in 0..(UNITS - 1)
    BY <1>0, <2>2, BeyondIs
  <2> HIDE DEF Nth, f
  <2>5. Beyond(f, Nth(k)) > Beyond(f, Nth(k - 1))
    BY <1>0, <2>2, <2>3, StepAlong DEF f
  <2>6. Beyond(f, Nth(k)) >= k
    BY <2>3, <2>4, <2>5, <1>0
  <2>7. QED
    BY <2>6
<1>3. \A k \in 0..UNITS : k \in T
  <2> HIDE DEF T
  <2>1. QED
    BY <1>0, <1>1, <1>2, UpTo
<1>4. Beyond(f, Nth(UNITS)) >= UNITS
  BY <1>0, <1>3
<1>5. Beyond(f, Nth(UNITS)) \in 0..(UNITS - 1)
  <2>1. Nth(UNITS) \in F
    BY <1>0, WalkStays
  <2>2. QED
    BY <1>0, <2>1, BeyondIs
<1> HIDE DEF Nth, f
<1>6. QED
  BY <1>0, <1>4, <1>5

(* A set of numbers that is not empty has a least element.                 *)
LEMMA MinIs ==
  ASSUME NEW S \in SUBSET Nat, S # {}
  PROVE  Min(S) \in S /\ \A y \in S : Min(S) <= y
<1>1. PICK x \in S : \A y \in S : x <= y
  BY LeastNatural
<1>2. QED
  BY <1>1 DEF Min

LEMMA CircleIs ==
  ASSUME NEW h, NEW F, FreeList(h.hdr, F), h.freep \in F
  PROVE  /\ Circle(h) \in 1..UNITS /\ Walk(h)[Circle(h)] = h.freep
         /\ \A k \in 1..(Circle(h) - 1) : Walk(h)[k] # h.freep
<1> DEFINE S == {k \in 1..UNITS : Walk(h)[k] = h.freep}
<1>0. UNITS \in Nat
  BY HeapAssumption
<1>1. S # {} /\ S \in SUBSET Nat
  BY <1>0, WalkReturns
<1>2. Circle(h) = Min(S)
  BY DEF Circle
<1> HIDE DEF S
<1>3. Min(S) \in S /\ \A y \in S : Min(S) <= y
  BY <1>1, MinIs
<1> USE DEF S
<1>4. ASSUME NEW k \in 1..(Circle(h) - 1) PROVE Walk(h)[k] # h.freep
  <2>1. k \in 1..UNITS /\ k < Circle(h)
    BY <1>0, <1>2, <1>3
  <2>2. k \notin S
    BY <2>1, <1>2, <1>3
  <2>3. QED
    BY <2>1, <2>2
<1>5. QED
  BY <1>2, <1>3, <1>4

(* Until it is back, a walk has met every block up to where it is.         *)
LEMMA WalkMeets ==
  ASSUME NEW h, NEW F, FreeList(h.hdr, F), h.freep \in F, NEW q \in F
  PROVE  \E k \in 1..Circle(h) : Walk(h)[k] = q
<1> SUFFICES ASSUME \A k \in 1..Circle(h) : Walk(h)[k] # q
             PROVE  FALSE
  OBVIOUS
<1> DEFINE f == h.freep
           Nth(k) == Walk(h)[k]
           m == Circle(h) - 1
           T == {k \in 0..m : Beyond(f, Nth(k)) < Beyond(f, q)}
<1>0. /\ UNITS \in Nat /\ UNITS > 0 /\ F \in SUBSET Address
      /\ Circle(h) \in 1..UNITS /\ m \in Nat /\ m < UNITS
  BY HeapAssumption, CircleIs DEF FreeList
<1>q. q # f
  BY <1>0, CircleIs
<1>1. 0 \in T
  <2>1. Nth(0) = f
    BY WalkIs
  <2>2. Beyond(f, f) = 0 /\ Beyond(f, q) \in 0..(UNITS - 1) /\ Beyond(f, q) # 0
    BY <1>0, <1>q, BeyondIs
  <2> HIDE DEF Nth, f, m
  <2>3. QED
    BY <1>0, <2>1, <2>2
<1>2. ASSUME NEW k \in 1..m, k - 1 \in T PROVE k \in T
  <2>1. k \in 1..UNITS /\ k \in 1..Circle(h) /\ k \in 1..(Circle(h) - 1) /\ k - 1 \in 0..UNITS
    BY <1>0
  <2>2. Follows(F, Nth(k - 1), Nth(k)) /\ Nth(k - 1) \in F /\ Nth(k) \in F
    BY <2>1, WalkStays
  <2>3. Nth(k) # f
    BY <2>1, CircleIs
  <2>4. Nth(k) # q
    BY <2>1
  <2>5. /\ Beyond(f, Nth(k)) \in 0..(UNITS - 1)
        /\ Beyond(f, Nth(k - 1)) \in 0..(UNITS - 1)
        /\ Beyond(f, q) \in 0..(UNITS - 1)
        /\ Beyond(f, q) # Beyond(f, Nth(k))
    BY <1>0, <2>2, <2>4, BeyondIs
  <2>6. Beyond(f, Nth(k - 1)) < Beyond(f, q)
    BY <1>2
  <2> HIDE DEF Nth, f
  <2>7. \/ Beyond(f, q) <= Beyond(f, Nth(k - 1))
        \/ Beyond(f, q) >= Beyond(f, Nth(k))
    BY <1>0, <2>2, <2>3, StepAlong DEF f
  <2>8. Beyond(f, Nth(k)) < Beyond(f, q)
    BY <2>5, <2>6, <2>7
  <2>9. QED
    BY <2>8
<1>3. \A k \in 0..m : k \in T
  <2> HIDE DEF T, m
  <2>1. QED
    BY <1>0, <1>1, <1>2, UpTo
<1>4. Beyond(f, Nth(m)) < Beyond(f, q)
  BY <1>0, <1>3
<1>5. Follows(F, Nth(m), f) /\ Nth(m) \in F
  <2>1. Circle(h) \in 1..UNITS /\ m \in 0..UNITS
    BY <1>0
  <2>2. QED
    BY <2>1, WalkStays, CircleIs
<1>6. Beyond(f, q) <= Beyond(f, Nth(m))
  <2> HIDE DEF Nth, f, m
  <2>1. QED
    BY <1>0, <1>5, StepAlong DEF f
<1>7. Beyond(f, Nth(m)) \in 0..(UNITS - 1) /\ Beyond(f, q) \in 0..(UNITS - 1)
  BY <1>0, <1>5, BeyondIs
<1> HIDE DEF Nth, f, m
<1>8. QED
  BY <1>4, <1>6, <1>7

(* The blocks met on the way round the free list are those of the list.    *)
LEMMA FreeBlocksAre ==
  ASSUME NEW h, NEW F, FreeList(h.hdr, F), h.freep \in F
  PROVE  FreeBlocks(h) = F
<1>0. Circle(h) \in 1..UNITS /\ UNITS \in Nat
  BY HeapAssumption, CircleIs
<1>1. ASSUME NEW q \in FreeBlocks(h) PROVE q \in F
  <2>1. PICK k \in 1..Circle(h) : q = Walk(h)[k]
    BY DEF FreeBlocks
  <2>2. k \in 0..UNITS
    BY <1>0
  <2>3. QED
    BY <2>1, <2>2, WalkStays
<1>2. ASSUME NEW q \in F PROVE q \in FreeBlocks(h)
  BY WalkMeets DEF FreeBlocks
<1>3. QED
  BY <1>1, <1>2

(* A block that is not free has a place in the list.                       *)
LEMMA APlaceExists ==
  ASSUME NEW h, NEW F, FreeList(h.hdr, F), h.freep \in F,
         NEW b \in Address, b \notin F
  PROVE  /\ Places(h, b) # {} /\ Places(h, b) \in SUBSET Nat
         /\ Walk(h)[Min(Places(h, b))] \in F
         /\ Between(h, Walk(h)[Min(Places(h, b))], b)
<1>0. /\ UNITS \in Nat /\ UNITS > 0 /\ F \in SUBSET Address /\ F # {}
      /\ Circle(h) \in 1..UNITS
      /\ \A r \in F : r \in Int /\ 0 <= r /\ r < UNITS
      /\ b \in Int /\ 0 <= b /\ b < UNITS
  <2>1. UNITS \in Nat /\ UNITS > 0 /\ F \in SUBSET Address /\ F # {}
    BY HeapAssumption DEF FreeList
  <2>2. Circle(h) \in 1..UNITS
    BY CircleIs
  <2>3. QED
    BY <2>1, <2>2 DEF Address
<1>1. \E p \in F : Between(h, p, b)
  <2>1. CASE \E p \in F : p < b
    <3> DEFINE S == {UNITS - p : p \in {r \in F : r < b}}
    <3>1. S # {} /\ S \in SUBSET Nat
      BY <1>0, <2>1
    <3>2. PICK s \in S : \A t \in S : s <= t
      <4> HIDE DEF S
      <4>1. QED
        BY <3>1, LeastNatural
    <3>3. PICK p \in F : p < b /\ s = UNITS - p
      BY <3>2
    <3>4. ASSUME NEW r \in F, r < b PROVE r <= p
      <4>1. UNITS - r \in S
        BY <3>4
      <4>2. UNITS - p <= UNITS - r
        BY <4>1, <3>2, <3>3
      <4>3. p \in Int /\ r \in Int /\ UNITS \in Int
        BY <1>0, <3>4
      <4> HIDE DEF S
      <4>4. QED
        BY <4>2, <4>3
    <3>5. Follows(F, p, h.hdr[p].ptr) /\ h.hdr[p].ptr \in F /\ h.hdr[p].ptr # b
      BY DEF FreeList, Follows
    <3>6. Between(h, p, b)
      <4>1. PICK q \in F : q = h.hdr[p].ptr
        BY <3>5
      <4>2. (p < b /\ b < q) \/ (p >= q /\ (b > p \/ b < q))
        BY <1>0, <3>3, <3>4, <3>5, <4>1 DEF Follows
      <4>3. QED
        BY <4>1, <4>2 DEF Between
    <3>7. QED
      BY <3>6
  <2>2. CASE \A p \in F : ~(p < b)
    <3> DEFINE S == {UNITS - p : p \in F}
    <3>1. S # {} /\ S \in SUBSET Nat
      <4>1. \A r \in F : UNITS - r \in Nat
        BY <1>0
      <4>2. QED
        BY <1>0, <4>1
    <3>2. PICK s \in S : \A t \in S : s <= t
      <4> HIDE DEF S
      <4>1. QED
        BY <3>1, LeastNatural
    <3>3. PICK p \in F : s = UNITS - p
      BY <3>2
    <3>4. ASSUME NEW r \in F PROVE r <= p
      <4>1. UNITS - p <= UNITS - r
        BY <3>2, <3>3
      <4>2. UNITS \in Nat /\ p \in Nat /\ r \in Nat
        BY <1>0
      <4> HIDE DEF S
      <4>3. QED
        BY <4>1, <4>2
    <3>5. Follows(F, p, h.hdr[p].ptr)
      BY DEF FreeList
    <3>6. PICK q \in F : q = h.hdr[p].ptr
      BY <3>5 DEF Follows
    <3>7. q <= p /\ b < q
      BY <1>0, <2>2, <3>4, <3>6
    <3>8. Between(h, p, b)
      BY <1>0, <3>6, <3>7 DEF Between
    <3>9. QED
      BY <3>8
  <2>3. QED
    BY <2>1, <2>2
<1>2. PICK p \in F : Between(h, p, b)
  BY <1>1
<1>3. PICK k \in 1..Circle(h) : Walk(h)[k] = p
  BY WalkMeets
<1>4. \E j \in 0..(Circle(h) - 1) : Walk(h)[j] = p
  <2>1. CASE k = Circle(h)
    <3>1. Walk(h)[0] = p
      BY <2>1, <1>3, CircleIs, WalkIs
    <3>2. QED
      BY <1>0, <3>1
  <2>2. CASE k # Circle(h)
    <3>1. k \in 0..(Circle(h) - 1)
      BY <1>0, <2>2
    <3>2. QED
      BY <1>3, <3>1
  <2>3. QED
    BY <2>1, <2>2
<1>5. Places(h, b) # {} /\ Places(h, b) \in SUBSET Nat
  BY <1>0, <1>2, <1>4 DEF Places
<1>6. Min(Places(h, b)) \in Places(h, b)
  BY <1>5, MinIs
<1>7. PICK j \in 0..(Circle(h) - 1) : j = Min(Places(h, b)) /\ Between(h, Walk(h)[j], b)
  BY <1>6 DEF Places
<1>8. Walk(h)[j] \in F
  <2>1. j \in 0..UNITS
    BY <1>0
  <2>2. QED
    BY <2>1, WalkStays
<1>9. QED
  BY <1>5, <1>7, <1>8

LEMMA HeapNumbers ==
  /\ UNITS \in Nat /\ UNITS > 0 /\ NIL = -1
  /\ \A r \in Address : r \in Int /\ 0 <= r /\ r < UNITS
  /\ \A r \in Int : 0 <= r /\ r < UNITS => r \in Address
BY HeapAssumption DEF Address, NIL

(* The lowest block is free as long as it was not handed out.              *)
LEMMA LowestIsFree ==
  ASSUME NEW h, NEW U, NEW F, Sound(h, U, F), 0 \notin U
  PROVE  0 \in F
<1>1. PICK b \in U \cup F : b <= 0 /\ 0 < b + h.hdr[b].size
  BY HeapNumbers DEF Sound, Tiled
<1>2. b \in Address
  BY DEF Sound, FreeList
<1>3. b = 0
  BY <1>1, <1>2, HeapNumbers
<1>4. QED
  BY <1>3

(* malloc() takes from the first block that is big enough, if there is one.*)
LEMMA AllocateIs ==
  ASSUME NEW h, NEW U, NEW F, Sound(h, U, F), NEW n \in Requests
  PROVE  \/ Allocate(h, n) = [block |-> NIL, heap |-> h]
         \/ \E prevp \in F, p \in F :
              /\ h.hdr[prevp].ptr = p /\ h.hdr[p].size >= n
              /\ Allocate(h, n) = Carve(h, prevp, p, n)
<1>0. FreeList(h.hdr, F) /\ h.freep \in F
  BY DEF Sound
<1>1. CASE Fits(h, n) = {}
  BY <1>1 DEF Allocate
<1>2. CASE Fits(h, n) # {}
  <2>1. Circle(h) \in 1..UNITS /\ UNITS \in Nat
    BY <1>0, CircleIs, HeapNumbers
  <2>2. Fits(h, n) \in SUBSET Nat
    BY <2>1 DEF Fits
  <2>3. Min(Fits(h, n)) \in Fits(h, n)
    BY <1>2, <2>2, MinIs
  <2>4. PICK k \in 1..Circle(h) : k = Min(Fits(h, n)) /\ h.hdr[Walk(h)[k]].size >= n
    BY <2>3 DEF Fits
  <2>5. k \in 1..UNITS /\ k \in 0..UNITS /\ k - 1 \in 0..UNITS
    BY <2>1
  <2>6. Walk(h)[k - 1] \in F /\ Walk(h)[k] \in F
    BY <1>0, <2>5, WalkStays
  <2>7. h.hdr[Walk(h)[k - 1]].ptr = Walk(h)[k]
    BY <2>5, WalkIs
  <2>8. Allocate(h, n) = Carve(h, Walk(h)[k - 1], Walk(h)[k], n)
    BY <1>2, <2>4, Zenon DEF Allocate
  <2>9. QED
    BY <2>4, <2>6, <2>7, <2>8
<1>3. QED
  BY <1>1, <1>2

SizesStay(new, hd, B) == \A b \in B : new[b].size = hd[b].size

LEMMA SameSizes ==
  ASSUME NEW hd, NEW new, NEW B, Tiled(hd, B), SizesStay(new, hd, B)
  PROVE  Tiled(new, B)
  BY DEF Tiled, SizesStay

(* All of a block is taken off the list.                                   *)
LEMMA UnlinkKeeps ==
  ASSUME NEW h, NEW U, NEW F, Sound(h, U, F), 0 \in F,
         NEW prevp \in F, NEW p \in F, h.hdr[prevp].ptr = p, p # 0,
         NEW hd, hd = [h.hdr EXCEPT ![prevp].ptr = h.hdr[p].ptr]
  PROVE  Sound([freep |-> prevp, hdr |-> hd], U \cup {p}, F \ {p})
<1> DEFINE G == F \ {p}
<1>0. /\ F \in SUBSET Address /\ U \in SUBSET Address /\ U \cap F = {}
      /\ HeadersOK(h.hdr) /\ Tiled(h.hdr, U \cup F) /\ FreeList(h.hdr, F)
      /\ p \in Address /\ prevp \in Address /\ 0 \in Address
  BY DEF Sound, FreeList
<1>1. /\ h.hdr[p].ptr \in Address
      /\ \A x \in Address : h.hdr[x].ptr \in Address /\ h.hdr[x].size \in 0..UNITS
  BY <1>0, HeaderFields
<1>2. /\ HeadersOK(hd)
      /\ \A x \in Address : /\ hd[x].size = h.hdr[x].size
                            /\ hd[x].ptr = IF x = prevp THEN h.hdr[p].ptr ELSE h.hdr[x].ptr
  BY <1>0, <1>1 DEF HeadersOK
<1>3. Follows(F, prevp, p) /\ Follows(F, p, h.hdr[p].ptr)
  BY <1>0 DEF FreeList
<1>4. prevp # p
  <2>1. ASSUME prevp = p PROVE \A r \in F : r = p
    BY <1>0, <1>3, <2>1, HeapNumbers DEF Follows
  <2>2. QED
    BY <2>1
<1>5. ASSUME NEW q \in G PROVE Follows(G, q, hd[q].ptr)
  <2>1. PICK z : z = h.hdr[q].ptr /\ Follows(F, q, z)
    BY <1>0 DEF FreeList
  <2>2. PICK y : y = h.hdr[p].ptr /\ Follows(F, p, y)
    BY <1>3
  <2>3. CASE q = prevp
    <3>1. hd[q].ptr = y /\ Follows(F, q, p)
      BY <1>0, <1>2, <1>3, <2>2, <2>3
    <3>2. Follows(G, q, y)
      <4>1. y \in F /\ \A r \in F : r \in Int
        BY <1>0, <2>2, HeapNumbers DEF Follows
      <4>2. y # p
        BY <1>0, <1>4, <2>2, <2>3, <4>1, HeapNumbers DEF Follows
      <4>3. QED
        BY <1>4, <2>2, <2>3, <3>1, <4>1, <4>2 DEF Follows
    <3>3. QED
      BY <3>1, <3>2
  <2>4. CASE q # prevp
    <3>1. hd[q].ptr = z
      BY <1>0, <1>2, <2>1, <2>4
    <3>2. z # p
      <4>1. \A r \in F : r \in Int
        BY <1>0, HeapNumbers
      <4>2. QED
        BY <1>3, <1>4, <2>1, <2>4, <4>1 DEF Follows
    <3>3. QED
      BY <2>1, <3>1, <3>2 DEF Follows
  <2>5. QED
    BY <2>3, <2>4
<1>6. FreeList(hd, G)
  <2>1. \A q, r \in G : q + hd[q].size # r
    BY <1>0, <1>2 DEF FreeList
  <2>2. QED
    BY <1>0, <1>5, <2>1 DEF FreeList
<1>7. Tiled(hd, (U \cup {p}) \cup G)
  <2>1. (U \cup {p}) \cup G = U \cup F
    OBVIOUS
  <2>2. SizesStay(hd, h.hdr, U \cup F)
    BY <1>0, <1>2 DEF SizesStay
  <2>3. QED
    BY <1>0, <2>1, <2>2, SameSizes
<1>8. QED
  BY <1>0, <1>2, <1>4, <1>6, <1>7 DEF Sound

(* new is hd but for the size, the link, of block b.                       *)
SizeSet(new, hd, b, n) ==
  \A x \in Address : /\ new[x].ptr = hd[x].ptr
                     /\ new[x].size = IF x = b THEN n ELSE hd[x].size

PtrSet(new, hd, b, q) ==
  \A x \in Address : /\ new[x].size = hd[x].size
                     /\ new[x].ptr = IF x = b THEN q ELSE hd[x].ptr

LEMMA SetSize ==
  ASSUME NEW hd, HeadersOK(hd), NEW b \in Address, NEW n \in 0..UNITS,
         NEW new, new = [hd EXCEPT ![b].size = n]
  PROVE  HeadersOK(new) /\ SizeSet(new, hd, b, n)
<1>1. hd[b].ptr \in Address
  BY HeaderFields
<1>2. QED
  BY <1>1 DEF HeadersOK, SizeSet

LEMMA SetPtr ==
  ASSUME NEW hd, HeadersOK(hd), NEW b \in Address, NEW q \in Address,
         NEW new, new = [hd EXCEPT ![b].ptr = q]
  PROVE  HeadersOK(new) /\ PtrSet(new, hd, b, q)
<1>1. hd[b].size \in 0..UNITS
  BY HeaderFields
<1>2. QED
  BY <1>1 DEF HeadersOK, PtrSet

(* The end of a block is handed out.                                       *)
LEMMA SplitKeeps ==
  ASSUME NEW h, NEW U, NEW F, Sound(h, U, F), NEW prevp \in F, NEW p \in F,
         NEW n \in Requests, NEW rest \in Nat \ {0}, rest + n = h.hdr[p].size,
         NEW hd, hd = [h.hdr EXCEPT ![p].size = rest, ![p + rest].size = n]
  PROVE  /\ p + rest \in Address \ (U \cup F)
         /\ Sound([freep |-> prevp, hdr |-> hd], U \cup {p + rest}, F)
<1> DEFINE B == U \cup F
           s(x) == h.hdr[x].size
<1>n. n \in Nat \ {0}
  BY HeapAssumption
<1>0. /\ F \in SUBSET Address /\ U \in SUBSET Address /\ U \cap F = {}
      /\ HeadersOK(h.hdr) /\ Tiled(h.hdr, B) /\ FreeList(h.hdr, F)
      /\ p \in Address /\ prevp \in Address /\ p \in B /\ B \in SUBSET Address
  BY DEF Sound, FreeList
<1>1. \A x \in Address : h.hdr[x].ptr \in Address /\ h.hdr[x].size \in 0..UNITS
  BY <1>0, HeaderFields
<1>2. PICK b : b = p + rest
  OBVIOUS
<1>3. /\ p + s(p) <= UNITS /\ s(p) \in Nat /\ p \in Int /\ 0 <= p /\ UNITS \in Nat
  BY <1>0, <1>1, HeapNumbers DEF Tiled
<1>4. /\ b \in Address /\ p < b /\ b < p + s(p) /\ b # p
      /\ rest \in 0..UNITS /\ n \in 0..UNITS /\ p + s(p) = b + n /\ rest < s(p)
  <2>1. b \in Int /\ p < b /\ b < p + s(p) /\ p + s(p) = b + n /\ rest < s(p)
    BY <1>2, <1>3, <1>n
  <2>2. 0 <= b /\ b < UNITS
    BY <1>3, <2>1
  <2>3. QED
    BY <1>3, <1>n, <2>1, <2>2, HeapNumbers
<1>5. b \notin B
  <2>1. SUFFICES ASSUME b \in B PROVE FALSE
    OBVIOUS
  <2>2. p + s(p) <= b
    BY <1>0, <1>4, <2>1 DEF Tiled
  <2>3. QED
    BY <1>3, <1>4, <2>2, HeapNumbers
<1>6. PICK mid : mid = [h.hdr EXCEPT ![p].size = rest]
  OBVIOUS
<1>7. HeadersOK(mid) /\ SizeSet(mid, h.hdr, p, rest)
  <2>1. HeadersOK(h.hdr) /\ p \in Address /\ rest \in 0..UNITS
    BY <1>0, <1>4
  <2>2. QED
    BY <1>6, <2>1, SetSize
<1>8. hd = [mid EXCEPT ![b].size = n]
  BY <1>2, <1>6
<1>9. HeadersOK(hd) /\ SizeSet(hd, mid, b, n)
  <2>1. b \in Address /\ n \in 0..UNITS
    BY <1>4
  <2>2. QED
    BY <1>7, <1>8, <2>1, SetSize
<1>10. \A x \in Address : /\ hd[x].ptr = h.hdr[x].ptr
                          /\ hd[x].size = IF x = b THEN n ELSE IF x = p THEN rest ELSE s(x)
  BY <1>7, <1>9 DEF SizeSet
<1>11. FreeList(hd, F)
  <2>1. ASSUME NEW q \in F, NEW r \in F PROVE q + hd[q].size # r
    <3>1. q + s(q) # r /\ q # b /\ r # b /\ q \in Address
      BY <1>0, <1>5 DEF FreeList
    <3>2. CASE q = p
      BY <1>2, <1>10, <3>1, <3>2
    <3>3. CASE q # p
      BY <1>10, <3>1, <3>3
    <3>4. QED
      BY <3>2, <3>3
  <2>2. \A q \in F : Follows(F, q, hd[q].ptr)
    BY <1>0, <1>10 DEF FreeList
  <2>3. QED
    BY <1>0, <2>1, <2>2 DEF FreeList
<1>12. Tiled(hd, B \cup {b})
  <2>0. \A x \in B : hd[x].size = IF x = p THEN rest ELSE s(x)
    BY <1>0, <1>5, <1>10
  <2>b. hd[b].size = n /\ hd[p].size = rest
    BY <1>4, <1>10, <1>0
  <2>s. \A x \in B : s(x) \in Nat /\ x \in Int
    BY <1>0, <1>1, HeapNumbers
  <2>n. n \in Nat /\ n >= 1 /\ rest \in Nat /\ rest >= 1 /\ b \in Int /\ UNITS \in Nat
    BY <1>4, HeapNumbers
  <2> HIDE DEF s, B
  <2>1. ASSUME NEW x \in B \cup {b}
        PROVE  hd[x].size >= 1 /\ x + hd[x].size <= UNITS
    <3>1. CASE x = b
      BY <3>1, <1>3, <1>4, <2>b, <2>n
    <3>2. CASE x \in B
      <4>1. s(x) >= 1 /\ x + s(x) <= UNITS
        BY <1>0, <3>2 DEF Tiled, s
      <4>2. hd[x].size <= s(x) /\ hd[x].size >= 1 /\ hd[x].size \in Nat
        BY <1>4, <2>0, <2>s, <2>n, <3>2, <4>1
      <4>3. QED
        BY <4>1, <4>2, <2>s, <2>n, <3>2
    <3>3. QED
      BY <3>1, <3>2
  <2>2. ASSUME NEW x \in B \cup {b}, NEW y \in B \cup {b}, x < y
        PROVE  x + hd[x].size <= y
    <3>1. CASE x \in B /\ y \in B
      <4>1. x + s(x) <= y
        BY <1>0, <2>2, <3>1 DEF Tiled, s
      <4>2. hd[x].size <= s(x) /\ hd[x].size \in Nat
        BY <1>4, <2>0, <2>s, <2>n, <3>1
      <4>3. QED
        BY <3>1, <4>1, <4>2, <2>s
    <3>2. CASE x = b /\ y \in B
      <4>1. p + s(p) <= y
        BY <1>0, <1>4, <2>s, <2>n, <2>2, <3>2 DEF Tiled, s
      <4>2. QED
        BY <1>4, <2>b, <2>s, <2>n, <3>2, <4>1
    <3>3. CASE x \in B /\ y = b
      <4>1. CASE x = p
        BY <1>2, <2>b, <2>n, <3>3, <4>1
      <4>2. CASE x # p
        <5>1. x < p
          <6>1. SUFFICES ASSUME p < x PROVE FALSE
            BY <1>0, <2>s, <3>3, <4>2
          <6>2. p + s(p) <= x
            BY <1>0, <3>3, <6>1 DEF Tiled, s
          <6>3. QED
            BY <1>0, <1>4, <2>s, <2>n, <2>2, <3>3, <6>2
        <5>2. x + s(x) <= p
          BY <1>0, <3>3, <5>1 DEF Tiled, s
        <5>3. QED
          BY <1>0, <1>4, <2>0, <2>s, <2>n, <3>3, <4>2, <5>2
      <4>3. QED
        BY <4>1, <4>2
    <3>4. QED
      BY <2>2, <2>n, <3>1, <3>2, <3>3
  <2>3. ASSUME NEW u \in Address
        PROVE  \E x \in B \cup {b} : x <= u /\ u < x + hd[x].size
    <3>1. PICK x \in B : x <= u /\ u < x + s(x)
      BY <1>0 DEF Tiled, s
    <3>2. CASE x # p
      BY <2>0, <3>1, <3>2
    <3>3. CASE x = p
      <4>1. u \in Int
        BY HeapNumbers
      <4>2. CASE u < b
        BY <1>2, <1>0, <2>b, <3>1, <3>3, <4>2
      <4>3. CASE b <= u
        BY <1>4, <2>b, <2>s, <2>n, <3>1, <3>3, <4>1, <4>3
      <4>4. QED
        BY <2>n, <4>1, <4>2, <4>3
    <3>4. QED
      BY <3>2, <3>3
  <2>4. QED
    BY <2>1, <2>2, <2>3 DEF Tiled
<1>13. (U \cup {b}) \cup F = B \cup {b}
  OBVIOUS
<1>14. Sound([freep |-> prevp, hdr |-> hd], U \cup {b}, F)
  <2> HIDE DEF B, s
  <2>1. Tiled(hd, (U \cup {b}) \cup F)
    BY <1>12, <1>13
  <2>2. (U \cup {b}) \cap F = {} /\ U \cup {b} \subseteq Address
    BY <1>0, <1>4, <1>5 DEF B
  <2>3. QED
    BY <1>9, <1>11, <2>1, <2>2 DEF Sound
<1>15. QED
  BY <1>2, <1>4, <1>5, <1>14

(* malloc() keeps the heap sound unless it hands out the lowest block.     *)
LEMMA AllocateKeeps ==
  ASSUME NEW h, NEW U, NEW F, Sound(h, U, F), 0 \notin U, NEW n \in Requests,
         NEW a, a = Allocate(h, n), a.block # 0
  PROVE  \/ a.block = NIL /\ a.heap = h
         \/ /\ a.block \in Address \ U
            /\ \E G : Sound(a.heap, U \cup {a.block}, G)
<1>0. /\ 0 \in F /\ n \in Nat \ {0} /\ \A x \in F : x \in Address /\ x \notin U
      /\ HeadersOK(h.hdr)
  BY LowestIsFree, HeapAssumption DEF Sound, FreeList
<1>1. CASE a = [block |-> NIL, heap |-> h]
  BY <1>1
<1>2. CASE \E prevp \in F, p \in F :
             /\ h.hdr[prevp].ptr = p /\ h.hdr[p].size >= n
             /\ a = Carve(h, prevp, p, n)
  <2>1. PICK prevp \in F, p \in F :
             /\ h.hdr[prevp].ptr = p /\ h.hdr[p].size >= n
             /\ a = Carve(h, prevp, p, n)
    BY <1>2
  <2>2. PICK rest : rest = h.hdr[p].size - n
    OBVIOUS
  <2>3. rest \in Nat /\ rest + n = h.hdr[p].size
    <3>1. h.hdr[p].size \in Nat
      BY <1>0, HeaderFields
    <3>2. QED
      BY <1>0, <2>1, <2>2, <3>1
  <2>4. CASE rest = 0
    <3>1. PICK hd : hd = [h.hdr EXCEPT ![prevp].ptr = h.hdr[p].ptr]
      OBVIOUS
    <3>2. a = [block |-> p, heap |-> [freep |-> prevp, hdr |-> hd]]
      BY <2>1, <2>2, <2>4, <3>1, Zenon DEF Carve
    <3>3. a.block = p /\ a.heap = [freep |-> prevp, hdr |-> hd]
      BY <3>2
    <3>4. Sound([freep |-> prevp, hdr |-> hd], U \cup {p}, F \ {p})
      BY <1>0, <2>1, <3>1, <3>3, UnlinkKeeps
    <3>5. QED
      BY <1>0, <3>3, <3>4
  <2>5. CASE rest # 0
    <3>1. PICK hd : hd = [h.hdr EXCEPT ![p].size = rest, ![p + rest].size = n]
      OBVIOUS
    <3>2. a = [block |-> p + rest, heap |-> [freep |-> prevp, hdr |-> hd]]
      BY <2>1, <2>2, <2>5, <3>1, Zenon DEF Carve
    <3>3. a.block = p + rest /\ a.heap = [freep |-> prevp, hdr |-> hd]
      BY <3>2
    <3>4. /\ p + rest \in Address \ (U \cup F)
          /\ Sound([freep |-> prevp, hdr |-> hd], U \cup {p + rest}, F)
      BY <1>0, <2>3, <2>5, <3>1, SplitKeeps
    <3>5. QED
      BY <3>3, <3>4
  <2>6. QED
    BY <2>4, <2>5
<1>3. QED
  BY <1>1, <1>2, AllocateIs

(* The links nx lead through F in address order.                           *)
Chained(nx, F) == \A p \in F : Follows(F, p, nx[p])

(* Block b is linked in where Between() says it belongs.                   *)
LEMMA InsertLink ==
  ASSUME NEW F \in SUBSET Address, NEW nx, Chained(nx, F), NEW p \in F,
         NEW b \in Address, b \notin F, NEW next, next = nx[p],
         (p < b /\ b < next) \/ (p >= next /\ (b > p \/ b < next)),
         NEW new, \A x \in Address : new[x] = IF x = p THEN b ELSE IF x = b THEN next ELSE nx[x]
  PROVE  Chained(new, F \cup {b})
<1>0. /\ \A r \in F : r \in Int /\ r \in Address
      /\ b \in Int /\ b # p /\ p \in Address /\ Follows(F, p, next)
      /\ next \in F
  BY HeapNumbers DEF Chained, Follows
<1>1. new[p] = b /\ new[b] = next /\ \A x \in F : x # p => new[x] = nx[x]
  BY <1>0
<1>2. Follows(F \cup {b}, p, b)
  BY <1>0 DEF Follows
<1>3. Follows(F \cup {b}, b, next)
  BY <1>0 DEF Follows
<1>4. ASSUME NEW q \in F, q # p PROVE Follows(F \cup {b}, q, nx[q])
  <2>1. PICK z : z = nx[q] /\ Follows(F, q, z)
    BY DEF Chained
  <2>2. z \in F
    BY <2>1 DEF Follows
  <2>3. Follows(F \cup {b}, q, z)
    BY <1>0, <1>4, <2>1, <2>2 DEF Follows
  <2>4. QED
    BY <2>1, <2>3
<1>5. QED
  BY <1>1, <1>2, <1>3, <1>4 DEF Chained

(* Block p is taken out, its predecessor q linked to its successor.        *)
LEMMA RemoveLink ==
  ASSUME NEW F \in SUBSET Address, NEW nx, Chained(nx, F), NEW q \in F, NEW p \in F,
         nx[q] = p, p # q,
         NEW new, \A x \in Address : new[x] = IF x = q THEN nx[p] ELSE nx[x]
  PROVE  Chained(new, F \ {p})
<1>0. \A r \in F : r \in Int /\ r \in Address
  BY HeapNumbers
<1>1. PICK y : y = nx[p] /\ Follows(F, p, y) /\ Follows(F, q, p)
  BY DEF Chained
<1>2. ASSUME NEW x \in F \ {p} PROVE Follows(F \ {p}, x, new[x])
  <2>1. PICK z : z = nx[x] /\ Follows(F, x, z)
    BY DEF Chained
  <2>2. y \in F /\ z \in F /\ x \in Int /\ x \in Address
    BY <1>0, <1>1, <2>1 DEF Follows
  <2>3. CASE x = q
    <3>1. y # p
      BY <1>0, <1>1, <2>2 DEF Follows
    <3>2. Follows(F \ {p}, q, y)
      BY <1>0, <1>1, <2>2, <3>1 DEF Follows
    <3>3. QED
      BY <1>1, <2>2, <2>3, <3>2
  <2>4. CASE x # q
    <3>1. z # p
      BY <1>0, <1>1, <2>1, <2>2, <2>4 DEF Follows
    <3>2. Follows(F \ {p}, x, z)
      BY <2>1, <3>1 DEF Follows
    <3>3. QED
      BY <2>1, <2>2, <2>4, <3>2
  <2>5. QED
    BY <2>3, <2>4
<1>3. QED
  BY <1>2 DEF Chained

(* Block y becomes the end of block x.                                     *)
Merged(new, hd, x, y) ==
  \A z \in Address :
    new[z].size = IF z = x THEN hd[x].size + hd[y].size ELSE hd[z].size

LEMMA MergeKeeps ==
  ASSUME NEW B \in SUBSET Address, NEW hd, HeadersOK(hd), Tiled(hd, B),
         NEW x \in B, NEW y \in B, x + hd[x].size = y,
         NEW new, Merged(new, hd, x, y)
  PROVE  /\ Tiled(new, B \ {y}) /\ x < y
         /\ hd[x].size + hd[y].size \in 0..UNITS
<1> DEFINE s(z) == hd[z].size
<1>0. \A z \in B : z \in Int /\ 0 <= z /\ z \in Address /\ s(z) \in Int /\ s(z) >= 1
                   /\ z + s(z) <= UNITS
  <2>1. \A z \in B : z \in Int /\ 0 <= z /\ z \in Address
    BY HeapNumbers
  <2>2. \A z \in B : s(z) \in Int
    BY HeaderFields
  <2>3. QED
    BY <2>1, <2>2 DEF Tiled
<1>1. PICK e : e = s(x) + s(y)
  OBVIOUS
<1>2. new[x].size = e /\ \A z \in B : z # x => new[z].size = s(z)
  BY <1>0, <1>1 DEF Merged
<1>3. /\ UNITS \in Int /\ x < y /\ x + e = y + s(y) /\ e \in 0..UNITS
  BY <1>0, <1>1, HeapNumbers
<1>4. \A z, v \in B : z < v => z + s(z) <= v
  BY DEF Tiled
<1> HIDE DEF s
<1>5. ASSUME NEW z \in B \ {y} PROVE new[z].size >= 1 /\ z + new[z].size <= UNITS
  <2>1. CASE z = x
    BY <1>0, <1>1, <1>2, <1>3, <2>1
  <2>2. CASE z # x
    BY <1>0, <1>2, <2>2
  <2>3. QED
    BY <2>1, <2>2
<1>6. ASSUME NEW z \in B \ {y}, NEW v \in B \ {y}, z < v PROVE z + new[z].size <= v
  <2>1. CASE z = x
    <3>1. y <= v
      BY <1>0, <1>4, <1>6, <2>1 DEF s
    <3>2. y + s(y) <= v
      BY <1>0, <1>4, <3>1
    <3>3. QED
      BY <1>2, <1>3, <2>1, <3>2
  <2>2. CASE z # x
    BY <1>2, <1>4, <1>6, <2>2
  <2>3. QED
    BY <2>1, <2>2
<1>7. ASSUME NEW u \in Address PROVE \E z \in B \ {y} : z <= u /\ u < z + new[z].size
  <2>1. PICK z \in B : z <= u /\ u < z + s(z)
    BY DEF Tiled, s
  <2>2. CASE z = y
    <3>1. x <= u /\ u < x + new[x].size
      BY <1>0, <1>2, <1>3, <2>1, <2>2, HeapNumbers
    <3>2. QED
      BY <1>3, <1>0, <3>1
  <2>3. CASE z = x
    <3>1. u < x + new[x].size
      BY <1>0, <1>1, <1>2, <1>3, <2>1, <2>3, HeapNumbers
    <3>2. QED
      BY <1>3, <1>0, <2>1, <2>3, <3>1
  <2>4. CASE z # x /\ z # y
    BY <1>2, <2>1, <2>4
  <2>5. QED
    BY <2>2, <2>3, <2>4
<1>8. Tiled(new, B \ {y})
  BY <1>5, <1>6, <1>7 DEF Tiled
<1>9. QED
  BY <1>1, <1>3, <1>8 DEF s

HeaderSet(new, hd, b, q, n) ==
  \A x \in Address : /\ new[x].ptr = IF x = b THEN q ELSE hd[x].ptr
                     /\ new[x].size = IF x = b THEN n ELSE hd[x].size

LEMMA SetHeader ==
  ASSUME NEW hd, HeadersOK(hd), NEW b \in Address, NEW q \in Address, NEW n \in 0..UNITS,
         NEW new, new = [hd EXCEPT ![b] = [ptr |-> q, size |-> n]]
  PROVE  HeadersOK(new) /\ HeaderSet(new, hd, b, q, n)
BY DEF HeadersOK, HeaderSet

(* Block b is in the list after p and joined to the block above it, but    *)
(* not to p; the link of p, in nx, is not written yet.                     *)
HalfJoined(hd, nx, p, b, B, F) ==
  /\ HeadersOK(hd) /\ Tiled(hd, B) /\ B \subseteq Address
  /\ F \subseteq B /\ p \in F /\ b \in F /\ p # b
  /\ Chained(nx, F)
  /\ \A x \in Address : nx[x] = IF x = p THEN b ELSE hd[x].ptr
  /\ \A x, y \in F : x + hd[x].size = y => x = p /\ y = b

LEMMA BesideNothing ==
  ASSUME NEW B \in SUBSET Address, NEW F \in SUBSET B, NEW hd, HeadersOK(hd),
         Tiled(hd, B), FreeList(hd, F), NEW p \in F, NEW b \in B, b \notin F,
         NEW next, next = hd[p].ptr,
         (p < b /\ b < next) \/ (p >= next /\ (b > p \/ b < next))
  PROVE  /\ \A x \in F : x + hd[x].size = b => x = p
         /\ \A y \in F : b + hd[b].size = y => y = next
<1> DEFINE s(z) == hd[z].size
<1>0. \A z \in B : z \in Int /\ 0 <= z /\ z \in Address /\ s(z) \in Int /\ s(z) >= 1
  <2>1. \A z \in B : z \in Int /\ 0 <= z /\ z \in Address
    BY HeapNumbers
  <2>2. \A z \in B : s(z) \in Int
    BY HeaderFields
  <2>3. QED
    BY <2>1, <2>2 DEF Tiled
<1>1. Follows(F, p, next) /\ next \in F
  BY DEF FreeList, Follows
<1>2. \A z, v \in B : z < v => z + s(z) <= v
  BY DEF Tiled
<1> HIDE DEF s
<1>3. ASSUME NEW x \in F, x + s(x) = b, x # p PROVE FALSE
  <2>1. x < b
    BY <1>0, <1>3
  <2>2. CASE x < p
    <3>1. x + s(x) <= p
      BY <1>2, <2>2
    <3>2. p < b => FALSE
      BY <1>0, <1>3, <3>1
    <3>3. b < p /\ b < next /\ next <= p
      BY <1>0, <1>1, <3>2
    <3>4. next <= x
      BY <1>0, <1>1, <3>3 DEF Follows
    <3>5. QED
      BY <1>0, <1>1, <2>1, <3>3, <3>4
  <2>3. CASE p < x
    <3>1. p + s(p) <= x /\ p < b
      BY <1>0, <1>2, <2>1, <2>3
    <3>2. QED
      BY <1>0, <1>1, <2>1, <2>3, <3>1 DEF Follows
  <2>4. QED
    BY <1>0, <1>3, <2>2, <2>3
<1>4. ASSUME NEW y \in F, b + s(b) = y, y # next PROVE FALSE
  <2>1. b < y
    BY <1>0, <1>4
  <2>2. b < next => b + s(b) <= next
    BY <1>1, <1>2
  <2>3. QED
    BY <1>0, <1>1, <1>4, <2>1, <2>2 DEF Follows
<1>5. QED
  BY <1>3, <1>4 DEF s

(* Block b belongs between p and next, the block after it.                 *)
Belongs(p, b, next) == (p < b /\ b < next) \/ (p >= next /\ (b > p \/ b < next))

(* The headers after the first join of free(), and after the second.       *)
IsUpper(upper, hd, b, next) ==
  upper = IF b + hd[b].size = next
          THEN [hd EXCEPT ![b] = [ptr |-> hd[next].ptr, size |-> hd[b].size + hd[next].size]]
          ELSE [hd EXCEPT ![b].ptr = next]

IsLower(new, upper, p, b) ==
  new = IF p + upper[p].size = b
        THEN [upper EXCEPT ![p] = [ptr |-> upper[b].ptr,
                                   size |-> upper[p].size + upper[b].size]]
        ELSE [upper EXCEPT ![p].ptr = b]

(* The first join is done: some free blocks G are still on the list.       *)
FirstJoinDone(upper, p, b, U, F) ==
  \E nx, G : G \subseteq F /\ HalfJoined(upper, nx, p, b, U \cup G, G \cup {b})

(* The first join of free().                                               *)
LEMMA UpperJoin ==
  ASSUME NEW hd, HeadersOK(hd), NEW U \in SUBSET Address, NEW F \in SUBSET Address,
         U \cap F = {}, Tiled(hd, U \cup F), FreeList(hd, F), 0 \in F,
         NEW b \in U, NEW p \in F, NEW next, next = hd[p].ptr,
         Belongs(p, b, next), NEW upper, IsUpper(upper, hd, b, next)
  PROVE  FirstJoinDone(upper, p, b, U, F)
<1> DEFINE B == U \cup F
<1>0. /\ B \in SUBSET Address /\ F \subseteq B /\ b \in B /\ b \notin F /\ p # b
      /\ b \in Address /\ p \in Address /\ p \in B
      /\ \A x \in Address : x \in Int /\ 0 <= x /\ x < UNITS
  BY HeapNumbers
<1>1. Follows(F, p, next) /\ next \in F /\ next \in Address /\ next # b /\ next \in B
  BY <1>0 DEF FreeList, Follows
<1>2. /\ \A x \in F : x + hd[x].size = b => x = p
      /\ \A y \in F : b + hd[b].size = y => y = next
  BY <1>0, BesideNothing DEF Belongs
<1>3. /\ \A x, y \in F : x + hd[x].size # y
      /\ Chained([x \in Address |-> hd[x].ptr], F)
  BY DEF FreeList, Chained
<1>s. \A x \in Address : hd[x].size \in Nat /\ hd[x].ptr \in Address
  BY HeaderFields
<1> DEFINE nx1 == [x \in Address |-> IF x = p THEN b ELSE IF x = b THEN next ELSE hd[x].ptr]
<1>4. Chained(nx1, F \cup {b}) /\ nx1[p] = b /\ nx1[b] = next
  <2>1. \A x \in Address : nx1[x] = IF x = p THEN b ELSE IF x = b THEN next
                                    ELSE [y \in Address |-> hd[y].ptr][x]
    OBVIOUS
  <2>2. next = [y \in Address |-> hd[y].ptr][p]
    BY <1>0
  <2>3. Chained(nx1, F \cup {b})
    <3> HIDE DEF nx1
    <3>1. PICK old : old = [y \in Address |-> hd[y].ptr]
      OBVIOUS
    <3>2. QED
      BY <1>0, <1>3, <2>1, <2>2, <3>1, InsertLink DEF Belongs
  <2>4. QED
    BY <1>0, <2>3
<1>5. CASE b + hd[b].size # next
  <2>1. upper = [hd EXCEPT ![b].ptr = next]
    BY <1>5 DEF IsUpper
  <2>2. HeadersOK(upper) /\ PtrSet(upper, hd, b, next)
    BY <1>0, <1>1, <2>1, SetPtr
  <2>3. \A x \in Address : /\ upper[x].size = hd[x].size
                           /\ upper[x].ptr = IF x = b THEN next ELSE hd[x].ptr
    BY <2>2 DEF PtrSet
  <2>4. Tiled(upper, B)
    <3>1. SizesStay(upper, hd, B)
      BY <1>0, <2>3 DEF SizesStay
    <3>2. QED
      BY <3>1, SameSizes
  <2>5. \A x \in Address : nx1[x] = IF x = p THEN b ELSE upper[x].ptr
    BY <2>3
  <2>6. ASSUME NEW x \in F \cup {b}, NEW y \in F \cup {b}, x + upper[x].size = y
        PROVE  x = p /\ y = b
    <3>1. x \in Address /\ x + hd[x].size = y /\ hd[x].size >= 1
      BY <1>0, <2>3, <2>6 DEF Tiled
    <3>2. CASE x = b
      BY <1>0, <1>2, <1>5, <1>s, <3>1, <3>2
    <3>3. CASE x \in F /\ y \in F
      BY <1>3, <3>1, <3>3
    <3>4. CASE x \in F /\ y = b
      BY <1>2, <3>1, <3>4
    <3>5. QED
      BY <3>2, <3>3, <3>4
  <2> HIDE DEF nx1
  <2>7. HalfJoined(upper, nx1, p, b, U \cup F, F \cup {b})
    BY <1>0, <1>4, <2>2, <2>4, <2>5, <2>6 DEF HalfJoined
  <2>8. QED
    BY <2>7 DEF FirstJoinDone
<1>6. CASE b + hd[b].size = next
  <2> DEFINE n == hd[b].size + hd[next].size
             q == hd[next].ptr
             G == F \ {next}
             nx2 == [nx1 EXCEPT ![b] = nx1[next]]
  <2>0. upper = [hd EXCEPT ![b] = [ptr |-> q, size |-> n]]
    BY <1>6 DEF IsUpper
  <2>1. b < next
    BY <1>0, <1>1, <1>6, <1>s DEF Tiled
  <2>2. next # p
    <3>1. SUFFICES ASSUME next = p PROVE FALSE
      OBVIOUS
    <3>2. p = 0
      BY <1>0, <1>1, <3>1 DEF Follows
    <3>3. b \in Int /\ 0 <= b
      BY <1>0
    <3>4. QED
      BY <2>1, <3>1, <3>2, <3>3
  <2>3. q \in Address
    BY <1>1, <1>s
  <2>4. n \in 0..UNITS
    <3>1. hd[b].size \in Nat /\ hd[next].size \in Nat /\ next + hd[next].size <= UNITS
      BY <1>0, <1>1, <1>s DEF Tiled
    <3>2. QED
      BY <1>0, <1>1, <1>6, <3>1, HeapNumbers
  <2> HIDE DEF n, q
  <2>5. HeadersOK(upper) /\ HeaderSet(upper, hd, b, q, n)
    BY <1>0, <2>0, <2>3, <2>4, SetHeader
  <2>6. \A x \in Address : /\ upper[x].ptr = IF x = b THEN q ELSE hd[x].ptr
                           /\ upper[x].size = IF x = b THEN n ELSE hd[x].size
    BY <2>5 DEF HeaderSet
  <2>7. Tiled(upper, B \ {next})
    <3>1. Merged(upper, hd, b, next)
      BY <2>6 DEF n, Merged
    <3>3. Tiled(hd, B)
      OBVIOUS
    <3> HIDE DEF B
    <3>2. QED
      BY <1>0, <1>1, <1>6, <3>1, <3>3, MergeKeeps
  <2>8. B \ {next} = U \cup G
    BY <1>1
  <2>9. Chained(nx2, (F \cup {b}) \ {next})
    <3>1. F \cup {b} \in SUBSET Address /\ b \in F \cup {b} /\ next \in F \cup {b} /\ next # b
      BY <1>0, <1>1
    <3>2. \A x \in Address : nx2[x] = IF x = b THEN nx1[next] ELSE nx1[x]
      OBVIOUS
    <3> HIDE DEF nx1, nx2
    <3>3. QED
      BY <1>4, <3>1, <3>2, RemoveLink
  <2>10. (F \cup {b}) \ {next} = G \cup {b}
    BY <1>1
  <2>11. \A x \in Address : nx2[x] = IF x = p THEN b ELSE upper[x].ptr
    <3>1. nx1[next] = q
      BY <1>1, <2>2 DEF q
    <3>2. QED
      BY <1>0, <2>6, <3>1
  <2>12. ASSUME NEW x \in G \cup {b}, NEW y \in G \cup {b}, x + upper[x].size = y
         PROVE  x = p /\ y = b
    <3>1. x \in Address /\ y \in Address
      BY <1>0, <2>12
    <3>2. CASE x = b
      <4>1. next + hd[next].size = y
        BY <1>0, <1>1, <1>6, <1>s, <2>6, <2>12, <3>2 DEF n
      <4>2. y # b
        BY <1>0, <1>1, <1>s, <2>1, <4>1
      <4>3. QED
        BY <1>1, <1>3, <2>12, <4>1, <4>2
    <3>3. CASE x # b /\ y # b
      BY <1>3, <2>6, <2>12, <3>1, <3>3
    <3>4. CASE x # b /\ y = b
      BY <1>2, <2>6, <2>12, <3>1, <3>4
    <3>5. QED
      BY <3>2, <3>3, <3>4
  <2> HIDE DEF nx1, nx2
  <2>13. p \in G \cup {b} /\ G \cup {b} \subseteq U \cup G /\ U \cup G \subseteq Address
    BY <1>0, <2>2
  <2>14. HalfJoined(upper, nx2, p, b, U \cup G, G \cup {b})
    BY <1>0, <2>5, <2>7, <2>8, <2>9, <2>10, <2>11, <2>12, <2>13 DEF HalfJoined
  <2>15. QED
    BY <2>14 DEF FirstJoinDone
<1>7. QED
  BY <1>5, <1>6

(* The second join of free().                                              *)
LEMMA LowerJoin ==
  ASSUME NEW U \in SUBSET Address, NEW G, U \cap G = {}, NEW b \in U,
         NEW upper, NEW nx, NEW p, HalfJoined(upper, nx, p, b, U \cup G, G \cup {b}),
         NEW new, IsLower(new, upper, p, b)
  PROVE  \E H : Sound([freep |-> p, hdr |-> new], U \ {b}, H)
<1> DEFINE B == U \cup G
<1>0. /\ HeadersOK(upper) /\ Tiled(upper, B) /\ B \in SUBSET Address
      /\ p \in G /\ p \in Address /\ b \in Address /\ p # b /\ b \notin G
      /\ p \in B /\ b \in B /\ Chained(nx, G \cup {b}) /\ G \cup {b} \in SUBSET Address
      /\ \A x \in Address : nx[x] = IF x = p THEN b ELSE upper[x].ptr
  BY DEF HalfJoined
<1>1. \A x, y \in G \cup {b} : x + upper[x].size = y => x = p /\ y = b
  BY DEF HalfJoined
<1>s. \A x \in Address : upper[x].size \in Nat /\ upper[x].ptr \in Address /\ x \in Int
  BY <1>0, HeaderFields, HeapNumbers
<1>2. CASE p + upper[p].size # b
  <2>1. new = [upper EXCEPT ![p].ptr = b]
    BY <1>2 DEF IsLower
  <2>2. HeadersOK(new) /\ PtrSet(new, upper, p, b)
    BY <1>0, <2>1, SetPtr
  <2>3. \A x \in Address : new[x].size = upper[x].size /\ new[x].ptr = nx[x]
    BY <1>0, <2>2 DEF PtrSet
  <2>4. FreeList(new, G \cup {b})
    <3>1. \A x \in G \cup {b} : Follows(G \cup {b}, x, new[x].ptr)
      BY <1>0, <2>3 DEF Chained
    <3>2. \A x, y \in G \cup {b} : x + new[x].size # y
      BY <1>0, <1>1, <1>2, <2>3
    <3>3. QED
      BY <1>0, <3>1, <3>2 DEF FreeList
  <2>5. Tiled(new, (U \ {b}) \cup (G \cup {b}))
    <3>1. (U \ {b}) \cup (G \cup {b}) = B
      BY <1>0
    <3>2. SizesStay(new, upper, B)
      BY <1>0, <2>3 DEF SizesStay
    <3>3. QED
      BY <1>0, <3>1, <3>2, SameSizes
  <2>6. Sound([freep |-> p, hdr |-> new], U \ {b}, G \cup {b})
    BY <1>0, <2>2, <2>4, <2>5 DEF Sound
  <2>7. QED
    BY <2>6
<1>3. CASE p + upper[p].size = b
  <2> DEFINE n == upper[p].size + upper[b].size
             q == upper[b].ptr
  <2>0. new = [upper EXCEPT ![p] = [ptr |-> q, size |-> n]]
    BY <1>3 DEF IsLower
  <2>1. q \in Address /\ nx[b] = q /\ nx[p] = b
    BY <1>0, <1>s
  <2>2. n \in 0..UNITS
    <3>1. upper[b].size \in Nat /\ upper[p].size \in Nat /\ b + upper[b].size <= UNITS
      BY <1>0, <1>s DEF Tiled
    <3>2. QED
      BY <1>0, <1>3, <3>1, HeapNumbers
  <2> HIDE DEF n, q
  <2>3. HeadersOK(new) /\ HeaderSet(new, upper, p, q, n)
    <3>1. HeadersOK(upper) /\ p \in Address /\ q \in Address
      BY <1>0, <2>1
    <3>2. QED
      BY <2>0, <2>2, <3>1, SetHeader
  <2>4. \A x \in Address : /\ new[x].ptr = IF x = p THEN q ELSE upper[x].ptr
                           /\ new[x].size = IF x = p THEN n ELSE upper[x].size
    BY <2>3 DEF HeaderSet
  <2>5. Tiled(new, B \ {b})
    <3>1. Merged(new, upper, p, b)
      BY <2>4 DEF n, Merged
    <3> HIDE DEF B
    <3>2. QED
      BY <1>0, <1>3, <3>1, MergeKeeps
  <2>6. B \ {b} = (U \ {b}) \cup G
    BY <1>0
  <2>7. Chained([x \in Address |-> new[x].ptr], (G \cup {b}) \ {b})
    <3>1. PICK links : links = [x \in Address |-> new[x].ptr]
      OBVIOUS
    <3>2. \A x \in Address : links[x] = IF x = p THEN nx[b] ELSE nx[x]
      BY <1>0, <2>1, <2>4, <3>1
    <3>3. p \in G \cup {b} /\ b \in G \cup {b} /\ b # p
      BY <1>0
    <3>4. QED
      BY <1>0, <2>1, <3>1, <3>2, <3>3, RemoveLink
  <2>8. (G \cup {b}) \ {b} = G
    BY <1>0
  <2>9. FreeList(new, G)
    <3>1. \A x \in G : Follows(G, x, new[x].ptr)
      BY <1>0, <2>7, <2>8 DEF Chained
    <3>2. ASSUME NEW x \in G, NEW y \in G, x + new[x].size = y PROVE FALSE
      <4>1. x \in Address /\ y # b
        BY <1>0, <3>2
      <4>2. CASE x = p
        <5>1. b + upper[b].size = y
          BY <1>0, <1>3, <1>s, <2>4, <3>2, <4>2 DEF n
        <5>2. QED
          BY <1>0, <1>1, <3>2, <5>1
      <4>3. CASE x # p
        BY <1>1, <2>4, <3>2, <4>1, <4>3
      <4>4. QED
        BY <4>2, <4>3
    <3>3. QED
      BY <1>0, <3>1, <3>2 DEF FreeList
  <2>10. Sound([freep |-> p, hdr |-> new], U \ {b}, G)
    BY <1>0, <2>3, <2>5, <2>6, <2>9 DEF Sound
  <2>11. QED
    BY <2>10
<1>4. QED
  BY <1>2, <1>3

(* free() keeps the heap sound as long as its lowest block is on the list. *)
LEMMA ReleaseKeeps ==
  ASSUME NEW h, NEW U, NEW F, Sound(h, U, F), 0 \notin U, NEW b \in U
  PROVE  \E G : Sound(Release(h, b), U \ {b}, G)
<1>0. /\ 0 \in F /\ FreeList(h.hdr, F) /\ h.freep \in F /\ HeadersOK(h.hdr)
      /\ U \in SUBSET Address /\ F \in SUBSET Address /\ U \cap F = {}
      /\ Tiled(h.hdr, U \cup F) /\ b \in Address /\ b \notin F
  BY LowestIsFree DEF Sound, FreeList
<1>1. PICK p : p = Walk(h)[Min(Places(h, b))]
  OBVIOUS
<1>2. p \in F /\ Between(h, p, b)
  BY <1>0, <1>1, APlaceExists
<1>3. PICK next : next = h.hdr[p].ptr
  OBVIOUS
<1>4. Belongs(p, b, next)
  BY <1>2, <1>3 DEF Between, Belongs
<1>5. PICK upper : IsUpper(upper, h.hdr, b, next)
  BY DEF IsUpper
<1>6. PICK new : IsLower(new, upper, p, b)
  BY DEF IsLower
<1>7. Join(h.hdr, p, b) = new
  BY <1>3, <1>5, <1>6, Zenon DEF Join, IsUpper, IsLower
<1>8. Release(h, b) = [freep |-> p, hdr |-> new]
  BY <1>1, <1>7, Zenon DEF Release
<1>9. PICK nx, G : G \subseteq F /\ HalfJoined(upper, nx, p, b, U \cup G, G \cup {b})
  <2>1. PICK hd : hd = h.hdr
    OBVIOUS
  <2>2. /\ HeadersOK(hd) /\ Tiled(hd, U \cup F) /\ FreeList(hd, F)
        /\ next = hd[p].ptr /\ IsUpper(upper, hd, b, next)
    BY <1>0, <1>3, <1>5, <2>1
  <2>3. U \in SUBSET Address /\ F \in SUBSET Address /\ U \cap F = {} /\ 0 \in F
    BY <1>0
  <2>4. FirstJoinDone(upper, p, b, U, F)
    BY <1>2, <1>4, <2>2, <2>3, UpperJoin
  <2>5. QED
    BY <2>4 DEF FirstJoinDone
<1>10. U \cap G = {} /\ U \in SUBSET Address
  BY <1>0, <1>9
<1>11. \E G1 : Sound([freep |-> p, hdr |-> new], U \ {b}, G1)
  BY <1>6, <1>9, <1>10, LowerJoin, Zenon
<1>12. QED
  BY <1>8, <1>11

(* The blocks in use and those of a free list in address order divide the  *)
(* heap, and no two free blocks touch.                                     *)
HeapInv == \E F : Sound(Heap, used, F)

(* The lowest block was not handed out.                                    *)
LowestIsKept == 0 \notin used

LEMMA HeapInitSound == HeapInit => HeapInv /\ LowestIsKept
<1> SUFFICES ASSUME HeapInit PROVE HeapInv /\ LowestIsKept
  OBVIOUS
<1>0. /\ UNITS \in Nat /\ UNITS > 0 /\ 0 \in Address
      /\ \A x \in Address : x \in Int /\ 0 <= x /\ x < UNITS
  BY HeapNumbers
<1>1. /\ hdr[0].ptr = 0 /\ hdr[0].size = UNITS /\ freep = 0 /\ used = {}
  BY <1>0 DEF HeapInit
<1>2. HeadersOK(hdr)
  BY <1>0 DEF HeapInit, HeadersOK
<1>3. FreeList(hdr, {0})
  BY <1>0, <1>1 DEF FreeList, Follows
<1>4. Tiled(hdr, used \cup {0})
  <2>1. used \cup {0} = {0}
    BY <1>1
  <2>2. Tiled(hdr, {0})
    BY <1>0, <1>1 DEF Tiled
  <2>3. QED
    BY <2>1, <2>2
<1>5. Sound(Heap, used, {0})
  BY <1>0, <1>1, <1>2, <1>3, <1>4 DEF Sound, Heap
<1>6. QED
  BY <1>1, <1>5 DEF HeapInv, LowestIsKept

LEMMA BecomesIs ==
  ASSUME NEW h, Becomes(h), NEW U, NEW F, Sound(h, U, F), used' = U
  PROVE  HeapInv'
<1>1. freep' = h.freep /\ hdr' = h.hdr
  BY DEF Becomes
<1>2. Heap'.freep = h.freep /\ Heap'.hdr = h.hdr
  BY <1>1 DEF Heap
<1>3. Sound(Heap', used', F)
  BY <1>2 DEF Sound
<1>4. QED
  BY <1>3 DEF HeapInv

LEMMA HeapStep ==
  HeapInv /\ LowestIsKept /\ LowestIsKept' /\ [HeapNext]_heapVars => HeapInv'
<1> SUFFICES ASSUME HeapInv, LowestIsKept, LowestIsKept', [HeapNext]_heapVars
             PROVE  HeapInv'
  OBVIOUS
<1>0. PICK F : Sound(Heap, used, F)
  BY DEF HeapInv
<1>u. 0 \notin used /\ 0 \notin used'
  BY DEF LowestIsKept
<1>1. CASE UNCHANGED heapVars
  BY <1>1 DEF heapVars, HeapInv, Heap
<1>2. ASSUME NEW n \in Requests, Malloc(n) PROVE HeapInv'
  <2>1. PICK a : a = Allocate(Heap, n)
    OBVIOUS
  <2>2. /\ Becomes(a.heap)
        /\ used' = IF a.block = NIL THEN used ELSE used \cup {a.block}
    BY <1>2, <2>1 DEF Malloc
  <2>3. a.block # 0
    BY <1>u, <2>2, HeapNumbers
  <2>4. CASE a.block = NIL /\ a.heap = Heap
    <3>1. Sound(a.heap, used, F) /\ used' = used
      BY <1>0, <2>2, <2>4
    <3>2. QED
      BY <2>2, <3>1, BecomesIs
  <2>5. CASE a.block \in Address \ used /\ \E G : Sound(a.heap, used \cup {a.block}, G)
    <3>1. used' = used \cup {a.block}
      BY <2>2, <2>5, HeapNumbers
    <3>2. QED
      BY <2>2, <2>5, <3>1, BecomesIs
  <2>6. QED
    BY <1>0, <1>u, <2>1, <2>3, <2>4, <2>5, AllocateKeeps
<1>3. ASSUME NEW b \in used, Free(b) PROVE HeapInv'
  <2>1. PICK G : Sound(Release(Heap, b), used \ {b}, G)
    BY <1>0, <1>u, ReleaseKeeps
  <2>2. Becomes(Release(Heap, b)) /\ used' = used \ {b}
    BY <1>3 DEF Free
  <2>3. QED
    BY <2>1, <2>2, BecomesIs
<1>4. ASSUME NEW b \in used, NEW n \in Requests, Realloc(b, n) PROVE HeapInv'
  <2>1. PICK a : a = Allocate(Heap, n)
    OBVIOUS
  <2>2. CASE a.block = NIL
    <3>1. UNCHANGED heapVars
      BY <1>4, <2>1, <2>2 DEF Realloc
    <3>2. QED
      BY <3>1 DEF heapVars, HeapInv, Heap
  <2>3. CASE a.block # NIL
    <3>1. /\ Becomes(Release(a.heap, b))
          /\ used' = (used \ {b}) \cup {a.block}
      BY <1>4, <2>1, <2>3 DEF Realloc
    <3>2. a.block # 0
      BY <1>u, <3>1
    <3>3. a.block \in Address \ used /\ \E G : Sound(a.heap, used \cup {a.block}, G)
      BY <1>0, <1>u, <2>1, <2>3, <3>2, AllocateKeeps
    <3>4. PICK G : Sound(a.heap, used \cup {a.block}, G)
      BY <3>3
    <3>5. 0 \notin used \cup {a.block} /\ b \in used \cup {a.block}
      BY <1>u, <3>2
    <3>6. PICK H : Sound(Release(a.heap, b), (used \cup {a.block}) \ {b}, H)
      BY <3>4, <3>5, ReleaseKeeps
    <3>7. (used \cup {a.block}) \ {b} = (used \ {b}) \cup {a.block}
      BY <3>3
    <3>8. QED
      BY <3>1, <3>6, <3>7, BecomesIs
  <2>4. QED
    BY <2>2, <2>3
<1>5. QED
  BY <1>1, <1>2, <1>3, <1>4 DEF HeapNext

(* What the inductive invariant says of the heap as its users see it.      *)
LEMMA SoundHeapIsSound == HeapInv => HeapIsSound
<1> SUFFICES ASSUME NEW F, Sound(Heap, used, F) PROVE HeapIsSound
  BY DEF HeapInv
<1>0. /\ Heap.freep = freep /\ Heap.hdr = hdr
  BY DEF Heap
<1>1. /\ freep \in F /\ HeadersOK(hdr) /\ FreeList(hdr, F) /\ F \in SUBSET Address
      /\ used \in SUBSET Address /\ used \cap F = {} /\ Tiled(hdr, used \cup F)
  BY <1>0 DEF Sound, FreeList
<1>2. FreeBlocks(Heap) = F
  BY <1>0, <1>1, FreeBlocksAre
<1>3. ASSUME NEW u \in Address
      PROVE  Cardinality({b \in used \cup F : u \in UnitsOf(b)}) = 1
  <2>0. /\ \A x \in Address : x \in Int
        /\ \A x \in used \cup F : x \in Int /\ hdr[x].size \in Int
    <3>1. \A x \in Address : x \in Int
      BY HeapNumbers
    <3>2. \A x \in used \cup F : hdr[x].size \in Int
      BY <1>1, HeaderFields
    <3>3. QED
      BY <1>1, <3>1, <3>2
  <2>1. PICK b \in used \cup F : b <= u /\ u < b + hdr[b].size
    BY <1>1 DEF Tiled
  <2>2. \A c \in used \cup F : u \in UnitsOf(c) <=> c <= u /\ u < c + hdr[c].size
    BY <2>0 DEF UnitsOf
  <2>3. \A c \in used \cup F : u \in UnitsOf(c) => c = b
    <3>1. SUFFICES ASSUME NEW c \in used \cup F, u \in UnitsOf(c), c # b PROVE FALSE
      OBVIOUS
    <3>2. c < b => c + hdr[c].size <= b
      BY <1>1 DEF Tiled
    <3>3. b < c => b + hdr[b].size <= c
      BY <1>1 DEF Tiled
    <3>4. c <= u /\ u < c + hdr[c].size
      BY <2>2, <3>1
    <3>5. QED
      BY <2>0, <2>1, <3>1, <3>2, <3>3, <3>4
  <2>4. {c \in used \cup F : u \in UnitsOf(c)} = {b}
    BY <2>1, <2>2, <2>3
  <2>5. Cardinality({b}) = 1
    BY FS_Singleton
  <2>6. QED
    BY <2>4, <2>5
<1>4. BlocksPartitionTheHeap
  BY <1>1, <1>2, <1>3 DEF BlocksPartitionTheHeap
<1>5. FreeBlocksAreJoined
  BY <1>1, <1>2 DEF FreeBlocksAreJoined, FreeList
<1>6. ASSUME NEW b \in used PROVE Places(Heap, b) # {}
  <2>1. b \in Address /\ b \notin F
    BY <1>1
  <2>2. QED
    BY <1>0, <1>1, <2>1, APlaceExists
<1>7. freep \in Address /\ hdr \in [Address -> [ptr : Address, size : 0..UNITS]]
  BY <1>1 DEF HeadersOK
<1>8. QED
  BY <1>1, <1>4, <1>5, <1>6, <1>7 DEF HeapIsSound

(* As long as its lowest block is free, malloc(), realloc() and free()     *)
(* keep the blocks of the heap apart and its free neighbours joined, and   *)
(* free() finds the place of the block it is given.                        *)
THEOREM HeapStaysSound == HeapSpec /\ []LowestIsKept => []HeapIsSound
<1>1. HeapInit => HeapInv
  BY HeapInitSound
<1>2. QED
  BY <1>1, HeapStep, SoundHeapIsSound, PTL DEF HeapSpec

-----------------------------------------------------------------------------
(* The reception ring of the Ethernet driver is a FIFO of frames.          *)

(* Induction from m to n, on a set.                                        *)
LEMMA FromTo ==
  ASSUME NEW m \in Nat, NEW n \in Nat, m <= n, NEW T, m \in T,
         \A k \in (m + 1)..n : k - 1 \in T => k \in T
  PROVE  \A k \in m..n : k \in T
<1> DEFINE S == {j \in 0..(n - m) : m + j \in T}
<1>1. 0 \in S /\ n - m \in Nat
  OBVIOUS
<1>2. \A j \in 1..(n - m) : j - 1 \in S => j \in S
  <2> SUFFICES ASSUME NEW j \in 1..(n - m), j - 1 \in S PROVE j \in S
    OBVIOUS
  <2>1. m + j \in (m + 1)..n /\ (m + j) - 1 = m + (j - 1) /\ j \in 0..(n - m)
    OBVIOUS
  <2>2. m + (j - 1) \in T
    OBVIOUS
  <2>3. m + j \in T
    BY <2>1, <2>2
  <2>4. QED
    BY <2>1, <2>3
<1>3. \A j \in 0..(n - m) : j \in S
  <2> HIDE DEF S
  <2>1. QED
    BY <1>1, <1>2, UpTo
<1>4. ASSUME NEW k \in m..n PROVE k \in T
  <2>1. k - m \in 0..(n - m) /\ m + (k - m) = k
    OBVIOUS
  <2>2. k - m \in S
    BY <1>3, <2>1
  <2>3. QED
    BY <2>1, <2>2
<1>5. QED
  BY <1>4

(* A function from m to n whose values follow from the one before.         *)
Rows(f, m, n, a, g) == f = [k \in m..n |-> IF k = m THEN a ELSE g[k][f[k - 1]]]

LEMMA RowsExist ==
  ASSUME NEW m \in Nat, NEW n \in Nat, m <= n, NEW S, NEW a \in S,
         NEW g, \A k \in (m + 1)..n : \A x \in S : g[k][x] \in S
  PROVE  \E f \in [m..n -> S] : Rows(f, m, n, a, g)
<1> DEFINE T == {l \in m..n : \E f \in [m..l -> S] : Rows(f, m, l, a, g)}
<1>1. m \in T
  <2> DEFINE f == [k \in m..m |-> a]
  <2>1. f \in [m..m -> S] /\ Rows(f, m, m, a, g)
    BY DEF Rows
  <2> HIDE DEF f
  <2>2. QED
    BY <2>1
<1>2. ASSUME NEW l \in (m + 1)..n, l - 1 \in T PROVE l \in T
  <2>1. PICK v \in [m..(l - 1) -> S] : Rows(v, m, l - 1, a, g)
    BY <1>2
  <2>2. \A k \in m..(l - 1) : v[k] \in S /\ v[k] = IF k = m THEN a ELSE g[k][v[k - 1]]
    BY <2>1 DEF Rows
  <2>3. PICK b : b = g[l][v[l - 1]]
    OBVIOUS
  <2>4. b \in S /\ l - 1 \in m..(l - 1)
    BY <2>2, <2>3
  <2> DEFINE f == [k \in m..l |-> IF k < l THEN v[k] ELSE b]
  <2>5. f \in [m..l -> S]
    BY <2>2, <2>4
  <2>6. ASSUME NEW k \in m..l PROVE f[k] = IF k = m THEN a ELSE g[k][f[k - 1]]
    <3>1. CASE k = l
      <4>1. f[l - 1] = v[l - 1] /\ f[l] = b /\ l # m
        BY <2>4
      <4>2. QED
        BY <2>3, <3>1, <4>1
    <3>2. CASE k < l
      <4>1. f[k] = v[k] /\ (k # m => f[k - 1] = v[k - 1]) /\ k \in m..(l - 1)
        BY <3>2
      <4>2. QED
        BY <2>2, <4>1
    <3>3. QED
      BY <3>1, <3>2
  <2>7. Rows(f, m, l, a, g)
    BY <2>6 DEF Rows
  <2> HIDE DEF f
  <2>8. QED
    BY <2>5, <2>7
<1>3. n \in T
  <2> HIDE DEF T
  <2>1. \A k \in m..n : k \in T
    BY <1>1, <1>2, FromTo
  <2>2. QED
    BY <2>1
<1>4. QED
  BY <1>3

(* What is in descriptors, and in them up to some one.                     *)
Content == Seq((1..MaxArrivals) \X Nat)
BytesOK(d) == \A k \in 1..RX_DESCRIPTORS : d[k].bytes \in Content
Cuts == [frames : Seq(Content), part : Content]
NoCut == [frames |-> <<>>, part |-> <<>>]

CutNext(d, k, x) ==
  IF d[k].eop
  THEN [frames |-> Append(x.frames, x.part \o d[k].bytes), part |-> <<>>]
  ELSE [frames |-> x.frames, part |-> x.part \o d[k].bytes]

LEMMA CutNextIn ==
  ASSUME NEW d, BytesOK(d), NEW k \in 1..RX_DESCRIPTORS, NEW x \in Cuts
  PROVE  CutNext(d, k, x) \in Cuts
<1>1. x.frames \in Seq(Content) /\ x.part \in Content /\ d[k].bytes \in Content
  BY DEF BytesOK, Cuts
<1>2. x.part \o d[k].bytes \in Content /\ <<>> \in Content
  BY <1>1 DEF Content
<1>3. Append(x.frames, x.part \o d[k].bytes) \in Seq(Content)
  BY <1>1, <1>2
<1>4. QED
  BY <1>1, <1>2, <1>3 DEF CutNext, Cuts

LEMMA CutIs ==
  ASSUME NEW d, BytesOK(d), NEW m \in 0..RX_DESCRIPTORS
  PROVE  /\ Cut(d, m) \in [m..RX_DESCRIPTORS -> Cuts]
         /\ Cut(d, m)[m] = NoCut
         /\ \A k \in (m + 1)..RX_DESCRIPTORS : Cut(d, m)[k] = CutNext(d, k, Cut(d, m)[k - 1])
<1>0. RX_DESCRIPTORS \in Nat /\ m \in Nat /\ m <= RX_DESCRIPTORS
  BY DmaAssumption
<1> DEFINE g == [k \in 1..RX_DESCRIPTORS |-> [x \in Cuts |-> CutNext(d, k, x)]]
<1>1. NoCut \in Cuts
  BY DEF NoCut, Cuts, Content
<1>2. \A k \in (m + 1)..RX_DESCRIPTORS : \A x \in Cuts :
         g[k][x] \in Cuts /\ g[k][x] = CutNext(d, k, x)
  BY <1>0, CutNextIn
<1> HIDE DEF g
<1>3. PICK f \in [m..RX_DESCRIPTORS -> Cuts] : Rows(f, m, RX_DESCRIPTORS, NoCut, g)
  BY <1>0, <1>1, <1>2, RowsExist
<1>4. \A k \in m..RX_DESCRIPTORS :
         f[k] = IF k = m THEN NoCut ELSE CutNext(d, k, f[k - 1])
  <2> SUFFICES ASSUME NEW k \in m..RX_DESCRIPTORS
               PROVE f[k] = IF k = m THEN NoCut ELSE CutNext(d, k, f[k - 1])
    OBVIOUS
  <2>1. f[k] = IF k = m THEN NoCut ELSE g[k][f[k - 1]]
    BY <1>3 DEF Rows
  <2>2. CASE k = m
    BY <2>1, <2>2
  <2>3. CASE k # m
    <3>1. k \in (m + 1)..RX_DESCRIPTORS /\ k - 1 \in m..RX_DESCRIPTORS
      BY <1>0, <2>3
    <3>2. f[k - 1] \in Cuts
      BY <3>1
    <3>3. QED
      BY <1>2, <2>1, <2>3, <3>1, <3>2
  <2>4. QED
    BY <2>2, <2>3
<1> DEFINE Is(h) ==
      h = [k \in m..RX_DESCRIPTORS |->
             IF k = m
             THEN [frames |-> <<>>, part |-> <<>>]
             ELSE LET part == h[k - 1].part \o d[k].bytes
                  IN IF d[k].eop
                     THEN [frames |-> Append(h[k - 1].frames, part), part |-> <<>>]
                     ELSE [frames |-> h[k - 1].frames, part |-> part]]
<1>5. \A h : Is(h) <=> h = [k \in m..RX_DESCRIPTORS |->
                              IF k = m THEN NoCut ELSE CutNext(d, k, h[k - 1])]
  BY Zenon DEF NoCut, CutNext
<1>6. Cut(d, m) = CHOOSE h : Is(h)
  BY Zenon DEF Cut
<1> HIDE DEF Is
<1>7. Is(f)
  <2>1. f = [k \in m..RX_DESCRIPTORS |-> IF k = m THEN NoCut ELSE CutNext(d, k, f[k - 1])]
    BY <1>4
  <2>2. QED
    BY <1>5, <2>1
<1>8. Is(Cut(d, m))
  BY <1>6, <1>7
<1>9. PICK h : h = Cut(d, m)
  OBVIOUS
<1>10. \A k \in m..RX_DESCRIPTORS :
         h[k] = IF k = m THEN NoCut ELSE CutNext(d, k, h[k - 1])
  BY <1>5, <1>8, <1>9
<1>d. h = [k \in m..RX_DESCRIPTORS |-> h[k]]
  <2>1. h = [k \in m..RX_DESCRIPTORS |-> IF k = m THEN NoCut ELSE CutNext(d, k, h[k - 1])]
    BY <1>5, <1>8, <1>9
  <2>2. QED
    BY <2>1
<1>11. m \in m..RX_DESCRIPTORS
  BY <1>0
<1> DEFINE P == {k \in m..RX_DESCRIPTORS : h[k] \in Cuts}
<1>12. m \in P
  BY <1>1, <1>10, <1>11
<1>13. ASSUME NEW k \in (m + 1)..RX_DESCRIPTORS, k - 1 \in P PROVE k \in P
  <2>1. h[k - 1] \in Cuts /\ k \in 1..RX_DESCRIPTORS /\ k \in m..RX_DESCRIPTORS /\ k # m
    BY <1>0, <1>13
  <2>2. h[k] = CutNext(d, k, h[k - 1])
    BY <1>10, <2>1
  <2>3. QED
    BY <2>1, <2>2, CutNextIn
<1>14. \A k \in m..RX_DESCRIPTORS : k \in P
  <2> HIDE DEF P
  <2>1. QED
    BY <1>0, <1>12, <1>13, FromTo
<1>15. h \in [m..RX_DESCRIPTORS -> Cuts]
  BY <1>d, <1>14
<1>16. QED
  <2>1. \A k \in (m + 1)..RX_DESCRIPTORS : k \in m..RX_DESCRIPTORS /\ k # m
    BY <1>0
  <2>2. h[m] = NoCut /\ \A k \in (m + 1)..RX_DESCRIPTORS : h[k] = CutNext(d, k, h[k - 1])
    BY <1>10, <1>11, <2>1
  <2>3. QED
    BY <1>9, <1>15, <2>2

(* The descriptors from receive_index on.                                  *)
Descs == [k \in 1..RX_DESCRIPTORS |-> Desc(k)]

LEMMA DescIs ==
  ASSUME DmaTypeOK, NEW k \in 1..RX_DESCRIPTORS
  PROVE  /\ Ring(receive_index + k - 1) \in Index
         /\ Desc(k) \in Descriptor /\ Descs[k] = Desc(k)
<1> DEFINE m == k - 1
<1>1. m \in 0..RX_DESCRIPTORS /\ receive_index \in Index
  BY DmaAssumption DEF DmaTypeOK
<1> HIDE DEF m
<1>2. Ring(receive_index + m) \in Index
  BY <1>1, SlotIsAt
<1>3. receive_index + k - 1 = receive_index + m
  BY <1>1, DmaAssumption DEF m, Index
<1>4. Desc(k) \in Descriptor
  BY <1>2, <1>3 DEF Desc, DmaTypeOK
<1>5. QED
  BY <1>2, <1>3, <1>4 DEF Descs

LEMMA DescsFilled ==
  ASSUME DmaTypeOK
  PROVE  BytesOK(Descs)
BY DescIs DEF BytesOK, Descriptor, Content

(* What the copy has read after n descriptors.                             *)
LEMMA BytesIs ==
  ASSUME DmaTypeOK
  PROVE  /\ \A n \in 0..RX_DESCRIPTORS : Bytes(n) \in Content
         /\ Bytes(0) = <<>>
         /\ \A k \in 1..RX_DESCRIPTORS : Bytes(k) = Bytes(k - 1) \o Desc(k).bytes
<1>0. RX_DESCRIPTORS \in Nat /\ 0 \in Nat /\ 0 <= RX_DESCRIPTORS
  BY DmaAssumption
<1> DEFINE g == [k \in 1..RX_DESCRIPTORS |-> [x \in Content |-> x \o Desc(k).bytes]]
<1>c. \A k \in 1..RX_DESCRIPTORS : Desc(k).bytes \in Content
  BY DescIs DEF Descriptor, Content
<1>1. <<>> \in Content /\ \A k \in 1..RX_DESCRIPTORS : \A x \in Content :
          x \o Desc(k).bytes \in Content
  BY <1>c DEF Content
<1>2. \A k \in (0 + 1)..RX_DESCRIPTORS : \A x \in Content :
         g[k][x] \in Content /\ g[k][x] = x \o Desc(k).bytes
  BY <1>0, <1>1
<1> HIDE DEF g
<1>3. PICK f \in [0..RX_DESCRIPTORS -> Content] : Rows(f, 0, RX_DESCRIPTORS, <<>>, g)
  BY <1>0, <1>1, <1>2, RowsExist
<1>4. \A k \in 0..RX_DESCRIPTORS :
         f[k] = IF k = 0 THEN <<>> ELSE f[k - 1] \o Desc(k).bytes
  <2> SUFFICES ASSUME NEW k \in 0..RX_DESCRIPTORS
               PROVE f[k] = IF k = 0 THEN <<>> ELSE f[k - 1] \o Desc(k).bytes
    OBVIOUS
  <2>1. f[k] = IF k = 0 THEN <<>> ELSE g[k][f[k - 1]]
    BY <1>3 DEF Rows
  <2>2. CASE k = 0
    BY <2>1, <2>2
  <2>3. CASE k # 0
    <3>1. k \in (0 + 1)..RX_DESCRIPTORS /\ k - 1 \in 0..RX_DESCRIPTORS
      BY <1>0, <2>3
    <3>2. f[k - 1] \in Content
      BY <3>1
    <3>3. QED
      BY <1>2, <2>1, <2>3, <3>1, <3>2
  <2>4. QED
    BY <2>2, <2>3
<1> DEFINE Is(h) == h = [k \in 0..RX_DESCRIPTORS |->
                           IF k = 0 THEN <<>> ELSE h[k - 1] \o Desc(k).bytes]
<1>5. Is(f)
  BY <1>4
<1> DEFINE w == CHOOSE h : Is(h)
<1>6. Is(w)
  BY <1>5
<1>7. \A n : Bytes(n) = w[n]
  BY Zenon DEF Bytes
<1>8. \A k \in 0..RX_DESCRIPTORS : w[k] = IF k = 0 THEN <<>> ELSE w[k - 1] \o Desc(k).bytes
  <2>1. PICK h : h = w
    OBVIOUS
  <2>2. Is(h)
    BY <1>6, <2>1
  <2> HIDE DEF w
  <2>3. QED
    BY <2>1, <2>2
<1> HIDE DEF Is, w
<1> DEFINE P == {k \in 0..RX_DESCRIPTORS : w[k] \in Content}
<1>9. 0 \in P
  BY <1>0, <1>1, <1>8
<1>10. ASSUME NEW k \in 1..RX_DESCRIPTORS, k - 1 \in P PROVE k \in P
  <2>1. w[k - 1] \in Content /\ k \in 0..RX_DESCRIPTORS /\ k # 0
    BY <1>0, <1>10
  <2>2. w[k] = w[k - 1] \o Desc(k).bytes
    BY <1>8, <2>1
  <2>3. QED
    BY <1>1, <2>1, <2>2
<1>11. \A k \in 0..RX_DESCRIPTORS : k \in P
  <2> HIDE DEF P
  <2>1. QED
    BY <1>0, <1>9, <1>10, UpTo
<1>12. \A k \in 1..RX_DESCRIPTORS : k \in 0..RX_DESCRIPTORS /\ k # 0
  BY <1>0
<1>13. w[0] = <<>> /\ \A k \in 1..RX_DESCRIPTORS : w[k] = w[k - 1] \o Desc(k).bytes
  BY <1>8, <1>9, <1>12
<1>14. QED
  BY <1>7, <1>11, <1>13

(* Descriptor e holds what descriptor f does.                              *)
Alike(e, f) == (e.eop <=> f.eop) /\ e.bytes = f.bytes

LEMMA CutAlike ==
  ASSUME NEW d, NEW e, NEW k, NEW l, NEW x, Alike(d[k], e[l])
  PROVE  CutNext(d, k, x) = CutNext(e, l, x)
BY DEF Alike, CutNext

(* The same descriptors, s further, are cut the same.                      *)
LEMMA CutShifts ==
  ASSUME NEW d, BytesOK(d), NEW e, BytesOK(e), NEW s \in Nat, NEW m \in Nat,
         NEW n \in Nat, m <= n, n + s <= RX_DESCRIPTORS,
         \A k \in (m + 1)..n : Alike(e[k], d[k + s])
  PROVE  Cut(e, m)[n] = Cut(d, m + s)[n + s]
<1>0. RX_DESCRIPTORS \in Nat /\ m \in 0..RX_DESCRIPTORS /\ m + s \in 0..RX_DESCRIPTORS
  BY DmaAssumption
<1> DEFINE T == {k \in m..n : Cut(e, m)[k] = Cut(d, m + s)[k + s]}
<1>1. m \in T
  BY <1>0, CutIs
<1>2. ASSUME NEW k \in (m + 1)..n, k - 1 \in T PROVE k \in T
  <2>1. k \in (m + 1)..RX_DESCRIPTORS /\ k \in m..n
    BY <1>0
  <2>2. Cut(e, m)[k] = CutNext(e, k, Cut(e, m)[k - 1])
    BY <1>0, <2>1, CutIs
  <2> DEFINE l == k + s
  <2>3. l \in ((m + s) + 1)..RX_DESCRIPTORS /\ l - 1 = (k - 1) + s
    BY <1>0
  <2>4. Alike(e[k], d[l])
    OBVIOUS
  <2> HIDE DEF l
  <2>5. Cut(d, m + s)[l] = CutNext(d, l, Cut(d, m + s)[l - 1])
    BY <1>0, <2>3, CutIs
  <2>6. PICK x : x = Cut(e, m)[k - 1]
    OBVIOUS
  <2>7. x = Cut(d, m + s)[l - 1]
    BY <1>2, <2>3, <2>6
  <2>8. CutNext(e, k, x) = CutNext(d, l, x)
    BY <2>4, CutAlike
  <2>9. Cut(e, m)[k] = Cut(d, m + s)[l]
    BY <2>2, <2>5, <2>6, <2>7, <2>8
  <2>10. QED
    BY <2>1, <2>9 DEF l
<1>3. \A k \in m..n : k \in T
  <2> HIDE DEF T
  <2>1. QED
    BY <1>1, <1>2, FromTo
<1>4. n \in T
  BY <1>3
<1>5. QED
  BY <1>4

(* Without an end of packet no frame is complete.                          *)
LEMMA CutWaits ==
  ASSUME NEW d, BytesOK(d), NEW m \in 0..RX_DESCRIPTORS, NEW a \in m..RX_DESCRIPTORS,
         NEW b \in a..RX_DESCRIPTORS, \A k \in (a + 1)..b : ~d[k].eop
  PROVE  Cut(d, m)[b].frames = Cut(d, m)[a].frames
<1>0. RX_DESCRIPTORS \in Nat /\ a \in Nat /\ b \in Nat /\ a <= b
  BY DmaAssumption
<1> DEFINE T == {k \in a..b : Cut(d, m)[k].frames = Cut(d, m)[a].frames}
<1>1. a \in T
  BY <1>0
<1>2. ASSUME NEW k \in (a + 1)..b, k - 1 \in T PROVE k \in T
  <2>1. k \in (m + 1)..RX_DESCRIPTORS /\ k \in a..b
    BY <1>0
  <2>2. Cut(d, m)[k] = CutNext(d, k, Cut(d, m)[k - 1])
    BY <2>1, CutIs
  <2>3. Cut(d, m)[k].frames = Cut(d, m)[k - 1].frames
    BY <2>2 DEF CutNext
  <2>4. Cut(d, m)[k].frames = Cut(d, m)[a].frames
    BY <1>2, <2>3
  <2>5. QED
    BY <2>1, <2>4
<1>3. \A k \in a..b : k \in T
  <2> HIDE DEF T
  <2>1. QED
    BY <1>0, <1>1, <1>2, FromTo
<1>4. b \in T
  BY <1>0, <1>3
<1>5. QED
  BY <1>4

(* The frames after a first one.                                           *)
LEMMA CutGoesOn ==
  ASSUME NEW d, BytesOK(d), NEW e \in 0..RX_DESCRIPTORS, NEW x \in Content,
         Cut(d, 0)[e] = [frames |-> <<x>>, part |-> <<>>],
         NEW n \in e..RX_DESCRIPTORS
  PROVE  Cut(d, 0)[n].frames = <<x>> \o Cut(d, e)[n].frames
<1>0. RX_DESCRIPTORS \in Nat /\ e \in Nat /\ n \in Nat /\ e <= n /\ 0 \in 0..RX_DESCRIPTORS
  BY DmaAssumption
<1> DEFINE Same(u, v) == u.frames = <<x>> \o v.frames /\ u.part = v.part
           T == {k \in e..n : Same(Cut(d, 0)[k], Cut(d, e)[k])}
<1>1. e \in T
  <2>1. Cut(d, e)[e] = NoCut
    BY CutIs
  <2>2. PICK u : u = Cut(d, 0)[e]
    OBVIOUS
  <2>3. u.frames = <<x>> \o NoCut.frames /\ u.part = NoCut.part
    BY <2>2 DEF NoCut
  <2>4. e \in e..n
    BY <1>0
  <2>5. QED
    BY <2>1, <2>2, <2>3, <2>4
<1>2. ASSUME NEW k \in (e + 1)..n, k - 1 \in T PROVE k \in T
  <2>1. k \in (e + 1)..RX_DESCRIPTORS /\ k \in (0 + 1)..RX_DESCRIPTORS /\ k \in e..n
        /\ k - 1 \in e..RX_DESCRIPTORS
    BY <1>0
  <2>2. PICK u : u = Cut(d, 0)[k - 1]
    OBVIOUS
  <2>3. PICK v : v = Cut(d, e)[k - 1]
    OBVIOUS
  <2>4. Same(u, v)
    BY <1>2, <2>2, <2>3
  <2>5. v \in Cuts
    BY <2>1, <2>3, CutIs
  <2>6. Same(CutNext(d, k, u), CutNext(d, k, v))
    <3>1. v.frames \in Seq(Content) /\ v.part \in Content /\ u.part = v.part
          /\ u.frames = <<x>> \o v.frames
      BY <2>4, <2>5 DEF Cuts
    <3>2. \A y \in Content : Append(<<x>> \o v.frames, y) = <<x>> \o Append(v.frames, y)
      BY <3>1
    <3>3. v.part \o d[k].bytes \in Content
      BY <2>1, <3>1, <1>0 DEF Content, BytesOK
    <3>4. PICK y \in Content : y = v.part \o d[k].bytes
      BY <3>3
    <3>5. CASE d[k].eop
      <4>1. /\ CutNext(d, k, u) = [frames |-> Append(u.frames, y), part |-> <<>>]
            /\ CutNext(d, k, v) = [frames |-> Append(v.frames, y), part |-> <<>>]
        BY <3>1, <3>4, <3>5 DEF CutNext
      <4>2. QED
        BY <3>1, <3>2, <4>1
    <3>6. CASE ~d[k].eop
      <4>1. /\ CutNext(d, k, u) = [frames |-> u.frames, part |-> y]
            /\ CutNext(d, k, v) = [frames |-> v.frames, part |-> y]
        BY <3>1, <3>4, <3>6 DEF CutNext
      <4>2. QED
        BY <3>1, <4>1
    <3>7. QED
      BY <3>5, <3>6
  <2>7. Cut(d, 0)[k] = CutNext(d, k, u) /\ Cut(d, e)[k] = CutNext(d, k, v)
    BY <1>0, <2>1, <2>2, <2>3, CutIs
  <2> HIDE DEF Same
  <2>8. QED
    BY <2>1, <2>6, <2>7
<1>3. \A k \in e..n : k \in T
  <2> HIDE DEF T
  <2>1. QED
    BY <1>0, <1>1, <1>2, FromTo
<1>4. n \in T
  BY <1>0, <1>3
<1>5. QED
  BY <1>4

(* The first frame is what the copy reads up to the first end of packet.   *)
LEMMA CutFirst ==
  ASSUME DmaTypeOK, NEW e \in 1..RX_DESCRIPTORS, Desc(e).eop,
         \A k \in 1..(e - 1) : ~Desc(k).eop
  PROVE  Cut(Descs, 0)[e] = [frames |-> <<Bytes(e)>>, part |-> <<>>]
<1>0. RX_DESCRIPTORS \in Nat /\ e \in Nat /\ 0 \in 0..RX_DESCRIPTORS /\ e - 1 \in Nat
      /\ e - 1 <= RX_DESCRIPTORS
  BY DmaAssumption
<1>d. BytesOK(Descs) /\ \A k \in 1..RX_DESCRIPTORS : Descs[k] = Desc(k)
  BY DescsFilled, DescIs
<1> DEFINE c == Cut(Descs, 0)
           T == {k \in 0..(e - 1) : c[k] = [frames |-> <<>>, part |-> Bytes(k)]}
<1>1. c[0] = NoCut /\ \A k \in 1..RX_DESCRIPTORS : c[k] = CutNext(Descs, k, c[k - 1])
  BY <1>0, <1>d, CutIs
<1> HIDE DEF c
<1>2. 0 \in T
  BY <1>0, <1>1, BytesIs DEF NoCut
<1>3. ASSUME NEW k \in 1..(e - 1), k - 1 \in T PROVE k \in T
  <2>1. k \in 1..RX_DESCRIPTORS /\ k \in 0..(e - 1) /\ k - 1 \in 0..(e - 1)
    BY <1>0
  <2>2. c[k - 1] = [frames |-> <<>>, part |-> Bytes(k - 1)]
    BY <1>3
  <2>3. Bytes(k) = Bytes(k - 1) \o Desc(k).bytes
    BY <2>1, BytesIs
  <2>4. ~Descs[k].eop /\ Descs[k] = Desc(k)
    BY <1>d, <2>1
  <2>5. CutNext(Descs, k, c[k - 1]) = [frames |-> <<>>, part |-> Bytes(k)]
    BY <2>2, <2>3, <2>4 DEF CutNext
  <2>6. QED
    BY <1>1, <2>1, <2>5
<1>4. \A k \in 0..(e - 1) : k \in T
  <2> HIDE DEF T
  <2>1. QED
    BY <1>0, <1>2, <1>3, UpTo
<1>5. c[e - 1] = [frames |-> <<>>, part |-> Bytes(e - 1)]
  <2>1. e - 1 \in T
    BY <1>0, <1>4
  <2>2. QED
    BY <2>1
<1>6. Bytes(e) = Bytes(e - 1) \o Desc(e).bytes
  BY BytesIs
<1>7. CutNext(Descs, e, c[e - 1]) = [frames |-> <<Bytes(e)>>, part |-> <<>>]
  <2>1. PICK x : x = Bytes(e)
    OBVIOUS
  <2>2. Append(<<>>, x) = <<x>>
    OBVIOUS
  <2>3. Descs[e].eop /\ Descs[e] = Desc(e)
    BY <1>d
  <2>4. CutNext(Descs, e, c[e - 1]) = [frames |-> Append(<<>>, x), part |-> <<>>]
    BY <1>5, <1>6, <2>1, <2>3 DEF CutNext
  <2>5. QED
    BY <2>1, <2>2, <2>4, Zenon
<1>8. QED
  BY <1>1, <1>7 DEF c

(* Descriptors s + 1 to e hold a frame.                                    *)
HoldFrame(s, e) ==
  /\ Desc(s + 1).size \in FrameSizes
  /\ Desc(s + 1).size <= (e - s) * RX_BYTES_PER_DESC
  /\ Desc(e).eop
  /\ Len(Desc(e).bytes) = Desc(s + 1).size - (e - s - 1) * RX_BYTES_PER_DESC
  /\ \A k \in (s + 1)..(e - 1) :
       /\ ~Desc(k).eop
       /\ Len(Desc(k).bytes) = RX_BYTES_PER_DESC
       /\ (k - s) * RX_BYTES_PER_DESC < Desc(s + 1).size

(* A frame starts after descriptor s.                                      *)
Starts(s) == IF s = 0 THEN input = "idle" ELSE Desc(s).eop

(* Descriptors 1 to n hold whole frames, but the first, of which some may  *)
(* have been released.                                                     *)
FramesIn(n) ==
  /\ n > 0 => Desc(n).eop
  /\ input = "free" => n > 0
  /\ \A s \in 0..(n - 1) : Starts(s) => \E e \in (s + 1)..n : HoldFrame(s, e)

RingInv == DmaTypeOK /\ \E n \in 0..RX_DESCRIPTORS : InTurn(n) /\ FramesIn(n)

LEMMA LeastIs ==
  ASSUME NEW S \in SUBSET Int, NEW x \in S, \A y \in S : x <= y
  PROVE  Min(S) = x
<1>1. Min(S) = CHOOSE z \in S : \A y \in S : z <= y
  BY DEF Min
<1>2. Min(S) \in S /\ \A y \in S : Min(S) <= y
  BY <1>1
<1>3. Min(S) \in Int /\ x \in Int /\ Min(S) <= x /\ x <= Min(S)
  BY <1>2
<1>4. QED
  BY <1>3

LEMMA HoldFirst ==
  ASSUME DmaTypeOK, NEW e \in 1..RX_DESCRIPTORS, HoldFrame(0, e)
  PROVE  /\ Desc(1).size \in FrameSizes /\ Desc(1).size \in Nat
         /\ Desc(1).size <= e * RX_BYTES_PER_DESC
         /\ Desc(e).eop
         /\ Len(Desc(e).bytes) = Desc(1).size - (e - 1) * RX_BYTES_PER_DESC
         /\ \A k \in 1..(e - 1) :
              /\ ~Desc(k).eop
              /\ Len(Desc(k).bytes) = RX_BYTES_PER_DESC
              /\ k * RX_BYTES_PER_DESC < Desc(1).size
<1>1. 0 + 1 = 1 /\ e - 0 - 1 = e - 1 /\ e - 0 = e
  BY DmaAssumption
<1>2. Desc(1).size \in FrameSizes /\ Desc(e).eop
      /\ Desc(1).size <= e * RX_BYTES_PER_DESC
      /\ Len(Desc(e).bytes) = Desc(1).size - (e - 1) * RX_BYTES_PER_DESC
  BY <1>1 DEF HoldFrame
<1>3. ASSUME NEW k \in 1..(e - 1)
      PROVE  /\ ~Desc(k).eop
             /\ Len(Desc(k).bytes) = RX_BYTES_PER_DESC
             /\ k * RX_BYTES_PER_DESC < Desc(1).size
  <2>1. k \in (0 + 1)..(e - 1) /\ k - 0 = k
    BY <1>1
  <2>2. /\ ~Desc(k).eop
        /\ Len(Desc(k).bytes) = RX_BYTES_PER_DESC
        /\ (k - 0) * RX_BYTES_PER_DESC < Desc(0 + 1).size
    BY <2>1 DEF HoldFrame
  <2>3. QED
    BY <1>1, <2>1, <2>2
<1>4. QED
  BY <1>2, <1>3, DmaAssumption

LEMMA FirstEndIs ==
  ASSUME DmaTypeOK, NEW n \in 0..RX_DESCRIPTORS, InTurn(n), NEW e \in 1..n,
         Desc(e).eop, \A k \in 1..(e - 1) : ~Desc(k).eop
  PROVE  FirstEnd = e
<1> DEFINE S == {k \in 1..n : Desc(k).eop}
<1>1. FirstEnd = Min(S)
  BY HeldIs DEF FirstEnd
<1>2. S \in SUBSET Int /\ e \in S /\ n \in Int
  BY DmaAssumption
<1>3. ASSUME NEW k \in S PROVE e <= k
  <2>1. k \in 1..n /\ Desc(k).eop /\ k \notin 1..(e - 1)
    OBVIOUS
  <2>2. QED
    BY <1>2, <2>1
<1> HIDE DEF S
<1>4. QED
  BY <1>1, <1>2, <1>3, LeastIs

(* How much is read after k descriptors of a frame.                        *)
LEMMA BytesRead ==
  ASSUME DmaTypeOK, NEW e \in 1..RX_DESCRIPTORS, HoldFrame(0, e)
  PROVE  /\ \A k \in 0..(e - 1) : Len(Bytes(k)) = k * RX_BYTES_PER_DESC
         /\ Len(Bytes(e)) = Desc(1).size
<1> DEFINE Sz(k) == k * RX_BYTES_PER_DESC
           T == {k \in 0..(e - 1) : Len(Bytes(k)) = Sz(k)}
<1>0. RX_DESCRIPTORS \in Nat /\ e \in Nat /\ e - 1 \in Nat /\ e - 1 < RX_DESCRIPTORS
      /\ RX_BYTES_PER_DESC \in Nat
  BY DmaAssumption
<1>1. Sz(0) = 0 /\ \A k \in Nat \ {0} : Sz(k) = Sz(k - 1) + RX_BYTES_PER_DESC
  BY <1>0
<1>s. \A k \in Nat : Sz(k) \in Nat
  BY <1>0
<1>b. /\ \A k \in 0..RX_DESCRIPTORS : Bytes(k) \in Content
      /\ \A k \in 1..RX_DESCRIPTORS : Desc(k).bytes \in Content
  BY BytesIs, DescIs DEF Descriptor, Content
<1>l. \A u, v \in Content : Len(u \o v) = Len(u) + Len(v) /\ Len(u) \in Nat
  BY DEF Content
<1>2. 0 \in T
  BY <1>0, <1>1, BytesIs
<1>f. /\ \A k \in 1..(e - 1) : Len(Desc(k).bytes) = RX_BYTES_PER_DESC
      /\ Len(Desc(e).bytes) = Desc(1).size - Sz(e - 1)
      /\ Desc(1).size \in Int
  BY HoldFirst
<1> HIDE DEF Sz
<1>3. ASSUME NEW k \in 1..(e - 1), k - 1 \in T PROVE k \in T
  <2>1. k \in 1..RX_DESCRIPTORS /\ k \in 0..(e - 1) /\ k - 1 \in 0..RX_DESCRIPTORS
        /\ k \in Nat \ {0}
    BY <1>0
  <2>2. Bytes(k) = Bytes(k - 1) \o Desc(k).bytes
    BY <2>1, BytesIs
  <2>3. Len(Bytes(k)) = Len(Bytes(k - 1)) + RX_BYTES_PER_DESC
    BY <1>b, <1>l, <1>f, <2>1, <2>2
  <2>4. Len(Bytes(k)) = Sz(k)
    BY <1>1, <1>3, <2>1, <2>3
  <2>5. QED
    BY <2>1, <2>4
<1>4. \A k \in 0..(e - 1) : k \in T
  <2> HIDE DEF T
  <2>1. QED
    BY <1>0, <1>2, <1>3, UpTo
<1>5. Len(Bytes(e)) = Desc(1).size
  <2>1. e - 1 \in 0..RX_DESCRIPTORS /\ e - 1 \in T
    BY <1>0, <1>4
  <2>2. Bytes(e) = Bytes(e - 1) \o Desc(e).bytes
    BY BytesIs
  <2>3. Len(Bytes(e)) = Sz(e - 1) + (Desc(1).size - Sz(e - 1))
    BY <1>b, <1>l, <1>f, <2>1, <2>2
  <2>4. Sz(e - 1) \in Nat
    BY <1>s, <1>0
  <2>5. \A x, y \in Int : x + (y - x) = y
    OBVIOUS
  <2>6. QED
    BY <1>f, <2>3, <2>4, <2>5
<1>6. QED
  BY <1>4, <1>5 DEF Sz

(* More of the same are no less.                                           *)
LEMMA Times ==
  ASSUME NEW x \in Nat, NEW a \in Nat, NEW b \in Nat, a <= b
  PROVE  a * x <= b * x
<1>1. PICK d \in Nat : d = b - a
  OBVIOUS
<1>2. b = a + d
  BY <1>1
<1>3. b * x = a * x + d * x
  BY <1>2
<1>4. d * x \in Nat /\ a * x \in Nat
  OBVIOUS
<1>5. QED
  BY <1>3, <1>4

(* The copy stops within a frame only when half of it was read.            *)
LEMMA StopsHalfway ==
  ASSUME DmaTypeOK, NEW n \in 0..RX_DESCRIPTORS, InTurn(n),
         NEW e \in 1..n, HoldFrame(0, e), NEW k \in 1..(e - 1)
  PROVE  StopsAfter(k) <=> Desc(1).size = 2 * (k * RX_BYTES_PER_DESC)
<1>0. RX_DESCRIPTORS \in Nat /\ e \in 1..RX_DESCRIPTORS /\ n \in Nat /\ e <= n
      /\ RX_BYTES_PER_DESC \in Nat
  BY DmaAssumption
<1>1. PICK z : z = k * RX_BYTES_PER_DESC
  OBVIOUS
<1>2. PICK l : l = Desc(1).size
  OBVIOUS
<1>3. l \in Nat /\ ~Desc(k).eop /\ z < l /\ z \in Int
  <2>1. Desc(1).size \in Nat
    BY <1>0, HoldFirst
  <2>2. ~Desc(k).eop /\ k * RX_BYTES_PER_DESC < Desc(1).size
    BY <1>0, HoldFirst, Zenon
  <2>3. QED
    BY <1>0, <1>1, <1>2, <2>1, <2>2
<1>4. Len(Bytes(k)) = z
  <2>1. k \in 0..(e - 1)
    BY <1>0
  <2>2. QED
    BY <1>0, <1>1, <2>1, BytesRead
<1>5. ~Desc(k + 1).eown
  <2>1. k + 1 \in 1..RX_DESCRIPTORS /\ k + 1 <= n
    BY <1>0
  <2>2. QED
    BY <2>1, DescOwned
<1>6. ~(l - z <= 0) /\ (z = l - z <=> l = 2 * z)
  BY <1>3
<1>7. QED
  BY <1>1, <1>2, <1>3, <1>4, <1>5, <1>6 DEF StopsAfter

(* What is copied when the copy stops after m descriptors.                 *)
LEMMA CopiedIs ==
  ASSUME NEW m \in 1..RX_DESCRIPTORS, StopsAfter(m), \A k \in 1..(m - 1) : ~StopsAfter(k)
  PROVE  Copied = SubSeq(Bytes(m), 1, Min({Desc(1).size, Len(Bytes(m))}))
<1> DEFINE First(x) == StopsAfter(x) /\ \A k \in 1..(x - 1) : ~StopsAfter(k)
           m1 == CHOOSE x \in 1..RX_DESCRIPTORS : First(x)
<1>0. RX_DESCRIPTORS \in Nat
  BY DmaAssumption
<1>1. First(m)
  OBVIOUS
<1>2. m1 \in 1..RX_DESCRIPTORS /\ First(m1)
  BY <1>1
<1>3. m1 = m
  <2>1. PICK x : x = m1
    OBVIOUS
  <2>2. x \in 1..RX_DESCRIPTORS /\ First(x)
    BY <1>2, <2>1
  <2>3. ~(x < m) /\ ~(m < x)
    BY <1>0, <1>1, <2>2
  <2>4. QED
    BY <1>0, <2>1, <2>2, <2>3
<1>4. Copied = SubSeq(Bytes(m1), 1, Min({Desc(1).size, Len(Bytes(m1))}))
  BY DEF Copied
<1> HIDE DEF m1
<1>5. QED
  BY <1>3, <1>4

(* What was read before is the beginning of what is read.                  *)
LEMMA BytesGrow ==
  ASSUME DmaTypeOK, NEW e \in 1..RX_DESCRIPTORS, NEW j \in 0..e
  PROVE  SubSeq(Bytes(e), 1, Len(Bytes(j))) = Bytes(j)
<1>0. RX_DESCRIPTORS \in Nat /\ e \in Nat /\ j \in Nat /\ j <= e
  BY DmaAssumption
<1> DEFINE T == {k \in j..e : /\ Len(Bytes(j)) <= Len(Bytes(k))
                              /\ SubSeq(Bytes(k), 1, Len(Bytes(j))) = Bytes(j)}
<1>b. /\ \A k \in 0..RX_DESCRIPTORS : Bytes(k) \in Content
      /\ \A k \in 1..RX_DESCRIPTORS : Desc(k).bytes \in Content
  BY BytesIs, DescIs DEF Descriptor, Content
<1>l. \A u, v \in Content : Len(u \o v) = Len(u) + Len(v) /\ Len(u) \in Nat /\ Len(v) \in Nat
  BY DEF Content
<1>s. \A u, v \in Content : \A l \in Nat : l <= Len(u) =>
        SubSeq(u \o v, 1, l) = SubSeq(u, 1, l)
  BY DEF Content
<1>1. j \in T
  <2>1. PICK u \in Content : u = Bytes(j)
    BY <1>0, <1>b
  <2>2. SubSeq(u, 1, Len(u)) = u /\ Len(u) <= Len(u)
    BY DEF Content
  <2>3. QED
    BY <1>0, <2>1, <2>2
<1>2. ASSUME NEW k \in (j + 1)..e, k - 1 \in T PROVE k \in T
  <2>1. k \in 1..RX_DESCRIPTORS /\ k - 1 \in 0..RX_DESCRIPTORS /\ k \in j..e
        /\ j \in 0..RX_DESCRIPTORS
    BY <1>0
  <2>2. Bytes(k) = Bytes(k - 1) \o Desc(k).bytes
    BY <2>1, BytesIs
  <2>3. Bytes(k - 1) \in Content /\ Desc(k).bytes \in Content /\ Bytes(j) \in Content
    BY <1>b, <2>1
  <2>4. PICK u, v \in Content, w \in Content :
          u = Bytes(k - 1) /\ v = Desc(k).bytes /\ w = Bytes(j)
    BY <2>3
  <2>5. Len(w) <= Len(u) /\ SubSeq(u, 1, Len(w)) = w
    BY <1>2, <2>4
  <2>6. Len(w) <= Len(u \o v) /\ SubSeq(u \o v, 1, Len(w)) = w
    <3>1. Len(w) \in Nat /\ Len(u) \in Nat /\ Len(v) \in Nat /\ Len(u \o v) = Len(u) + Len(v)
      BY <1>l
    <3>2. SubSeq(u \o v, 1, Len(w)) = SubSeq(u, 1, Len(w))
      BY <1>s, <2>5, <3>1
    <3>3. QED
      BY <2>5, <3>1, <3>2
  <2>7. QED
    BY <2>1, <2>2, <2>4, <2>6
<1>3. \A k \in j..e : k \in T
  <2> HIDE DEF T
  <2>1. QED
    BY <1>0, <1>1, <1>2, FromTo
<1>4. QED
  BY <1>0, <1>3

(* Quotients and remainders.                                               *)
LEMMA DivMod ==
  ASSUME NEW x \in Nat, NEW d \in Nat \ {0}
  PROVE  /\ x \div d \in Nat /\ x % d \in 0..(d - 1)
         /\ x = d * (x \div d) + (x % d)
OBVIOUS

LEMMA Apart ==
  ASSUME NEW j \in Nat, NEW k \in Nat, NEW d \in Nat, NEW r \in Nat, r < d,
         d * k = d * j + r
  PROVE  r = 0
<1>1. PICK y \in Nat : y = d * j
  OBVIOUS
<1>2. PICK z \in Nat : z = d * k
  OBVIOUS
<1>3. z = y + r
  BY <1>1, <1>2
<1>4. ASSUME k <= j PROVE r = 0
  <2>1. k * d <= j * d
    BY <1>4, Times
  <2>2. z <= y
    BY <1>1, <1>2, <2>1
  <2>3. QED
    BY <1>3, <2>2
<1>5. ASSUME j + 1 <= k PROVE FALSE
  <2>1. (j + 1) * d <= k * d
    BY <1>5, Times
  <2>2. (j + 1) * d = y + d /\ k * d = z
    BY <1>1, <1>2
  <2>3. QED
    BY <1>3, <2>1, <2>2
<1>6. QED
  BY <1>4, <1>5

(* A number of pairs of buffers.                                           *)
LEMMA Pairs ==
  ASSUME NEW q \in Nat, NEW x \in Nat \ {0}
  PROVE  /\ \A k \in Nat : q = 2 * (k * x) => q % (2 * x) = 0
         /\ q % (2 * x) = 0 => \E j \in Nat : q = 2 * (j * x)
<1>1. PICK d \in Nat \ {0} : d = 2 * x
  OBVIOUS
<1>2. PICK j \in Nat, r \in 0..(d - 1) : j = q \div d /\ r = q % d /\ q = d * j + r
  BY DivMod
<1>3. ASSUME NEW k \in Nat, q = 2 * (k * x) PROVE r = 0
  <2>1. q = d * k
    BY <1>1, <1>3
  <2>2. r \in Nat /\ r < d
    BY <1>2
  <2>3. QED
    BY <1>2, <2>1, <2>2, Apart
<1>4. ASSUME r = 0 PROVE q = 2 * (j * x)
  <2>1. PICK y \in Nat : y = d * j
    BY <1>1
  <2>2. d * j = 2 * (j * x)
    BY <1>1
  <2>3. q = y
    BY <1>2, <1>4, <2>1
  <2>4. QED
    BY <2>1, <2>2, <2>3
<1>5. QED
  BY <1>1, <1>2, <1>3, <1>4

(* The copy is the frame, or the half of it that fills whole buffers.      *)
LEMMA CopyIsFrame ==
  ASSUME DmaTypeOK, NEW n \in 0..RX_DESCRIPTORS, InTurn(n),
         NEW e \in 1..n, HoldFrame(0, e)
  PROVE  Copied = Fifo!Given(Bytes(e)) /\ Len(Bytes(e)) = Desc(1).size
<1>0. RX_DESCRIPTORS \in Nat /\ e \in 1..RX_DESCRIPTORS /\ n \in Nat /\ e <= n
      /\ RX_BYTES_PER_DESC \in Nat \ {0}
  BY DmaAssumption
<1> DEFINE x == RX_BYTES_PER_DESC
           q == Desc(1).size
<1>1. /\ \A k \in 0..(e - 1) : Len(Bytes(k)) = k * x
      /\ Len(Bytes(e)) = q
  BY <1>0, BytesRead
<1>2. q \in Nat \ {0} /\ Desc(e).eop /\ q <= e * x
  <2>1. q \in FrameSizes /\ Desc(e).eop /\ q <= e * x
    BY <1>0, HoldFirst
  <2>2. QED
    BY <2>1, DmaAssumption
<1>3. \A k \in 1..(e - 1) : StopsAfter(k) <=> q = 2 * (k * x)
  BY StopsHalfway
<1>4. StopsAfter(e)
  BY <1>2 DEF StopsAfter
<1>5. \A k \in 0..RX_DESCRIPTORS : Bytes(k) \in Content
  BY BytesIs
<1>6. \A l1, l2 \in Nat : l2 <= l1 => Min({l1, l2}) = l2
  <2> SUFFICES ASSUME NEW l1 \in Nat, NEW l2 \in Nat, l2 <= l1 PROVE Min({l1, l2}) = l2
    OBVIOUS
  <2>1. {l1, l2} \in SUBSET Int /\ l2 \in {l1, l2} /\ \A y \in {l1, l2} : l2 <= y
    OBVIOUS
  <2>2. QED
    BY <2>1, LeastIs
<1>7. PICK f \in Content : f = Bytes(e)
  BY <1>0, <1>5
<1>8. Len(f) = q /\ SubSeq(f, 1, Len(f)) = f
  BY <1>1, <1>7 DEF Content
<1> HIDE DEF x, q
<1>9. Fifo!Given(f) = IF q % (2 * x) = 0 THEN SubSeq(f, 1, q \div 2) ELSE f
  BY <1>8 DEF Fifo!Given, x
<1>x. x \in Nat \ {0}
  BY <1>0 DEF x
<1>10. CASE q % (2 * x) # 0
  <2>1. \A k \in 1..(e - 1) : ~StopsAfter(k)
    <3>1. \A k \in 1..(e - 1) : k \in Nat
      BY <1>0
    <3>2. QED
      BY <1>2, <1>3, <1>x, <1>10, <3>1, Pairs
  <2>2. Copied = SubSeq(Bytes(e), 1, Min({q, Len(Bytes(e))}))
    BY <1>0, <1>4, <2>1, CopiedIs DEF q
  <2>3. Min({q, q}) = q
    BY <1>2, <1>6
  <2>4. Copied = f
    BY <1>1, <1>7, <1>8, <2>2, <2>3 DEF q
  <2>5. QED
    BY <1>1, <1>7, <1>9, <1>10, <2>4 DEF q
<1>11. CASE q % (2 * x) = 0
  <2>1. PICK j \in Nat : q = 2 * (j * x)
    BY <1>2, <1>x, <1>11, Pairs
  <2>2. PICK z \in Nat : z = j * x
    BY <1>x, <2>1
  <2>3. j # 0 /\ q = 2 * z
    BY <1>2, <1>x, <2>1, <2>2
  <2>4. j \in 1..(e - 1)
    <3>1. SUFFICES ASSUME e + 1 <= j + j PROVE FALSE
      BY <1>0, <2>3
    <3>2. (e + 1) * x <= (j + j) * x
      BY <1>0, <1>x, <3>1, Times
    <3>3. (e + 1) * x = e * x + x /\ (j + j) * x = z + z /\ e * x \in Int
      BY <1>0, <1>x, <2>2
    <3>4. QED
      BY <1>2, <1>x, <2>3, <3>2, <3>3
  <2>5. StopsAfter(j)
    BY <1>3, <2>1, <2>4
  <2>6. ASSUME NEW k \in 1..(j - 1) PROVE ~StopsAfter(k)
    <3>1. k \in 1..(e - 1) /\ k \in Nat /\ k + 1 \in Nat /\ k + 1 <= j
      BY <1>0, <2>4
    <3>2. (k + 1) * x <= z /\ (k + 1) * x = k * x + x /\ k * x \in Int
      BY <1>x, <2>2, <3>1, Times
    <3>3. q # 2 * (k * x)
      BY <1>x, <2>2, <2>3, <3>2
    <3>4. QED
      BY <1>3, <3>1, <3>3
  <2>7. j \in 1..RX_DESCRIPTORS /\ j \in 0..(e - 1) /\ j \in 0..e
    BY <1>0, <2>4
  <2>8. Copied = SubSeq(Bytes(j), 1, Min({q, Len(Bytes(j))}))
    BY <2>5, <2>6, <2>7, CopiedIs DEF q
  <2>9. Len(Bytes(j)) = z
    BY <1>1, <2>2, <2>7
  <2>10. Min({q, z}) = z /\ q \div 2 = z
    BY <1>2, <1>6, <2>2, <2>3
  <2>11. PICK u \in Content : u = Bytes(j)
    BY <1>5, <2>7
  <2>12. SubSeq(u, 1, Len(u)) = u
    BY DEF Content
  <2>13. Copied = u
    BY <2>8, <2>9, <2>10, <2>11, <2>12
  <2>14. SubSeq(f, 1, z) = u
    BY <1>0, <1>7, <2>7, <2>9, <2>11, BytesGrow
  <2>15. QED
    BY <1>1, <1>7, <1>9, <1>11, <2>10, <2>13, <2>14 DEF q
<1>12. QED
  BY <1>10, <1>11

(* The buffers that a frame takes.                                         *)
LEMMA Buffers ==
  ASSUME NEW bytes \in Nat \ {0}, NEW c, c = (bytes + RX_BYTES_PER_DESC - 1) \div RX_BYTES_PER_DESC
  PROVE  /\ c \in Nat \ {0}
         /\ (c - 1) * RX_BYTES_PER_DESC < bytes /\ bytes <= c * RX_BYTES_PER_DESC
         /\ \A j \in 0..(c - 2) : (j + 1) * RX_BYTES_PER_DESC < bytes
<1> DEFINE x == RX_BYTES_PER_DESC
           a == bytes + x - 1
<1>1. x \in Nat \ {0} /\ a \in Nat \ {0} /\ a >= x
  BY DmaAssumption
<1>2. c = a \div x
  OBVIOUS
<1> HIDE DEF x
<1>3. c \in Nat /\ c * x <= a /\ a < c * x + x
  <2>1. \A u \in Nat, v \in Nat \ {0} :
         u \div v \in Nat /\ v * (u \div v) <= u /\ u < v * (u \div v) + v
    OBVIOUS
  <2>2. c \in Nat /\ x * c <= a /\ a < x * c + x
    BY <1>1, <1>2, <2>1
  <2>3. x * c = c * x
    BY <1>1, <2>2
  <2>4. QED
    BY <2>2, <2>3
<1>4. c # 0
  BY <1>1, <1>3
<1>5. (c - 1) * x < bytes /\ bytes <= c * x
  <2>1. PICK z : z = c * x
    OBVIOUS
  <2>2. (c - 1) * x = z - x /\ z \in Int
    BY <1>1, <1>3, <2>1
  <2>3. z <= bytes + x - 1 /\ bytes + x - 1 < z + x
    BY <1>3, <2>1
  <2>4. QED
    BY <1>1, <2>1, <2>2, <2>3
<1>6. ASSUME NEW j \in 0..(c - 2) PROVE (j + 1) * x < bytes
  <2>1. j + 1 \in Nat /\ c - 1 \in Nat /\ j + 1 <= c - 1
    BY <1>3, <1>4
  <2>2. (j + 1) * x <= (c - 1) * x
    BY <1>1, <2>1, Times
  <2>3. (j + 1) * x \in Int /\ (c - 1) * x \in Int
    BY <1>1, <2>1
  <2>4. QED
    BY <1>5, <2>2, <2>3
<1>7. QED
  BY <1>3, <1>4, <1>5, <1>6 DEF x

(* Where descriptor k is seen from the controller's.                       *)
LEMMA PlaceIs ==
  ASSUME NEW r \in Index, NEW n \in 0..RX_DESCRIPTORS, NEW k \in 1..RX_DESCRIPTORS
  PROVE  Ring(Ring(r + k - 1) - Ring(r + n)) =
            IF k > n THEN k - 1 - n ELSE k - 1 - n + RX_DESCRIPTORS
<1> DEFINE m == k - 1
           i == Ring(r + m)
           q == Ring(r + n)
<1>0. RX_DESCRIPTORS \in Nat \ {0} /\ r \in Nat /\ r < RX_DESCRIPTORS /\ k \in Nat /\ n \in Nat
      /\ n <= RX_DESCRIPTORS /\ k >= 1 /\ k <= RX_DESCRIPTORS
  BY DmaAssumption DEF Index
<1>1. m \in 0..RX_DESCRIPTORS /\ m = k - 1 /\ m \in Nat
  BY <1>0
<1>2. r + k - 1 = r + m
  BY <1>0
<1> HIDE DEF m
<1>3. i = (IF r + m < RX_DESCRIPTORS THEN r + m ELSE r + m - RX_DESCRIPTORS) /\ i \in Index
  BY <1>1, SlotIsAt
<1>4. q = (IF r + n < RX_DESCRIPTORS THEN r + n ELSE r + n - RX_DESCRIPTORS) /\ q \in Index
  BY SlotIsAt
<1> HIDE DEF i, q
<1>5. Ring(i - q) = IF q <= i THEN i - q ELSE i - q + RX_DESCRIPTORS
  BY <1>3, <1>4, PositionIs
<1>6. Ring(i - q) = IF k > n THEN k - 1 - n ELSE k - 1 - n + RX_DESCRIPTORS
  BY <1>0, <1>1, <1>3, <1>4, <1>5
<1>7. QED
  BY <1>2, <1>6 DEF i, q

(* What a frame of c buffers makes of descriptor i.                        *)
FilledAt(i, c, bytes) ==
  LET k == Ring(i - dma_index)
  IN IF k < c
     THEN /\ rx_desc'[i].eop <=> k = c - 1
          /\ Len(rx_desc'[i].bytes) = Min({RX_BYTES_PER_DESC, bytes - k * RX_BYTES_PER_DESC})
          /\ k = 0 => rx_desc'[i].size = bytes
     ELSE rx_desc'[i] = rx_desc[i]

LEMMA ArriveFills ==
  ASSUME DmaTypeOK, NEW n \in 0..RX_DESCRIPTORS, InTurn(n), NEW bytes \in FrameSizes,
         NEW c, c = (bytes + RX_BYTES_PER_DESC - 1) \div RX_BYTES_PER_DESC,
         n + c <= RX_DESCRIPTORS, UNCHANGED receive_index,
         \A i \in Index : FilledAt(i, c, bytes)
  PROVE  /\ \A k \in 1..n : Desc(k)' = Desc(k)
         /\ \A k \in (n + 1)..(n + c) :
              /\ Desc(k)'.eop <=> k = n + c
              /\ k < n + c => Len(Desc(k)'.bytes) = RX_BYTES_PER_DESC
         /\ Len(Desc(n + c)'.bytes) = bytes - (c - 1) * RX_BYTES_PER_DESC
         /\ Desc(n + 1)'.size = bytes
<1>0. /\ RX_DESCRIPTORS \in Nat \ {0} /\ receive_index \in Index /\ n \in Nat
      /\ n <= RX_DESCRIPTORS /\ RX_BYTES_PER_DESC \in Nat \ {0}
      /\ bytes \in Nat \ {0}
  BY DmaAssumption DEF DmaTypeOK
<1>1. /\ c \in Nat \ {0}
      /\ (c - 1) * RX_BYTES_PER_DESC < bytes /\ bytes <= c * RX_BYTES_PER_DESC
      /\ \A j \in 0..(c - 2) : (j + 1) * RX_BYTES_PER_DESC < bytes
  BY <1>0, Buffers
<1>2. ASSUME NEW k \in 1..RX_DESCRIPTORS
      PROVE  \E i \in Index : /\ Desc(k) = rx_desc[i] /\ Desc(k)' = rx_desc'[i]
                              /\ Ring(i - dma_index) = IF k > n THEN k - 1 - n
                                                       ELSE k - 1 - n + RX_DESCRIPTORS
  <2>1. PICK i : i = Ring(receive_index + k - 1)
    OBVIOUS
  <2>2. Desc(k) = rx_desc[i] /\ Desc(k)' = rx_desc'[i] /\ i \in Index
    BY <2>1, DescIs DEF Desc
  <2>3. Ring(i - Ring(receive_index + n)) = IF k > n THEN k - 1 - n
                                            ELSE k - 1 - n + RX_DESCRIPTORS
    BY <1>0, <2>1, PlaceIs
  <2>4. dma_index = Ring(receive_index + n)
    BY DEF InTurn
  <2>5. QED
    BY <2>2, <2>3, <2>4
<1>3. ASSUME NEW k \in 1..n PROVE Desc(k)' = Desc(k)
  <2>1. k \in 1..RX_DESCRIPTORS /\ ~(k > n) /\ ~(k - 1 - n + RX_DESCRIPTORS < c)
    BY <1>0, <1>1
  <2>2. PICK i \in Index : /\ Desc(k) = rx_desc[i] /\ Desc(k)' = rx_desc'[i]
                           /\ Ring(i - dma_index) = k - 1 - n + RX_DESCRIPTORS
    BY <1>2, <2>1
  <2>3. rx_desc'[i] = rx_desc[i]
    BY <2>1, <2>2 DEF FilledAt
  <2>4. QED
    BY <2>2, <2>3
<1>4. ASSUME NEW k \in (n + 1)..(n + c)
      PROVE  /\ Desc(k)'.eop <=> k - 1 - n = c - 1
             /\ Len(Desc(k)'.bytes) =
                  Min({RX_BYTES_PER_DESC, bytes - (k - 1 - n) * RX_BYTES_PER_DESC})
             /\ k - 1 - n = 0 => Desc(k)'.size = bytes
  <2>1. k \in 1..RX_DESCRIPTORS /\ k > n /\ k - 1 - n < c
    BY <1>0, <1>1
  <2>2. PICK i \in Index : /\ Desc(k) = rx_desc[i] /\ Desc(k)' = rx_desc'[i]
                           /\ Ring(i - dma_index) = k - 1 - n
    BY <1>2, <2>1
  <2>3. PICK j : j = k - 1 - n
    OBVIOUS
  <2>4. /\ rx_desc'[i].eop <=> j = c - 1
        /\ Len(rx_desc'[i].bytes) = Min({RX_BYTES_PER_DESC, bytes - j * RX_BYTES_PER_DESC})
        /\ j = 0 => rx_desc'[i].size = bytes
    BY <2>1, <2>2, <2>3 DEF FilledAt
  <2>5. QED
    BY <2>2, <2>3, <2>4
<1>5. ASSUME NEW k \in (n + 1)..(n + c), k < n + c
      PROVE  Len(Desc(k)'.bytes) = RX_BYTES_PER_DESC
  <2>1. PICK j : j = k - 1 - n
    OBVIOUS
  <2>2. j \in 0..(c - 2) /\ j \in Nat
    BY <1>0, <1>1, <1>5, <2>1
  <2>3. PICK z : z = j * RX_BYTES_PER_DESC
    OBVIOUS
  <2>4. (j + 1) * RX_BYTES_PER_DESC = z + RX_BYTES_PER_DESC /\ z \in Int
    BY <1>0, <2>2, <2>3
  <2>5. z + RX_BYTES_PER_DESC < bytes
    BY <1>1, <2>2, <2>4
  <2> DEFINE S == {RX_BYTES_PER_DESC, bytes - z}
  <2>6. S \in SUBSET Int /\ RX_BYTES_PER_DESC \in S /\ \A y \in S : RX_BYTES_PER_DESC <= y
    BY <1>0, <2>4, <2>5
  <2> HIDE DEF S
  <2>7. Min(S) = RX_BYTES_PER_DESC
    BY <2>6, LeastIs
  <2>8. QED
    BY <1>4, <2>1, <2>3, <2>7 DEF S
<1>6. Len(Desc(n + c)'.bytes) = bytes - (c - 1) * RX_BYTES_PER_DESC
  <2>1. n + c \in (n + 1)..(n + c) /\ n + c - 1 - n = c - 1
    BY <1>0, <1>1
  <2>2. PICK z : z = (c - 1) * RX_BYTES_PER_DESC
    OBVIOUS
  <2>3. z \in Int /\ c * RX_BYTES_PER_DESC = z + RX_BYTES_PER_DESC
    BY <1>0, <1>1, <2>2
  <2>4. bytes <= z + RX_BYTES_PER_DESC
    BY <1>1, <2>3
  <2> DEFINE S == {RX_BYTES_PER_DESC, bytes - z}
  <2>5. S \in SUBSET Int /\ bytes - z \in S /\ \A y \in S : bytes - z <= y
    BY <1>0, <2>3, <2>4
  <2> HIDE DEF S
  <2>6. Min(S) = bytes - z
    BY <2>5, LeastIs
  <2>7. Len(Desc(n + c)'.bytes) = Min({RX_BYTES_PER_DESC, bytes - (c - 1) * RX_BYTES_PER_DESC})
    BY <1>4, <2>1
  <2>8. QED
    BY <2>2, <2>6, <2>7 DEF S
<1>7. Desc(n + 1)'.size = bytes
  <2>1. PICK k : k = n + 1
    OBVIOUS
  <2>2. k \in (n + 1)..(n + c) /\ k - 1 - n = 0
    BY <1>0, <1>1, <2>1
  <2>3. Desc(k)'.size = bytes
    BY <1>4, <2>2
  <2>4. QED
    BY <2>1, <2>3
<1>8. \A k \in (n + 1)..(n + c) : k - 1 - n = c - 1 <=> k = n + c
  BY <1>0, <1>1
<1>9. QED
  BY <1>3, <1>4, <1>5, <1>6, <1>7, <1>8

(* Descriptor k holds what descriptor k + t held.                          *)
Moved(k, t) ==
  /\ Desc(k)'.eop <=> Desc(k + t).eop
  /\ Desc(k)'.bytes = Desc(k + t).bytes
  /\ Desc(k)'.size = Desc(k + t).size

LEMMA FrameMoves ==
  ASSUME NEW s \in Nat, NEW e \in Nat, s < e, NEW t \in Nat,
         \A k \in (s + 1)..e : Moved(k, t), HoldFrame(s + t, e + t)
  PROVE  HoldFrame(s, e)'
<1>0. s + 1 \in (s + 1)..e /\ e \in (s + 1)..e
  OBVIOUS
<1>1. /\ Desc(s + 1)'.size = Desc((s + t) + 1).size
      /\ Desc(e)'.eop /\ Desc(e)'.bytes = Desc(e + t).bytes
  <2>1. Moved(s + 1, t) /\ Moved(e, t)
    BY <1>0
  <2>2. (s + 1) + t = (s + t) + 1
    OBVIOUS
  <2>3. Desc(e + t).eop
    BY DEF HoldFrame
  <2>4. QED
    BY <2>1, <2>2, <2>3 DEF Moved
<1>2. ASSUME NEW k \in (s + 1)..(e - 1)
      PROVE  /\ ~Desc(k)'.eop
             /\ Len(Desc(k)'.bytes) = RX_BYTES_PER_DESC
             /\ (k - s) * RX_BYTES_PER_DESC < Desc(s + 1)'.size
  <2>1. PICK l : l = k + t
    OBVIOUS
  <2>2. l \in ((s + t) + 1)..((e + t) - 1) /\ l - (s + t) = k - s /\ k \in (s + 1)..e
    BY <2>1
  <2>3. /\ ~Desc(l).eop
        /\ Len(Desc(l).bytes) = RX_BYTES_PER_DESC
        /\ (l - (s + t)) * RX_BYTES_PER_DESC < Desc((s + t) + 1).size
    BY <2>2 DEF HoldFrame
  <2>4. Moved(k, t)
    BY <2>2
  <2>5. /\ ~Desc(k)'.eop
        /\ Len(Desc(k)'.bytes) = RX_BYTES_PER_DESC
    BY <2>1, <2>3, <2>4 DEF Moved
  <2>6. (k - s) * RX_BYTES_PER_DESC < Desc(s + 1)'.size
    BY <1>1, <2>2, <2>3
  <2>7. QED
    BY <2>5, <2>6
<1>3. Len(Desc(e)'.bytes) = Desc(s + 1)'.size - (e - s - 1) * RX_BYTES_PER_DESC
  <2>1. (e + t) - (s + t) - 1 = e - s - 1
    OBVIOUS
  <2>2. Len(Desc(e + t).bytes) =
          Desc((s + t) + 1).size - ((e + t) - (s + t) - 1) * RX_BYTES_PER_DESC
    BY DEF HoldFrame
  <2>3. QED
    BY <1>1, <2>1, <2>2
<1>4. /\ Desc(s + 1)'.size \in FrameSizes
      /\ Desc(s + 1)'.size <= (e - s) * RX_BYTES_PER_DESC
  <2>1. (e + t) - (s + t) = e - s
    OBVIOUS
  <2>2. /\ Desc((s + t) + 1).size \in FrameSizes
        /\ Desc((s + t) + 1).size <= ((e + t) - (s + t)) * RX_BYTES_PER_DESC
    BY DEF HoldFrame
  <2>3. QED
    BY <1>1, <2>1, <2>2
<1>5. QED
  BY <1>1, <1>2, <1>3, <1>4 DEF HoldFrame

(* A frame of c buffers came after the n descriptors.                      *)
Arrived(n, c, bytes) ==
  /\ \A k \in 1..n : Desc(k)' = Desc(k)
  /\ \A k \in (n + 1)..(n + c) :
       /\ Desc(k)'.eop <=> k = n + c
       /\ k < n + c => Len(Desc(k)'.bytes) = RX_BYTES_PER_DESC
  /\ Len(Desc(n + c)'.bytes) = bytes - (c - 1) * RX_BYTES_PER_DESC
  /\ Desc(n + 1)'.size = bytes

LEMMA ArriveKeepsFrames ==
  ASSUME NEW n \in 0..RX_DESCRIPTORS, NEW bytes \in FrameSizes, NEW c,
         c = (bytes + RX_BYTES_PER_DESC - 1) \div RX_BYTES_PER_DESC,
         Arrived(n, c, bytes), FramesIn(n), UNCHANGED input
  PROVE  FramesIn(n + c)'
<1>0. RX_DESCRIPTORS \in Nat /\ n \in Nat /\ bytes \in Nat \ {0}
  BY DmaAssumption
<1>1. /\ c \in Nat \ {0} /\ bytes <= c * RX_BYTES_PER_DESC
      /\ \A j \in 0..(c - 2) : (j + 1) * RX_BYTES_PER_DESC < bytes
  BY <1>0, Buffers
<1>2. n + c > 0 /\ Desc(n + c)'.eop
  <2>1. n + c \in (n + 1)..(n + c) /\ n + c > 0
    BY <1>0, <1>1
  <2>2. QED
    BY <2>1 DEF Arrived
<1>3. \A k \in 1..n : Moved(k, 0)
  <2> SUFFICES ASSUME NEW k \in 1..n PROVE Moved(k, 0)
    OBVIOUS
  <2>1. k + 0 = k
    BY <1>0
  <2>2. QED
    BY <2>1 DEF Moved, Arrived
<1>4. ASSUME NEW s \in 0..(n + c - 1), Starts(s)'
      PROVE  \E e \in (s + 1)..(n + c) : HoldFrame(s, e)'
  <2>1. CASE s < n
    <3>1. Starts(s)
      <4>1. s # 0 => Desc(s)' = Desc(s)
        BY <1>0, <2>1 DEF Arrived
      <4>2. QED
        BY <1>4, <4>1 DEF Starts
    <3>2. PICK e \in (s + 1)..n : HoldFrame(s, e)
      BY <1>0, <2>1, <3>1 DEF FramesIn
    <3>3. s \in Nat /\ e \in Nat /\ s < e /\ 0 \in Nat /\ s + 0 = s /\ e + 0 = e
          /\ e \in (s + 1)..(n + c)
      BY <1>0, <1>1
    <3>4. \A k \in (s + 1)..e : Moved(k, 0)
      BY <1>0, <1>3
    <3>5. HoldFrame(s + 0, e + 0)
      BY <3>2, <3>3
    <3>6. HoldFrame(s, e)'
      BY <3>3, <3>4, <3>5, FrameMoves
    <3>7. QED
      BY <3>3, <3>6
  <2>2. CASE s = n
    <3>1. PICK e : e = n + c
      OBVIOUS
    <3>2. Desc(s + 1)'.size = bytes /\ Desc(e)'.eop /\ e - s - 1 = c - 1 /\ e - s = c
          /\ Len(Desc(e)'.bytes) = bytes - (c - 1) * RX_BYTES_PER_DESC
      BY <1>0, <1>1, <1>2, <2>2, <3>1 DEF Arrived
    <3>3. ASSUME NEW k \in (s + 1)..(e - 1)
          PROVE  /\ ~Desc(k)'.eop
                 /\ Len(Desc(k)'.bytes) = RX_BYTES_PER_DESC
                 /\ (k - s) * RX_BYTES_PER_DESC < bytes
      <4>1. k \in (n + 1)..(n + c) /\ k < n + c
        BY <1>0, <1>1, <2>2, <3>1
      <4>2. PICK j : j = k - s - 1
        OBVIOUS
      <4>3. j \in 0..(c - 2) /\ j + 1 = k - s
        BY <1>0, <1>1, <2>2, <3>1, <4>2
      <4>4. (j + 1) * RX_BYTES_PER_DESC < bytes
        BY <1>1, <4>3
      <4>5. (k - s) * RX_BYTES_PER_DESC < bytes
        BY <4>3, <4>4, Zenon
      <4>6. ~Desc(k)'.eop /\ Len(Desc(k)'.bytes) = RX_BYTES_PER_DESC
        BY <4>1 DEF Arrived
      <4>7. QED
        BY <4>5, <4>6
    <3>4. HoldFrame(s, e)'
      BY <1>1, <3>2, <3>3 DEF HoldFrame
    <3>5. e \in (s + 1)..(n + c)
      BY <1>0, <1>1, <2>2, <3>1
    <3>6. QED
      BY <3>4, <3>5
  <2>3. CASE s > n
    <3>1. s \in (n + 1)..(n + c) /\ s # n + c /\ s # 0
      BY <1>0, <1>1, <2>3
    <3>2. ~Desc(s)'.eop
      BY <3>1 DEF Arrived
    <3>3. QED
      BY <1>4, <3>1, <3>2 DEF Starts
  <2>4. QED
    BY <1>0, <1>1, <2>1, <2>2, <2>3
<1>5. QED
  BY <1>2, <1>4 DEF FramesIn

LEMMA FreeKeepsFrames ==
  ASSUME NEW n \in 1..RX_DESCRIPTORS, \A k \in 1..(n - 1) : Moved(k, 1), FramesIn(n),
         input' = IF Desc(1).eop THEN "idle" ELSE "free"
  PROVE  FramesIn(n - 1)'
<1>0. n \in Nat /\ n - 1 \in Nat /\ 1 \in Nat
  BY DmaAssumption
<1>1. n - 1 > 0 => Desc(n - 1)'.eop
  <2> SUFFICES ASSUME n - 1 > 0 PROVE Desc(n - 1)'.eop
    OBVIOUS
  <2>1. Moved(n - 1, 1) /\ (n - 1) + 1 = n
    BY <1>0
  <2>2. Desc(n).eop
    BY <1>0 DEF FramesIn
  <2>3. QED
    BY <2>1, <2>2 DEF Moved
<1>2. input' = "free" => n - 1 > 0
  <2> SUFFICES ASSUME input' = "free", ~(n - 1 > 0) PROVE FALSE
    OBVIOUS
  <2>1. n = 1
    BY <1>0
  <2>2. Desc(1).eop
    BY <2>1 DEF FramesIn
  <2>3. QED
    BY <2>2
<1>3. ASSUME NEW s \in 0..((n - 1) - 1), Starts(s)'
      PROVE  \E e \in (s + 1)..(n - 1) : HoldFrame(s, e)'
  <2>0. s \in Nat /\ s + 1 \in 0..(n - 1) /\ s + 1 # 0
    BY <1>0
  <2>1. Starts(s + 1)
    <3>1. CASE s = 0
      <4>1. input' = "idle"
        BY <1>3, <3>1 DEF Starts
      <4>2. Desc(1).eop /\ s + 1 = 1
        BY <3>1, <4>1
      <4>3. QED
        BY <4>2 DEF Starts
    <3>2. CASE s # 0
      <4>1. Desc(s)'.eop
        BY <1>3, <3>2 DEF Starts
      <4>2. Moved(s, 1)
        BY <1>0, <2>0, <3>2
      <4>3. QED
        BY <2>0, <4>1, <4>2 DEF Starts, Moved
    <3>3. QED
      BY <3>1, <3>2
  <2>2. PICK f \in ((s + 1) + 1)..n : HoldFrame(s + 1, f)
    BY <2>0, <2>1 DEF FramesIn
  <2>3. PICK e : e = f - 1
    OBVIOUS
  <2>4. e \in Nat /\ s < e /\ e + 1 = f /\ e \in (s + 1)..(n - 1)
    BY <1>0, <2>0, <2>2, <2>3
  <2>5. \A k \in (s + 1)..e : Moved(k, 1)
    BY <1>0, <2>0, <2>4
  <2>6. HoldFrame(s + 1, e + 1)
    BY <2>2, <2>4
  <2>7. HoldFrame(s, e)'
    BY <1>0, <2>0, <2>4, <2>5, <2>6, FrameMoves
  <2>8. QED
    BY <2>4, <2>7
<1>4. QED
  BY <1>1, <1>2, <1>3 DEF FramesIn

(* The driver holds n descriptors, of whole frames.                        *)
RingAt(n) == DmaTypeOK /\ InTurn(n) /\ FramesIn(n)

(* The first of n descriptors with an end of packet.                       *)
EndsAt(e, n) == e \in 1..n /\ Desc(e).eop /\ \A k \in 1..(e - 1) : ~Desc(k).eop

(* The frames in the ring, from the state of the driver.                   *)
FramesAt(n) ==
  \/ input = "idle" /\ FramesInRing = Cut(Descs, 0)[n].frames
  \/ /\ input = "free"
     /\ \E e : EndsAt(e, n) /\ FramesInRing = Cut(Descs, e)[n].frames

LEMMA FirstEndExists ==
  ASSUME NEW n \in Nat, n > 0, Desc(n).eop
  PROVE  \E e : EndsAt(e, n)
<1> DEFINE S == {k \in 1..n : Desc(k).eop}
<1>1. S \in SUBSET Nat /\ n \in S
  OBVIOUS
<1> HIDE DEF S
<1>2. PICK e \in S : \A k \in S : e <= k
  BY <1>1, LeastNatural
<1>3. e \in 1..n /\ Desc(e).eop
  BY <1>2 DEF S
<1>4. ASSUME NEW k \in 1..(e - 1) PROVE ~Desc(k).eop
  <2>1. k \in 1..n /\ ~(e <= k)
    BY <1>3
  <2>2. k \notin S
    BY <1>2, <2>1
  <2>3. QED
    BY <2>1, <2>2 DEF S
<1>5. QED
  BY <1>3, <1>4 DEF EndsAt

LEMMA RingIsMapped == \A n \in 0..RX_DESCRIPTORS : RingAt(n) => FramesAt(n)
<1> SUFFICES ASSUME NEW n \in 0..RX_DESCRIPTORS, RingAt(n) PROVE FramesAt(n)
  OBVIOUS
<1>1. DmaTypeOK /\ InTurn(n) /\ FramesIn(n) /\ Held = n /\ n \in Nat
  BY HeldIs, DmaAssumption DEF RingAt
<1>2. FramesInRing = Cut(Descs, Released)[n].frames
  BY <1>1 DEF FramesInRing, Descs
<1>3. CASE input = "free"
  <2>1. n > 0 /\ Desc(n).eop
    BY <1>1, <1>3 DEF FramesIn
  <2>2. PICK e : EndsAt(e, n)
    BY <1>1, <2>1, FirstEndExists
  <2>3. FirstEnd = e
    BY <1>1, <2>2, FirstEndIs DEF EndsAt
  <2>4. Released = e
    BY <1>1, <1>3, <2>1, <2>3 DEF Released
  <2>5. QED
    BY <1>2, <1>3, <2>2, <2>4 DEF FramesAt
<1>4. CASE input = "idle"
  <2>1. Released = 0
    BY <1>4 DEF Released
  <2>2. QED
    BY <1>2, <1>4, <2>1 DEF FramesAt
<1>5. QED
  BY <1>1, <1>3, <1>4 DEF DmaTypeOK

LEMMA RingIsMappedNext == (\A n \in 0..RX_DESCRIPTORS : RingAt(n) => FramesAt(n))'
BY RingIsMapped, PTL

LEMMA FramesAtNext ==
  ASSUME NEW n \in 0..RX_DESCRIPTORS, RingAt(n)'
  PROVE  FramesAt(n)'
BY RingIsMappedNext

LEMMA DescsStay == DmaTypeOK => BytesOK(Descs)
BY DescsFilled

LEMMA DescsStayNext == (DmaTypeOK => BytesOK(Descs))'
BY DescsStay, PTL

LEMMA DescsNext ==
  ASSUME DmaTypeOK'
  PROVE  /\ BytesOK(Descs')
         /\ \A k \in 1..RX_DESCRIPTORS : Descs'[k] = Desc(k)'
<1>1. BytesOK(Descs')
  BY DescsStayNext DEF BytesOK
<1>2. QED
  BY <1>1 DEF Descs

FifoFrames == IF is_up THEN FramesInRing ELSE <<>>
FifoStep == [Fifo!Next]_(Fifo!vars)

(* What each step of the FIFO asks of the ring.                            *)
LEMMA FifoSteps ==
  /\ UNCHANGED <<is_up, FifoFrames, result>> => FifoStep
  /\ /\ is_up /\ UNCHANGED <<is_up, result>>
     /\ Len(FifoFrames') = Len(FifoFrames) + 1
     /\ SubSeq(FifoFrames', 1, Len(FifoFrames)) = FifoFrames
     => FifoStep
  /\ /\ is_up /\ UNCHANGED is_up /\ FifoFrames # <<>> /\ FifoFrames' = Tail(FifoFrames)
     /\ result' = [size |-> Len(Head(FifoFrames)), bytes |-> Fifo!Given(Head(FifoFrames))]
     => FifoStep
  /\ FifoFrames = <<>> /\ result' = NoFrame /\ UNCHANGED <<is_up, FifoFrames>> => FifoStep
  /\ is_up' = ~is_up /\ FifoFrames' = <<>> /\ UNCHANGED result => FifoStep
BY DEF FifoStep, FifoFrames, NoFrame, Fifo!Next, Fifo!vars, Fifo!Arrive, Fifo!Receive,
       Fifo!ReceiveNothing, Fifo!Link

(* The ring of the mapping, with the descriptors n that are held.          *)
LEMMA MappedIs ==
  ASSUME NEW n \in 0..RX_DESCRIPTORS, RingAt(n), is_up
  PROVE  /\ input = "idle" => FifoFrames = Cut(Descs, 0)[n].frames
         /\ input = "free" =>
              \E e : EndsAt(e, n) /\ FifoFrames = Cut(Descs, e)[n].frames
BY RingIsMapped DEF FramesAt, FifoFrames

LEMMA MappedIsNext ==
  ASSUME NEW n \in 0..RX_DESCRIPTORS, RingAt(n)', is_up'
  PROVE  /\ input' = "idle" => FifoFrames' = Cut(Descs', 0)[n].frames
         /\ input' = "free" =>
              \E e : EndsAt(e, n)' /\ FifoFrames' = Cut(Descs', e)[n].frames
<1>1. FramesAt(n)'
  BY FramesAtNext
<1>2. FifoFrames' = FramesInRing'
  BY DEF FifoFrames
<1>3. QED
  BY <1>1, <1>2 DEF FramesAt

LEMMA ShiftIs ==
  ASSUME NEW r \in Index, NEW k \in 1..(RX_DESCRIPTORS - 1)
  PROVE  /\ Ring(Ring(r + 1) + k - 1) = Ring(r + (k + 1) - 1)
         /\ Ring(r + (k + 1) - 1) \in Index \ {r}
<1>0. RX_DESCRIPTORS \in Nat \ {0} /\ r \in Nat /\ r < RX_DESCRIPTORS /\ k \in Nat
      /\ k >= 1 /\ k < RX_DESCRIPTORS
  BY DmaAssumption DEF Index
<1>1. PICK q : q = Ring(r + 1)
  OBVIOUS
<1>2. 1 \in 0..RX_DESCRIPTORS
  BY <1>0
<1>3. q = (IF r + 1 < RX_DESCRIPTORS THEN r + 1 ELSE r + 1 - RX_DESCRIPTORS) /\ q \in Index
  BY <1>1, <1>2, SlotIsAt
<1>4. PICK m : m = k - 1
  OBVIOUS
<1>5. m \in 0..RX_DESCRIPTORS /\ k \in 0..RX_DESCRIPTORS
  BY <1>0, <1>4
<1>6. Ring(q + m) = IF q + m < RX_DESCRIPTORS THEN q + m ELSE q + m - RX_DESCRIPTORS
  BY <1>3, <1>5, SlotIsAt
<1>7. Ring(r + k) = (IF r + k < RX_DESCRIPTORS THEN r + k ELSE r + k - RX_DESCRIPTORS)
      /\ Ring(r + k) \in Index
  BY <1>5, SlotIsAt
<1>8. q + k - 1 = q + m /\ r + (k + 1) - 1 = r + k /\ q \in Int
  BY <1>0, <1>3, <1>4
<1>9. Ring(q + m) = Ring(r + k) /\ Ring(r + k) # r
  BY <1>0, <1>3, <1>4, <1>6, <1>7
<1>10. QED
  BY <1>1, <1>7, <1>8, <1>9

LEMMA FirstIs ==
  ASSUME DmaTypeOK
  PROVE  Desc(1) = rx_desc[receive_index] /\ 1 \in 1..RX_DESCRIPTORS
<1>1. receive_index \in Index /\ 0 \in 0..RX_DESCRIPTORS /\ 1 \in 1..RX_DESCRIPTORS
  BY DmaAssumption DEF DmaTypeOK
<1>2. Ring(receive_index + 0) = receive_index
  BY <1>1, SlotIsAt, DmaAssumption DEF Index
<1>3. receive_index + 1 - 1 = receive_index + 0
  BY <1>1, DmaAssumption DEF Index
<1>4. QED
  BY <1>1, <1>2, <1>3 DEF Desc

(* The descriptors after the one that is released.                         *)
LEMMA FreeMoves ==
  ASSUME DmaTypeOK, NEW k \in 1..(RX_DESCRIPTORS - 1),
         rx_desc' = [rx_desc EXCEPT ![receive_index].eown = TRUE],
         receive_index' = Ring(receive_index + 1)
  PROVE  Moved(k, 1)
<1>1. receive_index \in Index
  BY DEF DmaTypeOK
<1>2. PICK i : i = Ring(receive_index + (k + 1) - 1)
  OBVIOUS
<1>3. i \in Index /\ i # receive_index /\ Ring(receive_index' + k - 1) = i
  BY <1>1, <1>2, ShiftIs
<1>4. rx_desc'[i] = rx_desc[i]
  BY <1>3 DEF DmaTypeOK
<1>5. Desc(k)' = rx_desc'[i] /\ Desc(k + 1) = rx_desc[i]
  BY <1>2, <1>3 DEF Desc
<1>6. QED
  BY <1>4, <1>5 DEF Moved

(* Two runs of descriptors, one of which was released, hold the same       *)
(* frames.                                                                 *)
LEMMA SameFrames ==
  ASSUME DmaTypeOK, DmaTypeOK', NEW n \in 1..RX_DESCRIPTORS, NEW m \in 0..(n - 1),
         \A k \in 1..(n - 1) : Moved(k, 1)
  PROVE  Cut(Descs', m)[n - 1] = Cut(Descs, m + 1)[n]
<1>0. RX_DESCRIPTORS \in Nat /\ n \in Nat /\ n - 1 \in Nat /\ m \in Nat /\ m <= n - 1
      /\ (n - 1) + 1 = n /\ n <= RX_DESCRIPTORS /\ 1 \in Nat
  BY DmaAssumption
<1>1. BytesOK(Descs) /\ BytesOK(Descs')
  BY DescsFilled, DescsNext
<1>2. \A k \in (m + 1)..(n - 1) : Alike(Descs'[k], Descs[k + 1])
  <2> SUFFICES ASSUME NEW k \in (m + 1)..(n - 1) PROVE Alike(Descs'[k], Descs[k + 1])
    OBVIOUS
  <2>1. k \in 1..(n - 1) /\ k \in 1..RX_DESCRIPTORS /\ k + 1 \in 1..RX_DESCRIPTORS
    BY <1>0
  <2>2. Descs'[k] = Desc(k)' /\ Descs[k + 1] = Desc(k + 1)
    BY <2>1, DescsNext, DescIs
  <2>3. Moved(k, 1)
    BY <2>1
  <2>4. QED
    BY <2>2, <2>3 DEF Moved, Alike
<1> DEFINE d == Descs
           e == Descs'
<1> HIDE DEF d, e
<1>3. BytesOK(d) /\ BytesOK(e) /\ \A k \in (m + 1)..(n - 1) : Alike(e[k], d[k + 1])
  BY <1>1, <1>2 DEF d, e
<1>4. Cut(e, m)[n - 1] = Cut(d, m + 1)[(n - 1) + 1]
  <2>1. PICK p \in Nat : p = n - 1
    BY <1>0
  <2>2. PICK s \in Nat : s = 1
    BY <1>0
  <2>3. m <= p /\ p + s <= RX_DESCRIPTORS
    BY <1>0, <2>1, <2>2
  <2>4. \A k \in (m + 1)..p : Alike(e[k], d[k + s])
    BY <1>3, <2>1, <2>2
  <2>5. Cut(e, m)[p] = Cut(d, m + s)[p + s]
    BY <1>0, <1>3, <2>3, <2>4, CutShifts
  <2>6. QED
    BY <2>1, <2>2, <2>5
<1>5. QED
  BY <1>0, <1>4 DEF d, e

(* A descriptor that is released was a part of the frame that was read.    *)
LEMMA FreeStep ==
  ASSUME RingInv, DmaTypeOK', FreeDescriptor
  PROVE  RingInv' /\ FifoStep
<1>1. PICK n \in 0..RX_DESCRIPTORS : InTurn(n) /\ FramesIn(n)
  BY DEF RingInv
<1>2. /\ DmaTypeOK /\ RingAt(n) /\ input = "free" /\ n \in 1..RX_DESCRIPTORS
      /\ UNCHANGED <<is_up, dma_index, result>>
  <2>1. DmaTypeOK /\ RingAt(n) /\ input = "free" /\ UNCHANGED <<is_up, dma_index, result>>
    BY <1>1 DEF RingInv, RingAt, FreeDescriptor
  <2>2. n > 0
    BY <1>1, <2>1 DEF FramesIn
  <2>3. QED
    BY <2>1, <2>2, DmaAssumption
<1>3. ~rx_desc[receive_index].eown
  <2>1. 1 \in 1..RX_DESCRIPTORS /\ 1 <= n
    BY <1>2, DmaAssumption
  <2>2. ~Desc(1).eown
    BY <1>1, <1>2, <2>1, DescOwned
  <2>3. QED
    BY <1>2, <2>2, FirstIs
<1>4. /\ rx_desc' = [rx_desc EXCEPT ![receive_index].eown = TRUE]
      /\ receive_index' = Ring(receive_index + 1)
      /\ input' = IF Desc(1).eop THEN "idle" ELSE "free"
  BY <1>2, <1>3, FirstIs DEF FreeDescriptor
<1>5. \A k \in 1..(n - 1) : Moved(k, 1)
  <2>1. \A k \in 1..(n - 1) : k \in 1..(RX_DESCRIPTORS - 1)
    BY <1>2, DmaAssumption
  <2>2. QED
    BY <1>2, <1>4, <2>1, FreeMoves
<1>6. n - 1 \in 0..RX_DESCRIPTORS /\ InTurn(n - 1)'
  <2>1. \A i \in Index : rx_desc'[i].eown =
            IF i = receive_index THEN TRUE ELSE rx_desc[i].eown
    <3>1. rx_desc \in [Index -> Descriptor] /\ receive_index \in Index
      BY <1>2 DEF DmaTypeOK
    <3>2. /\ rx_desc'[receive_index] = [rx_desc[receive_index] EXCEPT !.eown = TRUE]
          /\ \A i \in Index \ {receive_index} : rx_desc'[i] = rx_desc[i]
      BY <1>4, <3>1
    <3>3. rx_desc'[receive_index].eown = TRUE
      BY <3>1, <3>2 DEF Descriptor
    <3>4. QED
      BY <3>1, <3>2, <3>3
  <2>2. QED
    BY <1>1, <1>2, <1>3, <1>4, <2>1, FreeKeepsTurn
<1>7. FramesIn(n - 1)'
  BY <1>1, <1>2, <1>4, <1>5, FreeKeepsFrames
<1> DEFINE m == n - 1
<1>8. m \in 0..RX_DESCRIPTORS /\ RingAt(m)' /\ RingInv'
  <2>1. m \in 0..RX_DESCRIPTORS /\ RingAt(m)'
    BY <1>6, <1>7 DEF RingAt
  <2> HIDE DEF m
  <2>2. RingInv'
    BY <2>1 DEF RingAt, RingInv
  <2>3. QED
    BY <2>1, <2>2
<1>9. ASSUME is_up PROVE FifoFrames' = FifoFrames
  <2>1. PICK e : EndsAt(e, n) /\ FifoFrames = Cut(Descs, e)[n].frames
    BY <1>2, <1>9, MappedIs
  <2>2. e \in 1..n /\ Desc(e).eop /\ \A k \in 1..(e - 1) : ~Desc(k).eop
    BY <2>1 DEF EndsAt
  <2>3. e - 1 \in 0..(n - 1) /\ (e - 1) + 1 = e /\ n \in Nat
    BY <1>2, <2>2, DmaAssumption
  <2>4. Cut(Descs', e - 1)[n - 1] = Cut(Descs, e)[n]
    BY <1>2, <1>5, <2>3, SameFrames
  <2>5. is_up'
    BY <1>2, <1>9
  <2>6. CASE Desc(1).eop
    <3>1. e = 1
      <4>1. ~(1 \in 1..(e - 1))
        BY <2>2, <2>6
      <4>2. QED
        BY <2>2, <2>3, <4>1
    <3>2. input' = "idle"
      BY <1>4, <2>6
    <3>3. FifoFrames' = Cut(Descs', 0)[m].frames
      BY <1>8, <2>5, <3>2, MappedIsNext
    <3>4. QED
      BY <2>1, <2>4, <3>1, <3>3
  <2>7. CASE ~Desc(1).eop
    <3>1. input' = "free"
      BY <1>4, <2>7
    <3> HIDE DEF m
    <3>2. PICK f : EndsAt(f, m)' /\ FifoFrames' = Cut(Descs', f)[m].frames
      BY <1>8, <2>5, <3>1, MappedIsNext
    <3>3. f \in 1..m /\ Desc(f)'.eop /\ \A k \in 1..(f - 1) : ~Desc(k)'.eop
      BY <3>2 DEF EndsAt
    <3>4. m = n - 1
      BY DEF m
    <3>5. e # 1 /\ e - 1 \in 1..m
      BY <2>2, <2>3, <2>7, <3>4
    <3>6. \A k \in 1..m : Desc(k)'.eop <=> Desc(k + 1).eop
      BY <1>5, <3>4 DEF Moved
    <3>7. Desc(e - 1)'.eop
      BY <2>2, <2>3, <3>5, <3>6
    <3>8. ~(e - 1 < f)
      <4>1. e - 1 < f => e - 1 \in 1..(f - 1)
        BY <2>3, <3>3, <3>4, <3>5
      <4>2. QED
        BY <3>3, <3>7, <4>1
    <3>9. ~(f < e - 1)
      <4>1. f < e - 1 => f + 1 \in 1..(e - 1)
        BY <2>2, <2>3, <3>3, <3>4
      <4>2. Desc(f + 1).eop
        BY <3>3, <3>6
      <4>3. QED
        BY <2>2, <4>1, <4>2
    <3>10. f = e - 1
      BY <2>2, <2>3, <3>3, <3>4, <3>8, <3>9
    <3>11. QED
      BY <2>1, <2>4, <3>2, <3>4, <3>10
  <2>8. QED
    BY <2>6, <2>7
<1>10. UNCHANGED <<is_up, FifoFrames, result>>
  <2>1. CASE is_up
    BY <1>2, <1>9, <2>1
  <2>2. CASE ~is_up
    <3>1. FifoFrames = <<>> /\ FifoFrames' = <<>>
      BY <1>2, <2>2 DEF FifoFrames
    <3>2. QED
      BY <1>2, <3>1
  <2>3. QED
    BY <2>1, <2>2
<1>11. QED
  BY <1>8, <1>10, FifoSteps

(* A frame that comes is cut from those before it.                         *)
LEMMA ArriveAppends ==
  ASSUME NEW d, BytesOK(d), NEW e, BytesOK(e), NEW n \in Nat, NEW m \in 0..n,
         NEW c \in Nat \ {0}, n + c <= RX_DESCRIPTORS,
         \A k \in (m + 1)..n : Alike(e[k], d[k]),
         \A k \in (n + 1)..(n + c) : e[k].eop <=> k = n + c
  PROVE  /\ Len(Cut(e, m)[n + c].frames) = Len(Cut(d, m)[n].frames) + 1
         /\ SubSeq(Cut(e, m)[n + c].frames, 1, Len(Cut(d, m)[n].frames))
              = Cut(d, m)[n].frames
<1>0. RX_DESCRIPTORS \in Nat /\ m \in Nat /\ m <= n /\ m \in 0..RX_DESCRIPTORS
      /\ n \in m..RX_DESCRIPTORS
  BY DmaAssumption
<1>1. Cut(e, m)[n] = Cut(d, m)[n]
  <2>1. PICK s \in Nat : s = 0
    OBVIOUS
  <2>2. n + s <= RX_DESCRIPTORS /\ m + s = m /\ n + s = n
    BY <1>0, <2>1
  <2>3. \A k \in (m + 1)..n : Alike(e[k], d[k + s])
    BY <2>1
  <2>4. Cut(e, m)[n] = Cut(d, m + s)[n + s]
    BY <1>0, <2>2, <2>3, CutShifts
  <2>5. QED
    BY <2>2, <2>4
<1>2. PICK b : b = n + c - 1
  OBVIOUS
<1>3. b \in n..RX_DESCRIPTORS /\ b \in m..RX_DESCRIPTORS /\ b + 1 = n + c
      /\ n + c \in (m + 1)..RX_DESCRIPTORS
      /\ \A k \in (n + 1)..b : k \in (n + 1)..(n + c) /\ k # n + c
  BY <1>0, <1>2
<1>4. Cut(e, m)[b].frames = Cut(e, m)[n].frames
  <2>1. \A k \in (n + 1)..b : ~e[k].eop
    BY <1>3
  <2>2. QED
    BY <1>0, <1>3, <2>1, CutWaits
<1>5. PICK u : u = Cut(e, m)[b]
  OBVIOUS
<1>6. PICK l : l = n + c
  OBVIOUS
<1>7. u \in Cuts /\ u.frames = Cut(d, m)[n].frames /\ l - 1 = b
  BY <1>0, <1>1, <1>3, <1>4, <1>5, <1>6, CutIs
<1>8. Cut(e, m)[l] = CutNext(e, l, u)
  BY <1>0, <1>3, <1>5, <1>6, <1>7, CutIs
<1>9. e[l].eop /\ l \in 1..RX_DESCRIPTORS
  <2>1. l \in (n + 1)..(n + c) /\ l = n + c /\ l \in 1..RX_DESCRIPTORS
    BY <1>0, <1>6
  <2>2. QED
    BY <2>1
<1>10. u.frames \in Seq(Content) /\ u.part \o e[l].bytes \in Content
  BY <1>7, <1>9 DEF Cuts, Content, BytesOK
<1>11. PICK y \in Content : y = u.part \o e[l].bytes
  BY <1>10
<1>12. Cut(e, m)[l].frames = Append(u.frames, y)
  <2>1. CutNext(e, l, u) = [frames |-> Append(u.frames, y), part |-> <<>>]
    BY <1>9, <1>11, Zenon DEF CutNext
  <2>2. QED
    BY <1>8, <2>1
<1>13. \A f \in Seq(Content) : Len(Append(f, y)) = Len(f) + 1
                               /\ SubSeq(Append(f, y), 1, Len(f)) = f
  OBVIOUS
<1>14. PICK f \in Seq(Content) : f = u.frames
  BY <1>10
<1>15. QED
  BY <1>6, <1>7, <1>12, <1>13, <1>14

(* Steps that leave the descriptors alone.                                 *)
LEMMA SameDescs ==
  ASSUME UNCHANGED <<rx_desc, receive_index, dma_index>>,
         input' = "idle" => input = "idle", DmaTypeOK',
         NEW n \in 0..RX_DESCRIPTORS, RingAt(n), input' = "free" => n > 0
  PROVE  RingAt(n)' /\ RingInv'
<1>1. \A k : Desc(k)' = Desc(k)
  BY DEF Desc
<1>2. InTurn(n)'
  BY DEF RingAt, InTurn
<1>3. \A s, e : HoldFrame(s, e) => HoldFrame(s, e)'
  BY <1>1 DEF HoldFrame
<1>4. \A s : Starts(s)' => Starts(s)
  BY <1>1 DEF Starts
<1>5. FramesIn(n)'
  BY <1>1, <1>3, <1>4 DEF RingAt, FramesIn
<1>6. QED
  BY <1>2, <1>5 DEF RingAt, RingInv

LEMMA SameRing ==
  ASSUME RingInv, DmaTypeOK',
         UNCHANGED <<rx_desc, receive_index, dma_index, input>>
  PROVE  RingInv' /\ (UNCHANGED is_up => FifoFrames' = FifoFrames)
<1>1. PICK n \in 0..RX_DESCRIPTORS : RingAt(n)
  BY DEF RingInv, RingAt
<1>2. input' = "free" => n > 0
  BY <1>1 DEF RingAt, FramesIn
<1>3. RingInv'
  BY <1>1, <1>2, SameDescs
<1>4. FramesInRing' = FramesInRing
  BY DEF FramesInRing, Released, FirstEnd, Held, Desc
<1>5. QED
  BY <1>3, <1>4 DEF FifoFrames

LEMMA ArriveStep ==
  ASSUME RingInv, DmaTypeOK', NEW bytes \in FrameSizes, Arrive(bytes)
  PROVE  RingInv' /\ FifoStep
<1> DEFINE count == (bytes + RX_BYTES_PER_DESC - 1) \div RX_BYTES_PER_DESC
           Part(k) == [j \in 1..Min({RX_BYTES_PER_DESC, bytes - k * RX_BYTES_PER_DESC})
                         |-> FrameBytes(arrived + 1, bytes)[k * RX_BYTES_PER_DESC + j]]
           Put(i, k) == [eown |-> FALSE, eop |-> k = count - 1, bytes |-> Part(k),
                         size |-> IF k = 0 THEN bytes ELSE rx_desc[i].size]
           Room == /\ count <= RX_DESCRIPTORS
                   /\ \A k \in 0..(count - 1) : rx_desc[Ring(dma_index + k)].eown
           New(i) == LET k == Ring(i - dma_index)
                     IN IF k < count THEN Put(i, k) ELSE rx_desc[i]
<1>1. PICK n \in 0..RX_DESCRIPTORS : RingAt(n)
  BY DEF RingInv, RingAt
<1>2. /\ UNCHANGED <<is_up, receive_index, input, result>>
      /\ rxen
      /\ \/ /\ Room /\ dma_index' = Ring(dma_index + count)
            /\ rx_desc' = [i \in Index |-> New(i)]
         \/ UNCHANGED <<rx_desc, dma_index>>
  BY DEF Arrive
<1>3. DmaTypeOK /\ is_up /\ InTurn(n) /\ FramesIn(n)
  BY <1>1, <1>2 DEF RingAt, DmaTypeOK
<1>4. CASE UNCHANGED <<rx_desc, dma_index>>
  <2>1. UNCHANGED <<is_up, rx_desc, receive_index, dma_index, input>>
    BY <1>2, <1>4
  <2>2. QED
    BY <1>2, <2>1, SameRing, FifoSteps
<1>5. CASE Room /\ dma_index' = Ring(dma_index + count) /\ rx_desc' = [i \in Index |-> New(i)]
  <2>0. bytes \in Nat \ {0} /\ n \in Nat /\ RX_DESCRIPTORS \in Nat
    BY DmaAssumption
  <2>1. PICK c : c = count
    OBVIOUS
  <2>2. c \in Nat \ {0} /\ c \in 0..RX_DESCRIPTORS
        /\ c = (bytes + RX_BYTES_PER_DESC - 1) \div RX_BYTES_PER_DESC
    <3>1. c \in Nat \ {0}
      BY <2>0, <2>1, Buffers
    <3>2. QED
      BY <1>5, <2>0, <2>1, <3>1
  <2>3. \A k \in 0..(c - 1) : rx_desc[Ring(dma_index + k)].eown
    BY <1>5, <2>1
  <2>4. n + c <= RX_DESCRIPTORS
    BY <1>3, <2>2, <2>3, FrameFits
  <2>5. ASSUME NEW i \in Index
        PROVE  /\ FilledAt(i, c, bytes)
               /\ rx_desc'[i].eown = IF Ring(i - dma_index) < c THEN FALSE
                                    ELSE rx_desc[i].eown
    <3>1. PICK k : k = Ring(i - dma_index)
      OBVIOUS
    <3>2. k \in Nat /\ rx_desc'[i] = New(i)
      <4>1. Ring(i - dma_index) \in Index
        BY <1>3, PositionIs DEF DmaTypeOK
      <4> HIDE DEF New, count
      <4>2. rx_desc'[i] = New(i)
        BY <1>5
      <4>3. QED
        BY <3>1, <4>1, <4>2 DEF Index
    <3>3. CASE k < c
      <4> DEFINE len == Min({RX_BYTES_PER_DESC, bytes - k * RX_BYTES_PER_DESC})
      <4>1. rx_desc'[i] = Put(i, k)
        BY <2>1, <3>1, <3>2, <3>3
      <4>2. Len(Part(k)) = len
        <5>1. len \in Nat
          <6>1. PICK z : z = k * RX_BYTES_PER_DESC
            OBVIOUS
          <6>2. z \in Int /\ z < bytes
            <7>1. k <= c - 1 /\ c - 1 \in Nat /\ RX_BYTES_PER_DESC \in Nat
              BY <2>2, <3>2, <3>3, DmaAssumption
            <7>2. k * RX_BYTES_PER_DESC <= (c - 1) * RX_BYTES_PER_DESC
              BY <3>2, <7>1, Times
            <7>3. (c - 1) * RX_BYTES_PER_DESC < bytes
              BY <2>0, <2>2, Buffers
            <7>4. (c - 1) * RX_BYTES_PER_DESC \in Int /\ k * RX_BYTES_PER_DESC \in Int
              BY <3>2, <7>1
            <7>5. QED
              BY <2>0, <6>1, <7>2, <7>3, <7>4
          <6> DEFINE S == {RX_BYTES_PER_DESC, bytes - z}
          <6>3. S \in SUBSET Nat /\ S # {}
            BY <2>0, <6>2, DmaAssumption
          <6> HIDE DEF S
          <6>4. PICK x \in S : \A y \in S : x <= y
            BY <6>3, LeastNatural
          <6>5. Min(S) = x
            BY <6>3, <6>4, LeastIs
          <6>6. Min(S) \in Nat
            BY <6>3, <6>4, <6>5
          <6>7. QED
            BY <6>1, <6>6 DEF S
        <5> HIDE DEF len
        <5>2. Part(k) = [j \in 1..len |-> FrameBytes(arrived + 1, bytes)[k * RX_BYTES_PER_DESC + j]]
          BY DEF len
        <5>3. \A z, f : Len([j \in 1..len |-> f[z + j]]) = len
          BY <5>1
        <5>4. QED
          BY <5>2, <5>3
      <4> HIDE DEF Part, count
      <4>3. /\ rx_desc'[i].eop = (k = count - 1) /\ rx_desc'[i].bytes = Part(k)
            /\ rx_desc'[i].size = (IF k = 0 THEN bytes ELSE rx_desc[i].size)
            /\ rx_desc'[i].eown = FALSE
        BY <4>1
      <4>4. FilledAt(i, c, bytes)
        BY <2>1, <3>1, <3>3, <4>2, <4>3 DEF FilledAt
      <4>5. QED
        BY <3>1, <3>3, <4>3, <4>4
    <3>4. CASE ~(k < c)
      <4>1. rx_desc'[i] = rx_desc[i]
        BY <2>1, <3>1, <3>2, <3>4
      <4>2. QED
        BY <3>1, <3>4, <4>1 DEF FilledAt
    <3>5. QED
      BY <3>3, <3>4
  <2>6. Arrived(n, c, bytes)
    <3>1. UNCHANGED receive_index
      BY <1>2
    <3>2. \A i \in Index : FilledAt(i, c, bytes)
      BY <2>5
    <3> HIDE DEF count
    <3>3. QED
      BY <1>3, <2>2, <2>4, <3>1, <3>2, ArriveFills DEF Arrived
  <2>7. n + c \in 0..RX_DESCRIPTORS /\ InTurn(n + c)'
    <3>1. dma_index' = Ring(dma_index + c) /\ UNCHANGED receive_index
      BY <1>2, <1>5, <2>1
    <3>2. \A i \in Index : rx_desc'[i].eown = IF Ring(i - dma_index) < c THEN FALSE
                                             ELSE rx_desc[i].eown
      BY <2>5
    <3> HIDE DEF count
    <3>3. QED
      BY <1>3, <2>2, <2>3, <3>1, <3>2, ArriveKeepsTurn
  <2>8. FramesIn(n + c)'
    BY <1>2, <1>3, <2>2, <2>6, ArriveKeepsFrames
  <2>9. PICK l : l = n + c
    OBVIOUS
  <2>10. l \in 0..RX_DESCRIPTORS /\ RingAt(l)'
    BY <2>7, <2>8, <2>9 DEF RingAt
  <2>11. RingInv'
    BY <2>10 DEF RingAt, RingInv
  <2>12. ASSUME NEW m \in 0..n
         PROVE  /\ Len(Cut(Descs', m)[l].frames) = Len(Cut(Descs, m)[n].frames) + 1
                /\ SubSeq(Cut(Descs', m)[l].frames, 1, Len(Cut(Descs, m)[n].frames))
                     = Cut(Descs, m)[n].frames
    <3> DEFINE d == Descs
               e == Descs'
    <3>1. BytesOK(d) /\ BytesOK(e)
      BY <1>3, DescsFilled, DescsNext
    <3>2. ASSUME NEW k \in (m + 1)..n PROVE Alike(e[k], d[k])
      <4>1. k \in 1..n /\ k \in 1..RX_DESCRIPTORS
        BY <2>0
      <4>2. e[k] = Desc(k)' /\ d[k] = Desc(k)
        BY <1>3, <4>1, DescsNext, DescIs
      <4>3. Desc(k)' = Desc(k)
        BY <2>6, <4>1 DEF Arrived
      <4>4. QED
        BY <4>2, <4>3 DEF Alike
    <3>3. ASSUME NEW k \in (n + 1)..(n + c) PROVE e[k].eop <=> k = n + c
      <4>1. k \in 1..RX_DESCRIPTORS
        BY <2>0, <2>2, <2>4
      <4>2. e[k] = Desc(k)'
        BY <4>1, DescsNext
      <4>3. QED
        BY <2>6, <4>2 DEF Arrived
    <3> HIDE DEF d, e, count
    <3>4. /\ Len(Cut(e, m)[n + c].frames) = Len(Cut(d, m)[n].frames) + 1
          /\ SubSeq(Cut(e, m)[n + c].frames, 1, Len(Cut(d, m)[n].frames))
               = Cut(d, m)[n].frames
      BY <2>0, <2>2, <2>4, <3>1, <3>2, <3>3, ArriveAppends
    <3>5. QED
      BY <2>9, <3>4, Zenon DEF d, e
  <2>13. Len(FifoFrames') = Len(FifoFrames) + 1 /\ SubSeq(FifoFrames', 1, Len(FifoFrames)) = FifoFrames
    <3>1. is_up' /\ input' = input
      BY <1>2, <1>3
    <3>2. CASE input = "idle"
      <4>1. FifoFrames = Cut(Descs, 0)[n].frames
        BY <1>1, <1>3, <3>2, MappedIs
      <4>2. FifoFrames' = Cut(Descs', 0)[l].frames
        BY <2>10, <3>1, <3>2, MappedIsNext
      <4>3. 0 \in 0..n
        BY <2>0
      <4>4. QED
        BY <2>12, <4>1, <4>2, <4>3
    <3>3. CASE input = "free"
      <4>1. PICK e : EndsAt(e, n) /\ FifoFrames = Cut(Descs, e)[n].frames
        BY <1>1, <1>3, <3>3, MappedIs
      <4>2. PICK f : EndsAt(f, l)' /\ FifoFrames' = Cut(Descs', f)[l].frames
        BY <2>10, <3>1, <3>3, MappedIsNext
      <4>3. e \in 1..n /\ Desc(e).eop /\ \A k \in 1..(e - 1) : ~Desc(k).eop
        BY <4>1 DEF EndsAt
      <4>4. f \in 1..l /\ Desc(f)'.eop /\ \A k \in 1..(f - 1) : ~Desc(k)'.eop
        BY <4>2 DEF EndsAt
      <4>5. \A k \in 1..n : Desc(k)' = Desc(k)
        BY <2>6 DEF Arrived
      <4>6. ~(e < f)
        <5>1. e < f => e \in 1..(f - 1)
          BY <2>0, <4>3, <4>4, <2>9, <2>2
        <5>2. Desc(e)'.eop
          BY <4>3, <4>5
        <5>3. QED
          BY <4>4, <5>1, <5>2
      <4>7. ~(f < e)
        <5>1. f < e => f \in 1..(e - 1) /\ f \in 1..n
          BY <2>0, <4>3, <4>4, <2>9, <2>2
        <5>2. QED
          BY <4>3, <4>4, <4>5, <5>1
      <4>8. e = f /\ e \in 0..n
        BY <2>0, <2>2, <2>9, <4>3, <4>4, <4>6, <4>7
      <4>9. QED
        BY <2>12, <4>1, <4>2, <4>8
    <3>4. QED
      BY <1>3, <3>2, <3>3 DEF DmaTypeOK
  <2>14. QED
    BY <1>2, <1>3, <2>11, <2>13, FifoSteps
<1>6. QED
  BY <1>2, <1>4, <1>5

(* The frame that is read is the first in the ring, and leaves it.         *)
LEMMA ReceiveStep ==
  ASSUME RingInv, DmaTypeOK', ReceiveFrame
  PROVE  RingInv' /\ FifoStep
<1>1. PICK n \in 0..RX_DESCRIPTORS : RingAt(n)
  BY DEF RingInv, RingAt
<1>2. /\ DmaTypeOK /\ InTurn(n) /\ FramesIn(n) /\ input = "idle"
      /\ UNCHANGED <<is_up, rx_desc, receive_index, dma_index>>
      /\ RX_DESCRIPTORS \in Nat /\ n \in Nat /\ n <= RX_DESCRIPTORS
      /\ 1 \in 1..RX_DESCRIPTORS
  BY <1>1, DmaAssumption DEF RingAt, ReceiveFrame, Idle
<1>3. ~Desc(1).eown <=> 1 <= n
  BY <1>2, DescOwned
<1>4. ASSUME 1 <= n PROVE \E e \in 1..n : HoldFrame(0, e)
  <2>1. Starts(0) /\ 0 \in 0..(n - 1)
    BY <1>2, <1>4 DEF Starts
  <2>2. PICK e \in (0 + 1)..n : HoldFrame(0, e)
    BY <1>2, <2>1 DEF FramesIn
  <2>3. e \in 1..n
    OBVIOUS
  <2>4. QED
    BY <2>2, <2>3
<1>5. CASE NothingToRead
  <2>1. result' = NoFrame /\ UNCHANGED <<is_up, rx_desc, receive_index, dma_index, input>>
    BY <1>5 DEF ReceiveFrame
  <2>2. CASE ~is_up
    <3>1. FifoFrames = <<>>
      BY <2>2 DEF FifoFrames
    <3>2. QED
      BY <2>1, <3>1, SameRing, FifoSteps
  <2>3. CASE is_up
    <3>1. n = 0
      <4> SUFFICES ASSUME 1 <= n PROVE FALSE
        BY <1>2
      <4>1. PICK e \in 1..n : HoldFrame(0, e)
        BY <1>4
      <4>2. e \in 1..RX_DESCRIPTORS
        BY <1>2
      <4>3. Desc(1).size \in FrameSizes
        BY <1>2, <4>1, <4>2, HoldFirst
      <4>4. Desc(1).size # 0
        BY <4>3, DmaAssumption
      <4>5. QED
        BY <1>3, <1>5, <2>3, <4>4 DEF NothingToRead
    <3>2. FifoFrames = Cut(Descs, 0)[0].frames
      BY <1>1, <1>2, <2>3, <3>1, MappedIs
    <3>3. FifoFrames = <<>>
      BY <1>2, <3>2, DescsFilled, CutIs DEF NoCut
    <3>4. QED
      BY <2>1, <3>3, SameRing, FifoSteps
  <2>4. QED
    BY <2>2, <2>3
<1>6. CASE ~NothingToRead
  <2>1. /\ is_up /\ input' = "free" /\ 1 <= n
        /\ result' = [size |-> Desc(1).size, bytes |-> Copied]
    BY <1>3, <1>6 DEF ReceiveFrame, NothingToRead
  <2>2. RingAt(n)' /\ RingInv'
    BY <1>1, <1>2, <2>1, SameDescs
  <2>3. PICK e \in 1..n : HoldFrame(0, e)
    BY <1>4, <2>1
  <2>4. e \in 1..RX_DESCRIPTORS /\ e \in 0..RX_DESCRIPTORS /\ n \in e..RX_DESCRIPTORS
    BY <1>2
  <2>5. Desc(e).eop /\ \A k \in 1..(e - 1) : ~Desc(k).eop
    BY <1>2, <2>3, <2>4, HoldFirst
  <2>6. Copied = Fifo!Given(Bytes(e)) /\ Len(Bytes(e)) = Desc(1).size
    BY <1>2, <2>3, CopyIsFrame
  <2>7. PICK x \in Content : x = Bytes(e)
    BY <1>2, <2>4, BytesIs
  <2>8. Cut(Descs, 0)[e] = [frames |-> <<x>>, part |-> <<>>]
    BY <1>2, <2>4, <2>5, <2>7, CutFirst
  <2>9. Cut(Descs, 0)[n].frames = <<x>> \o Cut(Descs, e)[n].frames
    BY <1>2, <2>4, <2>8, DescsFilled, CutGoesOn
  <2>10. FifoFrames = <<x>> \o Cut(Descs, e)[n].frames
    BY <1>1, <1>2, <2>1, <2>9, MappedIs
  <2>11. FifoFrames' = Cut(Descs, e)[n].frames
    <3>1. is_up'
      BY <1>2, <2>1
    <3>2. PICK f : EndsAt(f, n)' /\ FifoFrames' = Cut(Descs', f)[n].frames
      BY <2>1, <2>2, <3>1, MappedIsNext
    <3>3. (\A k : Desc(k)' = Desc(k)) /\ Descs' = Descs
      BY <1>2 DEF Desc, Descs
    <3>4. f \in 1..n /\ Desc(f).eop /\ \A k \in 1..(f - 1) : ~Desc(k).eop
      BY <3>2, <3>3 DEF EndsAt
    <3>5. ~(e < f) /\ ~(f < e)
      <4>1. e < f => e \in 1..(f - 1)
        BY <1>2, <3>4
      <4>2. f < e => f \in 1..(e - 1)
        BY <1>2, <3>4
      <4>3. QED
        BY <2>5, <3>4, <4>1, <4>2
    <3>6. e = f
      BY <1>2, <3>4, <3>5
    <3>7. QED
      BY <3>2, <3>3, <3>6
  <2>12. Cut(Descs, e)[n].frames \in Seq(Content)
    BY <1>2, <2>4, DescsFilled, CutIs DEF Cuts
  <2>13. \A s \in Seq(Content) : /\ <<x>> \o s # <<>> /\ Head(<<x>> \o s) = x
                                 /\ Tail(<<x>> \o s) = s
    OBVIOUS
  <2>14. FifoFrames # <<>> /\ Head(FifoFrames) = x /\ FifoFrames' = Tail(FifoFrames)
    BY <2>10, <2>11, <2>12, <2>13
  <2>15. result' = [size |-> Len(Head(FifoFrames)), bytes |-> Fifo!Given(Head(FifoFrames))]
    BY <2>1, <2>6, <2>7, <2>14
  <2>16. QED
    BY <1>2, <2>1, <2>2, <2>14, <2>15, FifoSteps
<1>7. QED
  BY <1>5, <1>6

(* Frames that were not taken are gone when the link is set up again.      *)
LEMMA WatchdogStep ==
  ASSUME RingInv, DmaTypeOK', NEW answer \in PhyAnswer, Watchdog(answer)
  PROVE  RingInv' /\ FifoStep
<1>1. /\ DmaTypeOK /\ is_up \in BOOLEAN /\ is_up' \in BOOLEAN /\ rxen = is_up
      /\ is_up' = Linked(answer) /\ input = "idle" /\ input' = "idle"
      /\ UNCHANGED result
  BY DEF RingInv, DmaTypeOK, Watchdog, Idle
<1>2. CASE SetupDMA /\ ~is_up /\ is_up'
  <2>1. InTurn(0)' /\ 0 \in 0..RX_DESCRIPTORS
    BY <1>2, ClearRing DEF SetupDMA, InTurn
  <2>2. FramesIn(0)'
    BY <1>1 DEF FramesIn
  <2>3. RingAt(0)' /\ RingInv'
    BY <2>1, <2>2 DEF RingAt, RingInv
  <2>4. FifoFrames' = Cut(Descs', 0)[0].frames
    BY <1>1, <1>2, <2>1, <2>3, MappedIsNext
  <2>5. FifoFrames' = <<>>
    BY <2>1, <2>4, DescsNext, CutIs DEF NoCut
  <2>6. QED
    BY <1>1, <1>2, <2>3, <2>5, FifoSteps
<1>3. CASE UNCHANGED <<rx_desc, receive_index, dma_index>>
  <2>1. RingInv' /\ (UNCHANGED is_up => FifoFrames' = FifoFrames)
    BY <1>1, <1>3, SameRing
  <2>2. CASE is_up' = is_up
    BY <1>1, <2>1, <2>2, FifoSteps
  <2>3. CASE is_up /\ ~is_up'
    <3>1. FifoFrames' = <<>>
      BY <2>3 DEF FifoFrames
    <3>2. QED
      BY <1>1, <2>1, <2>3, <3>1, FifoSteps
  <2>4. CASE ~is_up /\ is_up'
    <3>1. Linked(answer) /\ ~rxen
      BY <1>1, <2>4
    <3>2. SetupDMA
      BY <3>1 DEF Watchdog
    <3>3. QED
      BY <1>2, <2>4, <3>2
  <2>5. QED
    BY <1>1, <2>2, <2>3, <2>4
<1>4. QED
  <2>1. CASE Linked(answer) /\ ~rxen
    BY <1>1, <1>2, <2>1 DEF Watchdog
  <2>2. CASE ~(Linked(answer) /\ ~rxen)
    BY <1>3, <2>2 DEF Watchdog
  <2>3. QED
    BY <2>1, <2>2

(* The ring is the FIFO that the guest takes it for, however receptions,   *)
(* hypercalls and changes of the link interleave, for frames of any size:  *)
(* those that fill an even number of buffers lose their second half, and   *)
(* no others lose a byte.                                                  *)
THEOREM RingKeepsFrames == DmaSpec => RingIsFifo
<1>1. DmaInit => RingInv /\ Fifo!Init
  <2> SUFFICES ASSUME DmaInit PROVE RingInv /\ Fifo!Init
    OBVIOUS
  <2>1. DmaTypeOK
    BY DmaInitEstablishesInv DEF DmaInv
  <2>2. InTurn(0) /\ 0 \in 0..RX_DESCRIPTORS
    BY ClearRing DEF DmaInit, InTurn
  <2>3. FramesIn(0)
    BY DEF DmaInit, FramesIn
  <2>4. Fifo!Init
    BY DEF DmaInit, NoFrame, Fifo!Init
  <2>5. QED
    BY <2>1, <2>2, <2>3, <2>4 DEF RingInv
<1>2. RingInv /\ [DmaNext]_dmaVars => RingInv' /\ [Fifo!Next]_(Fifo!vars)
  <2> SUFFICES ASSUME RingInv, [DmaNext]_dmaVars
               PROVE  RingInv' /\ FifoStep
    BY DEF FifoStep
  <2>1. DmaTypeOK'
    BY DmaNextPreservesInv DEF RingInv, DmaInv
  <2>2. ASSUME UNCHANGED rxVars PROVE RingInv' /\ FifoStep
    BY <2>1, <2>2, SameRing, FifoSteps DEF rxVars
  <2>3. CASE UNCHANGED dmaVars
    BY <2>2, <2>3 DEF dmaVars
  <2>4. ASSUME NEW bytes \in FrameSizes, Arrive(bytes) PROVE RingInv' /\ FifoStep
    BY <2>1, <2>4, ArriveStep
  <2>5. CASE ReceiveFrame
    BY <2>1, <2>5, ReceiveStep
  <2>6. CASE FreeDescriptor
    BY <2>1, <2>6, FreeStep
  <2>7. ASSUME NEW answer \in PhyAnswer, Watchdog(answer) PROVE RingInv' /\ FifoStep
    BY <2>1, <2>7, WatchdogStep
  <2>8. ASSUME NEW length \in SendSizes, SendFrame(length) PROVE RingInv' /\ FifoStep
    BY <2>2, <2>8 DEF SendFrame
  <2>9. CASE StartTransmission \/ ReadHalf \/ Transmitted \/ GiveUp
    BY <2>2, <2>9 DEF StartTransmission, ReadHalf, Transmitted, GiveUp
  <2>10. QED
    BY <2>3, <2>4, <2>5, <2>6, <2>7, <2>8, <2>9 DEF DmaNext
<1>3. QED
  BY <1>1, <1>2, PTL DEF DmaSpec, RingIsFifo, Fifo!Spec
=============================================================================
