--------------------------- MODULE InterVMProofs ---------------------------
(***************************************************************************)
(* Inter-VM communication is a channel, for every number of VCPUs, every   *)
(* size of the rings and whatever the guests send: the rings of the        *)
(* hypervisor and of the guest library implement the inboxes of module     *)
(* MessageChannel, and the scheduler composed with them keeps its own      *)
(* invariant.                                                              *)
(***************************************************************************)
EXTENDS InterVM, SchedulerProofs, SequenceTheorems

Item == Traffic \cup {NoMessage}
Slot == 0..(MESSAGELIST_SZ - 1)

(* A ring whose end follows from its start and its length.                 *)
Coherent(r) == r \in Ring /\ r.in = (r.out + r.num) % MESSAGELIST_SZ

CommInv ==
  /\ IInv
  /\ CommTypeOK
  /\ \A v \in VCPU : Coherent(messages[v]) /\ Coherent(messageList[v])

-----------------------------------------------------------------------------
(* The ring.                                                               *)

(* The remainders of the code, without remainders.                         *)
LEMMA SlotIs ==
  ASSUME NEW i \in Slot, NEW k \in 0..MESSAGELIST_SZ
  PROVE  /\ (i + k) % MESSAGELIST_SZ =
              IF i + k < MESSAGELIST_SZ THEN i + k ELSE i + k - MESSAGELIST_SZ
         /\ (i + k) % MESSAGELIST_SZ \in Slot
<1> DEFINE n == i + k
<1>1. MESSAGELIST_SZ \in Nat \ {0} /\ n \in 0..(2 * MESSAGELIST_SZ - 1)
  BY InterVMAssumption DEF Slot
<1> HIDE DEF n
<1>2. CASE n < MESSAGELIST_SZ
  <2>1. n % MESSAGELIST_SZ = n
    BY <1>1, <1>2
  <2>2. QED
    BY <1>1, <1>2, <2>1 DEF n, Slot
<1>3. CASE ~(n < MESSAGELIST_SZ)
  <2>1. n - MESSAGELIST_SZ \in 0..(MESSAGELIST_SZ - 1)
    BY <1>1, <1>3
  <2>2. n = 1 * MESSAGELIST_SZ + (n - MESSAGELIST_SZ)
    BY <1>1
  <2>3. n % MESSAGELIST_SZ = n - MESSAGELIST_SZ
    BY <1>1, <2>1, <2>2
  <2>4. QED
    BY <1>1, <1>3, <2>1, <2>3 DEF n, Slot
<1>4. QED
  BY <1>2, <1>3

(* Walking round the ring: after the k-th slot comes the (k + 1)-th, the   *)
(* k-th after the second is the (k + 1)-th, and no two of the first        *)
(* MESSAGELIST_SZ are the same.                                            *)
LEMMA RoundTheRing ==
  ASSUME NEW o \in Slot, NEW k \in 0..(MESSAGELIST_SZ - 1)
  PROVE  /\ (((o + k) % MESSAGELIST_SZ) + 1) % MESSAGELIST_SZ = (o + (k + 1)) % MESSAGELIST_SZ
         /\ (((o + 1) % MESSAGELIST_SZ) + k) % MESSAGELIST_SZ = (o + (k + 1)) % MESSAGELIST_SZ
         /\ \A i \in 0..(MESSAGELIST_SZ - 1) :
              (o + i) % MESSAGELIST_SZ = (o + k) % MESSAGELIST_SZ => i = k
<1> DEFINE N == MESSAGELIST_SZ
           Wrapped(n) == IF n < N THEN n ELSE n - N
           s == (o + k) % N
           u == (o + 1) % N
<1>1. N \in Nat \ {0} /\ o \in 0..(N - 1) /\ 1 \in 0..N /\ k \in 0..N /\ k + 1 \in 0..N
  BY InterVMAssumption DEF Slot
<1>2. s = Wrapped(o + k) /\ s \in Slot /\ u = Wrapped(o + 1) /\ u \in Slot
  <2>1. s = Wrapped(o + k) /\ s \in Slot
    BY <1>1, SlotIs
  <2>2. u = Wrapped(o + 1) /\ u \in Slot
    BY <1>1, SlotIs
  <2>3. QED
    BY <2>1, <2>2
<1>3. (o + (k + 1)) % N = Wrapped(o + (k + 1))
  BY <1>1, SlotIs
<1>4. \A i \in 0..(N - 1) : (o + i) % N = Wrapped(o + i)
  BY <1>1, SlotIs
<1> HIDE DEF s, u
<1>5. (s + 1) % N = Wrapped(s + 1) /\ (u + k) % N = Wrapped(u + k)
  <2>1. (s + 1) % N = Wrapped(s + 1)
    BY <1>1, <1>2, SlotIs
  <2>2. (u + k) % N = Wrapped(u + k)
    <3>1. u \in Slot /\ k \in 0..MESSAGELIST_SZ
      BY <1>1, <1>2
    <3>2. (u + k) % MESSAGELIST_SZ = IF u + k < MESSAGELIST_SZ THEN u + k
                                     ELSE u + k - MESSAGELIST_SZ
      BY <3>1, SlotIs
    <3>3. QED
      BY <1>1, <3>1, <3>2 DEF Slot
  <2>3. QED
    BY <2>1, <2>2
<1> HIDE DEF N
<1>6. Wrapped(s + 1) = Wrapped(o + (k + 1))
  BY <1>1, <1>2
<1>7. Wrapped(u + k) = Wrapped(o + (k + 1))
  <2>1. CASE o + 1 < N
    BY <1>1, <1>2, <2>1
  <2>2. CASE ~(o + 1 < N)
    <3>1. u = 0 /\ o = N - 1
      BY <1>1, <1>2, <2>2
    <3>2. k < N /\ ~(o + (k + 1) < N) /\ o + (k + 1) - N = u + k
      BY <1>1, <3>1
    <3>3. QED
      BY <3>1, <3>2, <1>1
  <2>3. QED
    BY <2>1, <2>2
<1>8. ASSUME NEW i \in 0..(N - 1), Wrapped(o + i) = Wrapped(o + k)
      PROVE  i = k
  BY <1>1, <1>8
<1>9. QED
  BY <1>2, <1>3, <1>4, <1>5, <1>6, <1>7, <1>8 DEF N, s, u

(* The messages in a ring, the oldest first.                               *)
LEMMA ContentsIs ==
  ASSUME NEW r \in Ring
  PROVE  /\ Contents(r) \in Seq(Item)
         /\ Len(Contents(r)) = r.num
         /\ \A i \in 1..r.num :
              /\ Contents(r)[i] = r.list[(r.out + i - 1) % MESSAGELIST_SZ]
              /\ (r.out + i - 1) % MESSAGELIST_SZ \in Slot
<1>1. r.out \in Slot /\ r.num \in 0..MESSAGELIST_SZ /\ r.list \in [Slot -> Item]
  BY DEF Ring, Slot, Item
<1>2. ASSUME NEW i \in 1..r.num
      PROVE  (r.out + i - 1) % MESSAGELIST_SZ \in Slot
  <2>1. i - 1 \in 0..MESSAGELIST_SZ /\ r.out + i - 1 = r.out + (i - 1)
    BY <1>1, InterVMAssumption DEF Slot
  <2>2. QED
    BY <1>1, <2>1, SlotIs
<1>3. \A i \in 1..r.num : r.list[(r.out + i - 1) % MESSAGELIST_SZ] \in Item
  BY <1>1, <1>2
<1>4. QED
  BY <1>1, <1>2, <1>3 DEF Contents

(* Inserting into a ring that is not full appends.                         *)
LEMMA InsertAppends ==
  ASSUME NEW r, Coherent(r), r.num # MESSAGELIST_SZ, NEW m \in Item
  PROVE  /\ Coherent(Insert(r, m))
         /\ Contents(Insert(r, m)) = Append(Contents(r), m)
<1> DEFINE t == Insert(r, m)
<1> USE InterVMAssumption
<1>1. /\ r \in Ring /\ r.in \in Slot /\ r.out \in Slot /\ r.list \in [Slot -> Item]
      /\ r.num \in 0..(MESSAGELIST_SZ - 1) /\ r.in = (r.out + r.num) % MESSAGELIST_SZ
  BY DEF Coherent, Ring, Slot, Item
<1>2. /\ t.in = (r.in + 1) % MESSAGELIST_SZ /\ t.out = r.out /\ t.num = r.num + 1
      /\ t.list = [r.list EXCEPT ![r.in] = m]
      /\ t = [in |-> t.in, out |-> t.out, num |-> t.num, list |-> t.list]
  BY DEF Insert
<1> HIDE DEF t
<1>3. t.in \in Slot /\ t.num \in 0..MESSAGELIST_SZ /\ t.list \in [Slot -> Item]
  <2>1. 1 \in 0..MESSAGELIST_SZ
    OBVIOUS
  <2>2. t.in \in Slot
    BY <1>1, <1>2, <2>1, SlotIs
  <2>3. QED
    BY <1>1, <1>2, <2>2
<1>4. t \in Ring
  BY <1>1, <1>2, <1>3 DEF Ring, Slot, Item
<1>5. t.in = (t.out + t.num) % MESSAGELIST_SZ
  BY <1>1, <1>2, RoundTheRing
<1>6. /\ Contents(t) \in Seq(Item) /\ Len(Contents(t)) = r.num + 1
      /\ \A i \in 1..(r.num + 1) :
           /\ Contents(t)[i] = t.list[(r.out + i - 1) % MESSAGELIST_SZ]
           /\ (r.out + i - 1) % MESSAGELIST_SZ \in Slot
  BY <1>2, <1>4, ContentsIs
<1>7. /\ Contents(r) \in Seq(Item) /\ Len(Contents(r)) = r.num
      /\ \A i \in 1..r.num :
           Contents(r)[i] = r.list[(r.out + i - 1) % MESSAGELIST_SZ]
  BY <1>1, ContentsIs
<1>8. /\ Append(Contents(r), m) \in Seq(Item) /\ Len(Append(Contents(r), m)) = r.num + 1
      /\ \A i \in 1..r.num : Append(Contents(r), m)[i] = Contents(r)[i]
      /\ Append(Contents(r), m)[r.num + 1] = m
  BY <1>7, AppendProperties
<1>9. ASSUME NEW i \in 1..(r.num + 1)
      PROVE  Contents(t)[i] = Append(Contents(r), m)[i]
  <2>1. CASE i = r.num + 1
    <3>1. r.out + i - 1 = r.out + r.num
      BY <1>1, <2>1 DEF Slot
    <3>2. QED
      BY <1>1, <1>2, <1>6, <1>8, <2>1, <3>1
  <2>2. CASE i # r.num + 1
    <3>1. i \in 1..r.num
      BY <1>1, <2>2
    <3>2. (r.out + i - 1) % MESSAGELIST_SZ # r.in
      <4>1. i - 1 \in 0..MESSAGELIST_SZ /\ r.out + i - 1 = r.out + (i - 1)
        BY <1>1, <3>1 DEF Slot
      <4>2. i - 1 \in 0..(MESSAGELIST_SZ - 1) /\ i - 1 # r.num
        BY <1>1, <3>1
      <4>3. QED
        BY <1>1, <4>1, <4>2, RoundTheRing
    <3>3. QED
      BY <1>1, <1>2, <1>6, <1>7, <1>8, <3>1, <3>2
  <2>3. QED
    BY <2>1, <2>2
<1>10. Contents(t) = Append(Contents(r), m)
  BY <1>6, <1>8, <1>9, SeqEqual
<1>11. QED
  BY <1>4, <1>5, <1>10 DEF Coherent, t

(* Removing from a ring that is not empty takes the oldest message.        *)
LEMMA RemoveIsTail ==
  ASSUME NEW r, Coherent(r), r.num # 0
  PROVE  /\ Coherent(Remove(r))
         /\ Contents(r) \in Seq(Item) /\ Contents(r) # <<>>
         /\ Oldest(r) \in Item /\ Oldest(r) = Head(Contents(r))
         /\ Contents(Remove(r)) = Tail(Contents(r))
<1> DEFINE t == Remove(r)
<1> USE InterVMAssumption
<1>1. /\ r \in Ring /\ r.in \in Slot /\ r.out \in Slot /\ r.list \in [Slot -> Item]
      /\ r.num \in 1..MESSAGELIST_SZ /\ r.in = (r.out + r.num) % MESSAGELIST_SZ
  BY DEF Coherent, Ring, Slot, Item
<1>2. /\ t.out = (r.out + 1) % MESSAGELIST_SZ /\ t.in = r.in /\ t.num = r.num - 1
      /\ t.list = r.list
  BY <1>1 DEF Remove, Ring
<1>3. /\ t.out = (IF r.out + 1 < MESSAGELIST_SZ THEN r.out + 1
                  ELSE r.out + 1 - MESSAGELIST_SZ)
      /\ t.out \in Slot /\ t.num \in 0..MESSAGELIST_SZ
  BY <1>1, <1>2, SlotIs
<1>4. t \in Ring
  BY <1>1, <1>2, <1>3 DEF Ring, Slot, Item, Remove
<1>5. ASSUME NEW k \in 0..(r.num - 1)
      PROVE  (t.out + k) % MESSAGELIST_SZ = (r.out + (k + 1)) % MESSAGELIST_SZ
  <2>1. k \in 0..(MESSAGELIST_SZ - 1)
    BY <1>1
  <2>2. QED
    BY <1>1, <1>2, <2>1, RoundTheRing
<1>6. Coherent(t)
  <2>1. (t.out + t.num) % MESSAGELIST_SZ = (r.out + (t.num + 1)) % MESSAGELIST_SZ
    <3>1. t.num \in 0..(r.num - 1)
      BY <1>1, <1>2
    <3> HIDE DEF t
    <3>2. QED
      BY <1>5, <3>1
  <2>2. t.num + 1 = r.num
    BY <1>1, <1>2
  <2>3. QED
    BY <1>1, <1>2, <1>4, <2>1, <2>2 DEF Coherent
<1>7. /\ Contents(r) \in Seq(Item) /\ Len(Contents(r)) = r.num
      /\ \A i \in 1..r.num :
           Contents(r)[i] = r.list[(r.out + i - 1) % MESSAGELIST_SZ]
  BY <1>1, ContentsIs
<1>8. /\ Contents(t) \in Seq(Item) /\ Len(Contents(t)) = r.num - 1
      /\ \A i \in 1..(r.num - 1) :
           Contents(t)[i] = r.list[(t.out + i - 1) % MESSAGELIST_SZ]
  <2> HIDE DEF t
  <2>1. QED
    BY <1>2, <1>4, ContentsIs
<1>9. Contents(r) # <<>>
  BY <1>1, <1>7
<1>10. /\ Tail(Contents(r)) \in Seq(Item) /\ Len(Tail(Contents(r))) = r.num - 1
       /\ \A i \in 1..(r.num - 1) : Tail(Contents(r))[i] = Contents(r)[i + 1]
       /\ Head(Contents(r)) = Contents(r)[1]
  BY <1>1, <1>7, <1>9, HeadTailProperties
<1>11. ASSUME NEW i \in 1..(r.num - 1)
       PROVE  Contents(t)[i] = Tail(Contents(r))[i]
  <2>1. /\ i - 1 \in 0..(r.num - 1) /\ i + 1 \in 1..r.num /\ (i - 1) + 1 = i
        /\ t.out + i - 1 = t.out + (i - 1) /\ r.out + (i + 1) - 1 = r.out + i
    BY <1>1, <1>3 DEF Slot
  <2>2. (t.out + i - 1) % MESSAGELIST_SZ = (r.out + (i + 1) - 1) % MESSAGELIST_SZ
    BY <1>5, <2>1
  <2>3. QED
    BY <1>7, <1>8, <1>10, <2>1, <2>2
<1>12. Contents(t) = Tail(Contents(r))
  <2> HIDE DEF t
  <2>1. QED
    BY <1>8, <1>10, <1>11, SeqEqual
<1>13. Oldest(r) \in Item /\ Oldest(r) = Head(Contents(r))
  <2>1. 1 \in 1..r.num /\ r.out + 1 - 1 = r.out + 0 /\ r.out + 0 = r.out
        /\ r.out + 0 < MESSAGELIST_SZ
    BY <1>1 DEF Slot
  <2>2. (r.out + 0) % MESSAGELIST_SZ = r.out
    BY <1>1, <2>1, SlotIs
  <2>3. QED
    BY <1>1, <1>7, <1>10, <2>1, <2>2 DEF Oldest
<1>14. QED
  BY <1>6, <1>7, <1>9, <1>12, <1>13

(* A ring at start.                                                        *)
LEMMA EmptyIsCoherent == Coherent(EmptyRing) /\ Contents(EmptyRing) = <<>>
<1>1. EmptyRing \in Ring
  BY InterVMAssumption DEF EmptyRing, Ring
<1>2. 0 \in Slot /\ 0 \in 0..MESSAGELIST_SZ /\ 0 + 0 < MESSAGELIST_SZ
  BY InterVMAssumption DEF Slot
<1>3. (0 + 0) % MESSAGELIST_SZ = 0
  BY <1>2, SlotIs
<1>4. Coherent(EmptyRing)
  BY <1>1, <1>3 DEF Coherent, EmptyRing
<1>5. Contents(EmptyRing) \in Seq(Item) /\ Len(Contents(EmptyRing)) = 0
  BY <1>1, ContentsIs DEF EmptyRing
<1>6. QED
  BY <1>4, <1>5

-----------------------------------------------------------------------------
(* The invariant.                                                          *)

LEMMA CommInitEstablishesInv == CommInit => CommInv
<1> SUFFICES ASSUME CommInit PROVE CommInv
  OBVIOUS
<1>1. IInv
  BY InitEstablishesIInv DEF CommInit
<1>2. EmptyRing \in Ring
  BY EmptyIsCoherent DEF Coherent
<1>3. CommTypeOK
  BY <1>1, <1>2 DEF CommInit, CommTypeOK, IInv
<1>4. \A v \in VCPU : Coherent(messages[v]) /\ Coherent(messageList[v])
  BY EmptyIsCoherent DEF CommInit
<1>5. QED
  BY <1>1, <1>3, <1>4 DEF CommInv

(* Whatever this module does to the scheduler, the scheduler does too.     *)
LEMMA CommStepsSchedule == [CommNext]_allVars => [Next]_vars
<1>1. \A v \in VCPU : Notify(v) => [Next]_vars
  BY DEF Notify, Next
<1>2. ASSUME NEW m \in Traffic, SendMsg(m) PROVE [Next]_vars
  BY <1>1, <1>2, InterVMAssumption DEF SendMsg
<1>3. CommTick => [Next]_vars
  BY DEF CommTick, Next
<1>4. \A m \in Traffic : SendMsgFull(m) => UNCHANGED vars
  BY DEF SendMsgFull
<1>5. \A v \in VCPU : Handler(v) \/ ReceiveMessage(v) => UNCHANGED vars
  BY DEF Handler, ReceiveMessage, TakeInterrupt, IrqReceive, IrqReturn
<1>6. UNCHANGED allVars => UNCHANGED vars
  BY DEF allVars
<1>7. QED
  BY <1>2, <1>3, <1>4, <1>5, <1>6 DEF CommNext

(* What is left to show of a step that replaces rings by coherent ones.    *)
LEMMA RingsStep ==
  ASSUME CommInv, IInv',
         messages' \in [VCPU -> Ring], messageList' \in [VCPU -> Ring],
         guestclt2' \in [VCPU -> BOOLEAN], guestCtl2' \in BOOLEAN,
         handling' \in [VCPU -> BOOLEAN],
         \A v \in VCPU : Coherent(messages'[v]) /\ Coherent(messageList'[v])
  PROVE  CommInv'
  BY DEF CommInv, CommTypeOK, IInv, Coherent, Ring, NoMessage

LEMMA CommNextPreservesInv == CommInv /\ [CommNext]_allVars => CommInv'
<1> SUFFICES ASSUME CommInv, [CommNext]_allVars PROVE CommInv'
  OBVIOUS
<1>1. IInv'
  BY CommStepsSchedule, NextPreservesIInv DEF CommInv
<1>2. /\ messages \in [VCPU -> Ring] /\ messageList \in [VCPU -> Ring]
      /\ guestclt2 \in [VCPU -> BOOLEAN] /\ guestCtl2 \in BOOLEAN
      /\ handling \in [VCPU -> BOOLEAN]
      /\ \A v \in VCPU : Coherent(messages[v]) /\ Coherent(messageList[v])
  BY DEF CommInv, CommTypeOK
<1>3. CASE CommTick
  <2>1. UNCHANGED <<messages, messageList, handling>>
    BY <1>3 DEF CommTick
  <2>2. SavedInterrupts \in [VCPU -> BOOLEAN]
    BY <1>2 DEF SavedInterrupts
  <2>3. executing' \in VCPU \cup {NULL}
    BY <1>1 DEF IInv, TypeOK
  <2>4. guestclt2' \in [VCPU -> BOOLEAN]
    BY <1>2, <1>3, <2>2 DEF CommTick
  <2>5. guestCtl2' \in BOOLEAN
    <3>1. executing' # NULL => SavedInterrupts[executing'] \in BOOLEAN
      BY <2>2, <2>3
    <3>2. QED
      BY <1>2, <1>3, <3>1 DEF CommTick
  <2>6. QED
    BY <1>1, <1>2, <2>1, <2>4, <2>5, RingsStep
<1>4. ASSUME NEW m \in Traffic, SendMsg(m)
      PROVE  CommInv'
  <2>1. m.target \in VCPU /\ m \in Item
    BY InterVMAssumption DEF Item
  <2>2. /\ Coherent(messages[m.target]) /\ messages[m.target].num # MESSAGELIST_SZ
        /\ messages' = [messages EXCEPT ![m.target] = Insert(messages[m.target], m)]
        /\ guestclt2' = [guestclt2 EXCEPT ![m.target] = TRUE]
        /\ UNCHANGED <<guestCtl2, messageList, handling>>
    BY <1>2, <1>4, <2>1 DEF SendMsg
  <2>3. Coherent(Insert(messages[m.target], m))
    BY <2>1, <2>2, InsertAppends
  <2>4. QED
    BY <1>1, <1>2, <2>1, <2>2, <2>3, RingsStep DEF Coherent
<1>5. ASSUME NEW m \in Traffic, SendMsgFull(m)
      PROVE  CommInv'
  BY <1>1, <1>2, <1>5, RingsStep DEF SendMsgFull
<1>6. ASSUME NEW v \in VCPU, TakeInterrupt(v)
      PROVE  CommInv'
  BY <1>1, <1>2, <1>6, RingsStep DEF TakeInterrupt
<1>7. ASSUME NEW v \in VCPU, IrqReceive(v)
      PROVE  CommInv'
  <2>1. /\ Coherent(messages[v]) /\ messages[v].num # 0
        /\ Coherent(messageList[v]) /\ messageList[v].num # MESSAGELIST_SZ
        /\ messages' = [messages EXCEPT ![v] = Remove(messages[v])]
        /\ messageList' =
             [messageList EXCEPT ![v] = Insert(messageList[v], Oldest(messages[v]))]
        /\ guestclt2' = [guestclt2 EXCEPT ![v] = FALSE] /\ guestCtl2' = FALSE
        /\ UNCHANGED handling
    BY <1>2, <1>7, InterVMAssumption DEF IrqReceive, RecvMsg
  <2>2. Coherent(Remove(messages[v])) /\ Oldest(messages[v]) \in Item
    BY <2>1, RemoveIsTail
  <2>3. Coherent(Insert(messageList[v], Oldest(messages[v])))
    BY <2>1, <2>2, InsertAppends
  <2>4. QED
    BY <1>1, <1>2, <2>1, <2>2, <2>3, RingsStep DEF Coherent
<1>8. ASSUME NEW v \in VCPU, IrqReturn(v)
      PROVE  CommInv'
  BY <1>1, <1>2, <1>8, RingsStep DEF IrqReturn
<1>9. ASSUME NEW v \in VCPU, ReceiveMessage(v)
      PROVE  CommInv'
  <2>1. /\ Coherent(messageList[v]) /\ messageList[v].num # 0
        /\ messageList' = [messageList EXCEPT ![v] = Remove(messageList[v])]
        /\ UNCHANGED <<messages, guestclt2, guestCtl2, handling>>
    BY <1>2, <1>9 DEF ReceiveMessage
  <2>2. Coherent(Remove(messageList[v]))
    BY <2>1, RemoveIsTail
  <2>3. QED
    BY <1>1, <1>2, <2>1, <2>2, RingsStep DEF Coherent
<1>10. CASE UNCHANGED allVars
  BY <1>1, <1>2, <1>10, RingsStep DEF allVars, commVars
<1>11. QED
  BY <1>3, <1>4, <1>5, <1>6, <1>7, <1>8, <1>9, <1>10 DEF CommNext, Handler

THEOREM CommInvariantHolds == CommSpec => []CommInv
  BY CommInitEstablishesInv, CommNextPreservesInv, PTL DEF CommSpec

(* Type correctness: no sequence of sends, interrupts, switches and        *)
(* receptions takes an index of a ring, or its count, out of bounds.       *)
THEOREM CommTypeCorrect == CommSpec => []CommTypeOK
<1>1. CommInv => CommTypeOK
  BY DEF CommInv
<1>2. QED
  BY CommInvariantHolds, <1>1, PTL

-----------------------------------------------------------------------------
(* The refinement.                                                         *)

Inbox == [v \in VCPU |-> Contents(messageList[v]) \o Contents(messages[v])]

(* Concatenation at its ends.                                              *)
LEMMA JoinAtEnds ==
  ASSUME NEW s \in Seq(Item), NEW u \in Seq(Item), NEW m \in Item
  PROVE  /\ s \o Append(u, m) = Append(s \o u, m)
         /\ s # <<>> => s \o u # <<>> /\ Tail(s) \o u = Tail(s \o u)
         /\ u # <<>> => Append(s, Head(u)) \o Tail(u) = s \o u
<1>1. s \o Append(u, m) = Append(s \o u, m)
  BY ConcatProperties, AppendProperties, SeqEqual
<1>2. ASSUME s # <<>>
      PROVE  s \o u # <<>> /\ Tail(s) \o u = Tail(s \o u)
  BY <1>2, ConcatProperties, HeadTailProperties
<1>3. ASSUME u # <<>>
      PROVE  Append(s, Head(u)) \o Tail(u) = s \o u
  BY <1>3, ConcatProperties, HeadTailProperties, AppendProperties
<1>4. QED
  BY <1>1, <1>2, <1>3

LEMMA InitRefines == CommInit => Channel!Init
<1> SUFFICES ASSUME CommInit PROVE Inbox = [v \in VCPU |-> <<>>]
  BY DEF Channel!Init, Inbox
<1>1. \A v \in VCPU : Inbox[v] = <<>> \o <<>>
  BY EmptyIsCoherent DEF CommInit, Inbox
<1>2. <<>> \o <<>> = <<>>
  OBVIOUS
<1>3. QED
  BY <1>1, <1>2 DEF Inbox

(* An accepted message is appended, also for a sender that is the target.  *)
LEMMA SendRefines ==
  ASSUME CommInv, NEW m \in Traffic, SendMsg(m)
  PROVE  Channel!Accept(m)
<1> DEFINE v == m.target
           queued == messages[v]
           taken == messageList[v]
<1>1. v \in VCPU /\ m \in Item
  BY InterVMAssumption DEF Item
<1>2. /\ Coherent(queued) /\ queued.num # MESSAGELIST_SZ /\ Coherent(taken)
      /\ messages' = [messages EXCEPT ![v] = Insert(queued, m)]
      /\ messageList' = messageList
      /\ messages \in [VCPU -> Ring]
  BY <1>1 DEF SendMsg, CommInv, CommTypeOK
<1>3. /\ Contents(queued) \in Seq(Item) /\ Len(Contents(queued)) = queued.num
      /\ Contents(taken) \in Seq(Item) /\ Len(Contents(taken)) = taken.num
      /\ queued.num \in 0..(MESSAGELIST_SZ - 1) /\ taken.num \in 0..MESSAGELIST_SZ
  <2>1. queued \in Ring /\ taken \in Ring
    BY <1>2 DEF Coherent
  <2> HIDE DEF queued, taken
  <2>2. queued.num \in 0..MESSAGELIST_SZ /\ taken.num \in 0..MESSAGELIST_SZ
    BY <2>1 DEF Ring
  <2>3. QED
    BY <1>2, <2>1, <2>2, ContentsIs, InterVMAssumption
<1>4. Inbox[v] = Contents(taken) \o Contents(queued)
  BY <1>1 DEF Inbox
<1>5. Len(Inbox[v]) < 2 * MESSAGELIST_SZ
  BY <1>3, <1>4, ConcatProperties, InterVMAssumption
<1>6. Inbox'[v] = Append(Inbox[v], m)
  <2>1. Inbox'[v] = Contents(taken) \o Contents(Insert(queued, m))
    BY <1>1, <1>2 DEF Inbox
  <2>2. Contents(Insert(queued, m)) = Append(Contents(queued), m)
    BY <1>1, <1>2, InsertAppends
  <2>3. QED
    BY <1>1, <1>3, <1>4, <2>1, <2>2, JoinAtEnds
<1>7. \A w \in VCPU : w # v => Inbox'[w] = Inbox[w]
  BY <1>1, <1>2 DEF Inbox
<1>8. Inbox' = [Inbox EXCEPT ![v] = Append(Inbox[v], m)]
  BY <1>1, <1>6, <1>7 DEF Inbox
<1>9. QED
  BY <1>5, <1>8 DEF Channel!Accept, Inbox

(* The interrupt handler moves a message from the one ring to the other.   *)
LEMMA IrqReceiveStutters ==
  ASSUME CommInv, NEW v \in VCPU, IrqReceive(v)
  PROVE  UNCHANGED Inbox
<1> DEFINE queued == messages[v]
           taken == messageList[v]
<1>1. /\ Coherent(queued) /\ queued.num # 0
      /\ Coherent(taken) /\ taken.num # MESSAGELIST_SZ
      /\ messages' = [messages EXCEPT ![v] = Remove(queued)]
      /\ messageList' = [messageList EXCEPT ![v] = Insert(taken, Oldest(queued))]
      /\ messages \in [VCPU -> Ring] /\ messageList \in [VCPU -> Ring]
  BY InterVMAssumption DEF IrqReceive, RecvMsg, CommInv, CommTypeOK
<1>2. /\ Contents(queued) \in Seq(Item) /\ Contents(queued) # <<>>
      /\ Oldest(queued) \in Item /\ Oldest(queued) = Head(Contents(queued))
      /\ Contents(Remove(queued)) = Tail(Contents(queued))
  BY <1>1, RemoveIsTail
<1>3. /\ Contents(taken) \in Seq(Item)
      /\ Contents(Insert(taken, Oldest(queued))) =
           Append(Contents(taken), Head(Contents(queued)))
  BY <1>1, <1>2, InsertAppends, ContentsIs DEF Coherent
<1>4. Inbox'[v] = Inbox[v]
  <2>1. Inbox'[v] = Contents(Insert(taken, Oldest(queued))) \o Contents(Remove(queued))
    BY <1>1 DEF Inbox
  <2>2. Inbox[v] = Contents(taken) \o Contents(queued)
    BY DEF Inbox
  <2>3. QED
    BY <1>2, <1>3, <2>1, <2>2, JoinAtEnds
<1>5. \A w \in VCPU : w # v => Inbox'[w] = Inbox[w]
  BY <1>1 DEF Inbox
<1>6. QED
  BY <1>4, <1>5 DEF Inbox

(* The application receives the oldest message of the two.                 *)
LEMMA ReceiveRefines ==
  ASSUME CommInv, NEW v \in VCPU, ReceiveMessage(v)
  PROVE  Channel!Receive(v)
<1> DEFINE queued == messages[v]
           taken == messageList[v]
<1>1. /\ Coherent(queued) /\ Coherent(taken) /\ taken.num # 0
      /\ messageList' = [messageList EXCEPT ![v] = Remove(taken)]
      /\ messages' = messages /\ messageList \in [VCPU -> Ring]
  BY DEF ReceiveMessage, CommInv, CommTypeOK
<1>2. /\ Contents(taken) \in Seq(Item) /\ Contents(taken) # <<>>
      /\ Contents(Remove(taken)) = Tail(Contents(taken))
      /\ Oldest(taken) \in Item
  BY <1>1, RemoveIsTail
<1>3. Contents(queued) \in Seq(Item)
  BY <1>1, ContentsIs DEF Coherent
<1>4. Inbox[v] = Contents(taken) \o Contents(queued)
      /\ Inbox'[v] = Contents(Remove(taken)) \o Contents(queued)
  BY <1>1 DEF Inbox
<1>5. Inbox[v] # <<>> /\ Inbox'[v] = Tail(Inbox[v])
  BY <1>2, <1>3, <1>4, JoinAtEnds
<1>6. \A w \in VCPU : w # v => Inbox'[w] = Inbox[w]
  BY <1>1 DEF Inbox
<1>7. Inbox' = [Inbox EXCEPT ![v] = Tail(Inbox[v])]
  BY <1>5, <1>6 DEF Inbox
<1>8. QED
  BY <1>5, <1>7 DEF Channel!Receive, Inbox

(* For every number of VCPUs, size of the rings and traffic, the rings of  *)
(* the hypervisor and of the guest library are one FIFO channel: every     *)
(* message that intervm_send_msg() accepted is received once, by its       *)
(* target, in the order of acceptance.                                     *)
THEOREM MessagesAreAChannel == CommSpec => ImplementsChannel
<1>1. ASSUME CommInv, CommNext
      PROVE  Channel!Next \/ UNCHANGED Inbox
  <2>1. CASE CommTick
    BY <2>1 DEF CommTick, Inbox
  <2>2. ASSUME NEW m \in Traffic, SendMsg(m)
        PROVE  Channel!Next
    BY <1>1, <2>2, SendRefines DEF Channel!Next
  <2>3. ASSUME NEW m \in Traffic, SendMsgFull(m)
        PROVE  UNCHANGED Inbox
    BY <2>3 DEF SendMsgFull, Inbox
  <2>4. ASSUME NEW v \in VCPU, TakeInterrupt(v) \/ IrqReturn(v)
        PROVE  UNCHANGED Inbox
    BY <2>4 DEF TakeInterrupt, IrqReturn, Inbox
  <2>5. ASSUME NEW v \in VCPU, IrqReceive(v)
        PROVE  UNCHANGED Inbox
    BY <1>1, <2>5, IrqReceiveStutters
  <2>6. ASSUME NEW v \in VCPU, ReceiveMessage(v)
        PROVE  Channel!Next
    BY <1>1, <2>6, ReceiveRefines DEF Channel!Next
  <2>7. QED
    BY <1>1, <2>1, <2>2, <2>3, <2>4, <2>5, <2>6 DEF CommNext, Handler
<1>2. ASSUME UNCHANGED allVars PROVE UNCHANGED Inbox
  BY <1>2 DEF allVars, commVars, Inbox
<1>3. CommInv /\ [CommNext]_allVars => [Channel!Next]_Inbox
  BY <1>1, <1>2
<1>4. QED
  BY <1>3, InitRefines, CommInvariantHolds, PTL
     DEF CommSpec, ImplementsChannel, Channel!Spec, Inbox
=============================================================================
