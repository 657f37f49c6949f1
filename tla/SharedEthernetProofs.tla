------------------------ MODULE SharedEthernetProofs ------------------------
(***************************************************************************)
(* The uses of the buffers that the VMs share are counted right, and with  *)
(* the rings of the VMs the buffers are one inbox for each VM, whatever    *)
(* the traffic until an array is indexed with -1, for every number of VMs  *)
(* and of buffers.                                                         *)
(***************************************************************************)
EXTENDS SharedEthernet, FiniteSetTheorems, SequenceTheorems, TLAPS

-----------------------------------------------------------------------------
(* The ring of a VM as the sequence of buffers kept for it.                *)

Control == [input : Buffer, output : Buffer, list : [Buffer -> Buffer \cup {NONE}]]

\* A full ring has the indices of an empty one, but an entry at output.
Size(c) ==
  IF c.input = c.output /\ c.list[c.output] # NONE THEN NUMBER_OF_FRAMES
  ELSE (c.input - c.output) % NUMBER_OF_FRAMES

Ring(c) == [k \in 1..Size(c) |-> c.list[(c.output + k - 1) % NUMBER_OF_FRAMES]]

LEMMA WrapUp ==
  ASSUME NEW n \in Nat \ {0}, NEW k \in 0..(2 * n - 1)
  PROVE  /\ k % n = IF k < n THEN k ELSE k - n
         /\ k % n \in 0..(n - 1)
<1>1. CASE k < n
  BY <1>1
<1>2. CASE k >= n
  <2>1. k - n \in 0..(n - 1) /\ k = 1 * n + (k - n)
    BY <1>2
  <2>2. QED
    BY <1>2, <2>1
<1>3. QED
  BY <1>1, <1>2

LEMMA WrapDown ==
  ASSUME NEW n \in Nat \ {0}, NEW i \in 0..(n - 1), NEW o \in 0..(n - 1)
  PROVE  /\ (i - o) % n = IF o <= i THEN i - o ELSE i - o + n
         /\ (i - o) % n \in 0..(n - 1)
<1>1. CASE o <= i
  <2>1. i - o \in 0..(n - 1)
    BY <1>1
  <2>2. QED
    BY <1>1, <2>1
<1>2. CASE o > i
  <2>1. i - o + n \in 0..(n - 1) /\ i - o = (-1) * n + (i - o + n)
    BY <1>2
  <2>2. QED
    BY <1>2, <2>1
<1>3. QED
  BY <1>1, <1>2

LEMMA Further ==
  ASSUME NEW n \in Nat \ {0}, NEW o \in 0..(n - 1), NEW k \in 0..(n - 1)
  PROVE  /\ (o + k) % n = IF o + k < n THEN o + k ELSE o + k - n
         /\ (o + k) % n \in 0..(n - 1)
<1> DEFINE r == o + k
<1>1. r \in 0..(2 * n - 1)
  OBVIOUS
<1> HIDE DEF r
<1>2. r % n = (IF r < n THEN r ELSE r - n) /\ r % n \in 0..(n - 1)
  BY <1>1, WrapUp
<1>3. QED
  BY <1>2 DEF r

LEMMA NextSlot ==
  ASSUME NEW n \in Nat \ {0}, NEW i \in 0..(n - 1)
  PROVE  /\ (i + 1) % n = IF i + 1 < n THEN i + 1 ELSE i + 1 - n
         /\ (i + 1) % n \in 0..(n - 1)
<1> DEFINE r == i + 1
<1>1. r \in 0..(2 * n - 1)
  OBVIOUS
<1> HIDE DEF r
<1>2. r % n = (IF r < n THEN r ELSE r - n) /\ r % n \in 0..(n - 1)
  BY <1>1, WrapUp
<1>3. QED
  BY <1>2 DEF r

(* From output on, k slots further.                                        *)
LEMMA RoundTheRing ==
  ASSUME NEW n \in Nat \ {0}, NEW o \in 0..(n - 1), NEW k \in 0..(n - 1)
  PROVE  /\ (o + k) % n = IF o + k < n THEN o + k ELSE o + k - n
         /\ (o + k) % n \in 0..(n - 1)
         /\ \A j \in 0..(n - 1) : (o + j) % n = (o + k) % n => j = k
         /\ (((o + k) % n) - o) % n = k
         /\ (((o + 1) % n) + k) % n = (o + (k + 1)) % n
<1>1. \A j \in 0..(n - 1) :
        /\ (o + j) % n = IF o + j < n THEN o + j ELSE o + j - n
        /\ (o + j) % n \in 0..(n - 1)
  BY Further
<1>2. \A j \in 0..(n - 1) : (o + j) % n = (o + k) % n => j = k
  BY <1>1
<1>3. (((o + k) % n) - o) % n = k
  <2> DEFINE at == (o + k) % n
  <2>1. at \in 0..(n - 1) /\ at = IF o + k < n THEN o + k ELSE o + k - n
    BY <1>1
  <2> HIDE DEF at
  <2>2. (at - o) % n = IF o <= at THEN at - o ELSE at - o + n
    BY <2>1, WrapDown
  <2>3. (at - o) % n = k
    BY <2>1, <2>2
  <2>4. QED
    BY <2>3 DEF at
<1>4. (((o + 1) % n) + k) % n = (o + (k + 1)) % n
  <2> DEFINE p == (o + 1) % n
             q == o + (k + 1)
  <2>1. p \in 0..(n - 1) /\ p = IF o + 1 < n THEN o + 1 ELSE o + 1 - n
    BY NextSlot
  <2> HIDE DEF p
  <2> DEFINE s == p + k
  <2>2. s % n = IF s < n THEN s ELSE s - n
    <3>1. s \in 0..(2 * n - 1)
      BY <2>1
    <3> HIDE DEF s
    <3>2. QED
      BY <3>1, WrapUp
  <2>3. q % n = IF q < n THEN q ELSE q - n
    <3>1. q \in 0..(2 * n - 1)
      OBVIOUS
    <3> HIDE DEF q
    <3>2. QED
      BY <3>1, WrapUp
  <2>4. s % n = q % n
    <3> HIDE DEF s, q
    <3>1. s = p + k /\ q = o + (k + 1)
      BY DEF s, q
    <3>2. QED
      BY <2>1, <2>2, <2>3, <3>1
  <2>5. QED
    BY <2>4 DEF s, p, q
<1>5. QED
  BY <1>1, <1>2, <1>3, <1>4

\* The slot of the k-th buffer of a ring.
SlotOf(c, k) == (c.output + k - 1) % NUMBER_OF_FRAMES

\* The slots that hold a buffer are those of the ring.
Proper(c) ==
  \A k \in 1..NUMBER_OF_FRAMES : c.list[SlotOf(c, k)] # NONE <=> k <= Size(c)

LEMMA SlotsOf ==
  ASSUME NEW c \in Control
  PROVE  /\ Size(c) \in 0..NUMBER_OF_FRAMES
         /\ c.input # c.output =>
              /\ Size(c) = (c.input - c.output) % NUMBER_OF_FRAMES
              /\ Size(c) \in 1..(NUMBER_OF_FRAMES - 1)
         /\ c.input = c.output =>
              Size(c) = IF c.list[c.output] # NONE THEN NUMBER_OF_FRAMES ELSE 0
         /\ Size(c) < NUMBER_OF_FRAMES => SlotOf(c, Size(c) + 1) = c.input
         /\ SlotOf(c, 1) = c.output
         /\ \A k \in 1..NUMBER_OF_FRAMES : SlotOf(c, k) \in Buffer
         /\ \A j, k \in 1..NUMBER_OF_FRAMES : SlotOf(c, j) = SlotOf(c, k) => j = k
<1> DEFINE n == NUMBER_OF_FRAMES
           o == c.output
           i == c.input
<1>1. n \in Nat \ {0} /\ o \in 0..(n - 1) /\ i \in 0..(n - 1)
  BY EthernetAssumption DEF Control, Buffer
<1>2. /\ (i - o) % n = IF o <= i THEN i - o ELSE i - o + n
      /\ (i - o) % n \in 0..(n - 1)
  <2> HIDE DEF n, o, i
  <2>1. QED
    BY <1>1, WrapDown
<1>3. \A k \in 1..n : /\ SlotOf(c, k) = IF o + (k - 1) < n THEN o + (k - 1) ELSE o + (k - 1) - n
                      /\ SlotOf(c, k) \in 0..(n - 1)
  <2> SUFFICES ASSUME NEW k \in 1..n
               PROVE  /\ SlotOf(c, k) = IF o + (k - 1) < n THEN o + (k - 1) ELSE o + (k - 1) - n
                      /\ SlotOf(c, k) \in 0..(n - 1)
    OBVIOUS
  <2>1. PICK j \in 0..(n - 1) : j = k - 1
    BY <1>1
  <2>2. SlotOf(c, k) = (o + j) % n
    <3>1. o + k - 1 = o + j
      BY <1>1, <2>1
    <3>2. QED
      BY <3>1 DEF SlotOf
  <2>3. /\ (o + j) % n = IF o + j < n THEN o + j ELSE o + j - n
        /\ (o + j) % n \in 0..(n - 1)
    <3> HIDE DEF n, o, i
    <3>1. QED
      BY <1>1, <2>1, RoundTheRing
  <2>4. QED
    BY <2>1, <2>2, <2>3
<1>4. ASSUME Size(c) < n PROVE SlotOf(c, Size(c) + 1) = i
  <2>1. Size(c) = (i - o) % n
    <3>1. ~ (i = o /\ c.list[o] # NONE)
      BY <1>1, <1>4 DEF Size
    <3>2. QED
      BY <3>1 DEF Size
  <2>2. PICK m \in 1..n : m = Size(c) + 1
    BY <1>1, <1>2, <2>1
  <2>3. SlotOf(c, m) = IF o + (m - 1) < n THEN o + (m - 1) ELSE o + (m - 1) - n
    BY <1>3
  <2> HIDE DEF n, o, i
  <2>4. SlotOf(c, m) = i
    BY <1>1, <1>2, <2>1, <2>2, <2>3
  <2>5. QED
    BY <2>2, <2>4
<1>5. SlotOf(c, 1) = o
  <2>1. 1 \in 1..n
    BY <1>1
  <2>2. SlotOf(c, 1) = IF o + (1 - 1) < n THEN o + (1 - 1) ELSE o + (1 - 1) - n
    BY <1>3, <2>1
  <2> HIDE DEF n, o, i
  <2>3. QED
    BY <1>1, <2>2
<1>6. \A j, k \in 1..n : SlotOf(c, j) = SlotOf(c, k) => j = k
  <2> HIDE DEF n, o, i
  <2>1. QED
    BY <1>1, <1>3
<1>7. /\ Size(c) \in 0..n
      /\ i # o => Size(c) = (i - o) % n /\ Size(c) \in 1..(n - 1)
      /\ i = o => Size(c) = IF c.list[o] # NONE THEN n ELSE 0
  <2>1. Size(c) = IF i = o /\ c.list[o] # NONE THEN n ELSE (i - o) % n
    BY DEF Size
  <2> DEFINE e == c.list[o]
  <2>2. Size(c) = IF i = o /\ e # NONE THEN n ELSE (i - o) % n
    BY <2>1
  <2> HIDE DEF n, o, i, e
  <2>3. /\ Size(c) \in 0..n
        /\ i # o => Size(c) = (i - o) % n /\ Size(c) \in 1..(n - 1)
        /\ i = o => Size(c) = IF e # NONE THEN n ELSE 0
    BY <1>1, <1>2, <2>2
  <2>4. QED
    BY <2>3 DEF e
<1>8. QED
  BY <1>3, <1>4, <1>5, <1>6, <1>7 DEF Buffer

(* A buffer is put at the end of a ring that is not full.                  *)
LEMMA PutAppends ==
  ASSUME NEW c \in Control, Proper(c), NEW b \in Buffer, NEW d,
         Size(c) < NUMBER_OF_FRAMES,
         d = [c EXCEPT !.list[c.input] = b, !.input = Following(@)]
  PROVE  /\ d \in Control /\ Proper(d)
         /\ Size(d) = Size(c) + 1
         /\ Ring(d) = [k \in 1..(Size(c) + 1) |-> IF k = Size(c) + 1 THEN b ELSE Ring(c)[k]]
<1> DEFINE n == NUMBER_OF_FRAMES
           o == c.output
           s == Size(c)
<1>1. /\ n \in Nat \ {0} /\ o \in 0..(n - 1) /\ s \in 0..(n - 1) /\ s + 1 \in 1..n
      /\ b # NONE /\ 1 \in 1..n
  BY EthernetAssumption, SlotsOf DEF Control, Buffer
<1>2. /\ d.output = o
      /\ d.list = [c.list EXCEPT ![c.input] = b]
      /\ d.input = (c.input + 1) % n
  BY DEF Control, Following
<1>3. /\ c.input = IF o + s < n THEN o + s ELSE o + s - n
      /\ c.input \in 0..(n - 1)
      /\ d.input = IF c.input + 1 < n THEN c.input + 1 ELSE c.input + 1 - n
      /\ d.input \in 0..(n - 1)
  <2>1. SlotOf(c, s + 1) = c.input
    BY SlotsOf
  <2>2. o + (s + 1) - 1 = o + s
    BY <1>1
  <2>3. c.input = (o + s) % n
    BY <2>1, <2>2 DEF SlotOf
  <2>4. c.input = (IF o + s < n THEN o + s ELSE o + s - n) /\ c.input \in 0..(n - 1)
    <3> HIDE DEF n, o, s
    <3>1. QED
      BY <1>1, <2>3, Further
  <2>5. /\ d.input = IF c.input + 1 < n THEN c.input + 1 ELSE c.input + 1 - n
        /\ d.input \in 0..(n - 1)
    <3> DEFINE i == c.input
    <3>1. i \in 0..(n - 1) /\ d.input = (i + 1) % n
      BY <1>2, <2>4
    <3> HIDE DEF n, i
    <3>2. d.input = (IF i + 1 < n THEN i + 1 ELSE i + 1 - n) /\ d.input \in 0..(n - 1)
      BY <1>1, <3>1, NextSlot
    <3>3. QED
      BY <3>2 DEF i
  <2>6. QED
    BY <2>4, <2>5
<1>4. d \in Control
  BY <1>2, <1>3 DEF Control, Buffer
<1>5. ASSUME NEW k \in 1..n
      PROVE  /\ d.list[SlotOf(c, k)] = IF k = s + 1 THEN b ELSE c.list[SlotOf(c, k)]
             /\ d.list[SlotOf(c, k)] # NONE <=> k <= s + 1
  <2>1. SlotOf(c, k) \in Buffer /\ (SlotOf(c, k) = c.input <=> k = s + 1)
    BY <1>1, SlotsOf
  <2>2. d.list[SlotOf(c, k)] = IF k = s + 1 THEN b ELSE c.list[SlotOf(c, k)]
    BY <1>2, <2>1 DEF Control
  <2>3. c.list[SlotOf(c, k)] # NONE <=> k <= s
    BY DEF Proper
  <2>4. k <= s + 1 <=> k = s + 1 \/ k <= s
    BY <1>1
  <2>5. QED
    BY <1>1, <2>2, <2>3, <2>4
<1>6. Size(d) = s + 1
  <2>1. CASE s + 1 < n
    <3> DEFINE e == d.input
    <3>1. e # o /\ e \in 0..(n - 1) /\ (o <= e => e - o = s + 1) /\ (o > e => e - o + n = s + 1)
      BY <1>1, <1>3, <2>1
    <3>2. (e - o) % n = IF o <= e THEN e - o ELSE e - o + n
      <4> HIDE DEF n, o, e
      <4>1. QED
        BY <1>1, <3>1, WrapDown
    <3>3. (e - o) % n = s + 1
      BY <1>1, <3>1, <3>2
    <3>4. QED
      BY <1>2, <3>1, <3>3 DEF Size
  <2>2. CASE s + 1 = n
    <3>1. d.input = o
      BY <1>1, <1>3, <2>2
    <3>2. SlotOf(c, 1) = o /\ 1 <= s + 1
      BY <1>1, SlotsOf
    <3>3. d.list[o] # NONE
      BY <1>1, <1>5, <3>2
    <3>4. QED
      BY <1>2, <2>2, <3>1, <3>3 DEF Size
  <2>3. QED
    BY <1>1, <2>1, <2>2
<1>7. Proper(d)
  BY <1>2, <1>5, <1>6 DEF Proper, SlotOf
<1>8. ASSUME NEW k \in 1..(s + 1)
      PROVE  d.list[SlotOf(c, k)] = IF k = s + 1 THEN b ELSE Ring(c)[k]
  <2>1. k \in 1..n /\ (k = s + 1 \/ k \in 1..s)
    BY <1>1
  <2>2. QED
    BY <1>5, <2>1 DEF Ring, SlotOf
<1>9. QED
  BY <1>2, <1>4, <1>6, <1>7, <1>8 DEF Ring, SlotOf

(* What is taken is the first buffer of a ring that is not empty.          *)
LEMMA TakeIsHead ==
  ASSUME NEW c \in Control, Proper(c), NEW d, c.input # c.output,
         d = [c EXCEPT !.list[c.output] = NONE, !.output = Following(@)]
  PROVE  /\ d \in Control /\ Proper(d)
         /\ Size(c) \in 1..(NUMBER_OF_FRAMES - 1)
         /\ Size(d) = Size(c) - 1
         /\ Ring(d) = [k \in 1..(Size(c) - 1) |-> Ring(c)[k + 1]]
         /\ Ring(c)[1] = c.list[c.output]
<1> DEFINE n == NUMBER_OF_FRAMES
           o == c.output
           s == Size(c)
<1>1. n \in Nat \ {0} /\ o \in 0..(n - 1) /\ s \in 1..(n - 1) /\ n \in 1..n
  BY EthernetAssumption, SlotsOf DEF Control, Buffer
<1>2. /\ d.output = (o + 1) % n
      /\ d.list = [c.list EXCEPT ![o] = NONE]
      /\ d.input = c.input
  BY DEF Control, Following
<1>3. PICK p \in 0..(n - 1) : p = d.output /\ p = IF o + 1 < n THEN o + 1 ELSE o + 1 - n
  <2>1. PICK r \in 0..(2 * n - 1) : r = o + 1
    BY <1>1
  <2>2. r % n = (IF r < n THEN r ELSE r - n) /\ r % n \in 0..(n - 1)
    BY <1>1, WrapUp
  <2>3. d.output = r % n
    BY <1>2, <2>1
  <2>4. QED
    BY <1>1, <2>1, <2>2, <2>3
<1>4. d \in Control
  BY <1>2, <1>3 DEF Control, Buffer
<1>5. ASSUME NEW k \in 1..n, k < n
      PROVE  SlotOf(d, k) = SlotOf(c, k + 1) /\ SlotOf(c, k + 1) \in Buffer \ {o}
  <2>1. k + 1 \in 1..n /\ 1 \in 1..n /\ k + 1 # 1
    BY <1>1, <1>5
  <2>2. SlotOf(d, k) = SlotOf(c, k + 1)
    <3>1. PICK j \in 0..(n - 1) : j = k - 1 /\ j + 1 \in 0..(n - 1)
      BY <1>1, <1>5
    <3>2. p + k - 1 = p + j /\ o + (k + 1) - 1 = o + (j + 1)
      BY <1>1, <1>3, <3>1
    <3>3. (p + j) % n = (o + (j + 1)) % n
      <4>1. p = (o + 1) % n
        BY <1>2, <1>3
      <4> HIDE DEF n, o, s
      <4>2. QED
        BY <1>1, <3>1, <4>1, RoundTheRing
    <3>4. QED
      BY <1>3, <3>2, <3>3 DEF SlotOf
  <2>3. SlotOf(c, k + 1) \in Buffer /\ SlotOf(c, k + 1) # o
    BY <2>1, SlotsOf
  <2>4. QED
    BY <2>2, <2>3
<1>6. SlotOf(d, n) = o
  <2>1. PICK j \in 0..(n - 1) : j = n - 1
    BY <1>1
  <2>2. SlotOf(d, n) = (p + j) % n
    <3>1. p + n - 1 = p + j
      BY <1>1, <2>1
    <3>2. QED
      BY <1>3, <3>1 DEF SlotOf
  <2>3. (p + j) % n = IF p + j < n THEN p + j ELSE p + j - n
    <3> HIDE DEF n, o, s
    <3>1. QED
      BY <1>1, <1>3, <2>1, Further
  <2>4. (IF p + j < n THEN p + j ELSE p + j - n) = o
    <3> HIDE DEF n, o, s
    <3>1. QED
      BY <1>1, <1>3, <2>1
  <2>5. QED
    BY <2>2, <2>3, <2>4, Zenon
<1>7. /\ d.list[o] = NONE
      /\ \A x \in Buffer : x # o => d.list[x] = c.list[x]
  BY <1>1, <1>2 DEF Control, Buffer
<1>8. Size(d) = s - 1
  <2> DEFINE i == c.input
  <2>1. i \in 0..(n - 1) /\ i # o
    BY DEF Control, Buffer
  <2>2. s = (i - o) % n
    BY SlotsOf
  <2>3. /\ (i - o) % n = IF o <= i THEN i - o ELSE i - o + n
        /\ (i - p) % n = IF p <= i THEN i - p ELSE i - p + n
    <3> HIDE DEF n, o, s, i
    <3>1. QED
      BY <1>1, <1>3, <2>1, WrapDown
  <2>4. (i - p) % n = s - 1
    <3> HIDE DEF n, o, s, i
    <3>1. QED
      BY <1>1, <1>3, <2>1, <2>2, <2>3
  <2>5. CASE i = p
    <3>1. s = 1 /\ 1 \in 1..n /\ 1 < n
      BY <1>1, <1>3, <2>2, <2>3, <2>5
    <3>2. SlotOf(d, 1) = p
      BY <1>3, <1>4, SlotsOf
    <3>3. SlotOf(d, 1) = SlotOf(c, 1 + 1) /\ SlotOf(c, 1 + 1) \in Buffer \ {o}
      BY <1>5, <3>1
    <3>4. 1 + 1 \in 1..n /\ ~ (1 + 1 <= s)
      BY <3>1, <1>1
    <3>5. c.list[SlotOf(c, 1 + 1)] = NONE
      BY <3>4 DEF Proper
    <3>6. d.list[p] = NONE
      BY <1>7, <3>2, <3>3, <3>5
    <3>7. d.input = d.output /\ d.list[d.output] = NONE
      BY <1>2, <1>3, <2>5, <3>6
    <3>8. Size(d) = 0
      BY <1>4, <3>7, SlotsOf
    <3>9. QED
      BY <3>1, <3>8
  <2>6. CASE i # p
    <3>1. Size(d) = (i - p) % n
      BY <1>2, <1>3, <1>4, <2>6, SlotsOf
    <3>2. QED
      BY <2>4, <3>1
  <2>7. QED
    BY <2>5, <2>6
<1>9. Proper(d)
  <2> SUFFICES ASSUME NEW k \in 1..n
               PROVE  d.list[SlotOf(d, k)] # NONE <=> k <= s - 1
    BY <1>8 DEF Proper
  <2>1. CASE k = n
    <3>1. ~ (k <= s - 1)
      BY <1>1, <2>1
    <3>2. QED
      BY <1>6, <1>7, <2>1, <3>1
  <2>2. CASE k < n
    <3>1. d.list[SlotOf(d, k)] = c.list[SlotOf(c, k + 1)]
      BY <1>5, <1>7, <2>2
    <3>2. k + 1 \in 1..n
      BY <1>1, <2>2
    <3>3. c.list[SlotOf(c, k + 1)] # NONE <=> k + 1 <= s
      BY <3>2 DEF Proper
    <3>4. k + 1 <= s <=> k <= s - 1
      BY <1>1
    <3>5. QED
      BY <3>1, <3>3, <3>4
  <2>3. QED
    BY <1>1, <2>1, <2>2
<1>10. ASSUME NEW k \in 1..(s - 1)
      PROVE  d.list[SlotOf(d, k)] = Ring(c)[k + 1]
  <2>1. k \in 1..n /\ k < n /\ k + 1 \in 1..s
    BY <1>1
  <2>2. d.list[SlotOf(d, k)] = c.list[SlotOf(c, k + 1)]
    BY <1>5, <1>7, <2>1
  <2>3. QED
    BY <2>1, <2>2 DEF Ring, SlotOf
<1>11. Ring(c)[1] = c.list[o]
  <2>1. 1 \in 1..s /\ SlotOf(c, 1) = o
    BY <1>1, SlotsOf
  <2>2. QED
    BY <2>1 DEF Ring, SlotOf
<1>12. QED
  BY <1>1, <1>4, <1>11, <1>8, <1>9, <1>10 DEF Ring, SlotOf

-----------------------------------------------------------------------------
(* The frames found by a poll, one after the other.                        *)

(* A nonempty set of naturals has a least element: the intervals below its *)
(* elements are finite sets, which strict inclusion orders well.           *)
LEMMA LeastNatural ==
  ASSUME NEW S \in SUBSET Nat, S # {}
  PROVE  \E x \in S : \A y \in S : x <= y
<1> DEFINE Below == {0..x : x \in S}
           R == StrictSubsetOrdering(Nat)
<1>1. Below \subseteq FiniteSubsetsOf(Nat) /\ Below # {}
  <2>1. \A x \in S : 0..x \subseteq Nat /\ IsFiniteSet(0..x)
    BY FS_Interval
  <2>2. QED
    BY <2>1 DEF FiniteSubsetsOf
<1>2. PICK B \in Below : \A C \in Below : <<C, B>> \notin R
  <2>1. IsWellFoundedOn(R, FiniteSubsetsOf(Nat))
    BY FS_StrictSubsetOrderingWellFounded
  <2> HIDE DEF Below, R
  <2>2. QED
    BY <1>1, <2>1, WFMin
<1>3. PICK x \in S : B = 0..x
  OBVIOUS
<1>4. ASSUME NEW y \in S, y < x
      PROVE  FALSE
  <2>1. 0..y \subseteq 0..x /\ x \in 0..x /\ x \notin 0..y
    BY <1>4
  <2>2. <<0..y, B>> \in R
    BY <2>1, <1>3 DEF StrictSubsetOrdering
  <2>3. QED
    BY <2>2, <1>2
<1>5. \A y \in S : x <= y
  BY <1>4
<1>6. QED
  BY <1>5

(* Induction up to n, on a set.                                            *)
LEMMA UpTo ==
  ASSUME NEW n \in Nat, NEW T, 0 \in T, \A k \in 1..n : k - 1 \in T => k \in T
  PROVE  \A k \in 0..n : k \in T
<1> SUFFICES ASSUME NEW m \in 0..n, m \notin T PROVE FALSE
  OBVIOUS
<1> DEFINE S == {k \in 0..n : k \notin T}
<1>1. PICK x \in S : \A y \in S : x <= y
  <2>1. S \in SUBSET Nat /\ S # {}
    OBVIOUS
  <2> HIDE DEF S
  <2>2. QED
    BY <2>1, LeastNatural
<1>2. x \in 1..n /\ x - 1 \in 0..n /\ x - 1 \notin S
  BY <1>1
<1>3. QED
  BY <1>1, <1>2

(* KeepAll() is the last of a row of stores.                               *)
LEMMA KeepAllSteps ==
  ASSUME NEW s, NEW q, Len(q) \in Nat
  PROVE  \E f : /\ f = [k \in 0..Len(q) |->
                          IF k = 0 THEN s ELSE KeepForeign(f[k - 1], q[k])]
                /\ KeepAll(s, q) = f[Len(q)]
<1> DEFINE Steps(f, n) ==
             f = [k \in 0..n |-> IF k = 0 THEN s ELSE KeepForeign(f[k - 1], q[k])]
           T == {n \in Nat : \E f : Steps(f, n)}
<1>1. 0 \in T
  <2> DEFINE g == [k \in 0..0 |-> s]
  <2>1. Steps(g, 0)
    OBVIOUS
  <2>2. QED
    BY <2>1
<1>2. ASSUME NEW n \in 1..Len(q), n - 1 \in T PROVE n \in T
  <2>1. PICK f : Steps(f, n - 1)
    BY <1>2
  <2> DEFINE g == [k \in 0..n |-> IF k < n THEN f[k] ELSE KeepForeign(f[n - 1], q[n])]
  <2>2. ASSUME NEW k \in 0..n
        PROVE  g[k] = IF k = 0 THEN s ELSE KeepForeign(g[k - 1], q[k])
    <3>1. CASE k = n
      <4>1. g[n - 1] = f[n - 1] /\ g[n] = KeepForeign(f[n - 1], q[n])
        OBVIOUS
      <4>2. QED
        BY <3>1, <4>1
    <3>2. CASE k < n
      <4>1. k \in 0..(n - 1)
        BY <3>2
      <4>2. f[k] = IF k = 0 THEN s ELSE KeepForeign(f[k - 1], q[k])
        BY <2>1, <4>1
      <4>3. g[k] = f[k] /\ (k # 0 => g[k - 1] = f[k - 1])
        BY <3>2
      <4>4. QED
        BY <4>2, <4>3
    <3>3. QED
      BY <3>1, <3>2
  <2>3. Steps(g, n)
    BY <2>2
  <2> HIDE DEF g
  <2>4. QED
    BY <2>3
<1>3. Len(q) \in T
  <2> HIDE DEF T
  <2>1. \A k \in 0..Len(q) : k \in T
    BY <1>1, <1>2, UpTo
  <2>2. QED
    BY <2>1
<1> DEFINE f == CHOOSE f : Steps(f, Len(q))
<1>4. Steps(f, Len(q))
  BY <1>3
<1>5. KeepAll(s, q) = f[Len(q)]
  BY Zenon DEF KeepAll
<1> HIDE DEF f
<1>6. QED
  BY <1>4, <1>5

-----------------------------------------------------------------------------
(* The frames that are for a VM.                                           *)

LEMMA AddressedSteps ==
  ASSUME NEW q, NEW i, Len(q) \in Nat
  PROVE  \E a : /\ a = [k \in 0..Len(q) |->
                          IF k = 0 THEN <<>>
                          ELSE IF q[k].dst \in {i, BROADCAST} THEN Append(a[k - 1], q[k])
                          ELSE a[k - 1]]
                /\ Addressed(q, i) = a[Len(q)]
<1> DEFINE Steps(a, n) ==
             a = [k \in 0..n |-> IF k = 0 THEN <<>>
                                 ELSE IF q[k].dst \in {i, BROADCAST} THEN Append(a[k - 1], q[k])
                                 ELSE a[k - 1]]
           T == {n \in Nat : \E a : Steps(a, n)}
<1>1. 0 \in T
  <2> DEFINE g == [k \in 0..0 |-> <<>>]
  <2>1. Steps(g, 0)
    OBVIOUS
  <2>2. QED
    BY <2>1
<1>2. ASSUME NEW n \in 1..Len(q), n - 1 \in T PROVE n \in T
  <2>1. PICK a : Steps(a, n - 1)
    BY <1>2
  <2> DEFINE last == IF q[n].dst \in {i, BROADCAST} THEN Append(a[n - 1], q[n]) ELSE a[n - 1]
             g == [k \in 0..n |-> IF k < n THEN a[k] ELSE last]
  <2>2. ASSUME NEW k \in 0..n
        PROVE  g[k] = IF k = 0 THEN <<>>
                      ELSE IF q[k].dst \in {i, BROADCAST} THEN Append(g[k - 1], q[k])
                      ELSE g[k - 1]
    <3>1. CASE k = n
      <4>1. g[n - 1] = a[n - 1] /\ g[n] = last
        OBVIOUS
      <4>2. QED
        BY <3>1, <4>1
    <3>2. CASE k < n
      <4>1. k \in 0..(n - 1)
        BY <3>2
      <4>2. a[k] = IF k = 0 THEN <<>>
                   ELSE IF q[k].dst \in {i, BROADCAST} THEN Append(a[k - 1], q[k])
                   ELSE a[k - 1]
        BY <2>1, <4>1
      <4>3. g[k] = a[k] /\ (k # 0 => g[k - 1] = a[k - 1])
        BY <3>2
      <4>4. QED
        BY <4>2, <4>3
    <3>3. QED
      BY <3>1, <3>2
  <2>3. Steps(g, n)
    BY <2>2
  <2> HIDE DEF g, Steps
  <2>4. QED
    BY <2>3
<1>3. Len(q) \in T
  <2> HIDE DEF T
  <2>1. \A k \in 0..Len(q) : k \in T
    BY <1>1, <1>2, UpTo
  <2>2. QED
    BY <2>1
<1> DEFINE a == CHOOSE a : Steps(a, Len(q))
<1>4. Steps(a, Len(q))
  BY <1>3
<1>5. Addressed(q, i) = a[Len(q)]
  BY Zenon DEF Addressed
<1> HIDE DEF a
<1>6. QED
  BY <1>4, <1>5

\* What AddressedSteps says, position by position.
Among(a, q, i) ==
  /\ a[0] = <<>>
  /\ \A k \in 1..Len(q) : /\ q[k].dst \in {i, BROADCAST} => a[k] = Append(a[k - 1], q[k])
                          /\ q[k].dst \notin {i, BROADCAST} => a[k] = a[k - 1]
  /\ \A k \in 0..Len(q) : a[k] \in Seq(Frame)
  /\ Addressed(q, i) = a[Len(q)]

LEMMA AddressedAmong ==
  ASSUME NEW q \in Seq(Frame), NEW i
  PROVE  \E a : Among(a, q, i)
<1> DEFINE n == Len(q)
<1>2. n \in Nat
  OBVIOUS
<1>1. PICK a : /\ a = [k \in 0..n |->
                         IF k = 0 THEN <<>>
                         ELSE IF q[k].dst \in {i, BROADCAST} THEN Append(a[k - 1], q[k])
                         ELSE a[k - 1]]
               /\ Addressed(q, i) = a[n]
  BY <1>2, AddressedSteps
<1>3. \A k \in 0..n : a[k] = IF k = 0 THEN <<>>
                             ELSE IF q[k].dst \in {i, BROADCAST} THEN Append(a[k - 1], q[k])
                             ELSE a[k - 1]
  BY <1>1, Zenon
<1>4. a[0] = <<>>
  BY <1>2, <1>3
<1>5. \A k \in 1..n : /\ q[k].dst \in {i, BROADCAST} => a[k] = Append(a[k - 1], q[k])
                      /\ q[k].dst \notin {i, BROADCAST} => a[k] = a[k - 1]
  <2> SUFFICES ASSUME NEW k \in 1..n
               PROVE  /\ q[k].dst \in {i, BROADCAST} => a[k] = Append(a[k - 1], q[k])
                      /\ q[k].dst \notin {i, BROADCAST} => a[k] = a[k - 1]
    OBVIOUS
  <2>1. k \in 0..n /\ k # 0
    OBVIOUS
  <2>2. QED
    BY <1>3, <2>1, Zenon
<1> DEFINE T == {k \in 0..n : a[k] \in Seq(Frame)}
<1>6. \A k \in 0..n : k \in T
  <2>1. 0 \in T
    <3>1. <<>> \in Seq(Frame)
      OBVIOUS
    <3>2. a[0] \in Seq(Frame)
      BY <1>4, <3>1, Zenon
    <3>3. 0 \in 0..n
      BY <1>2
    <3>4. QED
      BY <3>2, <3>3
  <2>2. ASSUME NEW k \in 1..n, k - 1 \in T PROVE k \in T
    <3>1. a[k - 1] \in Seq(Frame) /\ q[k] \in Frame /\ k \in 0..n
      BY <2>2
    <3>2. Append(a[k - 1], q[k]) \in Seq(Frame)
      BY <3>1
    <3>3. a[k] = Append(a[k - 1], q[k]) \/ a[k] = a[k - 1]
      BY <1>5, Zenon
    <3>4. a[k] \in Seq(Frame)
      BY <3>1, <3>2, <3>3
    <3>5. QED
      BY <3>1, <3>4
  <2> HIDE DEF T, n
  <2>3. QED
    BY <1>2, <2>1, <2>2, UpTo
<1>7. QED
  BY <1>1, <1>4, <1>5, <1>6 DEF Among

LEMMA AddressedSeq ==
  ASSUME NEW q \in Seq(Frame), NEW i
  PROVE  Addressed(q, i) \in Seq(Frame)
<1>1. PICK a : Among(a, q, i)
  BY AddressedAmong
<1>2. Len(q) \in 0..Len(q)
  OBVIOUS
<1>3. QED
  BY <1>1, <1>2, Zenon DEF Among

LEMMA AddressedNone ==
  ASSUME NEW q \in Seq(Frame), NEW i, \A k \in 1..Len(q) : q[k].dst \notin {i, BROADCAST}
  PROVE  Addressed(q, i) = <<>>
<1>1. PICK a : Among(a, q, i)
  BY AddressedAmong
<1> DEFINE T == {k \in 0..Len(q) : a[k] = <<>>}
<1>2. Len(q) \in Nat /\ 0 \in 0..Len(q) /\ Len(q) \in 0..Len(q)
  OBVIOUS
<1>3. 0 \in T
  BY <1>1, <1>2, Zenon DEF Among
<1>4. ASSUME NEW k \in 1..Len(q), k - 1 \in T PROVE k \in T
  <2>1. a[k - 1] = <<>> /\ k \in 0..Len(q)
    BY <1>4
  <2>2. a[k] = a[k - 1]
    BY <1>1 DEF Among
  <2>3. QED
    BY <2>1, <2>2
<1>5. Len(q) \in T
  <2> HIDE DEF T
  <2>1. \A k \in 0..Len(q) : k \in T
    BY <1>2, <1>3, <1>4, UpTo
  <2>2. QED
    BY <1>2, <2>1
<1>6. QED
  BY <1>1, <1>5 DEF Among

LEMMA AddressedOne ==
  ASSUME NEW f \in Frame, NEW i
  PROVE  Addressed(<<f>>, i) = IF f.dst \in {i, BROADCAST} THEN <<f>> ELSE <<>>
<1> DEFINE q == <<f>>
<1>1. q \in Seq(Frame) /\ Len(q) = 1 /\ q[1] = f
  OBVIOUS
<1> HIDE DEF q
<1>2. PICK a : Among(a, q, i)
  BY <1>1, AddressedAmong
<1>3. 1 \in 1..Len(q)
  BY <1>1
<1>4. /\ a[0] = <<>> /\ Addressed(q, i) = a[1]
      /\ f.dst \in {i, BROADCAST} => a[1] = Append(a[1 - 1], f)
      /\ f.dst \notin {i, BROADCAST} => a[1] = a[1 - 1]
  BY <1>1, <1>2, <1>3 DEF Among
<1>5. Append(<<>>, f) = <<f>>
  OBVIOUS
<1>6. 1 - 1 = 0
  OBVIOUS
<1>7. QED
  BY <1>4, <1>5, <1>6 DEF q

LEMMA AppendConcat ==
  ASSUME NEW p \in Seq(Frame), NEW q \in Seq(Frame), NEW x \in Frame
  PROVE  Append(p \o q, x) = p \o Append(q, x)
<1>1. Append(p \o q, x) = (p \o q) \o <<x>> /\ Append(q, x) = q \o <<x>>
  <2>1. p \o q \in Seq(Frame)
    OBVIOUS
  <2>2. QED
    BY <2>1, AppendIsConcat
<1>2. <<x>> \in Seq(Frame)
  OBVIOUS
<1>3. QED
  BY <1>1, <1>2, ConcatAssociative

LEMMA AddressedConcat ==
  ASSUME NEW p \in Seq(Frame), NEW q \in Seq(Frame), NEW i
  PROVE  Addressed(p \o q, i) = Addressed(p, i) \o Addressed(q, i)
<1> DEFINE r == p \o q
           m == Len(p)
           n == Len(q)
<1>1. /\ r \in Seq(Frame) /\ Len(r) = m + n /\ m \in Nat /\ n \in Nat
      /\ \A k \in 1..m : r[k] = p[k]
      /\ \A k \in 1..n : r[m + k] = q[k]
  OBVIOUS
<1>2. PICK a : Among(a, p, i)
  BY AddressedAmong
<1>3. PICK b : Among(b, q, i)
  BY AddressedAmong
<1>4. PICK c : Among(c, r, i)
  BY <1>1, AddressedAmong
<1> HIDE DEF r
<1> DEFINE S == {k \in 0..m : c[k] = a[k]}
           T == {k \in 0..n : c[m + k] = a[m] \o b[k]}
<1>5. \A k \in 0..m : k \in S
  <2>1. 0 \in S
    BY <1>1, <1>2, <1>4 DEF Among
  <2>2. ASSUME NEW k \in 1..m, k - 1 \in S PROVE k \in S
    <3>1. c[k - 1] = a[k - 1] /\ r[k] = p[k] /\ k \in 1..Len(r) /\ k \in 0..m
      BY <1>1, <2>2
    <3>2. /\ p[k].dst \in {i, BROADCAST} => a[k] = Append(a[k - 1], p[k])
          /\ p[k].dst \notin {i, BROADCAST} => a[k] = a[k - 1]
      BY <1>2, Zenon DEF Among
    <3>3. /\ r[k].dst \in {i, BROADCAST} => c[k] = Append(c[k - 1], r[k])
          /\ r[k].dst \notin {i, BROADCAST} => c[k] = c[k - 1]
      BY <1>4, <3>1, Zenon DEF Among
    <3>4. c[k] = a[k]
      BY <3>1, <3>2, <3>3, Zenon
    <3>5. QED
      BY <3>1, <3>4
  <2> HIDE DEF S, m
  <2>3. QED
    BY <1>1, <2>1, <2>2, UpTo
<1>6. \A k \in 0..n : k \in T
  <2>1. 0 \in T
    <3>1. c[m + 0] = a[m] /\ b[0] = <<>> /\ a[m] \in Seq(Frame)
      <4>1. m \in 0..m /\ m + 0 = m
        BY <1>1
      <4>2. c[m] = a[m]
        BY <1>5, <4>1
      <4>3. b[0] = <<>> /\ a[m] \in Seq(Frame)
        BY <1>2, <1>3, <4>1, Zenon DEF Among
      <4>4. QED
        BY <4>1, <4>2, <4>3
    <3>2. a[m] \o <<>> = a[m]
      BY <3>1
    <3>3. c[m + 0] = a[m] \o b[0]
      BY <3>1, <3>2, Zenon
    <3>4. 0 \in 0..n
      BY <1>1
    <3>5. QED
      BY <3>3, <3>4
  <2>2. ASSUME NEW k \in 1..n, k - 1 \in T PROVE k \in T
    <3>1. /\ c[m + (k - 1)] = a[m] \o b[k - 1] /\ k \in 0..n
          /\ r[m + k] = q[k] /\ m + k \in 1..Len(r) /\ (m + k) - 1 = m + (k - 1)
      <4>1. c[m + (k - 1)] = a[m] \o b[k - 1]
        BY <2>2, Zenon
      <4>2. k \in 0..n /\ r[m + k] = q[k]
        BY <1>1
      <4>3. m + k \in 1..Len(r) /\ (m + k) - 1 = m + (k - 1)
        BY <1>1
      <4>4. QED
        BY <4>1, <4>2, <4>3
    <3>2. /\ q[k].dst \in {i, BROADCAST} => b[k] = Append(b[k - 1], q[k])
          /\ q[k].dst \notin {i, BROADCAST} => b[k] = b[k - 1]
      BY <1>3, Zenon DEF Among
    <3>3. /\ r[m + k].dst \in {i, BROADCAST} => c[m + k] = Append(c[(m + k) - 1], r[m + k])
          /\ r[m + k].dst \notin {i, BROADCAST} => c[m + k] = c[(m + k) - 1]
      BY <1>4, <3>1, Zenon DEF Among
    <3>4. a[m] \in Seq(Frame) /\ b[k - 1] \in Seq(Frame) /\ q[k] \in Frame
      <4>1. m \in 0..m /\ k - 1 \in 0..n
        BY <1>1
      <4>2. a[m] \in Seq(Frame) /\ b[k - 1] \in Seq(Frame)
        BY <1>2, <1>3, <4>1, Zenon DEF Among
      <4>3. QED
        BY <4>2
    <3>5. Append(a[m] \o b[k - 1], q[k]) = a[m] \o Append(b[k - 1], q[k])
      BY <3>4, AppendConcat, Zenon
    <3>6. c[m + k] = a[m] \o b[k]
      BY <3>1, <3>2, <3>3, <3>5, Zenon
    <3>7. QED
      BY <3>1, <3>6
  <2> HIDE DEF T, n
  <2>3. QED
    BY <1>1, <2>1, <2>2, UpTo
<1>7. c[m + n] = a[m] \o b[n]
  <2>1. n \in 0..n
    BY <1>1
  <2> HIDE DEF n
  <2>2. n \in T
    BY <1>6, <2>1, Zenon
  <2>3. QED
    BY <2>2, Zenon
<1>8. QED
  BY <1>1, <1>2, <1>3, <1>4, <1>7 DEF Among, r

-----------------------------------------------------------------------------
(* Stores                                                                  *)

\* Where buffer b is kept.
Uses(c, b) ==
  {u \in Slot \X (1..NUMBER_OF_FRAMES) :
     u[2] \in DOMAIN Ring(c[u[1]]) /\ Ring(c[u[1]])[u[2]] = b}

UsedBuffers(s) == {b \in Buffer : s.buf[b].used # 0}

StoreType ==
  [buf : [Buffer -> [used : 0..NUMBER_OF_VM, frame : Frame \cup {NONE}]],
   ctrl : [Slot -> Control], wild : {FALSE}]

\* A store after an index that was -1: nothing more was put in it.
WildStore ==
  [buf : [Buffer -> [used : 0..NUMBER_OF_VM, frame : Frame \cup {NONE}]],
   ctrl : [Slot -> Control], wild : {TRUE}]

\* The store without what tells that.
Settled(s) == [buf |-> s.buf, ctrl |-> s.ctrl, wild |-> FALSE]

(* No ring holds a buffer twice, uses are counted right, and what is in    *)
(* use has a frame.                                                        *)
StoreOK(s) ==
  /\ s \in StoreType
  /\ \A i \in Slot : Proper(s.ctrl[i])
  /\ \A i \in Slot : \A k \in 1..Size(s.ctrl[i]) : Ring(s.ctrl[i])[k] \in Buffer
  /\ \A i \in Slot : \A k, l \in 1..Size(s.ctrl[i]) :
       Ring(s.ctrl[i])[k] = Ring(s.ctrl[i])[l] => k = l
  /\ \A b \in Buffer : s.buf[b].used = Cardinality(Uses(s.ctrl, b))
  /\ \A b \in Buffer : s.buf[b].used # 0 => s.buf[b].frame \in Frame

LEMMA FiniteSets ==
  /\ IsFiniteSet(Slot) /\ Cardinality(Slot) = NUMBER_OF_VM
  /\ IsFiniteSet(Buffer) /\ Cardinality(Buffer) = NUMBER_OF_FRAMES
  /\ \A c, b : IsFiniteSet(Uses(c, b))
  /\ \A s : /\ IsFiniteSet(UsedBuffers(s)) /\ Cardinality(UsedBuffers(s)) \in Nat
            /\ Free(s) # {} <=> Cardinality(UsedBuffers(s)) < NUMBER_OF_FRAMES
<1>1. IsFiniteSet(Slot) /\ Cardinality(Slot) = NUMBER_OF_VM
  BY EthernetAssumption, FS_Interval DEF Slot
<1>2. IsFiniteSet(Buffer) /\ Cardinality(Buffer) = NUMBER_OF_FRAMES
  BY EthernetAssumption, FS_Interval DEF Buffer
<1>3. ASSUME NEW c, NEW b PROVE IsFiniteSet(Uses(c, b))
  <2>1. IsFiniteSet(1..NUMBER_OF_FRAMES)
    BY EthernetAssumption, FS_Interval
  <2>2. IsFiniteSet(Slot \X (1..NUMBER_OF_FRAMES))
    BY <1>1, <2>1, FS_Product
  <2>3. Uses(c, b) \in SUBSET (Slot \X (1..NUMBER_OF_FRAMES))
    BY DEF Uses
  <2>4. QED
    BY <2>2, <2>3, FS_Subset
<1>4. ASSUME NEW s
      PROVE  /\ IsFiniteSet(UsedBuffers(s)) /\ Cardinality(UsedBuffers(s)) \in Nat
             /\ Free(s) # {} <=> Cardinality(UsedBuffers(s)) < NUMBER_OF_FRAMES
  <2>1. UsedBuffers(s) \in SUBSET Buffer /\ (Free(s) = {} <=> UsedBuffers(s) = Buffer)
    BY DEF UsedBuffers, Free
  <2>2. /\ IsFiniteSet(UsedBuffers(s)) /\ Cardinality(UsedBuffers(s)) <= Cardinality(Buffer)
        /\ Cardinality(UsedBuffers(s)) = Cardinality(Buffer) => UsedBuffers(s) = Buffer
    BY <1>2, <2>1, FS_Subset
  <2>3. Cardinality(UsedBuffers(s)) \in Nat
    BY <2>2, FS_CardinalityType
  <2>4. QED
    BY <1>2, <2>1, <2>2, <2>3, EthernetAssumption
<1>5. QED
  BY <1>1, <1>2, <1>3, <1>4

(* What is kept for a VM is in use.                                        *)
LEMMA KeptIsUsed ==
  ASSUME NEW s, StoreOK(s), NEW i \in Slot, NEW k \in 1..Size(s.ctrl[i])
  PROVE  /\ <<i, k>> \in Uses(s.ctrl, Ring(s.ctrl[i])[k])
         /\ Ring(s.ctrl[i])[k] \in UsedBuffers(s)
<1> DEFINE r == Ring(s.ctrl[i])
<1>1. s.ctrl[i] \in Control /\ Size(s.ctrl[i]) \in 0..NUMBER_OF_FRAMES
  BY SlotsOf DEF StoreOK, StoreType
<1>2. r[k] \in Buffer /\ DOMAIN r = 1..Size(s.ctrl[i])
  BY DEF StoreOK, Ring
<1>3. <<i, k>> \in Uses(s.ctrl, r[k])
  BY <1>1, <1>2, EthernetAssumption DEF Uses
<1>4. Cardinality(Uses(s.ctrl, r[k])) # 0
  BY <1>3, FiniteSets, FS_EmptySet
<1>5. QED
  BY <1>2, <1>3, <1>4 DEF StoreOK, UsedBuffers

(* The buffers of a ring are as many different ones in use.                *)
LEMMA RingWithinUsed ==
  ASSUME NEW s, StoreOK(s), NEW i \in Slot
  PROVE  Size(s.ctrl[i]) <= Cardinality(UsedBuffers(s))
<1> DEFINE r == Ring(s.ctrl[i])
           S == 1..Size(s.ctrl[i])
<1>1. Size(s.ctrl[i]) \in 0..NUMBER_OF_FRAMES
  BY SlotsOf DEF StoreOK, StoreType
<1>2. r \in Injection(S, UsedBuffers(s))
  <2>1. r \in [S -> UsedBuffers(s)]
    BY KeptIsUsed DEF Ring
  <2>2. \A k, l \in S : r[k] = r[l] => k = l
    BY DEF StoreOK
  <2>3. QED
    BY <2>1, <2>2 DEF Injection, IsInjective
<1>3. Cardinality(S) <= Cardinality(UsedBuffers(s))
  BY <1>2, FiniteSets, FS_Injection
<1>4. Cardinality(S) = Size(s.ctrl[i])
  BY <1>1, FS_Interval, EthernetAssumption
<1>5. QED
  BY <1>3, <1>4

\* The frames kept for the VM at i.
Frames(s, i) == [k \in 1..Size(s.ctrl[i]) |-> s.buf[Ring(s.ctrl[i])[k]].frame]

LEMMA FramesAreSeq ==
  ASSUME NEW s, StoreOK(s), NEW i \in Slot
  PROVE  /\ Frames(s, i) \in Seq(Frame)
         /\ Len(Frames(s, i)) = Size(s.ctrl[i])
         /\ \A k \in 1..Size(s.ctrl[i]) :
              Frames(s, i)[k] = s.buf[Ring(s.ctrl[i])[k]].frame
<1>1. Size(s.ctrl[i]) \in Nat
  BY SlotsOf, EthernetAssumption DEF StoreOK, StoreType
<1>2. ASSUME NEW k \in 1..Size(s.ctrl[i])
      PROVE  s.buf[Ring(s.ctrl[i])[k]].frame \in Frame
  <2>1. Ring(s.ctrl[i])[k] \in Buffer /\ s.buf[Ring(s.ctrl[i])[k]].used # 0
    BY KeptIsUsed DEF UsedBuffers
  <2>2. \A b \in Buffer : s.buf[b].used # 0 => s.buf[b].frame \in Frame
    BY DEF StoreOK
  <2>3. QED
    BY <2>1, <2>2
<1>3. QED
  BY <1>1, <1>2 DEF Frames

\* Frame f was put aside in store s for the VMs at targets, which made it r.
PutAside(s, f, targets, r) ==
  /\ StoreOK(r)
  /\ Cardinality(UsedBuffers(r)) <= Cardinality(UsedBuffers(s)) + 1
  /\ \A i \in Slot : Frames(r, i) = IF i \in targets THEN Append(Frames(s, i), f)
                                    ELSE Frames(s, i)

(* A frame that is put aside takes a free buffer, once for each VM it is   *)
(* for.                                                                    *)
LEMMA DepositKeeps ==
  ASSUME NEW s, StoreOK(s), NEW f \in Frame, NEW targets \in SUBSET Slot,
         Free(s) # {}, NEW r, r = Deposit(s, f, targets)
  PROVE  PutAside(s, f, targets, r)
<1> DEFINE b == CHOOSE x \in Free(s) : \A y \in Free(s) : x <= y
           put(c) == [c EXCEPT !.list[c.input] = b, !.input = Following(@)]
<1>1. b \in Buffer /\ s.buf[b].used = 0
  <2>1. Free(s) \in SUBSET Nat /\ Free(s) \subseteq Buffer
    BY DEF Free, Buffer
  <2>2. b \in Free(s)
    BY <2>1, LeastNatural
  <2> HIDE DEF b
  <2>3. QED
    BY <2>1, <2>2 DEF Free
<1>2. /\ r.buf = [s.buf EXCEPT ![b] = IF targets = {} THEN @
                                      ELSE [used |-> Cardinality(targets), frame |-> f]]
      /\ r.ctrl = [i \in Slot |-> IF i \in targets THEN put(s.ctrl[i]) ELSE s.ctrl[i]]
      /\ r.wild = FALSE
      /\ r = [buf |-> r.buf, ctrl |-> r.ctrl, wild |-> r.wild]
  <2>1. r = [s EXCEPT !.buf[b] = IF targets = {} THEN @
                                 ELSE [used |-> Cardinality(targets), frame |-> f],
                      !.ctrl = [i \in Slot |-> IF i \in targets THEN put(@[i]) ELSE @[i]]]
    BY DEF Deposit
  <2> HIDE DEF b, put
  <2>2. QED
    BY <2>1 DEF StoreOK, StoreType
<1> HIDE DEF b
<1>3. Uses(s.ctrl, b) = {}
  BY <1>1, FiniteSets, FS_EmptySet DEF StoreOK
<1>4. ASSUME NEW i \in Slot
      PROVE  /\ s.ctrl[i] \in Control /\ Proper(s.ctrl[i])
             /\ Size(s.ctrl[i]) \in 0..(NUMBER_OF_FRAMES - 1)
             /\ Size(s.ctrl[i]) + 1 \in 1..NUMBER_OF_FRAMES
  <2>1. /\ s.ctrl[i] \in Control /\ Proper(s.ctrl[i])
        /\ Size(s.ctrl[i]) \in 0..NUMBER_OF_FRAMES
    BY SlotsOf DEF StoreOK, StoreType
  <2>2. Size(s.ctrl[i]) <= Cardinality(UsedBuffers(s))
    BY RingWithinUsed
  <2>3. QED
    BY <2>1, <2>2, FiniteSets, EthernetAssumption
<1>5. ASSUME NEW i \in targets
      PROVE  /\ r.ctrl[i] \in Control /\ Proper(r.ctrl[i])
             /\ Size(r.ctrl[i]) = Size(s.ctrl[i]) + 1
             /\ Ring(r.ctrl[i]) = [k \in 1..(Size(s.ctrl[i]) + 1) |->
                                     IF k = Size(s.ctrl[i]) + 1 THEN b ELSE Ring(s.ctrl[i])[k]]
  <2>1. i \in Slot
    OBVIOUS
  <2>2. r.ctrl[i] = put(s.ctrl[i])
    BY <1>2, <2>1
  <2>3. s.ctrl[i] \in Control /\ Proper(s.ctrl[i]) /\ Size(s.ctrl[i]) < NUMBER_OF_FRAMES
    BY <1>4, <2>1, EthernetAssumption
  <2> DEFINE c == s.ctrl[i]
  <2>4. r.ctrl[i] = [c EXCEPT !.list[c.input] = b, !.input = Following(@)]
    BY <2>2
  <2>5. c \in Control /\ Proper(c) /\ b \in Buffer /\ Size(c) < NUMBER_OF_FRAMES
    BY <1>1, <2>3
  <2> HIDE DEF c
  <2>6. /\ r.ctrl[i] \in Control /\ Proper(r.ctrl[i])
        /\ Size(r.ctrl[i]) = Size(c) + 1
        /\ Ring(r.ctrl[i]) = [k \in 1..(Size(c) + 1) |-> IF k = Size(c) + 1 THEN b ELSE Ring(c)[k]]
    BY <2>4, <2>5, PutAppends
  <2>7. QED
    BY <2>6 DEF c
<1>6. ASSUME NEW i \in Slot \ targets PROVE r.ctrl[i] = s.ctrl[i]
  BY <1>2
<1> HIDE DEF put
<1>7. Cardinality(Uses(r.ctrl, b)) = Cardinality(targets)
  <2> DEFINE h == [i \in targets |-> <<i, Size(s.ctrl[i]) + 1>>]
  <2>1. Uses(r.ctrl, b) = {<<i, Size(s.ctrl[i]) + 1>> : i \in targets}
    <3>1. ASSUME NEW i \in targets PROVE <<i, Size(s.ctrl[i]) + 1>> \in Uses(r.ctrl, b)
      <4>1. Size(s.ctrl[i]) + 1 \in 1..NUMBER_OF_FRAMES /\ i \in Slot
        BY <1>4, EthernetAssumption
      <4>2. /\ DOMAIN Ring(r.ctrl[i]) = 1..(Size(s.ctrl[i]) + 1)
            /\ Ring(r.ctrl[i])[Size(s.ctrl[i]) + 1] = b
        <5> DEFINE z == Size(s.ctrl[i])
        <5>1. z \in Nat /\ z + 1 \in 1..(z + 1)
          BY <1>4, <4>1
        <5>2. Ring(r.ctrl[i]) = [k \in 1..(z + 1) |-> IF k = z + 1 THEN b ELSE Ring(s.ctrl[i])[k]]
          BY <1>5
        <5> HIDE DEF z
        <5>3. DOMAIN Ring(r.ctrl[i]) = 1..(z + 1) /\ Ring(r.ctrl[i])[z + 1] = b
          BY <5>1, <5>2
        <5>4. QED
          BY <5>3 DEF z
      <4>3. QED
        BY <1>4, <4>1, <4>2 DEF Uses
    <3>2. ASSUME NEW u \in Uses(r.ctrl, b)
          PROVE  u[1] \in targets /\ u = <<u[1], Size(s.ctrl[u[1]]) + 1>>
      <4>1. PICK i \in Slot, k \in 1..NUMBER_OF_FRAMES :
              u = <<i, k>> /\ k \in DOMAIN Ring(r.ctrl[i]) /\ Ring(r.ctrl[i])[k] = b
        BY DEF Uses
      <4>2. ~ (k \in DOMAIN Ring(s.ctrl[i]) /\ Ring(s.ctrl[i])[k] = b)
        BY <1>3, <4>1 DEF Uses
      <4>3. i \in targets
        BY <1>6, <4>1, <4>2
      <4>4. k = Size(s.ctrl[i]) + 1
        <5>1. k \in 1..(Size(s.ctrl[i]) + 1)
          BY <1>5, <4>1, <4>3
        <5>2. k # Size(s.ctrl[i]) + 1 =>
                k \in 1..Size(s.ctrl[i]) /\ Ring(s.ctrl[i])[k] = b
          <6>1. Size(s.ctrl[i]) \in Nat
            BY <1>4, <4>1
          <6>2. Ring(r.ctrl[i])[k] = IF k = Size(s.ctrl[i]) + 1 THEN b ELSE Ring(s.ctrl[i])[k]
            BY <1>5, <4>3, <5>1
          <6>3. QED
            BY <4>1, <5>1, <6>1, <6>2
        <5>3. QED
          BY <4>2, <5>2 DEF Ring
      <4>5. QED
        BY <4>1, <4>3, <4>4
    <3>3. QED
      BY <3>1, <3>2
  <2>2. h \in Bijection(targets, Uses(r.ctrl, b))
    BY <2>1 DEF Bijection, Injection, IsInjective, Surjection
  <2>3. IsFiniteSet(targets)
    BY FiniteSets, FS_Subset
  <2>4. QED
    BY <2>2, <2>3, FS_Bijection DEF ExistsBijection
<1>8. ASSUME NEW x \in Buffer, x # b PROVE Uses(r.ctrl, x) = Uses(s.ctrl, x)
  <2>1. ASSUME NEW i \in Slot, NEW k \in 1..NUMBER_OF_FRAMES
        PROVE  (k \in DOMAIN Ring(r.ctrl[i]) /\ Ring(r.ctrl[i])[k] = x)
                 <=> (k \in DOMAIN Ring(s.ctrl[i]) /\ Ring(s.ctrl[i])[k] = x)
    <3>1. CASE i \notin targets
      BY <1>6, <3>1
    <3>2. CASE i \in targets
      <4>1. DOMAIN Ring(s.ctrl[i]) = 1..Size(s.ctrl[i])
        BY DEF Ring
      <4>2. Size(s.ctrl[i]) \in Nat
        BY <1>4
      <4>3. /\ DOMAIN Ring(r.ctrl[i]) = 1..(Size(s.ctrl[i]) + 1)
            /\ k \in 1..(Size(s.ctrl[i]) + 1) =>
                 Ring(r.ctrl[i])[k] = IF k = Size(s.ctrl[i]) + 1 THEN b ELSE Ring(s.ctrl[i])[k]
        BY <1>5, <3>2
      <4>4. QED
        BY <1>8, <4>1, <4>2, <4>3
    <3>3. QED
      BY <3>1, <3>2
  <2>2. QED
    BY <2>1 DEF Uses
<1>9. CASE targets = {}
  <2>1. r.buf = s.buf /\ r.ctrl = s.ctrl /\ s.wild = FALSE
    BY <1>2, <1>9 DEF StoreOK, StoreType
  <2>2. r = s
    BY <1>2, <2>1 DEF StoreOK, StoreType
  <2>3. \A i \in Slot : Frames(r, i) = IF i \in targets THEN Append(Frames(s, i), f)
                                       ELSE Frames(s, i)
    BY <1>9, <2>2
  <2>4. StoreOK(r) /\ Cardinality(UsedBuffers(r)) <= Cardinality(UsedBuffers(s)) + 1
    BY <2>2, FiniteSets
  <2>5. QED
    BY <1>1, <2>3, <2>4 DEF PutAside
<1>10. CASE targets # {}
  <2>1. Cardinality(targets) \in 1..NUMBER_OF_VM
    <3>1. IsFiniteSet(targets) /\ Cardinality(targets) <= NUMBER_OF_VM
      BY FiniteSets, FS_Subset
    <3>2. Cardinality(targets) \in Nat /\ Cardinality(targets) # 0
      BY <1>10, <3>1, FS_CardinalityType, FS_EmptySet
    <3>3. QED
      BY <3>1, <3>2, EthernetAssumption
  <2>2. /\ r.buf[b] = [used |-> Cardinality(targets), frame |-> f]
        /\ \A x \in Buffer : x # b => r.buf[x] = s.buf[x]
        /\ DOMAIN r.buf = Buffer
    BY <1>1, <1>2, <1>10 DEF StoreOK, StoreType
  <2>3. r \in StoreType
    <3>1. r.buf \in [Buffer -> [used : 0..NUMBER_OF_VM, frame : Frame \cup {NONE}]]
      BY <1>1, <1>2, <1>10, <2>1 DEF StoreOK, StoreType
    <3>2. r.ctrl \in [Slot -> Control]
      BY <1>2, <1>4, <1>5, <1>6
    <3>3. QED
      BY <1>2, <3>1, <3>2 DEF StoreType
  <2>4. ASSUME NEW x \in Buffer PROVE r.buf[x].used = Cardinality(Uses(r.ctrl, x))
    BY <1>7, <1>8, <2>2 DEF StoreOK
  <2>5. ASSUME NEW i \in Slot
        PROVE  /\ \A k \in 1..Size(r.ctrl[i]) : Ring(r.ctrl[i])[k] \in Buffer
               /\ \A k, l \in 1..Size(r.ctrl[i]) :
                    Ring(r.ctrl[i])[k] = Ring(r.ctrl[i])[l] => k = l
    <3>1. CASE i \notin targets
      BY <1>6, <3>1 DEF StoreOK
    <3>2. CASE i \in targets
      <4> DEFINE z == Size(s.ctrl[i])
                 old == Ring(s.ctrl[i])
      <4>1. z \in Nat /\ \A k \in 1..z : old[k] \in Buffer /\ old[k] # b
        <5>1. z \in 0..(NUMBER_OF_FRAMES - 1)
          BY <1>4
        <5>2. ASSUME NEW k \in 1..z PROVE <<i, k>> \in Uses(s.ctrl, old[k])
          BY <5>1, EthernetAssumption DEF Uses, Ring
        <5>3. \A k \in 1..z : old[k] \in Buffer
          BY DEF StoreOK
        <5>4. \A k \in 1..z : old[k] # b
          BY <1>3, <5>2
        <5>5. QED
          BY <5>1, <5>3, <5>4
      <4>2. \A k, l \in 1..z : old[k] = old[l] => k = l
        BY DEF StoreOK
      <4>3. Size(r.ctrl[i]) = z + 1
            /\ \A k \in 1..(z + 1) : Ring(r.ctrl[i])[k] = IF k = z + 1 THEN b ELSE old[k]
        BY <1>5, <3>2
      <4> HIDE DEF z, old
      <4>4. \A k \in 1..(z + 1) : k # z + 1 => k \in 1..z
        BY <4>1
      <4>5. QED
        BY <1>1, <4>1, <4>2, <4>3, <4>4
    <3>3. QED
      BY <3>1, <3>2
  <2>6. StoreOK(r)
    <3>1. \A x \in Buffer : r.buf[x].used # 0 => r.buf[x].frame \in Frame
      BY <2>2 DEF StoreOK
    <3>2. \A i \in Slot : Proper(r.ctrl[i])
      BY <1>5, <1>6 DEF StoreOK
    <3>3. QED
      BY <2>3, <2>4, <2>5, <3>1, <3>2 DEF StoreOK
  <2>7. UsedBuffers(r) \in SUBSET (UsedBuffers(s) \cup {b})
    BY <2>2 DEF UsedBuffers
  <2>8. Cardinality(UsedBuffers(r)) <= Cardinality(UsedBuffers(s)) + 1
    <3>1. /\ IsFiniteSet(UsedBuffers(s) \cup {b})
          /\ Cardinality(UsedBuffers(s) \cup {b}) <= Cardinality(UsedBuffers(s)) + 1
      <4>1. IsFiniteSet(UsedBuffers(s)) /\ Cardinality(UsedBuffers(s)) \in Nat
        BY FiniteSets
      <4>2. QED
        BY <4>1, FS_AddElement
    <3>2. Cardinality(UsedBuffers(r)) <= Cardinality(UsedBuffers(s) \cup {b})
      BY <2>7, <3>1, FS_Subset
    <3>3. Cardinality(UsedBuffers(s) \cup {b}) \in Nat
      BY <3>1, FS_CardinalityType
    <3>4. QED
      BY <3>1, <3>2, <3>3, FiniteSets
  <2>9. ASSUME NEW i \in Slot
        PROVE  Frames(r, i) = IF i \in targets THEN Append(Frames(s, i), f) ELSE Frames(s, i)
    <3> DEFINE z == Size(s.ctrl[i])
               old == Ring(s.ctrl[i])
    <3>1. ASSUME NEW k \in 1..z PROVE r.buf[old[k]].frame = s.buf[old[k]].frame /\ old[k] # b
      <4>1. old[k] \in Buffer /\ old[k] # b
        BY <1>3, KeptIsUsed DEF UsedBuffers
      <4>2. QED
        BY <2>2, <4>1
    <3>2. CASE i \notin targets
      <4>1. r.ctrl[i] = s.ctrl[i]
        BY <1>6, <3>2
      <4>2. QED
        BY <3>1, <3>2, <4>1 DEF Frames
    <3>3. CASE i \in targets
      <4>1. /\ Size(r.ctrl[i]) = z + 1
            /\ \A k \in 1..(z + 1) : Ring(r.ctrl[i])[k] = IF k = z + 1 THEN b ELSE old[k]
        BY <1>5, <3>3
      <4>2. z \in Nat
        BY <1>4
      <4>3. /\ Frames(s, i) \in Seq(Frame) /\ Len(Frames(s, i)) = z
            /\ \A k \in 1..z : Frames(s, i)[k] = s.buf[old[k]].frame
        BY FramesAreSeq
      <4>4. /\ Frames(r, i) \in Seq(Frame) /\ Len(Frames(r, i)) = z + 1
            /\ \A k \in 1..(z + 1) : Frames(r, i)[k] = r.buf[Ring(r.ctrl[i])[k]].frame
        BY <2>6, <4>1, FramesAreSeq
      <4>5. r.buf[b].frame = f
        BY <2>2
      <4> HIDE DEF z, old
      <4>6. \A k \in 1..(z + 1) : Frames(r, i)[k] = IF k = z + 1 THEN f ELSE Frames(s, i)[k]
        <5>1. \A k \in 1..(z + 1) : k = z + 1 \/ k \in 1..z
          BY <4>2
        <5>2. QED
          BY <3>1, <4>1, <4>3, <4>4, <4>5, <5>1
      <4>7. Frames(r, i) = Append(Frames(s, i), f)
        BY <4>2, <4>3, <4>4, <4>6
      <4>8. QED
        BY <3>3, <4>7
    <3>4. QED
      BY <3>2, <3>3
  <2>10. QED
    BY <1>1, <2>6, <2>8, <2>9 DEF PutAside
<1>11. QED
  BY <1>9, <1>10

(* A buffer is given back when the last VM that it is kept for has read it. *)
Taken(s, j, b, r) ==
  /\ s.ctrl[j].input # s.ctrl[j].output
  /\ b = s.ctrl[j].list[s.ctrl[j].output]
  /\ r = [buf  |-> [s.buf EXCEPT ![b] = IF @.used = 1 THEN [used |-> 0, frame |-> NONE]
                                        ELSE [used |-> @.used - 1, frame |-> @.frame]],
          ctrl |-> [s.ctrl EXCEPT ![j].list[s.ctrl[j].output] = NONE,
                                  ![j].output = Following(@)],
          wild |-> FALSE]

LEMMA TakeKeeps ==
  ASSUME NEW s, StoreOK(s), NEW j \in Slot, NEW b, NEW r, Taken(s, j, b, r)
  PROVE  /\ b \in Buffer /\ s.buf[b].used # 0
         /\ StoreOK(r)
         /\ Cardinality(UsedBuffers(r)) <= Cardinality(UsedBuffers(s))
         /\ Frames(s, j) # <<>> /\ Head(Frames(s, j)) = s.buf[b].frame
         /\ Frames(r, j) = Tail(Frames(s, j))
         /\ \A i \in Slot \ {j} : Frames(r, i) = Frames(s, i)
<1> DEFINE c == s.ctrl[j]
           d == [c EXCEPT !.list[c.output] = NONE, !.output = Following(@)]
<1>1. c \in Control /\ Proper(c)
  BY DEF StoreOK, StoreType
<1>2. /\ r.ctrl[j] = d /\ \A i \in Slot : i # j => r.ctrl[i] = s.ctrl[i]
      /\ r.ctrl = [i \in Slot |-> r.ctrl[i]]
      /\ r.buf = [x \in Buffer |-> r.buf[x]]
      /\ r = [buf |-> r.buf, ctrl |-> r.ctrl, wild |-> FALSE]
  BY DEF StoreOK, StoreType, Taken
<1>3. /\ d \in Control /\ Proper(d)
      /\ Size(c) \in 1..(NUMBER_OF_FRAMES - 1)
      /\ Size(d) = Size(c) - 1
      /\ Ring(d) = [k \in 1..(Size(c) - 1) |-> Ring(c)[k + 1]]
      /\ Ring(c)[1] = b
  <2> HIDE DEF c
  <2>1. c.input # c.output /\ b = c.list[c.output]
    BY DEF c, Taken
  <2>2. QED
    BY <1>1, <2>1, TakeIsHead
<1> HIDE DEF d
<1>4. b \in Buffer /\ <<j, 1>> \in Uses(s.ctrl, b)
  <2>1. 1 \in 1..Size(c) /\ 1 \in 1..NUMBER_OF_FRAMES /\ DOMAIN Ring(c) = 1..Size(c)
    BY <1>3, EthernetAssumption DEF Ring
  <2>2. Ring(c)[1] \in Buffer
    BY <2>1 DEF StoreOK
  <2>3. QED
    BY <1>3, <2>1, <2>2 DEF Uses
<1>5. ASSUME NEW x \in Buffer
      PROVE  Cardinality(Uses(r.ctrl, x)) = Cardinality(Uses(s.ctrl, x) \ {<<j, 1>>})
  <2> DEFINE A == Uses(r.ctrl, x)
             B == Uses(s.ctrl, x) \ {<<j, 1>>}
             h == [u \in A |-> IF u[1] = j THEN <<j, u[2] + 1>> ELSE u]
  <2>1. ASSUME NEW i \in Slot, NEW k \in 1..NUMBER_OF_FRAMES
        PROVE  <<i, k>> \in A <=>
                 IF i = j THEN k + 1 \in 1..Size(c) /\ Ring(c)[k + 1] = x
                 ELSE k \in DOMAIN Ring(s.ctrl[i]) /\ Ring(s.ctrl[i])[k] = x
    <3>1. <<i, k>> \in A <=> k \in DOMAIN Ring(r.ctrl[i]) /\ Ring(r.ctrl[i])[k] = x
      BY DEF Uses
    <3>2. CASE i # j
      BY <1>2, <3>1, <3>2
    <3>3. CASE i = j
      <4>1. k \in DOMAIN Ring(d) <=> k + 1 \in 1..Size(c)
        BY <1>3
      <4>2. k \in DOMAIN Ring(d) => Ring(d)[k] = Ring(c)[k + 1]
        BY <1>3
      <4>3. QED
        BY <1>2, <3>1, <3>3, <4>1, <4>2
    <3>4. QED
      BY <3>2, <3>3
  <2>2. ASSUME NEW i \in Slot, NEW k \in 1..NUMBER_OF_FRAMES
        PROVE  <<i, k>> \in B <=>
                 /\ k \in DOMAIN Ring(s.ctrl[i]) /\ Ring(s.ctrl[i])[k] = x
                 /\ i # j \/ k # 1
    BY DEF Uses
  <2>3. /\ \A u \in A : \E i \in Slot, k \in 1..NUMBER_OF_FRAMES : u = <<i, k>>
        /\ \A u \in B : \E i \in Slot, k \in 1..NUMBER_OF_FRAMES : u = <<i, k>>
    BY DEF Uses
  <2>4. DOMAIN Ring(c) = 1..Size(c)
    BY DEF Ring
  <2> HIDE DEF A, B
  <2>5. ASSUME NEW u \in A PROVE h[u] \in B
    <3>1. PICK i \in Slot, k \in 1..NUMBER_OF_FRAMES : u = <<i, k>>
      BY <2>3
    <3>2. CASE i = j
      <4>1. k + 1 \in 1..Size(c) /\ Ring(c)[k + 1] = x
        BY <2>1, <3>1, <3>2
      <4>2. k + 1 \in 1..NUMBER_OF_FRAMES /\ k + 1 # 1
        BY <1>3, <4>1, EthernetAssumption
      <4>3. h[u] = <<j, k + 1>>
        BY <3>1, <3>2
      <4>4. QED
        BY <2>2, <2>4, <4>1, <4>2, <4>3
    <3>3. CASE i # j
      <4>1. h[u] = u
        BY <3>1, <3>3
      <4>2. QED
        BY <2>1, <2>2, <3>1, <3>3, <4>1
    <3>4. QED
      BY <3>2, <3>3
  <2>6. ASSUME NEW v \in B PROVE \E u \in A : h[u] = v
    <3>1. PICK i \in Slot, k \in 1..NUMBER_OF_FRAMES : v = <<i, k>>
      BY <2>3
    <3>2. CASE i = j
      <4>1. k \in 1..Size(c) /\ Ring(c)[k] = x /\ k # 1
        BY <2>2, <2>4, <3>1, <3>2
      <4>2. PICK m \in 1..NUMBER_OF_FRAMES : k = m + 1
        <5>1. k - 1 \in 1..NUMBER_OF_FRAMES /\ k = (k - 1) + 1
          BY <4>1, EthernetAssumption
        <5>2. QED
          BY <5>1
      <4>3. <<j, m>> \in A
        BY <2>1, <4>1, <4>2
      <4>4. h[<<j, m>>] = <<j, m + 1>>
        BY <4>3
      <4>5. QED
        BY <3>1, <3>2, <4>2, <4>3, <4>4
    <3>3. CASE i # j
      <4>1. v \in A
        BY <2>1, <2>2, <3>1, <3>3
      <4>2. h[v] = v
        BY <3>1, <3>3, <4>1
      <4>3. QED
        BY <4>1, <4>2
    <3>4. QED
      BY <3>2, <3>3
  <2>7. ASSUME NEW u \in A, NEW v \in A, h[u] = h[v] PROVE u = v
    <3>1. PICK i \in Slot, k \in 1..NUMBER_OF_FRAMES : u = <<i, k>>
      BY <2>3
    <3>2. PICK l \in Slot, m \in 1..NUMBER_OF_FRAMES : v = <<l, m>>
      BY <2>3
    <3>3. h[u] = (IF i = j THEN <<j, k + 1>> ELSE <<i, k>>)
      BY <3>1
    <3>4. h[v] = (IF l = j THEN <<j, m + 1>> ELSE <<l, m>>)
      BY <3>2
    <3> HIDE DEF h
    <3>5. QED
      BY <2>7, <3>1, <3>2, <3>3, <3>4
  <2>8. h \in Bijection(A, B)
    BY <2>5, <2>6, <2>7 DEF Bijection, Injection, IsInjective, Surjection
  <2>9. IsFiniteSet(A)
    BY FiniteSets DEF A
  <2>10. Cardinality(A) = Cardinality(B)
    BY <2>8, <2>9, FS_Bijection DEF ExistsBijection
  <2>11. QED
    BY <2>10 DEF A, B
<1>6. ASSUME NEW x \in Buffer, x # b
      PROVE  Cardinality(Uses(r.ctrl, x)) = s.buf[x].used
  <2>1. <<j, 1>> \notin Uses(s.ctrl, x)
    BY <1>3, <1>6 DEF Uses
  <2>2. Uses(s.ctrl, x) \ {<<j, 1>>} = Uses(s.ctrl, x)
    BY <2>1
  <2>3. QED
    BY <1>5, <2>2 DEF StoreOK
<1>7. s.buf[b].used \in 1..NUMBER_OF_VM /\ Cardinality(Uses(r.ctrl, b)) = s.buf[b].used - 1
  <2>1. s.buf[b].used \in 0..NUMBER_OF_VM /\ s.buf[b].used = Cardinality(Uses(s.ctrl, b))
    BY <1>4 DEF StoreOK, StoreType
  <2>2. IsFiniteSet(Uses(s.ctrl, b))
    BY FiniteSets
  <2>3. Cardinality(Uses(s.ctrl, b)) # 0
    BY <1>4, <2>2, FS_EmptySet
  <2>4. Cardinality(Uses(s.ctrl, b) \ {<<j, 1>>}) = Cardinality(Uses(s.ctrl, b)) - 1
    BY <1>4, <2>2, FS_RemoveElement
  <2>5. QED
    BY <1>4, <1>5, <2>1, <2>3, <2>4
<1>8. /\ r.buf[b].used = s.buf[b].used - 1
      /\ s.buf[b].used # 1 => r.buf[b].frame = s.buf[b].frame
      /\ r.buf[b] \in [used : 0..NUMBER_OF_VM, frame : Frame \cup {NONE}]
      /\ \A x \in Buffer : x # b => r.buf[x] = s.buf[x]
  <2>1. s.buf \in [Buffer -> [used : 0..NUMBER_OF_VM, frame : Frame \cup {NONE}]]
    BY DEF StoreOK, StoreType
  <2>2. r.buf[b] = IF s.buf[b].used = 1 THEN [used |-> 0, frame |-> NONE]
                   ELSE [used |-> s.buf[b].used - 1, frame |-> s.buf[b].frame]
    <3>1. r.buf = [s.buf EXCEPT ![b] = IF @.used = 1 THEN [used |-> 0, frame |-> NONE]
                                       ELSE [used |-> @.used - 1, frame |-> @.frame]]
      BY DEF Taken
    <3>2. CASE s.buf[b].used = 1
      BY <1>4, <2>1, <3>1, <3>2
    <3>3. CASE s.buf[b].used # 1
      BY <1>4, <2>1, <3>1, <3>3
    <3>4. QED
      BY <3>2, <3>3
  <2>3. \A x \in Buffer : x # b => r.buf[x] = s.buf[x]
    BY <1>4, <2>1 DEF Taken
  <2>4. s.buf[b] \in [used : 0..NUMBER_OF_VM, frame : Frame \cup {NONE}]
    BY <1>4, <2>1
  <2>5. QED
    BY <1>7, <2>2, <2>3, <2>4, EthernetAssumption
<1>9. r \in StoreType
  <2>1. r.buf \in [Buffer -> [used : 0..NUMBER_OF_VM, frame : Frame \cup {NONE}]]
    <3>1. \A x \in Buffer : r.buf[x] \in [used : 0..NUMBER_OF_VM, frame : Frame \cup {NONE}]
      BY <1>8 DEF StoreOK, StoreType
    <3>2. QED
      BY <1>2, <3>1
  <2>2. r.ctrl \in [Slot -> Control]
    <3>1. \A i \in Slot : r.ctrl[i] \in Control
      BY <1>2, <1>3 DEF StoreOK, StoreType
    <3>2. QED
      BY <1>2, <3>1
  <2>3. [buf |-> r.buf, ctrl |-> r.ctrl, wild |-> FALSE] \in StoreType
    BY <2>1, <2>2 DEF StoreType
  <2>4. QED
    BY <1>2, <2>3, Zenon
<1>10. ASSUME NEW i \in Slot
       PROVE  /\ \A k \in 1..Size(r.ctrl[i]) : Ring(r.ctrl[i])[k] \in Buffer
              /\ \A k, l \in 1..Size(r.ctrl[i]) :
                   Ring(r.ctrl[i])[k] = Ring(r.ctrl[i])[l] => k = l
  <2>1. /\ \A k \in 1..Size(s.ctrl[i]) : Ring(s.ctrl[i])[k] \in Buffer
        /\ \A k, l \in 1..Size(s.ctrl[i]) :
             Ring(s.ctrl[i])[k] = Ring(s.ctrl[i])[l] => k = l
    BY DEF StoreOK
  <2>2. CASE i # j
    BY <1>2, <2>1, <2>2
  <2>3. CASE i = j
    <3> DEFINE z == Size(c)
               old == Ring(c)
               nw == Ring(d)
    <3>1. /\ z \in Nat /\ Size(d) = z - 1
          /\ \A k \in 1..(z - 1) : nw[k] = old[k + 1] /\ k + 1 \in 1..z
      BY <1>3
    <3>2. /\ \A k \in 1..z : old[k] \in Buffer
          /\ \A k, l \in 1..z : old[k] = old[l] => k = l
      BY <2>1, <2>3
    <3>3. r.ctrl[i] = d
      BY <1>2, <2>3
    <3> HIDE DEF z, old, nw
    <3>4. /\ \A k \in 1..Size(d) : nw[k] \in Buffer
          /\ \A k, l \in 1..Size(d) : nw[k] = nw[l] => k = l
      BY <3>1, <3>2
    <3>5. QED
      BY <3>3, <3>4 DEF nw
  <2>4. QED
    BY <2>2, <2>3
<1>11. StoreOK(r)
  <2>1. \A x \in Buffer : r.buf[x].used # 0 => r.buf[x].frame \in Frame
    <3>1. s.buf[b].used \in Nat /\ s.buf[b].frame \in Frame
      BY <1>4, <1>7, EthernetAssumption DEF StoreOK
    <3>2. r.buf[b].used # 0 => s.buf[b].used # 1
      BY <1>8, <3>1
    <3>3. QED
      BY <1>8, <3>1, <3>2 DEF StoreOK
  <2>2. \A i \in Slot : Proper(r.ctrl[i])
    BY <1>2, <1>3 DEF StoreOK
  <2>3. QED
    BY <1>6, <1>7, <1>8, <1>9, <1>10, <2>1, <2>2 DEF StoreOK
<1>12. Cardinality(UsedBuffers(r)) <= Cardinality(UsedBuffers(s))
  <2>1. UsedBuffers(r) \in SUBSET UsedBuffers(s)
    BY <1>7, <1>8 DEF UsedBuffers
  <2>2. QED
    BY <2>1, FiniteSets, FS_Subset
<1>13. ASSUME NEW i \in Slot, NEW k \in 1..Size(s.ctrl[i]), i # j \/ k # 1
       PROVE  r.buf[Ring(s.ctrl[i])[k]].frame = s.buf[Ring(s.ctrl[i])[k]].frame
  <2> DEFINE x == Ring(s.ctrl[i])[k]
  <2>1. x \in Buffer /\ <<i, k>> \in Uses(s.ctrl, x)
    BY KeptIsUsed DEF UsedBuffers
  <2> HIDE DEF x
  <2>2. CASE x # b
    BY <1>8, <2>1, <2>2 DEF x
  <2>3. CASE x = b
    <3>1. <<i, k>> # <<j, 1>>
      BY <1>13
    <3>2. \A y : Uses(s.ctrl, b) # {y}
      BY <1>4, <2>1, <2>3, <3>1
    <3>3. Cardinality(Uses(s.ctrl, b)) # 1
      BY <3>2, FiniteSets, FS_Singleton
    <3>4. s.buf[b].used # 1
      BY <1>4, <3>3 DEF StoreOK
    <3>5. QED
      BY <1>8, <2>3, <3>4 DEF x
  <2>4. QED
    BY <2>2, <2>3
<1>14. /\ Frames(s, j) # <<>> /\ Head(Frames(s, j)) = s.buf[b].frame
       /\ Frames(r, j) = Tail(Frames(s, j))
  <2> DEFINE z == Size(c)
             old == Frames(s, j)
             new == Frames(r, j)
  <2>1. /\ old \in Seq(Frame) /\ Len(old) = z
        /\ \A k \in 1..z : old[k] = s.buf[Ring(c)[k]].frame
    BY FramesAreSeq
  <2>2. /\ new \in Seq(Frame) /\ Len(new) = z - 1
        /\ \A k \in 1..(z - 1) : new[k] = r.buf[Ring(d)[k]].frame
    <3>1. r.ctrl[j] = d /\ Size(d) = z - 1
      BY <1>2, <1>3
    <3>2. /\ new \in Seq(Frame) /\ Len(new) = Size(r.ctrl[j])
          /\ \A k \in 1..Size(r.ctrl[j]) : new[k] = r.buf[Ring(r.ctrl[j])[k]].frame
      BY <1>11, FramesAreSeq
    <3> HIDE DEF z, new
    <3>3. QED
      BY <3>1, <3>2
  <2>3. z \in Nat \ {0}
    BY <1>3, EthernetAssumption
  <2>4. \A k \in 1..(z - 1) : new[k] = old[k + 1]
    <3> SUFFICES ASSUME NEW k \in 1..(z - 1) PROVE new[k] = old[k + 1]
      OBVIOUS
    <3>1. PICK m \in 1..z : m = k + 1 /\ m # 1
      BY <2>3
    <3>2. Ring(d)[k] = Ring(c)[m]
      BY <1>3, <3>1
    <3>3. r.buf[Ring(c)[m]].frame = s.buf[Ring(c)[m]].frame
      BY <1>13, <3>1
    <3>4. QED
      BY <2>1, <2>2, <3>1, <3>2, <3>3
  <2>5. old[1] = s.buf[b].frame
    BY <1>3, <2>1, <2>3
  <2> HIDE DEF z, old, new
  <2>6. old # <<>> /\ Head(old) = old[1] /\ new = Tail(old)
    BY <2>1, <2>2, <2>3, <2>4
  <2>7. QED
    BY <2>5, <2>6 DEF old, new
<1>15. ASSUME NEW i \in Slot \ {j} PROVE Frames(r, i) = Frames(s, i)
  BY <1>2, <1>13 DEF Frames
<1>16. QED
  BY <1>4, <1>7, <1>11, <1>12, <1>14, <1>15

(* A store that goes wild is left as it is.                                *)
LEMMA GoesWild ==
  ASSUME NEW s, StoreOK(s) \/ (s \in WildStore /\ StoreOK(Settled(s))),
         NEW r, r = [s EXCEPT !.wild = TRUE]
  PROVE  r \in WildStore /\ StoreOK(Settled(r))
<1>1. CASE StoreOK(s)
  <2>1. s \in StoreType
    BY <1>1 DEF StoreOK
  <2>2. r \in WildStore /\ Settled(r) = s
    BY <2>1 DEF StoreType, WildStore, Settled
  <2>3. QED
    BY <1>1, <2>2
<1>2. CASE s \in WildStore /\ StoreOK(Settled(s))
  <2>1. r \in WildStore /\ Settled(r) = Settled(s)
    BY <1>2 DEF WildStore, Settled
  <2>2. QED
    BY <1>2, <2>1
<1>3. QED
  BY <1>1, <1>2

\* What the frames q of a poll by the VM at i, all for others, make of s.
AllKept(s, q, i, r) ==
  /\ StoreOK(r)
  /\ Cardinality(UsedBuffers(r)) <= Cardinality(UsedBuffers(s)) + Len(q)
  /\ Frames(r, i) = Frames(s, i) \o Addressed(q, i)

\* Or they are too many, or one is for no VM.
Overrun(s, q, r) ==
  /\ r \in WildStore /\ StoreOK(Settled(r))
  /\ \/ Cardinality(UsedBuffers(s)) + Len(q) > NUMBER_OF_FRAMES
     \/ \E k \in 1..Len(q) : q[k].dst \notin Registered

(* The frames of a poll that are for others are kept in their order.       *)
LEMMA KeepAllKeeps ==
  ASSUME vm_counter \in 0..NUMBER_OF_VM,
         NEW s, StoreOK(s), NEW q \in Seq(Frame), NEW i \in Slot
  PROVE  AllKept(s, q, i, KeepAll(s, q)) \/ Overrun(s, q, KeepAll(s, q))
<1> DEFINE n == Len(q)
           u == Cardinality(UsedBuffers(s))
<1>1. n \in Nat /\ u \in Nat /\ NUMBER_OF_FRAMES \in Nat
  BY FiniteSets, EthernetAssumption
<1>2. PICK f : /\ f = [k \in 0..n |-> IF k = 0 THEN s ELSE KeepForeign(f[k - 1], q[k])]
               /\ KeepAll(s, q) = f[n]
  BY <1>1, KeepAllSteps
<1>3. PICK a : Among(a, q, i)
  BY AddressedAmong
<1> DEFINE Fine(k) == /\ StoreOK(f[k]) /\ Cardinality(UsedBuffers(f[k])) <= u + k
                      /\ Frames(f[k], i) = Frames(s, i) \o a[k]
           Wild(k) == Overrun(s, q, f[k])
           T == {k \in 0..n : Fine(k) \/ Wild(k)}
<1>4. ASSUME NEW k \in 1..n, Fine(k - 1) \/ Wild(k - 1) PROVE Fine(k) \/ Wild(k)
  <2> DEFINE p == f[k - 1]
  <2>1. f[k] = KeepForeign(p, q[k])
    <3>1. k \in 0..n /\ k # 0
      BY <1>1
    <3>2. \A m \in 0..n : f[m] = IF m = 0 THEN s ELSE KeepForeign(f[m - 1], q[m])
      BY <1>2, Zenon
    <3>3. QED
      BY <3>1, <3>2
  <2>2. q[k] \in Frame /\ Cardinality(UsedBuffers(p)) \in Nat
    BY FiniteSets
  <2>3. CASE Wild(k - 1)
    <3>1. /\ p \in WildStore /\ StoreOK(Settled(p))
          /\ \/ Cardinality(UsedBuffers(s)) + Len(q) > NUMBER_OF_FRAMES
             \/ \E m \in 1..Len(q) : q[m].dst \notin Registered
      BY <2>3 DEF Overrun
    <3> HIDE DEF p
    <3>2. f[k] = [p EXCEPT !.wild = TRUE]
      BY <2>1, <3>1 DEF KeepForeign, WildStore
    <3>3. f[k] \in WildStore /\ StoreOK(Settled(f[k]))
      BY <3>1, <3>2, GoesWild
    <3>4. QED
      BY <3>1, <3>3 DEF Overrun
  <2>4. CASE Fine(k - 1) /\ (Free(p) = {} \/ q[k].dst \notin Registered)
    <3>1. StoreOK(p) /\ Cardinality(UsedBuffers(p)) <= u + (k - 1)
      BY <2>4
    <3>2. \/ u + n > NUMBER_OF_FRAMES
          \/ \E m \in 1..n : q[m].dst \notin Registered
      <4>1. CASE Free(p) = {}
        <5>1. ~ (Cardinality(UsedBuffers(p)) < NUMBER_OF_FRAMES)
          BY <4>1, FiniteSets
        <5> HIDE DEF p, u, n
        <5>2. QED
          BY <1>1, <2>2, <3>1, <5>1
      <4>2. QED
        BY <2>4, <4>1
    <3> HIDE DEF p
    <3>3. f[k] = [p EXCEPT !.wild = TRUE]
      BY <2>1, <2>4 DEF KeepForeign, Known
    <3>4. f[k] \in WildStore /\ StoreOK(Settled(f[k]))
      BY <3>1, <3>3, GoesWild
    <3>5. QED
      BY <3>2, <3>4 DEF Overrun
  <2>5. CASE Fine(k - 1) /\ Free(p) # {} /\ q[k].dst \in Registered
    <3>1. /\ StoreOK(p) /\ Cardinality(UsedBuffers(p)) <= u + (k - 1)
          /\ Frames(p, i) = Frames(s, i) \o a[k - 1]
      BY <2>5
    <3>2. {q[k].dst} \in SUBSET Slot
      BY <2>5, EthernetAssumption DEF Registered, Slot
    <3> HIDE DEF p
    <3>3. p.wild = FALSE
      BY <3>1 DEF StoreOK, StoreType
    <3>4. f[k] = Deposit(p, q[k], {q[k].dst})
      BY <2>1, <2>5, <3>3 DEF KeepForeign, Known
    <3>5. PutAside(p, q[k], {q[k].dst}, f[k])
      <4> DEFINE r == f[k]
                 own == {q[k].dst}
      <4>1. own \in SUBSET Slot /\ q[k] \in Frame /\ r = Deposit(p, q[k], own)
        BY <2>2, <3>2, <3>4
      <4> HIDE DEF r, own
      <4>2. PutAside(p, q[k], own, r)
        BY <2>5, <3>1, <4>1, DepositKeeps
      <4>3. QED
        BY <4>2 DEF r, own
    <3>6. Cardinality(UsedBuffers(f[k])) \in Nat
      BY FiniteSets
    <3>7. Frames(f[k], i) = Frames(s, i) \o a[k]
      <4>1. /\ q[k].dst \in {i, BROADCAST} => a[k] = Append(a[k - 1], q[k])
            /\ q[k].dst \notin {i, BROADCAST} => a[k] = a[k - 1]
        BY <1>3 DEF Among
      <4>2. q[k].dst \in {i, BROADCAST} <=> i \in {q[k].dst}
        BY <2>5, EthernetAssumption DEF Registered, BROADCAST
      <4>3. a[k - 1] \in Seq(Frame)
        BY <1>3, <1>1 DEF Among
      <4>4. Append(Frames(s, i) \o a[k - 1], q[k]) = Frames(s, i) \o Append(a[k - 1], q[k])
        BY <2>2, <4>3, FramesAreSeq, AppendConcat
      <4>5. QED
        BY <3>1, <3>5, <4>1, <4>2, <4>4, Zenon DEF PutAside
    <3>8. Cardinality(UsedBuffers(f[k])) <= u + k
      BY <1>1, <2>2, <3>1, <3>5, <3>6 DEF PutAside
    <3>9. QED
      BY <3>5, <3>7, <3>8 DEF PutAside
  <2>6. QED
    BY <1>4, <2>3, <2>4, <2>5
<1>5. Fine(0)
  <2>1. f[0] = s
    BY <1>1, <1>2
  <2>2. Frames(s, i) \in Seq(Frame) /\ a[0] = <<>>
    BY <1>3, FramesAreSeq DEF Among
  <2>3. Frames(s, i) \o <<>> = Frames(s, i)
    BY <2>2
  <2>4. u <= u + 0
    BY <1>1
  <2>5. QED
    BY <2>1, <2>2, <2>3, <2>4, Zenon
<1> HIDE DEF Fine, Wild
<1>6. \A k \in 0..n : k \in T
  <2>1. 0 \in T /\ \A k \in 1..n : k - 1 \in T => k \in T
    BY <1>1, <1>4, <1>5
  <2> HIDE DEF T
  <2>2. QED
    BY <1>1, <2>1, UpTo
<1>7. Fine(n) \/ Wild(n)
  BY <1>1, <1>6
<1>8. Addressed(q, i) = a[n]
  BY <1>3 DEF Among
<1>9. QED
  BY <1>2, <1>7, <1>8 DEF Fine, Wild, AllKept

-----------------------------------------------------------------------------
(* The inductive invariant: what an index of -1 does is not modelled, so   *)
(* that the store is in order also when one was used.                      *)

EthInv ==
  /\ EthTypeOK
  /\ StoreOK(Store)
  /\ is_up = rxen

LEMMA InvExact == EthInv => BuffersAreExact
<1> SUFFICES ASSUME EthInv, NEW b \in Buffer
             PROVE  b_buf[b].used =
                      Cardinality({u \in Slot \X (1..NUMBER_OF_FRAMES) :
                                     u[2] \in DOMAIN Kept(u[1]) /\ Kept(u[1])[u[2]] = b})
  BY DEF EthInv, BuffersAreExact, UseIsExact
<1>1. \A i \in Slot : Kept(i) = Ring(ctrl[i])
  BY DEF Kept, Full, Ring, Size
<1>2. {u \in Slot \X (1..NUMBER_OF_FRAMES) :
         u[2] \in DOMAIN Kept(u[1]) /\ Kept(u[1])[u[2]] = b} = Uses(ctrl, b)
  BY <1>1 DEF Uses
<1>3. QED
  BY <1>2 DEF EthInv, StoreOK, Store

(* What the VM at i has to receive.                                        *)
LEMMA ForVMIs ==
  ASSUME NEW i \in Slot
  PROVE  /\ ForVM(i) = IF i \in Registered
                       THEN Frames(Store, i) \o Addressed(Readable, i) ELSE <<>>
         /\ ForVM(i)' = IF i \in Registered'
                        THEN Frames(Store', i) \o Addressed(Readable', i) ELSE <<>>
<1>1. [k \in DOMAIN Kept(i) |-> b_buf[Kept(i)[k]].frame] = Frames(Store, i)
  BY DEF Kept, Full, Frames, Ring, Size, Store
<1>2. [k \in DOMAIN Kept(i) |-> b_buf[Kept(i)[k]].frame]' = Frames(Store', i)
  BY DEF Kept, Full, Frames, Ring, Size, Store
<1>3. QED
  BY <1>1, <1>2 DEF ForVM

(* A receive that takes what is first.                                     *)
LEMMA ReceiveRefines ==
  ASSUME NEW j \in Slot, j \in Registered, UNCHANGED <<vm_counter, is_up>>,
         \A i \in Slot : ForVM(i)' = IF i = j /\ ForVM(j) # <<>> THEN Tail(ForVM(j))
                                     ELSE ForVM(i),
         got' = [vm |-> j, frame |-> IF ForVM(j) = <<>> THEN NONE ELSE Head(ForVM(j))]
  PROVE  Inboxes!Receive(j)
<1> DEFINE in == [i \in Slot |-> ForVM(i)]
<1>1. in[j] = ForVM(j) /\ Registered' = Registered
  BY DEF Registered
<1>2. CASE ForVM(j) = <<>>
  <2>1. \A i \in Slot : ForVM(i)' = ForVM(i)
    BY <1>2
  <2>2. in' = in
    BY <2>1
  <2>3. got' = [vm |-> j, frame |-> NONE]
    BY <1>2
  <2>4. QED
    BY <1>1, <1>2, <2>2, <2>3 DEF Inboxes!Receive
<1>3. CASE ForVM(j) # <<>>
  <2>1. in' = [in EXCEPT ![j] = Tail(@)]
    BY <1>3
  <2>2. got' = [vm |-> j, frame |-> Head(ForVM(j))]
    BY <1>3
  <2>3. QED
    BY <1>1, <1>3, <2>1, <2>2 DEF Inboxes!Receive
<1>4. QED
  BY <1>2, <1>3

LEMMA FirstOfConcat ==
  ASSUME NEW p \in Seq(Frame), NEW q \in Seq(Frame), p # <<>>
  PROVE  /\ p \o q # <<>> /\ Head(p \o q) = Head(p)
         /\ Tail(p \o q) = Tail(p) \o q
<1>1. p \o q \in Seq(Frame) /\ Len(p \o q) = Len(p) + Len(q) /\ Len(p) # 0
      /\ Len(p) \in Nat /\ Len(q) \in Nat
  OBVIOUS
<1>2. p \o q # <<>> /\ Head(p \o q) = Head(p)
  BY <1>1
<1>3. Tail(p \o q) = Tail(p) \o q
  <2> DEFINE s == Tail(p \o q)
             r == Tail(p) \o q
  <2>1. s \in Seq(Frame) /\ Len(s) = Len(p) + Len(q) - 1
        /\ \A m \in 1..Len(s) : s[m] = (p \o q)[m + 1]
    BY <1>1
  <2>2. Tail(p) \in Seq(Frame) /\ Len(Tail(p)) = Len(p) - 1
        /\ \A m \in 1..(Len(p) - 1) : Tail(p)[m] = p[m + 1]
    BY <1>1
  <2>3. r \in Seq(Frame) /\ Len(r) = Len(p) - 1 + Len(q)
        /\ \A m \in 1..Len(r) : r[m] = IF m <= Len(p) - 1 THEN Tail(p)[m] ELSE q[m - (Len(p) - 1)]
    BY <2>2, ConcatProperties
  <2> HIDE DEF s, r
  <2>4. ASSUME NEW m \in 1..Len(s) PROVE s[m] = r[m]
    <3>1. m \in 1..Len(r) /\ m + 1 \in 1..(Len(p) + Len(q))
      BY <1>1, <2>1, <2>3
    <3>2. s[m] = (p \o q)[m + 1]
      BY <2>1
    <3>3. (p \o q)[m + 1] = IF m + 1 <= Len(p) THEN p[m + 1] ELSE q[m + 1 - Len(p)]
      BY <3>1, ConcatProperties
    <3>4. CASE m + 1 <= Len(p)
      BY <1>1, <2>2, <2>3, <3>1, <3>2, <3>3, <3>4
    <3>5. CASE m + 1 > Len(p)
      <4>1. ~ (m + 1 <= Len(p)) /\ ~ (m <= Len(p) - 1) /\ m + 1 - Len(p) = m - (Len(p) - 1)
        BY <1>1, <3>1, <3>5
      <4>2. s[m] = q[m + 1 - Len(p)]
        BY <3>2, <3>3, <4>1, Zenon
      <4>3. r[m] = q[m - (Len(p) - 1)]
        BY <2>3, <3>1, <4>1, Zenon
      <4>4. QED
        BY <4>1, <4>2, <4>3, Zenon
    <3>6. QED
      BY <1>1, <3>1, <3>4, <3>5
  <2>5. s = r
    BY <1>1, <2>1, <2>3, <2>4, SeqEqual
  <2>6. QED
    BY <2>5 DEF s, r
<1>4. QED
  BY <1>2, <1>3

LEMMA SplitAt ==
  ASSUME NEW q \in Seq(Frame), NEW k \in 1..Len(q)
  PROVE  q = SubSeq(q, 1, k - 1) \o (<<q[k]>> \o SubSeq(q, k + 1, Len(q)))
<1> DEFINE n == Len(q)
<1>1. PICK l \in 0..n : l = k - 1
  OBVIOUS
<1>2. n \in Nat /\ k \in 1..n /\ n \in k..n /\ k \in (k - 1)..n /\ k \in 1..(n + 1)
      /\ 1 \in 1..(n + 1) /\ l \in (1 - 1)..n /\ n \in l..n /\ l + 1 = k
  BY <1>1
<1>3. SubSeq(q, 1, l) \o SubSeq(q, l + 1, n) = SubSeq(q, 1, n)
  BY <1>2, ConcatAdjacentSubSeq
<1>4. SubSeq(q, k, k) \o SubSeq(q, k + 1, n) = SubSeq(q, k, n)
  BY <1>2, ConcatAdjacentSubSeq
<1>5. SubSeq(q, k, k) = <<q[k]>>
  <2> DEFINE o == SubSeq(q, k, k)
  <2>1. o \in Seq(Frame) /\ Len(o) = 1 /\ o[1] = q[k]
    OBVIOUS
  <2> DEFINE x == q[k]
             w == <<x>>
  <2>2. w \in Seq(Frame) /\ Len(w) = 1 /\ w[1] = x
    OBVIOUS
  <2> HIDE DEF o, x, w
  <2>3. \A m \in 1..1 : o[m] = w[m]
    BY <2>1, <2>2 DEF x
  <2>4. o = w
    BY <2>1, <2>2, <2>3, SeqEqual
  <2>5. QED
    BY <2>4 DEF o, x, w
<1>6. SubSeq(q, 1, n) = q
  OBVIOUS
<1> HIDE DEF n
<1>7. q = SubSeq(q, 1, k - 1) \o (<<q[k]>> \o SubSeq(q, k + 1, n))
  BY <1>1, <1>2, <1>3, <1>4, <1>5, <1>6, Zenon
<1>8. QED
  BY <1>7 DEF n

LEMMA EthInitEstablishesInv == Init => EthInv
<1> SUFFICES ASSUME Init PROVE EthInv
  OBVIOUS
<1> USE DEF Init
<1>1. EthTypeOK
  <2>1. 0 \in Buffer /\ 0 \in Slot /\ 0 \in 0..NUMBER_OF_VM
    BY EthernetAssumption DEF Buffer, Slot
  <2>2. ctrl \in [Slot -> [input : Buffer, output : Buffer,
                          list : [Buffer -> Buffer \cup {NONE}]]]
    BY <2>1
  <2>3. b_buf \in [Buffer -> [used : 0..NUMBER_OF_VM, frame : Frame \cup {NONE}]]
    BY <2>1
  <2>4. rx \in Seq(Frame) /\ got \in [vm : Slot, frame : Frame \cup {NONE}]
    BY <2>1
  <2>5. QED
    BY <2>1, <2>2, <2>3, <2>4 DEF EthTypeOK
<1>2. \A i \in Slot : /\ Store.ctrl[i] \in Control /\ Size(Store.ctrl[i]) = 0
                      /\ Proper(Store.ctrl[i])
  <2> SUFFICES ASSUME NEW i \in Slot
               PROVE  /\ Store.ctrl[i] \in Control /\ Size(Store.ctrl[i]) = 0
                      /\ Proper(Store.ctrl[i])
    OBVIOUS
  <2> DEFINE c == Store.ctrl[i]
  <2>1. 0 \in Buffer
    BY EthernetAssumption DEF Buffer
  <2>2. /\ c \in Control /\ c.input = c.output /\ c.output \in Buffer
        /\ \A n \in Buffer : c.list[n] = NONE
    BY <2>1 DEF Store, Control
  <2> HIDE DEF c
  <2>3. Size(c) = 0
    BY <2>2, SlotsOf
  <2>4. ASSUME NEW k \in 1..NUMBER_OF_FRAMES PROVE c.list[SlotOf(c, k)] = NONE /\ ~ (k <= 0)
    BY <2>2, SlotsOf, EthernetAssumption
  <2>5. Proper(c)
    BY <2>3, <2>4 DEF Proper
  <2>6. QED
    BY <2>2, <2>3, <2>5 DEF c
<1>3. \A b \in Buffer : Uses(Store.ctrl, b) = {}
  BY <1>2 DEF Uses, Ring
<1>4. StoreOK(Store)
  <2>1. Store \in StoreType
    BY <1>2, EthernetAssumption DEF Store, StoreType
  <2>2. \A b \in Buffer : Store.buf[b].used = Cardinality(Uses(Store.ctrl, b))
    BY <1>3, FS_EmptySet DEF Store
  <2>3. \A b \in Buffer : Store.buf[b].used = 0
    BY DEF Store
  <2>4. QED
    BY <1>2, <2>1, <2>2, <2>3 DEF StoreOK
<1>5. QED
  BY <1>1, <1>4 DEF EthInv

LEMMA HeldIs == Held = Len(rx) + Cardinality(UsedBuffers(Store))
<1>1. {b \in Buffer : b_buf[b].used # 0} = UsedBuffers(Store)
  BY DEF UsedBuffers, Store
<1>2. QED
  BY <1>1 DEF Held

(* A step that leaves the stores in order.                                 *)
LEMMA StepKeepsInv ==
  ASSUME EthInv, NEW r, StoreOK(r), Store' = r, wild' \in BOOLEAN,
         rx' \in Seq(Frame), vm_counter' \in 0..NUMBER_OF_VM,
         is_up' \in BOOLEAN, rxen' \in BOOLEAN, is_up' = rxen',
         got' \in [vm : Slot, frame : Frame \cup {NONE}]
  PROVE  EthInv'
<1>1. /\ ctrl' \in [Slot -> Control]
      /\ b_buf' \in [Buffer -> [used : 0..NUMBER_OF_VM, frame : Frame \cup {NONE}]]
  <2>1. r \in StoreType /\ r.ctrl = ctrl' /\ r.buf = b_buf'
    BY DEF StoreOK, Store
  <2>2. QED
    BY <2>1 DEF StoreType
<1>2. EthTypeOK'
  BY <1>1 DEF EthTypeOK, Control
<1>3. StoreOK(Store)'
  OBVIOUS
<1>4. QED
  BY <1>2, <1>3 DEF EthInv

LEMMA ReceiveKeptStep ==
  ASSUME EthInv, NEW j \in Slot, ReceiveKept(j), j \in Registered
  PROVE  EthInv' /\ Inboxes!Receive(j)
<1> DEFINE b == ctrl[j].list[ctrl[j].output]
           r == [buf |-> b_buf', ctrl |-> ctrl', wild |-> FALSE]
<1>1. Taken(Store, j, b, r)
  BY DEF ReceiveKept, Taken, Store
<1>2. /\ b \in Buffer /\ StoreOK(r)
      /\ Cardinality(UsedBuffers(r)) <= Cardinality(UsedBuffers(Store))
      /\ Frames(Store, j) # <<>> /\ Head(Frames(Store, j)) = Store.buf[b].frame
      /\ Frames(r, j) = Tail(Frames(Store, j))
      /\ \A i \in Slot \ {j} : Frames(r, i) = Frames(Store, i)
  <2>1. StoreOK(Store)
    BY DEF EthInv
  <2> HIDE DEF b, r
  <2>2. QED
    BY <1>1, <2>1, TakeKeeps
<1>3. Store' = r /\ UNCHANGED <<vm_counter, rx, is_up, rxen, wild>>
  BY DEF Store, ReceiveKept
<1>4. got' = [vm |-> j, frame |-> b_buf[b].frame]
  BY DEF ReceiveKept
<1>5. got' \in [vm : Slot, frame : Frame \cup {NONE}]
  <2>1. b_buf[b].frame \in Frame \cup {NONE}
    BY <1>2 DEF EthInv, EthTypeOK
  <2>2. QED
    BY <1>4, <2>1
<1> HIDE DEF r, b
<1>6. /\ rx \in Seq(Frame) /\ vm_counter \in 0..NUMBER_OF_VM /\ wild \in BOOLEAN
      /\ is_up \in BOOLEAN /\ rxen \in BOOLEAN /\ is_up = rxen
  BY DEF EthInv, EthTypeOK
<1>7. EthInv'
  BY <1>2, <1>3, <1>5, <1>6, StepKeepsInv
<1>8. Inboxes!Receive(j)
  <2>1. Readable' = Readable /\ Registered' = Registered /\ Readable \in Seq(Frame)
    BY <1>3, <1>6 DEF Readable, Registered
  <2>2. \A i \in Slot : Frames(Store, i) \in Seq(Frame) /\ Addressed(Readable, i) \in Seq(Frame)
    BY <2>1, FramesAreSeq, AddressedSeq DEF EthInv
  <2>3. /\ ForVM(j) = Frames(Store, j) \o Addressed(Readable, j)
        /\ ForVM(j)' = Frames(r, j) \o Addressed(Readable, j)
    BY <1>3, <2>1, ForVMIs
  <2>4. /\ ForVM(j) # <<>> /\ Head(ForVM(j)) = Store.buf[b].frame
        /\ ForVM(j)' = Tail(ForVM(j))
    BY <1>2, <2>2, <2>3, FirstOfConcat
  <2>5. ASSUME NEW i \in Slot, i # j PROVE ForVM(i)' = ForVM(i)
    BY <1>2, <1>3, <2>1, <2>5, ForVMIs
  <2>6. got' = [vm |-> j, frame |-> Head(ForVM(j))]
    BY <1>4, <2>4 DEF Store
  <2>7. QED
    BY <1>3, <2>4, <2>5, <2>6, ReceiveRefines
<1>9. QED
  BY <1>7, <1>8

LEMMA ReceiveFromRingStep ==
  ASSUME EthInv, NEW j \in Slot, ReceiveFromRing(j), ~ wild, j \in Registered
  PROVE  EthInv' /\ (Inboxes!Receive(j) \/ FullLooksEmpty(j) \/ IndexIsWild)
<1>1. /\ rx \in Seq(Frame) /\ vm_counter \in 0..NUMBER_OF_VM
      /\ is_up \in BOOLEAN /\ rxen \in BOOLEAN /\ is_up = rxen /\ StoreOK(Store)
      /\ \A k \in 1..Len(rx) : rx[k] \in Frame
      /\ Registered \subseteq Slot
  BY EthernetAssumption DEF EthInv, EthTypeOK, Registered, Slot
<1>2. /\ Held = Len(rx) + Cardinality(UsedBuffers(Store)) /\ Len(rx) \in Nat
      /\ Cardinality(UsedBuffers(Store)) \in Nat /\ NUMBER_OF_FRAMES \in Nat \ {0}
  BY <1>1, HeldIs, FiniteSets, EthernetAssumption
<1>3. UNCHANGED <<vm_counter, is_up, rxen>>
  BY DEF ReceiveFromRing
<1>4. /\ Registered' = Registered /\ j \notin {BROADCAST}
      /\ \A i \in Slot : Frames(Store, i) \in Seq(Frame)
      /\ Len(Frames(Store, j)) = Size(ctrl[j])
      /\ Size(ctrl[j]) = IF Full(j) THEN NUMBER_OF_FRAMES ELSE 0
  <2>1. Size(ctrl[j]) = IF Full(j) THEN NUMBER_OF_FRAMES ELSE 0
    BY <1>1, SlotsOf DEF ReceiveFromRing, StoreOK, StoreType, Store, Full
  <2>2. \A i \in Slot : Frames(Store, i) \in Seq(Frame)
    BY <1>1, FramesAreSeq
  <2>3. Len(Frames(Store, j)) = Size(ctrl[j])
    BY <1>1, FramesAreSeq DEF Store
  <2>4. Registered' = Registered /\ j \notin {BROADCAST}
    BY <1>3, EthernetAssumption DEF Registered, Slot, BROADCAST
  <2>5. QED
    BY <2>1, <2>2, <2>3, <2>4
<1>5. ~ Full(j) => Frames(Store, j) = <<>>
  BY <1>4
<1>6. ASSUME NEW r, r \in WildStore, StoreOK(Settled(r)),
             b_buf' = r.buf, ctrl' = r.ctrl, wild' = r.wild, rx' \in Seq(Frame),
             got' \in [vm : Slot, frame : Frame \cup {NONE}],
             \/ Held > NUMBER_OF_FRAMES
             \/ \E k \in DOMAIN Readable : Readable[k].dst \notin Registered \cup {BROADCAST}
      PROVE  EthInv' /\ IndexIsWild
  <2>1. Store' = Settled(r)
    BY <1>6 DEF Store, Settled
  <2>2. wild' = TRUE
    BY <1>6 DEF WildStore
  <2>3. EthInv'
    BY <1>1, <1>3, <1>6, <2>1, <2>2, StepKeepsInv
  <2>4. QED
    BY <1>6, <2>2, <2>3 DEF IndexIsWild
<1>7. CASE Own(j) # {}
  <2> DEFINE k == CHOOSE k \in Own(j) : \A l \in Own(j) : k <= l
             q == SubSeq(rx, 1, k - 1)
             s == KeepAll(Store, q)
             r == TakeOwn(s, rx[k], j)
  <2>1. Own(j) \subseteq 1..Len(rx) /\ is_up /\ Readable = rx
    BY <1>1, <1>7 DEF Own, Readable
  <2>2. k \in Own(j) /\ \A l \in Own(j) : k <= l
    <3>1. Own(j) \in SUBSET Nat
      BY <1>2, <2>1
    <3>2. QED
      BY <1>7, <3>1, LeastNatural
  <2>3. /\ b_buf' = r.buf /\ ctrl' = r.ctrl /\ wild' = r.wild
        /\ rx' = SubSeq(rx, k + 1, Len(rx))
        /\ got' = [vm |-> j, frame |-> rx[k]]
    BY <1>7 DEF ReceiveFromRing, Becomes
  <2> HIDE DEF k
  <2>4. k \in 1..Len(rx) /\ rx[k].dst \in {j, BROADCAST} /\ rx[k] \in Frame
    BY <1>1, <2>1, <2>2 DEF Own
  <2>5. q \in Seq(Frame) /\ Len(q) = k - 1 /\ \A m \in 1..Len(q) : q[m] = rx[m]
    BY <1>1, <2>4
  <2>6. \A m \in 1..Len(q) : m \in 1..Len(rx) /\ rx[m].dst \notin {j, BROADCAST}
    <3> SUFFICES ASSUME NEW m \in 1..Len(q)
                 PROVE  m \in 1..Len(rx) /\ rx[m].dst \notin {j, BROADCAST}
      OBVIOUS
    <3>1. m \in 1..Len(rx) /\ m < k
      BY <1>2, <2>4, <2>5
    <3>2. m \notin Own(j)
      BY <2>2, <2>4, <3>1
    <3>3. QED
      BY <1>1, <2>1, <3>1, <3>2 DEF Own
  <2>7. /\ rx' \in Seq(Frame) /\ Len(rx') = Len(rx) - k
         /\ \A m \in 1..Len(rx') : rx'[m] = rx[m + k] /\ m + k \in 1..Len(rx)
    BY <1>1, <1>2, <2>3, <2>4
  <2>8. got' \in [vm : Slot, frame : Frame \cup {NONE}]
    BY <2>3, <2>4
  <2> HIDE DEF q, s, r
  <2>9. \A i \in Slot : AllKept(Store, q, i, s) \/ Overrun(Store, q, s)
    BY <1>1, <2>5, KeepAllKeeps DEF s
  <2>10. CASE Overrun(Store, q, s)
    <3>1. s \in WildStore /\ StoreOK(Settled(s))
      BY <2>10 DEF Overrun
    <3>2. r = [s EXCEPT !.wild = TRUE]
      BY <3>1 DEF r, TakeOwn, WildStore
    <3>3. r \in WildStore /\ StoreOK(Settled(r))
      BY <3>1, <3>2, GoesWild
    <3>4. \/ Cardinality(UsedBuffers(Store)) + Len(q) > NUMBER_OF_FRAMES
          \/ \E m \in 1..Len(q) : q[m].dst \notin Registered
      BY <2>10 DEF Overrun
    <3>5. CASE Cardinality(UsedBuffers(Store)) + Len(q) > NUMBER_OF_FRAMES
      <4>1. Held > NUMBER_OF_FRAMES
        BY <1>2, <2>4, <2>5, <3>5
      <4>2. QED
        BY <1>6, <2>3, <2>7, <2>8, <3>3, <4>1
    <3>6. CASE \E m \in 1..Len(q) : q[m].dst \notin Registered
      <4>1. PICK m \in 1..Len(q) : q[m].dst \notin Registered
        BY <3>6
      <4>2. m \in DOMAIN Readable /\ Readable[m].dst \notin Registered \cup {BROADCAST}
        BY <1>1, <2>1, <2>5, <2>6, <4>1
      <4>3. QED
        BY <1>6, <2>3, <2>7, <2>8, <3>3, <4>2
    <3>7. QED
      BY <3>4, <3>5, <3>6
  <2>11. CASE /\ \A i \in Slot : AllKept(Store, q, i, s)
              /\ Free(s) = {}
    <3>1. /\ StoreOK(s)
          /\ Cardinality(UsedBuffers(s)) <= Cardinality(UsedBuffers(Store)) + Len(q)
      BY <2>11 DEF AllKept
    <3>2. r = [s EXCEPT !.wild = TRUE]
      BY <2>11 DEF r, TakeOwn
    <3>3. r \in WildStore /\ StoreOK(Settled(r))
      BY <3>1, <3>2, GoesWild
    <3>4. ~ (Cardinality(UsedBuffers(s)) < NUMBER_OF_FRAMES) /\ Cardinality(UsedBuffers(s)) \in Nat
      BY <2>11, FiniteSets
    <3>5. Held > NUMBER_OF_FRAMES
      BY <1>2, <2>4, <2>5, <3>1, <3>4
    <3>6. QED
      BY <1>6, <2>3, <2>7, <2>8, <3>3, <3>5
  <2>12. SUFFICES ASSUME \A i \in Slot : AllKept(Store, q, i, s), Free(s) # {}
                  PROVE  EthInv' /\ Inboxes!Receive(j)
    BY <2>9, <2>10, <2>11
  <2>13. /\ StoreOK(s)
        /\ \A i \in Slot : Frames(s, i) = Frames(Store, i) \o Addressed(q, i)
    BY <2>12 DEF AllKept
  <2>14. Free(s) # {} /\ ~ s.wild
    BY <2>13, <2>12 DEF StoreOK, StoreType
  <2>15. Frames(Store, j) = <<>>
    <3>1. Frames(s, j) = Frames(Store, j) \o Addressed(q, j) /\ Addressed(q, j) \in Seq(Frame)
      BY <2>5, <2>13, AddressedSeq
    <3>2. Size(ctrl[j]) <= Len(Frames(s, j))
      BY <1>4, <3>1
    <3>3. Len(Frames(s, j)) = Size(s.ctrl[j]) /\ Size(s.ctrl[j]) <= Cardinality(UsedBuffers(s))
      BY <2>13, FramesAreSeq, RingWithinUsed
    <3>4. Cardinality(UsedBuffers(s)) < NUMBER_OF_FRAMES /\ Cardinality(UsedBuffers(s)) \in Nat
      BY <2>14, FiniteSets
    <3>5. Len(Frames(s, j)) \in Nat
      BY <2>13, FramesAreSeq
    <3>6. ~ Full(j)
      BY <1>2, <1>4, <3>2, <3>3, <3>4, <3>5
    <3>7. QED
      BY <1>5, <3>6
  <2>16. r = Deposit(s, rx[k], Others(rx[k], j))
    BY <2>14 DEF r, TakeOwn
  <2>17. Others(rx[k], j) \in SUBSET Slot
    BY <1>1 DEF Others
  <2>18. PutAside(s, rx[k], Others(rx[k], j), r)
    BY <2>4, <2>13, <2>14, <2>16, <2>17, DepositKeeps
  <2>19. /\ StoreOK(r)
         /\ \A i \in Slot : Frames(r, i) = IF i \in Others(rx[k], j)
                                           THEN Append(Frames(s, i), rx[k]) ELSE Frames(s, i)
    BY <2>18 DEF PutAside
  <2>20. Store' = r /\ wild' = FALSE
    <3>1. r \in StoreType
      BY <2>19 DEF StoreOK
    <3>2. r = [buf |-> r.buf, ctrl |-> r.ctrl, wild |-> FALSE] /\ r.wild = FALSE
      BY <3>1 DEF StoreType
    <3>3. QED
      BY <2>3, <3>2 DEF Store
  <2>21. vm_counter' \in 0..NUMBER_OF_VM /\ is_up' \in BOOLEAN /\ rxen' \in BOOLEAN
         /\ is_up' = rxen' /\ wild' \in BOOLEAN
    BY <1>1, <1>3, <2>20
  <2>22. EthInv'
    BY <2>19, <2>20, <2>7, <2>8, <2>21, StepKeepsInv
  <2>23. /\ Readable' = rx' /\ Readable = rx
         /\ \A i \in Slot : /\ Addressed(q, i) \in Seq(Frame)
                            /\ Addressed(rx', i) \in Seq(Frame)
    <3>1. Readable' = rx'
      BY <1>3, <2>1 DEF Readable
    <3>2. QED
      BY <2>1, <2>5, <2>7, <3>1, AddressedSeq
  <2>24. ASSUME NEW i \in Slot
         PROVE  Addressed(rx, i) = Addressed(q, i) \o
                  ((IF rx[k].dst \in {i, BROADCAST} THEN <<rx[k]>> ELSE <<>>) \o Addressed(rx', i))
    <3>1. rx = q \o (<<rx[k]>> \o rx')
      BY <1>1, <2>3, <2>4, SplitAt DEF q
    <3>2. <<rx[k]>> \in Seq(Frame) /\ <<rx[k]>> \o rx' \in Seq(Frame)
      BY <2>4, <2>7
    <3>3. Addressed(<<rx[k]>> \o rx', i) = Addressed(<<rx[k]>>, i) \o Addressed(rx', i)
      BY <2>7, <3>2, AddressedConcat
    <3>4. Addressed(rx, i) = Addressed(q, i) \o Addressed(<<rx[k]>> \o rx', i)
      <4> DEFINE g == <<rx[k]>> \o rx'
      <4>1. rx = q \o g /\ g \in Seq(Frame) /\ q \in Seq(Frame)
        BY <2>5, <3>1, <3>2
      <4> HIDE DEF g
      <4>2. Addressed(q \o g, i) = Addressed(q, i) \o Addressed(g, i)
        BY <4>1, AddressedConcat
      <4>3. QED
        BY <4>1, <4>2 DEF g
    <3>5. Addressed(<<rx[k]>>, i) = IF rx[k].dst \in {i, BROADCAST} THEN <<rx[k]>> ELSE <<>>
      BY <2>4, AddressedOne
    <3>6. QED
      BY <3>3, <3>4, <3>5, Zenon
  <2>25. ForVM(j) # <<>> /\ Head(ForVM(j)) = rx[k] /\ ForVM(j)' = Tail(ForVM(j))
    <3>1. Addressed(q, j) = <<>>
      <4>1. ASSUME NEW m \in 1..Len(q) PROVE q[m].dst \notin {j, BROADCAST}
        BY <2>5, <2>6
      <4>2. QED
        BY <2>5, <4>1, AddressedNone
    <3>2. Addressed(rx, j) = <<>> \o (<<rx[k]>> \o Addressed(rx', j))
      BY <2>4, <2>24, <3>1
    <3>3. ForVM(j) = <<>> \o (<<>> \o (<<rx[k]>> \o Addressed(rx', j)))
      BY <2>23, <2>15, <3>2, ForVMIs
    <3>4. j \notin Others(rx[k], j)
      BY DEF Others
    <3>5. ForVM(j)' = (<<>> \o <<>>) \o Addressed(rx', j)
      BY <1>4, <2>13, <2>19, <2>20, <2>23, <2>15, <3>1, <3>4, ForVMIs
    <3> DEFINE x == rx[k]
               h == <<rx[k]>>
               g == Addressed(rx', j)
    <3>6. /\ h \in Seq(Frame) /\ g \in Seq(Frame) /\ h # <<>> /\ Head(h) = x
          /\ Tail(h) = <<>>
      BY <2>4, <2>23
    <3>7. ForVM(j) = <<>> \o (<<>> \o (h \o g)) /\ ForVM(j)' = (<<>> \o <<>>) \o g
      BY <3>3, <3>5
    <3> HIDE DEF h, g
    <3>8. h \o g \in Seq(Frame)
      BY <3>6
    <3>9. ForVM(j) = h \o g /\ ForVM(j)' = g /\ <<>> \o g = g
      BY <3>6, <3>7, <3>8
    <3>10. h \o g # <<>> /\ Head(h \o g) = x /\ Tail(h \o g) = <<>> \o g
      BY <3>6, FirstOfConcat
    <3>11. QED
      BY <3>9, <3>10
  <2>26. ASSUME NEW i \in Slot, i # j PROVE ForVM(i)' = ForVM(i)
    <3>1. CASE i \notin Registered
      BY <1>4, <3>1, ForVMIs
    <3>2. CASE i \in Registered
      <4> DEFINE F == Frames(Store, i)
                 A == Addressed(q, i)
                 G == Addressed(rx', i)
                 h == <<rx[k]>>
      <4>1. /\ F \in Seq(Frame) /\ A \in Seq(Frame) /\ G \in Seq(Frame) /\ h \in Seq(Frame)
        BY <1>4, <2>4, <2>23
      <4>2. i \in Others(rx[k], j) <=> rx[k].dst \in {i, BROADCAST}
        BY <2>4, <2>26, <3>2 DEF Others
      <4>3. ForVM(i) = F \o Addressed(rx, i) /\ ForVM(i)' = Frames(r, i) \o G
        BY <1>4, <2>20, <2>23, <3>2, ForVMIs
      <4>4. /\ Addressed(rx, i) = A \o ((IF rx[k].dst \in {i, BROADCAST} THEN h ELSE <<>>) \o G)
            /\ Frames(r, i) = IF i \in Others(rx[k], j) THEN Append(F \o A, rx[k])
                              ELSE F \o A
        BY <2>13, <2>19, <2>24
      <4>5. Append(F \o A, rx[k]) = (F \o A) \o h
        BY <2>4, <4>1, AppendIsConcat
      <4> HIDE DEF F, A, G, h
      <4>6. F \o A \in Seq(Frame) /\ h \o G \in Seq(Frame) /\ <<>> \o G = G
        BY <4>1
      <4>7. /\ ((F \o A) \o h) \o G = F \o (A \o (h \o G))
            /\ (F \o A) \o G = F \o (A \o G)
        <5>1. ((F \o A) \o h) \o G = (F \o A) \o (h \o G)
          BY <4>1, <4>6, ConcatAssociative
        <5>2. (F \o A) \o (h \o G) = F \o (A \o (h \o G))
          BY <4>1, <4>6, ConcatAssociative
        <5>3. (F \o A) \o G = F \o (A \o G)
          BY <4>1, ConcatAssociative
        <5>4. QED
          BY <5>1, <5>2, <5>3, Zenon
      <4>8. QED
        BY <4>2, <4>3, <4>4, <4>5, <4>6, <4>7, Zenon
    <3>3. QED
      BY <3>1, <3>2
  <2>27. Inboxes!Receive(j)
    <3>1. got' = [vm |-> j, frame |-> Head(ForVM(j))]
      BY <2>3, <2>25
    <3>2. QED
      BY <1>3, <2>25, <2>26, <3>1, ReceiveRefines
  <2>28. QED
    BY <2>22, <2>27
<1>8. CASE Own(j) = {}
  <2> DEFINE q == Readable
             r == KeepAll(Store, q)
  <2>1. /\ b_buf' = r.buf /\ ctrl' = r.ctrl /\ wild' = r.wild
        /\ rx' = IF is_up THEN <<>> ELSE rx
        /\ got' = [vm |-> j, frame |-> NONE]
    BY <1>8 DEF ReceiveFromRing, Becomes
  <2>2. q \in Seq(Frame) /\ \A m \in 1..Len(q) : q[m].dst \notin {j, BROADCAST}
    BY <1>1, <1>8 DEF Own, Readable
  <2>3. Len(q) + Len(rx') = Len(rx) /\ Len(q) \in Nat /\ Len(rx') \in Nat
    BY <1>1, <2>1 DEF Readable
  <2>4. rx' \in Seq(Frame) /\ got' \in [vm : Slot, frame : Frame \cup {NONE}]
    BY <1>1, <2>1
  <2>5. Readable' = <<>> /\ Readable = q
    BY <1>3, <2>1 DEF Readable
  <2> HIDE DEF q, r
  <2>6. \A i \in Slot : AllKept(Store, q, i, r) \/ Overrun(Store, q, r)
    BY <1>1, <2>2, KeepAllKeeps DEF r
  <2>7. CASE Overrun(Store, q, r)
    <3>1. /\ r \in WildStore /\ StoreOK(Settled(r))
          /\ \/ Cardinality(UsedBuffers(Store)) + Len(q) > NUMBER_OF_FRAMES
             \/ \E m \in 1..Len(q) : q[m].dst \notin Registered
      BY <2>7 DEF Overrun
    <3>2. CASE Cardinality(UsedBuffers(Store)) + Len(q) > NUMBER_OF_FRAMES
      <4>1. Held > NUMBER_OF_FRAMES
        BY <1>2, <2>3, <3>2
      <4>2. QED
        BY <1>6, <2>1, <2>4, <3>1, <4>1
    <3>3. CASE \E m \in 1..Len(q) : q[m].dst \notin Registered
      <4>1. PICK m \in 1..Len(q) : q[m].dst \notin Registered
        BY <3>3
      <4>2. m \in DOMAIN Readable /\ Readable[m].dst \notin Registered \cup {BROADCAST}
        BY <2>2, <2>5, <4>1
      <4>3. QED
        BY <1>6, <2>1, <2>4, <3>1, <4>2
    <3>4. QED
      BY <3>1, <3>2, <3>3
  <2>8. SUFFICES ASSUME \A i \in Slot : AllKept(Store, q, i, r)
                 PROVE  EthInv' /\ (Inboxes!Receive(j) \/ FullLooksEmpty(j))
    BY <2>6, <2>7
  <2>9. /\ StoreOK(r)
        /\ \A i \in Slot : Frames(r, i) = Frames(Store, i) \o Addressed(q, i)
    BY <2>8 DEF AllKept
  <2>10. Store' = r /\ wild' = FALSE
    <3>1. r \in StoreType
      BY <2>9 DEF StoreOK
    <3>2. r = [buf |-> r.buf, ctrl |-> r.ctrl, wild |-> FALSE] /\ r.wild = FALSE
      BY <3>1 DEF StoreType
    <3>3. QED
      BY <2>1, <3>2 DEF Store
  <2>11. EthInv'
    <3>1. vm_counter' \in 0..NUMBER_OF_VM /\ is_up' \in BOOLEAN /\ rxen' \in BOOLEAN
          /\ is_up' = rxen' /\ wild' \in BOOLEAN
      BY <1>1, <1>3, <2>10
    <3>2. QED
      BY <2>4, <2>9, <2>10, <3>1, StepKeepsInv
  <2>12. \A i \in Slot : Addressed(q, i) \in Seq(Frame) /\ Addressed(<<>>, i) = <<>>
    <3>1. <<>> \in Seq(Frame) /\ 1..Len(<<>>) = {}
      OBVIOUS
    <3>2. QED
      BY <2>2, <3>1, AddressedSeq, AddressedNone
  <2>13. ASSUME NEW i \in Slot PROVE ForVM(i)' = ForVM(i)
    <3>1. CASE i \notin Registered
      BY <1>4, <3>1, ForVMIs
    <3>2. CASE i \in Registered
      <4> DEFINE z == Frames(Store, i) \o Addressed(q, i)
      <4>1. z \in Seq(Frame)
        BY <1>4, <2>12
      <4>2. ForVM(i) = z /\ ForVM(i)' = z \o <<>>
        BY <1>4, <2>5, <2>9, <2>10, <2>12, <3>2, ForVMIs
      <4> HIDE DEF z
      <4>3. QED
        BY <4>1, <4>2
    <3>3. QED
      BY <3>1, <3>2
  <2>14. CASE Full(j)
    <3>1. UNCHANGED <<is_up, vm_counter, [i \in Slot |-> ForVM(i)]>>
      BY <1>3, <2>13
    <3>2. FullLooksEmpty(j)
      BY <2>1, <2>14, <3>1 DEF FullLooksEmpty
    <3>3. QED
      BY <2>11, <3>2
  <2>15. CASE ~ Full(j)
    <3>1. Addressed(q, j) = <<>>
      BY <2>2, AddressedNone
    <3>2. ForVM(j) = <<>> \o <<>>
      BY <1>5, <2>5, <2>15, <3>1, ForVMIs
    <3>3. ForVM(j) = <<>>
      BY <3>2
    <3>4. Inboxes!Receive(j)
      BY <1>3, <2>1, <2>13, <3>3, ReceiveRefines
    <3>5. QED
      BY <2>11, <3>4
  <2>16. QED
    BY <2>14, <2>15
<1>9. QED
  BY <1>7, <1>8

LEMMA EthInvIsInductive ==
  ASSUME EthInv, [Next]_vars
  PROVE  EthInv'
<1>1. /\ rx \in Seq(Frame) /\ vm_counter \in 0..NUMBER_OF_VM /\ wild \in BOOLEAN
      /\ is_up \in BOOLEAN /\ rxen \in BOOLEAN /\ is_up = rxen /\ StoreOK(Store)
      /\ got \in [vm : Slot, frame : Frame \cup {NONE}]
  BY DEF EthInv, EthTypeOK
<1>2. CASE UNCHANGED vars
  <2>1. Store' = Store /\ UNCHANGED <<vm_counter, rx, is_up, rxen, got, wild>>
    BY <1>2 DEF vars, Store
  <2>2. QED
    BY <1>1, <2>1, StepKeepsInv
<1>3. CASE EnGetMac
  <2>1. Store' = Store /\ UNCHANGED <<rx, is_up, rxen, got, wild>>
    BY <1>3 DEF EnGetMac, Store
  <2>2. vm_counter' \in 0..NUMBER_OF_VM
    BY <1>1, <1>3, EthernetAssumption DEF EnGetMac
  <2>3. QED
    BY <1>1, <2>1, <2>2, StepKeepsInv
<1>4. ASSUME NEW j \in Slot, ReceiveFrame(j) PROVE EthInv'
  BY <1>4, ReceiveKeptStep, ReceiveFromRingStep DEF ReceiveFrame
<1>5. CASE ReceiveUnregistered
  <2>1. Store' = Store /\ wild' = TRUE /\ UNCHANGED <<vm_counter, rx, is_up, rxen, got>>
    BY <1>5 DEF ReceiveUnregistered, Store
  <2>2. QED
    BY <1>1, <2>1, StepKeepsInv
<1>6. ASSUME NEW linked \in BOOLEAN, EnWatchdog(linked) PROVE EthInv'
  <2>1. /\ Store' = Store /\ UNCHANGED <<vm_counter, got, wild>>
        /\ is_up' \in BOOLEAN /\ rxen' \in BOOLEAN /\ is_up' = rxen'
        /\ rx' = rx \/ rx' = <<>>
    BY <1>6 DEF EnWatchdog, Store
  <2>2. rx' \in Seq(Frame)
    <3>1. <<>> \in Seq(Frame)
      OBVIOUS
    <3>2. QED
      BY <1>1, <2>1, <3>1, Zenon
  <2>3. QED
    BY <1>1, <2>1, <2>2, StepKeepsInv
<1>7. ASSUME NEW f \in Frame, Arrive(f) PROVE EthInv'
  <2>1. /\ Store' = Store /\ UNCHANGED <<vm_counter, is_up, rxen, got, wild>>
        /\ rx' = Append(rx, f)
    BY <1>7 DEF Arrive, Store
  <2>2. rx' \in Seq(Frame)
    BY <1>1, <2>1
  <2>3. QED
    BY <1>1, <2>1, <2>2, StepKeepsInv
<1>8. QED
  BY <1>2, <1>3, <1>4, <1>5, <1>6, <1>7 DEF Next

(* Whatever frames come and whoever polls, the uses of the shared buffers  *)
(* are counted right, also when all are in use and when the ring of a VM   *)
(* is full: none is lost, overwritten or freed while a VM has still to     *)
(* read it, until an array is indexed with -1.                             *)
THEOREM BuffersExact == Spec => []BuffersAreExact
<1>1. EthInv /\ [Next]_vars => EthInv'
  BY EthInvIsInductive
<1>2. QED
  BY <1>1, EthInitEstablishesInv, InvExact, PTL DEF Spec

-----------------------------------------------------------------------------
(* The driver implements the inboxes.                                      *)

LEMMA InitRefines == Init => Inboxes!Init
<1> SUFFICES ASSUME Init PROVE Inboxes!Init
  OBVIOUS
<1>1. Registered = {}
  BY DEF Init, Registered
<1>2. \A i \in Slot : ForVM(i) = <<>>
  BY <1>1 DEF ForVM
<1>3. QED
  BY <1>1, <1>2 DEF Init, Inboxes!Init

LEMMA ForVMIsSeq ==
  ASSUME EthInv, NEW i \in Slot
  PROVE  /\ Frames(Store, i) \in Seq(Frame) /\ Addressed(Readable, i) \in Seq(Frame)
         /\ ForVM(i) \in Seq(Frame)
<1>1. Readable \in Seq(Frame)
  BY DEF Readable, EthInv, EthTypeOK
<1>2. Frames(Store, i) \in Seq(Frame) /\ Addressed(Readable, i) \in Seq(Frame)
  BY <1>1, FramesAreSeq, AddressedSeq DEF EthInv
<1>3. Frames(Store, i) \o Addressed(Readable, i) \in Seq(Frame) /\ <<>> \in Seq(Frame)
  BY <1>2
<1>4. QED
  BY <1>2, <1>3, ForVMIs

LEMMA GetMacRefines ==
  ASSUME EthInv, EnGetMac
  PROVE  \E p \in Slot : Inboxes!Join(p)
<1> DEFINE in == [i \in Slot |-> ForVM(i)]
<1>1. PICK p \in Slot : p \notin Registered /\ Registered' = Registered \cup {p}
  <2>1. vm_counter \in Nat /\ vm_counter < NUMBER_OF_VM /\ vm_counter' = vm_counter + 1
    BY EthernetAssumption DEF EthInv, EthTypeOK, EnGetMac
  <2>2. /\ vm_counter \in Slot /\ vm_counter \notin Registered
        /\ Registered' = Registered \cup {vm_counter}
    BY <2>1, EthernetAssumption DEF Registered, Slot
  <2>3. QED
    BY <2>2
<1>2. Store' = Store /\ Readable' = Readable /\ UNCHANGED <<is_up, got>>
  BY DEF EnGetMac, Store, Readable
<1>3. \A i \in Slot : i # p => ForVM(i)' = ForVM(i)
  BY <1>1, <1>2, ForVMIs
<1>4. ForVM(p)' \in Seq(Frame)
  <2>1. ForVM(p)' = Frames(Store, p) \o Addressed(Readable, p)
    BY <1>1, <1>2, ForVMIs
  <2>2. Frames(Store, p) \in Seq(Frame) /\ Addressed(Readable, p) \in Seq(Frame)
    BY <1>1, ForVMIsSeq
  <2>3. QED
    BY <2>1, <2>2
<1>5. in' = [in EXCEPT ![p] = in'[p]] /\ in'[p] \in Seq(Frame)
  BY <1>1, <1>3, <1>4
<1>6. Inboxes!Join(p)
  BY <1>1, <1>2, <1>5 DEF Inboxes!Join
<1>7. QED
  BY <1>1, <1>6

LEMMA WatchdogRefines ==
  ASSUME EthInv, NEW linked \in BOOLEAN, EnWatchdog(linked)
  PROVE  Inboxes!LinkDown \/ Inboxes!LinkUp
           \/ UNCHANGED <<is_up, Registered, [i \in Slot |-> ForVM(i)], got>>
<1> DEFINE in == [i \in Slot |-> ForVM(i)]
<1>1. /\ is_up = rxen /\ is_up \in BOOLEAN /\ is_up' = linked
      /\ Store' = Store /\ Registered' = Registered /\ got' = got
      /\ rx' = IF linked /\ ~ is_up THEN <<>> ELSE rx
  BY DEF EnWatchdog, EthInv, EthTypeOK, Store, Registered
<1>2. \A i \in Slot : Addressed(<<>>, i) = <<>>
  <2>1. <<>> \in Seq(Frame) /\ 1..Len(<<>>) = {}
    OBVIOUS
  <2>2. QED
    BY <2>1, AddressedNone
<1>3. CASE is_up = linked
  <2>1. Readable' = Readable
    BY <1>1, <1>3 DEF Readable
  <2>2. \A i \in Slot : ForVM(i)' = ForVM(i)
    BY <1>1, <2>1, ForVMIs
  <2>3. QED
    BY <1>1, <1>3, <2>2
<1>4. CASE ~ is_up /\ linked
  <2>1. Readable = <<>> /\ Readable' = <<>>
    BY <1>1, <1>4 DEF Readable
  <2>2. \A i \in Slot : ForVM(i)' = ForVM(i)
    BY <1>1, <2>1, ForVMIs
  <2>3. Inboxes!LinkUp
    BY <1>1, <1>4, <2>2 DEF Inboxes!LinkUp
  <2>4. QED
    BY <2>3
<1>5. CASE is_up /\ ~ linked
  <2>1. Readable' = <<>>
    BY <1>1, <1>5 DEF Readable
  <2>2. ASSUME NEW i \in Slot PROVE Inboxes!IsPrefix(ForVM(i)', ForVM(i))
    <3>1. CASE i \notin Registered
      <4>1. ForVM(i) = <<>> /\ ForVM(i)' = <<>>
        BY <1>1, <3>1, ForVMIs
      <4>2. QED
        BY <4>1 DEF Inboxes!IsPrefix
    <3>2. CASE i \in Registered
      <4> DEFINE F == Frames(Store, i)
                 G == Addressed(Readable, i)
      <4>1. F \in Seq(Frame) /\ G \in Seq(Frame)
        BY ForVMIsSeq
      <4>2. ForVM(i) = F \o G /\ ForVM(i)' = F \o <<>>
        BY <1>1, <1>2, <2>1, <3>2, ForVMIs
      <4> HIDE DEF F, G
      <4>3. ForVM(i)' = F
        BY <4>1, <4>2
      <4>4. Len(F) <= Len(F \o G) /\ SubSeq(F \o G, 1, Len(F)) = SubSeq(F, 1, Len(F))
        BY <4>1
      <4>5. QED
        BY <4>2, <4>3, <4>4 DEF Inboxes!IsPrefix
    <3>3. QED
      BY <3>1, <3>2
  <2>3. DOMAIN in' = Slot /\ \A i \in Slot : in'[i] = ForVM(i)' /\ in[i] = ForVM(i)
    OBVIOUS
  <2>4. Inboxes!LinkDown
    BY <1>1, <1>5, <2>2, <2>3 DEF Inboxes!LinkDown
  <2>5. QED
    BY <2>4
<1>6. QED
  BY <1>1, <1>3, <1>4, <1>5

LEMMA ArriveRefines ==
  ASSUME EthInv, NEW f \in Frame, Arrive(f)
  PROVE  Inboxes!Arrive(f)
<1> DEFINE in == [i \in Slot |-> ForVM(i)]
<1>1. /\ is_up /\ is_up' = is_up /\ Store' = Store /\ Registered' = Registered
      /\ got' = got /\ rx \in Seq(Frame) /\ Readable = rx /\ Readable' = Append(rx, f)
  BY DEF Arrive, EthInv, EthTypeOK, Store, Registered, Readable
<1>2. ASSUME NEW i \in Slot
      PROVE  ForVM(i)' = IF i \in Registered /\ f.dst \in {i, BROADCAST}
                         THEN Append(ForVM(i), f) ELSE ForVM(i)
  <2>1. CASE i \notin Registered
    BY <1>1, <2>1, ForVMIs
  <2>2. CASE i \in Registered
    <3> DEFINE F == Frames(Store, i)
               G == Addressed(rx, i)
               h == <<f>>
               e == IF f.dst \in {i, BROADCAST} THEN h ELSE <<>>
    <3>1. F \in Seq(Frame) /\ G \in Seq(Frame)
      BY <1>1, ForVMIsSeq
    <3>2. Addressed(Append(rx, f), i) = G \o e
      <4>1. h \in Seq(Frame) /\ Append(rx, f) = rx \o h
        BY <1>1, AppendIsConcat
      <4>2. Addressed(rx \o h, i) = G \o Addressed(h, i)
        BY <1>1, <4>1, AddressedConcat
      <4>3. Addressed(h, i) = e
        BY AddressedOne
      <4>4. QED
        BY <4>1, <4>2, <4>3, Zenon
    <3>3. ForVM(i) = F \o G /\ ForVM(i)' = F \o (G \o e)
      BY <1>1, <2>2, <3>2, ForVMIs
    <3>4. h \in Seq(Frame) /\ Append(F \o G, f) = (F \o G) \o h
      <4>1. F \o G \in Seq(Frame)
        BY <3>1
      <4>2. h \in Seq(Frame)
        OBVIOUS
      <4>3. QED
        BY <4>1, <4>2, AppendIsConcat
    <3>5. f.dst \in {i, BROADCAST} => e = h
      OBVIOUS
    <3>6. f.dst \notin {i, BROADCAST} => e = <<>>
      OBVIOUS
    <3> HIDE DEF F, G, h, e
    <3>7. (F \o G) \o h = F \o (G \o h) /\ G \o <<>> = G
      BY <3>1, <3>4, ConcatAssociative
    <3>8. QED
      BY <2>2, <3>3, <3>4, <3>5, <3>6, <3>7, Zenon
  <2>3. QED
    BY <2>1, <2>2
<1>3. in' = [p \in Slot |-> IF p \in Registered /\ f.dst \in {p, BROADCAST}
                            THEN Append(in[p], f) ELSE in[p]]
  BY <1>2
<1>4. QED
  BY <1>1, <1>3 DEF Inboxes!Arrive

(* Whichever VMs poll, in whatever order they and the arrivals come, and   *)
(* whatever frames come, the shared buffers and rings are one inbox for    *)
(* each VM, for every number of VMs and of buffers: every frame for it is  *)
(* received once, by it, in the order of arrival.  It is told that none    *)
(* waits while one does only when its ring is full, and an array is        *)
(* indexed with -1 only when more frames are held than there are buffers,  *)
(* or one is for an address that no VM has.                                *)
THEOREM InboxesImplemented == Spec => ImplementsInboxes
<1> DEFINE inboxVars == <<is_up, Registered, [i \in Slot |-> ForVM(i)], got>>
           Step == Inboxes!Next \/ (\E i \in Slot : FullLooksEmpty(i)) \/ IndexIsWild
<1>1. ASSUME EthInv, Next
      PROVE  Step \/ UNCHANGED inboxVars
  <2>1. CASE EnGetMac
    BY <1>1, <2>1, GetMacRefines DEF Inboxes!Next
  <2>2. ASSUME NEW j \in Slot, ReceiveFrame(j) PROVE Step
    <3>1. Inboxes!Receive(j) \/ FullLooksEmpty(j) \/ IndexIsWild
      BY <1>1, <2>2, ReceiveKeptStep, ReceiveFromRingStep DEF ReceiveFrame
    <3>2. QED
      BY <3>1 DEF Inboxes!Next
  <2>3. ASSUME NEW linked \in BOOLEAN, EnWatchdog(linked)
        PROVE  Inboxes!Next \/ UNCHANGED inboxVars
    BY <1>1, <2>3, WatchdogRefines DEF Inboxes!Next
  <2>4. ASSUME NEW f \in Frame, Arrive(f) PROVE Inboxes!Next
    BY <1>1, <2>4, ArriveRefines DEF Inboxes!Next
  <2>5. CASE ReceiveUnregistered
    <3>1. Store' = Store /\ Readable' = Readable /\ Registered' = Registered
      BY <2>5 DEF ReceiveUnregistered, Store, Readable, Registered
    <3>2. \A i \in Slot : ForVM(i)' = ForVM(i)
      BY <3>1, ForVMIs
    <3>3. QED
      BY <2>5, <3>1, <3>2 DEF ReceiveUnregistered
  <2>6. QED
    BY <1>1, <2>1, <2>2, <2>3, <2>4, <2>5 DEF Next
<1>2. ASSUME UNCHANGED vars PROVE UNCHANGED inboxVars
  BY <1>2 DEF vars, Registered, ForVM, Kept, Full, Readable
<1>3. EthInv /\ [Next]_vars => [Step]_inboxVars
  BY <1>1, <1>2
<1>4. EthInv /\ [Next]_vars => EthInv'
  BY EthInvIsInductive
<1>5. QED
  BY <1>3, <1>4, EthInitEstablishesInv, InitRefines, PTL
     DEF Spec, ImplementsInboxes, inboxVars, Step
=============================================================================
