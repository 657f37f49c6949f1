----------------------------- MODULE GuestFloat -----------------------------
(***************************************************************************)
(* The single precision arithmetic that the library of the guests computes *)
(* in software, bare-metal-apps/lib/libc.c.  A number is a sign, an        *)
(* exponent and the mantissa without its hidden bit, or Zero, whose bits   *)
(* are all clear.  Sums have GUARD bits below the mantissa (6 in the       *)
(* code); products are made of thirds of it.  Negative zero, denormal      *)
(* numbers, infinities and NaN, which the code takes for other numbers,    *)
(* are not modelled.                                                       *)
(***************************************************************************)
EXTENDS Integers, FiniteSetsExt

CONSTANTS
  THIRD,       \* a third of the bits of a mantissa with its hidden bit, 8
  GUARD,       \* 6
  EXCESS,      \* 126
  Exponents,   \* exponents of the numbers that are computed with
  Mantissas,   \* their mantissas, without the hidden bit
  FloatWords   \* integers that are converted

PLACES == 3 * THIRD - 1    \* bits of a mantissa without the hidden bit
WORD == PLACES + 9         \* bits of an integer

(* Powers of two.                                                          *)
Two[n \in Nat] == IF n = 0 THEN 1 ELSE 2 * Two[n - 1]

HIDDEN == Two[PLACES]

(* No operation on these numbers leaves the range of the exponent.         *)
ASSUME FloatAssumption ==
  /\ THIRD \in Nat /\ THIRD >= 4 /\ GUARD \in Nat \ {0}
  /\ EXCESS \in 1..126
  /\ Mantissas \subseteq 0..(HIDDEN - 1)
  /\ Exponents \subseteq (PLACES + 1)..(EXCESS + WORD - 1)
  /\ \A e1, e2 \in Exponents :
       {e1 + e2 - EXCESS, e1 - e2 + EXCESS} \subseteq 2..(2 * EXCESS + 1)
  /\ FloatWords \subseteq (1 - Two[WORD - 1])..(Two[WORD - 1] - 1)

VARIABLE operands     \* two numbers, or a word to be converted

Zero == [neg |-> FALSE, exp |-> 0, man |-> 0]
Floats == [neg : BOOLEAN, exp : Exponents, man : Mantissas] \cup {Zero}

MANT(x) == HIDDEN + x.man
PACK(neg, exp, mant) == [neg |-> neg, exp |-> exp, man |-> mant - HIDDEN]
WithSign(neg, i) == IF neg THEN -i ELSE i
SizeOf(i) == IF i < 0 THEN -i ELSE i

-----------------------------------------------------------------------------
(* Normalising down, and rounding to even, in __addsf3(): what is below    *)
(* the mantissa is still there.                                            *)
Halved(t) == IF t.m >= Two[PLACES + GUARD + 1] THEN [m |-> t.m \div 2, e |-> t.e + 1] ELSE t
Evened(m) == m + Two[GUARD - 1] - (IF (m \div Two[GUARD]) % 2 = 1 THEN 0 ELSE 1)

(* A carry out of the mantissa in rounding is forgotten.                   *)
Rounded_MutantCarry(neg, exp, m) ==
  LET up == Min({k \in 0..(PLACES + GUARD) : m >= Two[PLACES + GUARD - k]})
      normal == Halved([m |-> m * Two[up], e |-> exp - up])
  IN PACK(neg, normal.e, Evened(normal.m) \div Two[GUARD])

(* The end of __addsf3(): normalise up, then down, round, perhaps down     *)
(* again, and drop the guard bits.                                         *)
Rounded(neg, exp, m) ==
  LET up == Min({k \in 0..(PLACES + GUARD) : m >= Two[PLACES + GUARD - k]})
      normal == Halved([m |-> m * Two[up], e |-> exp - up])
      r == Halved([m |-> Evened(normal.m), e |-> normal.e])
  IN PACK(neg, r.e, r.m \div Two[GUARD])

(* __addsf3(): the mantissa of the smaller one is shifted, rounding down.  *)
Addsf3(x, y) ==
  LET exp == Max({x.exp, y.exp})
      Shifted(z) == (WithSign(z.neg, MANT(z)) * Two[GUARD]) \div Two[exp - z.exp]
      sum == Shifted(x) + Shifted(y)
  IN CASE x = Zero -> y
       [] y = Zero -> x
       [] OTHER -> CASE x.exp > y.exp + PLACES + 2 -> x
                     [] y.exp > x.exp + PLACES + 2 -> y
                     [] OTHER -> IF sum = 0 THEN Zero ELSE Rounded(sum < 0, exp, SizeOf(sum))

Negsf2(x) == IF x = Zero THEN Zero ELSE [x EXCEPT !.neg = ~@]

Subsf3(x, y) ==
  CASE y = Zero -> x
    [] x = Zero -> Negsf2(y)
    [] OTHER -> Addsf3(x, Negsf2(y))

(* __mulsf3(): the product of the low thirds is left out.                  *)
Mulsf3(x, y) ==
  LET hi(z) == MANT(z) \div Two[THIRD]
      lo(z) == MANT(z) % Two[THIRD]
      product == (hi(x) * hi(y) + (lo(x) * hi(y)) \div Two[THIRD]
                    + (lo(y) * hi(x)) \div Two[THIRD]) \div 4
      big == product >= Two[4 * THIRD - 3]
      r == IF big THEN (product + Two[THIRD - 3]) \div Two[THIRD - 2]
           ELSE (product + Two[THIRD - 4]) \div Two[THIRD - 3]
      exp == x.exp + y.exp - EXCESS - (IF big THEN 0 ELSE 1)
  IN IF x = Zero \/ y = Zero THEN Zero
     ELSE IF r >= 2 * HIDDEN THEN PACK(x.neg # y.neg, exp + 1, r \div 2)
     ELSE PACK(x.neg # y.neg, exp, r)

(* __divsf3(), of a divisor that is not zero: repeated subtraction.        *)
Divsf3(x, y) ==
  LET less == MANT(x) < MANT(y)
      num == IF less THEN 2 * MANT(x) ELSE MANT(x)
      div[i \in 0..(PLACES + 2)] ==
        IF i = 0 THEN [result |-> 0, rem |-> num]
        ELSE LET d == div[i - 1]
                 bit == d.rem >= MANT(y)
             IN [result |-> d.result * 2 + (IF bit THEN 1 ELSE 0),
                 rem |-> 2 * (IF bit THEN d.rem - MANT(y) ELSE d.rem)]
      exp == x.exp - y.exp + EXCESS + 1 - (IF less THEN 1 ELSE 0)
  IN IF x = Zero THEN Zero
     ELSE PACK(x.neg # y.neg, exp, (div[PLACES + 2].result + 1) \div 2)

(* __cmpsf2(): the bits as signed integers, and reversed without the sign  *)
(* when both are negative.                                                 *)
Cmpsf2(x, y) ==
  LET Magnitude(z) == z.exp * HIDDEN + z.man
      Bits(z) == IF z.neg THEN Magnitude(z) - Two[WORD - 1] ELSE Magnitude(z)
      Compared(i, j) == IF i < j THEN -1 ELSE IF i > j THEN 1 ELSE 0
  IN IF x.neg /\ y.neg THEN Compared(Magnitude(y), Magnitude(x))
     ELSE Compared(Bits(x), Bits(y))

(* __ltsf2() and the others: what the compiler compares with zero.         *)
Ltsf2(x, y) == IF Cmpsf2(x, y) < 0 THEN -1 ELSE 0
Lesf2(x, y) == IF Cmpsf2(x, y) > 0 THEN 1 ELSE 0
Gtsf2(x, y) == IF Cmpsf2(x, y) > 0 THEN 1 ELSE 0
Gesf2(x, y) == IF Cmpsf2(x, y) >= 0 THEN 0 ELSE -1
Eqsf2(x, y) == IF x = y THEN 0 ELSE 1

(* __fixsfsi(), of a number that an integer holds.                         *)
Fixsfsi(x) ==
  LET af == MANT(x) * Two[WORD - 2 - PLACES]
      shift == EXCESS + WORD - 1 - x.exp
  IN WithSign(x.neg, IF shift >= WORD - 1 THEN 0 ELSE af \div Two[shift])

(* __floatsisf(): digits that the mantissa cannot hold are dropped.        *)
Floatsisf(i) ==
  LET top == Max({k \in 0..(WORD - 1) : Two[k] <= SizeOf(i)})
      mant == IF top >= PLACES THEN SizeOf(i) \div Two[top - PLACES]
              ELSE SizeOf(i) * Two[PLACES - top]
  IN IF i = 0 THEN Zero ELSE PACK(i < 0, EXCESS + 1 + top, mant)

-----------------------------------------------------------------------------
(* The operands of one call after the other.                               *)
NoOperands == [type |-> "floats", x |-> Zero, y |-> Zero]

FloatInit == operands = NoOperands

FloatCall ==
  /\ FloatInit
  /\ \/ \E x, y \in Floats : operands' = [type |-> "floats", x |-> x, y |-> y]
     \/ \E i \in FloatWords : operands' = [type |-> "word", i |-> i]

FloatNext == FloatCall \/ (~FloatInit /\ operands' = NoOperands)

FloatSpec == FloatInit /\ [][FloatNext]_operands

-----------------------------------------------------------------------------
(* Reference: z differs from num / den by at most half a unit of its last  *)
(* place and extra / 2^GUARD of one.  Units are of the exponent lo.        *)
Units(z, lo) == IF z = Zero THEN 0 ELSE WithSign(z.neg, MANT(z)) * Two[z.exp - lo]
IsNormal(z) == z = Zero \/ (z.man \in 0..(HIDDEN - 1) /\ z.exp \in 1..(2 * EXCESS + 2))
Near(z, lo, num, den, extra) ==
  /\ IsNormal(z)
  /\ IF z = Zero THEN num = 0
     ELSE Two[GUARD] * SizeOf(Units(z, lo) * den - num)
            <= (Two[GUARD - 1] + extra) * den * Two[z.exp - lo]

SumIsNear(x, y, z) ==
  LET lo == Min({v.exp : v \in {x, y, z} \ {Zero}})
  IN IF x = Zero /\ y = Zero THEN z = Zero
     ELSE Near(z, lo, Units(x, lo) + Units(y, lo), 1, 2)

(* Products: the largest that is left out is 3 parts of 2^THIRD.           *)
ProductIsNear(x, y, z) ==
  IF x = Zero \/ y = Zero THEN z = Zero
  ELSE LET k == z.exp - (x.exp + y.exp - EXCESS - 1 - PLACES)
       IN /\ IsNormal(z) /\ z.neg = (x.neg # y.neg)
          /\ SizeOf(MANT(z) * Two[k] - MANT(x) * MANT(y)) <= Two[k - 1] + 3 * Two[2 * THIRD]

(* Quotients are rounded correctly.                                        *)
QuotientIsNear(x, y, z) ==
  IF x = Zero THEN z = Zero
  ELSE LET j == PLACES + (x.exp - y.exp + EXCESS + 1 - z.exp)
       IN /\ IsNormal(z) /\ z.neg = (x.neg # y.neg)
          /\ 2 * SizeOf(MANT(z) * MANT(y) - MANT(x) * Two[j]) <= MANT(y)

OrderIsExact(x, y) ==
  LET Key(z) == IF z = Zero THEN 0 ELSE WithSign(z.neg, z.exp * HIDDEN + z.man)
  IN /\ (Ltsf2(x, y) < 0) <=> Key(x) < Key(y)
     /\ (Lesf2(x, y) <= 0) <=> Key(x) <= Key(y)
     /\ (Gtsf2(x, y) > 0) <=> Key(x) > Key(y)
     /\ (Gesf2(x, y) >= 0) <=> Key(x) >= Key(y)
     /\ (Eqsf2(x, y) = 0) <=> Key(x) = Key(y)

(* Conversion to an integer cuts the fraction off; conversion from one     *)
(* keeps the PLACES + 1 highest digits.                                    *)
CutOff(x) ==
  LET e == x.exp - EXCESS - 1 - PLACES
  IN IF x = Zero THEN 0
     ELSE WithSign(x.neg, IF e >= 0 THEN MANT(x) * Two[e]
                          ELSE IF -e > PLACES THEN 0 ELSE MANT(x) \div Two[-e])

(* The software floating point of the guests is close to the numbers it    *)
(* stands for: sums and differences to half a unit of the last place and   *)
(* what the guard bits lose, quotients to half a unit, products to half a  *)
(* unit and the part of the product that __mulsf3() leaves out;            *)
(* comparisons and conversions are exact.  Cancellation, a carry out of    *)
(* rounding and operands far apart are among the operands.                 *)
FloatsAreClose ==
  CASE operands.type = "floats" ->
         LET x == operands.x
             y == operands.y
         IN /\ SumIsNear(x, y, Addsf3(x, y))
            /\ SumIsNear(x, Negsf2(y), Subsf3(x, y))
            /\ ProductIsNear(x, y, Mulsf3(x, y))
            /\ y # Zero => QuotientIsNear(x, y, Divsf3(x, y))
            /\ OrderIsExact(x, y)
            /\ x # Zero => Fixsfsi(x) = CutOff(x)
    [] operands.type = "word" ->
         LET i == operands.i
             low == Max({0} \cup {k - PLACES : k \in {n \in PLACES..WORD : Two[n] <= SizeOf(i)}})
         IN CutOff(Floatsisf(i)) = WithSign(i < 0, (SizeOf(i) \div Two[low]) * Two[low])
=============================================================================
