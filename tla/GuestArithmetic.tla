-------------------------- MODULE GuestArithmetic --------------------------
(***************************************************************************)
(* The integer arithmetic that the library of the guests computes in       *)
(* software, bare-metal-apps/lib/libc.c: products, quotients and shifts of *)
(* words and of double words, the difference of two readings of the cycle  *)
(* counter, and numerals.  A word has W bits, 32 in the code.  An integer  *)
(* is the natural number its bits stand for; Signed() is the number that a *)
(* signed type reads in them.  These are functions of their arguments: a   *)
(* step only chooses the next ones.                                        *)
(***************************************************************************)
EXTENDS Integers, Sequences, FiniteSetsExt

CONSTANTS
  W,          \* bits of a word
  Dwords      \* the double words that are computed with

(* Powers of two.                                                         *)
Power[n \in 0..(2 * W)] == IF n = 0 THEN 1 ELSE 2 * Power[n - 1]

M == Power[W]
Words == 0..(M - 1)

ASSUME ArithmeticAssumption ==
  /\ W \in Nat \ {0} /\ W % 2 = 0
  /\ Dwords \subseteq 0..(M * M - 1)

Low(d) == d % M
High(d) == d \div M

(* The number that w stands for as a signed integer of n bits, and back.   *)
Signed(w, n) == IF w < Power[n - 1] THEN w ELSE w - Power[n]
Bits(i, n) == i % Power[n]
Negative(w, n) == Signed(w, n) < 0
Negated(w, n) == Bits(-w, n)
Magnitude(w, n) == IF Negative(w, n) THEN Negated(w, n) ELSE w

VARIABLE args    \* the arguments of the last call, and their type

-----------------------------------------------------------------------------
(* __muldsi3(): the double word product, by half words; t1 and t2 are the  *)
(* values of t after each of its two sums.                                 *)
Muldsi3(a, b) ==
  LET H == Power[W \div 2]
      l == (a % H) * (b % H)
      t1 == l \div H + (a \div H) * (b % H)
      m == (l % H) + (t1 % H) * H
      t2 == m \div H + (b \div H) * (a % H)
  IN (t1 \div H + t2 \div H + (a \div H) * (b \div H)) * M + (m % H) + (t2 % H) * H

(* __mulsi3(): a is doubled and b halved until nothing of it is left.      *)
Mulsi3(a, b) ==
  LET mul[i \in 0..W] ==
        IF i = 0 THEN 0
        ELSE IF (b \div Power[i - 1]) % 2 = 1
             THEN (mul[i - 1] + ((a * Power[i - 1]) % M)) % M
             ELSE mul[i - 1]
  IN mul[W]

(* __muldi3()                                                              *)
Muldi3(a, b) ==
  LET r == Muldsi3(Low(a), Low(b))
      high == High(r) + Mulsi3(High(a), Low(b)) + Mulsi3(Low(a), High(b))
  IN (high % M) * M + Low(r)

(* A divisor equal to what is left of the dividend is not subtracted.      *)
Divided_MutantEqual(num, den, n) ==
  LET div[i \in 0..(n + 1)] ==
        IF i = 0 THEN [quot |-> 0, rem |-> num]
        ELSE LET d == div[i - 1]
                 bit == Power[n + 1 - i]
             IN IF d.rem > den * bit
                THEN [quot |-> d.quot + bit, rem |-> d.rem - den * bit] ELSE d
  IN div[n + 1]

(* Shift and subtract, from the divisor shifted n times down to itself.    *)
Divided(num, den, n) ==
  LET div[i \in 0..(n + 1)] ==
        IF i = 0 THEN [quot |-> 0, rem |-> num]
        ELSE LET d == div[i - 1]
                 bit == Power[n + 1 - i]
             IN IF d.rem >= den * bit
                THEN [quot |-> d.quot + bit, rem |-> d.rem - den * bit] ELSE d
  IN div[n + 1]

(* __udivmodsi4(): the divisor is shifted until it reaches the dividend or *)
(* its highest bit is set.                                                 *)
Udivmodsi4(num, den) ==
  Divided(num, den, Min({n \in 0..(W - 1) : den * Power[n] >= num \/ 2 * den * Power[n] >= M}))

(* __udivmoddi4(): the divisor is shifted until its highest bit is set.    *)
Udivmoddi4(num, den) ==
  Divided(num, den, Min({n \in 0..(2 * W - 1) : 2 * den * Power[n] >= M * M}))

(* __divsi3(), __modsi3()                                                  *)
Divsi3(a, b) ==
  LET q == Udivmodsi4(Magnitude(a, W), Magnitude(b, W)).quot
  IN IF Negative(a, W) # Negative(b, W) THEN Negated(q, W) ELSE q

Modsi3(a, b) ==
  LET r == Udivmodsi4(Magnitude(a, W), Magnitude(b, W)).rem
  IN IF Negative(a, W) THEN Negated(r, W) ELSE r

(* __divdi3(), and __moddi3(), whose remainder has the sign of a quotient. *)
Divdi3(a, b) ==
  LET q == Udivmoddi4(Magnitude(a, 2 * W), Magnitude(b, 2 * W)).quot
  IN IF Negative(a, 2 * W) # Negative(b, 2 * W) THEN Negated(q, 2 * W) ELSE q

Moddi3(a, b) ==
  LET r == Udivmoddi4(Magnitude(a, 2 * W), Magnitude(b, 2 * W)).rem
  IN IF Negative(a, 2 * W) # Negative(b, 2 * W) THEN Negated(r, 2 * W) ELSE r

(* __ashldi3(), __lshrdi3(), __ashrdi3(): shifts of a double word.  The    *)
(* 32 - b is unsigned, so that "bm <= 0" finds b = W only: a shift by more *)
(* than a word is served as one by less, and the instructions take their   *)
(* amount modulo W.  __ashrdi3() by a word keeps the low word.             *)
Amount(b) == b % W

Ashldi3(d, b) ==
  LET s == Amount(b)
  IN CASE b = 0 -> d
       [] b = W -> Low(d) * M
       [] OTHER -> (((High(d) * Power[s]) % M) + Low(d) \div Power[W - s]) * M
                     + ((Low(d) * Power[s]) % M)

Lshrdi3(d, b) ==
  LET s == Amount(b)
  IN CASE b = 0 -> d
       [] b = W -> High(d)
       [] OTHER -> (High(d) \div Power[s]) * M + Low(d) \div Power[s]
                     + ((High(d) * Power[W - s]) % M)

Ashrdi3(d, b) ==
  LET s == Amount(b)
      Top(n) == Bits(Signed(High(d), W) \div Power[n], W)
  IN CASE b = 0 -> d
       [] b = W -> Top(W) * M + Low(d)
       [] OTHER -> Top(s) * M + Low(d) \div Power[s] + ((High(d) * Power[W - s]) % M)

(* calc_diff_time(), wait_time(): one cycle is lost when the counter wraps.*)
CalcDiffTime(now, old) == IF now >= old THEN now - old ELSE (M - 1) - (old - now)

-----------------------------------------------------------------------------
(* itoa() in base 10, a sign and digits; those of a negative number are    *)
(* found by dividing it, not its magnitude.                                *)
Itoa(w) ==
  LET Tenth(i) == IF i >= 0 THEN i \div 10 ELSE -((-i) \div 10)
      Digit(i) == IF i >= 0 THEN i - Tenth(i) * 10 ELSE Tenth(i) * 10 - i
      digits[i \in -M..M] ==
        (IF Tenth(i) = 0 THEN <<>> ELSE digits[Tenth(i)]) \o <<Digit(i)>>
  IN [minus |-> Negative(w, W), digits |-> digits[Signed(w, W)]]

(* atoi() of a sign and digits.                                            *)
Atoi(s) ==
  LET value[n \in 0..Len(s.digits)] ==
        IF n = 0 THEN 0 ELSE Bits(value[n - 1] * 10 + s.digits[n], W)
  IN IF s.minus THEN Negated(value[Len(s.digits)], W) ELSE value[Len(s.digits)]

-----------------------------------------------------------------------------
(* The arguments of one call after the other.                              *)
NoArgs == [type |-> "words", a |-> 0, b |-> 0]

ArithmeticInit == args = NoArgs

ArithmeticCall ==
  /\ ArithmeticInit
  /\ \/ \E a, b \in Words : args' = [type |-> "words", a |-> a, b |-> b]
     \/ \E a, b \in Dwords : args' = [type |-> "dwords", a |-> a, b |-> b]
     \/ \E a \in Dwords, b \in 0..(2 * W - 1) : args' = [type |-> "shift", a |-> a, b |-> b]

ArithmeticNext == ArithmeticCall \/ (~ArithmeticInit /\ args' = NoArgs)

ArithmeticSpec == ArithmeticInit /\ [][ArithmeticNext]_args

-----------------------------------------------------------------------------
(* Quotients and remainders of C: truncated towards zero, and with the     *)
(* sign of the dividend.                                                   *)
Size(i) == IF i < 0 THEN -i ELSE i
Quotient(i, j) == IF (i < 0) # (j < 0) THEN -(Size(i) \div Size(j)) ELSE Size(i) \div Size(j)
Remainder(i, j) == i - j * Quotient(i, j)

WordsAreExact(a, b) ==
  /\ Mulsi3(a, b) = (a * b) % M
  /\ Muldsi3(a, b) = a * b
  /\ Atoi(Itoa(a)) = a
  /\ CalcDiffTime(a, b) = ((a - b) % M) - (IF a < b THEN 1 ELSE 0)
  /\ b # 0 =>
       /\ Udivmodsi4(a, b) = [quot |-> a \div b, rem |-> a % b]
       /\ Divsi3(a, b) = Bits(Quotient(Signed(a, W), Signed(b, W)), W)
       /\ Modsi3(a, b) = Bits(Remainder(Signed(a, W), Signed(b, W)), W)

DwordsAreExact(a, b) ==
  /\ Muldi3(a, b) = (a * b) % (M * M)
  /\ b # 0 =>
       /\ Udivmoddi4(a, b) = [quot |-> a \div b, rem |-> a % b]
       /\ Divdi3(a, b) = Bits(Quotient(Signed(a, 2 * W), Signed(b, 2 * W)), 2 * W)
       /\ ~Negative(b, 2 * W) =>
            Moddi3(a, b) = Bits(Remainder(Signed(a, 2 * W), Signed(b, 2 * W)), 2 * W)

(* What is shifted by more than a word is shifted by a word too little.    *)
ShiftsAreExact(d, n) ==
  LET s == IF n > W THEN n - W ELSE n
  IN /\ Ashldi3(d, n) = (d * Power[s]) % (M * M)
     /\ Lshrdi3(d, n) = d \div Power[s]
     /\ n # W => Ashrdi3(d, n) = Bits(Signed(d, 2 * W) \div Power[s], 2 * W)

(* What the library computes, for every argument for which C defines a     *)
(* result: that result, for the most negative integers, carries between    *)
(* the halves of a product, a divisor with its highest bit set.  In four   *)
(* cases the code does not agree with C, and what it computes instead is   *)
(* stated or left out: a double word shifted by more than a word is        *)
(* shifted by a word too little, __ashrdi3() by a word keeps the low word, *)
(* __moddi3() by a negative divisor gives the remainder the wrong sign,    *)
(* and calc_diff_time() is one cycle short when the counter wraps in       *)
(* between.                                                                *)
ArithmeticIsExact ==
  CASE args.type = "words"  -> WordsAreExact(args.a, args.b)
    [] args.type = "dwords" -> DwordsAreExact(args.a, args.b)
    [] args.type = "shift"  -> ShiftsAreExact(args.a, args.b)
=============================================================================
