---------------------------- MODULE LibraryProofs ----------------------------
(***************************************************************************)
(* Proofs about the library of the guests: its integers, for words of any  *)
(* even number of bits, and its single precision numbers, for any number   *)
(* of bits of the mantissa, guard bits and excess of the exponent.         *)
(* Induction, least elements and rows are those of ComponentProofs.        *)
(***************************************************************************)
EXTENDS ComponentProofs, GuestArithmetic, GuestFloat

-----------------------------------------------------------------------------
(* The arithmetic of the guests' library.                                  *)

(* Quotients and remainders.                                               *)
LEMMA DivIs ==
  ASSUME NEW x \in Int, NEW d \in Nat \ {0}
  PROVE  /\ x \div d \in Int /\ x % d \in 0..(d - 1)
         /\ x = d * (x \div d) + (x % d)
         /\ x \in Nat => x \div d \in Nat
OBVIOUS

LEMMA Product ==
  ASSUME NEW x \in Nat, NEW y \in Nat
  PROVE  /\ x * y \in Nat
         /\ x # 0 /\ y # 0 => x * y >= x /\ x * y >= y /\ x * y # 0
<1>1. x * y \in Nat
  OBVIOUS
<1>2. ASSUME x # 0, y # 0 PROVE x * y >= x /\ x * y >= y /\ x * y # 0
  <2>1. PICK u \in Nat, v \in Nat : x = u + 1 /\ y = v + 1
    <3>1. x - 1 \in Nat /\ y - 1 \in Nat
      BY <1>2
    <3>2. QED
      BY <3>1
  <2>2. x * y = u * v + u + v + 1
    BY <2>1
  <2>3. u * v \in Nat
    OBVIOUS
  <2>4. QED
    BY <2>1, <2>2, <2>3
<1>3. QED
  BY <1>1, <1>2

LEMMA DivUnique ==
  ASSUME NEW d \in Nat \ {0}, NEW q \in Int, NEW r \in 0..(d - 1)
  PROVE  (d * q + r) \div d = q /\ (d * q + r) % d = r
<1>1. PICK x \in Int : x = d * q + r
  OBVIOUS
<1>2. PICK p \in Int, s \in 0..(d - 1) : p = x \div d /\ s = x % d /\ x = d * p + s
  BY <1>1, DivIs
<1>3. d * (q - p) = s - r /\ d * (p - q) = r - s
  BY <1>1, <1>2
<1>4. ~(q > p)
  <2> SUFFICES ASSUME q > p PROVE FALSE
    OBVIOUS
  <2>1. PICK e \in Nat \ {0} : e = q - p
    OBVIOUS
  <2>2. d * e >= d
    BY <2>1, Product
  <2>3. QED
    BY <1>3, <2>1, <2>2
<1>5. ~(p > q)
  <2> SUFFICES ASSUME p > q PROVE FALSE
    OBVIOUS
  <2>1. PICK e \in Nat \ {0} : e = p - q
    OBVIOUS
  <2>2. d * e >= d
    BY <2>1, Product
  <2>3. QED
    BY <1>3, <2>1, <2>2
<1>6. p = q /\ s = r
  BY <1>2, <1>3, <1>4, <1>5
<1>7. QED
  BY <1>1, <1>2, <1>6

(* Numbers with the same remainder.                                        *)
LEMMA SameMod ==
  ASSUME NEW d \in Nat \ {0}, NEW x \in Int, NEW k \in Int
  PROVE  (x + d * k) % d = x % d
<1>1. PICK p \in Int, s \in 0..(d - 1) : p = x \div d /\ s = x % d /\ x = d * p + s
  BY DivIs
<1>2. PICK j \in Int : j = p + k
  OBVIOUS
<1>3. x + d * k = d * j + s
  BY <1>1, <1>2
<1>4. (d * j + s) % d = s
  BY DivUnique
<1>5. QED
  BY <1>1, <1>3, <1>4

LEMMA ModSum ==
  ASSUME NEW d \in Nat \ {0}, NEW x \in Int, NEW y \in Int
  PROVE  ((x % d) + y) % d = (x + y) % d
<1>1. PICK p \in Int, s \in 0..(d - 1) : p = x \div d /\ s = x % d /\ x = d * p + s
  BY DivIs
<1>2. PICK z \in Int : z = s + y
  OBVIOUS
<1>3. x + y = z + d * p
  BY <1>1, <1>2
<1>4. (z + d * p) % d = z % d
  BY SameMod
<1>5. QED
  BY <1>1, <1>2, <1>3, <1>4

LEMMA ModProduct ==
  ASSUME NEW d \in Nat \ {0}, NEW x \in Int, NEW y \in Int
  PROVE  ((x % d) * y) % d = (x * y) % d
<1>1. PICK p \in Int, s \in 0..(d - 1) : p = x \div d /\ s = x % d /\ x = d * p + s
  BY DivIs
<1>2. x * y = s * y + d * (p * y)
  BY <1>1
<1>3. (s * y + d * (p * y)) % d = (s * y) % d
  <2>1. s * y \in Int /\ p * y \in Int
    OBVIOUS
  <2>2. QED
    BY <2>1, SameMod
<1>4. QED
  BY <1>1, <1>2, <1>3

(* A quotient of a quotient.                                               *)
LEMMA DivDiv ==
  ASSUME NEW x \in Int, NEW c \in Nat \ {0}, NEW d \in Nat \ {0}
  PROVE  /\ (x \div c) \div d = x \div (c * d)
         /\ x % (c * d) = c * ((x \div c) % d) + (x % c)
<1>1. PICK p \in Int, s \in 0..(c - 1) : p = x \div c /\ s = x % c /\ x = c * p + s
  BY DivIs
<1>2. PICK q \in Int, t \in 0..(d - 1) : q = p \div d /\ t = p % d /\ p = d * q + t
  BY DivIs
<1>3. PICK e \in Nat \ {0} : e = c * d
  BY Product
<1>4. PICK r \in Nat : r = c * t + s
  BY Product
<1>5. x = e * q + r
  <2>1. PICK y \in Int : y = d * q
    OBVIOUS
  <2>2. c * p = c * y + c * t
    BY <1>2, <2>1
  <2>3. c * y = e * q
    BY <1>3, <2>1
  <2>4. QED
    BY <1>1, <1>4, <2>2, <2>3
<1>6. r \in 0..(e - 1)
  <2>1. PICK u \in Nat : u = (d - 1) - t
    BY <1>2
  <2>2. c * d = c * u + c * t + c
    BY <2>1
  <2>3. c * u \in Nat
    BY Product
  <2>4. QED
    BY <1>1, <1>3, <1>4, <2>2, <2>3
<1>7. x \div e = q /\ x % e = r
  BY <1>5, <1>6, DivUnique
<1>8. QED
  BY <1>1, <1>2, <1>3, <1>4, <1>7, Zenon

(* Powers of two.                                                          *)
LEMMA PowerNext ==
  /\ Power[0] = 1
  /\ \A n \in 0..(2 * W) : Power[n] \in Nat \ {0}
  /\ \A n \in 1..(2 * W) : Power[n] = 2 * Power[n - 1]
<1>0. W \in Nat \ {0} /\ 2 * W \in Nat
  BY ArithmeticAssumption
<1> DEFINE g == [k \in 1..(2 * W) |-> [x \in Nat \ {0} |-> 2 * x]]
<1>1. \A k \in 1..(2 * W) : \A x \in Nat \ {0} : g[k][x] = 2 * x
  OBVIOUS
<1>a. \A k \in (0 + 1)..(2 * W) : \A x \in Nat \ {0} : g[k][x] \in Nat \ {0}
  OBVIOUS
<1>b. 0 \in Nat /\ 0 <= 2 * W /\ 1 \in Nat \ {0}
  BY <1>0
<1> HIDE DEF g
<1>2. PICK f \in [0..(2 * W) -> Nat \ {0}] : Rows(f, 0, 2 * W, 1, g)
  BY <1>0, <1>a, <1>b, RowsExist
<1>3. f = [n \in 0..(2 * W) |-> IF n = 0 THEN 1 ELSE 2 * f[n - 1]]
  <2>1. \A n \in 0..(2 * W) : f[n] = IF n = 0 THEN 1 ELSE g[n][f[n - 1]]
    BY <1>2 DEF Rows
  <2>2. \A n \in 0..(2 * W) : f[n] = IF n = 0 THEN 1 ELSE 2 * f[n - 1]
    <3> SUFFICES ASSUME NEW n \in 0..(2 * W), n # 0 PROVE g[n][f[n - 1]] = 2 * f[n - 1]
      BY <2>1
    <3>1. n \in 1..(2 * W) /\ n - 1 \in 0..(2 * W)
      BY <1>0
    <3>2. QED
      BY <1>1, <3>1
  <2>3. QED
    BY <2>2
<1> DEFINE Is(h) == h = [n \in 0..(2 * W) |-> IF n = 0 THEN 1 ELSE 2 * h[n - 1]]
<1>4. Power = CHOOSE h : Is(h)
  BY Zenon DEF Power
<1>5. Is(Power)
  BY <1>3, <1>4
<1>6. \A n \in 0..(2 * W) : Power[n] = IF n = 0 THEN 1 ELSE 2 * Power[n - 1]
  <2> HIDE DEF Is
  <2>1. PICK h : h = Power
    OBVIOUS
  <2>2. h = [n \in 0..(2 * W) |-> IF n = 0 THEN 1 ELSE 2 * h[n - 1]]
    BY <1>5, <2>1 DEF Is
  <2>3. QED
    BY <2>1, <2>2
<1> DEFINE T == {n \in 0..(2 * W) : Power[n] \in Nat \ {0}}
<1>7. \A n \in 0..(2 * W) : n \in T
  <2>1. 0 \in T
    BY <1>0, <1>6
  <2>2. \A k \in 1..(2 * W) : k - 1 \in T => k \in T
    <3> SUFFICES ASSUME NEW k \in 1..(2 * W), Power[k - 1] \in Nat \ {0}
                 PROVE  Power[k] \in Nat \ {0}
      BY <1>0
    <3>1. PICK p \in Nat \ {0} : p = Power[k - 1]
      OBVIOUS
    <3>2. Power[k] = 2 * p
      BY <1>0, <1>6, <3>1
    <3>3. QED
      BY <3>2
  <2> HIDE DEF T
  <2>3. QED
    BY <1>0, <2>1, <2>2, UpTo
<1>8. QED
  BY <1>0, <1>6, <1>7

LEMMA PowerSum ==
  ASSUME NEW m \in Nat, NEW n \in Nat, m + n <= 2 * W
  PROVE  Power[m + n] = Power[m] * Power[n]
<1>0. W \in Nat
  BY ArithmeticAssumption
<1> DEFINE T == {k \in 0..n : Power[m + k] = Power[m] * Power[k]}
<1>1. 0 \in T
  BY <1>0, PowerNext
<1>2. ASSUME NEW k \in 1..n, k - 1 \in T PROVE k \in T
  <2>1. PICK l \in 0..(n - 1) : k = l + 1
    <3>1. k - 1 \in 0..(n - 1) /\ k = (k - 1) + 1
      OBVIOUS
    <3>2. QED
      BY <3>1
  <2>2. PICK j \in Nat : j = m + l
    OBVIOUS
  <2>3. m + k = j + 1 /\ j + 1 \in 1..(2 * W) /\ (j + 1) - 1 = j /\ l + 1 \in 1..(2 * W)
        /\ (l + 1) - 1 = l
    BY <1>0, <2>1, <2>2
  <2>4. Power[j + 1] = 2 * Power[j] /\ Power[l + 1] = 2 * Power[l]
    BY <2>3, PowerNext
  <2>5. PICK p \in Nat, q \in Nat : p = Power[m] /\ q = Power[l]
    BY <1>0, <2>1, PowerNext
  <2>6. Power[j] = p * q
    BY <1>2, <2>1, <2>2, <2>5
  <2>7. Power[j + 1] = p * (2 * q)
    BY <2>4, <2>6
  <2>8. QED
    BY <2>1, <2>3, <2>4, <2>5, <2>7
<1>3. n \in T
  <2> HIDE DEF T
  <2>1. QED
    BY <1>1, <1>2, UpTo
<1>4. QED
  BY <1>3

LEMMA Sizes ==
  /\ W \in Nat \ {0} /\ W - 1 \in Nat /\ M \in Nat \ {0} /\ M = 2 * Power[W - 1]
  /\ Power[W - 1] \in Nat \ {0}
  /\ Power[2 * W] = M * M /\ Power[2 * W] = 2 * Power[2 * W - 1]
  /\ Power[2 * W - 1] \in Nat \ {0}
  /\ Words = 0..(M - 1)
<1>1. W \in Nat \ {0} /\ W - 1 \in 0..(2 * W) /\ 2 * W - 1 \in 0..(2 * W)
      /\ W \in 1..(2 * W) /\ 2 * W \in 1..(2 * W) /\ W + W = 2 * W
  BY ArithmeticAssumption
<1>2. Power[W + W] = Power[W] * Power[W]
  BY <1>1, PowerSum
<1>3. QED
  BY <1>1, <1>2, PowerNext DEF M, Words

DivStates == [quot : Nat, rem : Nat]
DivStep(x, den, bit) ==
  IF x.rem >= den * bit THEN [quot |-> x.quot + bit, rem |-> x.rem - den * bit] ELSE x

LEMMA DivStepIn ==
  ASSUME NEW x \in DivStates, NEW den \in Nat \ {0}, NEW bit \in Nat
  PROVE  DivStep(x, den, bit) \in DivStates
<1>1. PICK p \in Nat : p = den * bit
  BY Product
<1>2. QED
  BY <1>1 DEF DivStep, DivStates

LEMMA DivStepIs ==
  ASSUME NEW x \in DivStates, NEW den \in Nat \ {0}, NEW bit \in Nat, NEW num \in Nat,
         num = den * x.quot + x.rem, x.rem < den * (2 * bit),
         NEW y, y = DivStep(x, den, bit)
  PROVE  y \in DivStates /\ num = den * y.quot + y.rem /\ y.rem < den * bit
<1>1. PICK p \in Nat : p = den * bit
  BY Product
<1>2. PICK q \in Nat, r \in Nat : q = x.quot /\ r = x.rem /\ x = [quot |-> q, rem |-> r]
  BY DEF DivStates
<1>3. den * (2 * bit) = 2 * p
  BY <1>1
<1>4. CASE r >= p
  <2>1. y = [quot |-> q + bit, rem |-> r - p]
    BY <1>1, <1>2, <1>4 DEF DivStep
  <2>2. PICK s \in Nat, t \in Nat : s = q + bit /\ t = r - p
    BY <1>4
  <2>3. den * s = den * q + p
    BY <1>1, <2>2
  <2>4. num = den * s + t
    BY <1>2, <2>2, <2>3
  <2>5. t < p
    BY <1>2, <1>3, <2>2
  <2>6. y.quot = s /\ y.rem = t /\ y \in DivStates
    BY <2>1, <2>2 DEF DivStates
  <2>7. QED
    BY <1>1, <2>4, <2>5, <2>6
<1>5. CASE ~(r >= p)
  <2>1. y = x
    BY <1>1, <1>2, <1>5 DEF DivStep
  <2>2. x.rem < den * bit
    BY <1>1, <1>2, <1>5
  <2>3. QED
    BY <2>1, <2>2
<1>6. QED
  BY <1>4, <1>5

(* Shift and subtract divides.                                             *)
LEMMA DividedIs ==
  ASSUME NEW n \in 0..(2 * W - 1), NEW num \in Nat, NEW den \in Nat \ {0},
         num < den * Power[n + 1]
  PROVE  Divided(num, den, n) = [quot |-> num \div den, rem |-> num % den]
<1>0. W \in Nat \ {0} /\ n + 1 \in Nat /\ 0 \in Nat /\ 0 <= n + 1 /\ n + 1 \in 0..(2 * W)
  BY ArithmeticAssumption
<1>1. \A k \in 1..(n + 1) : Power[n + 1 - k] \in Nat \ {0}
                           /\ Power[n + 1 - (k - 1)] = 2 * Power[n + 1 - k]
  <2> SUFFICES ASSUME NEW k \in 1..(n + 1)
               PROVE  Power[n + 1 - k] \in Nat \ {0}
                      /\ Power[n + 1 - (k - 1)] = 2 * Power[n + 1 - k]
    OBVIOUS
  <2>1. PICK j \in Nat : j = n + 1 - k
    BY <1>0
  <2>2. n + 1 - (k - 1) = j + 1 /\ j + 1 \in 1..(2 * W) /\ j \in 0..(2 * W) /\ (j + 1) - 1 = j
    BY <1>0, <2>1
  <2>3. Power[j + 1] = 2 * Power[j] /\ Power[j] \in Nat \ {0}
    BY <2>2, PowerNext
  <2>4. QED
    BY <2>1, <2>2, <2>3
<1> DEFINE start == [quot |-> 0, rem |-> num]
           Step(k, x) == DivStep(x, den, Power[n + 1 - k])
           g == [k \in 1..(n + 1) |-> [x \in DivStates |-> Step(k, x)]]
           Is(h) == h = [i \in 0..(n + 1) |->
                           IF i = 0 THEN [quot |-> 0, rem |-> num]
                           ELSE IF h[i - 1].rem >= den * Power[n + 1 - i]
                                THEN [quot |-> h[i - 1].quot + Power[n + 1 - i],
                                      rem |-> h[i - 1].rem - den * Power[n + 1 - i]]
                                ELSE h[i - 1]]
<1>2. Divided(num, den, n) = (CHOOSE h : Is(h))[n + 1]
  BY Zenon DEF Divided
<1>3. \A h : Is(h) <=> h = [i \in 0..(n + 1) |-> IF i = 0 THEN start ELSE Step(i, h[i - 1])]
  BY Zenon DEF DivStep
<1>4. ASSUME NEW k \in 1..(n + 1), NEW x \in DivStates
      PROVE  Step(k, x) \in DivStates /\ g[k][x] = Step(k, x)
  <2>1. PICK bit \in Nat : bit = Power[n + 1 - k]
    BY <1>1
  <2>2. DivStep(x, den, bit) \in DivStates
    BY <2>1, DivStepIn
  <2>3. QED
    BY <2>1, <2>2
<1>5. start \in DivStates
  BY DEF DivStates
<1> HIDE DEF g, start, Step, Is
<1>6. \A k \in (0 + 1)..(n + 1) : \A x \in DivStates : g[k][x] \in DivStates
  BY <1>4
<1>7. PICK f \in [0..(n + 1) -> DivStates] : Rows(f, 0, n + 1, start, g)
  BY <1>0, <1>5, <1>6, RowsExist
<1>8. \A i \in 0..(n + 1) : f[i] = IF i = 0 THEN start ELSE Step(i, f[i - 1])
  <2> SUFFICES ASSUME NEW i \in 0..(n + 1)
               PROVE  f[i] = IF i = 0 THEN start ELSE Step(i, f[i - 1])
    OBVIOUS
  <2>1. f[i] = IF i = 0 THEN start ELSE g[i][f[i - 1]]
    BY <1>7 DEF Rows
  <2>2. i # 0 => i \in 1..(n + 1) /\ i - 1 \in 0..(n + 1)
    BY <1>0
  <2>3. QED
    BY <1>4, <2>1, <2>2
<1>9. Is(f)
  <2>1. f = [i \in 0..(n + 1) |-> IF i = 0 THEN start ELSE Step(i, f[i - 1])]
    BY <1>8
  <2>2. QED
    BY <1>3, <2>1
<1>10. PICK h : h = CHOOSE v : Is(v)
  OBVIOUS
<1>11. h = [i \in 0..(n + 1) |-> IF i = 0 THEN start ELSE Step(i, h[i - 1])]
  <2>1. Is(h)
    BY <1>9, <1>10
  <2>2. QED
    BY <1>3, <2>1
<1>12. \A i \in 0..(n + 1) : h[i] = IF i = 0 THEN start ELSE Step(i, h[i - 1])
  BY <1>11
<1> DEFINE T == {i \in 0..(n + 1) :
                   /\ h[i] \in DivStates
                   /\ num = den * h[i].quot + h[i].rem
                   /\ h[i].rem < den * Power[n + 1 - i]}
<1>13. 0 \in T
  <2>1. h[0] = start /\ n + 1 - 0 = n + 1
    BY <1>0, <1>12
  <2>2. start.quot = 0 /\ start.rem = num
    BY DEF start
  <2>3. num = den * 0 + num
    OBVIOUS
  <2>4. QED
    BY <1>0, <1>5, <2>1, <2>2, <2>3
<1>14. ASSUME NEW k \in 1..(n + 1), k - 1 \in T PROVE k \in T
  <2>1. PICK x : x = h[k - 1]
    OBVIOUS
  <2>2. PICK bit \in Nat : bit = Power[n + 1 - k] /\ Power[n + 1 - (k - 1)] = 2 * bit
    BY <1>1
  <2>3. x \in DivStates /\ num = den * x.quot + x.rem /\ x.rem < den * (2 * bit)
    BY <1>14, <2>1, <2>2
  <2>4. PICK y : y = DivStep(x, den, bit)
    OBVIOUS
  <2>5. y \in DivStates /\ num = den * y.quot + y.rem /\ y.rem < den * bit
    BY <2>3, <2>4, DivStepIs
  <2>6. h[k] = y
    BY <1>12, <2>1, <2>2, <2>4 DEF Step
  <2>7. QED
    BY <2>2, <2>5, <2>6
<1>15. n + 1 \in T
  <2> HIDE DEF T
  <2>1. \A i \in 0..(n + 1) : i \in T
    BY <1>0, <1>13, <1>14, UpTo
  <2>2. n + 1 \in 0..(n + 1)
    BY <1>0
  <2>3. QED
    BY <2>1, <2>2
<1>16. PICK q \in Nat, r \in Nat : h[n + 1] = [quot |-> q, rem |-> r]
                                 /\ num = den * q + r /\ r < den * Power[n + 1 - (n + 1)]
  BY <1>15 DEF DivStates
<1>17. Power[n + 1 - (n + 1)] = 1
  BY <1>0, PowerNext
<1>18. r \in 0..(den - 1)
  BY <1>16, <1>17
<1>19. num \div den = q /\ num % den = r
  BY <1>16, <1>18, DivUnique
<1>20. QED
  BY <1>2, <1>10, <1>16, <1>19

LEMMA MinIn ==
  ASSUME NEW S \in SUBSET Nat, S # {}
  PROVE  Min(S) \in S
<1>1. PICK x \in S : \A y \in S : x <= y
  BY LeastNatural
<1>2. S \in SUBSET Int
  OBVIOUS
<1>3. Min(S) = x
  BY <1>1, <1>2, LeastIs
<1>4. QED
  BY <1>3

LEMMA UdivmodIs ==
  ASSUME NEW n \in {W, 2 * W}, NEW num \in 0..(Power[n] - 1), NEW den \in Nat \ {0},
         NEW S \in SUBSET (0..(n - 1)),
         \A k \in 0..(n - 1) : 2 * den * Power[k] >= Power[n] => k \in S,
         \A k \in S : den * Power[k] >= num \/ 2 * den * Power[k] >= Power[n]
  PROVE  Divided(num, den, Min(S)) = [quot |-> num \div den, rem |-> num % den]
<1>0. n \in Nat \ {0} /\ n - 1 \in 0..(n - 1) /\ n - 1 \in 0..(2 * W - 1) /\ n \in 1..(2 * W)
      /\ S \in SUBSET Nat /\ n - 1 \in 0..(2 * W)
  BY Sizes
<1>1. n - 1 \in S
  <2>1. PICK p \in Nat \ {0} : p = Power[n - 1] /\ Power[n] = 2 * p
    BY <1>0, PowerNext
  <2>2. den * (2 * p) >= 2 * p
    <3>1. 2 * p \in Nat /\ 2 * p # 0
      BY <2>1
    <3>2. QED
      BY <3>1, Product
  <2>3. 2 * den * p = den * (2 * p)
    OBVIOUS
  <2>4. QED
    BY <1>0, <2>1, <2>2, <2>3
<1>2. PICK m \in 0..(n - 1) : m = Min(S) /\ m \in S
  BY <1>0, <1>1, MinIn
<1>3. m \in 0..(2 * W - 1) /\ m + 1 \in 1..(2 * W) /\ (m + 1) - 1 = m /\ m \in 0..(2 * W)
  BY <1>0, <1>2
<1>4. PICK p \in Nat \ {0} : p = Power[m] /\ Power[m + 1] = 2 * p
  BY <1>3, PowerNext
<1>5. PICK x \in Nat \ {0} : x = den * p
  BY Product
<1>6. 2 * den * p = 2 * x /\ den * (2 * p) = 2 * x
  BY <1>5
<1>7. x >= num \/ 2 * x >= Power[n]
  BY <1>2, <1>4, <1>5, <1>6
<1>8. Power[n] \in Nat /\ num \in Nat
  BY <1>0, PowerNext
<1>9. num < den * Power[m + 1]
  BY <1>4, <1>5, <1>6, <1>7, <1>8
<1>10. QED
  BY <1>2, <1>3, <1>8, <1>9, DividedIs

LEMMA Udivmodsi4Is ==
  ASSUME NEW num \in Words, NEW den \in Words, den # 0
  PROVE  Udivmodsi4(num, den) = [quot |-> num \div den, rem |-> num % den]
<1>1. PICK S : S = {n \in 0..(W - 1) : den * Power[n] >= num \/ 2 * den * Power[n] >= M}
  OBVIOUS
<1>2. num \in 0..(Power[W] - 1) /\ den \in Nat \ {0} /\ S \in SUBSET (0..(W - 1))
  BY <1>1, Sizes DEF M
<1>3. Udivmodsi4(num, den) = Divided(num, den, Min(S))
  BY <1>1, Zenon DEF Udivmodsi4
<1>4. /\ \A k \in 0..(W - 1) : 2 * den * Power[k] >= Power[W] => k \in S
      /\ \A k \in S : den * Power[k] >= num \/ 2 * den * Power[k] >= Power[W]
  BY <1>1 DEF M
<1>5. QED
  BY <1>2, <1>3, <1>4, UdivmodIs

LEMMA Udivmoddi4Is ==
  ASSUME NEW num \in 0..(M * M - 1), NEW den \in 0..(M * M - 1), den # 0
  PROVE  Udivmoddi4(num, den) = [quot |-> num \div den, rem |-> num % den]
<1>1. PICK S : S = {n \in 0..(2 * W - 1) : 2 * den * Power[n] >= M * M}
  OBVIOUS
<1>2. M * M = Power[2 * W] /\ num \in 0..(Power[2 * W] - 1) /\ den \in Nat \ {0}
      /\ S \in SUBSET (0..(2 * W - 1))
  BY <1>1, Sizes
<1>3. Udivmoddi4(num, den) = Divided(num, den, Min(S))
  BY <1>1, Zenon DEF Udivmoddi4
<1>4. /\ \A k \in 0..(2 * W - 1) : 2 * den * Power[k] >= Power[2 * W] => k \in S
      /\ \A k \in S : den * Power[k] >= num \/ 2 * den * Power[k] >= Power[2 * W]
  BY <1>1, <1>2
<1>5. QED
  BY <1>2, <1>3, <1>4, UdivmodIs

(* The integer that n bits stand for.                                      *)
LEMMA SignedIs ==
  ASSUME NEW n \in {W, 2 * W}, NEW w \in 0..(Power[n] - 1)
  PROVE  /\ Power[n] \in Nat \ {0}
         /\ Signed(w, n) \in Int /\ Magnitude(w, n) = Size(Signed(w, n))
         /\ Negative(w, n) <=> Signed(w, n) < 0
         /\ Size(Signed(w, n)) \in 0..(Power[n] - 1)
         /\ w # 0 => Size(Signed(w, n)) # 0
<1>0. n \in 1..(2 * W) /\ n \in 0..(2 * W) /\ n - 1 \in 0..(2 * W)
  BY Sizes
<1>1. PICK h \in Nat \ {0} : h = Power[n - 1] /\ Power[n] = 2 * h
  BY <1>0, PowerNext
<1>2. Signed(w, n) = IF w < h THEN w ELSE w - 2 * h
  BY <1>1 DEF Signed
<1>3. PICK s \in Int : s = Signed(w, n)
  BY <1>1, <1>2
<1>4. CASE w < h
  <2>1. s = w /\ ~(s < 0)
    BY <1>1, <1>2, <1>3, <1>4
  <2>2. Magnitude(w, n) = w /\ Size(s) = w
    BY <1>3, <2>1 DEF Magnitude, Negative, Size
  <2>3. QED
    BY <1>1, <1>3, <2>1, <2>2 DEF Negative
<1>5. CASE ~(w < h)
  <2>1. s = w - 2 * h /\ s < 0
    BY <1>1, <1>2, <1>3, <1>5
  <2>2. PICK k \in 0..(2 * h - 1) : k = 2 * h - w
    BY <1>1, <1>5
  <2>3. Negated(w, n) = k
    <3>1. -w = (2 * h) * (-1) + k
      BY <1>1, <2>2
    <3>2. 2 * h \in Nat \ {0}
      BY <1>1
    <3>3. ((2 * h) * (-1) + k) % (2 * h) = k
      BY <3>2, DivUnique
    <3>4. QED
      BY <1>1, <3>1, <3>3 DEF Negated, Bits
  <2>4. Magnitude(w, n) = k /\ Size(s) = k
    BY <1>3, <2>1, <2>2, <2>3 DEF Magnitude, Negative, Size
  <2>5. k # 0
    BY <1>1, <2>2
  <2>6. QED
    BY <1>1, <1>3, <2>1, <2>4, <2>5 DEF Negative
<1>6. QED
  BY <1>4, <1>5

(* Quotient and remainder of signed integers by those of their sizes.      *)
LEMMA QuotientIs ==
  ASSUME NEW n, NEW p \in Nat \ {0}, p = Power[n],
         NEW x \in 0..(p - 1), NEW y \in 0..(p - 1), NEW i \in Int, NEW j \in Int,
         x = Size(i), y = Size(j), y # 0
  PROVE  /\ (IF (i < 0) # (j < 0) THEN Negated(x \div y, n) ELSE x \div y) = Bits(Quotient(i, j), n)
         /\ (IF i < 0 THEN Negated(x % y, n) ELSE x % y) = Bits(Remainder(i, j), n)
<1>0. x \in Nat /\ x \in Int /\ y \in Nat \ {0}
  OBVIOUS
<1>1. PICK q \in Nat, r \in 0..(y - 1) : q = x \div y /\ r = x % y /\ x = y * q + r
  <2>1. x \div y \in Nat /\ x % y \in 0..(y - 1) /\ x = y * (x \div y) + (x % y)
    BY <1>0, DivIs
  <2>2. QED
    BY <2>1
<1>2. q \in 0..(p - 1) /\ r \in 0..(p - 1)
  <2>1. q = 0 \/ y * q >= q
    BY <1>0, Product
  <2>2. PICK z \in Nat : z = y * q
    BY <1>0, Product
  <2>3. x = z + r
    BY <1>1, <2>2
  <2>4. QED
    BY <1>0, <2>1, <2>2, <2>3
<1>3. Bits(q, n) = q /\ Bits(r, n) = r
  BY <1>0, <1>2 DEF Bits
<1>4. Quotient(i, j) = IF (i < 0) # (j < 0) THEN -q ELSE q
  BY <1>1 DEF Quotient
<1>5. (IF (i < 0) # (j < 0) THEN Negated(x \div y, n) ELSE x \div y) = Bits(Quotient(i, j), n)
  BY <1>1, <1>3, <1>4 DEF Negated
<1>6. Remainder(i, j) = IF i < 0 THEN -r ELSE r
  <2>1. PICK k \in Nat : k = y * q
    BY <1>0, Product
  <2>2. x = IF i < 0 THEN -i ELSE i
    BY DEF Size
  <2>3. y = IF j < 0 THEN -j ELSE j
    BY DEF Size
  <2>4. j * Quotient(i, j) = IF i < 0 THEN -k ELSE k
    <3>1. CASE i < 0 /\ j < 0
      <4>1. j = -y /\ Quotient(i, j) = q
        BY <1>4, <2>3, <3>1
      <4>2. QED
        BY <2>1, <3>1, <4>1
    <3>2. CASE i < 0 /\ ~(j < 0)
      <4>1. j = y /\ Quotient(i, j) = -q
        BY <1>4, <2>3, <3>2
      <4>2. QED
        BY <2>1, <3>2, <4>1
    <3>3. CASE ~(i < 0) /\ j < 0
      <4>1. j = -y /\ Quotient(i, j) = -q
        BY <1>4, <2>3, <3>3
      <4>2. QED
        BY <2>1, <3>3, <4>1
    <3>4. CASE ~(i < 0) /\ ~(j < 0)
      <4>1. j = y /\ Quotient(i, j) = q
        BY <1>4, <2>3, <3>4
      <4>2. QED
        BY <2>1, <3>4, <4>1
    <3>5. QED
      BY <3>1, <3>2, <3>3, <3>4
  <2>5. PICK z : z = j * Quotient(i, j)
    OBVIOUS
  <2>6. Remainder(i, j) = i - z
    BY <2>5 DEF Remainder
  <2>7. x = k + r
    BY <1>1, <2>1
  <2>8. QED
    BY <2>1, <2>2, <2>4, <2>5, <2>6, <2>7
<1>7. QED
  BY <1>1, <1>3, <1>5, <1>6 DEF Negated

LEMMA DivParts ==
  ASSUME NEW x \in Nat, NEW d \in Nat \ {0}
  PROVE  \E q \in Nat, r \in 0..(d - 1) : q = x \div d /\ r = x % d /\ x = d * q + r
<1>1. x \in Int
  OBVIOUS
<1>2. x \div d \in Nat /\ x % d \in 0..(d - 1) /\ x = d * (x \div d) + (x % d)
  BY <1>1, DivIs
<1>3. QED
  BY <1>2

LEMMA Halves ==
  ASSUME NEW h \in Nat, NEW ah \in Nat, NEW al \in Nat, NEW bh \in Nat, NEW bl \in Nat
  PROVE  (h * ah + al) * (h * bh + bl)
           = h * h * (ah * bh) + h * (ah * bl) + h * (bh * al) + al * bl
<1>1. PICK x \in Nat, y \in Nat : x = h * ah /\ y = h * bh
  BY Product
<1>2. (x + al) * (y + bl) = x * y + x * bl + al * y + al * bl
  OBVIOUS
<1>3. x * y = h * h * (ah * bh)
  BY <1>1
<1>4. x * bl = h * (ah * bl)
  BY <1>1
<1>5. al * y = h * (bh * al)
  BY <1>1
<1>6. QED
  BY <1>1, <1>2, <1>3, <1>4, <1>5

LEMMA WordDivision ==
  ASSUME NEW a \in Words, NEW b \in Words, b # 0
  PROVE  /\ Divsi3(a, b) = Bits(Quotient(Signed(a, W), Signed(b, W)), W)
         /\ Modsi3(a, b) = Bits(Remainder(Signed(a, W), Signed(b, W)), W)
<1>0. M = Power[W] /\ M \in Nat \ {0} /\ a \in 0..(Power[W] - 1) /\ b \in 0..(Power[W] - 1)
      /\ W \in {W, 2 * W}
  BY Sizes DEF M
<1>1. PICK i \in Int : i = Signed(a, W)
  BY <1>0, SignedIs
<1>2. PICK j \in Int : j = Signed(b, W)
  BY <1>0, SignedIs
<1>3. PICK x \in 0..(M - 1) : x = Magnitude(a, W) /\ x = Size(i)
  BY <1>0, <1>1, SignedIs
<1>4. PICK y \in 0..(M - 1) : y = Magnitude(b, W) /\ y = Size(j) /\ y # 0
  BY <1>0, <1>2, SignedIs
<1>5. (Negative(a, W) <=> i < 0) /\ (Negative(b, W) <=> j < 0)
  BY <1>0, <1>1, <1>2, SignedIs
<1>6. Udivmodsi4(x, y) = [quot |-> x \div y, rem |-> x % y]
  BY <1>0, <1>4, Udivmodsi4Is, Sizes
<1>7. /\ (IF (i < 0) # (j < 0) THEN Negated(x \div y, W) ELSE x \div y) = Bits(Quotient(i, j), W)
      /\ (IF i < 0 THEN Negated(x % y, W) ELSE x % y) = Bits(Remainder(i, j), W)
  BY <1>0, <1>3, <1>4, QuotientIs
<1>8. /\ Udivmodsi4(x, y).quot = x \div y
      /\ Udivmodsi4(x, y).rem = x % y
  BY <1>6
<1>9. Divsi3(a, b) = IF (i < 0) # (j < 0) THEN Negated(x \div y, W) ELSE x \div y
  <2>1. Negative(a, W) # Negative(b, W) <=> (i < 0) # (j < 0)
    BY <1>5 DEF Negative
  <2>2. Divsi3(a, b) = IF Negative(a, W) # Negative(b, W) THEN Negated(x \div y, W) ELSE x \div y
    BY <1>3, <1>4, <1>8, Zenon DEF Divsi3
  <2>3. QED
    BY <2>1, <2>2, Zenon
<1>10. Modsi3(a, b) = IF i < 0 THEN Negated(x % y, W) ELSE x % y
  BY <1>3, <1>4, <1>5, <1>8, Zenon DEF Modsi3
<1>11. QED
  BY <1>1, <1>2, <1>7, <1>9, <1>10, Zenon

LEMMA DwordDivision ==
  ASSUME NEW a \in 0..(M * M - 1), NEW b \in 0..(M * M - 1), b # 0
  PROVE  /\ Divdi3(a, b) = Bits(Quotient(Signed(a, 2 * W), Signed(b, 2 * W)), 2 * W)
         /\ ~Negative(b, 2 * W) =>
              Moddi3(a, b) = Bits(Remainder(Signed(a, 2 * W), Signed(b, 2 * W)), 2 * W)
<1>0. PICK p \in Nat \ {0} : p = Power[2 * W] /\ p = M * M
  <2>1. M * M \in Nat /\ M * M # 0
    BY Sizes, Product
  <2>2. QED
    BY <2>1, Sizes
<1>a. /\ a \in 0..(Power[2 * W] - 1) /\ b \in 0..(Power[2 * W] - 1)
      /\ 2 * W \in {W, 2 * W}
  BY <1>0
<1>1. PICK i \in Int : i = Signed(a, 2 * W)
  BY <1>a, SignedIs
<1>2. PICK j \in Int : j = Signed(b, 2 * W)
  BY <1>a, SignedIs
<1>3. PICK x \in 0..(p - 1) : x = Magnitude(a, 2 * W) /\ x = Size(i)
  BY <1>0, <1>a, <1>1, SignedIs
<1>4. PICK y \in 0..(p - 1) : y = Magnitude(b, 2 * W) /\ y = Size(j) /\ y # 0
  BY <1>0, <1>a, <1>2, SignedIs
<1>5. (Negative(a, 2 * W) <=> i < 0) /\ (Negative(b, 2 * W) <=> j < 0)
  BY <1>a, <1>1, <1>2, SignedIs
<1>6. Udivmoddi4(x, y) = [quot |-> x \div y, rem |-> x % y]
  BY <1>0, <1>4, Udivmoddi4Is
<1>7. /\ (IF (i < 0) # (j < 0) THEN Negated(x \div y, 2 * W) ELSE x \div y)
           = Bits(Quotient(i, j), 2 * W)
      /\ (IF i < 0 THEN Negated(x % y, 2 * W) ELSE x % y) = Bits(Remainder(i, j), 2 * W)
  BY <1>0, <1>3, <1>4, QuotientIs
<1>8. /\ Udivmoddi4(x, y).quot = x \div y
      /\ Udivmoddi4(x, y).rem = x % y
  BY <1>6
<1>9. Divdi3(a, b) = IF (i < 0) # (j < 0) THEN Negated(x \div y, 2 * W) ELSE x \div y
  <2>1. Negative(a, 2 * W) # Negative(b, 2 * W) <=> (i < 0) # (j < 0)
    BY <1>5 DEF Negative
  <2>2. Divdi3(a, b) = IF Negative(a, 2 * W) # Negative(b, 2 * W)
                       THEN Negated(x \div y, 2 * W) ELSE x \div y
    BY <1>3, <1>4, <1>8, Zenon DEF Divdi3
  <2>3. QED
    BY <2>1, <2>2, Zenon
<1>10. ASSUME ~Negative(b, 2 * W)
       PROVE  Moddi3(a, b) = IF i < 0 THEN Negated(x % y, 2 * W) ELSE x % y
  <2>1. (Negative(a, 2 * W) # Negative(b, 2 * W)) <=> i < 0
    BY <1>5, <1>10 DEF Negative
  <2>2. Moddi3(a, b) = IF Negative(a, 2 * W) # Negative(b, 2 * W)
                       THEN Negated(x % y, 2 * W) ELSE x % y
    BY <1>3, <1>4, <1>8, Zenon DEF Moddi3
  <2>3. QED
    BY <2>1, <2>2
<1>11. QED
  BY <1>1, <1>2, <1>7, <1>9, <1>10

LEMMA CalcDiffTimeIs ==
  ASSUME NEW a \in Words, NEW b \in Words
  PROVE  CalcDiffTime(a, b) = ((a - b) % M) - (IF a < b THEN 1 ELSE 0)
<1>1. M \in Nat \ {0} /\ a \in 0..(M - 1) /\ b \in 0..(M - 1)
  BY Sizes
<1>2. CASE a >= b
  <2>1. PICK k \in 0..(M - 1) : k = a - b /\ a - b = M * 0 + k
    BY <1>1, <1>2
  <2>2. (a - b) % M = k
    <3>1. (M * 0 + k) % M = k
      BY <1>1, DivUnique
    <3>2. QED
      BY <2>1, <3>1
  <2>3. QED
    BY <1>1, <1>2, <2>1, <2>2 DEF CalcDiffTime
<1>3. CASE a < b
  <2>1. PICK k \in 0..(M - 1) : k = M - (b - a) /\ a - b = M * (-1) + k
    BY <1>1, <1>3
  <2>2. (a - b) % M = k
    <3>1. (M * (-1) + k) % M = k
      BY <1>1, DivUnique
    <3>2. QED
      BY <2>1, <3>1
  <2>3. QED
    BY <1>1, <1>3, <2>1, <2>2 DEF CalcDiffTime
<1>4. QED
  BY <1>1, <1>2, <1>3

LEMMA Carries ==
  ASSUME NEW h \in Nat, NEW p \in Nat, NEW q \in Nat, NEW r \in Nat, NEW l \in Nat,
         NEW lh \in Nat, NEW ll \in Nat, NEW t1 \in Nat, NEW t1h \in Nat, NEW t1l \in Nat,
         NEW t2 \in Nat, NEW t2h \in Nat, NEW t2l \in Nat,
         l = h * lh + ll, t1 = lh + q, t1 = h * t1h + t1l, t2 = t1l + r, t2 = h * t2h + t2l
  PROVE  h * h * p + h * q + h * r + l = (t1h + t2h + p) * (h * h) + ll + t2l * h
<1>1. h * t1 = h * lh + h * q /\ h * t1 = h * (h * t1h) + h * t1l
  OBVIOUS
<1>2. h * t2 = h * t1l + h * r /\ h * t2 = h * (h * t2h) + h * t2l
  OBVIOUS
<1>3. (t1h + t2h + p) * (h * h) = h * (h * t1h) + h * (h * t2h) + h * h * p
  OBVIOUS
<1>4. /\ h * t1 \in Nat /\ h * lh \in Nat /\ h * q \in Nat /\ h * (h * t1h) \in Nat
      /\ h * t1l \in Nat /\ h * t2 \in Nat /\ h * r \in Nat /\ h * (h * t2h) \in Nat
      /\ h * t2l \in Nat /\ h * h * p \in Nat
  BY Product
<1>5. t2l * h = h * t2l
  OBVIOUS
<1> DEFINE A1 == h * lh
           A2 == h * q
           A3 == h * (h * t1h)
           A4 == h * t1l
           A5 == h * r
           A6 == h * (h * t2h)
           A7 == h * t2l
           A8 == h * h * p
           B == (t1h + t2h + p) * (h * h)
<1>6. A1 + A2 = A3 + A4 /\ A4 + A5 = A6 + A7 /\ B = A3 + A6 + A8
  BY <1>1, <1>2, <1>3
<1>7. A1 \in Nat /\ A2 \in Nat /\ A3 \in Nat /\ A4 \in Nat /\ A5 \in Nat /\ A6 \in Nat
      /\ A7 \in Nat /\ A8 \in Nat
  BY <1>4
<1>8. SUFFICES A8 + A2 + A5 + (A1 + ll) = B + ll + A7
  BY <1>5
<1> HIDE DEF A1, A2, A3, A4, A5, A6, A7, A8, B
<1>9. QED
  BY <1>6, <1>7

(* The product of two words, by halves.                                    *)
LEMMA Muldsi3Is ==
  ASSUME NEW a \in Words, NEW b \in Words
  PROVE  Muldsi3(a, b) = a * b
<1>0. W \div 2 \in 0..(2 * W) /\ (W \div 2) + (W \div 2) = W /\ W \div 2 \in Nat /\ W <= 2 * W
  BY ArithmeticAssumption
<1>1. PICK h \in Nat \ {0} : h = Power[W \div 2] /\ M = h * h
  BY <1>0, PowerNext, PowerSum DEF M
<1>2. a \in Nat /\ b \in Nat
  BY Sizes
<1>3. PICK ah \in Nat, al \in 0..(h - 1) : ah = a \div h /\ al = a % h /\ a = h * ah + al
  BY <1>2, DivParts
<1>4. PICK bh \in Nat, bl \in 0..(h - 1) : bh = b \div h /\ bl = b % h /\ b = h * bh + bl
  BY <1>2, DivParts
<1>5. PICK l \in Nat : l = al * bl
  BY Product
<1>6. PICK lh \in Nat, ll \in 0..(h - 1) : lh = l \div h /\ ll = l % h /\ l = h * lh + ll
  BY DivParts
<1>7. PICK t1 \in Nat : t1 = lh + ah * bl
  BY Product
<1>8. PICK t1h \in Nat, t1l \in 0..(h - 1) : t1h = t1 \div h /\ t1l = t1 % h /\ t1 = h * t1h + t1l
  BY DivParts
<1>9. PICK m \in Nat : m = ll + t1l * h
  BY Product
<1>10. m \div h = t1l /\ m % h = ll
  <2>1. m = h * t1l + ll
    BY <1>9
  <2>2. QED
    BY <2>1, DivUnique
<1>11. PICK t2 \in Nat : t2 = t1l + bh * al
  BY Product
<1>12. PICK t2h \in Nat, t2l \in 0..(h - 1) : t2h = t2 \div h /\ t2l = t2 % h /\ t2 = h * t2h + t2l
  BY DivParts
<1>13. Muldsi3(a, b) = (t1h + t2h + ah * bh) * M + ll + t2l * h
  <2> DEFINE H == Power[W \div 2]
             L == (a % H) * (b % H)
             T1 == L \div H + (a \div H) * (b % H)
             MM == (L % H) + (T1 % H) * H
             T2 == MM \div H + (b \div H) * (a % H)
  <2>1. Muldsi3(a, b) = (T1 \div H + T2 \div H + (a \div H) * (b \div H)) * M + (MM % H) + (T2 % H) * H
    BY Zenon DEF Muldsi3
  <2>2. L = l
    BY <1>1, <1>3, <1>4, <1>5, Zenon
  <2>3. T1 = t1
    BY <1>1, <1>3, <1>4, <1>6, <1>7, <2>2, Zenon
  <2>4. MM = m
    BY <1>1, <1>6, <1>8, <1>9, <2>2, <2>3, Zenon
  <2>5. T2 = t2
    BY <1>1, <1>3, <1>4, <1>10, <1>11, <2>4, Zenon
  <2>6. QED
    BY <1>1, <1>3, <1>4, <1>8, <1>10, <1>12, <2>1, <2>3, <2>4, <2>5, Zenon
<1>14. QED
  <2>1. a = h * ah + al /\ b = h * bh + bl /\ ah \in Nat /\ al \in Nat /\ bh \in Nat /\ bl \in Nat
    BY <1>3, <1>4
  <2>2. PICK p \in Nat, q \in Nat, r \in Nat : p = ah * bh /\ q = ah * bl /\ r = bh * al
    BY <2>1, Product
  <2>h. h \in Nat
    OBVIOUS
  <2>3. a * b = h * h * p + h * q + h * r + l
    <3>1. (h * ah + al) * (h * bh + bl)
            = h * h * (ah * bh) + h * (ah * bl) + h * (bh * al) + al * bl
      BY <2>1, <2>h, Halves
    <3>2. QED
      BY <1>5, <2>1, <2>2, <3>1, Zenon
  <2>4. /\ l = h * lh + ll /\ t1 = lh + q /\ t1 = h * t1h + t1l
        /\ t2 = t1l + r /\ t2 = h * t2h + t2l
    BY <1>6, <1>7, <1>8, <1>11, <1>12, <2>2, Zenon
  <2>5. ll \in Nat /\ t1l \in Nat /\ t2l \in Nat
    OBVIOUS
  <2>6. h * h * p + h * q + h * r + l = (t1h + t2h + p) * (h * h) + ll + t2l * h
    BY <2>4, <2>5, <2>h, Carries
  <2>7. QED
    BY <1>1, <1>13, <2>2, <2>3, <2>6, Zenon

MulIs(x, a, b, p) == x \in 0..(M - 1) /\ x = (a * (b % p)) % M
MulStep(x, a, b, p) == IF (b \div p) % 2 = 1 THEN (x + ((a * p) % M)) % M ELSE x

LEMMA MulStepIs ==
  ASSUME NEW a \in Nat, NEW b \in Nat, NEW p \in Nat \ {0}, NEW x, MulIs(x, a, b, p)
  PROVE  MulIs(MulStep(x, a, b, p), a, b, 2 * p)
<1>0. M \in Nat \ {0} /\ x \in 0..(M - 1) /\ x \in Int /\ x = (a * (b % p)) % M
  BY Sizes DEF MulIs
<1> SUFFICES MulStep(x, a, b, p) = (a * (b % (2 * p))) % M
  <2>1. 2 * p \in Nat \ {0} /\ b \in Int
    OBVIOUS
  <2>2. b % (2 * p) \in 0..(2 * p - 1)
    BY <2>1, DivIs
  <2>3. PICK c \in Int : c = b % (2 * p)
    BY <2>2
  <2>4. a * c \in Int
    OBVIOUS
  <2>5. (a * c) % M \in 0..(M - 1)
    BY <1>0, <2>4, DivIs
  <2>6. QED
    BY <2>3, <2>5, Zenon DEF MulIs
<1>1. PICK c \in Nat : c = b % p
  <2>1. b \in Int
    OBVIOUS
  <2>2. b % p \in 0..(p - 1)
    BY <2>1, DivIs
  <2>3. QED
    BY <2>2
<1>2. PICK bit \in 0..1 : bit = (b \div p) % 2
  <2>1. b \div p \in Int /\ 2 \in Nat \ {0}
    BY DivIs
  <2>2. (b \div p) % 2 \in 0..(2 - 1)
    BY <2>1, DivIs
  <2>3. QED
    BY <2>2
<1>3. b % (2 * p) = p * bit + c
  <2>1. b \in Int /\ 2 \in Nat \ {0}
    OBVIOUS
  <2>2. b % (p * 2) = p * ((b \div p) % 2) + (b % p)
    BY <2>1, DivDiv
  <2>3. p * 2 = 2 * p
    OBVIOUS
  <2>4. QED
    BY <1>1, <1>2, <2>2, <2>3, Zenon
<1>4. PICK ap \in Nat, ac \in Nat : ap = a * p /\ ac = a * c
  BY Product
<1>5. x = ac % M
  BY <1>0, <1>1, <1>4, Zenon
<1>6. CASE bit = 1
  <2>1. a * (p * bit + c) = ac + ap
    BY <1>4, <1>6
  <2>2. PICK y \in Int : y = ap % M
    BY <1>0
  <2>3. (x + y) % M = (ac + y) % M
    <3>1. ac \in Int /\ M \in Nat \ {0}
      BY <1>0
    <3>2. ((ac % M) + y) % M = (ac + y) % M
      BY <3>1, ModSum, Zenon
    <3>3. QED
      BY <1>5, <3>2, Zenon
  <2>4. (y + ac) % M = (ap + ac) % M
    <3>1. ac \in Int /\ ap \in Int /\ M \in Nat \ {0}
      BY <1>0
    <3>2. ((ap % M) + ac) % M = (ap + ac) % M
      BY <3>1, ModSum, Zenon
    <3>3. QED
      BY <2>2, <3>2, Zenon
  <2>5. y + ac = ac + y /\ ap + ac = ac + ap
    OBVIOUS
  <2>6. (x + y) % M = (ac + ap) % M
    BY <2>3, <2>4, <2>5, Zenon
  <2>7. MulStep(x, a, b, p) = (x + y) % M
    BY <1>2, <1>4, <1>6, <2>2, Zenon DEF MulStep
  <2>8. QED
    BY <1>3, <2>1, <2>6, <2>7, Zenon
<1>7. CASE bit = 0
  <2>1. a * (p * bit + c) = ac
    BY <1>4, <1>7
  <2>2. MulStep(x, a, b, p) = x
    BY <1>2, <1>7 DEF MulStep
  <2>3. QED
    BY <1>3, <1>5, <2>1, <2>2, Zenon
<1>8. QED
  BY <1>6, <1>7

(* Shift and add multiplies.                                               *)
LEMMA Mulsi3Is ==
  ASSUME NEW a \in Words, NEW b \in Words
  PROVE  Mulsi3(a, b) = (a * b) % M
<1>0. /\ W \in Nat \ {0} /\ 0 \in Nat /\ 0 <= W /\ M \in Nat \ {0}
      /\ a \in Nat /\ b \in 0..(M - 1) /\ b \in Nat /\ 0 \in Words /\ Words = 0..(M - 1)
  BY Sizes
<1>1. \A k \in 1..W : Power[k - 1] \in Nat \ {0} /\ Power[k] = 2 * Power[k - 1]
  <2> SUFFICES ASSUME NEW k \in 1..W
               PROVE  Power[k - 1] \in Nat \ {0} /\ Power[k] = 2 * Power[k - 1]
    OBVIOUS
  <2>1. k \in 1..(2 * W) /\ k - 1 \in 0..(2 * W)
    BY <1>0
  <2>2. QED
    BY <2>1, PowerNext
<1> DEFINE Step(k, x) == MulStep(x, a, b, Power[k - 1])
           g == [k \in 1..W |-> [x \in Words |-> Step(k, x)]]
           Is(h) == h = [i \in 0..W |->
                           IF i = 0 THEN 0
                           ELSE IF (b \div Power[i - 1]) % 2 = 1
                                THEN (h[i - 1] + ((a * Power[i - 1]) % M)) % M
                                ELSE h[i - 1]]
<1>2. Mulsi3(a, b) = (CHOOSE h : Is(h))[W]
  BY Zenon DEF Mulsi3
<1>3. \A h : Is(h) <=> h = [i \in 0..W |-> IF i = 0 THEN 0 ELSE Step(i, h[i - 1])]
  BY Zenon DEF MulStep
<1>4. ASSUME NEW k \in 1..W, NEW x \in Words
      PROVE  Step(k, x) \in Words /\ g[k][x] = Step(k, x)
  <2>1. PICK p \in Nat : p = Power[k - 1]
    BY <1>1
  <2>2. PICK q \in Int : q = (a * p) % M
    <3>1. a * p \in Int
      BY <1>0
    <3>2. (a * p) % M \in 0..(M - 1)
      BY <1>0, <3>1, DivIs
    <3>3. QED
      BY <3>2
  <2>3. (x + q) % M \in 0..(M - 1)
    <3>1. x + q \in Int
      BY <1>0
    <3>2. QED
      BY <1>0, <3>1, DivIs
  <2>4. MulStep(x, a, b, p) \in Words
    BY <1>0, <2>2, <2>3 DEF MulStep
  <2>5. QED
    BY <2>1, <2>4
<1> HIDE DEF g, Step, Is
<1>5. \A k \in (0 + 1)..W : \A x \in Words : g[k][x] \in Words
  BY <1>4
<1>6. PICK f \in [0..W -> Words] : Rows(f, 0, W, 0, g)
  BY <1>0, <1>5, RowsExist
<1>7. \A i \in 0..W : f[i] = IF i = 0 THEN 0 ELSE Step(i, f[i - 1])
  <2> SUFFICES ASSUME NEW i \in 0..W PROVE f[i] = IF i = 0 THEN 0 ELSE Step(i, f[i - 1])
    OBVIOUS
  <2>1. f[i] = IF i = 0 THEN 0 ELSE g[i][f[i - 1]]
    BY <1>6 DEF Rows
  <2>2. i # 0 => i \in 1..W /\ i - 1 \in 0..W
    BY <1>0
  <2>3. QED
    BY <1>4, <2>1, <2>2
<1>8. Is(f)
  <2>1. f = [i \in 0..W |-> IF i = 0 THEN 0 ELSE Step(i, f[i - 1])]
    BY <1>7
  <2>2. QED
    BY <1>3, <2>1
<1>9. PICK h : h = CHOOSE v : Is(v)
  OBVIOUS
<1>10. h = [i \in 0..W |-> IF i = 0 THEN 0 ELSE Step(i, h[i - 1])]
  <2>1. Is(h)
    BY <1>8, <1>9
  <2>2. QED
    BY <1>3, <2>1
<1>11. \A i \in 0..W : h[i] = IF i = 0 THEN 0 ELSE Step(i, h[i - 1])
  BY <1>10
<1> DEFINE T == {i \in 0..W : MulIs(h[i], a, b, Power[i])}
<1>12. 0 \in T
  <2>1. h[0] = 0 /\ Power[0] = 1
    BY <1>0, <1>11, PowerNext
  <2>2. b = 1 * b + 0 /\ 1 \in Nat \ {0} /\ 0 \in 0..(1 - 1) /\ b \in Int
    BY <1>0
  <2>3. (1 * b + 0) % 1 = 0
    BY <2>2, DivUnique
  <2>4. a * 0 = 0
    BY <1>0
  <2>5. 0 % M = 0
    <3>1. (M * 0 + 0) % M = 0
      BY <1>0, DivUnique
    <3>2. M * 0 + 0 = 0
      BY <1>0
    <3>3. QED
      BY <3>1, <3>2
  <2>6. b % Power[0] = 0
    BY <2>1, <2>2, <2>3
  <2>7. QED
    BY <1>0, <2>1, <2>4, <2>5, <2>6 DEF MulIs
<1>13. ASSUME NEW k \in 1..W, k - 1 \in T PROVE k \in T
  <2>1. PICK x : x = h[k - 1]
    OBVIOUS
  <2>2. PICK p \in Nat \ {0} : p = Power[k - 1] /\ Power[k] = 2 * p
    BY <1>1
  <2>3. MulIs(x, a, b, p)
    BY <1>13, <2>1, <2>2
  <2>4. MulIs(MulStep(x, a, b, p), a, b, 2 * p)
    BY <1>0, <2>3, MulStepIs
  <2>5. h[k] = MulStep(x, a, b, p)
    BY <1>0, <1>11, <2>1, <2>2 DEF Step
  <2>6. QED
    BY <2>2, <2>4, <2>5
<1>14. W \in T
  <2> HIDE DEF T
  <2>1. \A i \in 0..W : i \in T
    BY <1>0, <1>12, <1>13, UpTo
  <2>2. W \in 0..W
    BY <1>0
  <2>3. QED
    BY <2>1, <2>2
<1>15. b % M = b
  <2>1. PICK k \in 0..(M - 1) : k = b
    BY <1>0
  <2>2. (M * 0 + k) % M = k
    <3>1. 0 \in Int /\ M \in Nat \ {0}
      BY <1>0
    <3>2. QED
      BY <3>1, DivUnique, Zenon
  <2>3. M * 0 + k = k
    BY <1>0
  <2>4. QED
    BY <2>1, <2>2, <2>3
<1>16. h[W] = (a * (b % M)) % M
  BY <1>14 DEF M, MulIs
<1>17. QED
  BY <1>2, <1>9, <1>15, <1>16

LEMMA Scaled ==
  ASSUME NEW n \in Nat, NEW k \in Nat, NEW r \in Nat
  PROVE  n * (n * k + r) = (n * n) * k + n * r
OBVIOUS

LEMMA DwordParts ==
  ASSUME NEW d \in 0..(M * M - 1)
  PROVE  /\ Low(d) \in Words /\ High(d) \in Words
         /\ d = M * High(d) + Low(d)
<1>0. M \in Nat \ {0} /\ Words = 0..(M - 1) /\ d \in Nat
  <2>1. M \in Nat \ {0} /\ Words = 0..(M - 1)
    BY Sizes
  <2>2. PICK p \in Nat : p = M * M
    BY <2>1, Product
  <2>3. QED
    BY <2>1, <2>2
<1>1. PICK q \in Nat, r \in 0..(M - 1) : q = d \div M /\ r = d % M /\ d = M * q + r
  BY <1>0, DivParts
<1>2. q <= M - 1
  <2> SUFFICES ASSUME q >= M PROVE FALSE
    BY <1>0
  <2>1. PICK e \in Nat : q = M + e
    <3>1. q - M \in Nat /\ q = M + (q - M)
      BY <1>0
    <3>2. QED
      BY <3>1
  <2>2. M * q = M * M + M * e
    BY <1>0, <2>1
  <2>3. M * e \in Nat /\ M * M \in Nat /\ M * q \in Nat
    BY <1>0, Product
  <2>4. QED
    BY <1>0, <1>1, <2>2, <2>3
<1>3. QED
  BY <1>0, <1>1, <1>2 DEF Low, High

(* The product of two double words.                                        *)
LEMMA Muldi3Is ==
  ASSUME NEW a \in 0..(M * M - 1), NEW b \in 0..(M * M - 1)
  PROVE  Muldi3(a, b) = (a * b) % (M * M)
<1>0. PICK n \in Nat \ {0} : n = M /\ Words = 0..(n - 1)
  BY Sizes
<1>1. PICK ah \in 0..(n - 1), al \in 0..(n - 1) : ah = High(a) /\ al = Low(a) /\ a = n * ah + al
  BY <1>0, DwordParts
<1>2. PICK bh \in 0..(n - 1), bl \in 0..(n - 1) : bh = High(b) /\ bl = Low(b) /\ b = n * bh + bl
  BY <1>0, DwordParts
<1>3. PICK p \in Nat, q \in Nat, r \in Nat, l \in Nat :
        p = ah * bh /\ q = ah * bl /\ r = bh * al /\ l = al * bl
  BY Product
<1>4. Muldsi3(al, bl) = l /\ Mulsi3(ah, bl) = q % n /\ Mulsi3(al, bh) = r % n
  <2>1. al * bh = bh * al
    OBVIOUS
  <2>2. al \in Words /\ bl \in Words /\ ah \in Words /\ bh \in Words
    BY <1>0
  <2>3. Muldsi3(al, bl) = al * bl
    BY <2>2, Muldsi3Is
  <2>4. Mulsi3(ah, bl) = (ah * bl) % M
    BY <2>2, Mulsi3Is
  <2>5. Mulsi3(al, bh) = (al * bh) % M
    BY <2>2, Mulsi3Is
  <2>6. QED
    BY <1>0, <1>3, <2>1, <2>3, <2>4, <2>5, Zenon
<1>5. PICK lh \in Nat, ll \in 0..(n - 1) : lh = l \div n /\ ll = l % n /\ l = n * lh + ll
  BY DivParts
<1>6. PICK qd \in Nat, qm \in 0..(n - 1) : qd = q \div n /\ qm = q % n /\ q = n * qd + qm
  BY DivParts
<1>7. PICK rd \in Nat, rm \in 0..(n - 1) : rd = r \div n /\ rm = r % n /\ r = n * rd + rm
  BY DivParts
<1>8. PICK s \in Nat : s = lh + qm + rm
  OBVIOUS
<1>9. PICK sd \in Nat, sm \in 0..(n - 1) : sd = s \div n /\ sm = s % n /\ s = n * sd + sm
  BY DivParts
<1>10. Muldi3(a, b) = sm * n + ll
  <2>1. High(l) = lh /\ Low(l) = ll
    BY <1>0, <1>5 DEF High, Low
  <2>2. Muldi3(a, b) = ((High(l) + (q % n) + (r % n)) % M) * M + Low(l)
    BY <1>1, <1>2, <1>4, Zenon DEF Muldi3
  <2>3. QED
    BY <1>0, <1>6, <1>7, <1>8, <1>9, <2>1, <2>2, Zenon
<1>11. PICK nn \in Nat \ {0} : nn = n * n
  BY Product
<1>12. PICK k \in Nat : k = p + qd + rd + sd
  OBVIOUS
<1>13. a * b = nn * k + (n * sm + ll)
  <2>1. a * b = n * n * p + n * q + n * r + l
    <3>1. n \in Nat /\ ah \in Nat /\ al \in Nat /\ bh \in Nat /\ bl \in Nat
      OBVIOUS
    <3>2. (n * ah + al) * (n * bh + bl)
            = n * n * (ah * bh) + n * (ah * bl) + n * (bh * al) + al * bl
      BY <3>1, Halves
    <3>3. QED
      BY <1>1, <1>2, <1>3, <3>2, Zenon
  <2>2. n * q = nn * qd + n * qm
    <3>1. n \in Nat /\ qm \in Nat
      OBVIOUS
    <3>2. n * (n * qd + qm) = (n * n) * qd + n * qm
      BY <3>1, Scaled
    <3>3. QED
      BY <1>6, <1>11, <3>2, Zenon
  <2>3. n * r = nn * rd + n * rm
    <3>1. n \in Nat /\ rm \in Nat
      OBVIOUS
    <3>2. n * (n * rd + rm) = (n * n) * rd + n * rm
      BY <3>1, Scaled
    <3>3. QED
      BY <1>7, <1>11, <3>2, Zenon
  <2>4. n * n * p = nn * p
    BY <1>11
  <2>5. n * s = n * lh + n * qm + n * rm
    BY <1>8
  <2>6. n * s = nn * sd + n * sm
    <3>1. n \in Nat /\ sm \in Nat
      OBVIOUS
    <3>2. n * (n * sd + sm) = (n * n) * sd + n * sm
      BY <3>1, Scaled
    <3>3. QED
      BY <1>9, <1>11, <3>2, Zenon
  <2>7. nn * k = nn * p + nn * qd + nn * rd + nn * sd
    BY <1>12
  <2> DEFINE A1 == n * q
             A2 == n * r
             A3 == n * n * p
             A4 == n * s
             A5 == n * lh
             A6 == n * qm
             A7 == n * rm
             A8 == n * sm
             B1 == nn * qd
             B2 == nn * rd
             B3 == nn * p
             B4 == nn * sd
             B5 == nn * k
             C == a * b
  <2>8. /\ C = A3 + A1 + A2 + l /\ A1 = B1 + A6 /\ A2 = B2 + A7 /\ A3 = B3
        /\ A4 = A5 + A6 + A7 /\ A4 = B4 + A8 /\ B5 = B3 + B1 + B2 + B4 /\ l = A5 + ll
    BY <1>5, <2>1, <2>2, <2>3, <2>4, <2>5, <2>6, <2>7
  <2>9. /\ A5 \in Nat /\ A6 \in Nat /\ A7 \in Nat /\ A8 \in Nat /\ B1 \in Nat /\ B2 \in Nat
        /\ B3 \in Nat /\ B4 \in Nat
    BY Product
  <2>10. SUFFICES C = B5 + (A8 + ll)
    OBVIOUS
  <2> HIDE DEF A1, A2, A3, A4, A5, A6, A7, A8, B1, B2, B3, B4, B5, C
  <2>11. QED
    BY <2>8, <2>9
<1>14. n * sm + ll \in 0..(nn - 1)
  <2>1. PICK e \in Nat : e = n - 1 - sm
    OBVIOUS
  <2>2. n * n = n * e + n * sm + n
    BY <2>1
  <2>3. n * e \in Nat /\ n * sm \in Nat
    BY Product
  <2>4. QED
    BY <1>11, <2>2, <2>3
<1>15. PICK z \in 0..(nn - 1) : z = n * sm + ll
  BY <1>14
<1>16. (nn * k + z) % nn = z
  BY DivUnique
<1>17. sm * n = n * sm
  OBVIOUS
<1>18. QED
  BY <1>0, <1>10, <1>11, <1>13, <1>15, <1>16, <1>17, Zenon

LEMMA DivIf ==
  ASSUME NEW x, NEW d \in Nat \ {0}, NEW q \in Int, NEW r \in 0..(d - 1), x = d * q + r
  PROVE  x \div d = q /\ x % d = r
<1>1. (d * q + r) \div d = q /\ (d * q + r) % d = r
  BY DivUnique
<1>2. QED
  BY <1>1, Zenon

(* Numbers of two digits.                                                  *)
LEMMA TwoDigits ==
  ASSUME NEW p \in Nat \ {0}, NEW q \in Nat \ {0}, NEW y \in 0..(p - 1), NEW x \in 0..(q - 1)
  PROVE  q * y + x \in 0..(p * q - 1)
<1>1. PICK e \in Nat : p = y + 1 + e
  <2>1. p - (y + 1) \in Nat /\ p = y + 1 + (p - (y + 1))
    OBVIOUS
  <2>2. QED
    BY <2>1
<1>2. p * q = q * y + q + q * e
  BY <1>1
<1>3. q * y \in Nat /\ q * e \in Nat /\ p * q \in Nat
  BY Product
<1>4. QED
  BY <1>2, <1>3

LEMMA FirstDigit ==
  ASSUME NEW p \in Nat \ {0}, NEW q \in Nat \ {0}, NEW l \in 0..(p * q - 1)
  PROVE  \E y \in 0..(p - 1), x \in 0..(q - 1) : y = l \div q /\ x = l % q /\ l = q * y + x
<1>1. p * q \in Nat
  BY Product
<1>2. l \in Nat
  BY <1>1
<1>3. PICK y \in Nat, x \in 0..(q - 1) : y = l \div q /\ x = l % q /\ l = q * y + x
  BY <1>2, DivParts
<1>4. y <= p - 1
  <2> SUFFICES ASSUME y >= p PROVE FALSE
    OBVIOUS
  <2>1. PICK e \in Nat : y = p + e
    <3>1. y - p \in Nat /\ y = p + (y - p)
      OBVIOUS
    <3>2. QED
      BY <3>1
  <2>2. q * y = p * q + q * e
    BY <2>1
  <2>3. q * e \in Nat /\ q * y \in Nat
    BY Product
  <2>4. l < p * q /\ l = q * y + x
    BY <1>1, <1>3
  <2>5. QED
    BY <1>1, <2>2, <2>3, <2>4
<1>5. QED
  BY <1>3, <1>4

(* The two factors of a word that a shift makes.                           *)
LEMMA Factors ==
  ASSUME NEW b \in 0..W
  PROVE  /\ Power[b] \in Nat \ {0} /\ Power[W - b] \in Nat \ {0}
         /\ M = Power[b] * Power[W - b]
<1>1. W \in Nat /\ b \in 0..(2 * W) /\ W - b \in 0..(2 * W) /\ b \in Nat /\ W - b \in Nat
      /\ b + (W - b) = W /\ W <= 2 * W
  BY Sizes
<1>2. QED
  BY <1>1, PowerNext, PowerSum DEF M

(* What a shift to the left makes of a word.                               *)
Shifted(p, q, y, x) ==
  /\ (q * y + x) * p = (p * q) * y + p * x
  /\ p * x \in 0..(p * q - 1)
  /\ ((q * y + x) * p) % (p * q) = p * x

LEMMA ShiftedUp ==
  ASSUME NEW p \in Nat \ {0}, NEW q \in Nat \ {0}, NEW y \in Nat, NEW x \in 0..(q - 1)
  PROVE  Shifted(p, q, y, x)
<1>1. PICK m \in Nat \ {0} : m = p * q
  BY Product
<1>2. (q * y + x) * p = (p * q) * y + p * x
  <2>1. PICK z \in Nat : z = q * y
    BY Product
  <2>2. (z + x) * p = z * p + p * x
    OBVIOUS
  <2>3. z * p = (p * q) * y
    BY <2>1
  <2>4. QED
    BY <2>1, <2>2, <2>3
<1>3. p * x + 0 \in 0..(q * p - 1)
  <2>1. 0 \in 0..(p - 1)
    OBVIOUS
  <2>2. QED
    BY <2>1, TwoDigits
<1>4. p * x \in Nat /\ q * p = p * q
  BY Product
<1>5. p * x \in 0..(m - 1)
  BY <1>1, <1>3, <1>4
<1>6. PICK z \in 0..(m - 1) : z = p * x
  BY <1>5
<1>7. (m * y + z) % m = z
  <2>1. y \in Int
    OBVIOUS
  <2>2. QED
    BY <2>1, DivUnique
<1>8. QED
  BY <1>1, <1>2, <1>5, <1>6, <1>7, Zenon DEF Shifted

(* What the instructions take as the amount of a shift.                    *)
LEMMA AmountIs ==
  ASSUME NEW b \in 0..(2 * W - 1)
  PROVE  Amount(b) = IF b < W THEN b ELSE b - W
<1>0. W \in Nat \ {0}
  BY Sizes
<1>1. CASE b < W
  <2>1. b = W * 0 + b /\ b \in 0..(W - 1) /\ 0 \in Int /\ b \in Int
    BY <1>0, <1>1
  <2>2. QED
    BY <1>0, <1>1, <2>1, DivIf DEF Amount
<1>2. CASE ~(b < W)
  <2>1. PICK n \in 0..(W - 1) : n = b - W
    BY <1>0, <1>2
  <2>2. b = W * 1 + n /\ 1 \in Int /\ b \in Int
    BY <1>0, <2>1
  <2>3. b % W = n
    BY <1>0, <2>2, DivIf
  <2>4. QED
    BY <1>2, <2>1, <2>3 DEF Amount
<1>3. QED
  BY <1>1, <1>2

(* More than a word is shifted as what exceeds the word.                   *)
LEMMA FarShifts ==
  ASSUME NEW d, NEW b \in 0..(2 * W - 1), b > W
  PROVE  /\ b - W \in 1..(W - 1)
         /\ Ashldi3(d, b) = Ashldi3(d, b - W)
         /\ Lshrdi3(d, b) = Lshrdi3(d, b - W)
         /\ Ashrdi3(d, b) = Ashrdi3(d, b - W)
<1>0. W \in Nat \ {0}
  BY Sizes
<1>1. PICK n \in 1..(W - 1) : n = b - W
  BY <1>0
<1>2. b # 0 /\ b # W /\ n # 0 /\ n # W /\ n \in 0..(2 * W - 1) /\ n < W /\ ~(b < W)
  BY <1>0, <1>1
<1>3. Amount(b) = n /\ Amount(n) = n
  BY <1>1, <1>2, AmountIs
<1>4. Ashldi3(d, b) = Ashldi3(d, n)
  BY <1>2, <1>3, Zenon DEF Ashldi3
<1>5. Lshrdi3(d, b) = Lshrdi3(d, n)
  BY <1>2, <1>3, Zenon DEF Lshrdi3
<1>6. Ashrdi3(d, b) = Ashrdi3(d, n)
  BY <1>2, <1>3, Zenon DEF Ashrdi3
<1>7. QED
  BY <1>1, <1>4, <1>5, <1>6

LEMMA Ashldi3Is ==
  ASSUME NEW d \in 0..(M * M - 1), NEW b \in 0..W
  PROVE  Ashldi3(d, b) = (d * Power[b]) % (M * M)
<1>0. PICK m \in Nat \ {0} : m = M /\ Words = 0..(m - 1)
  BY Sizes
<1>1. PICK mm \in Nat \ {0} : mm = m * m
  BY Product
<1>2. PICK h \in 0..(m - 1), l \in 0..(m - 1) : h = High(d) /\ l = Low(d) /\ d = m * h + l
  BY <1>0, DwordParts
<1>3. PICK p \in Nat \ {0}, q \in Nat \ {0} : p = Power[b] /\ q = Power[W - b] /\ m = p * q
  BY <1>0, Factors
<1>4. PICK hh \in 0..(p - 1), hl \in 0..(q - 1) : hh = h \div q /\ hl = h % q /\ h = q * hh + hl
  <2>1. h \in 0..(p * q - 1)
    BY <1>3
  <2>2. QED
    BY <2>1, FirstDigit, Zenon
<1>5. PICK lh \in 0..(p - 1), ll \in 0..(q - 1) : lh = l \div q /\ ll = l % q /\ l = q * lh + ll
  <2>1. l \in 0..(p * q - 1)
    BY <1>3
  <2>2. QED
    BY <2>1, FirstDigit, Zenon
<1>6. PICK s \in 0..(m - 1) : s = p * hl /\ h * p = m * hh + s /\ (h * p) % m = s
  <2>1. hh \in Nat
    OBVIOUS
  <2>2. Shifted(p, q, hh, hl)
    BY <2>1, ShiftedUp
  <2>3. h * p = m * hh + p * hl /\ p * hl \in 0..(m - 1) /\ (h * p) % m = p * hl
    BY <1>3, <1>4, <2>2, Zenon DEF Shifted
  <2>4. QED
    BY <2>3
<1>7. PICK t \in 0..(m - 1) : t = p * ll /\ l * p = m * lh + t /\ (l * p) % m = t
  <2>1. lh \in Nat
    OBVIOUS
  <2>2. Shifted(p, q, lh, ll)
    BY <2>1, ShiftedUp
  <2>3. l * p = m * lh + p * ll /\ p * ll \in 0..(m - 1) /\ (l * p) % m = p * ll
    BY <1>3, <1>5, <2>2, Zenon DEF Shifted
  <2>4. QED
    BY <2>3
<1>8. PICK u \in 0..(m - 1) : u = s + lh
  <2>1. p * hl + lh \in 0..(q * p - 1)
    BY TwoDigits
  <2>2. q * p = m
    BY <1>3
  <2>3. QED
    BY <1>6, <2>1, <2>2
<1>9. m * u + t \in 0..(mm - 1)
  BY <1>1, TwoDigits
<1>10. d * p = mm * hh + (m * u + t)
  <2>1. d * p = (m * h) * p + l * p
    BY <1>2
  <2>2. (m * h) * p = m * (h * p)
    OBVIOUS
  <2>3. m * (m * hh + s) = mm * hh + m * s
    BY <1>1
  <2>4. m * u = m * s + m * lh
    BY <1>8
  <2>5. PICK x1 \in Nat, x2 \in Nat, x3 \in Nat, x4 \in Nat :
          x1 = mm * hh /\ x2 = m * s /\ x3 = m * lh /\ x4 = m * u
    BY Product
  <2>6. d * p = m * (h * p) + l * p
    BY <2>1, <2>2
  <2>7. m * (h * p) = x1 + x2
    BY <1>6, <2>3, <2>5
  <2>8. l * p = x3 + t
    BY <1>7, <2>5
  <2>9. x4 = x2 + x3
    BY <2>4, <2>5
  <2>10. QED
    BY <2>5, <2>6, <2>7, <2>8, <2>9
<1>11. (d * p) % mm = m * u + t
  <2>1. PICK z \in 0..(mm - 1) : z = m * u + t
    BY <1>9
  <2>2. hh \in Int
    OBVIOUS
  <2>3. (mm * hh + z) % mm = z
    BY <2>2, DivUnique
  <2>4. QED
    BY <1>10, <2>1, <2>3, Zenon
<1>12. CASE b # 0 /\ b # W
  <2>1. Ashldi3(d, b) = (((h * p) % m) + l \div q) * m + ((l * p) % m)
    <3>1. Amount(b) = b
      BY <1>12, Sizes, AmountIs
    <3>2. QED
      BY <1>0, <1>2, <1>3, <1>12, <3>1, Zenon DEF Ashldi3
  <2>2. (((h * p) % m) + l \div q) * m + ((l * p) % m) = u * m + t
    BY <1>5, <1>6, <1>7, <1>8, Zenon
  <2>3. u * m = m * u
    OBVIOUS
  <2>4. QED
    BY <1>0, <1>1, <1>3, <1>11, <2>1, <2>2, <2>3, Zenon
<1>13. CASE b = 0
  <2>1. p = 1
    BY <1>3, <1>13, PowerNext
  <2>2. d * p = d
    BY <1>2, <2>1
  <2>3. d % mm = d
    <3>1. PICK z \in 0..(mm - 1) : z = d
      BY <1>0, <1>1
    <3>2. (mm * 0 + z) % mm = z
      <4>1. 0 \in Int
        OBVIOUS
      <4>2. QED
        BY <4>1, DivUnique
    <3>3. mm * 0 + z = z
      OBVIOUS
    <3>4. QED
      BY <3>1, <3>2, <3>3, Zenon
  <2>4. Ashldi3(d, b) = d
    BY <1>13, Sizes, Zenon DEF Ashldi3
  <2>5. QED
    BY <1>0, <1>1, <1>3, <2>2, <2>3, <2>4, Zenon
<1>14. CASE b = W
  <2>1. q = 1 /\ p = m /\ W # 0
    <3>1. W - b = 0 /\ W # 0
      BY <1>14, Sizes
    <3>2. QED
      BY <1>0, <1>3, <1>14, <3>1, PowerNext DEF M
  <2>2. hl = 0 /\ ll = 0
    BY <2>1
  <2>3. s = 0 /\ t = 0 /\ lh = l
    BY <1>5, <1>6, <1>7, <2>1, <2>2
  <2>4. u = l
    BY <1>8, <2>3
  <2>5. m * u + t = l * m
    BY <2>3, <2>4
  <2>6. Ashldi3(d, b) = l * m
    BY <1>0, <1>2, <1>14, <2>1, Zenon DEF Ashldi3
  <2>7. QED
    BY <1>0, <1>1, <1>3, <1>11, <2>5, <2>6, Zenon
<1>15. QED
  BY <1>12, <1>13, <1>14

(* What a shift to the right makes of a double word: h may be negative.    *)
Down(p, q, m, hh, hl, lh, ll) ==
  (m * (p * hh + hl) + (p * lh + ll)) \div p = m * hh + (q * hl + lh)

LEMMA ShiftedDown ==
  ASSUME NEW p \in Nat \ {0}, NEW q \in Nat \ {0}, NEW m, m = p * q,
         NEW hh \in Int, NEW hl \in 0..(p - 1), NEW lh \in 0..(q - 1), NEW ll \in 0..(p - 1)
  PROVE  Down(p, q, m, hh, hl, lh, ll)
<1>1. m \in Nat \ {0}
  BY Product
<1>2. m * (p * hh + hl) = p * (m * hh) + m * hl
  <2>1. PICK x \in Int : x = p * hh
    OBVIOUS
  <2>2. m * (x + hl) = m * x + m * hl
    BY <1>1
  <2>3. m * x = p * (m * hh)
    BY <1>1, <2>1
  <2>4. QED
    BY <2>1, <2>2, <2>3, Zenon
<1>3. m * hl = p * (q * hl)
  OBVIOUS
<1>4. PICK x \in Int, y \in Int : x = m * hh /\ y = q * hl
  BY <1>1
<1>5. PICK z \in Int : z = x + (y + lh)
  OBVIOUS
<1>6. p * z = p * x + p * y + p * lh
  BY <1>5
<1>7. m * (p * hh + hl) = p * x + p * y
  BY <1>2, <1>3, <1>4, Zenon
<1>8. m * (p * hh + hl) + (p * lh + ll) = p * z + ll
  <2>1. PICK u \in Int, v \in Int, w \in Int : u = p * x /\ v = p * y /\ w = p * lh
    OBVIOUS
  <2>2. p * z = u + v + w /\ m * (p * hh + hl) = u + v
    BY <1>6, <1>7, <2>1, Zenon
  <2>3. (u + v) + (w + ll) = (u + v + w) + ll
    OBVIOUS
  <2>4. QED
    BY <2>1, <2>2, <2>3, Zenon
<1>9. (p * z + ll) \div p = z
  BY DivUnique
<1>10. QED
  BY <1>4, <1>5, <1>8, <1>9, Zenon DEF Down

LEMMA Lshrdi3Is ==
  ASSUME NEW d \in 0..(M * M - 1), NEW b \in 0..W
  PROVE  Lshrdi3(d, b) = d \div Power[b]
<1>0. PICK m \in Nat \ {0} : m = M /\ Words = 0..(m - 1)
  BY Sizes
<1>2. PICK h \in 0..(m - 1), l \in 0..(m - 1) : h = High(d) /\ l = Low(d) /\ d = m * h + l
  BY <1>0, DwordParts
<1>3. PICK p \in Nat \ {0}, q \in Nat \ {0} : p = Power[b] /\ q = Power[W - b] /\ m = p * q /\ m = q * p
  <2>1. PICK p \in Nat \ {0}, q \in Nat \ {0} : p = Power[b] /\ q = Power[W - b] /\ m = p * q
    BY <1>0, Factors
  <2>2. p * q = q * p
    OBVIOUS
  <2>3. QED
    BY <2>1, <2>2
<1>4. PICK hh \in 0..(q - 1), hl \in 0..(p - 1) : hh = h \div p /\ hl = h % p /\ h = p * hh + hl
  <2>1. h \in 0..(q * p - 1)
    BY <1>3
  <2>2. QED
    BY <2>1, FirstDigit, Zenon
<1>5. PICK lh \in 0..(q - 1), ll \in 0..(p - 1) : lh = l \div p /\ ll = l % p /\ l = p * lh + ll
  <2>1. l \in 0..(q * p - 1)
    BY <1>3
  <2>2. QED
    BY <2>1, FirstDigit, Zenon
<1>6. d \div p = m * hh + (q * hl + lh)
  <2>1. Down(p, q, m, hh, hl, lh, ll)
    <3>1. hh \in Int
      OBVIOUS
    <3>2. m = p * q
      BY <1>3
    <3>3. QED
      BY <3>1, <3>2, ShiftedDown
  <2>2. QED
    BY <1>2, <1>4, <1>5, <2>1, Zenon DEF Down
<1>7. (h * q) % m = q * hl
  <2>1. Shifted(q, p, hh, hl)
    <3>1. hh \in Nat
      OBVIOUS
    <3>2. QED
      BY <3>1, ShiftedUp
  <2>2. QED
    BY <1>3, <1>4, <2>1, Zenon DEF Shifted
<1>8. CASE b # 0 /\ b # W
  <2>1. Lshrdi3(d, b) = (h \div p) * m + l \div p + ((h * q) % m)
    <3>1. Amount(b) = b
      BY <1>8, Sizes, AmountIs
    <3>2. QED
      BY <1>0, <1>2, <1>3, <1>8, <3>1, Zenon DEF Lshrdi3
  <2>2. (h \div p) * m + l \div p + ((h * q) % m) = hh * m + lh + q * hl
    BY <1>4, <1>5, <1>7, Zenon
  <2>3. hh * m + lh + q * hl = m * hh + (q * hl + lh)
    OBVIOUS
  <2>4. QED
    BY <1>3, <1>6, <2>1, <2>2, <2>3, Zenon
<1>9. CASE b = 0
  <2>1. p = 1 /\ b # W
    BY <1>3, <1>9, PowerNext, Sizes
  <2>2. d \div p = d
    <3>1. d = 1 * d + 0 /\ d \in Int /\ 0 \in 0..(1 - 1) /\ 1 \in Nat \ {0}
      BY <1>2
    <3>2. QED
      BY <2>1, <3>1, DivIf
  <2>3. Lshrdi3(d, b) = d
    BY <1>9, <2>1, Zenon DEF Lshrdi3
  <2>4. QED
    BY <1>3, <2>2, <2>3, Zenon
<1>10. CASE b = W
  <2>1. q = 1 /\ p = m /\ W # 0
    <3>1. W - b = 0 /\ W # 0
      BY <1>10, Sizes
    <3>2. QED
      BY <1>0, <1>3, <1>10, <3>1, PowerNext DEF M
  <2>2. hh = 0 /\ lh = 0 /\ h = hl
    BY <1>4, <2>1
  <2>3. d \div p = h
    BY <1>6, <2>1, <2>2
  <2>4. Lshrdi3(d, b) = h
    BY <1>2, <1>10, <2>1, Zenon DEF Lshrdi3
  <2>5. QED
    BY <1>3, <2>3, <2>4, Zenon
<1>11. QED
  BY <1>8, <1>9, <1>10

(* The signed integer of a double word.                                    *)
LEMMA SignedDword ==
  ASSUME NEW d \in 0..(M * M - 1)
  PROVE  /\ Signed(High(d), W) \in Int
         /\ Signed(d, 2 * W) = M * Signed(High(d), W) + Low(d)
         /\ Bits(Signed(d, 2 * W), 2 * W) = d
<1>0. PICK m \in Nat \ {0}, k \in Nat \ {0} :
        m = M /\ Words = 0..(m - 1) /\ k = Power[W - 1] /\ M = 2 * k /\ Power[2 * W] = m * m
        /\ Power[W] = m
  BY Sizes DEF M
<1>1. PICK mm \in Nat \ {0} : mm = m * m
  BY Product
<1>2. PICK h \in 0..(m - 1), l \in 0..(m - 1) : h = High(d) /\ l = Low(d) /\ d = m * h + l
  <2>1. m = M /\ Words = 0..(m - 1)
    BY <1>0
  <2>2. QED
    BY <2>1, DwordParts
<1>3. PICK c \in Nat : c = m * k /\ mm = 2 * c /\ c = Power[2 * W - 1]
  <2>1. PICK c \in Nat : c = m * k
    BY Product
  <2>2. m * m = 2 * c
    BY <1>0, <2>1
  <2>3. Power[2 * W] = 2 * Power[2 * W - 1] /\ Power[2 * W - 1] \in Nat
    BY Sizes
  <2>4. mm = 2 * c
    BY <1>1, <2>2
  <2>5. mm = 2 * Power[2 * W - 1]
    BY <1>0, <1>1, <2>3
  <2>6. QED
    BY <2>1, <2>3, <2>4, <2>5
<1>4. PICK z \in Nat : z = m * h
  BY Product
<1>5. d < c <=> h < k
  <2>1. CASE h < k
    <3>1. PICK e \in Nat : k = h + 1 + e
      <4>1. k - (h + 1) \in Nat /\ k = h + 1 + (k - (h + 1))
        BY <2>1
      <4>2. QED
        BY <4>1
    <3>2. m * k = m * h + m + m * e
      BY <3>1
    <3>3. m * e \in Nat
      BY Product
    <3>4. QED
      BY <1>2, <1>3, <1>4, <2>1, <3>2, <3>3
  <2>2. CASE ~(h < k)
    <3>1. PICK e \in Nat : h = k + e
      <4>1. h - k \in Nat /\ h = k + (h - k)
        BY <2>2
      <4>2. QED
        BY <4>1
    <3>2. m * h = m * k + m * e
      BY <3>1
    <3>3. m * e \in Nat
      BY Product
    <3>4. QED
      BY <1>2, <1>3, <1>4, <2>2, <3>2, <3>3
  <2>3. QED
    BY <2>1, <2>2
<1>6. Signed(h, W) = IF h < k THEN h ELSE h - m
  BY <1>0, Zenon DEF Signed
<1>7. Signed(d, 2 * W) = IF d < c THEN d ELSE d - mm
  BY <1>0, <1>1, <1>3, Zenon DEF Signed
<1>8. PICK e \in 0..1 : Signed(h, W) = h - e * m /\ Signed(d, 2 * W) = d - e * mm
  <2>1. CASE h < k
    <3>1. Signed(h, W) = h - 0 * m /\ Signed(d, 2 * W) = d - 0 * mm
      BY <1>2, <1>4, <1>5, <1>6, <1>7, <2>1
    <3>2. QED
      BY <3>1
  <2>2. CASE ~(h < k)
    <3>1. Signed(h, W) = h - 1 * m /\ Signed(d, 2 * W) = d - 1 * mm
      BY <1>2, <1>4, <1>5, <1>6, <1>7, <2>2
    <3>2. QED
      BY <3>1
  <2>3. QED
    BY <2>1, <2>2
<1>9. Signed(d, 2 * W) = m * (h - e * m) + l
  <2>1. m * (h - e * m) = m * h - e * mm
    BY <1>1
  <2>2. QED
    BY <1>2, <1>8, <2>1
<1>10. Bits(d - e * mm, 2 * W) = d
  <2>1. d \in 0..(mm - 1)
    BY <1>0, <1>1
  <2>2. d - e * mm = mm * (-e) + d /\ -e \in Int
    BY <2>1
  <2>3. (d - e * mm) % mm = d
    BY <2>1, <2>2, DivIf
  <2>4. QED
    BY <1>0, <1>1, <2>3, Zenon DEF Bits
<1>11. PICK s \in Int : s = Signed(h, W) /\ s = h - e * m
  BY <1>8
<1>12. QED
  BY <1>0, <1>2, <1>8, <1>9, <1>10, <1>11, Zenon

LEMMA Ashrdi3Is ==
  ASSUME NEW d \in 0..(M * M - 1), NEW b \in 0..W, b < W
  PROVE  Ashrdi3(d, b) = Bits(Signed(d, 2 * W) \div Power[b], 2 * W)
<1>0. PICK m \in Nat \ {0} : m = M /\ Words = 0..(m - 1) /\ Power[2 * W] = m * m /\ Power[W] = m
  BY Sizes DEF M
<1>1. PICK mm \in Nat \ {0} : mm = m * m
  BY Product
<1>2. PICK h \in 0..(m - 1), l \in 0..(m - 1) : h = High(d) /\ l = Low(d) /\ d = m * h + l
  <2>1. m = M /\ Words = 0..(m - 1)
    BY <1>0
  <2>2. QED
    BY <2>1, DwordParts
<1>3. PICK p \in Nat \ {0}, q \in Nat \ {0} : p = Power[b] /\ q = Power[W - b] /\ m = p * q /\ m = q * p
  <2>1. PICK p \in Nat \ {0}, q \in Nat \ {0} : p = Power[b] /\ q = Power[W - b] /\ m = p * q
    BY <1>0, Factors
  <2>2. p * q = q * p
    OBVIOUS
  <2>3. QED
    BY <2>1, <2>2
<1>4. PICK s \in Int, x \in Int : s = Signed(h, W) /\ x = Signed(d, 2 * W) /\ x = m * s + l /\ Bits(x, 2 * W) = d
  <2>1. Signed(h, W) \in Int
    BY <1>2, SignedDword
  <2>2. PICK s \in Int : s = Signed(h, W)
    BY <2>1
  <2>3. PICK x \in Int : x = m * s + l
    OBVIOUS
  <2>4. Signed(d, 2 * W) = M * Signed(High(d), W) + Low(d)
    BY SignedDword
  <2>5. Signed(d, 2 * W) = x
    BY <1>0, <1>2, <2>2, <2>3, <2>4, Zenon
  <2>6. QED
    BY <2>2, <2>3, <2>5, SignedDword
<1>5. PICK hh \in Int, hl \in 0..(p - 1) : hh = s \div p /\ hl = s % p /\ s = p * hh + hl
  BY DivIs
<1>6. PICK lh \in 0..(q - 1), ll \in 0..(p - 1) : lh = l \div p /\ ll = l % p /\ l = p * lh + ll
  <2>1. l \in 0..(q * p - 1)
    BY <1>3
  <2>2. QED
    BY <2>1, FirstDigit, Zenon
<1>7. x \div p = m * hh + (q * hl + lh)
  <2>1. Down(p, q, m, hh, hl, lh, ll)
    <3>1. m = p * q
      BY <1>3
    <3>2. QED
      BY <3>1, ShiftedDown
  <2>2. QED
    BY <1>4, <1>5, <1>6, <2>1, Zenon DEF Down
<1>8. (h * q) % m = q * hl
  <2>1. PICK e \in Int : h = s + m * e
    <3>1. s = h \/ s = h - m
      BY <1>0, <1>4 DEF Signed
    <3>2. CASE s = h
      <4>1. h = s + m * 0 /\ 0 \in Int
        BY <3>2
      <4>2. QED
        BY <4>1
    <3>3. CASE s = h - m
      <4>1. h = s + m * 1 /\ 1 \in Int
        BY <3>3
      <4>2. QED
        BY <4>1
    <3>4. QED
      BY <3>1, <3>2, <3>3
  <2>2. h * q = s * q + m * (e * q)
    BY <2>1
  <2>3. s * q = m * hh + q * hl
    <3>1. PICK y \in Int : y = p * hh
      OBVIOUS
    <3>2. (y + hl) * q = y * q + q * hl
      OBVIOUS
    <3>3. y * q = m * hh
      BY <1>3, <3>1
    <3>4. QED
      BY <1>5, <3>1, <3>2, <3>3, Zenon
  <2>4. PICK f \in Int : f = hh + e * q
    OBVIOUS
  <2>5. m * f = m * hh + m * (e * q)
    BY <2>4
  <2>6. PICK z \in 0..(m - 1) : z = q * hl
    <3>1. 0 \in 0..(q - 1)
      OBVIOUS
    <3>2. q * hl + 0 \in 0..(p * q - 1)
      BY <3>1, TwoDigits
    <3>3. q * hl \in Nat
      BY Product
    <3>4. QED
      BY <1>3, <3>2, <3>3
  <2>7. h * q = m * f + z
    <3>1. PICK u \in Int, v \in Int : u = m * hh /\ v = m * (e * q)
      OBVIOUS
    <3>2. h * q = (u + z) + v /\ m * f = u + v
      BY <2>2, <2>3, <2>5, <2>6, <3>1, Zenon
    <3>3. QED
      BY <3>2
  <2>8. QED
    <3>1. (h * q) % m = z
      BY <2>7, DivIf, Zenon
    <3>2. QED
      BY <2>6, <3>1
<1>9. PICK k \in Int, high \in 0..(m - 1) : high = hh % m /\ hh = m * k + high
  BY DivIs
<1>10. PICK w \in 0..(m - 1) : w = q * hl + lh
  <2>1. q * hl + lh \in 0..(p * q - 1)
    BY TwoDigits
  <2>2. QED
    BY <1>3, <2>1
<1>11. Bits(x \div p, 2 * W) = m * high + w
  <2>1. m * hh = mm * k + m * high
    <3>1. m * (m * k + high) = (m * m) * k + m * high
      OBVIOUS
    <3>2. QED
      BY <1>1, <1>9, <3>1, Zenon
  <2>2. PICK z \in 0..(mm - 1) : z = m * high + w
    <3>1. m * high + w \in 0..(m * m - 1)
      BY TwoDigits
    <3>2. QED
      BY <1>1, <3>1
  <2>3. x \div p = mm * k + z
    <3>1. PICK u \in Int, v \in Int : u = mm * k /\ v = m * high
      OBVIOUS
    <3>2. x \div p = (u + v) + w /\ z = v + w
      BY <1>7, <1>10, <2>1, <2>2, <3>1, Zenon
    <3>3. QED
      BY <3>1, <3>2
  <2>4. (x \div p) % mm = z
    BY <2>3, DivIf
  <2>5. QED
    BY <1>0, <1>1, <2>2, <2>4, Zenon DEF Bits
<1>12. CASE b # 0
  <2>1. Bits(s \div p, W) = high
    BY <1>0, <1>5, <1>9, Zenon DEF Bits
  <2>2. b # W
    BY Sizes
  <2>3. Ashrdi3(d, b) = high * m + l \div p + ((h * q) % m)
    <3>1. Amount(b) = b
      BY Sizes, AmountIs
    <3>2. QED
      BY <1>0, <1>2, <1>3, <1>4, <1>12, <2>1, <2>2, <3>1, Zenon DEF Ashrdi3
  <2>4. high * m + l \div p + ((h * q) % m) = high * m + lh + q * hl
    BY <1>6, <1>8, Zenon
  <2>5. high * m + lh + q * hl = m * high + (q * hl + lh)
    OBVIOUS
  <2>6. QED
    BY <1>3, <1>4, <1>10, <1>11, <2>3, <2>4, <2>5, Zenon
<1>13. CASE b = 0
  <2>1. p = 1
    BY <1>3, <1>13, PowerNext
  <2>2. x \div p = x
    <3>1. x = 1 * x + 0 /\ 0 \in 0..(1 - 1) /\ 1 \in Nat \ {0}
      OBVIOUS
    <3>2. QED
      BY <2>1, <3>1, DivIf
  <2>3. Ashrdi3(d, b) = d
    BY <1>13, Sizes, Zenon DEF Ashrdi3
  <2>4. QED
    BY <1>3, <1>4, <2>2, <2>3, Zenon
<1>14. QED
  BY <1>12, <1>13

Figures == Seq(0..9)

(* The number that a row of figures is read as.                            *)
Spells(s, k) ==
  /\ s \in Figures
  /\ \E v \in [0..Len(s) -> Nat] :
       /\ v[0] = 0 /\ v[Len(s)] = k
       /\ \A n \in 1..Len(s) : v[n] = v[n - 1] * 10 + s[n]

LEMMA SpellsNothing == Spells(<<>>, 0)
<1> DEFINE v == [n \in 0..0 |-> 0]
<1>1. v \in [0..0 -> Nat] /\ v[0] = 0
  OBVIOUS
<1>2. <<>> \in Figures /\ Len(<<>>) = 0
  BY DEF Figures
<1> HIDE DEF v
<1>3. QED
  BY <1>1, <1>2 DEF Spells

LEMMA SpellsOneMore ==
  ASSUME NEW s, NEW k \in Nat, Spells(s, k), NEW c \in 0..9
  PROVE  Spells(s \o <<c>>, k * 10 + c)
<1>1. PICK v \in [0..Len(s) -> Nat] :
        /\ v[0] = 0 /\ v[Len(s)] = k
        /\ \A n \in 1..Len(s) : v[n] = v[n - 1] * 10 + s[n]
  BY DEF Spells
<1>2. PICK l \in Nat : l = Len(s)
  BY DEF Spells, Figures
<1>3. PICK t : t = s \o <<c>>
  OBVIOUS
<1>4. /\ t \in Figures /\ Len(t) = l + 1 /\ t[l + 1] = c
      /\ \A n \in 1..l : t[n] = s[n]
  <2>1. s \in Seq(0..9) /\ <<c>> \in Seq(0..9) /\ Len(<<c>>) = 1
    BY DEF Spells, Figures
  <2>2. QED
    BY <1>2, <1>3, <2>1 DEF Figures
<1> DEFINE u == [n \in 0..(l + 1) |-> IF n <= l THEN v[n] ELSE k * 10 + c]
<1>5. u \in [0..(l + 1) -> Nat]
  BY <1>1, <1>2
<1>6. u[0] = 0 /\ u[l + 1] = k * 10 + c
  BY <1>1, <1>2
<1>7. ASSUME NEW n \in 1..(l + 1) PROVE u[n] = u[n - 1] * 10 + t[n]
  <2>1. CASE n = l + 1
    <3>1. u[n - 1] = v[l] /\ v[l] = k /\ t[n] = c /\ u[n] = k * 10 + c
      BY <1>1, <1>2, <1>4, <2>1
    <3>2. QED
      BY <3>1
  <2>2. CASE n <= l
    <3>1. u[n] = v[n] /\ u[n - 1] = v[n - 1] /\ n \in 1..l
      BY <1>2, <2>2
    <3>2. QED
      BY <1>1, <1>2, <1>4, <3>1
  <2>3. QED
    BY <2>1, <2>2
<1> HIDE DEF u
<1>8. QED
  BY <1>3, <1>4, <1>5, <1>6, <1>7 DEF Spells

(* What itoa() takes off a number, and what is left.                       *)
Tenth(i) == IF i >= 0 THEN i \div 10 ELSE -((-i) \div 10)
Digit(i) == IF i >= 0 THEN i - Tenth(i) * 10 ELSE Tenth(i) * 10 - i

LEMMA TenthIs ==
  ASSUME NEW i \in Int
  PROVE  /\ Tenth(i) \in Int /\ Size(i) \in Nat /\ Size(Tenth(i)) \in Nat
         /\ Digit(i) \in 0..9
         /\ Size(i) = Size(Tenth(i)) * 10 + Digit(i)
         /\ Size(Tenth(i)) = 0 \/ Size(Tenth(i)) < Size(i)
         /\ Tenth(i) = 0 <=> Size(Tenth(i)) = 0
<1>1. CASE i >= 0
  <2>1. PICK t \in Nat, r \in 0..9 : t = i \div 10 /\ i = 10 * t + r
    BY <1>1
  <2>2. Tenth(i) = t /\ Digit(i) = r
    BY <1>1, <2>1 DEF Tenth, Digit
  <2>3. Size(i) = i /\ Size(t) = t
    BY <1>1 DEF Size
  <2>4. QED
    BY <1>1, <2>1, <2>2, <2>3
<1>2. CASE ~(i >= 0)
  <2>1. PICK j \in Nat : j = -i
    BY <1>2
  <2>2. PICK t \in Nat, r \in 0..9 : t = j \div 10 /\ j = 10 * t + r
    OBVIOUS
  <2>3. Tenth(i) = -t
    BY <1>2, <2>1, <2>2 DEF Tenth
  <2>4. Digit(i) = r
    BY <1>2, <2>1, <2>2, <2>3 DEF Digit
  <2>5. Size(i) = j /\ Size(-t) = t
    BY <1>2, <2>1 DEF Size
  <2>6. QED
    BY <2>2, <2>3, <2>4, <2>5
<1>3. QED
  BY <1>1, <1>2

LEMMA SizeWithin ==
  ASSUME NEW k \in Nat
  PROVE  \A i \in Int : i \in (-k)..k <=> Size(i) <= k
BY DEF Size

Numeral(h, k) ==
  h = [i \in (-k)..k |->
         (IF Tenth(i) = 0 THEN <<>> ELSE h[Tenth(i)]) \o <<Digit(i)>>]

LEMMA WrittenExists ==
  ASSUME NEW m \in Nat
  PROVE  \E h : Numeral(h, m)
<1> DEFINE T == {k \in 0..m : \E h : Numeral(h, k)}
<1>1. 0 \in T
  <2> DEFINE h == [i \in (-0)..0 |-> <<>> \o <<Digit(i)>>]
  <2>1. \A i \in (-0)..0 : Tenth(i) = 0
    <3> SUFFICES ASSUME NEW i \in (-0)..0 PROVE Tenth(i) = 0
      OBVIOUS
    <3>1. i \in Int /\ Size(i) = 0
      BY DEF Size
    <3>2. QED
      BY <3>1, TenthIs
  <2>2. h = [i \in (-0)..0 |-> (IF Tenth(i) = 0 THEN <<>> ELSE h[Tenth(i)]) \o <<Digit(i)>>]
    BY <2>1
  <2> HIDE DEF h
  <2>3. Numeral(h, 0)
    BY <2>2 DEF Numeral
  <2>4. QED
    BY <2>3
<1>2. ASSUME NEW k \in 1..m, k - 1 \in T PROVE k \in T
  <2>1. PICK g : Numeral(g, k - 1)
    BY <1>2
  <2>2. PICK j \in Nat : j = k - 1 /\ k = j + 1
    OBVIOUS
  <2>3. \A i \in (-j)..j : g[i] = (IF Tenth(i) = 0 THEN <<>> ELSE g[Tenth(i)]) \o <<Digit(i)>>
    <3>1. g = [i \in (-j)..j |-> (IF Tenth(i) = 0 THEN <<>> ELSE g[Tenth(i)]) \o <<Digit(i)>>]
      BY <2>1, <2>2, Zenon DEF Numeral
    <3>2. QED
      BY <3>1, Zenon
  <2> DEFINE h == [i \in (-k)..k |-> (IF Tenth(i) = 0 THEN <<>> ELSE g[Tenth(i)]) \o <<Digit(i)>>]
  <2>4. ASSUME NEW i \in (-k)..k
        PROVE  Tenth(i) \in (-j)..j
    <3>1. i \in Int /\ Size(i) <= k
      BY DEF Size
    <3>2. Tenth(i) \in Int /\ Size(Tenth(i)) <= j
      <4>1. PICK t \in Nat : t = Size(Tenth(i)) /\ (t = 0 \/ t < Size(i))
        BY <3>1, TenthIs
      <4>2. Size(i) \in Nat /\ Tenth(i) \in Int
        BY <3>1, TenthIs
      <4>3. t <= j
        BY <2>2, <3>1, <4>1, <4>2
      <4>4. QED
        BY <4>1, <4>2, <4>3
    <3>3. QED
      BY <3>2, SizeWithin
  <2>5. \A i \in (-j)..j : h[i] = g[i]
    <3>1. \A i \in (-j)..j : i \in (-k)..k
      BY <2>2
    <3> HIDE DEF h
    <3>2. \A i \in (-k)..k : h[i] = (IF Tenth(i) = 0 THEN <<>> ELSE g[Tenth(i)]) \o <<Digit(i)>>
      BY DEF h
    <3>3. QED
      BY <2>3, <3>1, <3>2, Zenon
  <2>6. \A i \in (-k)..k : h[Tenth(i)] = g[Tenth(i)]
    <3> HIDE DEF h
    <3>1. QED
      BY <2>4, <2>5, Zenon
  <2>7. h = [i \in (-k)..k |-> (IF Tenth(i) = 0 THEN <<>> ELSE h[Tenth(i)]) \o <<Digit(i)>>]
    <3>1. PICK f : f = h
      OBVIOUS
    <3>2. \A i \in (-k)..k : f[Tenth(i)] = g[Tenth(i)]
      BY <2>6, <3>1, Zenon
    <3>3. f = [i \in (-k)..k |-> (IF Tenth(i) = 0 THEN <<>> ELSE g[Tenth(i)]) \o <<Digit(i)>>]
      BY <3>1, Zenon
    <3>4. f = [i \in (-k)..k |-> (IF Tenth(i) = 0 THEN <<>> ELSE f[Tenth(i)]) \o <<Digit(i)>>]
      BY <3>2, <3>3, Zenon
    <3> HIDE DEF h
    <3>5. QED
      BY <3>1, <3>4, Zenon
  <2> HIDE DEF h
  <2>8. Numeral(h, k)
    BY <2>7, Zenon DEF Numeral
  <2>9. QED
    BY <2>8
<1>3. m \in T
  <2> HIDE DEF T
  <2>1. \A k \in 0..m : k \in T
    BY <1>1, <1>2, UpTo
  <2>2. QED
    BY <2>1
<1>4. QED
  BY <1>3

LEMMA WrittenSpells ==
  ASSUME NEW m \in Nat, NEW h, Numeral(h, m), NEW i \in (-m)..m
  PROVE  Spells(h[i], Size(i))
<1>0. \A j \in (-m)..m : h[j] = (IF Tenth(j) = 0 THEN <<>> ELSE h[Tenth(j)]) \o <<Digit(j)>>
  <2>1. h = [j \in (-m)..m |-> (IF Tenth(j) = 0 THEN <<>> ELSE h[Tenth(j)]) \o <<Digit(j)>>]
    BY Zenon DEF Numeral
  <2>2. QED
    BY <2>1, Zenon
<1>1. ASSUME NEW j \in (-m)..m, Tenth(j) # 0 => Spells(h[Tenth(j)], Size(Tenth(j)))
      PROVE  Spells(h[j], Size(j))
  <2>1. j \in Int
    OBVIOUS
  <2>2. PICK k \in Nat, c \in 0..9 :
          /\ k = Size(Tenth(j)) /\ c = Digit(j) /\ Size(j) = k * 10 + c
          /\ Tenth(j) = 0 <=> k = 0
    BY <2>1, TenthIs
  <2>3. PICK s : s = IF Tenth(j) = 0 THEN <<>> ELSE h[Tenth(j)]
    OBVIOUS
  <2>4. Spells(s, k)
    BY <1>1, <2>2, <2>3, SpellsNothing, Zenon
  <2>5. Spells(s \o <<c>>, k * 10 + c)
    BY <2>4, SpellsOneMore
  <2>6. h[j] = s \o <<c>>
    BY <1>0, <2>2, <2>3, Zenon
  <2>7. QED
    BY <2>2, <2>5, <2>6, Zenon
<1> DEFINE T == {k \in 0..m : \A j \in (-k)..k : Spells(h[j], Size(j))}
<1>2. 0 \in T
  <2> SUFFICES ASSUME NEW j \in (-0)..0 PROVE Spells(h[j], Size(j))
    OBVIOUS
  <2>1. j \in (-m)..m /\ Size(j) = 0 /\ j \in Int
    BY DEF Size
  <2>2. Tenth(j) = 0
    BY <2>1, TenthIs
  <2>3. QED
    BY <1>1, <2>1, <2>2
<1>3. ASSUME NEW k \in 1..m, k - 1 \in T PROVE k \in T
  <2> SUFFICES ASSUME NEW j \in (-k)..k PROVE Spells(h[j], Size(j))
    OBVIOUS
  <2>1. PICK l \in Nat : l = k - 1
    OBVIOUS
  <2>2. j \in Int /\ j \in (-m)..m /\ Size(j) <= k
    BY DEF Size
  <2>3. Tenth(j) \in Int /\ Size(Tenth(j)) <= l
    <3>1. PICK t \in Nat : t = Size(Tenth(j)) /\ (t = 0 \/ t < Size(j))
      BY <2>2, TenthIs
    <3>2. Size(j) \in Nat /\ Tenth(j) \in Int
      BY <2>2, TenthIs
    <3>3. t <= l
      BY <2>1, <2>2, <3>1, <3>2
    <3>4. QED
      BY <3>1, <3>2, <3>3
  <2>4. Tenth(j) \in (-l)..l
    BY <2>3, SizeWithin
  <2>5. Spells(h[Tenth(j)], Size(Tenth(j)))
    BY <1>3, <2>1, <2>4
  <2>6. QED
    BY <1>1, <2>2, <2>5
<1>4. m \in T
  <2> HIDE DEF T
  <2>1. \A k \in 0..m : k \in T
    BY <1>2, <1>3, UpTo
  <2>2. QED
    BY <2>1
<1>5. QED
  BY <1>4

(* What atoi() makes of figures.                                           *)
LEMMA AtoiIs ==
  ASSUME NEW w \in [minus : BOOLEAN, digits : Figures], NEW k \in Nat, Spells(w.digits, k)
  PROVE  Atoi(w) = IF w.minus THEN Negated(k % M, W) ELSE k % M
<1>0. M \in Nat \ {0} /\ M = Power[W] /\ Words = 0..(M - 1)
  BY Sizes DEF M
<1>1. PICK s \in Seq(0..9), l \in Nat : s = w.digits /\ l = Len(s)
  BY DEF Figures
<1>2. PICK v \in [0..l -> Nat] :
        v[0] = 0 /\ v[l] = k /\ \A n \in 1..l : v[n] = v[n - 1] * 10 + s[n]
  BY <1>1 DEF Spells
<1> DEFINE u == [n \in 0..l |-> v[n] % M]
           Is(h) == h = [n \in 0..Len(w.digits) |->
                           IF n = 0 THEN 0 ELSE Bits(h[n - 1] * 10 + w.digits[n], W)]
<1>3. Atoi(w) = LET value == CHOOSE h : Is(h)
                IN IF w.minus THEN Negated(value[Len(w.digits)], W) ELSE value[Len(w.digits)]
  BY Zenon DEF Atoi
<1>4. \A h : Is(h) <=> h = [n \in 0..l |-> IF n = 0 THEN 0 ELSE (h[n - 1] * 10 + s[n]) % M]
  BY <1>0, <1>1, Zenon DEF Bits
<1> HIDE DEF Is
<1>5. ASSUME NEW n \in 1..l, NEW x, x = v[n - 1] % M
      PROVE  (x * 10 + s[n]) % M = v[n] % M
  <2>1. PICK y \in Int, c \in Int : y = v[n - 1] /\ c = s[n]
    <3>1. n - 1 \in 0..l /\ s[n] \in 0..9
      BY <1>1
    <3>2. QED
      BY <3>1
  <2>2. v[n] = y * 10 + c
    BY <1>2, <2>1
  <2>3. PICK z \in Int, r \in Int : z = x * 10 /\ r = y * 10
    <3>1. x \in Int
      BY <1>0, <1>5, <2>1
    <3>2. QED
      BY <3>1
  <2>4. z % M = r % M
    <3>1. 10 \in Int /\ M \in Nat \ {0}
      BY <1>0
    <3>2. ((y % M) * 10) % M = (y * 10) % M
      BY <3>1, ModProduct, Zenon
    <3>3. QED
      BY <1>5, <2>1, <2>3, <3>2, Zenon
  <2>5. (z + c) % M = (r + c) % M
    <3>1. M \in Nat \ {0}
      BY <1>0
    <3>2. ((z % M) + c) % M = (z + c) % M
      BY <3>1, ModSum, Zenon
    <3>3. ((r % M) + c) % M = (r + c) % M
      BY <3>1, ModSum, Zenon
    <3>4. QED
      BY <2>4, <3>2, <3>3, Zenon
  <2>6. QED
    BY <2>1, <2>2, <2>3, <2>5, Zenon
<1>6. 0 % M = 0
  <2>1. 0 = M * 0 + 0 /\ 0 \in 0..(M - 1) /\ 0 \in Int
    BY <1>0
  <2>2. QED
    BY <1>0, <2>1, DivIf
<1>7. Is(u)
  <2>1. ASSUME NEW n \in 0..l PROVE u[n] = IF n = 0 THEN 0 ELSE (u[n - 1] * 10 + s[n]) % M
    <3>1. CASE n = 0
      BY <1>2, <1>6, <3>1
    <3>2. CASE n # 0
      <4>1. n \in 1..l /\ n - 1 \in 0..l
        BY <3>2
      <4>2. u[n] = v[n] % M /\ u[n - 1] = v[n - 1] % M
        BY <4>1
      <4> HIDE DEF u
      <4>3. QED
        BY <1>5, <3>2, <4>1, <4>2
    <3>3. QED
      BY <3>1, <3>2
  <2>2. u = [n \in 0..l |-> u[n]]
    OBVIOUS
  <2> HIDE DEF u
  <2>3. u = [n \in 0..l |-> IF n = 0 THEN 0 ELSE (u[n - 1] * 10 + s[n]) % M]
    BY <2>1, <2>2
  <2>4. QED
    BY <1>4, <2>3
<1>8. PICK h : h = CHOOSE g : Is(g)
  OBVIOUS
<1>9. h = [n \in 0..l |-> IF n = 0 THEN 0 ELSE (h[n - 1] * 10 + s[n]) % M]
  <2>1. Is(h)
    BY <1>7, <1>8
  <2>2. QED
    BY <1>4, <2>1
<1>10. \A n \in 0..l : h[n] = IF n = 0 THEN 0 ELSE (h[n - 1] * 10 + s[n]) % M
  BY <1>9
<1> DEFINE T == {n \in 0..l : h[n] = v[n] % M}
<1>11. 0 \in T
  BY <1>2, <1>6, <1>10
<1>12. ASSUME NEW n \in 1..l, n - 1 \in T PROVE n \in T
  <2>1. h[n] = (h[n - 1] * 10 + s[n]) % M
    BY <1>10
  <2>2. QED
    BY <1>5, <1>12, <2>1
<1>13. l \in T
  <2> HIDE DEF T
  <2>1. \A n \in 0..l : n \in T
    BY <1>11, <1>12, UpTo
  <2>2. QED
    BY <2>1
<1>14. h[l] = k % M
  BY <1>2, <1>13
<1>15. QED
  BY <1>1, <1>3, <1>8, <1>14, Zenon

LEMMA NumeralsAreRead ==
  ASSUME NEW a \in Words
  PROVE  Atoi(Itoa(a)) = a
<1>0. M \in Nat \ {0} /\ M = Power[W] /\ Words = 0..(M - 1)
  BY Sizes DEF M
<1>1. PICK i \in Int : i = Signed(a, W)
  BY <1>0, SignedIs
<1> DEFINE Is(h) ==
      h = [j \in (-M)..M |->
             (IF (IF j >= 0 THEN j \div 10 ELSE -((-j) \div 10)) = 0 THEN <<>>
              ELSE h[IF j >= 0 THEN j \div 10 ELSE -((-j) \div 10)])
             \o <<IF j >= 0 THEN j - (IF j >= 0 THEN j \div 10 ELSE -((-j) \div 10)) * 10
                  ELSE (IF j >= 0 THEN j \div 10 ELSE -((-j) \div 10)) * 10 - j>>]
<1>2. Itoa(a) = [minus |-> Negative(a, W), digits |-> (CHOOSE h : Is(h))[i]]
  BY <1>1, Zenon DEF Itoa
<1>3. \A h : Is(h) <=> Numeral(h, M)
  BY Zenon DEF Numeral, Tenth, Digit
<1> HIDE DEF Is
<1>4. PICK h : h = CHOOSE g : Is(g)
  OBVIOUS
<1>5. Numeral(h, M)
  <2>1. \E g : Is(g)
    BY <1>0, <1>3, WrittenExists
  <2>2. Is(h)
    BY <1>4, <2>1
  <2>3. QED
    BY <1>3, <2>2
<1>6. PICK k \in 0..(M - 1) : k = Size(i)
  BY <1>0, <1>1, SignedIs
<1>7. i \in (-M)..M
  BY <1>0, <1>6 DEF Size
<1>8. Spells(h[i], k)
  <2>1. M \in Nat
    BY <1>0
  <2>2. QED
    BY <1>5, <1>6, <1>7, <2>1, WrittenSpells
<1>9. PICK w : w = Itoa(a)
  OBVIOUS
<1>10. w = [minus |-> (i < 0), digits |-> h[i]]
  BY <1>1, <1>2, <1>4, <1>9, Zenon DEF Negative
<1>11. w \in [minus : BOOLEAN, digits : Figures] /\ w.digits = h[i] /\ w.minus = (i < 0)
  BY <1>8, <1>10 DEF Spells
<1>12. Atoi(w) = IF i < 0 THEN Negated(k % M, W) ELSE k % M
  <2>1. k \in Nat /\ Spells(w.digits, k)
    BY <1>8, <1>11
  <2>2. Atoi(w) = IF w.minus THEN Negated(k % M, W) ELSE k % M
    BY <1>11, <2>1, AtoiIs
  <2>3. QED
    BY <1>11, <2>2
<1>13. k % M = k
  <2>1. k = M * 0 + k /\ 0 \in Int
    BY <1>0
  <2>2. QED
    BY <1>0, <2>1, DivIf
<1>14. CASE i < 0
  <2>1. k = M - a /\ i = a - M
    <3>1. i = a \/ i = a - M
      BY <1>0, <1>1 DEF Signed
    <3>2. QED
      BY <1>0, <1>6, <1>14, <3>1 DEF Size
  <2>2. -k = M * (-1) + a /\ -1 \in Int /\ a \in 0..(M - 1)
    BY <1>0, <2>1
  <2>3. (-k) % M = a
    BY <1>0, <2>2, DivIf
  <2>4. QED
    BY <1>0, <1>9, <1>12, <1>13, <1>14, <2>3 DEF Negated, Bits
<1>15. CASE ~(i < 0)
  <2>1. i = a
    <3>1. i = a \/ i = a - M
      BY <1>0, <1>1 DEF Signed
    <3>2. QED
      BY <1>0, <1>15, <3>1
  <2>2. k = a
    BY <1>6, <1>15, <2>1 DEF Size
  <2>3. QED
    BY <1>9, <1>12, <1>13, <1>15, <2>2
<1>16. QED
  BY <1>14, <1>15

LEMMA WordsExact ==
  ASSUME NEW a \in Words, NEW b \in Words
  PROVE  WordsAreExact(a, b)
<1>1. Mulsi3(a, b) = (a * b) % M
  BY Mulsi3Is
<1>2. Muldsi3(a, b) = a * b
  BY Muldsi3Is
<1>3. Atoi(Itoa(a)) = a
  BY NumeralsAreRead
<1>4. CalcDiffTime(a, b) = ((a - b) % M) - (IF a < b THEN 1 ELSE 0)
  BY CalcDiffTimeIs
<1>5. ASSUME b # 0 PROVE Udivmodsi4(a, b) = [quot |-> a \div b, rem |-> a % b]
  BY <1>5, Udivmodsi4Is
<1>6. ASSUME b # 0
      PROVE  /\ Divsi3(a, b) = Bits(Quotient(Signed(a, W), Signed(b, W)), W)
             /\ Modsi3(a, b) = Bits(Remainder(Signed(a, W), Signed(b, W)), W)
  BY <1>6, WordDivision
<1>7. QED
  BY <1>1, <1>2, <1>3, <1>4, <1>5, <1>6, Zenon DEF WordsAreExact

LEMMA DwordsExact ==
  ASSUME NEW a \in 0..(M * M - 1), NEW b \in 0..(M * M - 1)
  PROVE  DwordsAreExact(a, b)
<1>1. Muldi3(a, b) = (a * b) % (M * M)
  BY Muldi3Is
<1>2. ASSUME b # 0 PROVE Udivmoddi4(a, b) = [quot |-> a \div b, rem |-> a % b]
  BY <1>2, Udivmoddi4Is
<1>3. ASSUME b # 0
      PROVE  /\ Divdi3(a, b) = Bits(Quotient(Signed(a, 2 * W), Signed(b, 2 * W)), 2 * W)
             /\ ~Negative(b, 2 * W) =>
                  Moddi3(a, b) = Bits(Remainder(Signed(a, 2 * W), Signed(b, 2 * W)), 2 * W)
  BY <1>3, DwordDivision
<1>4. QED
  BY <1>1, <1>2, <1>3, Zenon DEF DwordsAreExact

LEMMA ShiftsExact ==
  ASSUME NEW d \in 0..(M * M - 1), NEW n \in 0..(2 * W - 1)
  PROVE  ShiftsAreExact(d, n)
<1>0. W \in Nat \ {0}
  BY Sizes
<1>1. PICK s \in 0..W : s = IF n > W THEN n - W ELSE n
  <2>1. n > W => n - W \in 0..W
    BY <1>0
  <2>2. ~(n > W) => n \in 0..W
    BY <1>0
  <2>3. QED
    BY <2>1, <2>2
<1>2. n # W => s < W
  BY <1>0, <1>1
<1>3. Ashldi3(d, n) = Ashldi3(d, s) /\ Lshrdi3(d, n) = Lshrdi3(d, s)
      /\ Ashrdi3(d, n) = Ashrdi3(d, s)
  <2>1. CASE n > W
    <3>1. s = n - W
      BY <1>1, <2>1
    <3>2. QED
      BY <2>1, <3>1, FarShifts
  <2>2. CASE ~(n > W)
    BY <1>1, <2>2
  <2>3. QED
    BY <2>1, <2>2
<1>4. Ashldi3(d, s) = (d * Power[s]) % (M * M) /\ Lshrdi3(d, s) = d \div Power[s]
  BY Ashldi3Is, Lshrdi3Is
<1>5. ASSUME n # W PROVE Ashrdi3(d, s) = Bits(Signed(d, 2 * W) \div Power[s], 2 * W)
  BY <1>2, <1>5, Ashrdi3Is
<1>6. QED
  BY <1>1, <1>3, <1>4, <1>5, Zenon DEF ShiftsAreExact

(* The arguments of a call.                                                *)
ArgsOK(c) ==
  \/ \E a, b \in Words : c = [type |-> "words", a |-> a, b |-> b]
  \/ \E a, b \in Dwords : c = [type |-> "dwords", a |-> a, b |-> b]
  \/ \E a \in Dwords, b \in 0..(2 * W - 1) : c = [type |-> "shift", a |-> a, b |-> b]

LEMMA ArgsExact == ArgsOK(args) => ArithmeticIsExact
<1> SUFFICES ASSUME ArgsOK(args) PROVE ArithmeticIsExact
  OBVIOUS
<1>0. \A d \in Dwords : d \in 0..(M * M - 1)
  BY ArithmeticAssumption
<1>1. ASSUME NEW a \in Words, NEW b \in Words, args = [type |-> "words", a |-> a, b |-> b]
      PROVE  ArithmeticIsExact
  <2>1. args.type = "words" /\ args.a = a /\ args.b = b
    BY <1>1
  <2>2. WordsAreExact(a, b)
    BY WordsExact
  <2>3. QED
    BY <2>1, <2>2 DEF ArithmeticIsExact
<1>2. ASSUME NEW a \in Dwords, NEW b \in Dwords, args = [type |-> "dwords", a |-> a, b |-> b]
      PROVE  ArithmeticIsExact
  <2>1. args.type = "dwords" /\ args.a = a /\ args.b = b
    BY <1>2
  <2>2. DwordsAreExact(a, b)
    BY <1>0, DwordsExact
  <2>3. QED
    BY <2>1, <2>2 DEF ArithmeticIsExact
<1>3. ASSUME NEW a \in Dwords, NEW b \in 0..(2 * W - 1), args = [type |-> "shift", a |-> a, b |-> b]
      PROVE  ArithmeticIsExact
  <2>1. args.type = "shift" /\ args.a = a /\ args.b = b
    BY <1>3
  <2>2. ShiftsAreExact(a, b)
    BY <1>0, ShiftsExact
  <2>3. QED
    BY <2>1, <2>2 DEF ArithmeticIsExact
<1>4. QED
  BY <1>1, <1>2, <1>3 DEF ArgsOK

(* Whatever it is called with, in words of any even number of bits, the    *)
(* library computes what C defines, but for the four cases named with      *)
(* ArithmeticIsExact; a shift by more than a word is the one by that less  *)
(* a word.                                                                 *)
THEOREM ArithmeticStaysExact == ArithmeticSpec => []ArithmeticIsExact
<1>1. ArithmeticInit => ArgsOK(args)
  <2>1. 0 \in Words
    BY Sizes
  <2>2. QED
    BY <2>1 DEF ArithmeticInit, NoArgs, ArgsOK
<1>2. ArgsOK(args) /\ [ArithmeticNext]_args => ArgsOK(args)'
  <2> SUFFICES ASSUME ArgsOK(args), [ArithmeticNext]_args PROVE ArgsOK(args')
    BY Zenon DEF ArgsOK
  <2>1. CASE ArithmeticCall
    BY <2>1, Zenon DEF ArithmeticCall, ArgsOK
  <2>2. CASE args' = NoArgs
    <3>1. 0 \in Words
      BY Sizes
    <3>2. QED
      BY <2>2, <3>1 DEF NoArgs, ArgsOK
  <2>3. CASE args' = args
    BY <2>3
  <2>4. QED
    BY <2>1, <2>2, <2>3 DEF ArithmeticNext
<1>3. QED
  BY <1>1, <1>2, ArgsExact, PTL DEF ArithmeticSpec

-----------------------------------------------------------------------------
(* The floating point arithmetic of the guests' library.                   *)

(* The powers of two that the floats are computed with.                    *)
Doubles(g, n) == g \in [0..n -> Nat \ {0}] /\ g[0] = 1 /\ \A k \in 1..n : g[k] = 2 * g[k - 1]

LEMMA DoublesExist ==
  ASSUME NEW n \in Nat
  PROVE  \E g : Doubles(g, n)
<1> DEFINE T == {m \in 0..n : \E g : Doubles(g, m)}
<1>1. 0 \in T
  <2> DEFINE g == [k \in 0..0 |-> 1]
  <2>1. Doubles(g, 0)
    BY DEF Doubles
  <2> HIDE DEF g
  <2>2. QED
    BY <2>1
<1>2. ASSUME NEW m \in 1..n, m - 1 \in T PROVE m \in T
  <2>1. PICK h : Doubles(h, m - 1)
    BY <1>2
  <2> DEFINE g == [k \in 0..m |-> IF k = m THEN 2 * h[m - 1] ELSE h[k]]
  <2>2. \A k \in 0..(m - 1) : h[k] \in Nat \ {0}
    BY <2>1 DEF Doubles
  <2>3. g \in [0..m -> Nat \ {0}] /\ g[0] = 1
    BY <2>1, <2>2 DEF Doubles
  <2>4. ASSUME NEW k \in 1..m PROVE g[k] = 2 * g[k - 1]
    BY <2>1, <2>2 DEF Doubles
  <2>5. Doubles(g, m)
    BY <2>3, <2>4 DEF Doubles
  <2> HIDE DEF g
  <2>6. QED
    BY <2>5
<1>3. \A m \in 0..n : m \in T
  <2> HIDE DEF T
  <2>1. QED
    BY <1>1, <1>2, UpTo
<1>4. QED
  BY <1>3

LEMMA DoublesAgree ==
  ASSUME NEW m \in Nat, NEW n \in Nat, m <= n, NEW g, NEW h, Doubles(g, m), Doubles(h, n)
  PROVE  g[m] = h[m]
<1> DEFINE T == {k \in 0..m : g[k] = h[k]}
<1>1. 0 \in T
  BY DEF Doubles
<1>2. ASSUME NEW k \in 1..m, k - 1 \in T PROVE k \in T
  BY <1>2 DEF Doubles
<1>3. \A k \in 0..m : k \in T
  <2> HIDE DEF T
  <2>1. QED
    BY <1>1, <1>2, UpTo
<1>4. QED
  BY <1>3

LEMMA TwoNext ==
  /\ Two[0] = 1
  /\ \A n \in Nat : Two[n] \in Nat \ {0}
  /\ \A n \in Nat : Two[n + 1] = 2 * Two[n]
<1> DEFINE g(n) == CHOOSE h : Doubles(h, n)
           f == [n \in Nat |-> g(n)[n]]
<1>1. \A n \in Nat : Doubles(g(n), n)
  BY DoublesExist
<1> HIDE DEF g
<1>2. \A n \in Nat : f[n] = g(n)[n]
  OBVIOUS
<1>3. f[0] = 1 /\ \A n \in Nat : f[n] \in Nat \ {0}
  BY <1>1, <1>2 DEF Doubles
<1>4. ASSUME NEW n \in Nat, n # 0 PROVE f[n] = 2 * f[n - 1]
  <2>1. PICK m \in Nat : n = m + 1 /\ m = n - 1
    <3>1. n - 1 \in Nat /\ n = (n - 1) + 1
      BY <1>4
    <3>2. QED
      BY <3>1
  <2>2. Doubles(g(n), n) /\ Doubles(g(m), m)
    BY <1>1
  <2>3. g(m)[m] = g(n)[m]
    BY <2>1, <2>2, DoublesAgree
  <2>4. n \in 1..n
    BY <1>4
  <2>5. g(n)[n] = 2 * g(n)[n - 1]
    BY <2>2, <2>4 DEF Doubles
  <2>6. QED
    BY <1>2, <2>1, <2>3, <2>5
<1> DEFINE Is(h) == h = [n \in Nat |-> IF n = 0 THEN 1 ELSE 2 * h[n - 1]]
<1>5. Is(f)
  <2>1. f = [n \in Nat |-> f[n]]
    OBVIOUS
  <2> HIDE DEF f
  <2>2. \A n \in Nat : f[n] = IF n = 0 THEN 1 ELSE 2 * f[n - 1]
    BY <1>3, <1>4
  <2>3. QED
    BY <2>1, <2>2
<1>6. Two = CHOOSE h : Is(h)
  BY Zenon DEF Two
<1>7. Is(Two)
  BY <1>5, <1>6
<1>8. \A n \in Nat : Two[n] = IF n = 0 THEN 1 ELSE 2 * Two[n - 1]
  <2> HIDE DEF Is
  <2>1. PICK h : h = Two
    OBVIOUS
  <2>2. h = [n \in Nat |-> IF n = 0 THEN 1 ELSE 2 * h[n - 1]]
    BY <1>7, <2>1 DEF Is
  <2>3. QED
    BY <2>1, <2>2
<1>9. \A n \in Nat : Two[n + 1] = 2 * Two[n]
  <2> SUFFICES ASSUME NEW n \in Nat PROVE Two[n + 1] = 2 * Two[n]
    OBVIOUS
  <2>1. n + 1 \in Nat /\ n + 1 # 0 /\ (n + 1) - 1 = n
    OBVIOUS
  <2>2. QED
    BY <1>8, <2>1
<1>10. ASSUME NEW n \in Nat PROVE Two[n] \in Nat \ {0}
  <2> DEFINE T == {k \in 0..n : Two[k] \in Nat \ {0}}
  <2>1. 0 \in T
    BY <1>8
  <2>2. ASSUME NEW k \in 1..n, k - 1 \in T PROVE k \in T
    <3>1. PICK p \in Nat \ {0} : p = Two[k - 1]
      BY <2>2
    <3>2. Two[k] = 2 * p
      BY <1>8, <3>1
    <3>3. QED
      BY <3>2
  <2>3. \A k \in 0..n : k \in T
    <3> HIDE DEF T
    <3>1. QED
      BY <2>1, <2>2, UpTo
  <2>4. QED
    BY <2>3
<1>11. QED
  BY <1>8, <1>9, <1>10

LEMMA TwoSum ==
  ASSUME NEW m \in Nat, NEW n \in Nat
  PROVE  Two[m + n] = Two[m] * Two[n]
<1> DEFINE T == {k \in 0..n : Two[m + k] = Two[m] * Two[k]}
<1>1. 0 \in T
  BY TwoNext
<1>2. ASSUME NEW k \in 1..n, k - 1 \in T PROVE k \in T
  <2>1. PICK j \in Nat : k = j + 1 /\ k - 1 = j
    <3>1. k - 1 \in Nat /\ k = (k - 1) + 1
      OBVIOUS
    <3>2. QED
      BY <3>1
  <2>2. PICK p \in Nat, q \in Nat : p = Two[m] /\ q = Two[j]
    BY <2>1, TwoNext
  <2>3. m + k = (m + j) + 1 /\ m + j \in Nat
    BY <2>1
  <2>4. Two[m + j] = p * q
    BY <1>2, <2>1, <2>2
  <2>5. Two[m + k] = 2 * (p * q)
    BY <2>3, <2>4, TwoNext
  <2>6. Two[k] = 2 * q
    BY <2>1, <2>2, TwoNext
  <2>7. 2 * (p * q) = p * (2 * q)
    OBVIOUS
  <2>8. QED
    BY <2>2, <2>5, <2>6, <2>7
<1>3. \A k \in 0..n : k \in T
  <2> HIDE DEF T
  <2>1. QED
    BY <1>1, <1>2, UpTo
<1>4. QED
  BY <1>3

LEMMA TwoGrows ==
  ASSUME NEW m \in Nat, NEW n \in Nat
  PROVE  /\ m <= n => Two[m] <= Two[n]
         /\ m < n => 2 * Two[m] <= Two[n]
<1>1. ASSUME NEW i \in Nat, NEW j \in Nat, i <= j PROVE Two[i] <= Two[j]
  <2>1. PICK k \in Nat : j = i + k
    <3>1. j - i \in Nat /\ j = i + (j - i)
      BY <1>1
    <3>2. QED
      BY <3>1
  <2>2. PICK p \in Nat \ {0}, q \in Nat \ {0} : p = Two[i] /\ q = Two[k]
    BY TwoNext
  <2>3. Two[j] = p * q
    BY <2>1, <2>2, TwoSum
  <2>4. p * q >= p
    BY Product
  <2>5. QED
    BY <2>2, <2>3, <2>4
<1>2. ASSUME m < n PROVE 2 * Two[m] <= Two[n]
  <2>1. Two[m + 1] <= Two[n]
    BY <1>1, <1>2
  <2>2. QED
    BY <2>1, TwoNext
<1>3. QED
  BY <1>1, <1>2

(* Floats that are not zero.                                               *)
Digits == [neg : BOOLEAN, exp : Exponents, man : Mantissas]

LEMMA FloatSizes ==
  /\ THIRD \in Nat /\ THIRD >= 4 /\ GUARD \in Nat \ {0}
  /\ PLACES \in Nat /\ PLACES = 3 * THIRD - 1 /\ PLACES >= 11 /\ WORD = PLACES + 9
  /\ EXCESS \in 1..126
  /\ HIDDEN \in Nat \ {0} /\ HIDDEN = Two[PLACES] /\ Two[PLACES + 1] = 2 * HIDDEN
  /\ Two[WORD - 1] = 256 * HIDDEN
<1>1. /\ THIRD \in Nat /\ THIRD >= 4 /\ GUARD \in Nat \ {0} /\ EXCESS \in 1..126
      /\ PLACES \in Nat /\ PLACES = 3 * THIRD - 1 /\ PLACES >= 11 /\ WORD = PLACES + 9
  BY FloatAssumption DEF PLACES, WORD
<1>2. HIDDEN \in Nat \ {0} /\ HIDDEN = Two[PLACES] /\ Two[PLACES + 1] = 2 * HIDDEN
  BY <1>1, TwoNext DEF HIDDEN
<1>3. Two[8] = 256
  <2>1. Two[1] = 2 /\ Two[2] = 4
    <3>1. Two[0 + 1] = 2 * Two[0] /\ Two[1 + 1] = 2 * Two[1] /\ Two[0] = 1
      BY TwoNext
    <3>2. QED
      BY <3>1
  <2>2. Two[2 + 2] = Two[2] * Two[2] /\ Two[4 + 4] = Two[4] * Two[4]
    BY TwoSum
  <2>3. QED
    BY <2>1, <2>2
<1>4. Two[WORD - 1] = 256 * HIDDEN
  <2>1. WORD - 1 = 8 + PLACES
    BY <1>1
  <2>2. Two[8 + PLACES] = Two[8] * Two[PLACES]
    BY <1>1, TwoSum
  <2>3. QED
    BY <1>2, <1>3, <2>1, <2>2
<1>5. QED
  BY <1>1, <1>2, <1>4

LEMMA DigitsAre ==
  ASSUME NEW x \in Digits
  PROVE  /\ x # Zero /\ x.neg \in BOOLEAN /\ x.exp \in Exponents
         /\ x.exp \in Nat /\ x.exp > PLACES /\ x.exp <= EXCESS + WORD - 1
         /\ 2 * x.exp <= 3 * EXCESS + 1 /\ x.exp + 2 <= 2 * EXCESS + 2
         /\ x.man \in 0..(HIDDEN - 1) /\ MANT(x) \in HIDDEN..(2 * HIDDEN - 1)
         /\ MANT(x) = HIDDEN + x.man
<1>1. x.exp \in Exponents /\ x.man \in Mantissas /\ x.neg \in BOOLEAN
  BY DEF Digits
<1>2. x.exp \in (PLACES + 1)..(EXCESS + WORD - 1) /\ x.man \in 0..(HIDDEN - 1)
  BY <1>1, FloatAssumption
<1>3. x.exp + x.exp - EXCESS <= 2 * EXCESS + 1
  <2>1. x.exp + x.exp - EXCESS \in 2..(2 * EXCESS + 1)
    BY <1>1, FloatAssumption
  <2>2. QED
    BY <1>2, <2>1, FloatSizes
<1>4. x.exp \in Nat /\ x.exp >= 12 /\ x.exp <= EXCESS + WORD - 1 /\ x.exp > PLACES
  BY <1>2, FloatSizes
<1>5. x # Zero
  BY <1>4 DEF Zero
<1>6. MANT(x) = HIDDEN + x.man
  BY DEF MANT
<1>7. MANT(x) \in HIDDEN..(2 * HIDDEN - 1)
  BY <1>2, <1>6, FloatSizes
<1>8. 2 * x.exp <= 3 * EXCESS + 1 /\ x.exp + 2 <= 2 * EXCESS + 2
  BY <1>3, <1>4, FloatSizes
<1>9. QED
  BY <1>1, <1>2, <1>4, <1>5, <1>6, <1>7, <1>8

LEMMA FloatsAre == \A x : x \in Floats <=> x \in Digits \/ x = Zero
BY DEF Floats, Digits

(* The bits of a float without its sign, and their order.                  *)
Weight(z) == IF z = Zero THEN 0 ELSE z.exp * HIDDEN + z.man
Key(z) == IF z = Zero THEN 0 ELSE WithSign(z.neg, z.exp * HIDDEN + z.man)

LEMMA WeightIs ==
  ASSUME NEW x \in Floats
  PROVE  /\ Weight(x) \in Nat /\ Weight(x) < Two[WORD - 1]
         /\ x.exp * HIDDEN + x.man = Weight(x)
         /\ x.neg \in BOOLEAN /\ (x.neg => Weight(x) > 0)
         /\ Key(x) = IF x.neg THEN -Weight(x) ELSE Weight(x)
<1>1. CASE x = Zero
  <2>1. x.neg = FALSE /\ x.exp = 0 /\ x.man = 0
    BY <1>1 DEF Zero
  <2>2. Weight(x) = 0 /\ Key(x) = 0
    BY <1>1 DEF Weight, Key
  <2>3. x.exp * HIDDEN + x.man = 0
    <3>1. 0 * HIDDEN + 0 = 0
      BY FloatSizes
    <3>2. QED
      BY <2>1, <3>1
  <2>4. Two[WORD - 1] > 0
    BY FloatSizes
  <2>5. x.neg \in BOOLEAN /\ ~x.neg
    BY <2>1
  <2>6. QED
    BY <2>2, <2>3, <2>4, <2>5
<1>2. CASE x \in Digits
  <2>1. PICK e \in Nat, m \in 0..(HIDDEN - 1), p \in Nat : e = x.exp /\ m = x.man /\ p = e * HIDDEN
    <3>1. x.exp \in Nat /\ x.man \in 0..(HIDDEN - 1)
      BY <1>2, DigitsAre
    <3>2. x.exp * HIDDEN \in Nat
      BY <3>1, FloatSizes
    <3>3. QED
      BY <3>1, <3>2
  <2>2. e >= 1 /\ e <= 255
    BY <1>2, <2>1, DigitsAre, FloatSizes
  <2>3. p >= HIDDEN /\ p <= 255 * HIDDEN
    <3>1. p >= HIDDEN
      BY <2>1, <2>2, FloatSizes, Product
    <3>2. PICK d \in Nat : 255 = e + d
      <4>1. 255 - e \in Nat /\ 255 = e + (255 - e)
        BY <2>2
      <4>2. QED
        BY <4>1
    <3>3. 255 * HIDDEN = p + d * HIDDEN /\ d * HIDDEN \in Nat
      BY <2>1, <3>2, FloatSizes
    <3>4. QED
      BY <2>1, <3>1, <3>3, FloatSizes
  <2>4. Weight(x) = p + m /\ Key(x) = WithSign(x.neg, p + m) /\ x.neg \in BOOLEAN
    BY <1>2, <2>1, DigitsAre DEF Weight, Key
  <2>5. QED
    BY <2>1, <2>3, <2>4, FloatSizes DEF WithSign
<1>3. QED
  BY <1>1, <1>2, FloatsAre

LEMMA KeyTells ==
  ASSUME NEW x \in Floats, NEW y \in Floats, Key(x) = Key(y)
  PROVE  x = y
<1>1. x.neg = y.neg /\ Weight(x) = Weight(y)
  BY WeightIs
<1>2. CASE x \in Digits /\ y \in Digits
  <2>1. PICK e \in Nat, m \in 0..(HIDDEN - 1) : e = x.exp /\ m = x.man
    BY <1>2, DigitsAre
  <2>2. PICK f \in Nat, n \in 0..(HIDDEN - 1) : f = y.exp /\ n = y.man
    BY <1>2, DigitsAre
  <2>3. e * HIDDEN + m = f * HIDDEN + n
    BY <1>1, <2>1, <2>2, WeightIs
  <2>4. HIDDEN * e + m = HIDDEN * f + n
    BY <2>3, FloatSizes
  <2>5. e = f /\ m = n
    <3>1. PICK h \in Nat \ {0} : h = HIDDEN
      BY FloatSizes
    <3>2. e \in Int /\ f \in Int /\ m \in 0..(h - 1) /\ n \in 0..(h - 1)
      BY <3>1
    <3>3. (h * e + m) \div h = e /\ (h * e + m) % h = m
      BY <3>2, DivUnique
    <3>4. (h * f + n) \div h = f /\ (h * f + n) % h = n
      BY <3>2, DivUnique
    <3>5. QED
      BY <2>4, <3>1, <3>3, <3>4
  <2>6. x = [neg |-> x.neg, exp |-> x.exp, man |-> x.man] /\ y = [neg |-> y.neg, exp |-> y.exp, man |-> y.man]
    BY <1>2 DEF Digits
  <2>7. QED
    BY <1>1, <2>1, <2>2, <2>5, <2>6
<1>3. ASSUME NEW z \in Digits PROVE Weight(z) > 0
  <2>1. PICK e \in Nat, m \in Nat, p \in Nat : e = z.exp /\ m = z.man /\ p = e * HIDDEN
    <3>1. z.exp \in Nat /\ z.man \in 0..(HIDDEN - 1)
      BY DigitsAre
    <3>2. z.exp * HIDDEN \in Nat
      BY <3>1, FloatSizes
    <3>3. QED
      BY <3>1, <3>2
  <2>2. e > 0
    BY <2>1, DigitsAre, FloatSizes
  <2>3. p > 0
    BY <2>1, <2>2, FloatSizes, Product
  <2>4. QED
    BY <2>1, <2>3, DigitsAre DEF Weight
<1>4. Weight(Zero) = 0
  BY DEF Weight
<1>5. QED
  BY <1>1, <1>2, <1>3, <1>4, FloatsAre

Sides(i, j) == IF i < j THEN -1 ELSE IF i > j THEN 1 ELSE 0

LEMMA CmpIs ==
  ASSUME NEW x \in Floats, NEW y \in Floats
  PROVE  Cmpsf2(x, y) = Sides(Key(x), Key(y))
<1>1. PICK a \in Nat, b \in Nat, c \in Nat : a = Weight(x) /\ b = Weight(y) /\ c = Two[WORD - 1]
  BY WeightIs, FloatSizes
<1>2. a < c /\ b < c /\ x.neg \in BOOLEAN /\ y.neg \in BOOLEAN /\ (x.neg => a > 0) /\ (y.neg => b > 0)
  BY <1>1, WeightIs
<1>3. Key(x) = (IF x.neg THEN -a ELSE a) /\ Key(y) = (IF y.neg THEN -b ELSE b)
  BY <1>1, WeightIs
<1>4. Cmpsf2(x, y) = IF x.neg /\ y.neg THEN Sides(b, a)
                     ELSE Sides(IF x.neg THEN a - c ELSE a, IF y.neg THEN b - c ELSE b)
  <2>1. x.exp * HIDDEN + x.man = a /\ y.exp * HIDDEN + y.man = b
    BY <1>1, WeightIs
  <2>2. QED
    BY <1>1, <2>1 DEF Cmpsf2, Sides
<1>5. QED
  BY <1>2, <1>3, <1>4 DEF Sides

LEMMA OrderExact ==
  ASSUME NEW x \in Floats, NEW y \in Floats
  PROVE  OrderIsExact(x, y)
<1>1. PICK k \in Int, l \in Int : k = Key(x) /\ l = Key(y)
  BY WeightIs
<1>2. Cmpsf2(x, y) = Sides(k, l)
  BY <1>1, CmpIs
<1>3. /\ (Ltsf2(x, y) < 0) <=> k < l
      /\ (Lesf2(x, y) <= 0) <=> k <= l
      /\ (Gtsf2(x, y) > 0) <=> k > l
      /\ (Gesf2(x, y) >= 0) <=> k >= l
  BY <1>2 DEF Ltsf2, Lesf2, Gtsf2, Gesf2, Sides
<1>4. (Eqsf2(x, y) = 0) <=> k = l
  BY <1>1, KeyTells DEF Eqsf2
<1>5. QED
  BY <1>1, <1>3, <1>4 DEF OrderIsExact, Key

LEMMA Exactly ==
  ASSUME NEW x \in Int, NEW d \in Nat \ {0}
  PROVE  (x * d) \div d = x
<1>1. 0 \in 0..(d - 1)
  OBVIOUS
<1>2. (d * x + 0) \div d = x
  BY <1>1, DivUnique
<1>3. d * x + 0 = x * d
  OBVIOUS
<1>4. QED
  BY <1>2, <1>3

LEMMA FixIs ==
  ASSUME NEW x \in Digits
  PROVE  Fixsfsi(x) = CutOff(x)
<1>0. PICK m \in Nat : m = MANT(x)
  BY DigitsAre, FloatSizes
<1>1. PICK e \in Int, shift \in Nat :
        /\ e = x.exp - EXCESS - 1 - PLACES /\ shift = EXCESS + WORD - 1 - x.exp /\ e + shift = 7
        /\ (shift >= WORD - 1 <=> -e > PLACES)
  <2>1. /\ x.exp - EXCESS - 1 - PLACES \in Int /\ EXCESS + WORD - 1 - x.exp \in Nat
        /\ x.exp - EXCESS - 1 - PLACES + (EXCESS + WORD - 1 - x.exp) = 7
    BY DigitsAre, FloatSizes
  <2>2. \A e \in Int, shift \in Nat : e + shift = 7 => (shift >= WORD - 1 <=> -e > PLACES)
    BY FloatSizes
  <2>3. QED
    BY <2>1, <2>2
<1>2. WORD - 2 - PLACES = 7
  BY FloatSizes
<1>3. Fixsfsi(x) = WithSign(x.neg, IF shift >= WORD - 1 THEN 0 ELSE (m * Two[7]) \div Two[shift])
  BY <1>0, <1>1, <1>2 DEF Fixsfsi
<1>4. CutOff(x) = WithSign(x.neg, IF e >= 0 THEN m * Two[e] ELSE IF -e > PLACES THEN 0 ELSE m \div Two[-e])
  BY <1>0, <1>1, DigitsAre DEF CutOff
<1>5. CASE e >= 0
  <2>1. e \in Nat /\ 7 = e + shift
    BY <1>1, <1>5
  <2>2. PICK p \in Nat \ {0}, q \in Nat \ {0} : p = Two[e] /\ q = Two[shift] /\ Two[7] = p * q
    <3>1. Two[e + shift] = Two[e] * Two[shift]
      BY <2>1, TwoSum
    <3>2. QED
      BY <2>1, <3>1, TwoNext
  <2>3. m * (p * q) = (m * p) * q
    OBVIOUS
  <2>4. m * p \in Int
    OBVIOUS
  <2>5. ((m * p) * q) \div q = m * p
    BY <2>4, Exactly
  <2>6. ~(shift >= WORD - 1)
    BY <1>1, <1>5, FloatSizes
  <2>7. QED
    BY <1>3, <1>4, <1>5, <2>2, <2>3, <2>5, <2>6
<1>6. CASE ~(e >= 0)
  <2>1. PICK n \in Nat : n = -e /\ shift = 7 + n
    <3>1. -e \in Nat /\ shift = 7 + (-e)
      BY <1>1, <1>6
    <3>2. QED
      BY <3>1
  <2>2. PICK p \in Nat \ {0}, q \in Nat \ {0} : p = Two[7] /\ q = Two[n] /\ Two[shift] = p * q
    <3>1. 7 \in Nat /\ Two[7 + n] = Two[7] * Two[n]
      BY TwoSum
    <3>2. QED
      BY <2>1, <3>1, TwoNext
  <2>3. m * p \in Int
    OBVIOUS
  <2>4. ((m * p) \div p) \div q = (m * p) \div (p * q)
    BY <2>3, DivDiv
  <2>5. (m * p) \div p = m
    BY Exactly
  <2>6. QED
    BY <1>1, <1>3, <1>4, <1>6, <2>1, <2>2, <2>4, <2>5
<1>7. QED
  BY <1>5, <1>6

LEMMA MaxIs ==
  ASSUME NEW n \in Nat, NEW S \in SUBSET (0..n), S # {}
  PROVE  Max(S) \in S /\ \A y \in S : y <= Max(S)
<1> DEFINE T == {n - y : y \in S}
<1>1. PICK t \in T : \A u \in T : t <= u
  <2>1. T \in SUBSET Nat /\ T # {}
    <3>1. \A y \in S : y \in 0..n /\ n - y \in Nat
      OBVIOUS
    <3>2. PICK y \in S : TRUE
      OBVIOUS
    <3>3. n - y \in T
      OBVIOUS
    <3>4. \A u \in T : u \in Nat
      BY <3>1
    <3>5. QED
      BY <3>3, <3>4
  <2> HIDE DEF T
  <2>2. QED
    BY <2>1, LeastNatural
<1>2. PICK x \in S : t = n - x
  BY <1>1
<1>3. \A y \in S : y <= x
  <2> SUFFICES ASSUME NEW y \in S PROVE y <= x
    OBVIOUS
  <2>1. n - x <= n - y
    BY <1>1, <1>2
  <2>2. QED
    BY <2>1
<1>4. Max(S) = CHOOSE z \in S : \A y \in S : z >= y
  BY DEF Max
<1>5. \A y \in S : x >= y
  BY <1>3
<1>6. QED
  BY <1>4, <1>5

LEMMA MaxOf ==
  ASSUME NEW n \in Nat, NEW S \in SUBSET (0..n), NEW x \in S, \A y \in S : y <= x
  PROVE  Max(S) = x
<1>1. Max(S) \in S /\ \A y \in S : y <= Max(S)
  BY MaxIs
<1>2. PICK y \in 0..n : y = Max(S)
  BY <1>1
<1>3. x <= y /\ y <= x
  BY <1>1, <1>2
<1>4. QED
  BY <1>2, <1>3

(* The highest digit.                                                      *)
LEMMA TopIs ==
  ASSUME NEW s \in Nat \ {0}, NEW n \in Nat, s < Two[n]
  PROVE  \E t \in Nat : /\ t < n /\ Two[t] <= s /\ s < Two[t + 1]
                        /\ \A k \in Nat : Two[k] <= s <=> k <= t
                        /\ t = Max({k \in 0..n : Two[k] <= s})
<1> DEFINE S == {k \in 0..n : Two[k] <= s}
<1>1. S \in SUBSET (0..n) /\ 0 \in S
  BY TwoNext
<1>2. PICK t \in S : t = Max(S) /\ \A y \in S : y <= t
  <2> HIDE DEF S
  <2>1. QED
    BY <1>1, MaxIs
<1>3. t \in Nat /\ Two[t] <= s /\ t # n /\ t < n
  <2>1. t # n
    BY <1>2, TwoNext
  <2>2. QED
    BY <1>2, <2>1
<1>4. s < Two[t + 1]
  <2>1. t + 1 \in 0..n /\ t + 1 \notin S
    BY <1>2, <1>3
  <2>2. PICK c \in Nat : c = Two[t + 1]
    BY <1>3, TwoNext
  <2>3. ~(c <= s)
    BY <2>1, <2>2
  <2>4. QED
    BY <2>2, <2>3
<1>5. ASSUME NEW k \in Nat PROVE Two[k] <= s <=> k <= t
  <2>0. t \in Nat /\ t + 1 \in Nat
    BY <1>3
  <2>1. PICK a \in Nat, b \in Nat, c \in Nat : a = Two[k] /\ b = Two[t] /\ c = Two[t + 1]
    <3>1. Two[k] \in Nat /\ Two[t] \in Nat /\ Two[t + 1] \in Nat
      BY <2>0, TwoNext
    <3>2. QED
      BY <3>1
  <2>2. k <= t => a <= b
    BY <1>3, <2>1, TwoGrows
  <2>3. t + 1 <= k => c <= a
    BY <1>3, <2>1, TwoGrows
  <2>4. QED
    BY <1>3, <1>4, <2>1, <2>2, <2>3
<1>6. QED
  BY <1>2, <1>3, <1>4, <1>5

Lowest(s) == Max({0} \cup {k - PLACES : k \in {n \in PLACES..WORD : Two[n] <= s}})

LEMMA LowestIs ==
  ASSUME NEW s \in Nat, NEW t \in Nat, t <= WORD, \A k \in Nat : Two[k] <= s <=> k <= t
  PROVE  Lowest(s) = IF t >= PLACES THEN t - PLACES ELSE 0
<1> DEFINE S == {0} \cup {k - PLACES : k \in {n \in PLACES..WORD : Two[n] <= s}}
           x == IF t >= PLACES THEN t - PLACES ELSE 0
<1>0. PLACES \in Nat /\ WORD = PLACES + 9
  BY FloatSizes
<1>1. \A k \in PLACES..WORD : Two[k] <= s <=> k <= t
  BY <1>0
<1>2. x \in S
  <2>1. CASE t >= PLACES
    <3>1. t \in PLACES..WORD /\ Two[t] <= s
      BY <1>0, <1>1, <2>1
    <3>2. QED
      BY <2>1, <3>1
  <2>2. CASE ~(t >= PLACES)
    BY <2>2
  <2>3. QED
    BY <2>1, <2>2
<1>3. \A y \in S : y \in 0..9 /\ y <= x
  <2> SUFFICES ASSUME NEW y \in S PROVE y \in 0..9 /\ y <= x
    OBVIOUS
  <2>1. CASE y = 0
    BY <1>0, <2>1
  <2>2. ASSUME NEW k \in PLACES..WORD, Two[k] <= s, y = k - PLACES PROVE y \in 0..9 /\ y <= x
    <3>1. k <= t
      BY <1>1, <2>2
    <3>2. QED
      BY <1>0, <2>2, <3>1
  <2>3. QED
    BY <2>1, <2>2
<1>4. Lowest(s) = Max(S)
  BY DEF Lowest
<1> HIDE DEF S, x
<1>5. S \in SUBSET (0..9)
  BY <1>3
<1>6. Max(S) = x
  BY <1>2, <1>3, <1>5, MaxOf
<1>7. QED
  BY <1>4, <1>6 DEF x

(* The float made of a sign, an exponent and a mantissa.                   *)
LEMMA PackIs ==
  ASSUME NEW n \in BOOLEAN, NEW e \in Nat \ {0}, NEW m \in HIDDEN..(2 * HIDDEN - 1)
  PROVE  /\ PACK(n, e, m).neg = n /\ PACK(n, e, m).exp = e /\ MANT(PACK(n, e, m)) = m
         /\ PACK(n, e, m) # Zero
         /\ PACK(n, e, m).man \in 0..(HIDDEN - 1)
<1>1. PACK(n, e, m).neg = n /\ PACK(n, e, m).exp = e /\ PACK(n, e, m).man = m - HIDDEN
  BY DEF PACK
<1>2. PACK(n, e, m) # Zero
  BY <1>1 DEF Zero
<1>3. MANT(PACK(n, e, m)) = m /\ m - HIDDEN \in 0..(HIDDEN - 1)
  BY <1>1, FloatSizes DEF MANT
<1>4. QED
  BY <1>1, <1>2, <1>3

LEMMA WordIs ==
  ASSUME NEW i \in FloatWords
  PROVE  CutOff(Floatsisf(i)) = WithSign(i < 0, (SizeOf(i) \div Two[Lowest(SizeOf(i))]) * Two[Lowest(SizeOf(i))])
<1>0. i \in Int /\ SizeOf(i) \in Nat /\ SizeOf(i) < Two[WORD - 1] /\ WORD - 1 \in Nat
  <2>1. PICK c \in Nat : c = Two[WORD - 1]
    BY FloatSizes
  <2>2. i \in (1 - c)..(c - 1)
    BY <2>1, FloatAssumption
  <2>3. QED
    BY <2>1, <2>2, FloatSizes DEF SizeOf
<1>1. CASE i = 0
  <2>1. Floatsisf(i) = Zero /\ CutOff(Zero) = 0 /\ SizeOf(i) = 0
    BY <1>1 DEF Floatsisf, CutOff, SizeOf
  <2>2. Lowest(0) = 0
    <3>1. \A n \in PLACES..WORD : ~(Two[n] <= 0)
      <4> SUFFICES ASSUME NEW n \in PLACES..WORD PROVE ~(Two[n] <= 0)
        OBVIOUS
      <4>1. n \in Nat
        BY FloatSizes
      <4>2. Two[n] \in Nat \ {0}
        BY <4>1, TwoNext
      <4>3. QED
        BY <4>2
    <3>2. {n \in PLACES..WORD : Two[n] <= 0} = {}
      BY <3>1
    <3>3. Lowest(0) = Max({0})
      BY <3>2 DEF Lowest
    <3>4. {0} \in SUBSET (0..0) /\ 0 \in {0} /\ \A y \in {0} : y <= 0
      OBVIOUS
    <3>5. QED
      BY <3>3, <3>4, MaxOf
  <2>3. (0 \div Two[0]) * Two[0] = 0
    <3>1. Two[0] = 1
      BY TwoNext
    <3>2. (0 \div 1) * 1 = 0
      OBVIOUS
    <3>3. QED
      BY <3>1, <3>2
  <2>4. QED
    BY <1>1, <2>1, <2>2, <2>3 DEF WithSign
<1>2. CASE i # 0
  <2>1. PICK s \in Nat \ {0} : s = SizeOf(i)
    BY <1>0, <1>2 DEF SizeOf
  <2>2. PICK t \in Nat :
          /\ t < WORD - 1 /\ Two[t] <= s /\ s < Two[t + 1]
          /\ \A k \in Nat : Two[k] <= s <=> k <= t
          /\ t = Max({k \in 0..(WORD - 1) : Two[k] <= s})
    BY <1>0, <2>1, TopIs
  <2>3. Lowest(s) = IF t >= PLACES THEN t - PLACES ELSE 0
    <3>1. t <= WORD
      BY <2>2, FloatSizes
    <3>2. QED
      BY <2>2, <3>1, LowestIs
  <2> DEFINE mant == IF t >= PLACES THEN s \div Two[t - PLACES] ELSE s * Two[PLACES - t]
  <2>4. Floatsisf(i) = PACK(i < 0, EXCESS + 1 + t, mant)
    BY <1>2, <2>1, <2>2 DEF Floatsisf
  <2>5. PICK n \in BOOLEAN : n = (i < 0)
    <3>1. CASE i < 0
      <4>1. (i < 0) = TRUE
        BY <3>1
      <4>2. QED
        BY <4>1
    <3>2. CASE ~(i < 0)
      <4>1. (i < 0) = FALSE
        BY <3>2
      <4>2. QED
        BY <4>1
    <3>3. QED
      BY <3>1, <3>2
  <2>6. EXCESS + 1 + t \in Nat \ {0} /\ EXCESS + 1 + t - EXCESS - 1 - PLACES = t - PLACES
    BY FloatSizes
  <2>7. PICK h \in Nat \ {0} : h = HIDDEN /\ h = Two[PLACES]
    BY FloatSizes
  <2>8. CASE t >= PLACES
    <3>1. PICK l \in Nat : l = t - PLACES /\ t = PLACES + l
      <4>1. t - PLACES \in Nat /\ t = PLACES + (t - PLACES)
        BY <2>8, FloatSizes
      <4>2. QED
        BY <4>1
    <3>2. PICK p \in Nat \ {0} : p = Two[l]
      BY TwoNext
    <3>3. Two[t] = h * p /\ Two[t + 1] = 2 * (h * p)
      <4>1. Two[PLACES + l] = Two[PLACES] * Two[l]
        BY FloatSizes, TwoSum
      <4>2. QED
        BY <2>7, <3>1, <3>2, <4>1, TwoNext
    <3>4. PICK q \in Nat, r \in 0..(p - 1) : q = s \div p /\ s = p * q + r
      BY DivIs
    <3>5. h <= q /\ q <= 2 * h - 1
      <4>1. h * p <= p * q + r /\ p * q + r < 2 * (h * p)
        BY <2>2, <3>3, <3>4
      <4>2. ASSUME q < h PROVE FALSE
        <5>1. PICK d \in Nat : h = q + 1 + d
          <6>1. h - q - 1 \in Nat /\ h = q + 1 + (h - q - 1)
            BY <4>2
          <6>2. QED
            BY <6>1
        <5>2. h * p = p * q + p + d * p /\ d * p \in Nat
          BY <5>1
        <5>3. QED
          BY <4>1, <5>2
      <4>3. ASSUME q >= 2 * h PROVE FALSE
        <5>1. PICK d \in Nat : q = 2 * h + d
          <6>1. q - 2 * h \in Nat /\ q = 2 * h + (q - 2 * h)
            BY <4>3
          <6>2. QED
            BY <6>1
        <5>2. p * q = 2 * (h * p) + p * d /\ p * d \in Nat
          BY <5>1
        <5>3. QED
          BY <4>1, <5>2
      <4>4. QED
        BY <4>2, <4>3
    <3>6. mant = q /\ q \in HIDDEN..(2 * HIDDEN - 1)
      <4>1. mant = s \div Two[t - PLACES]
        BY <2>8
      <4>2. mant = q
        BY <3>1, <3>2, <3>4, <4>1
      <4>3. QED
        BY <2>7, <3>5, <4>2
    <3>7. PICK z : z = PACK(n, EXCESS + 1 + t, q)
      OBVIOUS
    <3>8. z.neg = n /\ z.exp = EXCESS + 1 + t /\ MANT(z) = q /\ z # Zero
      BY <2>6, <3>6, <3>7, PackIs
    <3>9. z.exp - EXCESS - 1 - PLACES = l
      BY <3>1, <3>8, FloatSizes
    <3>10. CutOff(z) = WithSign(n, q * p)
      BY <3>2, <3>8, <3>9 DEF CutOff
    <3>11. Lowest(s) = l
      BY <2>3, <2>8, <3>1
    <3> HIDE DEF mant
    <3>12. QED
      BY <2>1, <2>4, <2>5, <3>2, <3>4, <3>6, <3>7, <3>10, <3>11
  <2>9. CASE ~(t >= PLACES)
    <3>1. PICK l \in Nat \ {0} : l = PLACES - t /\ PLACES = t + l /\ l <= PLACES
      <4>1. PLACES - t \in Nat \ {0} /\ PLACES = t + (PLACES - t) /\ PLACES - t <= PLACES
        BY <2>9, FloatSizes
      <4>2. QED
        BY <4>1
    <3>2. PICK p \in Nat \ {0}, a \in Nat : p = Two[l] /\ a = Two[t]
      BY TwoNext
    <3>3. h = a * p /\ Two[t + 1] = 2 * a
      <4>1. Two[t + l] = Two[t] * Two[l]
        BY TwoSum
      <4>2. QED
        BY <2>7, <3>1, <3>2, <4>1, TwoNext
    <3>4. PICK q \in Nat : q = s * p
      OBVIOUS
    <3>5. h <= q /\ q <= 2 * h - 1
      <4>1. PICK d \in Nat, f \in Nat : s = a + d /\ 2 * a = s + 1 + f
        <5>1. s - a \in Nat /\ 2 * a - s - 1 \in Nat /\ s = a + (s - a) /\ 2 * a = s + 1 + (2 * a - s - 1)
          BY <2>2, <3>2, <3>3
        <5>2. QED
          BY <5>1
      <4>2. q = h + d * p /\ d * p \in Nat
        BY <3>3, <3>4, <4>1
      <4>3. 2 * h = q + p + f * p /\ f * p \in Nat
        <5>1. 2 * h = (2 * a) * p
          BY <3>3
        <5>2. (s + 1 + f) * p = s * p + p + f * p
          OBVIOUS
        <5>3. QED
          BY <3>4, <4>1, <5>1, <5>2
      <4>4. QED
        BY <4>2, <4>3
    <3>6. mant = q /\ q \in HIDDEN..(2 * HIDDEN - 1)
      BY <2>7, <2>9, <3>1, <3>2, <3>4, <3>5
    <3>7. PICK z : z = PACK(n, EXCESS + 1 + t, q)
      OBVIOUS
    <3>8. z.neg = n /\ z.exp = EXCESS + 1 + t /\ MANT(z) = q /\ z # Zero
      BY <2>6, <3>6, <3>7, PackIs
    <3>9. PICK e \in Int : e = z.exp - EXCESS - 1 - PLACES /\ ~(e >= 0) /\ -e = l /\ ~(-e > PLACES)
      <4>1. z.exp - EXCESS - 1 - PLACES = t - PLACES
        BY <3>8, FloatSizes
      <4>2. t - PLACES \in Int /\ ~(t - PLACES >= 0) /\ -(t - PLACES) = l /\ ~(l > PLACES)
        BY <3>1, FloatSizes
      <4>3. QED
        BY <4>1, <4>2
    <3>10. CutOff(z) = WithSign(n, q \div p)
      <4>1. CutOff(z) = WithSign(z.neg, MANT(z) \div Two[-e])
        BY <3>8, <3>9 DEF CutOff
      <4>2. QED
        BY <3>2, <3>8, <3>9, <4>1
    <3>11. q \div p = s
      BY <3>4, Exactly
    <3>12. Lowest(s) = 0 /\ (s \div Two[0]) * Two[0] = s
      <4>1. Two[0] = 1
        BY TwoNext
      <4>2. (s \div 1) * 1 = s
        OBVIOUS
      <4>3. QED
        BY <2>3, <2>9, <4>1, <4>2
    <3> HIDE DEF mant
    <3>13. QED
      BY <2>1, <2>4, <2>5, <3>6, <3>7, <3>10, <3>11, <3>12
  <2>10. QED
    BY <2>8, <2>9
<1>3. QED
  BY <1>1, <1>2

(* The quotient, by repeated subtraction.                                  *)
SubtractStates == [result : Nat, rem : Nat]
SubtractStep(d, den) ==
  [result |-> d.result * 2 + (IF d.rem >= den THEN 1 ELSE 0),
   rem |-> 2 * (IF d.rem >= den THEN d.rem - den ELSE d.rem)]
Subtracted(num, den) ==
  LET div[i \in 0..(PLACES + 2)] ==
        IF i = 0 THEN [result |-> 0, rem |-> num] ELSE SubtractStep(div[i - 1], den)
  IN div[PLACES + 2].result

LEMMA SubtractStepIs ==
  ASSUME NEW d \in SubtractStates, NEW den \in Nat \ {0}
  PROVE  LET y == SubtractStep(d, den)
         IN /\ y \in SubtractStates
            /\ y.rem + 2 * (den * y.result) = 2 * (d.rem + 2 * (den * d.result))
            /\ d.rem < 2 * den => y.rem < 2 * den
<1>1. PICK q \in Nat, r \in Nat : q = d.result /\ r = d.rem
  BY DEF SubtractStates
<1>2. PICK y : y = SubtractStep(d, den)
  OBVIOUS
<1>3. CASE r >= den
  <2>1. y = [result |-> q * 2 + 1, rem |-> 2 * (r - den)]
    BY <1>1, <1>2, <1>3 DEF SubtractStep
  <2>2. r - den \in Nat
    BY <1>3
  <2>3. y \in SubtractStates /\ y.result = q * 2 + 1 /\ y.rem = 2 * (r - den)
    BY <2>1, <2>2 DEF SubtractStates
  <2>4. den * (q * 2 + 1) = 2 * (den * q) + den
    OBVIOUS
  <2>5. PICK p \in Nat : p = den * q
    BY Product
  <2>6. 2 * (r - den) + 2 * (2 * p + den) = 2 * (r + 2 * p)
    OBVIOUS
  <2>7. y.rem + 2 * (den * y.result) = 2 * (d.rem + 2 * (den * d.result))
    BY <1>1, <2>3, <2>4, <2>5, <2>6
  <2>8. r < 2 * den => 2 * (r - den) < 2 * den
    BY <2>2
  <2>9. QED
    BY <1>1, <1>2, <2>3, <2>7, <2>8
<1>4. CASE ~(r >= den)
  <2>1. y = [result |-> q * 2 + 0, rem |-> 2 * r]
    BY <1>1, <1>2, <1>4 DEF SubtractStep
  <2>2. y \in SubtractStates /\ y.result = q * 2 /\ y.rem = 2 * r
    BY <2>1 DEF SubtractStates
  <2>3. den * (q * 2) = 2 * (den * q)
    OBVIOUS
  <2>4. PICK p \in Nat : p = den * q
    BY Product
  <2>5. 2 * r + 2 * (2 * p) = 2 * (r + 2 * p)
    OBVIOUS
  <2>6. y.rem + 2 * (den * y.result) = 2 * (d.rem + 2 * (den * d.result))
    BY <1>1, <2>2, <2>3, <2>4, <2>5
  <2>7. 2 * r < 2 * den
    BY <1>4
  <2>8. QED
    BY <1>1, <1>2, <2>2, <2>6, <2>7
<1>5. QED
  BY <1>3, <1>4

LEMMA SubtractedIs ==
  ASSUME NEW num \in Nat, NEW den \in Nat \ {0}, num < 2 * den
  PROVE  \E s \in 0..(den - 1) :
           Subtracted(num, den) \in Nat /\ 2 * (HIDDEN * num) = den * Subtracted(num, den) + s
<1>0. PICK n \in Nat : n = PLACES + 2 /\ 0 <= n
  BY FloatSizes
<1> DEFINE start == [result |-> 0, rem |-> num]
           g == [k \in 1..n |-> [x \in SubtractStates |-> SubtractStep(x, den)]]
           Is(h) == h = [i \in 0..n |-> IF i = 0 THEN start ELSE SubtractStep(h[i - 1], den)]
<1>1. Subtracted(num, den) = (CHOOSE h : Is(h))[n].result
  BY <1>0, Zenon DEF Subtracted
<1>2. \A h : Is(h) <=> h = [i \in 0..n |-> IF i = 0 THEN start ELSE SubtractStep(h[i - 1], den)]
  OBVIOUS
<1>3. \A k \in 1..n : \A x \in SubtractStates : g[k][x] = SubtractStep(x, den)
  OBVIOUS
<1>4. \A x \in SubtractStates : SubtractStep(x, den) \in SubtractStates
  BY SubtractStepIs
<1>5. start \in SubtractStates /\ start.result = 0 /\ start.rem = num
  BY DEF SubtractStates
<1> HIDE DEF g, start, Is
<1>6. \A k \in (0 + 1)..n : \A x \in SubtractStates : g[k][x] \in SubtractStates
  BY <1>3, <1>4
<1>7. PICK f \in [0..n -> SubtractStates] : Rows(f, 0, n, start, g)
  <2>1. 0 \in Nat /\ 0 <= n /\ start \in SubtractStates
    BY <1>0, <1>5
  <2>2. QED
    BY <1>6, <2>1, RowsExist
<1>8. \A i \in 0..n : f[i] = IF i = 0 THEN start ELSE SubtractStep(f[i - 1], den)
  <2> SUFFICES ASSUME NEW i \in 0..n
               PROVE  f[i] = IF i = 0 THEN start ELSE SubtractStep(f[i - 1], den)
    OBVIOUS
  <2>1. f[i] = IF i = 0 THEN start ELSE g[i][f[i - 1]]
    BY <1>7 DEF Rows
  <2>2. i # 0 => i \in 1..n /\ i - 1 \in 0..n
    OBVIOUS
  <2>3. QED
    BY <1>3, <2>1, <2>2
<1>9. Is(f)
  <2>1. f = [i \in 0..n |-> IF i = 0 THEN start ELSE SubtractStep(f[i - 1], den)]
    BY <1>8
  <2>2. QED
    BY <1>2, <2>1
<1>10. PICK h : h = CHOOSE v : Is(v)
  OBVIOUS
<1>11. h = [i \in 0..n |-> IF i = 0 THEN start ELSE SubtractStep(h[i - 1], den)]
  <2>1. Is(h)
    BY <1>9, <1>10
  <2>2. QED
    BY <1>2, <2>1
<1>12. \A i \in 0..n : h[i] = IF i = 0 THEN start ELSE SubtractStep(h[i - 1], den)
  BY <1>11
<1> DEFINE T == {i \in 0..n : /\ h[i] \in SubtractStates
                              /\ h[i].rem + 2 * (den * h[i].result) = Two[i] * num
                              /\ h[i].rem < 2 * den}
<1>13. 0 \in T
  <2>1. h[0] = start
    BY <1>12
  <2>2. num + 2 * (den * 0) = 1 * num
    OBVIOUS
  <2>3. Two[0] = 1
    BY TwoNext
  <2>4. QED
    BY <1>5, <2>1, <2>2, <2>3
<1>14. ASSUME NEW k \in 1..n, k - 1 \in T PROVE k \in T
  <2>1. PICK x : x = h[k - 1]
    OBVIOUS
  <2>2. PICK p \in Nat : p = Two[k - 1] /\ Two[k] = 2 * p
    <3>1. PICK j \in Nat : j = k - 1 /\ k = j + 1
      OBVIOUS
    <3>2. QED
      BY <3>1, TwoNext
  <2>3. x \in SubtractStates /\ x.rem + 2 * (den * x.result) = p * num /\ x.rem < 2 * den
    BY <1>14, <2>1, <2>2
  <2>4. PICK y : y = SubtractStep(x, den)
    OBVIOUS
  <2>5. y \in SubtractStates /\ y.rem + 2 * (den * y.result) = 2 * (p * num) /\ y.rem < 2 * den
    BY <2>3, <2>4, SubtractStepIs
  <2>6. h[k] = y
    BY <1>12, <2>1, <2>4
  <2>7. 2 * (p * num) = (2 * p) * num
    OBVIOUS
  <2>8. QED
    BY <2>2, <2>5, <2>6, <2>7
<1>15. n \in T
  <2> HIDE DEF T
  <2>1. \A i \in 0..n : i \in T
    BY <1>0, <1>13, <1>14, UpTo
  <2>2. QED
    BY <2>1
<1>16. PICK q \in Nat, r \in Nat : q = h[n].result /\ r + 2 * (den * q) = Two[n] * num /\ r < 2 * den
  BY <1>15 DEF SubtractStates
<1>17. Two[n] = 4 * HIDDEN
  <2>1. PICK k \in Nat : k = PLACES + 1 /\ n = k + 1
    BY <1>0, FloatSizes
  <2>2. Two[k + 1] = 2 * Two[k]
    BY TwoNext
  <2>3. QED
    BY <2>1, <2>2, FloatSizes
<1>18. PICK a \in Nat, b \in Nat : a = HIDDEN * num /\ b = den * q
  BY FloatSizes, Product
<1>19. Two[n] * num = 4 * a
  BY <1>17, <1>18, FloatSizes
<1>20. r + 2 * b = 4 * a
  BY <1>16, <1>18, <1>19
<1>21. PICK s \in Int : s = 2 * a - b /\ r = 2 * s
  <2>1. 2 * a - b \in Int /\ r = 2 * (2 * a - b)
    BY <1>20
  <2>2. QED
    BY <2>1
<1>22. s \in 0..(den - 1)
  BY <1>16, <1>21
<1>23. Subtracted(num, den) = q
  BY <1>1, <1>10, <1>16
<1>24. 2 * a = b + s
  BY <1>21
<1>25. QED
  BY <1>16, <1>18, <1>22, <1>23, <1>24

LEMMA LessThan ==
  ASSUME NEW d \in Nat \ {0}, NEW x \in Int, NEW y \in Int
  PROVE  /\ d * x < d * y => x < y
         /\ x <= y => d * x <= d * y
<1>1. ASSUME NEW u \in Int, NEW v \in Int, u <= v PROVE d * u <= d * v
  <2>1. PICK e \in Nat : v = u + e
    <3>1. v - u \in Nat /\ v = u + (v - u)
      BY <1>1
    <3>2. QED
      BY <3>1
  <2>2. d * v = d * u + d * e /\ d * e \in Nat
    BY <2>1
  <2>3. QED
    BY <2>2
<1>2. ASSUME d * x < d * y PROVE x < y
  <2>1. ~(y <= x)
    <3> SUFFICES ASSUME y <= x PROVE FALSE
      OBVIOUS
    <3>1. d * y <= d * x
      BY <1>1
    <3>2. PICK i \in Int, j \in Int : i = d * x /\ j = d * y
      OBVIOUS
    <3>3. QED
      BY <1>2, <3>1, <3>2
  <2>2. QED
    BY <2>1
<1>3. QED
  BY <1>1, <1>2

(* Rounding to half a unit.                                                *)
LEMMA QuotientRounds ==
  ASSUME NEW num \in Nat, NEW den \in HIDDEN..(2 * HIDDEN - 1), den <= num, num < 2 * den
  PROVE  LET r == (Subtracted(num, den) + 1) \div 2
         IN /\ r \in HIDDEN..(2 * HIDDEN - 1)
            /\ 2 * SizeOf(r * den - HIDDEN * num) <= den
<1>1. PICK h \in Nat \ {0} : h = HIDDEN
  BY FloatSizes
<1>2. den \in Nat \ {0} /\ den < 2 * h
  BY <1>1
<1>3. PICK q \in Nat, s \in 0..(den - 1) : q = Subtracted(num, den) /\ 2 * (h * num) = den * q + s
  BY <1>1, <1>2, SubtractedIs
<1>4. PICK a \in Nat, b \in Nat, c \in Nat : a = h * num /\ b = den * q /\ c = h * den
  BY <1>2, Product
<1>5. 2 * a = b + s
  BY <1>3, <1>4
<1>6. c <= a /\ a <= 2 * c - h
  <2>1. PICK e \in Nat, f \in Nat : num = den + e /\ 2 * den = num + 1 + f
    <3>1. num - den \in Nat /\ 2 * den - num - 1 \in Nat /\ num = den + (num - den) /\ 2 * den = num + 1 + (2 * den - num - 1)
      OBVIOUS
    <3>2. QED
      BY <3>1
  <2>2. a = c + h * e /\ h * e \in Nat
    BY <1>4, <2>1
  <2>3. h * (2 * den) = h * num + h + h * f /\ h * f \in Nat
    BY <2>1
  <2>4. h * (2 * den) = 2 * c
    BY <1>4
  <2>5. QED
    BY <1>4, <2>2, <2>3, <2>4
<1>7. q < 4 * h - 1 /\ 2 * h - 1 < q
  <2>1. den * (4 * h - 1) = 4 * c - den /\ den * (2 * h - 1) = 2 * c - den
    BY <1>4
  <2>2. den * q < den * (4 * h - 1)
    BY <1>2, <1>4, <1>5, <1>6, <2>1
  <2>3. den * (2 * h - 1) < den * q
    BY <1>2, <1>4, <1>5, <1>6, <2>1
  <2>4. 4 * h - 1 \in Int /\ 2 * h - 1 \in Int
    OBVIOUS
  <2>5. QED
    BY <1>2, <2>2, <2>3, <2>4, LessThan
<1>8. PICK r \in Nat : r = (q + 1) \div 2 /\ (q = 2 * r \/ q + 1 = 2 * r)
  OBVIOUS
<1>9. r \in h..(2 * h - 1)
  BY <1>7, <1>8
<1>10. PICK p \in Nat : p = r * den
  OBVIOUS
<1>11. 2 * p = b \/ 2 * p = b + den
  <2>1. den * (2 * r) = 2 * p
    BY <1>10
  <2>2. CASE q = 2 * r
    BY <1>4, <2>1, <2>2
  <2>3. CASE q + 1 = 2 * r
    <3>1. den * (q + 1) = den * q + den
      OBVIOUS
    <3>2. QED
      BY <1>4, <2>1, <2>3, <3>1
  <2>4. QED
    BY <1>8, <2>2, <2>3
<1>12. 2 * SizeOf(p - a) <= den
  BY <1>5, <1>11 DEF SizeOf
<1>13. QED
  BY <1>1, <1>3, <1>4, <1>8, <1>9, <1>10, <1>12

LEMMA QuotientNear ==
  ASSUME NEW x \in Floats, NEW y \in Digits
  PROVE  QuotientIsNear(x, y, Divsf3(x, y))
<1>1. CASE x = Zero
  BY <1>1 DEF QuotientIsNear, Divsf3
<1>2. CASE x \in Digits
  <2>1. PICK a \in HIDDEN..(2 * HIDDEN - 1), d \in HIDDEN..(2 * HIDDEN - 1) : a = MANT(x) /\ d = MANT(y)
    BY <1>2, DigitsAre
  <2>2. PICK h \in Nat \ {0} : h = HIDDEN /\ h = Two[PLACES] /\ Two[PLACES + 1] = 2 * h
    BY FloatSizes
  <2> DEFINE less == a < d
             num == IF less THEN 2 * a ELSE a
             exp == x.exp - y.exp + EXCESS + 1 - (IF less THEN 1 ELSE 0)
             r == (Subtracted(num, d) + 1) \div 2
             z == PACK(x.neg # y.neg, exp, r)
  <2>3. Divsf3(x, y) = z
    <3>1. Divsf3(x, y) =
            IF x = Zero THEN Zero
            ELSE PACK(x.neg # y.neg,
                      x.exp - y.exp + EXCESS + 1 - (IF MANT(x) < MANT(y) THEN 1 ELSE 0),
                      (Subtracted(IF MANT(x) < MANT(y) THEN 2 * MANT(x) ELSE MANT(x), MANT(y)) + 1) \div 2)
      BY Zenon DEF Divsf3, Subtracted, SubtractStep
    <3>2. x # Zero
      BY <1>2, DigitsAre
    <3>3. QED
      BY <2>1, <3>1, <3>2, Zenon
  <2>4. num \in Nat /\ d <= num /\ num < 2 * d
    BY <2>1, <2>2
  <2> HIDE DEF num
  <2>5. r \in HIDDEN..(2 * HIDDEN - 1) /\ 2 * SizeOf(r * d - HIDDEN * num) <= d
    BY <2>4, QuotientRounds
  <2> HIDE DEF r
  <2>6. x.exp - y.exp + EXCESS \in 2..(2 * EXCESS + 1)
    BY <1>2, DigitsAre, FloatAssumption
  <2>7. exp \in 1..(2 * EXCESS + 2)
    BY <2>6, FloatSizes
  <2>8. (x.neg # y.neg) \in BOOLEAN
    BY Zenon
  <2>9. z # Zero /\ z.neg = (x.neg # y.neg) /\ z.exp = exp /\ MANT(z) = r /\ z.man \in 0..(HIDDEN - 1)
    <3>1. exp \in Nat \ {0}
      BY <2>7
    <3> HIDE DEF exp
    <3>2. PICK n \in BOOLEAN : n = (x.neg # y.neg)
      BY <2>8, Zenon
    <3>3. z = PACK(n, exp, r)
      BY <3>2, Zenon
    <3> HIDE DEF z
    <3>4. z.neg = n /\ z.exp = exp /\ MANT(z) = r /\ z # Zero /\ z.man \in 0..(HIDDEN - 1)
      BY <2>5, <3>1, <3>3, PackIs
    <3>5. QED
      BY <3>2, <3>4, Zenon
  <2>10. a * Two[PLACES + (x.exp - y.exp + EXCESS + 1 - z.exp)] = HIDDEN * num
    <3>1. CASE less
      <4>1. PLACES + (x.exp - y.exp + EXCESS + 1 - z.exp) = PLACES + 1
        BY <1>2, <2>9, <3>1, DigitsAre, FloatSizes
      <4>2. a * (2 * h) = h * (2 * a)
        BY <2>1, <2>2
      <4>3. QED
        BY <2>2, <3>1, <4>1, <4>2 DEF num
    <3>2. CASE ~less
      <4>1. PLACES + (x.exp - y.exp + EXCESS + 1 - z.exp) = PLACES
        BY <1>2, <2>9, <3>2, DigitsAre, FloatSizes
      <4>2. a * h = h * a
        BY <2>1, <2>2
      <4>3. QED
        BY <2>2, <3>2, <4>1, <4>2 DEF num
    <3>3. QED
      BY <3>1, <3>2
  <2>11. IsNormal(z)
    BY <2>7, <2>9 DEF IsNormal
  <2>12. x # Zero
    BY <1>2, DigitsAre
  <2> HIDE DEF z
  <2>13. QuotientIsNear(x, y, z)
    BY <2>1, <2>5, <2>9, <2>10, <2>11, <2>12 DEF QuotientIsNear
  <2>14. QED
    BY <2>3, <2>13
<1>3. QED
  BY <1>1, <1>2, FloatsAre

(* The product of two mantissas, but for that of their low thirds.         *)
LeavesOut(q, b, hx, hy, lx, ly) ==
  /\ q \in Nat /\ q >= hx * hy
  /\ \E rest \in 0..(3 * (b * b)) : (b * hx + lx) * (b * hy + ly) = (b * b) * q + rest

LEMMA PartialProduct ==
  ASSUME NEW b \in Nat \ {0}, NEW hx \in Nat, NEW hy \in Nat, NEW lx \in 0..(b - 1), NEW ly \in 0..(b - 1)
  PROVE  LeavesOut(hx * hy + (lx * hy) \div b + (ly * hx) \div b, b, hx, hy, lx, ly)
<1>1. PICK m \in Nat, n \in Nat, o \in Nat : m = hx * hy /\ n = lx * hy /\ o = ly * hx
  BY Product
<1>2. PICK p \in Nat, d \in 0..(b - 1) : p = n \div b /\ n = b * p + d
  BY DivIs
<1>3. PICK r \in Nat, e \in 0..(b - 1) : r = o \div b /\ o = b * r + e
  BY DivIs
<1>4. PICK q \in Nat : q = m + p + r
  OBVIOUS
<1>5. PICK c \in Nat : c = b * b
  BY Product
<1>6. b * d \in 0..c /\ b * e \in 0..c /\ lx * ly \in 0..c
  <2>1. ASSUME NEW i \in 0..(b - 1), NEW j \in 0..b PROVE i * j \in 0..c
    <3>1. PICK f \in Nat, g \in Nat : b = i + f /\ b = j + g
      <4>1. b - i \in Nat /\ b - j \in Nat /\ b = i + (b - i) /\ b = j + (b - j)
        OBVIOUS
      <4>2. QED
        BY <4>1
    <3>2. i \in Nat /\ j \in Nat
      OBVIOUS
    <3>3. b * b = i * j + i * g + f * b
      <4>1. b * b = (i + f) * b /\ (i + f) * b = i * b + f * b /\ i * b = i * (j + g)
        BY <3>1, <3>2
      <4>2. i * (j + g) = i * j + i * g
        BY <3>1, <3>2
      <4>3. QED
        BY <4>1, <4>2
    <3>4. i * j \in Nat /\ i * g \in Nat /\ f * b \in Nat
      BY <3>1, <3>2
    <3>5. PICK u \in Nat, v \in Nat, w \in Nat : u = i * j /\ v = i * g /\ w = f * b
      BY <3>4
    <3>6. c = u + v + w
      BY <1>5, <3>3, <3>5
    <3>7. u \in 0..c
      BY <3>6
    <3>8. QED
      BY <3>5, <3>7
  <2>2. d * b \in 0..c /\ e * b \in 0..c /\ lx * ly \in 0..c
    BY <2>1
  <2>3. b * d = d * b /\ b * e = e * b
    OBVIOUS
  <2>4. QED
    BY <2>2, <2>3
<1>7. PICK rest \in 0..(3 * c) : rest = b * d + b * e + lx * ly
  <2>1. PICK u \in 0..c, v \in 0..c, w \in 0..c : u = b * d /\ v = b * e /\ w = lx * ly
    BY <1>6
  <2>2. u + v + w \in 0..(3 * c)
    OBVIOUS
  <2>3. QED
    BY <2>1, <2>2
<1>8. (b * hx + lx) * (b * hy + ly) = c * q + rest
  <2>1. (b * hx + lx) * (b * hy + ly) = (b * b) * (hx * hy) + b * (lx * hy) + b * (ly * hx) + lx * ly
    OBVIOUS
  <2>2. b * n = (b * b) * p + b * d /\ b * o = (b * b) * r + b * e
    <3>1. b * (b * p + d) = (b * b) * p + b * d /\ b * (b * r + e) = (b * b) * r + b * e
      OBVIOUS
    <3>2. QED
      BY <1>2, <1>3, <3>1
  <2>3. (b * b) * m + (b * b) * p + (b * b) * r = c * q
    BY <1>4, <1>5
  <2>4. (b * hx + lx) * (b * hy + ly) = (b * b) * m + b * n + b * o + lx * ly
    BY <1>1, <2>1
  <2>5. QED
    BY <1>7, <2>2, <2>3, <2>4
<1>9. q = hx * hy + (lx * hy) \div b + (ly * hx) \div b /\ q >= hx * hy
  BY <1>1, <1>2, <1>3, <1>4
<1>10. QED
  BY <1>4, <1>5, <1>7, <1>8, <1>9 DEF LeavesOut

LEMMA HalfUnit ==
  ASSUME NEW q \in Nat, NEW u \in Nat \ {0}
  PROVE  LET r == (q \div 4 + u) \div (2 * u)
         IN r \in Nat /\ (8 * u) * r <= q + 4 * u /\ q < (8 * u) * r + 4 * u
<1>1. PICK p \in Nat, s \in 0..3 : p = q \div 4 /\ q = 4 * p + s
  OBVIOUS
<1>2. PICK w \in Nat \ {0} : w = 2 * u
  OBVIOUS
<1>3. PICK r \in Nat, t \in 0..(w - 1) : r = (p + u) \div w /\ p + u = w * r + t
  <2>1. p + u \in Nat
    OBVIOUS
  <2>2. QED
    BY <2>1, DivIs
<1>4. (8 * u) * r = 4 * (w * r)
  BY <1>2
<1>5. PICK v \in Nat : v = w * r
  BY Product
<1>6. 4 * v <= q + 4 * u /\ q < 4 * v + 4 * u
  <2>1. p + u = v + t
    BY <1>3, <1>5
  <2>2. t < 2 * u
    BY <1>2
  <2>3. QED
    BY <1>1, <2>1, <2>2
<1>7. QED
  BY <1>1, <1>2, <1>3, <1>4, <1>5, <1>6

LEMMA Thirds ==
  \E v \in Nat \ {0}, b \in Nat \ {0}, c \in Nat \ {0} :
    /\ v = Two[THIRD - 4] /\ Two[THIRD - 3] = 2 * v /\ Two[THIRD - 2] = 4 * v
    /\ b = Two[THIRD] /\ b = 16 * v /\ c = Two[2 * THIRD] /\ c = b * b
    /\ 2 * HIDDEN = c * b /\ Two[3 * THIRD] = 2 * HIDDEN
    /\ 8 * Two[4 * THIRD - 3] = c * c /\ Two[4 * THIRD - 3] \in Nat
    /\ Two[3 * THIRD - 1] = HIDDEN /\ 2 * Two[3 * THIRD - 2] = HIDDEN /\ Two[3 * THIRD - 2] \in Nat
<1>1. PICK t \in Nat : THIRD = t + 4
  <2>1. THIRD - 4 \in Nat /\ THIRD = (THIRD - 4) + 4
    BY FloatSizes
  <2>2. QED
    BY <2>1
<1>2. THIRD - 4 = t /\ THIRD - 3 = t + 1 /\ THIRD - 2 = t + 2
  BY <1>1
<1>3. PICK v \in Nat \ {0} : v = Two[t]
  BY TwoNext
<1>4. ASSUME NEW n \in Nat
      PROVE  /\ Two[n + 1] = 2 * Two[n] /\ Two[n + 2] = 4 * Two[n] /\ Two[n + 3] = 8 * Two[n]
             /\ Two[n + 4] = 16 * Two[n] /\ Two[n] \in Nat \ {0}
  <2>1. PICK m \in Nat, o \in Nat, p \in Nat : m = n + 1 /\ o = m + 1 /\ p = o + 1
    OBVIOUS
  <2>2. Two[n + 1] = 2 * Two[n] /\ Two[m + 1] = 2 * Two[m] /\ Two[o + 1] = 2 * Two[o] /\ Two[p + 1] = 2 * Two[p]
    BY TwoNext
  <2>3. n + 2 = m + 1 /\ n + 3 = o + 1 /\ n + 4 = p + 1
    BY <2>1
  <2>4. PICK w \in Nat \ {0} : w = Two[n]
    BY TwoNext
  <2>5. QED
    BY <2>1, <2>2, <2>3, <2>4
<1>5. PICK b \in Nat \ {0} : b = Two[THIRD] /\ b = 16 * v
  <2>1. Two[t + 4] = 16 * Two[t]
    BY <1>4
  <2>2. Two[THIRD] = 16 * v
    BY <1>1, <1>3, <2>1
  <2>3. QED
    BY <2>2
<1>6. THIRD \in Nat /\ 2 * THIRD \in Nat /\ 3 * THIRD - 2 \in Nat /\ 4 * THIRD - 3 \in Nat
  BY FloatSizes
<1>7. PICK c \in Nat \ {0} : c = Two[2 * THIRD] /\ c = b * b
  <2>1. 2 * THIRD = THIRD + THIRD
    BY <1>6
  <2>2. Two[THIRD + THIRD] = Two[THIRD] * Two[THIRD]
    BY <1>6, TwoSum
  <2>3. Two[2 * THIRD] \in Nat \ {0}
    BY <1>6, TwoNext
  <2>4. QED
    BY <1>5, <2>1, <2>2, <2>3
<1>8. Two[3 * THIRD] = c * b
  <2>1. 3 * THIRD = 2 * THIRD + THIRD
    BY <1>6
  <2>2. Two[2 * THIRD + THIRD] = Two[2 * THIRD] * Two[THIRD]
    BY <1>6, TwoSum
  <2>3. QED
    BY <1>5, <1>7, <2>1, <2>2
<1>9. 8 * Two[4 * THIRD - 3] = c * c
  <2>1. PICK n \in Nat : n = 4 * THIRD - 3 /\ n + 3 = 2 * THIRD + 2 * THIRD
    BY <1>6
  <2>2. Two[n + 3] = 8 * Two[n]
    BY <1>4
  <2>3. Two[2 * THIRD + 2 * THIRD] = Two[2 * THIRD] * Two[2 * THIRD]
    BY <1>6, TwoSum
  <2>4. QED
    BY <1>7, <2>1, <2>2, <2>3
<1>10. Two[3 * THIRD - 1] = HIDDEN /\ 2 * Two[3 * THIRD - 2] = HIDDEN /\ Two[3 * THIRD] = 2 * HIDDEN
  <2>1. PICK n \in Nat : n = 3 * THIRD - 2 /\ n + 1 = PLACES /\ n + 1 = 3 * THIRD - 1 /\ n + 2 = 3 * THIRD
    BY <1>6, FloatSizes
  <2>2. Two[n + 1] = 2 * Two[n] /\ Two[n + 2] = 4 * Two[n] /\ Two[n] \in Nat
    BY <1>4
  <2>3. QED
    BY <2>1, <2>2, FloatSizes
<1>11. Two[4 * THIRD - 3] \in Nat /\ Two[3 * THIRD - 2] \in Nat
  BY <1>6, TwoNext
<1>12. Two[t + 1] = 2 * v /\ Two[t + 2] = 4 * v
  BY <1>3, <1>4
<1>13. QED
  BY <1>2, <1>3, <1>5, <1>7, <1>8, <1>9, <1>10, <1>11, <1>12

(* A product that fills its mantissa, rounded.                             *)
BigRounds(r, h, c, p) == r \in h..(2 * h - 1) /\ SizeOf(r * (2 * h) - p) <= h + 3 * c

LEMMA BigProduct ==
  ASSUME NEW v \in Nat \ {0}, NEW b \in Nat \ {0}, NEW c \in Nat \ {0}, NEW h \in Nat \ {0}, NEW d \in Nat,
         b = 16 * v, c = b * b, 2 * h = c * b, 8 * d = c * c,
         NEW q \in Nat, NEW m \in h..(2 * h - 1), NEW n \in h..(2 * h - 1), NEW rest \in 0..(3 * c),
         m * n = c * q + rest, q \div 4 >= d
  PROVE  BigRounds((q \div 4 + 2 * v) \div (4 * v), h, c, m * n)
<1>1. PICK u \in Nat \ {0} : u = 2 * v /\ 2 * u = 4 * v /\ 8 * u = b /\ 4 * u = 8 * v
  OBVIOUS
<1>2. PICK r \in Nat : r = (q \div 4 + 2 * v) \div (4 * v) /\ b * r <= q + 8 * v /\ q < b * r + 8 * v
  <2>1. LET r == (q \div 4 + u) \div (2 * u)
        IN r \in Nat /\ (8 * u) * r <= q + 4 * u /\ q < (8 * u) * r + 4 * u
    BY HalfUnit
  <2>2. QED
    BY <1>1, <2>1
<1>3. PICK z \in Nat : z = b * r
  BY Product
<1>4. c * (8 * v) = h
  <2>1. c * (16 * v) = 2 * h
    BY Zenon
  <2>2. c * (16 * v) = 2 * (c * (8 * v))
    OBVIOUS
  <2>3. PICK w \in Nat : w = c * (8 * v)
    OBVIOUS
  <2>4. QED
    BY <2>1, <2>2, <2>3
<1>5. b * h = 4 * d
  <2>1. b * (c * b) = c * (b * b)
    OBVIOUS
  <2>2. b * (2 * h) = 8 * d
    BY <2>1
  <2>3. b * (2 * h) = 2 * (b * h)
    OBVIOUS
  <2>4. PICK w \in Nat : w = b * h
    BY Product
  <2>5. QED
    BY <2>2, <2>3, <2>4
<1>6. PICK x \in Nat, y \in Nat, p \in Nat : x = c * z /\ y = c * q /\ p = m * n
  BY Product
<1>7. x <= y + h /\ y <= x + h
  <2>1. c * z <= c * (q + 8 * v) /\ c * q <= c * (z + 8 * v)
    <3>1. z <= q + 8 * v /\ q <= z + 8 * v /\ q + 8 * v \in Int /\ z + 8 * v \in Int
      BY <1>2, <1>3
    <3>2. QED
      BY <3>1, LessThan
  <2>2. c * (q + 8 * v) = c * q + c * (8 * v) /\ c * (z + 8 * v) = c * z + c * (8 * v)
    OBVIOUS
  <2>3. QED
    BY <1>4, <1>6, <2>1, <2>2
<1>8. r * (2 * h) = x
  <2>1. r * (c * b) = c * (b * r)
    OBVIOUS
  <2>2. QED
    BY <1>3, <1>6, <2>1
<1>9. SizeOf(x - p) <= h + 3 * c
  <2>1. p = y + rest
    BY <1>6
  <2>2. QED
    BY <1>7, <2>1 DEF SizeOf
<1>10. r >= h
  <2>1. q >= 4 * d
    OBVIOUS
  <2>2. b * h < b * (r + 1)
    <3>1. b * (r + 1) = z + b
      BY <1>3
    <3>2. QED
      BY <1>2, <1>3, <1>5, <2>1, <3>1
  <2>3. r + 1 \in Int
    OBVIOUS
  <2>4. h < r + 1
    BY <2>2, <2>3, LessThan
  <2>5. QED
    BY <2>4
<1>11. r < 2 * h
  <2> SUFFICES ASSUME 2 * h <= r PROVE FALSE
    OBVIOUS
  <2>1. PICK g \in Nat, s \in Nat : g = 2 * h /\ s = g * g
    OBVIOUS
  <2>2. g * g <= x
    <3>1. g * g <= g * r
      BY <2>1, LessThan
    <3>2. g * r = x
      BY <1>8, <2>1
    <3>3. QED
      BY <3>1, <3>2
  <2>3. p + 2 * g <= s + 1
    <3>1. PICK e \in Nat, f \in Nat : g = m + 1 + e /\ g = n + 1 + f
      <4>1. g - m - 1 \in Nat /\ g - n - 1 \in Nat /\ g = m + 1 + (g - m - 1) /\ g = n + 1 + (g - n - 1)
        BY <2>1
      <4>2. QED
        BY <4>1
    <3>2. m \in Nat /\ n \in Nat
      OBVIOUS
    <3>3. PICK i \in Nat, j \in Nat : i = g - 1 /\ i = m + e /\ i = n + f
      BY <3>1, <3>2
    <3>4. i * i = m * n + m * f + e * i
      <4>1. i * i = (m + e) * i /\ (m + e) * i = m * i + e * i /\ m * i = m * (n + f)
        BY <3>2, <3>3
      <4>2. m * (n + f) = m * n + m * f
        BY <3>2
      <4>3. QED
        BY <4>1, <4>2
    <3>5. m * f \in Nat /\ e * i \in Nat
      BY <3>2
    <3>6. g * g = i * i + 2 * i + 1
      <4>1. g = i + 1
        BY <3>3
      <4>2. QED
        BY <4>1
    <3>7. PICK k \in Nat, l \in Nat, o \in Nat : k = m * f /\ l = e * i /\ o = i * i
      BY <3>5
    <3>8. o = p + k + l
      BY <1>6, <3>4, <3>7
    <3>9. s = o + 2 * i + 1
      BY <2>1, <3>6, <3>7
    <3>10. QED
      BY <3>3, <3>8, <3>9
  <2>4. p >= y
    BY <1>6
  <2>5. QED
    BY <1>7, <2>1, <2>2, <2>3, <2>4
<1>12. r \in h..(2 * h - 1)
  BY <1>10, <1>11
<1>13. SizeOf(r * (2 * h) - m * n) <= h + 3 * c
  BY <1>6, <1>8, <1>9
<1>14. QED
  BY <1>2, <1>12, <1>13 DEF BigRounds

LEMMA SmallProduct ==
  ASSUME NEW v \in Nat \ {0}, NEW b \in Nat \ {0}, NEW c \in Nat \ {0}, NEW h \in Nat \ {0}, NEW d \in Nat,
         b = 16 * v, c = b * b, 2 * h = c * b, 8 * d = c * c,
         NEW q \in Nat, NEW p \in Nat, NEW rest \in 0..(3 * c),
         p = c * q + rest, ~(q \div 4 >= d), 4 * q >= c * c
  PROVE  LET r == (q \div 4 + v) \div (2 * v)
         IN r \in h..(2 * h) /\ 2 * SizeOf(r * h - p) <= h + 6 * c
<1>1. PICK u \in Nat \ {0} : u = 8 * v
  OBVIOUS
<1>2. PICK r \in Nat : r = (q \div 4 + v) \div (2 * v) /\ u * r <= q + 4 * v /\ q < u * r + 4 * v
  <2>1. LET r == (q \div 4 + v) \div (2 * v)
        IN r \in Nat /\ (8 * v) * r <= q + 4 * v /\ q < (8 * v) * r + 4 * v
    BY HalfUnit
  <2>2. QED
    BY <1>1, <2>1
<1>3. PICK z \in Nat : z = u * r
  BY Product
<1>4. c * u = h /\ b = 2 * u
  <2>1. b = 2 * u
    BY <1>1
  <2>2. 2 * h = c * (2 * u)
    BY <2>1, Zenon
  <2>3. c * (2 * u) = 2 * (c * u)
    OBVIOUS
  <2>4. PICK w \in Nat : w = c * u
    BY Product
  <2>5. QED
    BY <2>1, <2>2, <2>3, <2>4
<1>5. u * h = 2 * d
  <2>1. b * (c * b) = c * (b * b)
    OBVIOUS
  <2>2. b * (2 * h) = 8 * d
    BY <2>1
  <2>3. (2 * u) * (2 * h) = 4 * (u * h)
    OBVIOUS
  <2>4. PICK w \in Nat : w = u * h
    BY Product
  <2>5. QED
    BY <1>4, <2>2, <2>3, <2>4
<1>6. PICK x \in Nat, y \in Nat : x = c * z /\ y = c * q
  BY Product
<1>7. 2 * x <= 2 * y + h /\ 2 * y <= 2 * x + h
  <2>1. c * (2 * z) <= c * (2 * q + u) /\ c * (2 * q) <= c * (2 * z + u)
    <3>1. 2 * z <= 2 * q + u /\ 2 * q <= 2 * z + u /\ 2 * q + u \in Int /\ 2 * z + u \in Int /\ 2 * z \in Int /\ 2 * q \in Int
      BY <1>1, <1>2, <1>3
    <3>2. QED
      BY <3>1, LessThan
  <2>2. /\ c * (2 * q + u) = 2 * (c * q) + c * u /\ c * (2 * z + u) = 2 * (c * z) + c * u
        /\ c * (2 * z) = 2 * (c * z) /\ c * (2 * q) = 2 * (c * q)
    OBVIOUS
  <2>3. QED
    BY <1>4, <1>6, <2>1, <2>2
<1>8. r * h = x
  <2>1. r * (c * u) = c * (u * r)
    OBVIOUS
  <2>2. QED
    BY <1>3, <1>4, <1>6, <2>1
<1>9. 2 * SizeOf(x - p) <= h + 6 * c
  <2>1. p = y + rest
    BY <1>6
  <2>2. QED
    BY <1>7, <2>1 DEF SizeOf
<1>10. q < 4 * d /\ q >= 2 * d
  <2>1. 4 * q >= 8 * d
    OBVIOUS
  <2>2. QED
    BY <2>1
<1>11. r >= h
  <2>1. u * h < u * (r + 1)
    <3>1. u * (r + 1) = z + u
      BY <1>3
    <3>2. QED
      BY <1>1, <1>2, <1>3, <1>5, <1>10, <3>1
  <2>2. r + 1 \in Int
    OBVIOUS
  <2>3. h < r + 1
    BY <2>1, <2>2, LessThan
  <2>4. QED
    BY <2>3
<1>12. r <= 2 * h
  <2>1. u * r < u * (2 * h + 1)
    <3>1. u * (2 * h + 1) = 2 * (u * h) + u
      OBVIOUS
    <3>2. QED
      BY <1>1, <1>2, <1>3, <1>5, <1>10, <3>1
  <2>2. 2 * h + 1 \in Int
    OBVIOUS
  <2>3. r < 2 * h + 1
    BY <2>1, <2>2, LessThan
  <2>4. QED
    BY <2>3
<1>13. r \in h..(2 * h)
  BY <1>11, <1>12
<1>14. QED
  BY <1>2, <1>8, <1>9, <1>13

(* __mulsf3() of a mantissa and a mantissa.                                *)
Partial(m, n) ==
  ((m \div Two[THIRD]) * (n \div Two[THIRD])
     + ((m % Two[THIRD]) * (n \div Two[THIRD])) \div Two[THIRD]
     + ((n % Two[THIRD]) * (m \div Two[THIRD])) \div Two[THIRD]) \div 4
IsBig(m, n) == Partial(m, n) >= Two[4 * THIRD - 3]
RoundedProduct(m, n) ==
  IF IsBig(m, n) THEN (Partial(m, n) + Two[THIRD - 3]) \div Two[THIRD - 2]
  ELSE (Partial(m, n) + Two[THIRD - 4]) \div Two[THIRD - 3]

LEMMA RoundedProductIs ==
  ASSUME NEW m \in HIDDEN..(2 * HIDDEN - 1), NEW n \in HIDDEN..(2 * HIDDEN - 1)
  PROVE  LET r == RoundedProduct(m, n)
         IN IF IsBig(m, n)
            THEN /\ r \in HIDDEN..(2 * HIDDEN - 1)
                 /\ SizeOf(r * (2 * HIDDEN) - m * n) <= HIDDEN + 3 * Two[2 * THIRD]
            ELSE /\ r \in HIDDEN..(2 * HIDDEN)
                 /\ 2 * SizeOf(r * HIDDEN - m * n) <= HIDDEN + 6 * Two[2 * THIRD]
<1>1. PICK v \in Nat \ {0}, b \in Nat \ {0}, c \in Nat \ {0} :
        /\ v = Two[THIRD - 4] /\ Two[THIRD - 3] = 2 * v /\ Two[THIRD - 2] = 4 * v
        /\ b = Two[THIRD] /\ b = 16 * v /\ c = Two[2 * THIRD] /\ c = b * b
        /\ 2 * HIDDEN = c * b
        /\ 8 * Two[4 * THIRD - 3] = c * c /\ Two[4 * THIRD - 3] \in Nat
  BY Thirds
<1>2. PICK h \in Nat \ {0}, d \in Nat : h = HIDDEN /\ d = Two[4 * THIRD - 3] /\ 2 * h = c * b /\ 8 * d = c * c
  BY <1>1, FloatSizes
<1>3. m \in Nat /\ n \in Nat /\ m \in h..(2 * h - 1) /\ n \in h..(2 * h - 1)
  BY <1>2
<1>4. PICK hm \in Nat, lm \in 0..(b - 1) : hm = m \div b /\ lm = m % b /\ m = b * hm + lm
  <2>1. m \in Int
    BY <1>3
  <2>2. m \div b \in Nat /\ m % b \in 0..(b - 1) /\ m = b * (m \div b) + (m % b)
    BY <1>3, <2>1, DivIs
  <2>3. QED
    BY <2>2
<1>5. PICK hn \in Nat, ln \in 0..(b - 1) : hn = n \div b /\ ln = n % b /\ n = b * hn + ln
  <2>1. n \in Int
    BY <1>3
  <2>2. n \div b \in Nat /\ n % b \in 0..(b - 1) /\ n = b * (n \div b) + (n % b)
    BY <1>3, <2>1, DivIs
  <2>3. QED
    BY <2>2
<1>6. PICK q \in Nat : /\ q = hm * hn + (lm * hn) \div b + (ln * hm) \div b /\ q >= hm * hn
                      /\ \E rest \in 0..(3 * (b * b)) : (b * hm + lm) * (b * hn + ln) = (b * b) * q + rest
  <2>1. LeavesOut(hm * hn + (lm * hn) \div b + (ln * hm) \div b, b, hm, hn, lm, ln)
    BY PartialProduct, Zenon
  <2>2. QED
    BY <2>1, Zenon DEF LeavesOut
<1>7. q >= hm * hn
  BY <1>6
<1>8. PICK rest \in 0..(3 * (b * b)) : (b * hm + lm) * (b * hn + ln) = (b * b) * q + rest
  BY <1>6
<1>9. rest \in 0..(3 * c) /\ m * n = c * q + rest
  BY <1>1, <1>4, <1>5, <1>8
<1>10. Partial(m, n) = q \div 4
  BY <1>1, <1>4, <1>5, <1>6, Zenon DEF Partial
<1>11. IsBig(m, n) <=> q \div 4 >= d
  BY <1>2, <1>10, Zenon DEF IsBig
<1>12. CASE q \div 4 >= d
  <2>1. RoundedProduct(m, n) = (q \div 4 + 2 * v) \div (4 * v)
    BY <1>1, <1>10, <1>11, <1>12, Zenon DEF RoundedProduct
  <2>2. PICK r : r = (q \div 4 + 2 * v) \div (4 * v)
    OBVIOUS
  <2>3. r \in h..(2 * h - 1) /\ SizeOf(r * (2 * h) - m * n) <= h + 3 * c
    <3>1. BigRounds((q \div 4 + 2 * v) \div (4 * v), h, c, m * n)
      BY <1>1, <1>2, <1>3, <1>9, <1>12, BigProduct
    <3>2. QED
      BY <2>2, <3>1, Zenon DEF BigRounds
  <2>4. QED
    BY <1>1, <1>2, <1>11, <1>12, <2>1, <2>2, <2>3
<1>13. CASE ~(q \div 4 >= d)
  <2>1. RoundedProduct(m, n) = (q \div 4 + v) \div (2 * v)
    BY <1>1, <1>10, <1>11, <1>13, Zenon DEF RoundedProduct
  <2>2. PICK r : r = (q \div 4 + v) \div (2 * v)
    OBVIOUS
  <2>3. 4 * q >= c * c
    <3>1. PICK e \in Nat : e = 8 * v * b /\ c = 2 * e /\ h = b * e
      <4>1. PICK e \in Nat : e = 8 * v * b
        OBVIOUS
      <4>2. (16 * v) * b = 2 * (8 * v * b)
        OBVIOUS
      <4>3. c = 2 * e
        BY <1>1, <4>1, <4>2
      <4>4. 2 * h = (2 * e) * b
        BY <1>2, <4>3
      <4>5. (2 * e) * b = 2 * (b * e)
        OBVIOUS
      <4>6. PICK w \in Nat : w = b * e
        BY Product
      <4>7. QED
        BY <4>1, <4>3, <4>4, <4>5, <4>6
    <3>2. ASSUME NEW i \in Nat, NEW j \in 0..(b - 1), b * i + j >= h PROVE e <= i
      <4>1. b * (i + 1) = b * i + b
        OBVIOUS
      <4>2. PICK w \in Nat : w = b * i
        BY Product
      <4>3. b * e < b * (i + 1)
        BY <3>1, <3>2, <4>1, <4>2
      <4>4. i + 1 \in Int
        OBVIOUS
      <4>5. e < i + 1
        BY <4>3, <4>4, LessThan
      <4>6. QED
        BY <4>5
    <3>3. e <= hm /\ e <= hn
      <4>1. b * hm + lm >= h /\ b * hn + ln >= h
        BY <1>3, <1>4, <1>5
      <4>2. QED
        BY <3>2, <4>1
    <3>4. hm * hn >= e * e
      <4>1. PICK f \in Nat, g \in Nat : hm = e + f /\ hn = e + g
        <5>1. hm - e \in Nat /\ hn - e \in Nat /\ hm = e + (hm - e) /\ hn = e + (hn - e)
          BY <3>3
        <5>2. QED
          BY <5>1
      <4>2. hm * hn = e * e + e * g + f * e + f * g
        BY <4>1
      <4>3. e * g \in Nat /\ f * e \in Nat /\ f * g \in Nat /\ e * e \in Nat
        OBVIOUS
      <4>4. QED
        BY <4>2, <4>3
    <3>5. c * c = 4 * (e * e)
      BY <3>1
    <3>6. PICK w \in Nat, x \in Nat : w = e * e /\ x = hm * hn
      BY Product
    <3>7. QED
      BY <1>7, <3>4, <3>5, <3>6
  <2>4. PICK p \in Nat : p = m * n
    BY <1>3, Product
  <2>5. p = c * q + rest
    BY <1>9, <2>4
  <2>6. r \in h..(2 * h) /\ 2 * SizeOf(r * h - p) <= h + 6 * c
    BY <1>1, <1>2, <1>9, <1>13, <2>2, <2>3, <2>5, SmallProduct
  <2>7. QED
    BY <1>1, <1>2, <1>11, <1>13, <2>1, <2>2, <2>4, <2>6
<1>14. QED
  BY <1>12, <1>13

Carried(neg, exp, r) == IF r >= 2 * HIDDEN THEN PACK(neg, exp + 1, r \div 2) ELSE PACK(neg, exp, r)
Drop(big) == IF big THEN 0 ELSE 1
Packed(neg, exp, big, r) == Carried(neg, exp - Drop(big), r)

(* Products miss by no more than half a unit and what is left out.         *)
LEMMA ProductNear ==
  ASSUME NEW x \in Floats, NEW y \in Floats
  PROVE  ProductIsNear(x, y, Mulsf3(x, y))
<1>1. CASE x = Zero \/ y = Zero
  <2>1. Mulsf3(x, y) = Zero
    BY <1>1, Zenon DEF Mulsf3
  <2>2. QED
    BY <1>1, <2>1, Zenon DEF ProductIsNear
<1>2. CASE x \in Digits /\ y \in Digits
  <2>1. PICK m \in HIDDEN..(2 * HIDDEN - 1), n \in HIDDEN..(2 * HIDDEN - 1) : m = MANT(x) /\ n = MANT(y)
    BY <1>2, DigitsAre
  <2>2. PICK h \in Nat \ {0}, a \in Nat, c \in Nat :
          /\ h = HIDDEN /\ a = Two[3 * THIRD - 2] /\ c = Two[2 * THIRD] /\ h = 2 * a
          /\ Two[3 * THIRD - 1] = h /\ Two[3 * THIRD] = 2 * h
    BY Thirds, FloatSizes
  <2>3. PICK neg \in BOOLEAN : neg = (x.neg # y.neg)
    BY Zenon
  <2>4. PICK e \in Nat : e = x.exp + y.exp - EXCESS /\ e \in 2..(2 * EXCESS + 1)
    <3>1. x.exp + y.exp - EXCESS \in 2..(2 * EXCESS + 1)
      BY <1>2, DigitsAre, FloatAssumption
    <3>2. QED
      BY <3>1
  <2>5. x # Zero /\ y # Zero
    BY <1>2, DigitsAre
  <2>6. PICK r : r = RoundedProduct(m, n)
    OBVIOUS
  <2>7. Mulsf3(x, y) = Packed(neg, e, IsBig(m, n), r)
    <3> DEFINE product == ((MANT(x) \div Two[THIRD]) * (MANT(y) \div Two[THIRD])
                  + ((MANT(x) % Two[THIRD]) * (MANT(y) \div Two[THIRD])) \div Two[THIRD]
                  + ((MANT(y) % Two[THIRD]) * (MANT(x) \div Two[THIRD])) \div Two[THIRD]) \div 4
               big == product >= Two[4 * THIRD - 3]
               t == IF big THEN (product + Two[THIRD - 3]) \div Two[THIRD - 2]
                    ELSE (product + Two[THIRD - 4]) \div Two[THIRD - 3]
               exp == x.exp + y.exp - EXCESS - (IF big THEN 0 ELSE 1)
    <3>1. Mulsf3(x, y) = IF x = Zero \/ y = Zero THEN Zero
                         ELSE IF t >= 2 * HIDDEN THEN PACK(x.neg # y.neg, exp + 1, t \div 2)
                         ELSE PACK(x.neg # y.neg, exp, t)
      BY Zenon DEF Mulsf3
    <3>2. product = Partial(MANT(x), MANT(y))
      BY Zenon DEF Partial
    <3> HIDE DEF product
    <3>3. big = IsBig(MANT(x), MANT(y))
      BY <3>2, Zenon DEF IsBig
    <3>4. exp = x.exp + y.exp - EXCESS - Drop(IsBig(MANT(x), MANT(y)))
      BY <3>3, Zenon DEF Drop
    <3>5. t = RoundedProduct(MANT(x), MANT(y))
      BY <3>2, <3>3, Zenon DEF RoundedProduct
    <3> HIDE DEF big, t, exp
    <3>6. Mulsf3(x, y) = Carried(x.neg # y.neg, exp, t)
      BY <2>5, <3>1, Zenon DEF Carried
    <3>7. PICK f, u : f = exp /\ u = t
      OBVIOUS
    <3>8. Mulsf3(x, y) = Carried(neg, f, u)
      BY <2>3, <3>6, <3>7
    <3>9. f = e - Drop(IsBig(m, n))
      <4>1. PICK w : w = Drop(IsBig(m, n))
        OBVIOUS
      <4>2. w = Drop(IsBig(MANT(x), MANT(y)))
        BY <2>1, <4>1
      <4>3. exp = x.exp + y.exp - EXCESS - w
        BY <3>4, <4>2
      <4>4. exp = e - w
        <5>1. x.exp \in Nat /\ y.exp \in Nat /\ EXCESS \in Nat /\ w \in 0..1
          BY <1>2, <4>1, DigitsAre, FloatSizes DEF Drop
        <5>2. QED
          BY <2>4, <4>3, <5>1
      <4>5. QED
        BY <3>7, <4>1, <4>4
    <3>10. u = r
      BY <2>1, <2>6, <3>5, <3>7, Zenon
    <3>11. QED
      BY <3>8, <3>9, <3>10 DEF Packed
  <2>8. PICK p \in Nat : p = m * n
    BY <2>1, <2>2, Product
  <2>9. ASSUME NEW s \in 0..1, NEW f \in Nat, f = e + s - 1, NEW t \in h..(2 * h - 1),
               NEW k \in Nat, NEW l \in Nat, k = 3 * THIRD - 1 + s, l = k - 1,
               2 * SizeOf(t * Two[k] - p) <= 2 * Two[l] + 6 * c
        PROVE  ProductIsNear(x, y, PACK(neg, f, t))
    <3>1. PICK z : z = PACK(neg, f, t)
      OBVIOUS
    <3>2. f \in 1..(2 * EXCESS + 2) /\ f \in Nat \ {0}
      BY <2>4, <2>9, FloatSizes
    <3>3. z.neg = neg /\ z.exp = f /\ MANT(z) = t /\ z # Zero /\ z.man \in 0..(HIDDEN - 1)
      BY <2>2, <2>9, <3>1, <3>2, PackIs
    <3>4. f - (x.exp + y.exp - EXCESS - 1 - PLACES) = k
      <4>1. x.exp \in Nat /\ y.exp \in Nat /\ EXCESS \in Nat
        BY <1>2, DigitsAre, FloatSizes
      <4>2. QED
        BY <2>4, <2>9, <4>1, FloatSizes
    <3>5. PICK o \in Int : o = t * Two[k] - p
      <4>1. Two[k] \in Nat
        BY TwoNext
      <4>2. t \in Nat
        BY <2>2
      <4>3. t * Two[k] - p \in Int
        BY <4>1, <4>2
      <4>4. QED
        BY <4>3
    <3>6. SizeOf(o) <= Two[l] + 3 * c
      <4>1. PICK g \in Nat : g = Two[l]
        BY TwoNext
      <4>2. 2 * SizeOf(o) <= 2 * g + 6 * c
        BY <2>9, <3>5, <4>1
      <4>3. SizeOf(o) \in Nat
        BY DEF SizeOf
      <4>4. QED
        BY <4>1, <4>2, <4>3
    <3>7. IsNormal(z)
      BY <3>2, <3>3 DEF IsNormal
    <3>8. k - 1 = l
      BY <2>9
    <3>9. SizeOf(MANT(z) * Two[k] - MANT(x) * MANT(y)) <= Two[k - 1] + 3 * Two[2 * THIRD]
      BY <2>1, <2>2, <2>8, <3>3, <3>5, <3>6, <3>8
    <3>10. z.exp - (x.exp + y.exp - EXCESS - 1 - PLACES) = k
      BY <3>3, <3>4
    <3>11. ProductIsNear(x, y, z)
      BY <2>3, <2>5, <3>3, <3>7, <3>9, <3>10, Zenon DEF ProductIsNear
    <3>12. QED
      BY <3>1, <3>11
  <2>10. THIRD \in Nat /\ THIRD >= 4 /\ EXCESS \in Nat
    BY FloatSizes
  <2>11. CASE IsBig(m, n)
    <3>1. r \in h..(2 * h - 1) /\ SizeOf(r * (2 * h) - p) <= h + 3 * c
      BY <2>2, <2>6, <2>8, <2>11, RoundedProductIs
    <3>2. PICK k \in Nat, l \in Nat : k = 3 * THIRD /\ l = 3 * THIRD - 1
      BY <2>10
    <3>3. k = 3 * THIRD - 1 + 1 /\ l = k - 1 /\ e = e + 1 - 1
      BY <2>10, <3>2
    <3>4. SizeOf(r * (2 * h) - p) \in Int
      <4>1. PICK o \in Int : o = r * (2 * h) - p
        BY <3>1
      <4>2. QED
        BY <4>1 DEF SizeOf
    <3>5. 2 * SizeOf(r * Two[k] - p) <= 2 * Two[l] + 6 * c
      <4>1. Two[k] = 2 * h /\ Two[l] = h
        BY <2>2, <3>2
      <4>2. PICK o \in Int : o = SizeOf(r * (2 * h) - p)
        BY <3>4
      <4>3. 2 * o <= 2 * h + 6 * c
        BY <3>1, <4>2
      <4>4. QED
        BY <4>1, <4>2, <4>3
    <3>6. ProductIsNear(x, y, PACK(neg, e, r))
      BY <2>9, <3>1, <3>3, <3>5
    <3>7. ~(r >= 2 * HIDDEN) /\ e - 0 = e
      BY <2>2, <3>1
    <3>8. QED
      BY <2>7, <2>11, <3>6, <3>7 DEF Packed, Carried, Drop
  <2>12. CASE ~IsBig(m, n)
    <3>1. r \in h..(2 * h) /\ 2 * SizeOf(r * h - p) <= h + 6 * c
      BY <2>2, <2>6, <2>8, <2>12, RoundedProductIs
    <3>2. CASE r < 2 * h
      <4>1. PICK k \in Nat, l \in Nat, f \in Nat : k = 3 * THIRD - 1 /\ l = 3 * THIRD - 2 /\ f = e - 1
        <5>1. 3 * THIRD - 1 \in Nat /\ 3 * THIRD - 2 \in Nat /\ e - 1 \in Nat
          BY <2>4, <2>10
        <5>2. QED
          BY <5>1
      <4>2. k = 3 * THIRD - 1 + 0 /\ l = k - 1 /\ f = e + 0 - 1 /\ r \in h..(2 * h - 1)
        BY <2>10, <3>1, <3>2, <4>1
      <4>3. 2 * SizeOf(r * Two[k] - p) <= 2 * Two[l] + 6 * c
        <5>1. Two[k] = h /\ 2 * Two[l] = h
          BY <2>2, <4>1
        <5>2. QED
          BY <3>1, <5>1
      <4>4. ProductIsNear(x, y, PACK(neg, f, r))
        BY <2>9, <4>2, <4>3
      <4>5. ~(r >= 2 * HIDDEN)
        BY <2>2, <3>1, <3>2
      <4>6. QED
        BY <2>7, <2>12, <4>1, <4>4, <4>5 DEF Packed, Carried, Drop
    <3>3. CASE ~(r < 2 * h)
      <4>1. r = 2 * h /\ r \div 2 = h /\ r >= 2 * HIDDEN
        <5>1. r = 2 * h
          BY <3>1, <3>3
        <5>2. (2 * h) \div 2 = h /\ 2 * h >= 2 * h
          OBVIOUS
        <5>3. QED
          BY <2>2, <5>1, <5>2
      <4>2. PICK k \in Nat, l \in Nat : k = 3 * THIRD /\ l = 3 * THIRD - 1
        BY <2>10
      <4>3. k = 3 * THIRD - 1 + 1 /\ l = k - 1 /\ e = e + 1 - 1 /\ h \in h..(2 * h - 1)
        BY <2>10, <4>2
      <4>4. Two[k] = 2 * h /\ Two[l] = h
        BY <2>2, <4>2
      <4>5. h * (2 * h) = r * h
        BY <4>1
      <4>6. 2 * SizeOf(h * Two[k] - p) <= 2 * Two[l] + 6 * c
        <5>1. h * Two[k] = r * h
          BY <4>4, <4>5
        <5>2. PICK o \in Int : o = SizeOf(r * h - p)
          <6>0. r \in Nat /\ r * h \in Nat /\ r * h - p \in Int
            BY <4>1
          <6>1. PICK i \in Int : i = r * h - p
            BY <6>0
          <6>2. QED
            BY <6>1 DEF SizeOf
        <5>3. 2 * o <= 2 * h + 6 * c
          BY <3>1, <5>2
        <5>4. QED
          BY <4>4, <5>1, <5>2, <5>3
      <4>7. ProductIsNear(x, y, PACK(neg, e, h))
        BY <2>9, <4>3, <4>6
      <4>8. e - 1 + 1 = e
        BY <2>4
      <4>9. QED
        BY <2>7, <2>12, <4>1, <4>7, <4>8 DEF Packed, Carried, Drop
    <3>4. QED
      BY <3>2, <3>3
  <2>13. QED
    BY <2>11, <2>12
<1>3. QED
  BY <1>1, <1>2, FloatsAre

(* Normalising up ends with the highest digit in its place.                *)
Raised(up, m, n) ==
  /\ up \in 0..n
  /\ up = Min({k \in 0..n : m >= Two[n - k]})
  /\ m * Two[up] \in Nat /\ Two[n] <= m * Two[up]
  /\ up = 0 \/ m * Two[up] < Two[n + 1]

LEMMA UpIs ==
  ASSUME NEW n \in Nat, NEW m \in Nat \ {0}
  PROVE  \E up : Raised(up, m, n)
<1> DEFINE S == {k \in 0..n : m >= Two[n - k]}
<1>1. S \in SUBSET Nat /\ S # {}
  <2>1. m >= Two[n - n] /\ n \in 0..n
    BY TwoNext
  <2>2. n \in S
    BY <2>1
  <2>3. \A k \in S : k \in Nat
    OBVIOUS
  <2> HIDE DEF S
  <2>4. QED
    BY <2>2, <2>3
<1>2. PICK up \in S : \A k \in S : up <= k
  BY <1>1, LeastNatural
<1>3. S \in SUBSET Int
  BY <1>1
<1>4. Min(S) = up
  BY <1>2, <1>3, LeastIs
<1>5. up \in 0..n /\ m >= Two[n - up]
  OBVIOUS
<1>6. PICK r \in Nat, a \in Nat \ {0}, b \in Nat \ {0} : r = n - up /\ a = Two[up] /\ b = Two[r]
  <2>1. n - up \in Nat /\ up \in Nat
    BY <1>5
  <2>2. QED
    BY <2>1, TwoNext
<1>7. Two[n] = a * b
  <2>1. n = up + r /\ up \in Nat
    BY <1>5, <1>6
  <2>2. QED
    BY <1>6, <2>1, TwoSum
<1>8. m * a \in Nat /\ Two[n] <= m * a
  <2>1. m >= b
    BY <1>5, <1>6
  <2>2. a * b <= a * m
    BY <2>1, LessThan
  <2>3. a * m = m * a
    OBVIOUS
  <2>4. m * a \in Nat
    BY Product
  <2>5. QED
    BY <1>7, <2>2, <2>3, <2>4
<1>9. ASSUME up # 0 PROVE m * a < Two[n + 1]
  <2>1. PICK j \in Nat : up = j + 1
    <3>1. up - 1 \in Nat /\ up = (up - 1) + 1
      BY <1>5, <1>9
    <3>2. QED
      BY <3>1
  <2>2. j \in 0..n /\ j < up
    BY <1>5, <2>1
  <2>3. j \notin S
    BY <1>2, <2>2
  <2>4. ~(m >= Two[n - j])
    BY <2>2, <2>3
  <2>5. n - j = r + 1
    BY <1>5, <1>6, <2>1
  <2>6. Two[r + 1] = 2 * b
    BY <1>6, TwoNext
  <2>7. m + 1 <= 2 * b
    BY <2>4, <2>5, <2>6
  <2>8. a * (m + 1) <= a * (2 * b)
    BY <2>7, LessThan
  <2>9. a * (m + 1) = m * a + a /\ a * (2 * b) = 2 * (a * b)
    OBVIOUS
  <2>10. Two[n + 1] = 2 * Two[n]
    BY TwoNext
  <2>11. PICK v \in Nat, w \in Nat : v = m * a /\ w = a * b
    BY Product
  <2>12. QED
    BY <1>7, <2>8, <2>9, <2>10, <2>11
<1>10. Raised(up, m, n)
  BY <1>4, <1>5, <1>6, <1>8, <1>9 DEF Raised
<1>11. QED
  BY <1>10

(* Rounding to even, and the carry that may come of it.                    *)
LEMMA GuardIs ==
  \E u \in Nat \ {0}, g \in Nat, t \in Nat :
    /\ u = Two[GUARD - 1] /\ Two[GUARD] = 2 * u /\ t = HIDDEN * (2 * u) /\ t = Two[PLACES + GUARD]
    /\ Two[PLACES + GUARD + 1] = 2 * t /\ Two[PLACES + GUARD + 2] = 4 * t
    /\ t \in Nat \ {0} /\ g = GUARD - 1 /\ Two[PLACES + g] = HIDDEN * u
<1>1. PICK g \in Nat : g = GUARD - 1 /\ GUARD = g + 1
  <2>1. GUARD - 1 \in Nat /\ GUARD = (GUARD - 1) + 1
    BY FloatSizes
  <2>2. QED
    BY <2>1
<1>2. PICK u \in Nat \ {0}, h \in Nat \ {0}, p \in Nat : u = Two[g] /\ h = HIDDEN /\ p = PLACES /\ h = Two[p]
  <2>1. Two[g] \in Nat \ {0} /\ HIDDEN \in Nat \ {0} /\ PLACES \in Nat /\ HIDDEN = Two[PLACES]
    BY TwoNext, FloatSizes
  <2>2. QED
    BY <2>1
<1>3. Two[GUARD] = 2 * u
  BY <1>1, <1>2, TwoNext
<1>4. PICK t \in Nat : t = h * (2 * u) /\ t # 0
  <2>1. 2 * u \in Nat \ {0}
    OBVIOUS
  <2>2. QED
    BY <2>1, Product
<1>5. Two[p + GUARD] = t
  <2>1. GUARD \in Nat
    BY FloatSizes
  <2>2. QED
    BY <1>2, <1>3, <1>4, <2>1, TwoSum
<1>6. Two[p + GUARD + 1] = 2 * t /\ Two[p + GUARD + 2] = 4 * t
  <2>1. p + GUARD \in Nat /\ p + GUARD + 1 \in Nat /\ p + GUARD + 2 = (p + GUARD + 1) + 1
    BY FloatSizes
  <2>2. Two[p + GUARD + 1] = 2 * t
    BY <1>5, <2>1, TwoNext
  <2>3. Two[p + GUARD + 2] = 2 * (2 * t)
    BY <2>1, <2>2, TwoNext
  <2>4. QED
    BY <2>2, <2>3
<1>7. Two[p + g] = h * u
  BY <1>2, TwoSum
<1>8. QED
  BY <1>1, <1>2, <1>3, <1>4, <1>5, <1>6, <1>7

(* What Rounded() makes of a normal sum: z with a carry c is within half a *)
(* unit.                                                                   *)
Settled(c, z, n) ==
  /\ c \in 0..1 /\ z \in HIDDEN..(2 * HIDDEN - 1)
  /\ z * Two[c] * Two[GUARD] <= n + Two[GUARD - 1]
  /\ n <= z * Two[c] * Two[GUARD] + Two[GUARD - 1]

LEMMA EvenedIs ==
  ASSUME NEW n \in Nat, Two[PLACES + GUARD] <= n, n < Two[PLACES + GUARD + 1], NEW e \in Int
  PROVE  \E c, z : /\ Settled(c, z, n)
                  /\ Halved([m |-> Evened(n), e |-> e]).e = e + c
                  /\ Halved([m |-> Evened(n), e |-> e]).m \div Two[GUARD] = z
<1>1. PICK u \in Nat \ {0}, h \in Nat \ {0}, t \in Nat :
        /\ u = Two[GUARD - 1] /\ Two[GUARD] = 2 * u /\ h = HIDDEN /\ t = h * (2 * u)
        /\ t <= n /\ n < 2 * t /\ Two[PLACES + GUARD + 1] = 2 * t
  BY GuardIs, FloatSizes
<1>2. PICK w \in Nat \ {0} : w = 2 * u /\ t = h * w
  BY <1>1
<1>3. PICK v \in Nat : v = Evened(n) /\ n + u - 1 <= v /\ v <= n + u
  <2>1. PICK b \in 0..1 : b = IF (n \div Two[GUARD]) % 2 = 1 THEN 0 ELSE 1
    OBVIOUS
  <2>2. Evened(n) = n + (u - b)
    BY <1>1, <2>1, Zenon DEF Evened
  <2>3. n + (u - b) \in Nat /\ n + u - 1 <= n + (u - b) /\ n + (u - b) <= n + u
    OBVIOUS
  <2>4. QED
    BY <2>2, <2>3
<1>4. PICK r : r = Halved([m |-> v, e |-> e])
  OBVIOUS
<1>5. Two[0] = 1 /\ Two[1] = 2
  <2>1. Two[0 + 1] = 2 * Two[0] /\ Two[0] = 1
    BY TwoNext
  <2>2. QED
    BY <2>1
<1>6. CASE v < 2 * t
  <2>1. r.m = v /\ r.e = e
    BY <1>1, <1>4, <1>6 DEF Halved
  <2>2. PICK z \in Nat, s \in 0..(w - 1) : z = v \div w /\ v = w * z + s
    <3>1. v \in Int
      OBVIOUS
    <3>2. v \div w \in Nat /\ v % w \in 0..(w - 1) /\ v = w * (v \div w) + (v % w)
      BY <3>1, DivIs
    <3>3. QED
      BY <3>2
  <2>3. z \in h..(2 * h - 1)
    <3>1. w * h < w * (z + 1) /\ w * z < w * (2 * h)
      <4>1. w * (z + 1) = w * z + w /\ w * h = t /\ w * (2 * h) = 2 * t
        BY <1>2
      <4>2. PICK x \in Nat : x = w * z
        BY Product
      <4>3. QED
        BY <1>1, <1>3, <1>6, <2>2, <4>1, <4>2
    <3>2. h \in Int /\ z \in Int /\ z + 1 \in Int /\ 2 * h \in Int
      OBVIOUS
    <3>3. h < z + 1 /\ z < 2 * h
      BY <3>1, <3>2, LessThan
    <3>4. QED
      BY <3>3
  <2>4. z * 1 * w <= n + u /\ n <= z * 1 * w + u
    <3>1. PICK x \in Nat : x = w * z
      BY Product
    <3>2. z * 1 * w = x
      BY <3>1
    <3>3. v = x + s
      BY <2>2, <3>1
    <3>4. QED
      BY <1>2, <1>3, <3>2, <3>3
  <2>5. Settled(0, z, n)
    BY <1>1, <1>2, <1>5, <2>3, <2>4 DEF Settled
  <2>6. r.e = e + 0 /\ r.m \div Two[GUARD] = z
    BY <1>1, <1>2, <2>1, <2>2
  <2>7. QED
    BY <1>3, <1>4, <2>5, <2>6
<1>7. CASE ~(v < 2 * t)
  <2>1. r.m = v \div 2 /\ r.e = e + 1
    BY <1>1, <1>4, <1>7 DEF Halved
  <2>2. v \div 2 = w * h + (v \div 2 - t) /\ v \div 2 - t \in 0..(w - 1)
    <3>1. w * h = t
      BY <1>2
    <3>2. PICK k \in Nat, b \in 0..1 : k = v \div 2 /\ v = 2 * k + b
      OBVIOUS
    <3>3. v <= 2 * t - 1 + u /\ 2 * t <= v /\ w = 2 * u
      BY <1>1, <1>2, <1>3, <1>7
    <3>4. k - t \in 0..(w - 1) /\ k = t + (k - t)
      BY <3>2, <3>3
    <3>5. QED
      BY <3>1, <3>2, <3>4
  <2>3. (v \div 2) \div w = h
    <3>1. PICK s \in 0..(w - 1) : s = v \div 2 - t
      BY <2>2
    <3>2. v \div 2 = w * h + s
      BY <2>2, <3>1
    <3>3. h \in Int
      OBVIOUS
    <3>4. QED
      BY <3>2, <3>3, DivUnique
  <2>4. h * 2 * w = 2 * t
    BY <1>2
  <2>5. 2 * t <= n + u /\ n <= 2 * t + u
    BY <1>1, <1>3, <1>7
  <2>6. Settled(1, h, n)
    BY <1>1, <1>2, <1>5, <2>4, <2>5 DEF Settled
  <2>7. r.e = e + 1 /\ r.m \div Two[GUARD] = h
    BY <1>1, <1>2, <2>1, <2>3
  <2>8. QED
    BY <1>3, <1>4, <2>6, <2>7
<1>8. QED
  BY <1>6, <1>7

(* Rounded() normalises up or down, then rounds.                           *)
RoundsTo(up, c, z, m) ==
  /\ up \in 0..(PLACES + GUARD) /\ c \in 0..2 /\ z \in HIDDEN..(2 * HIDDEN - 1)
  /\ up = 0 \/ m * Two[up] < Two[PLACES + GUARD + 1]
  /\ z * Two[c] * Two[GUARD] + 2 <= m * Two[up] + (Two[GUARD - 1] + 2) * Two[c]
  /\ m * Two[up] + 2 <= z * Two[c] * Two[GUARD] + (Two[GUARD - 1] + 2) * Two[c]

LEMMA RoundedIs ==
  ASSUME NEW m \in Nat \ {0}, m < Two[PLACES + GUARD + 2], NEW e \in Int, NEW neg
  PROVE  \E up, c, z : RoundsTo(up, c, z, m) /\ Rounded(neg, e, m) = PACK(neg, e - up + c, z)
<1>1. PICK u \in Nat \ {0}, h \in Nat \ {0}, t \in Nat :
        /\ u = Two[GUARD - 1] /\ Two[GUARD] = 2 * u /\ h = HIDDEN
        /\ t = Two[PLACES + GUARD] /\ Two[PLACES + GUARD + 1] = 2 * t /\ Two[PLACES + GUARD + 2] = 4 * t
        /\ PLACES + GUARD \in Nat
  BY GuardIs, FloatSizes
<1>2. PICK up : Raised(up, m, PLACES + GUARD)
  BY <1>1, UpIs
<1>3. PICK raised \in Nat : raised = m * Two[up]
  BY <1>2 DEF Raised
<1>4. up \in 0..(PLACES + GUARD) /\ t <= raised /\ (up = 0 \/ raised < 2 * t)
  BY <1>1, <1>2, <1>3 DEF Raised
<1>5. PICK normal : normal = Halved([m |-> raised, e |-> e - up])
  OBVIOUS
<1>6. PICK r : r = Halved([m |-> Evened(normal.m), e |-> normal.e])
  OBVIOUS
<1>7. Rounded(neg, e, m) = PACK(neg, r.e, r.m \div Two[GUARD])
  <2>1. PICK p \in Nat, g \in Nat : p = PLACES /\ g = GUARD
    BY FloatSizes
  <2>2. {k \in 0..(p + g) : m >= Two[p + g - k]} = {k \in 0..(p + g) : m >= Two[(p + g) - k]}
    <3>1. \A k \in 0..(p + g) : p + g - k = (p + g) - k
      OBVIOUS
    <3>2. QED
      BY <3>1
  <2>3. up = Min({k \in 0..(PLACES + GUARD) : m >= Two[PLACES + GUARD - k]})
    BY <1>2, <2>1, <2>2 DEF Raised
  <2>4. QED
    BY <1>3, <1>5, <1>6, <2>3, Zenon DEF Rounded
<1>8. Two[0] = 1 /\ Two[1] = 2 /\ Two[2] = 4
  <2>1. Two[0 + 1] = 2 * Two[0] /\ Two[0] = 1 /\ Two[1 + 1] = 2 * Two[1]
    BY TwoNext
  <2>2. QED
    BY <2>1
<1>9. e - up \in Int /\ e - up + 1 \in Int
  BY <1>4
<1>10. CASE raised < 2 * t
  <2>1. normal.m = raised /\ normal.e = e - up
    BY <1>1, <1>5, <1>10 DEF Halved
  <2>2. PICK c, z : Settled(c, z, raised) /\ r.e = e - up + c /\ r.m \div Two[GUARD] = z
    BY <1>1, <1>4, <1>6, <1>9, <1>10, <2>1, EvenedIs
  <2>3. c \in 0..1 /\ z \in Nat /\ z \in h..(2 * h - 1)
    BY <1>1, <2>2 DEF Settled
  <2>4. PICK b \in {1, 2} : b = Two[c]
    BY <1>8, <2>3
  <2>5. PICK v \in Nat : v = z * b * (2 * u) /\ v <= raised + u /\ raised <= v + u
    <3>1. z * b * (2 * u) \in Nat
      BY <2>3
    <3>2. QED
      BY <1>1, <2>2, <2>4, <3>1 DEF Settled
  <2>6. v + 2 <= raised + (u + 2) * b /\ raised + 2 <= v + (u + 2) * b
    BY <2>4, <2>5
  <2>7. RoundsTo(up, c, z, m)
    BY <1>1, <1>3, <1>4, <1>10, <2>3, <2>4, <2>5, <2>6 DEF RoundsTo
  <2>8. QED
    BY <1>7, <2>2, <2>7
<1>11. CASE ~(raised < 2 * t)
  <2>1. up = 0 /\ raised = m
    <3>1. up = 0
      BY <1>4, <1>11
    <3>2. QED
      BY <1>3, <1>8, <3>1
  <2>2. PICK n \in Nat, s \in 0..1 : n = raised \div 2 /\ raised = 2 * n + s
    OBVIOUS
  <2>3. t <= n /\ n < 2 * t
    BY <1>1, <1>11, <2>1, <2>2
  <2>4. normal.m = n /\ normal.e = e - up + 1
    BY <1>1, <1>5, <1>11, <2>2 DEF Halved
  <2>5. PICK c, z : Settled(c, z, n) /\ r.e = e - up + 1 + c /\ r.m \div Two[GUARD] = z
    BY <1>1, <1>6, <1>9, <2>3, <2>4, EvenedIs
  <2>6. c \in 0..1 /\ z \in Nat /\ z \in h..(2 * h - 1)
    BY <1>1, <2>5 DEF Settled
  <2>7. PICK d \in 1..2 : d = c + 1
    BY <2>6
  <2>8. PICK b \in {1, 2} : b = Two[c] /\ Two[d] = 2 * b
    BY <1>8, <2>6, <2>7
  <2>9. PICK v \in Nat : v = z * b * (2 * u) /\ v <= n + u /\ n <= v + u
    <3>1. z * b * (2 * u) \in Nat
      BY <2>6
    <3>2. QED
      BY <1>1, <2>5, <2>8, <3>1 DEF Settled
  <2>10. z * (2 * b) * (2 * u) = 2 * v
    BY <2>6, <2>9
  <2>11. 2 * v + 2 <= raised + (u + 2) * (2 * b) /\ raised + 2 <= 2 * v + (u + 2) * (2 * b)
    BY <2>2, <2>8, <2>9
  <2>12. RoundsTo(up, d, z, m)
    BY <1>1, <1>3, <1>4, <2>1, <2>6, <2>7, <2>8, <2>10, <2>11 DEF RoundsTo
  <2>13. e - up + 1 + c = e - up + d
    BY <1>4, <2>6, <2>7
  <2>14. QED
    BY <1>7, <2>5, <2>12, <2>13
<1>12. QED
  BY <1>10, <1>11

LEMMA Cancels ==
  ASSUME NEW d \in Nat \ {0}, NEW x \in Int, NEW y \in Int, d * x <= d * y
  PROVE  x <= y
<1>1. y + 1 \in Int /\ d * (y + 1) = d * y + d
  OBVIOUS
<1>2. d * x < d * (y + 1)
  <2>1. PICK i \in Int, j \in Int : i = d * x /\ j = d * y
    OBVIOUS
  <2>2. QED
    BY <1>1, <2>1
<1>3. x < y + 1
  BY <1>1, <1>2, LessThan
<1>4. QED
  BY <1>3

(* The error of the shift and that of rounding, in units of both.          *)
Scales(U, C, A, D, B) ==
  /\ U \in Nat \ {0} /\ C \in Nat \ {0} /\ A \in Nat \ {0} /\ D \in Nat \ {0} /\ B \in Nat \ {0}
  /\ U * B = C * (A * D)

LEMMA NearAbove ==
  ASSUME NEW U, NEW C, NEW A, NEW D, NEW B, Scales(U, C, A, D, B),
         NEW Z \in Int, NEW N \in Int, NEW m \in Int, NEW q \in Nat, NEW g \in Nat, NEW rho \in Nat,
         Z * C * g + 2 <= m * U + q * C, m * D <= N * g + rho, rho * U <= 2 * D
  PROVE  g * (Z * B) <= g * (N * A) + q * B
<1>1. U \in Nat \ {0} /\ C \in Nat \ {0} /\ A \in Nat \ {0} /\ D \in Nat \ {0} /\ B \in Nat \ {0}
  BY DEF Scales
<1>2. PICK k \in Nat \ {0} : k = A * D
  <2>1. A \in Nat /\ D \in Nat
    BY <1>1
  <2>2. QED
    BY <1>1, <2>1, Product
<1>3. PICK l \in Nat \ {0} : l = U * A
  <2>1. A \in Nat /\ U \in Nat
    BY <1>1
  <2>2. QED
    BY <1>1, <2>1, Product
<1>4. PICK w \in Int : w = C * k /\ w = U * B
  BY <1>1, <1>2 DEF Scales
<1>5. (Z * g) * w + 2 * k <= (m * U) * k + q * w
  <2>1. Z * C * g + 2 \in Int /\ m * U + q * C \in Int
    BY <1>1
  <2>2. k * (Z * C * g + 2) <= k * (m * U + q * C)
    BY <2>1, LessThan
  <2>3. k * (Z * C * g + 2) = (Z * g) * w + 2 * k
    <3>1. k * (Z * C * g + 2) = (Z * g) * (C * k) + 2 * k
      BY <1>1
    <3>2. QED
      BY <1>4, <3>1
  <2>4. k * (m * U + q * C) = (m * U) * k + q * w
    <3>1. k * (m * U + q * C) = (m * U) * k + q * (C * k)
      BY <1>1
    <3>2. QED
      BY <1>4, <3>1
  <2>5. QED
    BY <2>2, <2>3, <2>4
<1>6. (m * U) * k <= U * (g * (N * A)) + 2 * k
  <2>1. m * D \in Int /\ N * g + rho \in Int /\ rho * U \in Int /\ 2 * D \in Int
    BY <1>1
  <2>2. l * (m * D) <= l * (N * g + rho)
    BY <2>1, LessThan
  <2>3. A * (rho * U) <= A * (2 * D)
    BY <1>1, <2>1, LessThan
  <2>4. l * (m * D) = (m * U) * k
    <3>1. (U * A) * (m * D) = (m * U) * (A * D)
      BY <1>1
    <3>2. QED
      BY <1>2, <1>3, <3>1
  <2>5. l * (N * g + rho) = U * (g * (N * A)) + A * (rho * U)
    <3>1. (U * A) * (N * g + rho) = U * (g * (N * A)) + A * (rho * U)
      BY <1>1
    <3>2. QED
      BY <1>3, <3>1
  <2>6. A * (2 * D) = 2 * k
    <3>1. A * (2 * D) = 2 * (A * D)
      BY <1>1
    <3>2. QED
      BY <1>2, <3>1
  <2>7. PICK i \in Int, j \in Int, o \in Int : i = (m * U) * k /\ j = U * (g * (N * A)) /\ o = A * (rho * U)
    <3>1. (m * U) * k \in Int /\ U * (g * (N * A)) \in Int /\ A * (rho * U) \in Int
      BY <1>1
    <3>2. QED
      BY <3>1
  <2>8. QED
    BY <2>2, <2>3, <2>4, <2>5, <2>6, <2>7
<1>7. (Z * g) * w <= U * (g * (N * A)) + q * w
  <2>1. PICK i \in Int, j \in Int, o \in Int, p \in Int :
          i = (m * U) * k /\ j = U * (g * (N * A)) /\ o = q * w /\ p = (Z * g) * w
    <3>1. (m * U) * k \in Int /\ U * (g * (N * A)) \in Int /\ q * w \in Int /\ (Z * g) * w \in Int
      BY <1>1
    <3>2. QED
      BY <3>1
  <2>2. QED
    BY <1>5, <1>6, <2>1
<1>8. U * (g * (Z * B)) <= U * (g * (N * A) + q * B)
  <2>1. (Z * g) * (U * B) = U * (g * (Z * B)) /\ U * (g * (N * A) + q * B) = U * (g * (N * A)) + q * (U * B)
    BY <1>1
  <2>2. QED
    BY <1>4, <1>7, <2>1
<1>9. g * (Z * B) \in Int /\ g * (N * A) + q * B \in Int
  BY <1>1
<1>10. QED
  BY <1>1, <1>8, <1>9, Cancels

LEMMA NearBelow ==
  ASSUME NEW U, NEW C, NEW A, NEW D, NEW B, Scales(U, C, A, D, B),
         NEW Z \in Int, NEW N \in Int, NEW m \in Int, NEW q \in Nat, NEW g \in Nat, NEW rho \in Nat,
         m * U + 2 <= Z * C * g + q * C, N * g <= m * D + rho, rho * U <= 2 * D
  PROVE  g * (N * A) <= g * (Z * B) + q * B
<1>1. U \in Nat \ {0} /\ C \in Nat \ {0} /\ A \in Nat \ {0} /\ D \in Nat \ {0} /\ B \in Nat \ {0}
  BY DEF Scales
<1>2. -Z \in Int /\ -N \in Int /\ -m \in Int
  OBVIOUS
<1>3. (-Z) * C * g + 2 <= (-m) * U + q * C
  <2>1. (-Z) * C * g = -(Z * C * g) /\ (-m) * U = -(m * U)
    BY <1>1
  <2>2. Z * C * g \in Int /\ m * U \in Int /\ q * C \in Int
    BY <1>1
  <2>3. QED
    BY <2>1, <2>2
<1>4. (-m) * D <= (-N) * g + rho
  <2>1. (-m) * D = -(m * D) /\ (-N) * g = -(N * g)
    BY <1>1
  <2>2. m * D \in Int /\ N * g \in Int
    BY <1>1
  <2>3. QED
    BY <2>1, <2>2
<1>5. g * ((-Z) * B) <= g * ((-N) * A) + q * B
  BY <1>2, <1>3, <1>4, NearAbove
<1>6. g * ((-Z) * B) = -(g * (Z * B)) /\ g * ((-N) * A) = -(g * (N * A))
  BY <1>1
<1>7. g * (Z * B) \in Int /\ g * (N * A) \in Int /\ q * B \in Int
  BY <1>1
<1>8. QED
  BY <1>5, <1>6, <1>7

(* A sum with a high digit is not shifted far up.                          *)
LEMMA UpBound ==
  ASSUME NEW up \in Nat, NEW m \in Nat, NEW n \in Nat, NEW i \in 0..n, Two[i] <= m,
         up = 0 \/ m * Two[up] < Two[n + 1]
  PROVE  up <= n - i
<1>1. CASE up = 0
  BY <1>1
<1>2. CASE m * Two[up] < Two[n + 1]
  <2>1. i \in Nat /\ i + up \in Nat /\ n + 1 \in Nat
    OBVIOUS
  <2>2. PICK a \in Nat \ {0}, b \in Nat \ {0}, c \in Nat : a = Two[up] /\ b = Two[i] /\ c = Two[n + 1]
    BY <2>1, TwoNext
  <2>3. Two[i + up] = b * a
    BY <2>1, <2>2, TwoSum
  <2>4. a * b <= a * m
    BY <2>2, LessThan
  <2>5. a * b = b * a /\ a * m = m * a
    OBVIOUS
  <2>6. PICK v \in Nat, w \in Nat : v = b * a /\ w = m * a
    BY Product
  <2>7. Two[i + up] < Two[n + 1]
    BY <1>2, <2>2, <2>3, <2>4, <2>5, <2>6
  <2>8. ~(n + 1 <= i + up)
    <3>1. ASSUME n + 1 <= i + up PROVE FALSE
      <4>1. Two[n + 1] <= Two[i + up]
        BY <2>1, <3>1, TwoGrows
      <4>2. PICK o \in Nat : o = Two[i + up]
        BY <2>1, TwoNext
      <4>3. QED
        BY <2>2, <2>7, <4>1, <4>2
    <3>2. QED
      BY <3>1
  <2>9. QED
    BY <2>1, <2>8
<1>3. QED
  BY <1>1, <1>2

LEMMA ScalesAre ==
  ASSUME NEW up \in Nat, NEW c \in Nat, NEW a \in Nat, NEW d \in Nat, NEW b \in Nat, up + b = c + (a + d)
  PROVE  Scales(Two[up], Two[c], Two[a], Two[d], Two[b])
<1>1. /\ Two[up] \in Nat \ {0} /\ Two[c] \in Nat \ {0} /\ Two[a] \in Nat \ {0}
      /\ Two[d] \in Nat \ {0} /\ Two[b] \in Nat \ {0}
  BY TwoNext
<1>2. a + d \in Nat
  OBVIOUS
<1>3. Two[up + b] = Two[up] * Two[b]
  BY TwoSum
<1>4. Two[a + d] = Two[a] * Two[d]
  BY TwoSum
<1>5. Two[c + (a + d)] = Two[c] * Two[a + d]
  BY <1>2, TwoSum
<1>6. QED
  BY <1>1, <1>3, <1>4, <1>5, Zenon DEF Scales

LEMMA Distance ==
  ASSUME NEW g \in Nat, NEW x \in Int, NEW y \in Int, NEW e \in Int, g * x <= g * y + e, g * y <= g * x + e
  PROVE  g * SizeOf(x - y) <= e
<1>1. PICK i \in Int, j \in Int : i = g * x /\ j = g * y
  OBVIOUS
<1>2. i <= j + e /\ j <= i + e
  BY <1>1
<1>3. CASE x - y < 0
  <2>1. SizeOf(x - y) = y - x
    BY <1>3 DEF SizeOf
  <2>2. g * (y - x) = g * y - g * x
    OBVIOUS
  <2>3. QED
    BY <1>1, <1>2, <2>1, <2>2
<1>4. CASE ~(x - y < 0)
  <2>1. SizeOf(x - y) = x - y
    BY <1>4 DEF SizeOf
  <2>2. g * (x - y) = g * x - g * y
    OBVIOUS
  <2>3. QED
    BY <1>1, <1>2, <2>1, <2>2
<1>5. QED
  BY <1>3, <1>4

(* What Addsf3() rounds: s in units of the larger exponent, and of the     *)
(* guard bits, is sum in units of the smaller one, rounded down.           *)
ShiftedSum(s, sum, d, rho) ==
  /\ s \in Int \ {0} /\ sum \in Int /\ d \in Nat /\ rho \in Nat /\ rho < Two[d]
  /\ s * Two[d] + rho = sum * Two[GUARD]
  /\ SizeOf(s) < Two[PLACES + GUARD + 2]
  /\ \/ rho = 0 /\ d <= 1 /\ Two[GUARD - d] <= SizeOf(s)
     \/ Two[PLACES + GUARD - 1] <= SizeOf(s)

LEMMA ShiftedSumNear ==
  ASSUME NEW s, NEW sum, NEW d, NEW rho, ShiftedSum(s, sum, d, rho),
         NEW e \in Nat, e > PLACES, e + d + 2 <= 2 * EXCESS + 2
  PROVE  \E z : /\ z = Rounded(s < 0, e + d, SizeOf(s)) /\ z # Zero /\ z.exp \in Nat
                /\ \A lo \in Nat : lo <= e /\ lo <= z.exp => Near(z, lo, sum * Two[e - lo], 1, 2)
<1>1. /\ s \in Int /\ s # 0 /\ sum \in Int /\ d \in Nat /\ rho \in Nat /\ rho < Two[d]
      /\ s * Two[d] + rho = sum * Two[GUARD] /\ SizeOf(s) < Two[PLACES + GUARD + 2]
  BY DEF ShiftedSum
<1>2. PICK m \in Nat \ {0} : m = SizeOf(s)
  BY <1>1 DEF SizeOf
<1>2a. PICK neg \in BOOLEAN : neg = (s < 0)
  <2>1. (s < 0) \in BOOLEAN
    BY <1>1
  <2>2. QED
    BY <2>1, Zenon
<1>3. PICK up, c, mant : RoundsTo(up, c, mant, m) /\ Rounded(neg, e + d, m) = PACK(neg, (e + d) - up + c, mant)
  <2>1. PICK x \in Int : x = e + d
    BY <1>1
  <2>2. m < Two[PLACES + GUARD + 2]
    BY <1>1, <1>2
  <2>3. \E up, c, z : RoundsTo(up, c, z, m) /\ Rounded(neg, x, m) = PACK(neg, x - up + c, z)
    BY <2>2, RoundedIs
  <2>4. QED
    BY <2>1, <2>3
<1>4. PICK u \in Nat \ {0}, h \in Nat \ {0}, p \in Nat :
        u = Two[GUARD - 1] /\ Two[GUARD] = 2 * u /\ h = HIDDEN /\ p = PLACES /\ p >= 11 /\ GUARD \in Nat \ {0}
  BY GuardIs, FloatSizes
<1>5. PICK U \in Nat \ {0}, C \in Nat \ {0}, D \in Nat \ {0} : U = Two[up] /\ C = Two[c] /\ D = Two[d]
  <2>1. up \in Nat /\ c \in Nat
    BY <1>3, FloatSizes DEF RoundsTo
  <2>2. QED
    BY <1>1, <2>1, TwoNext
<1>6. /\ up \in 0..(PLACES + GUARD) /\ up \in Nat /\ c \in 0..2 /\ mant \in h..(2 * h - 1) /\ mant \in Int
      /\ up = 0 \/ m * Two[up] < Two[PLACES + GUARD + 1]
      /\ mant * C * (2 * u) + 2 <= m * U + (u + 2) * C
      /\ m * U + 2 <= mant * C * (2 * u) + (u + 2) * C
  BY <1>3, <1>4, <1>5, FloatSizes DEF RoundsTo
<1>7. (rho = 0 /\ d <= 1 /\ up <= p + d) \/ up <= 1
  <2>1. CASE rho = 0 /\ d <= 1 /\ Two[GUARD - d] <= SizeOf(s)
    <3>1. PICK n \in Nat, i \in Nat : i \in 0..n /\ n = PLACES + GUARD /\ i = GUARD - d /\ n - i = p + d
      <4>1. PLACES + GUARD \in Nat /\ GUARD - d \in 0..(PLACES + GUARD) /\ (PLACES + GUARD) - (GUARD - d) = p + d
        BY <1>1, <1>4, <2>1
      <4>2. QED
        BY <4>1
    <3>2. up <= n - i
      BY <1>2, <1>6, <2>1, <3>1, UpBound
    <3>3. QED
      BY <2>1, <3>1, <3>2
  <2>2. CASE Two[PLACES + GUARD - 1] <= SizeOf(s)
    <3>1. PICK n \in Nat, i \in Nat : i \in 0..n /\ n = PLACES + GUARD /\ i = PLACES + GUARD - 1 /\ n - i = 1
      <4>1. PLACES + GUARD \in Nat /\ PLACES + GUARD - 1 \in 0..(PLACES + GUARD) /\ (PLACES + GUARD) - (PLACES + GUARD - 1) = 1
        BY <1>4
      <4>2. QED
        BY <4>1
    <3>2. up <= n - i
      BY <1>2, <1>6, <2>2, <3>1, UpBound
    <3>3. QED
      BY <3>1, <3>2
  <2>3. QED
    BY <2>1, <2>2 DEF ShiftedSum
<1>8. rho * U <= 2 * D
  <2>1. CASE rho = 0
    BY <2>1
  <2>2. CASE up <= 1
    <3>1. U \in {1, 2}
      <4>1. Two[0] = 1 /\ Two[0 + 1] = 2 * Two[0]
        BY TwoNext
      <4>2. QED
        BY <1>5, <1>6, <2>2, <4>1
    <3>2. QED
      BY <1>1, <1>5, <3>1
  <2>3. QED
    BY <1>7, <2>1, <2>2
<1>9. PICK f \in Nat \ {0} : f = (e + d) - up + c /\ f <= 2 * EXCESS + 2
  <2>1. PICK x \in Nat : x = EXCESS
    BY FloatSizes
  <2>2. e > p /\ e + d + 2 <= 2 * x + 2
    BY <1>4, <2>1
  <2>3. (e + d) - up + c \in Nat \ {0} /\ (e + d) - up + c <= 2 * x + 2
    BY <1>1, <1>4, <1>6, <1>7, <2>2
  <2>4. QED
    BY <2>1, <2>3
<1>11. PICK z : z = PACK(neg, f, mant)
  OBVIOUS
<1>12. z.neg = neg /\ z.exp = f /\ MANT(z) = mant /\ z # Zero /\ z.man \in 0..(HIDDEN - 1)
  BY <1>4, <1>6, <1>11, PackIs
<1>13. IsNormal(z)
  BY <1>9, <1>12, FloatSizes DEF IsNormal
<1>14. ASSUME NEW lo \in Nat, lo <= e, lo <= f PROVE Near(z, lo, sum * Two[e - lo], 1, 2)
  <2>1. PICK a \in Nat, b \in Nat : a = e - lo /\ b = f - lo /\ up + b = c + (a + d)
    <3>1. e - lo \in Nat /\ f - lo \in Nat /\ up + (f - lo) = c + ((e - lo) + d)
      BY <1>1, <1>6, <1>9, <1>14
    <3>2. QED
      BY <3>1
  <2>2. PICK A \in Nat \ {0}, B \in Nat \ {0} : A = Two[a] /\ B = Two[b]
    BY TwoNext
  <2>3. Scales(U, C, A, D, B)
    <3>1. c \in Nat /\ up \in Nat
      BY <1>6
    <3>2. Scales(Two[up], Two[c], Two[a], Two[d], Two[b])
      BY <1>1, <2>1, <3>1, ScalesAre
    <3>3. QED
      BY <1>5, <2>2, <3>2, Zenon
  <2>4. PICK n \in Int : n = (IF s < 0 THEN -sum ELSE sum) /\ m * D <= n * (2 * u) + rho /\ n * (2 * u) <= m * D + rho
    <3>1. PICK i \in Int, j \in Int : i = s * D /\ j = sum * (2 * u) /\ i + rho = j
      <4>1. s * D \in Int /\ sum * (2 * u) \in Int
        BY <1>1
      <4>2. QED
        BY <1>1, <1>4, <1>5, <4>1
    <3>2. CASE s < 0
      <4>1. m = -s
        BY <1>2, <3>2 DEF SizeOf
      <4>2. m * D = -i /\ (-sum) * (2 * u) = -j /\ -sum \in Int
        BY <1>1, <3>1, <4>1
      <4>3. QED
        BY <1>1, <3>1, <3>2, <4>2
    <3>3. CASE ~(s < 0)
      <4>1. m = s
        BY <1>2, <3>3 DEF SizeOf
      <4>2. QED
        BY <1>1, <3>1, <3>3, <4>1
    <3>4. QED
      BY <3>2, <3>3
  <2>5. /\ (2 * u) * (mant * B) <= (2 * u) * (n * A) + (u + 2) * B
        /\ (2 * u) * (n * A) <= (2 * u) * (mant * B) + (u + 2) * B
    <3>1. 2 * u \in Nat /\ u + 2 \in Nat /\ m \in Int
      OBVIOUS
    <3>2. (2 * u) * (mant * B) <= (2 * u) * (n * A) + (u + 2) * B
      BY <1>1, <1>6, <1>8, <2>3, <2>4, <3>1, NearAbove
    <3>3. (2 * u) * (n * A) <= (2 * u) * (mant * B) + (u + 2) * B
      BY <1>1, <1>6, <1>8, <2>3, <2>4, <3>1, NearBelow
    <3>4. QED
      BY <3>2, <3>3
  <2>6. PICK v \in Int, w \in Int, err \in Int : v = mant * B /\ w = n * A /\ err = (u + 2) * B
    <3>1. mant * B \in Int /\ n * A \in Int /\ (u + 2) * B \in Int
      BY <1>6
    <3>2. QED
      BY <3>1
  <2>7. (2 * u) * SizeOf(v - w) <= err
    <3>1. 2 * u \in Nat
      OBVIOUS
    <3>2. QED
      BY <2>5, <2>6, <3>1, Distance
  <2>8. SizeOf(Units(z, lo) * 1 - sum * A) = SizeOf(v - w)
    <3>1. Units(z, lo) = WithSign(neg, mant) * B
      BY <1>12, <2>1, <2>2 DEF Units
    <3>2. CASE s < 0
      <4>1. Units(z, lo) = -v
        <5>1. WithSign(neg, mant) = -mant
          BY <1>2a, <3>2 DEF WithSign
        <5>2. (-mant) * B = -(mant * B)
          BY <1>6
        <5>3. QED
          BY <2>6, <3>1, <5>1, <5>2
      <4>2. sum * A = -w
        <5>1. (-sum) * A = -(sum * A) /\ sum * A \in Int
          BY <1>1
        <5>2. QED
          BY <2>4, <2>6, <3>2, <5>1
      <4>3. QED
        BY <4>1, <4>2 DEF SizeOf
    <3>3. CASE ~(s < 0)
      <4>1. Units(z, lo) = v
        BY <1>2a, <2>6, <3>1, <3>3 DEF WithSign
      <4>2. sum * A = w
        BY <2>4, <2>6, <3>3
      <4>3. QED
        BY <4>1, <4>2 DEF SizeOf
    <3>4. QED
      BY <3>2, <3>3
  <2>9. (u + 2) * 1 * B = err
    BY <2>6
  <2>10. Two[GUARD] * SizeOf(Units(z, lo) * 1 - sum * Two[e - lo]) <= (Two[GUARD - 1] + 2) * 1 * Two[z.exp - lo]
    BY <1>4, <1>12, <2>1, <2>2, <2>7, <2>8, <2>9
  <2>11. QED
    BY <1>12, <1>13, <2>10, Zenon DEF Near
<1>15. QED
  BY <1>2, <1>3, <1>9, <1>2a, <1>11, <1>12, <1>14

LEMMA QuotientBound ==
  ASSUME NEW D \in Nat \ {0}, NEW q \in Int, NEW rho \in 0..(D - 1), NEW y \in Int, y = D * q + rho,
         NEW K \in Nat, NEW L \in Nat, K <= D * L, -K <= y, y <= K
  PROVE  -L <= q /\ q <= L
<1>1. PICK i \in Int, j \in Int : i = D * q /\ j = D * L
  OBVIOUS
<1>2. ~(L + 1 <= q)
  <2> SUFFICES ASSUME L + 1 <= q PROVE FALSE
    OBVIOUS
  <2>1. L + 1 \in Int
    OBVIOUS
  <2>2. D * (L + 1) <= D * q
    BY <2>1, LessThan
  <2>3. D * (L + 1) = D * L + D
    OBVIOUS
  <2>4. QED
    BY <1>1, <2>2, <2>3
<1>3. ~(q <= -L - 1)
  <2> SUFFICES ASSUME q <= -L - 1 PROVE FALSE
    OBVIOUS
  <2>1. -L - 1 \in Int
    OBVIOUS
  <2>2. D * q <= D * (-L - 1)
    BY <2>1, LessThan
  <2>3. D * (-L - 1) = -(D * L) - D
    OBVIOUS
  <2>4. QED
    BY <1>1, <2>2, <2>3
<1>4. QED
  BY <1>2, <1>3

ShiftedInto(x, y, d) == x * Two[GUARD] + (y * Two[GUARD]) \div Two[d]

(* What is shifted out is less than a unit of the guard bits, and nothing  *)
(* when the exponents differ by one at most: so only sums whose highest    *)
(* digit is in the first or second place have lost any.                    *)
LEMMA ShiftedSumIs ==
  ASSUME NEW x \in Int, NEW y \in Int, NEW d \in Nat,
         SizeOf(x) \in HIDDEN..(2 * HIDDEN - 1), SizeOf(y) \in HIDDEN..(2 * HIDDEN - 1)
  PROVE  /\ ShiftedInto(x, y, d) \in Int
         /\ IF ShiftedInto(x, y, d) = 0 THEN x * Two[d] + y = 0
            ELSE \E rho : ShiftedSum(ShiftedInto(x, y, d), x * Two[d] + y, d, rho)
<1>1. PICK u \in Nat \ {0}, h \in Nat \ {0} :
        /\ u = Two[GUARD - 1] /\ Two[GUARD] = 2 * u /\ h = HIDDEN
        /\ Two[PLACES + GUARD + 2] = 4 * (h * (2 * u)) /\ Two[PLACES + GUARD - 1] = h * u
  <2>1. PICK u \in Nat \ {0}, g \in Nat, t \in Nat :
          /\ u = Two[GUARD - 1] /\ Two[GUARD] = 2 * u /\ t = HIDDEN * (2 * u)
          /\ Two[PLACES + GUARD + 2] = 4 * t /\ g = GUARD - 1 /\ Two[PLACES + g] = HIDDEN * u
    BY GuardIs
  <2>2. HIDDEN \in Nat \ {0} /\ PLACES + g = PLACES + GUARD - 1
    BY <2>1, FloatSizes
  <2>3. QED
    BY <2>1, <2>2
<1>2. PICK D \in Nat \ {0} : D = Two[d]
  BY TwoNext
<1>3. PICK w \in Nat \ {0} : w = 2 * u
  OBVIOUS
<1>4. PICK yg \in Int, xg \in Int : yg = y * w /\ xg = x * w
  OBVIOUS
<1>5. PICK q \in Int, rho \in 0..(D - 1) : q = yg \div D /\ yg = D * q + rho
  <2>1. yg \div D \in Int /\ yg % D \in 0..(D - 1) /\ yg = D * (yg \div D) + (yg % D)
    BY DivIs
  <2>2. QED
    BY <2>1
<1>6. PICK s \in Int : s = ShiftedInto(x, y, d) /\ s = xg + q
  <2>1. ShiftedInto(x, y, d) = xg + q
    BY <1>1, <1>2, <1>3, <1>4, <1>5, Zenon DEF ShiftedInto
  <2>2. xg + q \in Int
    OBVIOUS
  <2>3. QED
    BY <2>1, <2>2
<1>7. PICK sum \in Int : sum = x * Two[d] + y /\ sum = x * D + y
  <2>1. x * D + y \in Int
    OBVIOUS
  <2>2. QED
    BY <1>2, <2>1
<1>8. s * D + rho = sum * w
  <2>1. s * D = xg * D + D * q
    BY <1>6
  <2>2. xg * D = (x * D) * w
    BY <1>4
  <2>3. sum * w = (x * D) * w + y * w
    BY <1>7
  <2>4. PICK i \in Int, j \in Int, o \in Int, p \in Int : i = xg * D /\ j = D * q /\ o = s * D /\ p = sum * w
    OBVIOUS
  <2>5. QED
    BY <1>4, <1>5, <2>1, <2>2, <2>3, <2>4
<1>9. PICK k \in Nat, v \in Nat : k = (2 * h - 1) * w /\ v = h * u /\ k = 4 * v - w /\ 4 * v = 2 * (h * w) /\ v >= 1
  <2>1. (2 * h - 1) * w = 4 * (h * u) - w /\ 4 * (h * u) = 2 * (h * w)
    BY <1>3
  <2>2. h * u \in Nat /\ h * u >= 1 /\ h * u >= u
    <3>1. h \in Nat /\ u \in Nat
      OBVIOUS
    <3>2. h * u \in Nat /\ h * u >= u
      BY <3>1, Product
    <3>3. QED
      BY <3>2
  <2>3. 4 * (h * u) - w \in Nat
    BY <1>3, <2>2
  <2>4. QED
    BY <2>1, <2>2, <2>3
<1>10. ASSUME NEW z \in Int, SizeOf(z) \in h..(2 * h - 1)
       PROVE  z * w \in Int /\ SizeOf(z * w) >= 2 * v /\ -k <= z * w /\ z * w <= k
  <2>1. PICK n \in Nat : n = SizeOf(z) /\ h <= n /\ n <= 2 * h - 1
    BY <1>10
  <2>2. w * h <= w * n /\ w * n <= w * (2 * h - 1)
    <3>1. n \in Int /\ h \in Int /\ 2 * h - 1 \in Int
      OBVIOUS
    <3>2. QED
      BY <2>1, <3>1, LessThan
  <2>3. w * n \in Nat /\ 2 * v <= w * n /\ w * n <= k
    <3>1. w * (2 * h - 1) = k /\ w * h = h * w /\ w * n \in Nat
      BY <1>9
    <3>2. PICK i \in Nat, j \in Nat : i = w * n /\ j = h * w
      BY <3>1
    <3>3. QED
      BY <1>9, <2>2, <3>1, <3>2
  <2>4. z * w = w * n \/ z * w = -(w * n)
    <3>1. z = n \/ z = -n
      BY <2>1 DEF SizeOf
    <3>2. n * w = w * n /\ (-n) * w = -(w * n)
      OBVIOUS
    <3>3. QED
      BY <3>1, <3>2
  <2>5. PICK o \in Nat : o = w * n
    BY <2>3
  <2>6. PICK p \in Int : p = z * w
    OBVIOUS
  <2>7. (p = o \/ p = -o) /\ 2 * v <= o /\ o <= k
    BY <2>3, <2>4, <2>5, <2>6
  <2>8. SizeOf(p) = o
    BY <2>7 DEF SizeOf
  <2>9. QED
    BY <2>6, <2>7, <2>8
<1>11. xg \in Int /\ SizeOf(xg) >= 2 * v /\ -k <= xg /\ xg <= k
  BY <1>1, <1>4, <1>10
<1>12. -k <= yg /\ yg <= k
  BY <1>1, <1>4, <1>10
<1>13. -k <= q /\ q <= k
  <2>1. k <= D * k
    <3>1. D \in Nat /\ D # 0
      OBVIOUS
    <3>2. CASE k = 0
      BY <3>2
    <3>3. CASE k # 0
      BY <3>1, <3>3, Product
    <3>4. QED
      BY <3>2, <3>3
  <2>2. QED
    BY <1>5, <1>12, <2>1, QuotientBound
<1>14. SizeOf(s) < Two[PLACES + GUARD + 2]
  <2>1. Two[PLACES + GUARD + 2] = 8 * v
    <3>1. PICK i \in Nat : i = h * w
      OBVIOUS
    <3>2. QED
      BY <1>1, <1>3, <1>9, <3>1
  <2>2. QED
    BY <1>3, <1>6, <1>9, <1>11, <1>13, <2>1 DEF SizeOf
<1>15. rho \in Nat /\ rho < Two[d] /\ s * Two[d] + rho = sum * Two[GUARD]
  BY <1>1, <1>2, <1>3, <1>8
<1>16. CASE d >= 2
  <2>1. 4 <= D
    <3>1. Two[0] = 1 /\ Two[0 + 1] = 2 * Two[0] /\ Two[1 + 1] = 2 * Two[1]
      BY TwoNext
    <3>2. Two[2] <= Two[d]
      BY <1>16, TwoGrows
    <3>3. QED
      BY <1>2, <3>1, <3>2
  <2>2. k <= D * v
    <3>1. v * 4 <= v * D
      BY <1>9, <2>1, LessThan
    <3>2. v * D = D * v
      OBVIOUS
    <3>3. PICK i \in Nat : i = D * v
      OBVIOUS
    <3>4. QED
      BY <1>9, <3>1, <3>2, <3>3
  <2>3. -v <= q /\ q <= v
    BY <1>5, <1>12, <2>2, QuotientBound
  <2>4. SizeOf(s) >= v /\ s # 0
    BY <1>6, <1>9, <1>11, <2>3 DEF SizeOf
  <2>5. Two[PLACES + GUARD - 1] <= SizeOf(s)
    BY <1>1, <1>9, <2>4
  <2>6. ShiftedSum(s, sum, d, rho)
    BY <1>14, <1>15, <2>4, <2>5 DEF ShiftedSum
  <2>7. QED
    BY <1>6, <1>7, <2>4, <2>6
<1>17. CASE d <= 1
  <2>1. PICK r \in Nat \ {0} : r = Two[GUARD - d] /\ w = r * D /\ q = r * y /\ rho = 0
    <3>1. Two[0] = 1 /\ Two[0 + 1] = 2 * Two[0]
      BY TwoNext
    <3>2. CASE d = 0
      <4>1. D = 1 /\ GUARD - d = GUARD
        BY <1>2, <3>1, <3>2, FloatSizes
      <4>2. rho = 0 /\ q = yg
        BY <1>5, <4>1
      <4>3. yg = w * y /\ w = w * D
        BY <1>4, <4>1
      <4>4. QED
        BY <1>1, <1>3, <4>1, <4>2, <4>3
    <3>3. CASE d = 1
      <4>1. D = 2 /\ GUARD - d = GUARD - 1
        BY <1>2, <3>1, <3>3
      <4>2. PICK i \in Int : i = u * y
        OBVIOUS
      <4>3. yg = 2 * i
        <5>1. y * (2 * u) = 2 * (u * y)
          OBVIOUS
        <5>2. QED
          BY <1>3, <1>4, <4>2, <5>1
      <4>4. rho = 0 /\ q = i
        <5>0. D * q = 2 * q /\ D - 1 = 1
          BY <4>1
        <5>1. 2 * q + rho = 2 * i /\ rho \in 0..1
          <6>1. rho \in 0..1
            BY <5>0, Zenon
          <6>2. D * q + rho = 2 * i
            BY <1>5, <4>3, Zenon
          <6>3. QED
            BY <5>0, <6>1, <6>2, Zenon
        <5>2. QED
          BY <5>1
      <4>5. QED
        BY <1>1, <1>3, <4>1, <4>2, <4>4
    <3>4. QED
      BY <1>17, <3>2, <3>3
  <2>2. PICK f \in Int : f = x * D + y /\ s = r * f
    <3>1. xg = r * (x * D)
      BY <1>4, <2>1
    <3>2. r * (x * D) + r * y = r * (x * D + y)
      OBVIOUS
    <3>3. QED
      BY <1>6, <2>1, <3>1, <3>2
  <2>3. CASE s = 0
    <3>1. f = 0
      <4>1. r * f <= r * 0 /\ r * 0 <= r * f
        BY <2>2, <2>3
      <4>2. 0 \in Int
        OBVIOUS
      <4>3. f <= 0 /\ 0 <= f
        BY <4>1, <4>2, Cancels
      <4>4. QED
        BY <4>3
    <3>2. QED
      BY <1>6, <1>7, <2>2, <2>3, <3>1
  <2>4. CASE s # 0
    <3>1. SizeOf(s) >= r
      <4>1. PICK n \in Nat : n = SizeOf(f) /\ (f = n \/ f = -n)
        BY DEF SizeOf
      <4>2. n # 0
        BY <2>2, <2>4, <4>1
      <4>3. r * n \in Nat /\ r * n >= r
        <5>1. r \in Nat /\ r # 0
          OBVIOUS
        <5>2. QED
          BY <4>2, <5>1, Product
      <4>4. s = r * n \/ s = -(r * n)
        <5>1. r * (-n) = -(r * n)
          OBVIOUS
        <5>2. QED
          BY <2>2, <4>1, <5>1
      <4>5. PICK o \in Nat : o = r * n
        BY <4>3
      <4>6. QED
        BY <4>3, <4>4, <4>5 DEF SizeOf
    <3>2. ShiftedSum(s, sum, d, rho)
      BY <1>14, <1>15, <1>17, <2>1, <2>4, <3>1 DEF ShiftedSum
    <3>3. QED
      BY <1>6, <1>7, <2>4, <3>2
  <2>5. QED
    BY <2>3, <2>4
<1>18. QED
  BY <1>16, <1>17

FloatValue(z) == WithSign(z.neg, MANT(z))
Shift(z, exp) == (WithSign(z.neg, MANT(z)) * Two[GUARD]) \div Two[exp - z.exp]
Summed(exp, sum) == IF sum = 0 THEN Zero ELSE Rounded(sum < 0, exp, SizeOf(sum))
Aligned(x, y, exp) == Summed(exp, Shift(x, exp) + Shift(y, exp))

(* __addsf3() of numbers that are not zero.                                *)
LEMMA AddIs ==
  ASSUME NEW x \in Digits, NEW y \in Digits
  PROVE  Addsf3(x, y) = IF x.exp > y.exp + PLACES + 2 THEN x
                        ELSE IF y.exp > x.exp + PLACES + 2 THEN y
                        ELSE Aligned(x, y, Max({x.exp, y.exp}))
<1> DEFINE exp == Max({x.exp, y.exp})
           Placed(z) == (WithSign(z.neg, MANT(z)) * Two[GUARD]) \div Two[exp - z.exp]
           sum == Placed(x) + Placed(y)
<1>1. Addsf3(x, y) = CASE x = Zero -> y
                       [] y = Zero -> x
                       [] OTHER -> CASE x.exp > y.exp + PLACES + 2 -> x
                                     [] y.exp > x.exp + PLACES + 2 -> y
                                     [] OTHER -> IF sum = 0 THEN Zero ELSE Rounded(sum < 0, exp, SizeOf(sum))
  BY Zenon DEF Addsf3
<1>2. Aligned(x, y, exp) = IF sum = 0 THEN Zero ELSE Rounded(sum < 0, exp, SizeOf(sum))
  BY Zenon DEF Aligned, Summed, Shift
<1> HIDE DEF sum, exp
<1>3. Addsf3(x, y) = CASE x = Zero -> y
                       [] y = Zero -> x
                       [] OTHER -> CASE x.exp > y.exp + PLACES + 2 -> x
                                     [] y.exp > x.exp + PLACES + 2 -> y
                                     [] OTHER -> Aligned(x, y, exp)
  BY <1>1, <1>2, Zenon
<1>4. PICK a : a = Aligned(x, y, exp)
  OBVIOUS
<1>5. x # Zero /\ y # Zero
  BY DigitsAre
<1>6. Addsf3(x, y) = CASE x.exp > y.exp + PLACES + 2 -> x
                       [] y.exp > x.exp + PLACES + 2 -> y
                       [] OTHER -> a
  BY <1>3, <1>4, <1>5
<1>7. PICK i \in Nat, j \in Nat, p \in Nat : i = x.exp /\ j = y.exp /\ p = PLACES
  BY DigitsAre, FloatSizes
<1>8. Addsf3(x, y) = CASE i > j + p + 2 -> x [] j > i + p + 2 -> y [] OTHER -> a
  BY <1>6, <1>7
<1>9. Addsf3(x, y) = IF i > j + p + 2 THEN x ELSE IF j > i + p + 2 THEN y ELSE a
  BY <1>8
<1>10. QED
  BY <1>4, <1>7, <1>9 DEF exp

LEMMA FloatValueIs ==
  ASSUME NEW z \in Digits
  PROVE  FloatValue(z) \in Int /\ SizeOf(FloatValue(z)) = MANT(z) /\ SizeOf(FloatValue(z)) \in HIDDEN..(2 * HIDDEN - 1)
<1>1. PICK m \in Nat \ {0} : m = MANT(z) /\ MANT(z) \in HIDDEN..(2 * HIDDEN - 1)
  BY DigitsAre, FloatSizes
<1>2. FloatValue(z) = m \/ FloatValue(z) = -m
  BY <1>1 DEF FloatValue, WithSign
<1>3. FloatValue(z) \in Int /\ SizeOf(FloatValue(z)) = m
  BY <1>2 DEF SizeOf
<1>4. QED
  BY <1>1, <1>3

(* The sum of two numbers, of which x has the larger exponent, before it   *)
(* is rounded.                                                             *)
LEMMA AlignedIs ==
  ASSUME NEW x \in Digits, NEW y \in Digits, NEW d \in Nat, x.exp = y.exp + d
  PROVE  /\ Max({x.exp, y.exp}) = x.exp
         /\ Shift(x, x.exp) + Shift(y, x.exp) = ShiftedInto(FloatValue(x), FloatValue(y), d)
         /\ Shift(y, x.exp) + Shift(x, x.exp) = ShiftedInto(FloatValue(x), FloatValue(y), d)
<1>1. PICK i \in Nat, j \in Nat : i = x.exp /\ j = y.exp /\ i = j + d
  BY DigitsAre
<1>2. Max({x.exp, y.exp}) = x.exp
  <2>1. {i, j} \in SUBSET (0..i) /\ i \in {i, j} /\ \A k \in {i, j} : k <= i
    BY <1>1
  <2>2. Max({i, j}) = i
    BY <2>1, MaxOf
  <2>3. QED
    BY <1>1, <2>2
<1>3. PICK g \in Nat \ {0}, D \in Nat \ {0} : g = Two[GUARD] /\ D = Two[d]
  <2>1. GUARD \in Nat
    BY FloatSizes
  <2>2. QED
    BY <2>1, TwoNext
<1>4. PICK a \in Int, b \in Int : a = FloatValue(x) /\ b = FloatValue(y)
  BY FloatValueIs
<1>5. Shift(x, x.exp) = a * g
  <2>1. x.exp - x.exp = 0 /\ Two[0] = 1
    BY <1>1, TwoNext
  <2>2. Shift(x, x.exp) = (a * g) \div 1
    BY <1>3, <1>4, <2>1, Zenon DEF Shift, FloatValue
  <2>3. PICK k \in Int : k = a * g
    OBVIOUS
  <2>4. k \div 1 = k
    OBVIOUS
  <2>5. QED
    BY <2>2, <2>3, <2>4
<1>6. Shift(y, x.exp) = (b * g) \div D
  <2>1. x.exp - y.exp = d
    BY <1>1
  <2>2. QED
    BY <1>3, <1>4, <2>1, Zenon DEF Shift, FloatValue
<1>7. ShiftedInto(FloatValue(x), FloatValue(y), d) = a * g + (b * g) \div D
  BY <1>3, <1>4, Zenon DEF ShiftedInto
<1>8. PICK k \in Int, l \in Int : k = a * g /\ l = (b * g) \div D
  <2>1. a * g \in Int /\ b * g \in Int
    OBVIOUS
  <2>2. (b * g) \div D \in Int
    BY <2>1, DivIs
  <2>3. QED
    BY <2>1, <2>2
<1>9. k + l = l + k
  OBVIOUS
<1>10. QED
  BY <1>2, <1>5, <1>6, <1>7, <1>8, <1>9

(* A sum, for any exponent that it is seen from.                           *)
NearFrom(z, lo, sum) ==
  /\ z # Zero => z.exp \in Nat
  /\ \A l \in Nat : l <= lo /\ (z # Zero => l <= z.exp) => Near(z, l, sum * Two[lo - l], 1, 2)

LEMMA SummedNear ==
  ASSUME NEW x \in Digits, NEW y \in Digits, NEW d \in Nat, x.exp = y.exp + d
  PROVE  NearFrom(Summed(x.exp, ShiftedInto(FloatValue(x), FloatValue(y), d)), y.exp, FloatValue(x) * Two[d] + FloatValue(y))
<1>1. PICK a \in Int, b \in Int : a = FloatValue(x) /\ b = FloatValue(y)
  BY FloatValueIs
<1>2. SizeOf(a) \in HIDDEN..(2 * HIDDEN - 1) /\ SizeOf(b) \in HIDDEN..(2 * HIDDEN - 1)
  BY <1>1, FloatValueIs
<1>3. PICK s \in Int : s = ShiftedInto(a, b, d)
  BY <1>2, ShiftedSumIs
<1>4. PICK sum : sum = a * Two[d] + b
  OBVIOUS
<1>5. CASE s = 0
  <2>1. sum = 0
    BY <1>2, <1>3, <1>4, <1>5, ShiftedSumIs
  <2>2. Summed(x.exp, s) = Zero
    BY <1>5 DEF Summed
  <2>3. ASSUME NEW l \in Nat, l <= y.exp PROVE Near(Zero, l, sum * Two[y.exp - l], 1, 2)
    <3>1. y.exp - l \in Nat
      BY <2>3, DigitsAre
    <3>2. PICK t \in Nat : t = Two[y.exp - l]
      BY <3>1, TwoNext
    <3>3. 0 * t = 0
      OBVIOUS
    <3>4. sum * Two[y.exp - l] = 0
      BY <2>1, <3>2, <3>3
    <3>5. QED
      BY <3>4 DEF Near, IsNormal
  <2>4. NearFrom(Zero, y.exp, sum)
    BY <2>3 DEF NearFrom
  <2>5. QED
    BY <1>1, <1>3, <1>4, <2>2, <2>4
<1>6. CASE s # 0
  <2>1. PICK rho : ShiftedSum(s, sum, d, rho)
    BY <1>2, <1>3, <1>4, <1>6, ShiftedSumIs
  <2>2. PICK e \in Nat : e = y.exp /\ e > PLACES /\ e + d + 2 <= 2 * EXCESS + 2 /\ x.exp = e + d
    BY DigitsAre
  <2>3. PICK z : /\ z = Rounded(s < 0, e + d, SizeOf(s)) /\ z # Zero /\ z.exp \in Nat
                 /\ \A lo \in Nat : lo <= e /\ lo <= z.exp => Near(z, lo, sum * Two[e - lo], 1, 2)
    BY <2>1, <2>2, ShiftedSumNear
  <2>4. NearFrom(z, y.exp, sum)
    BY <2>2, <2>3 DEF NearFrom
  <2>5. Summed(x.exp, s) = z
    BY <1>6, <2>2, <2>3, Zenon DEF Summed
  <2>6. QED
    BY <1>1, <1>3, <1>4, <2>4, <2>5
<1>7. QED
  BY <1>5, <1>6

LEMMA UnitsAre ==
  ASSUME NEW z \in Digits, NEW lo \in Nat, lo <= z.exp
  PROVE  /\ z.exp - lo \in Nat /\ Two[z.exp - lo] \in Nat \ {0}
         /\ Units(z, lo) = FloatValue(z) * Two[z.exp - lo] /\ Units(z, lo) \in Int
<1>1. z.exp - lo \in Nat
  BY DigitsAre
<1>2. PICK t \in Nat \ {0} : t = Two[z.exp - lo]
  BY <1>1, TwoNext
<1>3. PICK a \in Int : a = FloatValue(z)
  BY FloatValueIs
<1>4. Units(z, lo) = FloatValue(z) * Two[z.exp - lo]
  BY DigitsAre DEF Units, FloatValue
<1>5. a * t \in Int
  OBVIOUS
<1>6. QED
  BY <1>1, <1>2, <1>3, <1>4, <1>5

(* A number too far below the other is dropped, and is less than half a    *)
(* unit.                                                                   *)
LEMMA FarNear ==
  ASSUME NEW x \in Digits, NEW y \in Digits, NEW d \in Nat, x.exp = y.exp + d, d > PLACES + 2
  PROVE  NearFrom(x, y.exp, FloatValue(x) * Two[d] + FloatValue(y))
<1>1. PICK i \in Nat, j \in Nat, p \in Nat : i = x.exp /\ j = y.exp /\ p = PLACES /\ i = j + d /\ d > p + 2
  BY DigitsAre, FloatSizes
<1>2. PICK u \in Nat \ {0}, h \in Nat \ {0}, D \in Nat \ {0} :
        u = Two[GUARD - 1] /\ Two[GUARD] = 2 * u /\ h = HIDDEN /\ h = Two[p] /\ D = Two[d]
  <2>1. PICK u \in Nat \ {0} : u = Two[GUARD - 1] /\ Two[GUARD] = 2 * u
    BY GuardIs
  <2>2. HIDDEN \in Nat \ {0} /\ HIDDEN = Two[p] /\ Two[d] \in Nat \ {0}
    BY <1>1, FloatSizes, TwoNext
  <2>3. QED
    BY <2>1, <2>2
<1>3. 4 * h <= D
  <2>1. p + 1 \in Nat /\ p + 2 \in Nat /\ p + 2 = (p + 1) + 1 /\ p + 2 <= d
    BY <1>1
  <2>2. Two[p + 1] = 2 * h /\ Two[p + 2] = 2 * Two[p + 1]
    BY <1>2, <2>1, TwoNext
  <2>3. Two[p + 2] <= D
    BY <1>2, <2>1, TwoGrows
  <2>4. QED
    BY <2>2, <2>3
<1>4. PICK a \in Int, b \in Int, n \in Nat : a = FloatValue(x) /\ b = FloatValue(y) /\ n = SizeOf(b) /\ n < 2 * h
  BY <1>2, FloatValueIs
<1>5. ASSUME NEW l \in Nat, l <= j PROVE Near(x, l, (a * D + b) * Two[j - l], 1, 2)
  <2>1. PICK A \in Nat \ {0}, B \in Nat \ {0} : A = Two[j - l] /\ B = Two[i - l] /\ B = D * A
    <3>1. j - l \in Nat /\ i - l = d + (j - l)
      BY <1>1, <1>5
    <3>2. Two[d + (j - l)] = Two[d] * Two[j - l]
      BY <3>1, TwoSum
    <3>3. Two[j - l] \in Nat \ {0} /\ Two[i - l] \in Nat \ {0}
      BY <3>1, TwoNext
    <3>4. QED
      BY <1>2, <3>1, <3>2, <3>3
  <2>2. Units(x, l) = a * B
    <3>1. l <= x.exp
      BY <1>1, <1>5
    <3>2. Units(x, l) = FloatValue(x) * Two[x.exp - l]
      BY <3>1, UnitsAre
    <3>3. QED
      BY <1>1, <1>4, <2>1, <3>2
  <2>3. PICK o \in Int : o = a * B * 1 - (a * D + b) * A /\ o = -(b * A)
    <3>1. a * (D * A) * 1 - (a * D + b) * A = -(b * A) /\ -(b * A) \in Int
      OBVIOUS
    <3>2. QED
      BY <2>1, <3>1
  <2>4. PICK k \in Nat : k = n * A /\ SizeOf(o) = k
    <3>1. n * A \in Nat
      OBVIOUS
    <3>2. b = n \/ b = -n
      BY <1>4 DEF SizeOf
    <3>3. (-n) * A = -(n * A)
      OBVIOUS
    <3>4. o = n * A \/ o = -(n * A)
      BY <2>3, <3>1, <3>2, <3>3
    <3>5. PICK k \in Nat : k = n * A
      BY <3>1
    <3>6. QED
      BY <3>4, <3>5 DEF SizeOf
  <2>5. (2 * u) * k <= (u + 2) * 1 * B
    <3>1. n \in Int /\ 2 * h \in Int /\ n <= 2 * h
      BY <1>4
    <3>2. (2 * u) * A \in Nat \ {0}
      <4>1. u \in Nat /\ A \in Nat /\ u # 0 /\ A # 0
        OBVIOUS
      <4>2. u * A \in Nat /\ u * A # 0
        BY <4>1, Product
      <4>3. (2 * u) * A = 2 * (u * A)
        OBVIOUS
      <4>4. QED
        BY <4>2, <4>3
    <3>3. PICK w \in Nat \ {0} : w = (2 * u) * A
      BY <3>2
    <3>4. w * n <= w * (2 * h)
      BY <3>1, LessThan
    <3>5. w * n = (2 * u) * k
      BY <2>4, <3>3
    <3>6. w * (2 * h) = (u * A) * (4 * h)
      BY <3>3
    <3>7. (u * A) * (4 * h) <= (u * A) * D
      <4>1. PICK v \in Nat \ {0} : v = u * A
        <5>1. u \in Nat /\ A \in Nat /\ u # 0 /\ A # 0
          OBVIOUS
        <5>2. QED
          BY <5>1, Product
      <4>2. 4 * h \in Int
        OBVIOUS
      <4>3. v * (4 * h) <= v * D
        BY <1>3, <4>2, LessThan
      <4>4. QED
        BY <4>1, <4>3
    <3>8. (u + 2) * 1 * B = (u * A) * D + 2 * B
      <4>1. (u + 2) * 1 * (D * A) = (u * A) * D + 2 * (D * A)
        OBVIOUS
      <4>2. QED
        BY <2>1, <4>1
    <3>9. PICK q \in Nat, r \in Nat, t \in Nat : q = (u * A) * D /\ r = (2 * u) * k /\ t = (u * A) * (4 * h)
      <4>1. (u * A) * D \in Nat /\ (2 * u) * k \in Nat /\ (u * A) * (4 * h) \in Nat
        OBVIOUS
      <4>2. QED
        BY <4>1
    <3>10. QED
      BY <3>4, <3>5, <3>6, <3>7, <3>8, <3>9
  <2>6. Two[GUARD] * SizeOf(Units(x, l) * 1 - (a * D + b) * Two[j - l]) <= (Two[GUARD - 1] + 2) * 1 * Two[x.exp - l]
    BY <1>1, <1>2, <2>1, <2>2, <2>3, <2>4, <2>5
  <2>7. IsNormal(x) /\ x # Zero
    <3>1. x.exp <= 2 * EXCESS + 2
      BY DigitsAre, FloatSizes
    <3>2. QED
      BY <3>1, DigitsAre, FloatSizes DEF IsNormal
  <2>8. QED
    BY <2>6, <2>7, Zenon DEF Near
<1>6. x.exp \in Nat
  BY <1>1
<1>7. QED
  BY <1>1, <1>2, <1>4, <1>5, <1>6, Zenon DEF NearFrom

LEMMA SelfNear ==
  ASSUME NEW z \in Floats, NEW lo \in Nat, z # Zero => lo <= z.exp
  PROVE  Near(z, lo, Units(z, lo), 1, 2)
<1>1. CASE z = Zero
  BY <1>1 DEF Near, IsNormal, Units
<1>2. CASE z \in Digits
  <2>1. z # Zero /\ lo <= z.exp
    BY <1>2, DigitsAre
  <2>2. PICK b \in Nat \ {0}, v \in Int : b = Two[z.exp - lo] /\ v = Units(z, lo)
    BY <1>2, <2>1, UnitsAre
  <2>3. PICK u \in Nat \ {0} : u = Two[GUARD - 1] /\ Two[GUARD] = 2 * u
    BY GuardIs
  <2>4. SizeOf(v * 1 - v) = 0
    BY DEF SizeOf
  <2>5. (2 * u) * 0 <= (u + 2) * 1 * b
    <3>1. (u + 2) * 1 * b \in Nat /\ (2 * u) * 0 = 0
      OBVIOUS
    <3>2. QED
      BY <3>1
  <2>6. IsNormal(z)
    <3>1. z.exp <= 2 * EXCESS + 2
      BY <1>2, DigitsAre, FloatSizes
    <3>2. QED
      BY <1>2, <3>1, DigitsAre, FloatSizes DEF IsNormal
  <2>7. Two[GUARD] * SizeOf(Units(z, lo) * 1 - Units(z, lo)) <= (Two[GUARD - 1] + 2) * 1 * Two[z.exp - lo]
    BY <2>2, <2>3, <2>4, <2>5
  <2>8. QED
    BY <2>1, <2>6, <2>7, Zenon DEF Near
<1>3. QED
  BY <1>1, <1>2, FloatsAre

(* A sum, in either order of its operands, y having the lower exponent.    *)
LEMMA OrderedSum ==
  ASSUME NEW x \in Digits, NEW y \in Digits, y.exp <= x.exp
  PROVE  LET d == x.exp - y.exp
         IN /\ d \in Nat
            /\ NearFrom(Addsf3(x, y), y.exp, FloatValue(x) * Two[d] + FloatValue(y))
            /\ NearFrom(Addsf3(y, x), y.exp, FloatValue(x) * Two[d] + FloatValue(y))
<1>1. PICK i \in Nat, j \in Nat, p \in Nat, d \in Nat :
        i = x.exp /\ j = y.exp /\ p = PLACES /\ d = x.exp - y.exp /\ i = j + d
  <2>1. x.exp \in Nat /\ y.exp \in Nat /\ PLACES \in Nat
    BY DigitsAre, FloatSizes
  <2>2. x.exp - y.exp \in Nat /\ x.exp = y.exp + (x.exp - y.exp)
    BY <2>1
  <2>3. QED
    BY <2>1, <2>2
<1>2. x.exp = y.exp + d
  BY <1>1
<1>3. CASE d > p + 2
  <2>1. x.exp > y.exp + PLACES + 2 /\ ~(y.exp > x.exp + PLACES + 2)
    BY <1>1, <1>3
  <2>2. Addsf3(x, y) = x /\ Addsf3(y, x) = x
    BY <2>1, AddIs
  <2>3. d > PLACES + 2
    BY <1>1, <1>3
  <2>4. NearFrom(x, y.exp, FloatValue(x) * Two[d] + FloatValue(y))
    BY <1>2, <2>3, FarNear
  <2>5. QED
    BY <1>1, <2>2, <2>4
<1>4. CASE ~(d > p + 2)
  <2>1. ~(x.exp > y.exp + PLACES + 2) /\ ~(y.exp > x.exp + PLACES + 2)
    BY <1>1, <1>4
  <2>2. Addsf3(x, y) = Aligned(x, y, Max({x.exp, y.exp}))
    BY <2>1, AddIs
  <2>3. Addsf3(y, x) = Aligned(y, x, Max({x.exp, y.exp}))
    <3>1. {x.exp, y.exp} = {y.exp, x.exp}
      OBVIOUS
    <3>2. Addsf3(y, x) = Aligned(y, x, Max({y.exp, x.exp}))
      BY <2>1, AddIs
    <3>3. QED
      BY <3>1, <3>2, Zenon
  <2>4. PICK r : r = Summed(x.exp, ShiftedInto(FloatValue(x), FloatValue(y), d))
    OBVIOUS
  <2>5. Addsf3(x, y) = r /\ Addsf3(y, x) = r
    <3>1. /\ Max({x.exp, y.exp}) = x.exp
          /\ Shift(x, x.exp) + Shift(y, x.exp) = ShiftedInto(FloatValue(x), FloatValue(y), d)
          /\ Shift(y, x.exp) + Shift(x, x.exp) = ShiftedInto(FloatValue(x), FloatValue(y), d)
      BY <1>2, AlignedIs
    <3>2. QED
      BY <2>2, <2>3, <2>4, <3>1, Zenon DEF Aligned
  <2>6. NearFrom(r, y.exp, FloatValue(x) * Two[d] + FloatValue(y))
    BY <1>2, <2>4, SummedNear
  <2>7. QED
    BY <1>1, <2>5, <2>6
<1>5. QED
  BY <1>3, <1>4

(* The exponent that SumIsNear() sees its numbers from.                    *)
LEMMA LowIs ==
  ASSUME NEW S \in SUBSET Nat, S # {}
  PROVE  Min(S) \in S /\ Min(S) \in Nat /\ \A k \in S : Min(S) <= k
<1>1. PICK k \in S : \A l \in S : k <= l
  BY LeastNatural
<1>2. S \in SUBSET Int
  OBVIOUS
<1>3. Min(S) = k
  BY <1>1, <1>2, LeastIs
<1>4. QED
  BY <1>1, <1>3

(* Sums miss by no more than half a unit and two parts of 2^GUARD of one.  *)
LEMMA SumNear ==
  ASSUME NEW x \in Floats, NEW y \in Floats
  PROVE  SumIsNear(x, y, Addsf3(x, y))
<1>1. PICK z : z = Addsf3(x, y)
  OBVIOUS
<1> DEFINE S == {v.exp : v \in {x, y, z} \ {Zero}}
           lo == Min(S)
<1>2. CASE x = Zero /\ y = Zero
  <2>1. z = Zero
    BY <1>1, <1>2 DEF Addsf3
  <2>2. QED
    BY <1>1, <1>2, <2>1 DEF SumIsNear
<1>3. CASE ~(x = Zero /\ y = Zero)
  <2> SUFFICES Near(z, lo, Units(x, lo) + Units(y, lo), 1, 2)
    BY <1>1, <1>3, Zenon DEF SumIsNear
  <2>1. CASE x = Zero \/ y = Zero
    <3>1. PICK v \in Digits : z = v /\ ((x = Zero /\ y = v) \/ (y = Zero /\ x = v))
      <4>1. CASE x = Zero
        <5>1. y \in Digits /\ z = y
          BY <1>1, <1>3, <4>1, FloatsAre DEF Addsf3
        <5>2. QED
          BY <4>1, <5>1
      <4>2. CASE x # Zero
        <5>1. y = Zero /\ x \in Digits
          BY <2>1, <4>2, FloatsAre
        <5>2. z = x
          BY <1>1, <4>2, <5>1 DEF Addsf3
        <5>3. QED
          BY <5>1, <5>2
      <4>3. QED
        BY <4>1, <4>2
    <3>2. v # Zero /\ v.exp \in Nat /\ v \in Floats
      BY DigitsAre, FloatsAre
    <3>3. {x, y, z} \ {Zero} = {v}
      BY <3>1, <3>2
    <3>4. S = {v.exp}
      BY <3>3
    <3>5. lo = v.exp
      <4>1. S \in SUBSET Nat /\ S # {}
        BY <3>2, <3>4
      <4>2. Min(S) \in S
        BY <4>1, LowIs
      <4>3. QED
        BY <3>4, <4>2
    <3>6. PICK l \in Nat : l = lo /\ l = v.exp
      BY <3>2, <3>5
    <3>7. Near(v, l, Units(v, l), 1, 2)
      BY <3>2, <3>6, SelfNear
    <3>8. Units(Zero, l) = 0 /\ Units(v, l) \in Int
      <4>1. l <= v.exp
        BY <3>6
      <4>2. Units(v, l) \in Int
        BY <4>1, UnitsAre
      <4>3. Units(Zero, l) = 0
        BY DEF Units
      <4>4. QED
        BY <4>2, <4>3
    <3>9. Units(x, l) + Units(y, l) = Units(v, l)
      BY <3>1, <3>8
    <3>10. QED
      BY <3>1, <3>6, <3>7, <3>9
  <2>2. CASE x # Zero /\ y # Zero
    <3>1. x \in Digits /\ y \in Digits /\ x.exp \in Nat /\ y.exp \in Nat
      BY <2>2, DigitsAre, FloatsAre
    <3>2. ASSUME NEW v \in Digits, NEW w \in Digits, w.exp <= v.exp, (x = v /\ y = w) \/ (x = w /\ y = v)
          PROVE  Near(z, lo, Units(x, lo) + Units(y, lo), 1, 2)
      <4>1. PICK d \in Nat : d = v.exp - w.exp /\ NearFrom(z, w.exp, FloatValue(v) * Two[d] + FloatValue(w))
        BY <1>1, <3>2, OrderedSum
      <4>2. S \in SUBSET Nat
        BY <3>1, <4>1 DEF NearFrom
      <4>3. w.exp \in S /\ (z # Zero => z.exp \in S)
        BY <2>2, <3>2
      <4>4. lo \in Nat /\ lo <= w.exp /\ (z # Zero => lo <= z.exp)
        BY <4>2, <4>3, LowIs
      <4>5. PICK l \in Nat : l = lo
        BY <4>4
      <4>6. Near(z, l, (FloatValue(v) * Two[d] + FloatValue(w)) * Two[w.exp - l], 1, 2)
        BY <4>1, <4>4, <4>5 DEF NearFrom
      <4>7. PICK i \in Nat, j \in Nat : i = v.exp /\ j = w.exp /\ i = j + d /\ l <= j /\ l <= i
        <5>1. v.exp \in Nat /\ w.exp \in Nat
          BY DigitsAre
        <5>2. PICK i \in Nat, j \in Nat : i = v.exp /\ j = w.exp
          BY <5>1
        <5>3. j <= i /\ d = i - j /\ l <= j
          BY <3>2, <4>1, <4>4, <4>5, <5>2
        <5>4. i = j + d /\ l <= i
          BY <5>3
        <5>5. QED
          BY <5>2, <5>3, <5>4
      <4>8. PICK a \in Int, b \in Int, D \in Nat, A \in Nat :
              /\ a = FloatValue(v) /\ b = FloatValue(w) /\ D = Two[d] /\ A = Two[w.exp - l] /\ D * A = Two[v.exp - l]
        <5>1. FloatValue(v) \in Int /\ FloatValue(w) \in Int
          BY FloatValueIs
        <5>2. w.exp - l \in Nat /\ v.exp - l = d + (w.exp - l)
          BY <4>7
        <5>3. Two[d + (w.exp - l)] = Two[d] * Two[w.exp - l] /\ Two[d] \in Nat /\ Two[w.exp - l] \in Nat
          BY <5>2, TwoSum, TwoNext
        <5>4. QED
          BY <5>1, <5>2, <5>3
      <4>9. Units(v, l) = a * (D * A) /\ Units(w, l) = b * A
        BY <4>7, <4>8, UnitsAre
      <4>10. a * (D * A) + b * A = (a * D + b) * A /\ b * A + a * (D * A) = (a * D + b) * A
        OBVIOUS
      <4>11. Units(x, l) + Units(y, l) = (FloatValue(v) * Two[d] + FloatValue(w)) * Two[w.exp - l]
        BY <3>2, <4>8, <4>9, <4>10
      <4>12. QED
        BY <4>5, <4>6, <4>11
    <3>3. CASE y.exp <= x.exp
      BY <3>1, <3>2, <3>3
    <3>4. CASE ~(y.exp <= x.exp)
      BY <3>1, <3>2, <3>4
    <3>5. QED
      BY <3>3, <3>4
  <2>3. QED
    BY <2>1, <2>2
<1>4. QED
  BY <1>2, <1>3

(* __subsf3() adds the negated number.                                     *)
LEMMA SubtractIs ==
  ASSUME NEW x \in Floats, NEW y \in Floats
  PROVE  Negsf2(y) \in Floats /\ Subsf3(x, y) = Addsf3(x, Negsf2(y))
<1>1. CASE y = Zero
  BY <1>1 DEF Negsf2, Subsf3, Addsf3
<1>2. CASE y \in Digits
  <2>1. Negsf2(y) = [neg |-> ~y.neg, exp |-> y.exp, man |-> y.man]
    BY <1>2, DigitsAre DEF Negsf2, Digits
  <2>2. Negsf2(y) \in Digits
    BY <1>2, <2>1 DEF Digits
  <2>3. y # Zero /\ Negsf2(y) # Zero
    BY <1>2, <2>2, DigitsAre
  <2>4. CASE x = Zero
    <3>1. PICK n : n = Negsf2(y)
      OBVIOUS
    <3>2. Subsf3(x, y) = n
      BY <2>3, <2>4, <3>1 DEF Subsf3
    <3>3. Addsf3(x, n) = n
      BY <2>3, <2>4, <3>1 DEF Addsf3
    <3>4. QED
      BY <2>2, <3>1, <3>2, <3>3, FloatsAre
  <2>5. CASE x # Zero
    <3>1. PICK a : a = Addsf3(x, Negsf2(y))
      OBVIOUS
    <3>2. Subsf3(x, y) = a
      BY <2>3, <2>5, <3>1 DEF Subsf3
    <3>3. QED
      BY <2>2, <3>1, <3>2, FloatsAre
  <2>6. QED
    BY <2>2, <2>4, <2>5, FloatsAre
<1>3. QED
  BY <1>1, <1>2, FloatsAre

OperandsOK(o) ==
  \/ o.type = "floats" /\ o.x \in Floats /\ o.y \in Floats
  \/ o.type = "word" /\ o.i \in FloatWords

LEMMA OperandsClose == OperandsOK(operands) => FloatsAreClose
<1> SUFFICES ASSUME OperandsOK(operands) PROVE FloatsAreClose
  OBVIOUS
<1>1. CASE operands.type = "floats" /\ operands.x \in Floats /\ operands.y \in Floats
  <2>1. PICK x \in Floats, y \in Floats : x = operands.x /\ y = operands.y
    BY <1>1
  <2>2. SumIsNear(x, y, Addsf3(x, y))
    BY SumNear
  <2>3. SumIsNear(x, Negsf2(y), Subsf3(x, y))
    <3>1. Negsf2(y) \in Floats /\ Subsf3(x, y) = Addsf3(x, Negsf2(y))
      BY SubtractIs
    <3>2. SumIsNear(x, Negsf2(y), Addsf3(x, Negsf2(y)))
      BY <3>1, SumNear
    <3>3. QED
      BY <3>1, <3>2, Zenon
  <2>4. ProductIsNear(x, y, Mulsf3(x, y))
    BY ProductNear
  <2>5. y # Zero => QuotientIsNear(x, y, Divsf3(x, y))
    BY QuotientNear, FloatsAre
  <2>6. OrderIsExact(x, y)
    BY OrderExact
  <2>7. x # Zero => Fixsfsi(x) = CutOff(x)
    BY FixIs, FloatsAre
  <2>8. operands.type = "floats" /\ operands.type # "word"
    BY <1>1
  <2>9. QED
    BY <2>1, <2>2, <2>3, <2>4, <2>5, <2>6, <2>7, <2>8 DEF FloatsAreClose
<1>2. CASE operands.type = "word" /\ operands.i \in FloatWords
  <2>1. PICK i \in FloatWords : i = operands.i
    BY <1>2
  <2>2. CutOff(Floatsisf(i)) = WithSign(i < 0, (SizeOf(i) \div Two[Lowest(SizeOf(i))]) * Two[Lowest(SizeOf(i))])
    BY WordIs
  <2>3. PICK low : low = Lowest(SizeOf(i))
    OBVIOUS
  <2>4. low = Max({0} \cup {k - PLACES : k \in {n \in PLACES..WORD : Two[n] <= SizeOf(i)}})
    BY <2>3, Zenon DEF Lowest
  <2>5. CutOff(Floatsisf(i)) = WithSign(i < 0, (SizeOf(i) \div Two[low]) * Two[low])
    BY <2>2, <2>3, Zenon
  <2>6. operands.type = "word" /\ operands.type # "floats"
    BY <1>2
  <2>7. QED
    BY <2>1, <2>4, <2>5, <2>6 DEF FloatsAreClose
<1>3. QED
  BY <1>1, <1>2 DEF OperandsOK

(* Whatever it is called with, the library's floating point is as close    *)
(* to the numbers it stands for as FloatsAreClose says.                    *)
THEOREM FloatsStayClose == FloatSpec => []FloatsAreClose
<1>1. FloatInit => OperandsOK(operands)
  <2>1. Zero \in Floats
    BY FloatsAre
  <2>2. QED
    BY <2>1 DEF FloatInit, NoOperands, OperandsOK
<1>2. OperandsOK(operands) /\ [FloatNext]_operands => OperandsOK(operands)'
  <2> SUFFICES ASSUME OperandsOK(operands), [FloatNext]_operands PROVE OperandsOK(operands')
    BY Zenon DEF OperandsOK
  <2>1. CASE FloatCall
    BY <2>1 DEF FloatCall, OperandsOK
  <2>2. CASE operands' = NoOperands
    <3>1. Zero \in Floats
      BY FloatsAre
    <3>2. QED
      BY <2>2, <3>1 DEF NoOperands, OperandsOK
  <2>3. CASE operands' = operands
    BY <2>3
  <2>4. QED
    BY <2>1, <2>2, <2>3 DEF FloatNext
<1>3. QED
  BY <1>1, <1>2, OperandsClose, PTL DEF FloatSpec
=============================================================================
