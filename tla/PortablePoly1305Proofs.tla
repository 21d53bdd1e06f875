----------------------- MODULE PortablePoly1305Proofs -----------------------
(***************************************************************************)
(* The portable Poly1305, for limbs of any width that leaves the code the  *)
(* 6 spare bits it has, and for messages of any length: the bounds of its  *)
(* words, what a turn of the loop and finish do to the number the limbs    *)
(* stand for, and that the whole is Poly1305.                              *)
(***************************************************************************)
EXTENDS PortablePoly1305, TLAPS

Square == Radix * Radix

\* What TypeOK says of h, and of r.
LimbsOK(x) ==
  /\ x \in [Limb -> Nat]
  /\ \A i \in Limb \ {1} : x[i] < Radix
  /\ x[1] < Radix + 63

MultiplierOK == r \in [Limb -> 0 .. Radix - 1] /\ r[4] < Radix \div 4

HalfOK(x) == x \in [Limb -> 0 .. Radix - 1] /\ x[4] < Radix \div 4

LEMMA RadixFacts ==
  /\ Radix \in Nat /\ Radix >= 64
  /\ Radix \div 4 \in Nat /\ 4 * (Radix \div 4) <= Radix
  /\ Square \in Nat /\ Square >= 64 * Radix
<1>1. Radix \in Nat /\ Radix >= 64 /\ Radix \div 4 \in Nat /\ 4 * (Radix \div 4) <= Radix
  BY RadixAssumption
<1>2. ASSUME NEW x \in Nat, NEW y \in Nat, y >= 64 PROVE x * y \in Nat /\ x * y >= 64 * x
  <2>1. x * 64 <= x * y
    BY <1>2
  <2>2. x * y \in Int
    OBVIOUS
  <2> QED
    BY <2>1, <2>2
<1> QED
  BY <1>1, <1>2 DEF Square

-----------------------------------------------------------------------------
(***************************************************************************)
(* Words and limbs.                                                        *)
(***************************************************************************)

LEMMA Fits ==
  ASSUME NEW x \in Nat, NEW w \in Nat, x < w
  PROVE  Fit(x, w) = x
<1>1. x % w = x
  OBVIOUS
<1> QED
  BY <1>1 DEF Fit

LEMMA FitUnbounded == ASSUME NEW x PROVE Fit(x, 0) = x
  BY DEF Fit

LEMMA Division ==
  ASSUME NEW d \in Nat, d > 0, NEW x \in Nat
  PROVE  x % d \in 0 .. d - 1 /\ x \div d \in Nat /\ x = d * (x \div d) + (x % d)
<1>1. x % d \in 0 .. d - 1 /\ x \div d \in Int /\ x = d * (x \div d) + (x % d)
  BY Z3
<1>2. ASSUME NEW q \in Int, q < 0, NEW l \in 0 .. d - 1, x = d * q + l PROVE FALSE
  <2>1. d * q <= d * (-1)
    BY <1>2, Z3
  <2> QED
    BY <2>1, <1>2
<1>3. ~(x \div d < 0)
  BY <1>1, <1>2
<1> QED
  BY <1>1, <1>3

LEMMA Digits ==
  ASSUME NEW x \in Nat
  PROVE  /\ Low(x) \in 0 .. Radix - 1
         /\ Carry(x) \in Nat
         /\ x = Radix * Carry(x) + Low(x)
<1>1. Radix \in Nat /\ Radix > 0
  BY RadixFacts
<1> QED
  BY <1>1, Division, Zenon DEF Low, Carry

\* A carry out of less than k + 1 limbs.
LEMMA CarryBelow ==
  ASSUME NEW x \in Nat, NEW k \in Nat, x < (k + 1) * Radix
  PROVE  Carry(x) <= k
<1>1. ASSUME NEW d \in Nat, NEW q \in Nat, NEW l \in Nat, d * q + l < (k + 1) * d
      PROVE  q <= k
  <2>1. CASE q >= k + 1
    <3>1. d * q >= d * (k + 1)
      BY <2>1, Z3
    <3> QED
      BY <3>1, <1>1
  <2> QED
    BY <2>1
<1>2. Radix * Carry(x) + Low(x) < (k + 1) * Radix /\ Low(x) \in Nat /\ Carry(x) \in Nat
  BY Digits
<1> QED
  BY <1>1, <1>2, RadixFacts, Zenon

\* A carry out of a column.
LEMMA CarryOfColumn ==
  ASSUME NEW x \in Nat, NEW k \in Nat, x <= k * Square
  PROVE  Carry(x) <= k * Radix
<1>1. k * Square = (k * Radix) * Radix /\ k * Radix \in Nat
  BY RadixFacts DEF Square
<1>2. x < (k * Radix + 1) * Radix
  BY <1>1, RadixFacts
<1> QED
  BY <1>1, <1>2, CarryBelow

LEMMA ProductBound ==
  ASSUME NEW a \in Nat, NEW f \in Nat, NEW j \in Nat, NEW k \in Nat,
         a <= j * Radix, f <= k * Radix
  PROVE  a * f \in Nat /\ a * f <= (j * k) * Square
<1>1. ASSUME NEW x \in Nat, NEW y \in Nat, a <= x, f <= y
      PROVE  a * f \in Nat /\ a * f <= x * y
  <2>1. a * f <= x * f
    BY <1>1
  <2>2. x * f <= x * y
    BY <1>1
  <2> QED
    BY <2>1, <2>2
<1>2. j * Radix \in Nat /\ k * Radix \in Nat
  BY RadixFacts
<1>3. (j * Radix) * (k * Radix) = (j * k) * Square
  BY RadixFacts DEF Square
<1> QED
  BY <1>1, <1>2, <1>3

LEMMA LimbsAt ==
  ASSUME NEW a, NEW b, NEW c, NEW d, NEW e
  PROVE  LET x == Limbs(a, b, c, d, e)
         IN x[0] = a /\ x[1] = b /\ x[2] = c /\ x[3] = d /\ x[4] = e
  BY DEF Limbs, Limb

LEMMA LimbsType ==
  ASSUME NEW S, NEW a \in S, NEW b \in S, NEW c \in S, NEW d \in S, NEW e \in S
  PROVE  Limbs(a, b, c, d, e) \in [Limb -> S]
  BY DEF Limbs, Limb

-----------------------------------------------------------------------------
(***************************************************************************)
(* One block.                                                              *)
(***************************************************************************)

\* The factors of a column: the top limb of r has two bits less.
SumOK(a) ==
  /\ a \in [Limb -> Nat]
  /\ \A i \in Limb \ {1} : a[i] <= 2 * Radix
  /\ a[1] <= 3 * Radix

LEMMA SumBounds ==
  ASSUME NEW x, LimbsOK(x), NEW m, HalfOK(m), NEW b \in {WholeBit, NoBit}
  PROVE  /\ SumOK(Sum(Unbounded, x, m, b))
         /\ Sum(Machine, x, m, b) = Sum(Unbounded, x, m, b)
<1> DEFINE t(i) == x[i] + m[i] + (IF i = 4 THEN b ELSE 0)
<1>1. b \in Nat /\ 4 * b <= Radix
  BY RadixFacts DEF WholeBit, NoBit
<1>2. ASSUME NEW i \in Limb
      PROVE  t(i) \in Nat /\ (i # 1 => t(i) <= 2 * Radix) /\ (i = 1 => t(i) <= 3 * Radix)
  BY <1>1, RadixFacts DEF LimbsOK, HalfOK, Limb
<1>3. ASSUME NEW i \in Limb
      PROVE  t(i) < 64 * Radix
  BY <1>2, RadixFacts
<1> HIDE DEF t
<1>4. ASSUME NEW i \in Limb
      PROVE  Fit(t(i), Machine.u32) = t(i) /\ Fit(t(i), Unbounded.u32) = t(i)
  BY <1>2, <1>3, Fits, FitUnbounded, RadixFacts DEF Machine, Unbounded
<1>5. Sum(Unbounded, x, m, b) = [i \in Limb |-> t(i)]
  BY <1>4 DEF Sum, t
<1>6. Sum(Machine, x, m, b) = [i \in Limb |-> t(i)]
  BY <1>4 DEF Sum, t
<1>7. SumOK([i \in Limb |-> t(i)])
  BY <1>2 DEF SumOK, Limb
<1> QED
  BY <1>5, <1>6, <1>7

LEMMA Terms ==
  ASSUME NEW a, SumOK(a), MultiplierOK
  PROVE  /\ \A j, k \in Limb : /\ a[j] * r[k] \in Nat /\ a[j] * (5 * r[k]) \in Nat
                               /\ j # 1 => a[j] * r[k] <= 2 * Square
                               /\ j # 1 => a[j] * (5 * r[k]) <= 10 * Square
                               /\ j = 1 => a[j] * r[k] <= 3 * Square
         /\ 4 * (a[0] * r[4]) <= 2 * Square
         /\ 4 * (a[1] * (5 * r[4])) <= 15 * Square
         /\ \A j \in 2 .. 4 : 4 * (a[j] * (5 * r[4])) <= 10 * Square
<1>1. ASSUME NEW k \in Limb
      PROVE  r[k] \in Nat /\ r[k] <= 1 * Radix /\ 5 * r[k] \in Nat /\ 5 * r[k] <= 5 * Radix
  BY RadixFacts DEF MultiplierOK
<1>2. ASSUME NEW j \in Limb
      PROVE  a[j] \in Nat /\ (j # 1 => a[j] <= 2 * Radix) /\ (j = 1 => a[j] <= 3 * Radix)
  BY DEF SumOK
<1>3. ASSUME NEW j \in Limb, NEW k \in Limb
      PROVE  /\ a[j] * r[k] \in Nat /\ a[j] * (5 * r[k]) \in Nat
             /\ j # 1 => a[j] * r[k] <= 2 * Square
             /\ j # 1 => a[j] * (5 * r[k]) <= 10 * Square
             /\ j = 1 => a[j] * r[k] <= 3 * Square
  <2>1. a[j] * r[k] \in Nat /\ a[j] * (5 * r[k]) \in Nat
    BY <1>1, <1>2
  <2>2. CASE j # 1
    <3>1. a[j] * r[k] <= (2 * 1) * Square
      BY <1>1, <1>2, <2>2, ProductBound
    <3>2. a[j] * (5 * r[k]) <= (2 * 5) * Square
      <4>1. \A f \in Nat : f <= 5 * Radix => a[j] * f <= (2 * 5) * Square
        BY <1>2, <2>2, ProductBound
      <4> QED
        BY <4>1, <1>1
    <3> QED
      BY <2>1, <2>2, <3>1, <3>2
  <2>3. CASE j = 1
    <3>1. a[j] * r[k] <= (3 * 1) * Square
      BY <1>1, <1>2, <2>3, ProductBound
    <3> QED
      BY <2>1, <2>3, <3>1
  <2> QED
    BY <2>2, <2>3
<1>4. ASSUME NEW j \in Limb
      PROVE  /\ j # 1 => 4 * (a[j] * r[4]) <= 2 * Square
             /\ j # 1 => 4 * (a[j] * (5 * r[4])) <= 10 * Square
             /\ j = 1 => 4 * (a[j] * (5 * r[4])) <= 15 * Square
  <2>1. r[4] \in Nat /\ 4 * r[4] \in Nat /\ 4 * r[4] <= 1 * Radix /\ 20 * r[4] \in Nat /\ 20 * r[4] <= 5 * Radix
    BY RadixFacts DEF MultiplierOK, Limb
  <2>2. 4 * (a[j] * r[4]) = a[j] * (4 * r[4]) /\ 4 * (a[j] * (5 * r[4])) = a[j] * (20 * r[4])
    BY <2>1, <1>2
  <2>3. CASE j # 1
    <3>1. \A k, f \in Nat : f <= k * Radix => a[j] * f <= (2 * k) * Square
      BY <1>2, <2>3, ProductBound
    <3>2. a[j] * (4 * r[4]) <= (2 * 1) * Square /\ a[j] * (20 * r[4]) <= (2 * 5) * Square
      BY <2>1, <3>1
    <3> QED
      BY <2>2, <2>3, <3>2
  <2>4. CASE j = 1
    <3>1. \A k, f \in Nat : f <= k * Radix => a[j] * f <= (3 * k) * Square
      BY <1>2, <2>4, ProductBound
    <3>2. a[j] * (20 * r[4]) <= (3 * 5) * Square
      BY <2>1, <3>1
    <3> QED
      BY <2>2, <2>4, <3>2
  <2> QED
    BY <2>3, <2>4
<1>5. 4 * (a[0] * r[4]) <= 2 * Square /\ 4 * (a[1] * (5 * r[4])) <= 15 * Square
  BY <1>4 DEF Limb
<1>6. \A j \in 2 .. 4 : 4 * (a[j] * (5 * r[4])) <= 10 * Square
  BY <1>4 DEF Limb
<1> QED
  BY <1>3, <1>5, <1>6

\* The exact columns.
Exact(a, i) == Column(Unbounded, a, i)

LEMMA ColumnBounds ==
  ASSUME NEW a, SumOK(a), MultiplierOK
  PROVE  /\ Exact(a, 0) \in Nat /\ Exact(a, 0) <= 36 * Square
         /\ Exact(a, 1) \in Nat /\ Exact(a, 1) <= 28 * Square
         /\ Exact(a, 2) \in Nat /\ Exact(a, 2) <= 20 * Square
         /\ Exact(a, 3) \in Nat /\ Exact(a, 3) <= 12 * Square
         /\ Exact(a, 4) \in Nat /\ Exact(a, 4) <= 10 * Square
<1> DEFINE p(j, k) == a[j] * r[k]
           q(j, k) == a[j] * (5 * r[k])
<1>1. /\ Exact(a, 0) = p(0, 0) + q(1, 4) + q(2, 3) + q(3, 2) + q(4, 1)
      /\ Exact(a, 1) = p(0, 1) + p(1, 0) + q(2, 4) + q(3, 3) + q(4, 2)
      /\ Exact(a, 2) = p(0, 2) + p(1, 1) + p(2, 0) + q(3, 4) + q(4, 3)
      /\ Exact(a, 3) = p(0, 3) + p(1, 2) + p(2, 1) + p(3, 0) + q(4, 4)
      /\ Exact(a, 4) = p(0, 4) + p(1, 3) + p(2, 2) + p(3, 1) + p(4, 0)
  BY FitUnbounded DEF Exact, Column, Factor, Unbounded
<1>2. /\ \A j, k \in Limb : /\ p(j, k) \in Nat /\ q(j, k) \in Nat
                            /\ j # 1 => p(j, k) <= 2 * Square
                            /\ j # 1 => q(j, k) <= 10 * Square
                            /\ j = 1 => p(j, k) <= 3 * Square
      /\ 4 * p(0, 4) <= 2 * Square /\ 4 * q(1, 4) <= 15 * Square
      /\ \A j \in 2 .. 4 : 4 * q(j, 4) <= 10 * Square
  BY Terms
<1> HIDE DEF p, q
<1>3. Exact(a, 0) \in Nat /\ Exact(a, 0) <= 36 * Square
  BY <1>1, <1>2, RadixFacts DEF Limb
<1>4. Exact(a, 1) \in Nat /\ Exact(a, 1) <= 28 * Square
  BY <1>1, <1>2, RadixFacts DEF Limb
<1>5. Exact(a, 2) \in Nat /\ Exact(a, 2) <= 20 * Square
  BY <1>1, <1>2, RadixFacts DEF Limb
<1>6. Exact(a, 3) \in Nat /\ Exact(a, 3) <= 12 * Square
  BY <1>1, <1>2, RadixFacts DEF Limb
<1>7. Exact(a, 4) \in Nat /\ Exact(a, 4) <= 10 * Square
  BY <1>1, <1>2, RadixFacts DEF Limb
<1> QED
  BY <1>3, <1>4, <1>5, <1>6, <1>7

LEMMA MachineWords ==
  /\ Machine.u32 = 64 * Radix /\ Machine.u64 = 4096 * Square
  /\ Unbounded.u32 = 0 /\ Unbounded.u64 = 0
  /\ Machine.u32 \in Nat /\ Machine.u64 \in Nat
<1>1. 4096 * Radix * Radix = 4096 * Square
  BY RadixFacts DEF Square
<1> QED
  BY <1>1, RadixFacts DEF Machine, Unbounded

LEMMA MachineColumns ==
  ASSUME NEW a, SumOK(a), MultiplierOK, NEW i \in Limb
  PROVE  Column(Machine, a, i) = Exact(a, i)
<1>1. Exact(a, i) \in Nat /\ Exact(a, i) < Machine.u64
  BY ColumnBounds, MachineWords, RadixFacts DEF Limb
<1>2. Column(Machine, a, i) = Fit(Exact(a, i), Machine.u64)
  BY FitUnbounded, MachineWords DEF Column, Exact
<1> QED
  BY <1>1, <1>2, Fits, MachineWords

\* A carry from the column below costs a column at most one square more.
LEMMA NextColumn ==
  ASSUME NEW d \in Nat, NEW below \in Nat, NEW n \in 0 .. 36, d <= n * Square,
         below <= 36 * Square, NEW W \in {Machine, Unbounded}
  PROVE  /\ Fit(d + Fit(Carry(below), W.u32), W.u64) = d + Carry(below)
         /\ d + Carry(below) \in Nat
         /\ d + Carry(below) <= (n + 1) * Square
<1>1. Carry(below) \in Nat /\ Carry(below) <= 36 * Radix
  BY CarryOfColumn, Digits
<1>2. Carry(below) < 64 * Radix /\ Carry(below) <= Square
  BY <1>1, RadixFacts
<1>3. Fit(Carry(below), W.u32) = Carry(below)
  BY <1>1, <1>2, Fits, FitUnbounded, MachineWords
<1>4. d + Carry(below) \in Nat /\ d + Carry(below) <= n * Square + Square
  BY <1>1, <1>2, RadixFacts
<1>5. n * Square + Square = (n + 1) * Square /\ n * Square <= 36 * Square
  <2>1. ASSUME NEW x \in Nat, NEW y \in 0 .. 36 PROVE y * x + x = (y + 1) * x /\ y * x <= 36 * x
    BY Z3
  <2> QED
    BY <2>1, RadixFacts
<1>6. d + Carry(below) < 4096 * Square
  BY <1>4, <1>5, RadixFacts
<1>7. Fit(d + Carry(below), W.u64) = d + Carry(below)
  BY <1>4, <1>6, Fits, FitUnbounded, MachineWords
<1> QED
  BY <1>3, <1>4, <1>5, <1>7

\* The columns that leave the carries.
CarriedOK(d) ==
  /\ d \in [Limb -> Nat]
  /\ \A i \in Limb : d[i] <= 36 * Square
  /\ d[4] <= 11 * Square

LEMMA CarriedBounds ==
  ASSUME NEW a, SumOK(a), MultiplierOK
  PROVE  CarriedOK(Carried(Unbounded, a)) /\ Carried(Machine, a) = Carried(Unbounded, a)
<1> DEFINE d0 == Exact(a, 0)
           d1 == Exact(a, 1) + Carry(d0)
           d2 == Exact(a, 2) + Carry(d1)
           d3 == Exact(a, 3) + Carry(d2)
           d4 == Exact(a, 4) + Carry(d3)
           step(W, d, below) == Fit(d + Fit(Carry(below), W.u32), W.u64)
<1>1. d0 \in Nat /\ d0 <= 36 * Square
  BY ColumnBounds
<1>2. /\ d1 \in Nat /\ d1 <= (28 + 1) * Square
      /\ \A W \in {Machine, Unbounded} : step(W, Exact(a, 1), d0) = d1
  <2> HIDE DEF d0
  <2> QED
    BY <1>1, ColumnBounds, NextColumn
<1>3. /\ d2 \in Nat /\ d2 <= (20 + 1) * Square
      /\ \A W \in {Machine, Unbounded} : step(W, Exact(a, 2), d1) = d2
  <2> HIDE DEF d1
  <2>1. d1 <= 36 * Square
    BY <1>2, RadixFacts
  <2> QED
    BY <1>2, <2>1, ColumnBounds, NextColumn
<1>4. /\ d3 \in Nat /\ d3 <= (12 + 1) * Square
      /\ \A W \in {Machine, Unbounded} : step(W, Exact(a, 3), d2) = d3
  <2> HIDE DEF d2
  <2>1. d2 <= 36 * Square
    BY <1>3, RadixFacts
  <2> QED
    BY <1>3, <2>1, ColumnBounds, NextColumn
<1>5. /\ d4 \in Nat /\ d4 <= (10 + 1) * Square
      /\ \A W \in {Machine, Unbounded} : step(W, Exact(a, 4), d3) = d4
  <2> HIDE DEF d3
  <2>1. d3 <= 36 * Square
    BY <1>4, RadixFacts
  <2> QED
    BY <1>4, <2>1, ColumnBounds, NextColumn
<1>6. ASSUME NEW W \in {Machine, Unbounded}
      PROVE  Carried(W, a) = Limbs(d0, d1, d2, d3, d4)
  <2>1. \A i \in Limb : Column(W, a, i) = Exact(a, i)
    BY MachineColumns DEF Exact
  <2>2. /\ Column(W, a, 0) = Exact(a, 0) /\ Column(W, a, 1) = Exact(a, 1)
        /\ Column(W, a, 2) = Exact(a, 2) /\ Column(W, a, 3) = Exact(a, 3)
        /\ Column(W, a, 4) = Exact(a, 4)
    BY <2>1 DEF Limb
  <2>3. /\ step(W, Column(W, a, 1), Column(W, a, 0)) = d1
        /\ step(W, Column(W, a, 2), d1) = d2
        /\ step(W, Column(W, a, 3), d2) = d3
        /\ step(W, Column(W, a, 4), d3) = d4
    <3> HIDE DEF step, d1, d2, d3, d4
    <3> QED
      BY <1>2, <1>3, <1>4, <1>5, <2>2
  <2> HIDE DEF d1, d2, d3, d4
  <2> QED
    BY <2>2, <2>3, Zenon DEF Carried
<1> HIDE DEF d0, d1, d2, d3, d4
<1>7. Limbs(d0, d1, d2, d3, d4) \in [Limb -> Nat]
  BY <1>1, <1>2, <1>3, <1>4, <1>5, LimbsType
<1>8. CarriedOK(Limbs(d0, d1, d2, d3, d4))
  BY <1>1, <1>2, <1>3, <1>4, <1>5, <1>7, LimbsAt, RadixFacts DEF CarriedOK, Limb
<1> QED
  BY <1>6, <1>8

\* The carry out of limb 4, five times, on limb 0.
LEMMA FoldBounds ==
  ASSUME NEW d, CarriedOK(d), NEW W \in {Machine, Unbounded}
  PROVE  /\ Folded(W, d) = Low(d[0]) + 5 * Carry(d[4])
         /\ Folded(W, d) \in Nat /\ Folded(W, d) < 56 * Radix
<1>1. /\ Low(d[0]) \in 0 .. Radix - 1
      /\ Carry(d[4]) \in Nat /\ Carry(d[4]) <= 11 * Radix
  BY Digits, CarryOfColumn DEF CarriedOK, Limb
<1>2. /\ Carry(d[4]) < 64 * Radix /\ 5 * Carry(d[4]) \in Nat /\ 5 * Carry(d[4]) < 64 * Radix
      /\ Low(d[0]) + 5 * Carry(d[4]) \in Nat /\ Low(d[0]) + 5 * Carry(d[4]) < 56 * Radix
      /\ Low(d[0]) + 5 * Carry(d[4]) < 64 * Radix
  BY <1>1, RadixFacts
<1>3. Fit(Carry(d[4]), W.u32) = Carry(d[4])
  BY <1>1, <1>2, Fits, FitUnbounded, MachineWords
<1>4. Fit(5 * Carry(d[4]), W.u32) = 5 * Carry(d[4])
  BY <1>2, Fits, FitUnbounded, MachineWords
<1>5. Fit(Low(d[0]) + 5 * Carry(d[4]), W.u32) = Low(d[0]) + 5 * Carry(d[4])
  BY <1>2, Fits, FitUnbounded, MachineWords
<1> QED
  BY <1>2, <1>3, <1>4, <1>5 DEF Folded

LEMMA KeptBounds ==
  ASSUME NEW d, CarriedOK(d)
  PROVE  LimbsOK(Kept(Unbounded, d)) /\ Kept(Machine, d) = Kept(Unbounded, d)
<1> DEFINE f == Low(d[0]) + 5 * Carry(d[4])
           k1 == Low(d[1]) + Carry(f)
<1>1. f \in Nat /\ f < (55 + 1) * Radix
  BY FoldBounds DEF CarriedOK
<1>2. Carry(f) \in Nat /\ Carry(f) <= 55 /\ Low(f) \in 0 .. Radix - 1
  <2> HIDE DEF f
  <2> QED
    BY <1>1, CarryBelow, Digits
<1>3. \A i \in Limb : Low(d[i]) \in 0 .. Radix - 1
  BY Digits DEF CarriedOK
<1>4. k1 \in Nat /\ k1 < Radix + 63 /\ k1 < 64 * Radix
  BY <1>2, <1>3, RadixFacts DEF Limb
<1>5. ASSUME NEW W \in {Machine, Unbounded}
      PROVE  Kept(W, d) = Limbs(Low(f), k1, Low(d[2]), Low(d[3]), Low(d[4]))
  <2>1. Folded(W, d) = f
    BY FoldBounds
  <2>2. Fit(k1, W.u32) = k1
    BY <1>4, Fits, FitUnbounded, MachineWords
  <2> HIDE DEF f
  <2> QED
    BY <2>1, <2>2, Zenon DEF Kept
<1>6. LimbsOK(Limbs(Low(f), k1, Low(d[2]), Low(d[3]), Low(d[4])))
  <2> DEFINE k == Limbs(Low(f), k1, Low(d[2]), Low(d[3]), Low(d[4]))
  <2> HIDE DEF f, k1
  <2>1. /\ Low(f) \in Nat /\ Low(f) < Radix /\ k1 \in Nat /\ k1 < Radix + 63
        /\ Low(d[2]) \in Nat /\ Low(d[2]) < Radix /\ Low(d[3]) \in Nat /\ Low(d[3]) < Radix
        /\ Low(d[4]) \in Nat /\ Low(d[4]) < Radix
    BY <1>2, <1>3, <1>4, RadixFacts DEF Limb
  <2>2. k \in [Limb -> Nat]
    BY <2>1, LimbsType
  <2>3. k[0] = Low(f) /\ k[1] = k1 /\ k[2] = Low(d[2]) /\ k[3] = Low(d[3]) /\ k[4] = Low(d[4])
    BY LimbsAt
  <2> HIDE DEF k
  <2>4. LimbsOK(k)
    BY <2>1, <2>2, <2>3 DEF LimbsOK, Limb
  <2> QED
    BY <2>4 DEF k
<1> QED
  BY <1>5, <1>6

\* A turn of the loop of poly1305_blocks keeps the bounds of h.
LEMMA AbsorbedOK ==
  ASSUME NEW x, LimbsOK(x), MultiplierOK, NEW m, HalfOK(m), NEW b \in {WholeBit, NoBit}
  PROVE  LimbsOK(Absorbed(Machine, x, m, b))
BY SumBounds, CarriedBounds, KeptBounds DEF Absorbed

-----------------------------------------------------------------------------
(***************************************************************************)
(* The last carries.                                                       *)
(***************************************************************************)

\* A limb with a carry of 0 or 1 added: the carry goes on only from a full one.
LEMMA CarryIn ==
  ASSUME NEW y \in Nat, y < Radix, NEW c \in {0, 1}, NEW W \in {Machine, Unbounded}
  PROVE  /\ Fit(y + c, W.u32) = y + c
         /\ Carry(y + c) \in {0, 1}
         /\ Carry(y + c) = 1 => c = 1
<1>1. y + c \in Nat /\ y + c < 64 * Radix /\ y + c < (1 + 1) * Radix /\ (c = 0 => y + c < (0 + 1) * Radix)
  BY RadixFacts
<1>2. Fit(y + c, W.u32) = y + c
  BY <1>1, Fits, FitUnbounded, MachineWords
<1>3. Carry(y + c) \in Nat /\ Carry(y + c) <= 1 /\ (c = 0 => Carry(y + c) <= 0)
  BY <1>1, CarryBelow, Digits
<1> QED
  BY <1>2, <1>3

\* One pass is enough: a carry reaches limb 1 again only if limb 1 had carried
\* first, and then less than 63 was left in it.
LEMMA SettledBounds ==
  ASSUME NEW x, LimbsOK(x)
  PROVE  /\ Settled(Machine, x) \in [Limb -> 0 .. Radix - 1]
         /\ Settled(Machine, x) = Settled(Unbounded, x)
<1> DEFINE c1 == Carry(x[1])
           x2 == x[2] + c1
           x3 == x[3] + Carry(x2)
           x4 == x[4] + Carry(x3)
           x0 == x[0] + 5 * Carry(x4)
           k1 == Low(x[1]) + Carry(x0)
<1>1. /\ x[0] \in Nat /\ x[0] < Radix /\ x[1] \in Nat /\ x[1] < Radix + 63
      /\ x[2] \in Nat /\ x[2] < Radix /\ x[3] \in Nat /\ x[3] < Radix
      /\ x[4] \in Nat /\ x[4] < Radix
  BY DEF LimbsOK, Limb
<1>2. c1 \in {0, 1}
  <2>1. x[1] < (1 + 1) * Radix
    BY <1>1, RadixFacts
  <2>2. Carry(x[1]) <= 1
    BY <1>1, <2>1, CarryBelow
  <2>3. Carry(x[1]) \in Nat
    BY <1>1, Digits
  <2> QED
    BY <2>2, <2>3
<1>3. Carry(x2) \in {0, 1} /\ (Carry(x2) = 1 => c1 = 1) /\ x2 \in Nat
  <2> HIDE DEF c1
  <2> QED
    BY <1>1, <1>2, CarryIn
<1>4. Carry(x3) \in {0, 1} /\ (Carry(x3) = 1 => c1 = 1) /\ x3 \in Nat
  <2> HIDE DEF c1, x2
  <2> QED
    BY <1>1, <1>3, CarryIn
<1>5. Carry(x4) \in {0, 1} /\ (Carry(x4) = 1 => c1 = 1) /\ x4 \in Nat
  <2> HIDE DEF c1, x3
  <2> QED
    BY <1>1, <1>4, CarryIn
<1>6. x0 \in Nat /\ x0 < (1 + 1) * Radix /\ x0 < 64 * Radix /\ (c1 = 0 => x0 < (0 + 1) * Radix)
  <2> HIDE DEF c1, x4
  <2> QED
    BY <1>1, <1>2, <1>5, RadixFacts
<1>7. Carry(x0) \in {0, 1} /\ (c1 = 0 => Carry(x0) = 0)
  <2> HIDE DEF c1, x0
  <2>1. Carry(x0) <= 1 /\ (c1 = 0 => Carry(x0) <= 0)
    BY <1>6, CarryBelow
  <2>2. Carry(x0) \in Nat
    BY <1>6, Digits
  <2> QED
    BY <2>1, <2>2
<1>8. Low(x[1]) \in 0 .. Radix - 1 /\ (c1 = 1 => Low(x[1]) < 63)
  BY <1>1, Digits, RadixFacts
<1>9. k1 \in 0 .. Radix - 1
  <2> HIDE DEF c1, x0
  <2> QED
    BY <1>2, <1>7, <1>8, RadixFacts
<1>10. ASSUME NEW W \in {Machine, Unbounded}
       PROVE  Settled(W, x) = Limbs(Low(x0), k1, Low(x2), Low(x3), Low(x4))
  <2>1. Fit(x[2] + c1, W.u32) = x2
    <3> HIDE DEF c1
    <3> QED
      BY <1>1, <1>2, CarryIn
  <2>2. Fit(x[3] + Carry(x2), W.u32) = x3
    <3> HIDE DEF x2
    <3> QED
      BY <1>1, <1>3, CarryIn
  <2>3. Fit(x[4] + Carry(x3), W.u32) = x4
    <3> HIDE DEF x3
    <3> QED
      BY <1>1, <1>4, CarryIn
  <2>4. Fit(x0, W.u32) = x0
    BY <1>6, Fits, FitUnbounded, MachineWords
  <2>5. Fit(k1, W.u32) = k1
    <3>1. k1 \in Nat /\ k1 < 64 * Radix
      BY <1>9, RadixFacts
    <3> QED
      BY <3>1, Fits, FitUnbounded, MachineWords
  <2>6. c1 = Carry(x[1])
    OBVIOUS
  <2> HIDE DEF c1, k1
  <2>7. x0 = x[0] + 5 * Carry(x4) /\ k1 = Low(x[1]) + Carry(x0)
    BY DEF k1
  <2> HIDE DEF x2, x3, x4, x0
  <2> QED
    BY <2>1, <2>2, <2>3, <2>4, <2>5, <2>6, <2>7, Zenon DEF Settled
<1>11. Limbs(Low(x0), k1, Low(x2), Low(x3), Low(x4)) \in [Limb -> 0 .. Radix - 1]
  <2> HIDE DEF x0, x2, x3, x4, k1
  <2> QED
    BY <1>3, <1>4, <1>5, <1>6, <1>9, Digits, LimbsType
<1> QED
  BY <1>10, <1>11

LEMMA Negative ==
  ASSUME NEW w \in Nat, w > 0, NEW x \in Int, -w <= x, x < 0
  PROVE  x % w = x + w
<1>1. x % w \in 0 .. w - 1 /\ x \div w \in Int /\ x = w * (x \div w) + (x % w)
  BY Z3
<1>2. ASSUME NEW q \in Int, NEW l \in 0 .. w - 1, x = w * q + l
      PROVE  l = x + w
  <2>1. q >= 0 => w * q >= 0
    BY Z3
  <2>2. q <= -2 => w * q <= w * (-2)
    BY Z3
  <2>3. q = -1
    BY <1>2, <2>1, <2>2
  <2>4. w * q = -w
    BY <2>3
  <2> QED
    BY <1>2, <2>4
<1> QED
  BY <1>1, <1>2

\* The subtraction of 2^130 - 5: where the carries go, and what the sign tells.
LEMMA LessPrimeBounds ==
  ASSUME NEW y \in [Limb -> 0 .. Radix - 1]
  PROVE  LET g0 == y[0] + 5
             g1 == y[1] + Carry(g0)
             g2 == y[2] + Carry(g1)
             g3 == y[3] + Carry(g2)
             g4 == y[4] + Carry(g3)
         IN /\ g0 \in Nat /\ g1 \in Nat /\ g2 \in Nat /\ g3 \in Nat /\ g4 \in 0 .. Radix
            /\ g4 = Radix => /\ LessPrime(y) = Limbs(Low(g0), Low(g1), Low(g2), Low(g3), 0)
                             /\ Reduced(y) = LessPrime(y)
            /\ g4 < Radix => Reduced(y) = y
<1> DEFINE g0 == y[0] + 5
           g1 == y[1] + Carry(g0)
           g2 == y[2] + Carry(g1)
           g3 == y[3] + Carry(g2)
           g4 == y[4] + Carry(g3)
<1>1. \A i \in Limb : y[i] \in Nat /\ y[i] < Radix
  BY RadixFacts
<1>2. g0 \in Nat /\ Carry(g0) \in {0, 1}
  <2>1. g0 \in Nat /\ g0 < (1 + 1) * Radix
    BY <1>1, RadixFacts DEF Limb
  <2>2. Carry(g0) \in Nat /\ Carry(g0) <= 1
    BY <2>1, CarryBelow, Digits
  <2> QED
    BY <2>1, <2>2
<1>3. g1 \in Nat /\ Carry(g1) \in {0, 1}
  <2> HIDE DEF g0
  <2> QED
    BY <1>1, <1>2, CarryIn DEF Limb
<1>4. g2 \in Nat /\ Carry(g2) \in {0, 1}
  <2> HIDE DEF g1
  <2> QED
    BY <1>1, <1>3, CarryIn DEF Limb
<1>5. g3 \in Nat /\ Carry(g3) \in {0, 1}
  <2> HIDE DEF g2
  <2> QED
    BY <1>1, <1>4, CarryIn DEF Limb
<1>6. g4 \in 0 .. Radix
  <2> HIDE DEF g3
  <2> QED
    BY <1>1, <1>5, RadixFacts DEF Limb
<1>7. LessPrime(y) = Limbs(Low(g0), Low(g1), Low(g2), Low(g3), Fit(g4 - Radix, Machine.u32))
  <2>1. /\ g0 = y[0] + 5 /\ g1 = y[1] + Carry(g0) /\ g2 = y[2] + Carry(g1)
        /\ g3 = y[3] + Carry(g2) /\ g4 = y[4] + Carry(g3)
    OBVIOUS
  <2> HIDE DEF g0, g1, g2, g3, g4
  <2> QED
    BY <2>1, Zenon DEF LessPrime
<1> HIDE DEF g0, g1, g2, g3, g4
<1>8. LessPrime(y)[4] = Fit(g4 - Radix, Machine.u32)
  BY <1>7, LimbsAt
<1>9. CASE g4 = Radix
  <2>1. Fit(g4 - Radix, Machine.u32) = 0
    BY <1>9, Fits, MachineWords, RadixFacts
  <2>2. ~(0 >= 32 * Radix)
    BY RadixFacts
  <2> QED
    BY <1>2, <1>3, <1>4, <1>5, <1>6, <1>7, <1>8, <1>9, <2>1, <2>2, RadixFacts
    DEF Reduced, g0, g1, g2, g3, g4
<1>10. CASE g4 < Radix
  <2>1. Fit(g4 - Radix, Machine.u32) = g4 - Radix + 64 * Radix
    <3>1. /\ g4 - Radix \in Int /\ -(64 * Radix) <= g4 - Radix /\ g4 - Radix < 0
          /\ 64 * Radix \in Nat /\ 64 * Radix > 0
      BY <1>6, <1>10, RadixFacts
    <3>2. (g4 - Radix) % (64 * Radix) = g4 - Radix + 64 * Radix
      BY <3>1, Negative
    <3>3. 64 * Radix # 0 /\ Machine.u32 = 64 * Radix
      BY <3>1, MachineWords
    <3> QED
      BY <3>2, <3>3, Zenon DEF Fit
  <2>2. Fit(g4 - Radix, Machine.u32) >= 32 * Radix
    BY <2>1, <1>6, RadixFacts
  <2>3. Reduced(y) = y
    BY <1>8, <2>2 DEF Reduced
  <2>4. g4 # Radix
    BY <1>10, <1>6, RadixFacts
  <2> QED
    BY <1>2, <1>3, <1>4, <1>5, <1>6, <2>3, <2>4 DEF g0, g1, g2, g3, g4
<1> QED
  BY <1>6, <1>9, <1>10, RadixFacts

LEMMA FinalBounds ==
  ASSUME NEW x, LimbsOK(x)
  PROVE  Final(x) \in [Limb -> 0 .. Radix - 1]
<1> DEFINE y == Settled(Machine, x)
           g0 == y[0] + 5
           g1 == y[1] + Carry(g0)
           g2 == y[2] + Carry(g1)
           g3 == y[3] + Carry(g2)
           g4 == y[4] + Carry(g3)
<1>1. y \in [Limb -> 0 .. Radix - 1]
  BY SettledBounds
<1>2. /\ g0 \in Nat /\ g1 \in Nat /\ g2 \in Nat /\ g3 \in Nat /\ g4 \in 0 .. Radix
      /\ g4 = Radix => Reduced(y) = Limbs(Low(g0), Low(g1), Low(g2), Low(g3), 0)
      /\ g4 < Radix => Reduced(y) = y
  <2> HIDE DEF y
  <2> QED
    BY <1>1, LessPrimeBounds
<1>3. CASE g4 < Radix
  BY <1>1, <1>2, <1>3 DEF Final
<1>4. CASE g4 = Radix
  <2> HIDE DEF g0, g1, g2, g3
  <2>1. 0 \in 0 .. Radix - 1
    BY RadixFacts
  <2>2. Limbs(Low(g0), Low(g1), Low(g2), Low(g3), 0) \in [Limb -> 0 .. Radix - 1]
    BY <1>2, <2>1, Digits, LimbsType
  <2> QED
    BY <1>2, <1>4, <2>2 DEF Final
<1> QED
  <2> HIDE DEF g4
  <2> QED
    BY <1>2, <1>3, <1>4, RadixFacts

-----------------------------------------------------------------------------
(***************************************************************************)
(* The specification.                                                      *)
(***************************************************************************)

LEMMA ValueIsNatural ==
  ASSUME NEW x \in [Limb -> Nat]
  PROVE  Value(x) \in Nat
<1>1. ASSUME NEW a \in Nat, NEW b \in Nat
      PROVE  a + Radix * b \in Nat
  <2>1. Radix * b \in Nat
    BY RadixFacts
  <2> QED
    BY <2>1
<1>2. x[0] \in Nat /\ x[1] \in Nat /\ x[2] \in Nat /\ x[3] \in Nat /\ x[4] \in Nat
  BY DEF Limb
<1>3. x[3] + Radix * x[4] \in Nat
  BY <1>1, <1>2
<1>4. x[2] + Radix * (x[3] + Radix * x[4]) \in Nat
  BY <1>1, <1>2, <1>3
<1>5. x[1] + Radix * (x[2] + Radix * (x[3] + Radix * x[4])) \in Nat
  BY <1>1, <1>2, <1>4
<1> QED
  BY <1>1, <1>2, <1>5 DEF Value

LEMMA TagSpaceFacts == TagSpace \in Nat /\ TagSpace > 0
<1>1. \A x, y \in Nat : x * y \in Nat /\ (y >= 64 => x * y >= x)
  <2>1. ASSUME NEW x \in Nat, NEW y \in Nat
        PROVE  x * y \in Nat
    OBVIOUS
  <2>2. ASSUME NEW x \in Nat, NEW y \in Nat, y >= 64
        PROVE  x * 1 <= x * y
    BY <2>2
  <2> QED
    BY <2>1, <2>2
<1> DEFINE S3 == Square * Radix
           S4 == S3 * Radix
           S5 == S4 * Radix
<1>2. S3 \in Nat /\ S3 >= 64
  BY <1>1, RadixFacts
<1>3. S4 \in Nat /\ S4 >= 64
  <2> HIDE DEF S3
  <2> QED
    BY <1>1, <1>2, RadixFacts
<1>4. S5 \in Nat /\ S5 >= 64
  <2> HIDE DEF S4
  <2> QED
    BY <1>1, <1>3, RadixFacts
<1>5. TagSpace = S5 \div 4
  BY DEF TagSpace, Square
<1> HIDE DEF S5
<1> QED
  BY <1>4, <1>5

LEMMA InputsOK ==
  /\ \A x \in Multipliers \cup Chunks \cup LastChunks : HalfOK(x)
  /\ \A x \in Pads : x \in 0 .. TagSpace - 1
BY InputAssumption DEF HalfOK

LEMMA ZeroOK == LimbsOK(Zero) /\ HalfOK(Zero) /\ Zero \in [Limb -> 0 .. Radix - 1] /\ Zero[4] = 0
<1>1. 0 \in 0 .. Radix - 1 /\ 0 \in Nat /\ 0 < Radix \div 4
  BY RadixAssumption, RadixFacts
<1>2. Zero \in [Limb -> 0 .. Radix - 1] /\ Zero \in [Limb -> Nat]
  BY <1>1, LimbsType DEF Zero
<1>3. Zero[0] = 0 /\ Zero[1] = 0 /\ Zero[2] = 0 /\ Zero[3] = 0 /\ Zero[4] = 0
  BY LimbsAt DEF Zero
<1> QED
  BY <1>1, <1>2, <1>3, RadixFacts DEF LimbsOK, HalfOK, Limb

LEMMA TagsFit ==
  ASSUME NEW x \in [Limb -> 0 .. Radix - 1], NEW p \in 0 .. TagSpace - 1
  PROVE  (Packed(x) + p) % TagSpace \in 0 .. TagSpace - 1
<1>1. \A y \in Int : y % TagSpace \in 0 .. TagSpace - 1
  <2>1. ASSUME NEW w \in Nat, w > 0, NEW y \in Int PROVE y % w \in 0 .. w - 1
    BY <2>1, Z3
  <2> QED
    BY <2>1, TagSpaceFacts, Zenon
<1> DEFINE With(y, bit) == y + bit * (1 - (y % 2))
<1>2. ASSUME NEW y \in Int, NEW c \in Int PROVE With(y, c) \in Int
  <2>1. y % 2 \in Int
    OBVIOUS
  <2>2. ASSUME NEW z \in Int PROVE y + c * (1 - z) \in Int
    OBVIOUS
  <2> QED
    BY <2>1, <2>2
<1>3. ASSUME NEW a \in Int, NEW b \in Int PROVE a + Radix * b \in Int
  BY RadixFacts
<1>4. ASSUME NEW y \in [Limb -> Int] PROVE Value(y) \in Int
  <2>1. y[0] \in Int /\ y[1] \in Int /\ y[2] \in Int /\ y[3] \in Int /\ y[4] \in Int
    BY DEF Limb
  <2>2. y[3] + Radix * y[4] \in Int
    BY <2>1, <1>3
  <2>3. y[2] + Radix * (y[3] + Radix * y[4]) \in Int
    BY <2>1, <2>2, <1>3
  <2>4. y[1] + Radix * (y[2] + Radix * (y[3] + Radix * y[4])) \in Int
    BY <2>1, <2>3, <1>3
  <2> QED
    BY <2>1, <2>4, <1>3 DEF Value
<1>5. ASSUME NEW i \in Limb
      PROVE  Low(x[i]) \in Int /\ Carry(x[i]) \in Int
  BY Digits
<1> DEFINE z == Limbs(Low(x[0]), With(Low(x[1]), Carry(x[0])), With(Low(x[2]), Carry(x[1])),
                      With(Low(x[3]), Carry(x[2])), With(Low(x[4]), Carry(x[3])))
<1>6. z \in [Limb -> Int]
  <2>1. /\ Low(x[0]) \in Int /\ Low(x[1]) \in Int /\ Low(x[2]) \in Int /\ Low(x[3]) \in Int
        /\ Low(x[4]) \in Int /\ Carry(x[0]) \in Int /\ Carry(x[1]) \in Int
        /\ Carry(x[2]) \in Int /\ Carry(x[3]) \in Int
    BY <1>5 DEF Limb
  <2> HIDE DEF With
  <2>2. /\ With(Low(x[1]), Carry(x[0])) \in Int /\ With(Low(x[2]), Carry(x[1])) \in Int
        /\ With(Low(x[3]), Carry(x[2])) \in Int /\ With(Low(x[4]), Carry(x[3])) \in Int
    BY <1>2, <2>1
  <2> QED
    BY <2>1, <2>2, LimbsType
<1>7. Packed(x) = Value(z) % TagSpace
  BY DEF Packed
<1>8. Packed(x) + p \in Int
  <2> HIDE DEF z
  <2> QED
    BY <1>1, <1>4, <1>6, <1>7
<1> QED
  BY <1>1, <1>8

LEMMA TypeInduction == TypeOK /\ [Next]_vars => TypeOK'
<1> SUFFICES ASSUME TypeOK, [Next]_vars PROVE TypeOK'
  OBVIOUS
<1>0. LimbsOK(h) /\ MultiplierOK
  BY DEF TypeOK, LimbsOK, MultiplierOK
<1>1. CASE Key
  <2>1. r' \in [Limb -> 0 .. Radix - 1] /\ r'[4] < Radix \div 4 /\ pad' \in 0 .. TagSpace - 1
    BY <1>1, InputsOK DEF Key, HalfOK
  <2>2. LimbsOK(h')
    BY <1>1, ZeroOK DEF Key
  <2> QED
    BY <1>1, <2>1, <2>2 DEF TypeOK, Key, LimbsOK
<1>2. CASE Block
  <2>1. PICK m \in Chunks : /\ h' = Absorbed(Machine, h, m, WholeBit)
                            /\ given' = Value(Sum(Unbounded, Zero, m, WholeBit))
    BY <1>2 DEF Block
  <2>2. LimbsOK(h')
    BY <1>0, <2>1, InputsOK, AbsorbedOK
  <2>3. given' \in Nat
    BY <2>1, InputsOK, ZeroOK, SumBounds, ValueIsNatural DEF SumOK
  <2> QED
    BY <1>2, <2>2, <2>3 DEF TypeOK, Block, LimbsOK
<1>3. ASSUME NEW x, LimbsOK(x), Close(x), given' \in Nat
      PROVE  TypeOK'
  <2>1. tag' \in 0 .. TagSpace - 1
    BY <1>3, FinalBounds, TagsFit DEF Close, TypeOK
  <2>2. LimbsOK(h') /\ r' \in [Limb -> 0 .. Radix - 1] /\ r'[4] < Radix \div 4 /\ pad' \in 0 .. TagSpace - 1
    BY <1>3, ZeroOK, TagSpaceFacts DEF Close, HalfOK
  <2> QED
    BY <1>3, <2>1, <2>2 DEF TypeOK, Close, LimbsOK
<1>4. CASE FinishWhole
  BY <1>0, <1>3, <1>4 DEF FinishWhole, TypeOK
<1>5. CASE FinishPartial
  <2>1. PICK m \in LastChunks : /\ Close(Absorbed(Machine, h, m, NoBit))
                                /\ given' = Value(Sum(Unbounded, Zero, m, NoBit))
    BY <1>5 DEF FinishPartial
  <2>2. LimbsOK(Absorbed(Machine, h, m, NoBit))
    BY <1>0, InputsOK, AbsorbedOK
  <2>3. given' \in Nat
    BY <2>1, InputsOK, ZeroOK, SumBounds, ValueIsNatural DEF SumOK
  <2> QED
    BY <1>3, <2>1, <2>2, <2>3
<1>6. CASE UNCHANGED vars
  BY <1>6 DEF vars, TypeOK
<1> QED
  BY <1>1, <1>2, <1>4, <1>5, <1>6 DEF Next

\* The limbs of h stay as narrow as the next block and finish need them, for
\* limbs of any width and messages of any length (poly1305_blocks, c * 5 and the
\* last h1 += c).
THEOREM PolyTypeOK == Spec => []TypeOK
<1>1. Init => TypeOK
  BY ZeroOK, TagSpaceFacts, RadixFacts DEF Init, TypeOK, LimbsOK, HalfOK
<1> QED
  BY <1>1, TypeInduction, PTL DEF Spec

\* No 32-bit or 64-bit word of poly1305_blocks and poly1305_finish ever loses a
\* bit, whatever the key, the message and its length.
THEOREM PolyNoWordOverflows == Spec => []NoWordOverflows
<1>1. TypeOK => NoWordOverflows
  <2> SUFFICES ASSUME TypeOK PROVE NoWordOverflows
    OBVIOUS
  <2>1. LimbsOK(h) /\ MultiplierOK
    BY DEF TypeOK, LimbsOK, MultiplierOK
  <2>2. ASSUME NEW m \in Chunks \cup LastChunks, NEW b \in {WholeBit, NoBit}
        PROVE  LET a == Sum(Unbounded, h, m, b)
                   d == Carried(Unbounded, a)
               IN /\ Sum(Machine, h, m, b) = a
                  /\ Carried(Machine, a) = d
                  /\ Kept(Machine, d) = Kept(Unbounded, d)
    BY <2>1, InputsOK, SumBounds, CarriedBounds, KeptBounds
  <2>3. Settled(Machine, h) = Settled(Unbounded, h)
    BY <2>1, SettledBounds
  <2> QED
    BY <2>2, <2>3 DEF NoWordOverflows
<1> QED
  BY <1>1, PolyTypeOK, PTL

\* The limbs finish packs into the tag never overlap.
THEOREM PolyLimbsDoNotOverlap == Spec => []LimbsDoNotOverlap
<1>1. TypeOK => LimbsDoNotOverlap
  BY FinalBounds DEF TypeOK, LimbsOK, LimbsDoNotOverlap
<1> QED
  BY <1>1, PolyTypeOK, PTL

-----------------------------------------------------------------------------
(***************************************************************************)
(* What the limbs stand for.  Radix^5 is 5 modulo the prime: the top limb, *)
(* moved up, comes back at the bottom five times.                          *)
(***************************************************************************)

\* 2^130 - 5
Modulus == (Radix * Radix * Radix * Radix * Radix) - 5

Horner(a, b, c, d, e) == a + Radix * (b + Radix * (c + Radix * (d + Radix * e)))

LEMMA RadixIsInteger == Radix \in Int /\ Modulus \in Int
<1>1. \A x \in Int : (x * x * x * x * x) - 5 \in Int
  OBVIOUS
<1> QED
  BY <1>1, RadixFacts DEF Modulus

LEMMA HornerInt ==
  ASSUME NEW a \in Int, NEW b \in Int, NEW c \in Int, NEW d \in Int, NEW e \in Int
  PROVE  Horner(a, b, c, d, e) \in Int
<1>1. ASSUME NEW x \in Int, NEW y \in Int PROVE x + Radix * y \in Int
  BY RadixIsInteger
<1> QED
  BY <1>1 DEF Horner

Adds(a, b, c, d, e, p, q, s, t, u) ==
  Horner(a, b, c, d, e) + Horner(p, q, s, t, u) = Horner(a + p, b + q, c + s, d + t, e + u)

LEMMA HornerSum ==
  \A a, b, c, d, e, p, q, s, t, u \in Int : Adds(a, b, c, d, e, p, q, s, t, u)
BY RadixIsInteger, Z3 DEF Horner, Adds

\* Carries c0 .. c4 moved to the limb above, the top one five times to limb 0,
\* and a carry c5 out of limb 0 then moved to limb 1.
CarriesKeep(l0, l1, l2, l3, l4, c0, c1, c2, c3, c4, c5) ==
  Horner(Radix * c0 + (Radix * c5 + l0 - 5 * c4), Radix * c1 + l1 - c0, Radix * c2 + l2 - c1,
         Radix * c3 + l3 - c2, Radix * c4 + l4 - c3)
    = Horner(l0, l1 + c5, l2, l3, l4) + c4 * Modulus

LEMMA CarriesKeepValue ==
  ASSUME NEW l0 \in Int, NEW l1 \in Int, NEW l2 \in Int, NEW l3 \in Int, NEW l4 \in Int,
         NEW c0 \in Int, NEW c1 \in Int, NEW c2 \in Int, NEW c3 \in Int, NEW c4 \in Int,
         NEW c5 \in Int
  PROVE  CarriesKeep(l0, l1, l2, l3, l4, c0, c1, c2, c3, c4, c5)
<1>1. \A R \in Int :
        (R * c0 + (R * c5 + l0 - 5 * c4))
          + R * ((R * c1 + l1 - c0) + R * ((R * c2 + l2 - c1)
              + R * ((R * c3 + l3 - c2) + R * (R * c4 + l4 - c3))))
        = (l0 + R * ((l1 + c5) + R * (l2 + R * (l3 + R * l4))))
            + c4 * ((R * R * R * R * R) - 5)
  BY Z3
<1> QED
  BY <1>1, RadixIsInteger, Zenon DEF CarriesKeep, Horner, Modulus

LEMMA DigitsAdd ==
  ASSUME NEW x \in Nat
  PROVE  /\ Low(x) \in Int /\ Carry(x) \in Int /\ Radix * Carry(x) \in Int
         /\ x = Radix * Carry(x) + Low(x)
<1>1. x = Radix * Carry(x) + Low(x) /\ Carry(x) \in Int /\ Low(x) \in Int
  BY Digits
<1> QED
  BY <1>1, RadixIsInteger

LEMMA ValueIsHorner ==
  ASSUME NEW x PROVE Value(x) = Horner(x[0], x[1], x[2], x[3], x[4])
BY DEF Value, Horner

LEMMA ValueOfLimbs ==
  ASSUME NEW a, NEW b, NEW c, NEW d, NEW e
  PROVE  Value(Limbs(a, b, c, d, e)) = Horner(a, b, c, d, e)
<1> DEFINE x == Limbs(a, b, c, d, e)
<1>1. x[0] = a /\ x[1] = b /\ x[2] = c /\ x[3] = d /\ x[4] = e
  BY LimbsAt
<1> HIDE DEF x
<1>2. Value(x) = Horner(a, b, c, d, e)
  BY <1>1, ValueIsHorner
<1> QED
  BY <1>2 DEF x

\* What a block adds to h.
LEMMA ValueOfSum ==
  ASSUME NEW x, LimbsOK(x), NEW m, HalfOK(m), NEW b \in {WholeBit, NoBit}
  PROVE  Value(Sum(Unbounded, x, m, b)) = Value(x) + Value(Sum(Unbounded, Zero, m, b))
<1>1. b \in Int
  BY RadixFacts DEF WholeBit, NoBit
<1>2. \A i \in Limb : x[i] \in Int /\ m[i] \in Int
  BY DEF LimbsOK, HalfOK
<1>3. ASSUME NEW y, \A i \in Limb : y[i] \in Int
      PROVE  Value(Sum(Unbounded, y, m, b))
               = Horner(y[0] + m[0], y[1] + m[1], y[2] + m[2], y[3] + m[3], y[4] + (m[4] + b))
  <2> DEFINE z == Sum(Unbounded, y, m, b)
  <2>1. \A i \in Limb : z[i] = y[i] + m[i] + (IF i = 4 THEN b ELSE 0)
    BY FitUnbounded, MachineWords DEF Sum
  <2> HIDE DEF z
  <2>2. /\ z[0] = y[0] + m[0] /\ z[1] = y[1] + m[1] /\ z[2] = y[2] + m[2]
        /\ z[3] = y[3] + m[3] /\ z[4] = y[4] + (m[4] + b)
    BY <1>1, <1>2, <1>3, <2>1 DEF Limb
  <2>3. Value(z) = Horner(y[0] + m[0], y[1] + m[1], y[2] + m[2], y[3] + m[3], y[4] + (m[4] + b))
    BY <2>2, ValueIsHorner
  <2> QED
    BY <2>3 DEF z
<1>4. \A i \in Limb : Zero[i] = 0
  BY LimbsAt DEF Zero, Limb
<1>5. Value(Sum(Unbounded, Zero, m, b)) = Horner(m[0], m[1], m[2], m[3], m[4] + b)
  <2>1. /\ Zero[0] + m[0] = m[0] /\ Zero[1] + m[1] = m[1] /\ Zero[2] + m[2] = m[2]
        /\ Zero[3] + m[3] = m[3] /\ Zero[4] + (m[4] + b) = m[4] + b
    BY <1>1, <1>2, <1>4 DEF Limb
  <2> QED
    BY <1>3, <1>4, <2>1
<1>6. /\ x[0] \in Int /\ x[1] \in Int /\ x[2] \in Int /\ x[3] \in Int /\ x[4] \in Int
      /\ m[0] \in Int /\ m[1] \in Int /\ m[2] \in Int /\ m[3] \in Int /\ m[4] + b \in Int
  BY <1>1, <1>2 DEF Limb
<1>7. Value(Sum(Unbounded, x, m, b))
        = Horner(x[0], x[1], x[2], x[3], x[4]) + Horner(m[0], m[1], m[2], m[3], m[4] + b)
  <2>1. Value(Sum(Unbounded, x, m, b))
          = Horner(x[0] + m[0], x[1] + m[1], x[2] + m[2], x[3] + m[3], x[4] + (m[4] + b))
    BY <1>2, <1>3
  <2>2. Horner(x[0], x[1], x[2], x[3], x[4]) + Horner(m[0], m[1], m[2], m[3], m[4] + b)
          = Horner(x[0] + m[0], x[1] + m[1], x[2] + m[2], x[3] + m[3], x[4] + (m[4] + b))
    <3>1. Adds(x[0], x[1], x[2], x[3], x[4], m[0], m[1], m[2], m[3], m[4] + b)
      BY <1>6, HornerSum
    <3> QED
      BY <3>1 DEF Adds
  <2> QED
    BY <2>1, <2>2, Zenon
<1> QED
  BY <1>5, <1>7, ValueIsHorner

Multiplies(a0, a1, a2, a3, a4, r0, r1, r2, r3, r4) ==
  Horner(a0, a1, a2, a3, a4) * Horner(r0, r1, r2, r3, r4)
  = Horner(a0 * r0 + a1 * (5 * r4) + a2 * (5 * r3) + a3 * (5 * r2) + a4 * (5 * r1),
           a0 * r1 + a1 * r0 + a2 * (5 * r4) + a3 * (5 * r3) + a4 * (5 * r2),
           a0 * r2 + a1 * r1 + a2 * r0 + a3 * (5 * r4) + a4 * (5 * r3),
           a0 * r3 + a1 * r2 + a2 * r1 + a3 * r0 + a4 * (5 * r4),
           a0 * r4 + a1 * r3 + a2 * r2 + a3 * r1 + a4 * r0)
    + Horner(a1 * r4 + a2 * r3 + a3 * r2 + a4 * r1,
             a2 * r4 + a3 * r3 + a4 * r2, a3 * r4 + a4 * r3, a4 * r4, 0) * Modulus

LEMMA ProductOfHorners ==
  ASSUME NEW a0 \in Int, NEW a1 \in Int, NEW a2 \in Int, NEW a3 \in Int, NEW a4 \in Int,
         NEW r0 \in Int, NEW r1 \in Int, NEW r2 \in Int, NEW r3 \in Int, NEW r4 \in Int
  PROVE  Multiplies(a0, a1, a2, a3, a4, r0, r1, r2, r3, r4)
<1>1. \A R \in Int :
        (a0 + R * (a1 + R * (a2 + R * (a3 + R * a4))))
          * (r0 + R * (r1 + R * (r2 + R * (r3 + R * r4))))
        = ((a0 * r0 + a1 * (5 * r4) + a2 * (5 * r3) + a3 * (5 * r2) + a4 * (5 * r1))
             + R * ((a0 * r1 + a1 * r0 + a2 * (5 * r4) + a3 * (5 * r3) + a4 * (5 * r2))
             + R * ((a0 * r2 + a1 * r1 + a2 * r0 + a3 * (5 * r4) + a4 * (5 * r3))
             + R * ((a0 * r3 + a1 * r2 + a2 * r1 + a3 * r0 + a4 * (5 * r4))
             + R * (a0 * r4 + a1 * r3 + a2 * r2 + a3 * r1 + a4 * r0)))))
          + ((a1 * r4 + a2 * r3 + a3 * r2 + a4 * r1)
               + R * ((a2 * r4 + a3 * r3 + a4 * r2)
                        + R * ((a3 * r4 + a4 * r3) + R * (a4 * r4 + R * 0))))
            * ((R * R * R * R * R) - 5)
  BY Z3
<1> QED
  BY <1>1, RadixIsInteger, Zenon DEF Multiplies, Horner, Modulus

\* The columns, top ones folded back, are the product.
LEMMA Product ==
  ASSUME NEW a, SumOK(a), MultiplierOK
  PROVE  \E k \in Int :
           Value(a) * Value(r)
             = Horner(Exact(a, 0), Exact(a, 1), Exact(a, 2), Exact(a, 3), Exact(a, 4)) + k * Modulus
<1> DEFINE k == Horner(a[1] * r[4] + a[2] * r[3] + a[3] * r[2] + a[4] * r[1],
                       a[2] * r[4] + a[3] * r[3] + a[4] * r[2],
                       a[3] * r[4] + a[4] * r[3], a[4] * r[4], 0)
<1>1. /\ Exact(a, 0) = a[0] * r[0] + a[1] * (5 * r[4]) + a[2] * (5 * r[3]) + a[3] * (5 * r[2]) + a[4] * (5 * r[1])
      /\ Exact(a, 1) = a[0] * r[1] + a[1] * r[0] + a[2] * (5 * r[4]) + a[3] * (5 * r[3]) + a[4] * (5 * r[2])
      /\ Exact(a, 2) = a[0] * r[2] + a[1] * r[1] + a[2] * r[0] + a[3] * (5 * r[4]) + a[4] * (5 * r[3])
      /\ Exact(a, 3) = a[0] * r[3] + a[1] * r[2] + a[2] * r[1] + a[3] * r[0] + a[4] * (5 * r[4])
      /\ Exact(a, 4) = a[0] * r[4] + a[1] * r[3] + a[2] * r[2] + a[3] * r[1] + a[4] * r[0]
  BY FitUnbounded DEF Exact, Column, Factor, Unbounded
<1>2. /\ a[0] \in Int /\ a[1] \in Int /\ a[2] \in Int /\ a[3] \in Int /\ a[4] \in Int
      /\ r[0] \in Int /\ r[1] \in Int /\ r[2] \in Int /\ r[3] \in Int /\ r[4] \in Int
  BY DEF SumOK, MultiplierOK, Limb
<1>3. k \in Int
  <2>1. /\ a[1] * r[4] + a[2] * r[3] + a[3] * r[2] + a[4] * r[1] \in Int
        /\ a[2] * r[4] + a[3] * r[3] + a[4] * r[2] \in Int
        /\ a[3] * r[4] + a[4] * r[3] \in Int /\ a[4] * r[4] \in Int /\ 0 \in Int
    BY <1>2
  <2> QED
    BY <2>1, HornerInt, Zenon
<1>4. Horner(a[0], a[1], a[2], a[3], a[4]) * Horner(r[0], r[1], r[2], r[3], r[4])
        = Horner(Exact(a, 0), Exact(a, 1), Exact(a, 2), Exact(a, 3), Exact(a, 4)) + k * Modulus
  <2>1. Horner(a[0], a[1], a[2], a[3], a[4]) * Horner(r[0], r[1], r[2], r[3], r[4])
        = Horner(a[0] * r[0] + a[1] * (5 * r[4]) + a[2] * (5 * r[3]) + a[3] * (5 * r[2]) + a[4] * (5 * r[1]),
                 a[0] * r[1] + a[1] * r[0] + a[2] * (5 * r[4]) + a[3] * (5 * r[3]) + a[4] * (5 * r[2]),
                 a[0] * r[2] + a[1] * r[1] + a[2] * r[0] + a[3] * (5 * r[4]) + a[4] * (5 * r[3]),
                 a[0] * r[3] + a[1] * r[2] + a[2] * r[1] + a[3] * r[0] + a[4] * (5 * r[4]),
                 a[0] * r[4] + a[1] * r[3] + a[2] * r[2] + a[3] * r[1] + a[4] * r[0]) + k * Modulus
    <3>1. Multiplies(a[0], a[1], a[2], a[3], a[4], r[0], r[1], r[2], r[3], r[4])
      BY <1>2, ProductOfHorners
    <3> QED
      BY <3>1, Zenon DEF Multiplies
  <2> QED
    BY <1>1, <2>1, Zenon
<1>5. Value(a) * Value(r)
        = Horner(Exact(a, 0), Exact(a, 1), Exact(a, 2), Exact(a, 3), Exact(a, 4)) + k * Modulus
  BY <1>4, ValueIsHorner, Zenon
<1> QED
  <2> HIDE DEF k
  <2> QED
    BY <1>3, <1>5

LEMMA CarriedLimbs ==
  ASSUME NEW a, NEW d, d = Carried(Unbounded, a)
  PROVE  /\ d[0] = Exact(a, 0)
         /\ d[1] = Exact(a, 1) + Carry(d[0]) /\ d[2] = Exact(a, 2) + Carry(d[1])
         /\ d[3] = Exact(a, 3) + Carry(d[2]) /\ d[4] = Exact(a, 4) + Carry(d[3])
<1> DEFINE d0 == Exact(a, 0)
           d1 == Exact(a, 1) + Carry(d0)
           d2 == Exact(a, 2) + Carry(d1)
           d3 == Exact(a, 3) + Carry(d2)
           d4 == Exact(a, 4) + Carry(d3)
<1>1. \A x, y : Fit(x + Fit(Carry(y), Unbounded.u32), Unbounded.u64) = x + Carry(y)
  BY FitUnbounded, MachineWords
<1>2. d = Limbs(d0, d1, d2, d3, d4)
  <2>1. /\ Column(Unbounded, a, 0) = d0
        /\ Fit(Column(Unbounded, a, 1) + Fit(Carry(d0), Unbounded.u32), Unbounded.u64) = d1
        /\ Fit(Column(Unbounded, a, 2) + Fit(Carry(d1), Unbounded.u32), Unbounded.u64) = d2
        /\ Fit(Column(Unbounded, a, 3) + Fit(Carry(d2), Unbounded.u32), Unbounded.u64) = d3
        /\ Fit(Column(Unbounded, a, 4) + Fit(Carry(d3), Unbounded.u32), Unbounded.u64) = d4
    BY <1>1, Zenon DEF Exact
  <2> HIDE DEF d0, d1, d2, d3, d4
  <2> QED
    BY <2>1, Zenon DEF Carried
<1>3. d[0] = d0 /\ d[1] = d1 /\ d[2] = d2 /\ d[3] = d3 /\ d[4] = d4
  <2> HIDE DEF d0, d1, d2, d3, d4
  <2> QED
    BY <1>2, LimbsAt
<1> QED
  BY <1>3, Zenon

LEMMA ValueOfKept ==
  ASSUME NEW d, CarriedOK(d), NEW f, f = Low(d[0]) + 5 * Carry(d[4]),
         NEW k, k = Low(d[1]) + Carry(f)
  PROVE  Value(Kept(Unbounded, d)) = Horner(Low(f), k, Low(d[2]), Low(d[3]), Low(d[4]))
<1>1. Folded(Unbounded, d) = f
  BY FoldBounds
<1>2. Fit(Low(d[1]) + Carry(f), Unbounded.u32) = k
  BY FitUnbounded, MachineWords
<1>3. Kept(Unbounded, d) = Limbs(Low(f), k, Low(d[2]), Low(d[3]), Low(d[4]))
  BY <1>1, <1>2, Zenon DEF Kept
<1>4. Value(Limbs(Low(f), k, Low(d[2]), Low(d[3]), Low(d[4])))
        = Horner(Low(f), k, Low(d[2]), Low(d[3]), Low(d[4]))
  BY ValueOfLimbs
<1> QED
  BY <1>3, <1>4, Zenon

\* The carries of a block change h by a multiple of the prime.
LEMMA ColumnsKept ==
  ASSUME NEW a, SumOK(a), MultiplierOK, NEW d, d = Carried(Unbounded, a)
  PROVE  Horner(Exact(a, 0), Exact(a, 1), Exact(a, 2), Exact(a, 3), Exact(a, 4))
           = Value(Kept(Unbounded, d)) + Carry(d[4]) * Modulus
<1> DEFINE f == Low(d[0]) + 5 * Carry(d[4])
<1>1. CarriedOK(d)
  BY CarriedBounds
<1>2. /\ d[0] \in Nat /\ d[1] \in Nat /\ d[2] \in Nat /\ d[3] \in Nat /\ d[4] \in Nat
  BY <1>1 DEF CarriedOK, Limb
<1>3. /\ Low(d[0]) \in Nat /\ Carry(d[4]) \in Nat
      /\ \A i \in Limb : /\ Low(d[i]) \in Int /\ Carry(d[i]) \in Int
                        /\ Radix * Carry(d[i]) \in Int
                        /\ d[i] = Radix * Carry(d[i]) + Low(d[i])
  BY <1>1, <1>2, Digits, DigitsAdd DEF CarriedOK
<1>4. f \in Nat
  BY <1>3
<1>5. Low(f) \in Int /\ Carry(f) \in Int /\ Radix * Carry(f) \in Int /\ f = Radix * Carry(f) + Low(f)
  <2> HIDE DEF f
  <2> QED
    BY <1>4, DigitsAdd
<1>6. /\ Exact(a, 0) \in Int /\ Exact(a, 1) \in Int /\ Exact(a, 2) \in Int
      /\ Exact(a, 3) \in Int /\ Exact(a, 4) \in Int
  BY ColumnBounds
<1>7. /\ Low(d[0]) \in Int /\ Low(d[1]) \in Int /\ Low(d[2]) \in Int
      /\ Low(d[3]) \in Int /\ Low(d[4]) \in Int
      /\ Carry(d[0]) \in Int /\ Carry(d[1]) \in Int /\ Carry(d[2]) \in Int
      /\ Carry(d[3]) \in Int /\ Carry(d[4]) \in Int
  BY <1>3 DEF Limb
<1>8. Exact(a, 0) = Radix * Carry(d[0]) + (Radix * Carry(f) + Low(f) - 5 * Carry(d[4]))
  <2>1. Low(d[0]) = Radix * Carry(f) + Low(f) - 5 * Carry(d[4])
    BY <1>3, <1>5, <1>7
  <2>2. Exact(a, 0) = Radix * Carry(d[0]) + Low(d[0])
    BY <1>3, CarriedLimbs DEF Limb
  <2> QED
    BY <2>1, <2>2, Zenon
<1>9. /\ Exact(a, 1) = Radix * Carry(d[1]) + Low(d[1]) - Carry(d[0])
      /\ Exact(a, 2) = Radix * Carry(d[2]) + Low(d[2]) - Carry(d[1])
      /\ Exact(a, 3) = Radix * Carry(d[3]) + Low(d[3]) - Carry(d[2])
      /\ Exact(a, 4) = Radix * Carry(d[4]) + Low(d[4]) - Carry(d[3])
  <2>1. /\ d[1] = Exact(a, 1) + Carry(d[0]) /\ d[2] = Exact(a, 2) + Carry(d[1])
        /\ d[3] = Exact(a, 3) + Carry(d[2]) /\ d[4] = Exact(a, 4) + Carry(d[3])
    BY CarriedLimbs
  <2>2. /\ Radix * Carry(d[1]) \in Int /\ d[1] = Radix * Carry(d[1]) + Low(d[1])
        /\ Radix * Carry(d[2]) \in Int /\ d[2] = Radix * Carry(d[2]) + Low(d[2])
        /\ Radix * Carry(d[3]) \in Int /\ d[3] = Radix * Carry(d[3]) + Low(d[3])
        /\ Radix * Carry(d[4]) \in Int /\ d[4] = Radix * Carry(d[4]) + Low(d[4])
    BY <1>3 DEF Limb
  <2> QED
    BY <1>6, <1>7, <2>1, <2>2
<1> HIDE DEF f
<1>10. CarriesKeep(Low(f), Low(d[1]), Low(d[2]), Low(d[3]), Low(d[4]),
                   Carry(d[0]), Carry(d[1]), Carry(d[2]), Carry(d[3]), Carry(d[4]), Carry(f))
  BY <1>5, <1>7, CarriesKeepValue, Zenon
<1>11. Value(Kept(Unbounded, d))
         = Horner(Low(f), Low(d[1]) + Carry(f), Low(d[2]), Low(d[3]), Low(d[4]))
  BY <1>1, ValueOfKept DEF f
<1> QED
  BY <1>8, <1>9, <1>10, <1>11, Zenon DEF CarriesKeep

Congruent(x, y) == \E k \in Int : x = y + k * Modulus

\* Two multiples of the prime are one.
LEMMA CongruentTwice ==
  ASSUME NEW x \in Int, NEW y \in Int, NEW z \in Int, NEW k \in Int, NEW l \in Int,
         x = y + k * Modulus, y = z + l * Modulus
  PROVE  Congruent(x, z)
<1>1. x = z + (k + l) * Modulus
  <2>1. \A M \in Int : (z + l * M) + k * M = z + (k + l) * M
    BY Z3
  <2>2. (z + l * Modulus) + k * Modulus = z + (k + l) * Modulus
    BY <2>1, RadixIsInteger, Zenon
  <2> QED
    BY <2>2
<1>2. k + l \in Int
  OBVIOUS
<1> QED
  BY <1>1, <1>2 DEF Congruent

\* One turn of the loop of poly1305_blocks: h * r with the block added, modulo
\* the prime.
LEMMA AbsorbedValue ==
  ASSUME NEW x, LimbsOK(x), MultiplierOK, NEW m, HalfOK(m), NEW b \in {WholeBit, NoBit}
  PROVE  Congruent((Value(x) + Value(Sum(Unbounded, Zero, m, b))) * Value(r),
                   Value(Absorbed(Machine, x, m, b)))
<1> DEFINE a == Sum(Unbounded, x, m, b)
           d == Carried(Unbounded, a)
           E == Horner(Exact(a, 0), Exact(a, 1), Exact(a, 2), Exact(a, 3), Exact(a, 4))
<1>1. SumOK(a) /\ Sum(Machine, x, m, b) = a
  BY SumBounds
<1>2. Value(a) = Value(x) + Value(Sum(Unbounded, Zero, m, b))
  BY ValueOfSum
<1> HIDE DEF a
<1>3. CarriedOK(d) /\ Carried(Machine, a) = d
  BY <1>1, CarriedBounds
<1>4. PICK k \in Int : Value(a) * Value(r) = E + k * Modulus
  BY <1>1, Product
<1>5. E = Value(Kept(Unbounded, d)) + Carry(d[4]) * Modulus
  BY <1>1, ColumnsKept
<1>6. /\ Absorbed(Machine, x, m, b) = Kept(Unbounded, d)
      /\ LimbsOK(Kept(Unbounded, d))
  BY <1>1, <1>3, KeptBounds DEF Absorbed
<1>7. /\ Value(Kept(Unbounded, d)) \in Int /\ Carry(d[4]) \in Int /\ E \in Int
      /\ Value(a) * Value(r) \in Int
  <2>1. Value(Kept(Unbounded, d)) \in Nat
    BY <1>6, ValueIsNatural DEF LimbsOK
  <2>2. Carry(d[4]) \in Nat
    BY <1>3, Digits DEF CarriedOK, Limb
  <2>3. E \in Int
    <3>1. /\ Exact(a, 0) \in Int /\ Exact(a, 1) \in Int /\ Exact(a, 2) \in Int
          /\ Exact(a, 3) \in Int /\ Exact(a, 4) \in Int
      BY <1>1, ColumnBounds
    <3> QED
      BY <3>1, HornerInt, Zenon
  <2>4. Value(a) \in Nat /\ Value(r) \in Nat
    <3>1. a \in [Limb -> Nat] /\ r \in [Limb -> Nat]
      BY <1>1 DEF SumOK, MultiplierOK
    <3> QED
      BY <3>1, ValueIsNatural
  <2> QED
    BY <2>1, <2>2, <2>3, <2>4
<1> HIDE DEF d, E
<1>8. Congruent(Value(a) * Value(r), Value(Kept(Unbounded, d)))
  BY <1>4, <1>5, <1>7, CongruentTwice
<1> QED
  BY <1>2, <1>6, <1>8, Zenon

\* Every block poly1305_blocks takes in multiplies what h stands for, with the
\* block added, by r modulo the prime, whatever the width of the limbs.
BlocksMultiply == [][Block => Congruent((Value(h) + given') * Value(r), Value(h'))]_vars

THEOREM PolyBlocksMultiply == Spec => BlocksMultiply
<1>1. TypeOK /\ [Next]_vars
        => [Block => Congruent((Value(h) + given') * Value(r), Value(h'))]_vars
  <2> SUFFICES ASSUME TypeOK, Block
               PROVE  Congruent((Value(h) + given') * Value(r), Value(h'))
    BY Zenon
  <2>1. LimbsOK(h) /\ MultiplierOK
    BY DEF TypeOK, LimbsOK, MultiplierOK
  <2>2. PICK m \in Chunks : /\ h' = Absorbed(Machine, h, m, WholeBit)
                            /\ given' = Value(Sum(Unbounded, Zero, m, WholeBit))
    BY DEF Block
  <2>3. HalfOK(m)
    BY InputsOK
  <2> QED
    BY <2>1, <2>2, <2>3, AbsorbedValue
<1> QED
  BY <1>1, PolyTypeOK, PTL DEF Spec, BlocksMultiply

-----------------------------------------------------------------------------
(***************************************************************************)
(* The number the tag is taken from.                                       *)
(***************************************************************************)

LEMMA SettledValue ==
  ASSUME NEW x, LimbsOK(x)
  PROVE  Congruent(Value(x), Value(Settled(Unbounded, x)))
<1> DEFINE x2 == x[2] + Carry(x[1])
           x3 == x[3] + Carry(x2)
           x4 == x[4] + Carry(x3)
           x0 == x[0] + 5 * Carry(x4)
           k1 == Low(x[1]) + Carry(x0)
<1>1. /\ x[0] \in Nat /\ x[1] \in Nat /\ x[2] \in Nat /\ x[3] \in Nat /\ x[4] \in Nat
  BY DEF LimbsOK, Limb
<1>2. ASSUME NEW y \in Nat, NEW z \in Nat PROVE y + Carry(z) \in Nat
  BY Digits
<1>3. x2 \in Nat /\ x3 \in Nat /\ x4 \in Nat
  BY <1>1, <1>2
<1>4. x0 \in Nat
  <2> HIDE DEF x4
  <2>1. Carry(x4) \in Nat
    BY <1>3, Digits
  <2> QED
    BY <1>1, <2>1
<1>5. Settled(Unbounded, x) = Limbs(Low(x0), k1, Low(x2), Low(x3), Low(x4))
  <2>1. \A y : Fit(y, Unbounded.u32) = y
    BY FitUnbounded, MachineWords
  <2> QED
    BY <2>1, Zenon DEF Settled
<1>6. /\ x2 = x[2] + Carry(x[1]) /\ x3 = x[3] + Carry(x2) /\ x4 = x[4] + Carry(x3)
      /\ x0 = x[0] + 5 * Carry(x4) /\ k1 = Low(x[1]) + Carry(x0)
  OBVIOUS
<1> HIDE DEF x2, x3, x4, x0, k1
<1>7. /\ Low(x0) \in Int /\ Low(x[1]) \in Int /\ Low(x2) \in Int /\ Low(x3) \in Int
      /\ Low(x4) \in Int
      /\ Carry(x0) \in Int /\ Carry(x[1]) \in Int /\ Carry(x2) \in Int /\ Carry(x3) \in Int
      /\ Carry(x4) \in Int /\ 0 \in Int
  BY <1>1, <1>3, <1>4, DigitsAdd
<1>8. /\ Radix * Carry(x0) \in Int /\ x0 = Radix * Carry(x0) + Low(x0)
      /\ Radix * Carry(x[1]) \in Int /\ x[1] = Radix * Carry(x[1]) + Low(x[1])
      /\ Radix * Carry(x2) \in Int /\ x2 = Radix * Carry(x2) + Low(x2)
      /\ Radix * Carry(x3) \in Int /\ x3 = Radix * Carry(x3) + Low(x3)
      /\ Radix * Carry(x4) \in Int /\ x4 = Radix * Carry(x4) + Low(x4)
  BY <1>1, <1>3, <1>4, DigitsAdd
<1>9. Radix * 0 = 0
  BY RadixIsInteger
<1>10. /\ x[0] = Radix * 0 + (Radix * Carry(x0) + Low(x0) - 5 * Carry(x4))
       /\ x[1] = Radix * Carry(x[1]) + Low(x[1]) - 0
       /\ x[2] = Radix * Carry(x2) + Low(x2) - Carry(x[1])
       /\ x[3] = Radix * Carry(x3) + Low(x3) - Carry(x2)
       /\ x[4] = Radix * Carry(x4) + Low(x4) - Carry(x3)
  BY <1>1, <1>6, <1>7, <1>8, <1>9
<1>11. CarriesKeep(Low(x0), Low(x[1]), Low(x2), Low(x3), Low(x4),
                   0, Carry(x[1]), Carry(x2), Carry(x3), Carry(x4), Carry(x0))
  BY <1>7, CarriesKeepValue, Zenon
<1>12. Horner(x[0], x[1], x[2], x[3], x[4])
         = Horner(Low(x0), k1, Low(x2), Low(x3), Low(x4)) + Carry(x4) * Modulus
  BY <1>6, <1>10, <1>11, Zenon DEF CarriesKeep
<1>13. Value(Limbs(Low(x0), k1, Low(x2), Low(x3), Low(x4)))
         = Horner(Low(x0), k1, Low(x2), Low(x3), Low(x4))
  BY ValueOfLimbs
<1>14. Value(x) = Value(Settled(Unbounded, x)) + Carry(x4) * Modulus
  BY <1>5, <1>12, <1>13, ValueIsHorner, Zenon
<1> QED
  BY <1>7, <1>14 DEF Congruent

\* Five digits are below Radix^5.
LEMMA HornerBound ==
  ASSUME NEW a \in 0 .. Radix - 1, NEW b \in 0 .. Radix - 1, NEW c \in 0 .. Radix - 1,
         NEW d \in 0 .. Radix - 1, NEW e \in 0 .. Radix - 1
  PROVE  Horner(a, b, c, d, e) \in 0 .. Modulus + 4
<1>1. ASSUME NEW x \in 0 .. Radix - 1, NEW n \in Nat, NEW y \in 0 .. n - 1
      PROVE  x + Radix * y \in 0 .. (n * Radix) - 1 /\ n * Radix \in Nat
  <2>1. Radix * y <= Radix * (n - 1) /\ Radix * y >= 0
    BY RadixFacts
  <2>2. Radix * (n - 1) = (n * Radix) - Radix /\ n * Radix \in Nat
    BY RadixFacts
  <2> QED
    BY <2>1, <2>2, RadixFacts
<1>2. d + Radix * e \in 0 .. (Radix * Radix) - 1 /\ Radix * Radix \in Nat
  BY <1>1, RadixFacts
<1>3. /\ c + Radix * (d + Radix * e) \in 0 .. (Radix * Radix * Radix) - 1
      /\ Radix * Radix * Radix \in Nat
  BY <1>1, <1>2
<1>4. /\ b + Radix * (c + Radix * (d + Radix * e)) \in 0 .. (Radix * Radix * Radix * Radix) - 1
      /\ Radix * Radix * Radix * Radix \in Nat
  BY <1>1, <1>3
<1>5. /\ a + Radix * (b + Radix * (c + Radix * (d + Radix * e)))
            \in 0 .. (Radix * Radix * Radix * Radix * Radix) - 1
      /\ Radix * Radix * Radix * Radix * Radix \in Nat
  BY <1>1, <1>4
<1> QED
  BY <1>5 DEF Horner, Modulus

\* The carries of h + 5, and the top limb g that tells whether it reached 2^130.
PlusFive(l0, l1, l2, l3, g, c0, c1, c2, c3) ==
  Horner(Radix * c0 + l0 - 5, Radix * c1 + l1 - c0, Radix * c2 + l2 - c1,
         Radix * c3 + l3 - c2, g - c3)
    = Horner(l0, l1, l2, l3, g) - 5

LEMMA PlusFiveValue ==
  ASSUME NEW l0 \in Int, NEW l1 \in Int, NEW l2 \in Int, NEW l3 \in Int, NEW g \in Int,
         NEW c0 \in Int, NEW c1 \in Int, NEW c2 \in Int, NEW c3 \in Int
  PROVE  PlusFive(l0, l1, l2, l3, g, c0, c1, c2, c3)
<1>1. \A R \in Int :
        (R * c0 + l0 - 5) + R * ((R * c1 + l1 - c0) + R * ((R * c2 + l2 - c1)
          + R * ((R * c3 + l3 - c2) + R * (g - c3))))
        = (l0 + R * (l1 + R * (l2 + R * (l3 + R * g)))) - 5
  BY Z3
<1> QED
  BY <1>1, RadixIsInteger, Zenon DEF PlusFive, Horner

LEMMA FullTop ==
  ASSUME NEW a \in Int, NEW b \in Int, NEW c \in Int, NEW d \in Int
  PROVE  Horner(a, b, c, d, Radix) - 5 = Horner(a, b, c, d, 0) + 1 * Modulus
<1>1. \A R \in Int :
        (a + R * (b + R * (c + R * (d + R * R)))) - 5
          = (a + R * (b + R * (c + R * (d + R * 0)))) + 1 * ((R * R * R * R * R) - 5)
  BY Z3
<1> QED
  BY <1>1, RadixIsInteger, Zenon DEF Horner, Modulus

LEMMA ReducedValue ==
  ASSUME NEW y \in [Limb -> 0 .. Radix - 1]
  PROVE  Congruent(Value(y), Value(Reduced(y))) /\ Value(Reduced(y)) \in 0 .. Modulus - 1
<1> DEFINE g0 == y[0] + 5
           g1 == y[1] + Carry(g0)
           g2 == y[2] + Carry(g1)
           g3 == y[3] + Carry(g2)
           g4 == y[4] + Carry(g3)
<1>1. /\ g0 \in Nat /\ g1 \in Nat /\ g2 \in Nat /\ g3 \in Nat /\ g4 \in 0 .. Radix
      /\ g4 = Radix => Reduced(y) = Limbs(Low(g0), Low(g1), Low(g2), Low(g3), 0)
      /\ g4 < Radix => Reduced(y) = y
  BY LessPrimeBounds
<1>2. /\ g0 = y[0] + 5 /\ g1 = y[1] + Carry(g0) /\ g2 = y[2] + Carry(g1)
      /\ g3 = y[3] + Carry(g2) /\ g4 = y[4] + Carry(g3)
  OBVIOUS
<1> HIDE DEF g0, g1, g2, g3, g4
<1>3. /\ y[0] \in 0 .. Radix - 1 /\ y[1] \in 0 .. Radix - 1 /\ y[2] \in 0 .. Radix - 1
      /\ y[3] \in 0 .. Radix - 1 /\ y[4] \in 0 .. Radix - 1
  BY DEF Limb
<1>4. /\ y[0] \in Int /\ y[1] \in Int /\ y[2] \in Int /\ y[3] \in Int /\ y[4] \in Int
  BY <1>3, RadixFacts
<1>5. /\ Low(g0) \in 0 .. Radix - 1 /\ Low(g1) \in 0 .. Radix - 1
      /\ Low(g2) \in 0 .. Radix - 1 /\ Low(g3) \in 0 .. Radix - 1
  BY <1>1, Digits
<1>6. /\ Low(g0) \in Int /\ Low(g1) \in Int /\ Low(g2) \in Int /\ Low(g3) \in Int
      /\ Carry(g0) \in Int /\ Carry(g1) \in Int /\ Carry(g2) \in Int /\ Carry(g3) \in Int
      /\ g4 \in Int
  BY <1>1, DigitsAdd, RadixFacts
<1>7. /\ Radix * Carry(g0) \in Int /\ g0 = Radix * Carry(g0) + Low(g0)
      /\ Radix * Carry(g1) \in Int /\ g1 = Radix * Carry(g1) + Low(g1)
      /\ Radix * Carry(g2) \in Int /\ g2 = Radix * Carry(g2) + Low(g2)
      /\ Radix * Carry(g3) \in Int /\ g3 = Radix * Carry(g3) + Low(g3)
  BY <1>1, DigitsAdd
<1>8. /\ y[0] = Radix * Carry(g0) + Low(g0) - 5
      /\ y[1] = Radix * Carry(g1) + Low(g1) - Carry(g0)
      /\ y[2] = Radix * Carry(g2) + Low(g2) - Carry(g1)
      /\ y[3] = Radix * Carry(g3) + Low(g3) - Carry(g2)
      /\ y[4] = g4 - Carry(g3)
  <2> DEFINE p0 == Radix * Carry(g0)
             p1 == Radix * Carry(g1)
             p2 == Radix * Carry(g2)
             p3 == Radix * Carry(g3)
  <2>1. /\ p0 \in Int /\ g0 = p0 + Low(g0) /\ p1 \in Int /\ g1 = p1 + Low(g1)
        /\ p2 \in Int /\ g2 = p2 + Low(g2) /\ p3 \in Int /\ g3 = p3 + Low(g3)
    BY <1>7
  <2> HIDE DEF p0, p1, p2, p3
  <2>2. /\ y[0] = p0 + Low(g0) - 5 /\ y[1] = p1 + Low(g1) - Carry(g0)
        /\ y[2] = p2 + Low(g2) - Carry(g1) /\ y[3] = p3 + Low(g3) - Carry(g2)
        /\ y[4] = g4 - Carry(g3)
    BY <1>2, <1>4, <1>6, <2>1
  <2> QED
    BY <2>2 DEF p0, p1, p2, p3
<1>9. PlusFive(Low(g0), Low(g1), Low(g2), Low(g3), g4, Carry(g0), Carry(g1), Carry(g2), Carry(g3))
  BY <1>6, PlusFiveValue, Zenon
<1>10. Value(y) = Horner(Low(g0), Low(g1), Low(g2), Low(g3), g4) - 5
  <2>1. Horner(y[0], y[1], y[2], y[3], y[4]) = Horner(Low(g0), Low(g1), Low(g2), Low(g3), g4) - 5
    BY <1>8, <1>9, Zenon DEF PlusFive
  <2> QED
    BY <2>1, ValueIsHorner, Zenon
<1>11. Value(y) \in 0 .. Modulus + 4
  BY <1>3, HornerBound, ValueIsHorner
<1>12. CASE g4 = Radix
  <2> DEFINE z == Horner(Low(g0), Low(g1), Low(g2), Low(g3), 0)
  <2>1. Value(Reduced(y)) = z
    BY <1>1, <1>12, ValueOfLimbs
  <2>2. Value(y) = z + 1 * Modulus
    BY <1>6, <1>10, <1>12, FullTop
  <2>3. z \in Int /\ z >= 0
    <3>1. 0 \in 0 .. Radix - 1
      BY RadixFacts
    <3>2. z \in 0 .. Modulus + 4
      BY <1>5, <3>1, HornerBound
    <3> QED
      BY <3>2, RadixIsInteger
  <2> HIDE DEF z
  <2>4. Modulus >= 5
    <3>1. ASSUME NEW x \in Nat, NEW w \in Nat, x >= 64, w >= 64 PROVE x * w \in Nat /\ x * w >= 64
      <4>1. x * w >= x * 1
        BY <3>1
      <4> QED
        BY <3>1, <4>1
    <3>2. Radix * Radix \in Nat /\ Radix * Radix >= 64
      BY <3>1, RadixFacts
    <3>3. Radix * Radix * Radix \in Nat /\ Radix * Radix * Radix >= 64
      BY <3>1, <3>2, RadixFacts
    <3>4. Radix * Radix * Radix * Radix \in Nat /\ Radix * Radix * Radix * Radix >= 64
      BY <3>1, <3>3, RadixFacts
    <3>5. Radix * Radix * Radix * Radix * Radix \in Nat /\ Radix * Radix * Radix * Radix * Radix >= 64
      BY <3>1, <3>4, RadixFacts
    <3> QED
      BY <3>5 DEF Modulus
  <2>5. z <= 4
    BY <1>11, <2>2, <2>3, RadixIsInteger
  <2>6. z \in 0 .. Modulus - 1
    BY <2>3, <2>4, <2>5, RadixIsInteger
  <2> QED
    BY <2>1, <2>2, <2>6 DEF Congruent
<1>13. CASE g4 < Radix
  <2>1. g4 \in 0 .. Radix - 1
    BY <1>1, <1>13, RadixFacts
  <2>2. Horner(Low(g0), Low(g1), Low(g2), Low(g3), g4) \in 0 .. Modulus + 4
    BY <1>5, <2>1, HornerBound
  <2>3. Value(y) \in 0 .. Modulus - 1
    BY <1>10, <1>11, <2>2, RadixIsInteger
  <2>4. Value(y) = Value(y) + 0 * Modulus
    BY <2>3, RadixIsInteger
  <2> QED
    BY <1>1, <1>13, <2>3, <2>4 DEF Congruent
<1> QED
  BY <1>1, <1>12, <1>13, RadixFacts

\* The number the tag is taken from is the one remainder of what h stands for.
LEMMA FinalValue ==
  ASSUME NEW x, LimbsOK(x)
  PROVE  /\ Value(Final(x)) \in 0 .. Modulus - 1
         /\ Value(x) \in Nat
         /\ Congruent(Value(x), Value(Final(x)))
<1> DEFINE y == Settled(Machine, x)
<1>1. y \in [Limb -> 0 .. Radix - 1] /\ y = Settled(Unbounded, x)
  BY SettledBounds
<1>2. Final(x) = Reduced(y)
  BY DEF Final
<1>3. Congruent(Value(x), Value(y))
  BY <1>1, SettledValue
<1> HIDE DEF y
<1>4. Congruent(Value(y), Value(Reduced(y))) /\ Value(Reduced(y)) \in 0 .. Modulus - 1
  BY <1>1, ReducedValue
<1>5. x \in [Limb -> Nat] /\ y \in [Limb -> Nat]
  BY <1>1, RadixFacts DEF LimbsOK
<1>6. Value(x) \in Nat /\ Value(y) \in Nat
  BY <1>5, ValueIsNatural
<1>7. Value(x) \in Int /\ Value(y) \in Int /\ Value(Reduced(y)) \in Int
  BY <1>4, <1>6, RadixIsInteger
<1>8. PICK k \in Int : Value(x) = Value(y) + k * Modulus
  BY <1>3 DEF Congruent
<1>9. PICK l \in Int : Value(y) = Value(Reduced(y)) + l * Modulus
  BY <1>4 DEF Congruent
<1>10. Congruent(Value(x), Value(Reduced(y)))
  BY <1>7, <1>8, <1>9, CongruentTwice
<1> QED
  BY <1>2, <1>4, <1>6, <1>10

\* poly1305_finish takes the tag from the remainder itself: below the prime, and
\* off from h by a multiple of it.
FullyReduced ==
  pc = "keyed" => /\ Value(Final(h)) \in 0 .. Modulus - 1
                  /\ Congruent(Value(h), Value(Final(h)))

THEOREM PolyFullyReduced == Spec => []FullyReduced
<1>1. TypeOK => FullyReduced
  BY FinalValue DEF TypeOK, LimbsOK, FullyReduced
<1> QED
  BY <1>1, PolyTypeOK, PTL

-----------------------------------------------------------------------------
(***************************************************************************)
(* Arithmetic modulo the prime.                                            *)
(***************************************************************************)

\* The powers of the radix, under the names Poly1305 gives them.
LEMMA Powers ==
  /\ Authenticator!Fourth \in Nat /\ Authenticator!Fourth > 0
  /\ Authenticator!Fourth * Radix = Modulus + 5
  /\ Modulus \in Nat /\ Modulus > 5
  /\ Authenticator!Prime = Modulus
  /\ Authenticator!TagSpace = TagSpace
<1>1. ASSUME NEW x \in Nat, x >= 64 PROVE x * Radix \in Nat /\ x * Radix >= 64
  <2>1. x * Radix \in Nat /\ x * Radix >= x * 1
    BY <1>1, RadixFacts
  <2> QED
    BY <1>1, <2>1
<1>2. Radix * Radix \in Nat /\ Radix * Radix >= 64
  BY <1>1, RadixFacts
<1>3. Radix * Radix * Radix \in Nat /\ Radix * Radix * Radix >= 64
  BY <1>1, <1>2
<1>4. Radix * Radix * Radix * Radix \in Nat /\ Radix * Radix * Radix * Radix >= 64
  BY <1>1, <1>3
<1> DEFINE F == Radix * Radix * Radix * Radix
           P == F * Radix
<1>5. F \in Nat /\ F >= 64
  BY <1>4
<1>6. P \in Nat /\ P >= 64
  <2> HIDE DEF F
  <2> QED
    BY <1>1, <1>5
<1>7. /\ Authenticator!Fourth = F /\ Authenticator!Prime = P - 5 /\ Modulus = P - 5
      /\ Authenticator!TagSpace = P \div 4 /\ TagSpace = P \div 4
      /\ Authenticator!Fourth * Radix = P
  BY DEF Authenticator!Fourth, Authenticator!Prime, Authenticator!TagSpace, Modulus, TagSpace
<1> HIDE DEF F, P
<1> QED
  BY <1>5, <1>6, <1>7

LEMMA CongruentInts ==
  ASSUME NEW x \in Int, NEW y \in Int, NEW z \in Int, Congruent(x, y)
  PROVE  /\ Congruent(y, x)
         /\ Congruent(x + z, y + z)
         /\ Congruent(x * z, y * z)
         /\ Congruent(z * x, z * y)
         /\ Congruent(y, z) => Congruent(x, z)
<1>1. PICK k \in Int : x = y + k * Modulus
  BY DEF Congruent
<1>2. y = x + (-k) * Modulus
  <2>1. \A M \in Int : y = (y + k * M) + (-k) * M
    BY Z3
  <2> QED
    BY <1>1, <2>1, RadixIsInteger
<1>3. x + z = (y + z) + k * Modulus
  <2>1. k * Modulus \in Int
    BY RadixIsInteger
  <2> DEFINE m == k * Modulus
  <2>2. m \in Int /\ x = y + m
    BY <1>1, <2>1
  <2> HIDE DEF m
  <2>3. x + z = (y + z) + m
    BY <2>2
  <2> QED
    BY <2>3 DEF m
<1>4. x * z = (y * z) + (k * z) * Modulus /\ z * x = (z * y) + (k * z) * Modulus
  <2>1. \A M \in Int : /\ (y + k * M) * z = (y * z) + (k * z) * M
                       /\ z * (y + k * M) = (z * y) + (k * z) * M
    BY Z3
  <2> QED
    BY <1>1, <2>1, RadixIsInteger
<1>5. Congruent(y, z) => Congruent(x, z)
  <2> SUFFICES ASSUME Congruent(y, z) PROVE Congruent(x, z)
    OBVIOUS
  <2>1. PICK l \in Int : y = z + l * Modulus
    BY DEF Congruent
  <2> QED
    BY <1>1, <2>1, CongruentTwice
<1>6. -k \in Int /\ k * z \in Int
  OBVIOUS
<1> QED
  BY <1>1, <1>2, <1>3, <1>4, <1>5, <1>6 DEF Congruent

\* The remainder, and that there is only one.
LEMMA RemainderCongruent ==
  ASSUME NEW x \in Nat
  PROVE  x % Modulus \in 0 .. Modulus - 1 /\ Congruent(x, x % Modulus)
<1>1. /\ x % Modulus \in 0 .. Modulus - 1 /\ x \div Modulus \in Nat
      /\ x = Modulus * (x \div Modulus) + (x % Modulus)
  BY Powers, Division
<1> DEFINE q == x \div Modulus
           l == x % Modulus
<1>2. l \in Int /\ q \in Int /\ x = Modulus * q + l
  BY <1>1, Powers
<1> HIDE DEF q, l
<1>3. \A M \in Int : M * q + l = l + q * M
  BY <1>2, Z3
<1>4. x = l + q * Modulus
  BY <1>2, <1>3, RadixIsInteger
<1>5. Congruent(x, l)
  BY <1>2, <1>4 DEF Congruent
<1> QED
  BY <1>1, <1>5 DEF l

LEMMA OneRemainder ==
  ASSUME NEW x \in 0 .. Modulus - 1, NEW y \in 0 .. Modulus - 1, Congruent(x, y)
  PROVE  x = y
<1>1. PICK k \in Int : x = y + k * Modulus
  BY DEF Congruent
<1>2. ASSUME NEW M \in Nat, M > 5, NEW p \in 0 .. M - 1, NEW q \in 0 .. M - 1, NEW l \in Int,
             p = q + l * M
      PROVE  p = q
  <2>1. l >= 1 => l * M >= 1 * M
    BY <1>2, Z3
  <2>2. l <= -1 => l * M <= (-1) * M
    BY <1>2, Z3
  <2>3. l = 0 => l * M = 0
    BY Z3
  <2> DEFINE m == l * M
  <2>4. m \in Int /\ p = q + m /\ (l >= 1 => m >= M) /\ (l <= -1 => m <= -M) /\ (l = 0 => m = 0)
    BY <1>2, <2>1, <2>2, <2>3
  <2> HIDE DEF m
  <2> QED
    BY <1>2, <2>4
<1> QED
  BY <1>1, <1>2, Powers

-----------------------------------------------------------------------------
(***************************************************************************)
(* The product of Poly1305, digit by digit, is the product.                *)
(***************************************************************************)

LEMMA ShiftInValue ==
  ASSUME NEW x \in Nat, NEW c \in Nat
  PROVE  /\ Authenticator!ShiftIn(x, c) \in 0 .. Modulus - 1
         /\ Congruent(Radix * x + c, Authenticator!ShiftIn(x, c))
<1> DEFINE F == Authenticator!Fourth
           q == x \div F
           l == x % F
           t == 5 * q + Radix * l + c
<1>1. F \in Nat /\ F > 0 /\ F * Radix = Modulus + 5
  BY Powers
<1> HIDE DEF F
<1>2. q \in Nat /\ l \in Nat /\ x = F * q + l
  <2>1. x % F \in 0 .. F - 1 /\ x \div F \in Nat /\ x = F * (x \div F) + (x % F)
    BY <1>1, Division
  <2> QED
    BY <2>1, <1>1
<1>3. Authenticator!ShiftIn(x, c) = t % Modulus
  BY Powers DEF Authenticator!ShiftIn, F
<1> HIDE DEF q, l
<1>4. t \in Nat
  BY <1>2, RadixFacts
<1>5. Radix * x + c = t + q * Modulus
  <2>1. \A R, G, u, v, w \in Int : R * (G * u + v) + w = (5 * u + R * v + w) + u * (G * R - 5)
    BY Z3
  <2>2. F * Radix - 5 = Modulus
    BY <1>1, RadixIsInteger
  <2>3. F \in Int /\ Radix \in Int /\ q \in Int /\ l \in Int /\ c \in Int
    BY <1>1, <1>2, RadixIsInteger
  <2>4. Radix * (F * q + l) + c = (5 * q + Radix * l + c) + q * (F * Radix - 5)
    BY <2>1, <2>3
  <2> QED
    BY <1>2, <2>2, <2>4
<1>6. Congruent(Radix * x + c, t)
  BY <1>2, <1>5 DEF Congruent
<1> HIDE DEF t
<1>7. t % Modulus \in 0 .. Modulus - 1 /\ Congruent(t, t % Modulus)
  BY <1>4, RemainderCongruent
<1>8. Radix * x + c \in Int /\ t \in Int /\ t % Modulus \in Int
  BY <1>4, <1>7, RadixIsInteger
<1> QED
  BY <1>3, <1>6, <1>7, <1>8, CongruentInts

\* One digit more of a number that x stands for.
LEMMA ShiftInCarries ==
  ASSUME NEW x \in 0 .. Modulus - 1, NEW y \in Nat, NEW c \in Nat, Congruent(y, x)
  PROVE  /\ Authenticator!ShiftIn(x, c) \in 0 .. Modulus - 1
         /\ Radix * y + c \in Nat
         /\ Congruent(Radix * y + c, Authenticator!ShiftIn(x, c))
<1>1. x \in Nat /\ x \in Int /\ y \in Int /\ c \in Int /\ Radix \in Int
  BY Powers, RadixFacts
<1>2. /\ Authenticator!ShiftIn(x, c) \in 0 .. Modulus - 1
      /\ Congruent(Radix * x + c, Authenticator!ShiftIn(x, c))
  BY <1>1, ShiftInValue
<1>3. Radix * y \in Int /\ Radix * x \in Int /\ Radix * y \in Nat
  BY <1>1, RadixFacts
<1>4. Congruent(Radix * y, Radix * x)
  BY <1>1, CongruentInts
<1>5. Congruent(Radix * y + c, Radix * x + c)
  BY <1>1, <1>3, <1>4, CongruentInts
<1>6. Radix * y + c \in Int /\ Radix * x + c \in Int /\ Authenticator!ShiftIn(x, c) \in Int
  BY <1>1, <1>2, <1>3, Powers
<1>7. Radix * y + c \in Nat
  BY <1>3
<1> QED
  BY <1>2, <1>5, <1>6, <1>7, CongruentInts

\* The digits of a number make it up.
LEMMA DigitsMakeUp ==
  ASSUME NEW v \in Nat
  PROVE  \E a1, a2, a3, a4, a5 \in Nat :
           /\ Authenticator!Digits(v) = <<a1, a2, a3, a4, a5>>
           /\ v = Horner(a1, a2, a3, a4, a5)
<1> DEFINE v1 == v \div Radix
           v2 == v1 \div Radix
           v3 == v2 \div Radix
           v4 == v3 \div Radix
<1>1. ASSUME NEW x \in Nat
      PROVE  x \div Radix \in Nat /\ x % Radix \in Nat /\ x = (x % Radix) + Radix * (x \div Radix)
  <2>1. /\ x % Radix \in 0 .. Radix - 1 /\ x \div Radix \in Nat
        /\ x = Radix * (x \div Radix) + (x % Radix)
    BY RadixFacts, Division
  <2>2. x % Radix \in Nat /\ Radix * (x \div Radix) \in Int
    BY <2>1, RadixFacts
  <2> DEFINE l == x % Radix
             m == Radix * (x \div Radix)
  <2>3. l \in Int /\ m \in Int /\ x = m + l
    BY <2>1, <2>2
  <2> HIDE DEF l, m
  <2>4. x = l + m
    BY <2>3
  <2> QED
    BY <2>1, <2>2, <2>4 DEF l, m
<1>2. v1 \in Nat /\ v % Radix \in Nat /\ v = (v % Radix) + Radix * v1
  BY <1>1
<1> HIDE DEF v1
<1>3. v2 \in Nat /\ v1 % Radix \in Nat /\ v1 = (v1 % Radix) + Radix * v2
  BY <1>1, <1>2
<1> HIDE DEF v2
<1>4. v3 \in Nat /\ v2 % Radix \in Nat /\ v2 = (v2 % Radix) + Radix * v3
  BY <1>1, <1>3
<1> HIDE DEF v3
<1>5. v4 \in Nat /\ v3 % Radix \in Nat /\ v3 = (v3 % Radix) + Radix * v4
  BY <1>1, <1>4
<1> HIDE DEF v4
<1>6. Authenticator!Digits(v) = <<v % Radix, v1 % Radix, v2 % Radix, v3 % Radix, v4>>
  BY Zenon DEF Authenticator!Digits, v1, v2, v3, v4
<1>7. v = Horner(v % Radix, v1 % Radix, v2 % Radix, v3 % Radix, v4)
  BY <1>2, <1>3, <1>4, <1>5, Zenon DEF Horner
<1> QED
  BY <1>2, <1>3, <1>4, <1>5, <1>6, <1>7, Zenon

\* The products of two numbers of five digits, by the power of the radix they stand at.
Columns(a1, a2, a3, a4, a5, b1, b2, b3, b4, b5) ==
  LET c(k) == Authenticator!Column(<<a1, a2, a3, a4, a5>>, <<b1, b2, b3, b4, b5>>, k)
  IN /\ c(1) = a1 * b1
     /\ c(2) = a1 * b2 + a2 * b1
     /\ c(3) = a1 * b3 + a2 * b2 + a3 * b1
     /\ c(4) = a1 * b4 + a2 * b3 + a3 * b2 + a4 * b1
     /\ c(5) = a1 * b5 + a2 * b4 + a3 * b3 + a4 * b2 + a5 * b1
     /\ c(6) = a2 * b5 + a3 * b4 + a4 * b3 + a5 * b2
     /\ c(7) = a3 * b5 + a4 * b4 + a5 * b3
     /\ c(8) = a4 * b5 + a5 * b4
     /\ c(9) = a5 * b5

LEMMA ColumnsOfDigits ==
  ASSUME NEW a1 \in Nat, NEW a2 \in Nat, NEW a3 \in Nat, NEW a4 \in Nat, NEW a5 \in Nat,
         NEW b1 \in Nat, NEW b2 \in Nat, NEW b3 \in Nat, NEW b4 \in Nat, NEW b5 \in Nat
  PROVE  /\ Columns(a1, a2, a3, a4, a5, b1, b2, b3, b4, b5)
         /\ \A k \in 1 .. 9 :
              Authenticator!Column(<<a1, a2, a3, a4, a5>>, <<b1, b2, b3, b4, b5>>, k) \in Nat
<1> DEFINE a == <<a1, a2, a3, a4, a5>>
           b == <<b1, b2, b3, b4, b5>>
           P(k, i) == IF k + 1 - i \in 1 .. 5 THEN a[i] * b[k + 1 - i] ELSE 0
<1>1. /\ a[1] = a1 /\ a[2] = a2 /\ a[3] = a3 /\ a[4] = a4 /\ a[5] = a5
      /\ b[1] = b1 /\ b[2] = b2 /\ b[3] = b3 /\ b[4] = b4 /\ b[5] = b5
  OBVIOUS
<1>2. \A k : Authenticator!Column(a, b, k) = P(k, 1) + P(k, 2) + P(k, 3) + P(k, 4) + P(k, 5)
  BY Zenon DEF Authenticator!Column
<1> HIDE DEF a, b
<1>3. ASSUME NEW k \in 1 .. 9, NEW i \in 1 .. 5
      PROVE  /\ k + 1 - i \in 1 .. 5 => P(k, i) = a[i] * b[k + 1 - i]
             /\ k + 1 - i \notin 1 .. 5 => P(k, i) = 0
  BY Zenon
<1> HIDE DEF P
<1>4. ASSUME NEW x \in Nat, NEW y \in Nat PROVE x * y \in Nat
  BY <1>4
<1>5. /\ P(1, 1) = a1 * b1 /\ P(1, 2) = 0 /\ P(1, 3) = 0 /\ P(1, 4) = 0 /\ P(1, 5) = 0
      /\ P(2, 1) = a1 * b2 /\ P(2, 2) = a2 * b1 /\ P(2, 3) = 0 /\ P(2, 4) = 0 /\ P(2, 5) = 0
  BY <1>1, <1>3
<1>6. /\ P(3, 1) = a1 * b3 /\ P(3, 2) = a2 * b2 /\ P(3, 3) = a3 * b1
      /\ P(3, 4) = 0 /\ P(3, 5) = 0
      /\ P(4, 1) = a1 * b4 /\ P(4, 2) = a2 * b3 /\ P(4, 3) = a3 * b2
      /\ P(4, 4) = a4 * b1 /\ P(4, 5) = 0
  BY <1>1, <1>3
<1>7. /\ P(5, 1) = a1 * b5 /\ P(5, 2) = a2 * b4 /\ P(5, 3) = a3 * b3
      /\ P(5, 4) = a4 * b2 /\ P(5, 5) = a5 * b1
      /\ P(6, 1) = 0 /\ P(6, 2) = a2 * b5 /\ P(6, 3) = a3 * b4
      /\ P(6, 4) = a4 * b3 /\ P(6, 5) = a5 * b2
  BY <1>1, <1>3
<1>8. /\ P(7, 1) = 0 /\ P(7, 2) = 0 /\ P(7, 3) = a3 * b5 /\ P(7, 4) = a4 * b4 /\ P(7, 5) = a5 * b3
      /\ P(8, 1) = 0 /\ P(8, 2) = 0 /\ P(8, 3) = 0 /\ P(8, 4) = a4 * b5 /\ P(8, 5) = a5 * b4
      /\ P(9, 1) = 0 /\ P(9, 2) = 0 /\ P(9, 3) = 0 /\ P(9, 4) = 0 /\ P(9, 5) = a5 * b5
  BY <1>1, <1>3
<1>9. ASSUME NEW k \in 1 .. 9, NEW i \in 1 .. 5 PROVE P(k, i) \in Nat
  <2>1. a[i] \in Nat
    BY <1>1
  <2>2. ASSUME NEW j \in 1 .. 5 PROVE b[j] \in Nat
    BY <1>1
  <2> QED
    BY <2>1, <2>2, <1>3, <1>4
<1>10. \A k \in 1 .. 9 : Authenticator!Column(a, b, k) \in Nat
  <2> SUFFICES ASSUME NEW k \in 1 .. 9 PROVE Authenticator!Column(a, b, k) \in Nat
    OBVIOUS
  <2>1. /\ P(k, 1) \in Nat /\ P(k, 2) \in Nat /\ P(k, 3) \in Nat /\ P(k, 4) \in Nat
        /\ P(k, 5) \in Nat
    BY <1>9
  <2> QED
    BY <1>2, <2>1
<1>11. Columns(a1, a2, a3, a4, a5, b1, b2, b3, b4, b5)
  <2> DEFINE c(k) == Authenticator!Column(a, b, k)
  <2>1. \A k \in 1 .. 9 : c(k) = P(k, 1) + P(k, 2) + P(k, 3) + P(k, 4) + P(k, 5)
    BY <1>2
  <2> HIDE DEF c
  <2>2. c(1) = a1 * b1 /\ c(2) = a1 * b2 + a2 * b1
    BY <2>1, <1>5, <1>4
  <2>3. /\ c(3) = a1 * b3 + a2 * b2 + a3 * b1
        /\ c(4) = a1 * b4 + a2 * b3 + a3 * b2 + a4 * b1
    BY <2>1, <1>6, <1>4
  <2>4. /\ c(5) = a1 * b5 + a2 * b4 + a3 * b3 + a4 * b2 + a5 * b1
        /\ c(6) = a2 * b5 + a3 * b4 + a4 * b3 + a5 * b2
    BY <2>1, <1>7, <1>4
  <2>5. c(7) = a3 * b5 + a4 * b4 + a5 * b3 /\ c(8) = a4 * b5 + a5 * b4 /\ c(9) = a5 * b5
    BY <2>1, <1>8, <1>4
  <2> QED
    BY <2>2, <2>3, <2>4, <2>5, Zenon DEF Columns, c, a, b
<1> QED
  BY <1>10, <1>11 DEF a, b

\* Nine digits, taken in from the top.
Long(c1, c2, c3, c4, c5, c6, c7, c8, c9) ==
  Radix * (Radix * (Radix * (Radix * (Radix * (Radix * (Radix * (Radix * (Radix * 0
    + c9) + c8) + c7) + c6) + c5) + c4) + c3) + c2) + c1

Schoolbook(a1, a2, a3, a4, a5, b1, b2, b3, b4, b5) ==
  Horner(a1, a2, a3, a4, a5) * Horner(b1, b2, b3, b4, b5)
    = Long(a1 * b1,
           a1 * b2 + a2 * b1,
           a1 * b3 + a2 * b2 + a3 * b1,
           a1 * b4 + a2 * b3 + a3 * b2 + a4 * b1,
           a1 * b5 + a2 * b4 + a3 * b3 + a4 * b2 + a5 * b1,
           a2 * b5 + a3 * b4 + a4 * b3 + a5 * b2,
           a3 * b5 + a4 * b4 + a5 * b3,
           a4 * b5 + a5 * b4,
           a5 * b5)

LEMMA ColumnsMultiply ==
  ASSUME NEW a1 \in Int, NEW a2 \in Int, NEW a3 \in Int, NEW a4 \in Int, NEW a5 \in Int,
         NEW b1 \in Int, NEW b2 \in Int, NEW b3 \in Int, NEW b4 \in Int, NEW b5 \in Int
  PROVE  Schoolbook(a1, a2, a3, a4, a5, b1, b2, b3, b4, b5)
<1>1. \A R \in Int :
        (a1 + R * (a2 + R * (a3 + R * (a4 + R * a5))))
          * (b1 + R * (b2 + R * (b3 + R * (b4 + R * b5))))
        = R * (R * (R * (R * (R * (R * (R * (R * (R * 0
            + (a5 * b5)) + (a4 * b5 + a5 * b4)) + (a3 * b5 + a4 * b4 + a5 * b3))
            + (a2 * b5 + a3 * b4 + a4 * b3 + a5 * b2))
            + (a1 * b5 + a2 * b4 + a3 * b3 + a4 * b2 + a5 * b1))
            + (a1 * b4 + a2 * b3 + a3 * b2 + a4 * b1))
            + (a1 * b3 + a2 * b2 + a3 * b1)) + (a1 * b2 + a2 * b1)) + a1 * b1
  BY Z3
<1> QED
  BY <1>1, RadixIsInteger, Zenon DEF Schoolbook, Horner, Long

LEMMA LongModulo ==
  ASSUME NEW c1 \in Nat, NEW c2 \in Nat, NEW c3 \in Nat, NEW c4 \in Nat, NEW c5 \in Nat,
         NEW c6 \in Nat, NEW c7 \in Nat, NEW c8 \in Nat, NEW c9 \in Nat
  PROVE  LET S(x, c) == Authenticator!ShiftIn(x, c)
             s == S(S(S(S(S(S(S(S(S(0, c9), c8), c7), c6), c5), c4), c3), c2), c1)
         IN /\ s \in 0 .. Modulus - 1
            /\ Congruent(Long(c1, c2, c3, c4, c5, c6, c7, c8, c9), s)
<1> DEFINE Stands(y, x) == x \in 0 .. Modulus - 1 /\ y \in Nat /\ Congruent(y, x)
           S(x, c) == Authenticator!ShiftIn(x, c)
           s9 == S(0, c9)
           s8 == S(s9, c8)
           s7 == S(s8, c7)
           s6 == S(s7, c6)
           s5 == S(s6, c5)
           s4 == S(s5, c4)
           s3 == S(s4, c3)
           s2 == S(s3, c2)
           s1 == S(s2, c1)
           y9 == Radix * 0 + c9
           y8 == Radix * y9 + c8
           y7 == Radix * y8 + c7
           y6 == Radix * y7 + c6
           y5 == Radix * y6 + c5
           y4 == Radix * y5 + c4
           y3 == Radix * y4 + c3
           y2 == Radix * y3 + c2
           y1 == Radix * y2 + c1
<1>1. ASSUME NEW x, NEW y, NEW c \in Nat, Stands(y, x)
      PROVE  Stands(Radix * y + c, S(x, c))
  BY <1>1, ShiftInCarries
<1>2. Stands(0, 0)
  <2>1. 0 = 0 + 0 * Modulus
    BY RadixIsInteger
  <2> QED
    BY <2>1, Powers DEF Congruent
<1>3. y1 = Long(c1, c2, c3, c4, c5, c6, c7, c8, c9)
  BY Zenon DEF Long
<1> HIDE DEF Stands, S
<1>4. Stands(y9, s9)
  BY <1>1, <1>2
<1> HIDE DEF y9, s9
<1>5. Stands(y8, s8)
  BY <1>1, <1>4
<1> HIDE DEF y8, s8
<1>6. Stands(y7, s7)
  BY <1>1, <1>5
<1> HIDE DEF y7, s7
<1>7. Stands(y6, s6)
  BY <1>1, <1>6
<1> HIDE DEF y6, s6
<1>8. Stands(y5, s5)
  BY <1>1, <1>7
<1> HIDE DEF y5, s5
<1>9. Stands(y4, s4)
  BY <1>1, <1>8
<1> HIDE DEF y4, s4
<1>10. Stands(y3, s3)
  BY <1>1, <1>9
<1> HIDE DEF y3, s3
<1>11. Stands(y2, s2)
  BY <1>1, <1>10
<1> HIDE DEF y2, s2
<1>12. Stands(y1, s1)
  BY <1>1, <1>11
<1>13. s1 \in 0 .. Modulus - 1 /\ Congruent(Long(c1, c2, c3, c4, c5, c6, c7, c8, c9), s1)
  <2> HIDE DEF y1, s1
  <2> QED
    BY <1>3, <1>12 DEF Stands
<1> QED
  BY <1>13, Zenon DEF S, s1, s2, s3, s4, s5, s6, s7, s8, s9

\* ModProduct is the product modulo the prime, for every two numbers.
LEMMA ModProductValue ==
  ASSUME NEW x \in Nat, NEW y \in Nat
  PROVE  /\ Authenticator!ModProduct(x, y) \in 0 .. Modulus - 1
         /\ Congruent(x * y, Authenticator!ModProduct(x, y))
<1>1. PICK a1, a2, a3, a4, a5 \in Nat :
        /\ Authenticator!Digits(x) = <<a1, a2, a3, a4, a5>>
        /\ x = Horner(a1, a2, a3, a4, a5)
  BY DigitsMakeUp
<1>2. PICK b1, b2, b3, b4, b5 \in Nat :
        /\ Authenticator!Digits(y) = <<b1, b2, b3, b4, b5>>
        /\ y = Horner(b1, b2, b3, b4, b5)
  BY DigitsMakeUp
<1> DEFINE C(k) == Authenticator!Column(<<a1, a2, a3, a4, a5>>, <<b1, b2, b3, b4, b5>>, k)
           S(u, c) == Authenticator!ShiftIn(u, c)
           s == S(S(S(S(S(S(S(S(S(0, C(9)), C(8)), C(7)), C(6)), C(5)), C(4)), C(3)), C(2)), C(1))
<1>3. Authenticator!ModProduct(x, y) = s
  BY <1>1, <1>2, Zenon DEF Authenticator!ModProduct
<1>4. Columns(a1, a2, a3, a4, a5, b1, b2, b3, b4, b5) /\ \A k \in 1 .. 9 : C(k) \in Nat
  BY ColumnsOfDigits
<1>5. /\ C(1) \in Nat /\ C(2) \in Nat /\ C(3) \in Nat /\ C(4) \in Nat /\ C(5) \in Nat
      /\ C(6) \in Nat /\ C(7) \in Nat /\ C(8) \in Nat /\ C(9) \in Nat
  <2> HIDE DEF C
  <2> QED
    BY <1>4
<1>6. x * y = Long(C(1), C(2), C(3), C(4), C(5), C(6), C(7), C(8), C(9))
  <2>1. /\ a1 \in Int /\ a2 \in Int /\ a3 \in Int /\ a4 \in Int /\ a5 \in Int
        /\ b1 \in Int /\ b2 \in Int /\ b3 \in Int /\ b4 \in Int /\ b5 \in Int
    OBVIOUS
  <2>2. Schoolbook(a1, a2, a3, a4, a5, b1, b2, b3, b4, b5)
    BY <2>1, ColumnsMultiply
  <2> QED
    BY <1>1, <1>2, <1>4, <2>2, Zenon DEF Columns, Schoolbook
<1>7. s \in 0 .. Modulus - 1
      /\ Congruent(Long(C(1), C(2), C(3), C(4), C(5), C(6), C(7), C(8), C(9)), s)
  <2> DEFINE T(c1, c2, c3, c4, c5, c6, c7, c8, c9) ==
               S(S(S(S(S(S(S(S(S(0, c9), c8), c7), c6), c5), c4), c3), c2), c1)
  <2>1. \A c1, c2, c3, c4, c5, c6, c7, c8, c9 \in Nat :
          /\ T(c1, c2, c3, c4, c5, c6, c7, c8, c9) \in 0 .. Modulus - 1
          /\ Congruent(Long(c1, c2, c3, c4, c5, c6, c7, c8, c9),
                       T(c1, c2, c3, c4, c5, c6, c7, c8, c9))
    BY LongModulo, Zenon
  <2>2. s = T(C(1), C(2), C(3), C(4), C(5), C(6), C(7), C(8), C(9))
    OBVIOUS
  <2> HIDE DEF C, T, s
  <2> QED
    BY <1>5, <2>1, <2>2, Zenon
<1> HIDE DEF s, C
<1> QED
  BY <1>3, <1>6, <1>7

-----------------------------------------------------------------------------
(***************************************************************************)
(* Every step of the code is a step of Poly1305, or none.                  *)
(***************************************************************************)

\* Four digits and a top below n.
LEMMA TopBound ==
  ASSUME NEW a \in 0 .. Radix - 1, NEW b \in 0 .. Radix - 1, NEW c \in 0 .. Radix - 1,
         NEW d \in 0 .. Radix - 1, NEW n \in Nat, NEW e \in 0 .. n - 1
  PROVE  Horner(a, b, c, d, e) \in 0 .. (n * Authenticator!Fourth) - 1
<1>1. ASSUME NEW x \in 0 .. Radix - 1, NEW k \in Nat, NEW y \in 0 .. k - 1
      PROVE  x + Radix * y \in 0 .. (k * Radix) - 1 /\ k * Radix \in Nat
  <2>1. Radix * y <= Radix * (k - 1) /\ Radix * y >= 0
    BY RadixFacts
  <2>2. Radix * (k - 1) = (k * Radix) - Radix /\ k * Radix \in Nat
    BY RadixFacts
  <2> QED
    BY <2>1, <2>2, RadixFacts
<1> DEFINE n1 == n * Radix
           n2 == n1 * Radix
           n3 == n2 * Radix
           n4 == n3 * Radix
           e1 == d + Radix * e
           e2 == c + Radix * e1
           e3 == b + Radix * e2
           e4 == a + Radix * e3
<1>2. n1 \in Nat /\ e1 \in 0 .. n1 - 1
  BY <1>1
<1>3. n2 \in Nat /\ e2 \in 0 .. n2 - 1
  <2> HIDE DEF n1, e1
  <2> QED
    BY <1>1, <1>2
<1>4. n3 \in Nat /\ e3 \in 0 .. n3 - 1
  <2> HIDE DEF n2, e2
  <2> QED
    BY <1>1, <1>3
<1>5. e4 \in 0 .. n4 - 1
  <2> HIDE DEF n3, e3
  <2> QED
    BY <1>1, <1>4
<1>6. n4 = n * Authenticator!Fourth
  <2>1. \A k, R \in Int : k * R * R * R * R = k * (R * R * R * R)
    BY Z3
  <2> QED
    BY <2>1, RadixIsInteger DEF Authenticator!Fourth
<1>7. e4 = Horner(a, b, c, d, e)
  BY DEF Horner
<1> HIDE DEF e4, n4
<1> QED
  BY <1>5, <1>6, <1>7

LEMMA TagSpaceIs ==
  /\ (Radix \div 4) * Authenticator!Fourth = TagSpace
  /\ (2 * (Radix \div 4)) * Authenticator!Fourth = 2 * TagSpace
<1> DEFINE w == Radix \div 4
           F == Authenticator!Fourth
           z == w * F
<1>1. w \in Nat /\ Radix = 4 * w
  BY RadixAssumption
<1>2. F \in Nat /\ F * Radix = Modulus + 5
  BY Powers
<1>3. TagSpace = (F * Radix) \div 4
  BY Powers DEF Authenticator!TagSpace
<1> HIDE DEF w, F
<1>4. F * Radix = 4 * z /\ z \in Nat /\ (2 * w) * F = 2 * z
  <2>1. \A u, v \in Int : u * (4 * v) = 4 * (v * u) /\ (2 * v) * u = 2 * (v * u)
    BY Z3
  <2>2. F * (4 * w) = 4 * (w * F) /\ (2 * w) * F = 2 * (w * F)
    BY <1>1, <1>2, <2>1
  <2>3. w * F \in Nat
    BY <1>1, <1>2
  <2> QED
    BY <1>1, <2>2, <2>3, Zenon
<1> HIDE DEF z
<1>5. TagSpace = z
  BY <1>3, <1>4
<1> QED
  BY <1>4, <1>5 DEF w, F, z

\* A half of a key and a block, with the bit above it, are the numbers Poly1305 takes.
LEMMA HalfValue ==
  ASSUME NEW m, HalfOK(m)
  PROVE  /\ Value(m) \in 0 .. TagSpace - 1
         /\ Value(Sum(Unbounded, Zero, m, NoBit)) \in 0 .. TagSpace - 1
         /\ Value(Sum(Unbounded, Zero, m, WholeBit)) \in 0 .. 2 * TagSpace - 1
<1>1. /\ m[0] \in 0 .. Radix - 1 /\ m[1] \in 0 .. Radix - 1 /\ m[2] \in 0 .. Radix - 1
      /\ m[3] \in 0 .. Radix - 1 /\ m[4] \in 0 .. (Radix \div 4) - 1
  BY RadixFacts DEF HalfOK, Limb
<1>2. Value(m) \in 0 .. TagSpace - 1
  <2>1. Horner(m[0], m[1], m[2], m[3], m[4]) \in 0 .. ((Radix \div 4) * Authenticator!Fourth) - 1
    BY <1>1, RadixFacts, TopBound
  <2> QED
    BY <2>1, TagSpaceIs, ValueIsHorner
<1>3. ASSUME NEW b \in {WholeBit, NoBit}
      PROVE  Value(Sum(Unbounded, Zero, m, b)) = Horner(m[0], m[1], m[2], m[3], m[4] + b)
  <2> DEFINE z == Sum(Unbounded, Zero, m, b)
  <2>1. \A i \in Limb : z[i] = Zero[i] + m[i] + (IF i = 4 THEN b ELSE 0)
    BY FitUnbounded, MachineWords DEF Sum
  <2>2. b \in Int /\ \A i \in Limb : m[i] \in Int /\ Zero[i] = 0
    BY RadixFacts, LimbsAt DEF WholeBit, NoBit, HalfOK, Zero, Limb
  <2> HIDE DEF z
  <2>3. z[0] = m[0] /\ z[1] = m[1] /\ z[2] = m[2] /\ z[3] = m[3] /\ z[4] = m[4] + b
    BY <2>1, <2>2 DEF Limb
  <2>4. Value(z) = Horner(m[0], m[1], m[2], m[3], m[4] + b)
    BY <2>3, ValueIsHorner
  <2> QED
    BY <2>4 DEF z
<1>4. Value(Sum(Unbounded, Zero, m, NoBit)) = Value(m)
  <2>1. m[4] + NoBit = m[4]
    BY <1>1, RadixFacts DEF NoBit
  <2>2. Value(Sum(Unbounded, Zero, m, NoBit)) = Horner(m[0], m[1], m[2], m[3], m[4])
    BY <1>3, <2>1
  <2> QED
    BY <2>2, ValueIsHorner
<1>5. Value(Sum(Unbounded, Zero, m, WholeBit)) \in 0 .. 2 * TagSpace - 1
  <2>1. 2 * (Radix \div 4) \in Nat /\ m[4] + WholeBit \in 0 .. (2 * (Radix \div 4)) - 1
    BY <1>1, RadixFacts DEF WholeBit
  <2>2. Horner(m[0], m[1], m[2], m[3], m[4] + WholeBit)
          \in 0 .. ((2 * (Radix \div 4)) * Authenticator!Fourth) - 1
    BY <1>1, <2>1, TopBound
  <2>3. Value(Sum(Unbounded, Zero, m, WholeBit)) \in 0 .. (2 * TagSpace) - 1
    BY <1>3, <2>2, TagSpaceIs
  <2> QED
    BY <2>3, TagSpaceFacts
<1> QED
  BY <1>2, <1>4, <1>5

\* Limbs below the radix are packed without overlap: the low bits of their value.
LEMMA PackedValue ==
  ASSUME NEW x \in [Limb -> 0 .. Radix - 1]
  PROVE  Packed(x) = Value(x) % TagSpace
<1>1. ASSUME NEW v \in 0 .. Radix - 1 PROVE Low(v) = v /\ Carry(v) = 0
  <2>1. \A R \in Nat, u \in Nat : u < R => u % R = u /\ u \div R = 0
    BY Z3
  <2> QED
    BY <2>1, RadixFacts DEF Low, Carry
<1>2. /\ x[0] \in 0 .. Radix - 1 /\ x[1] \in 0 .. Radix - 1 /\ x[2] \in 0 .. Radix - 1
      /\ x[3] \in 0 .. Radix - 1 /\ x[4] \in 0 .. Radix - 1
  BY DEF Limb
<1> DEFINE With(y, bit) == y + bit * (1 - (y % 2))
<1>3. ASSUME NEW v \in 0 .. Radix - 1, NEW u \in 0 .. Radix - 1
      PROVE  With(Low(v), Carry(u)) = v
  <2>1. Low(v) = v /\ Carry(u) = 0
    BY <1>1
  <2>2. v \in Int /\ v % 2 \in Int
    BY RadixFacts
  <2>3. 0 * (1 - (v % 2)) = 0
    BY <2>2
  <2> QED
    BY <2>1, <2>2, <2>3
<1>4. Packed(x) = Value(Limbs(Low(x[0]), With(Low(x[1]), Carry(x[0])),
                              With(Low(x[2]), Carry(x[1])), With(Low(x[3]), Carry(x[2])),
                              With(Low(x[4]), Carry(x[3])))) % TagSpace
  BY Zenon DEF Packed
<1> HIDE DEF With
<1>5. Packed(x) = Value(Limbs(x[0], x[1], x[2], x[3], x[4])) % TagSpace
  BY <1>1, <1>2, <1>3, <1>4
<1>6. Value(Limbs(x[0], x[1], x[2], x[3], x[4])) = Value(x)
  BY ValueOfLimbs, ValueIsHorner
<1> QED
  BY <1>5, <1>6

\* A block taken in by the limbs is the block taken in by Poly1305.
LEMMA AbsorbedIsTaken ==
  ASSUME NEW x, LimbsOK(x), MultiplierOK, NEW m, HalfOK(m), NEW b \in {WholeBit, NoBit}
  PROVE  Value(Final(Absorbed(Machine, x, m, b)))
           = Authenticator!ModProduct((Value(Final(x)) + Value(Sum(Unbounded, Zero, m, b)))
                                        % Authenticator!Prime, Value(r))
<1> DEFINE n == Value(Sum(Unbounded, Zero, m, b))
           y == Absorbed(Machine, x, m, b)
           A == Value(x)
           B == Value(Final(x))
           C == (B + n) % Modulus
           P == Authenticator!ModProduct(C, Value(r))
<1>1. n \in Nat /\ Value(r) \in Nat
  <2>1. n \in Nat
    BY HalfValue, TagSpaceFacts
  <2>2. r \in [Limb -> Nat]
    BY RadixFacts DEF MultiplierOK
  <2> QED
    BY <2>1, <2>2, ValueIsNatural
<1>2. A \in Nat /\ B \in 0 .. Modulus - 1 /\ Congruent(A, B)
  BY FinalValue
<1>3. LimbsOK(y)
  BY AbsorbedOK
<1>4. Congruent((A + n) * Value(r), Value(y))
  BY AbsorbedValue
<1> HIDE DEF y
<1>5. /\ Value(Final(y)) \in 0 .. Modulus - 1 /\ Value(y) \in Nat
      /\ Congruent(Value(y), Value(Final(y)))
  BY <1>3, FinalValue
<1> HIDE DEF n, A, B
<1>6. B \in Nat /\ B + n \in Nat /\ A + n \in Nat
  BY <1>1, <1>2, Powers
<1>7. C \in 0 .. Modulus - 1 /\ Congruent(B + n, C)
  BY <1>6, RemainderCongruent
<1> HIDE DEF C
<1>8. C \in Nat
  BY <1>7, Powers
<1>9. P \in 0 .. Modulus - 1 /\ Congruent(C * Value(r), P)
  BY <1>1, <1>8, ModProductValue
<1> HIDE DEF P
<1> DEFINE R == Value(r)
<1>10. /\ A \in Int /\ B \in Int /\ n \in Int /\ R \in Int /\ C \in Int /\ P \in Int
       /\ Value(y) \in Int /\ Value(Final(y)) \in Int /\ A + n \in Int /\ B + n \in Int
  BY <1>1, <1>2, <1>5, <1>6, <1>8, <1>9, Powers
<1>11. Congruent((A + n) * R, Value(y)) /\ Congruent(C * R, P)
  BY <1>4, <1>9
<1> HIDE DEF R
<1>12. (A + n) * R \in Int /\ C * R \in Int
  BY <1>10
<1>13. Congruent(A + n, C)
  <2>1. Congruent(A + n, B + n)
    BY <1>2, <1>10, CongruentInts
  <2> QED
    BY <2>1, <1>7, <1>10, CongruentInts
<1>14. Congruent((A + n) * R, C * R)
  BY <1>10, <1>13, CongruentInts
<1>15. Congruent((A + n) * R, P)
  BY <1>10, <1>11, <1>12, <1>14, CongruentInts
<1>16. Congruent(Value(Final(y)), (A + n) * R)
  <2>1. Congruent((A + n) * R, Value(Final(y)))
    BY <1>5, <1>10, <1>11, <1>12, CongruentInts
  <2> QED
    BY <2>1, <1>10, <1>12, CongruentInts
<1>17. Congruent(Value(Final(y)), P)
  BY <1>10, <1>12, <1>15, <1>16, CongruentInts
<1>18. Value(Final(y)) = P
  BY <1>5, <1>9, <1>17, OneRemainder
<1> QED
  BY <1>18, Powers DEF y, P, R, B, n, C

LEMMA ZeroValue == Value(Zero) = 0 /\ Value(Final(Zero)) = 0
<1>1. Value(Zero) = 0
  <2>1. Value(Zero) = Horner(0, 0, 0, 0, 0)
    BY ValueOfLimbs DEF Zero
  <2>2. \A R \in Int : 0 + R * (0 + R * (0 + R * (0 + R * 0))) = 0
    BY Z3
  <2> QED
    BY <2>1, <2>2, RadixIsInteger, Zenon DEF Horner
<1>2. Value(Final(Zero)) \in 0 .. Modulus - 1 /\ Congruent(0, Value(Final(Zero)))
  BY <1>1, ZeroOK, FinalValue
<1>3. 0 \in 0 .. Modulus - 1
  BY Powers
<1> QED
  BY <1>1, <1>2, <1>3, OneRemainder

\* No block before the key.
Unkeyed == pc = "new" => h = Zero

LEMMA UnkeyedStep == Unkeyed /\ [Next]_vars => Unkeyed'
  BY SMTT(30) DEF Unkeyed, Next, Key, Block, FinishWhole, FinishPartial, Close, vars

\* The tag, from any h.
LEMMA CloseIsFinish ==
  ASSUME NEW x, LimbsOK(x), Close(x), pad \in 0 .. TagSpace - 1
  PROVE  /\ pc = "keyed" /\ pc' = "done"
         /\ tag' = Authenticator!TagOf(Value(Final(x)))
         /\ Value(r)' = 0 /\ pad' = 0 /\ Value(Final(h))' = 0
<1>1. tag' = (Packed(Final(x)) + pad) % TagSpace
  BY DEF Close
<1>2. Packed(Final(x)) = Value(Final(x)) % TagSpace
  BY FinalBounds, PackedValue
<1>3. tag' = Authenticator!TagOf(Value(Final(x)))
  BY <1>1, <1>2, Powers, Zenon DEF Authenticator!TagOf
<1>4. pc = "keyed" /\ pc' = "done" /\ r' = Zero /\ h' = Zero /\ pad' = 0
  BY DEF Close
<1>5. Value(r') = 0 /\ Value(Final(h')) = 0
  BY <1>4, ZeroValue, Zenon
<1> QED
  BY <1>3, <1>4, <1>5, ZenonT(60) DEF Value, Final, Settled, Reduced, LessPrime

LEMMA NextImplements ==
  TypeOK /\ Unkeyed /\ [Next]_vars => [Authenticator!Next]_(Authenticator!vars)
<1> SUFFICES ASSUME TypeOK, Unkeyed, [Next]_vars
             PROVE  [Authenticator!Next]_(Authenticator!vars)
  OBVIOUS
<1>1. LimbsOK(h) /\ MultiplierOK /\ pad \in 0 .. TagSpace - 1
  BY DEF TypeOK, LimbsOK, MultiplierOK
<1>2. CASE Key
  <2>1. h = Zero /\ h' = Zero
    BY <1>2 DEF Key, Unkeyed
  <2>2. Value(r') \in 0 .. Authenticator!TagSpace - 1
    <3>1. HalfOK(r')
      BY <1>2, InputsOK DEF Key
    <3> QED
      BY <3>1, HalfValue, Powers
  <2>3. pad' \in 0 .. Authenticator!TagSpace - 1
    BY <1>2, InputsOK, Powers DEF Key
  <2>4. Value(Final(h')) = Value(Final(h))
    BY <2>1
  <2>5. pc = "new" /\ pc' = "keyed" /\ UNCHANGED <<given, tag>>
    BY <1>2 DEF Key
  <2>6. Authenticator!Key
    BY <2>2, <2>3, <2>4, <2>5 DEF Authenticator!Key
  <2> QED
    BY <2>6 DEF Authenticator!Next
<1>3. CASE Block
  <2>1. PICK m \in Chunks : /\ h' = Absorbed(Machine, h, m, WholeBit)
                            /\ given' = Value(Sum(Unbounded, Zero, m, WholeBit))
    BY <1>3 DEF Block
  <2>2. HalfOK(m)
    BY InputsOK
  <2>3. given' \in 0 .. 2 * Authenticator!TagSpace - 1
    BY <2>1, <2>2, HalfValue, Powers
  <2>4. Value(Final(h')) = Authenticator!ModProduct((Value(Final(h)) + given') % Authenticator!Prime,
                                                    Value(r))
    BY <1>1, <2>1, <2>2, AbsorbedIsTaken
  <2>5. Value(Final(h')) = Authenticator!Taken(given')
    BY <2>4, Zenon DEF Authenticator!Taken
  <2>6. pc = "keyed" /\ UNCHANGED <<pc, r, pad, tag>>
    BY <1>3 DEF Block
  <2>7. Authenticator!Block
    BY <2>3, <2>5, <2>6, Zenon DEF Authenticator!Block
  <2> QED
    BY <2>7 DEF Authenticator!Next
<1>4. CASE FinishWhole
  <2>1. Close(h) /\ UNCHANGED given
    BY <1>4 DEF FinishWhole
  <2>2. /\ pc = "keyed" /\ pc' = "done"
        /\ tag' = Authenticator!TagOf(Value(Final(h)))
        /\ Value(r)' = 0 /\ pad' = 0 /\ Value(Final(h))' = 0
    BY <1>1, <2>1, CloseIsFinish
  <2>3. Authenticator!Finish
    BY <2>1, <2>2, Zenon DEF Authenticator!Finish
  <2> QED
    BY <2>3 DEF Authenticator!Next
<1>5. CASE FinishPartial
  <2>1. PICK m \in LastChunks : /\ Close(Absorbed(Machine, h, m, NoBit))
                                /\ given' = Value(Sum(Unbounded, Zero, m, NoBit))
    BY <1>5 DEF FinishPartial
  <2>2. HalfOK(m)
    BY InputsOK
  <2> DEFINE y == Absorbed(Machine, h, m, NoBit)
  <2>3. LimbsOK(y) /\ Close(y)
    BY <1>1, <2>1, <2>2, AbsorbedOK
  <2>4. given' \in 0 .. Authenticator!TagSpace - 1
    BY <2>1, <2>2, HalfValue, Powers
  <2>5. Value(Final(y)) = Authenticator!Taken(given')
    <3>1. Value(Final(y)) = Authenticator!ModProduct((Value(Final(h)) + given') % Authenticator!Prime,
                                                     Value(r))
      BY <1>1, <2>1, <2>2, AbsorbedIsTaken
    <3> QED
      BY <3>1, Zenon DEF Authenticator!Taken
  <2> HIDE DEF y
  <2>6. /\ pc = "keyed" /\ pc' = "done"
        /\ tag' = Authenticator!TagOf(Value(Final(y)))
        /\ Value(r)' = 0 /\ pad' = 0 /\ Value(Final(h))' = 0
    BY <1>1, <2>3, CloseIsFinish
  <2>7. Authenticator!Finish
    BY <2>4, <2>5, <2>6, Zenon DEF Authenticator!Finish
  <2> QED
    BY <2>7 DEF Authenticator!Next
<1>6. CASE UNCHANGED vars
  <2>1. UNCHANGED <<pc, r, h, pad, given, tag>>
    BY <1>6 DEF vars
  <2>2. Value(r') = Value(r) /\ Value(Final(h')) = Value(Final(h))
    BY <2>1, Zenon
  <2> QED
    BY <2>1, <2>2 DEF Authenticator!vars
<1> QED
  BY <1>2, <1>3, <1>4, <1>5, <1>6 DEF Next

\* The portable code computes Poly1305: the accumulator after every block and the tag
\* of every message are those of the numbers the limbs stand for, whatever the width
\* of the limbs, the key and the length of the message.
THEOREM PolyImplementsPoly1305 == Spec => ImplementsPoly1305
<1>1. Init => Authenticator!Init
  <2> SUFFICES ASSUME Init PROVE Authenticator!Init
    OBVIOUS
  <2>1. Value(r) = 0 /\ Value(Final(h)) = 0
    BY ZeroValue, Zenon DEF Init
  <2> QED
    BY <2>1 DEF Init, Authenticator!Init
<1>2. Init => Unkeyed
  BY DEF Init, Unkeyed
<1> QED
  BY <1>1, <1>2, UnkeyedStep, NextImplements, PolyTypeOK, PTL
     DEF Spec, ImplementsPoly1305, Authenticator!Spec
=============================================================================
