------------------------------ MODULE Poly1305 ------------------------------
(***************************************************************************)
(* What a one-time authenticator promises, in numbers: the accumulator     *)
(* takes in one block after the other modulo the prime, and the tag is the *)
(* accumulator plus the pad, cut to the width of a tag.  The numbers of    *)
(* Poly1305 are Radix = 2^26, Prime = 2^130 - 5 and TagSpace = 2^128.      *)
(*                                                                         *)
(* Products modulo the prime are taken digit by digit from the top, which  *)
(* keeps every number below 2 * Prime and is not how the code does it.     *)
(***************************************************************************)
EXTENDS Integers

CONSTANT Radix

Fourth == Radix * Radix * Radix * Radix
Prime == (Fourth * Radix) - 5
TagSpace == (Fourth * Radix) \div 4

VARIABLES
  phase,   \* "new", "keyed" or "done"
  rval,    \* the multiplier
  sval,    \* the pad
  acc,     \* the accumulator
  given,   \* the block taken in last
  tag

vars == <<phase, rval, sval, acc, given, tag>>

\* The digits of a number, the lowest first; the fifth is all that is left.
Digits(v) ==
  LET v1 == v \div Radix
      v2 == v1 \div Radix
      v3 == v2 \div Radix
      v4 == v3 \div Radix
  IN <<v % Radix, v1 % Radix, v2 % Radix, v3 % Radix, v4>>

\* The products of digits i of a and j of b, i + j = k + 1.
Column(a, b, k) ==
  LET Product(i) == IF k + 1 - i \in 1 .. 5 THEN a[i] * b[k + 1 - i] ELSE 0
  IN Product(1) + Product(2) + Product(3) + Product(4) + Product(5)

\* One digit more at the bottom of x, modulo the prime: Radix^5 is 5.
ShiftIn(x, c) == (5 * (x \div Fourth) + Radix * (x % Fourth) + c) % Prime

ModProduct(x, y) ==
  LET C(k) == Column(Digits(x), Digits(y), k)
      High == ShiftIn(ShiftIn(ShiftIn(ShiftIn(0, C(9)), C(8)), C(7)), C(6))
  IN ShiftIn(ShiftIn(ShiftIn(ShiftIn(ShiftIn(High, C(5)), C(4)), C(3)), C(2)), C(1))

Init ==
  /\ phase = "new"
  /\ rval = 0 /\ sval = 0 /\ acc = 0 /\ given = 0 /\ tag = 0

Key ==
  /\ phase = "new" /\ phase' = "keyed"
  /\ rval' \in 0 .. TagSpace - 1
  /\ sval' \in 0 .. TagSpace - 1
  /\ UNCHANGED <<acc, given, tag>>

\* The accumulator after a block of at most 16 bytes and the bit above it.
Taken(n) == ModProduct((acc + n) % Prime, rval)

Block ==
  /\ phase = "keyed"
  /\ given' \in 0 .. 2 * TagSpace - 1
  /\ acc' = Taken(given')
  /\ UNCHANGED <<phase, rval, sval, tag>>

TagOf(a) == ((a % TagSpace) + sval) % TagSpace

\* The tag, after the short last block if there is one.  Nothing else is kept.
Finish ==
  /\ phase = "keyed" /\ phase' = "done"
  /\ \/ tag' = TagOf(acc) /\ UNCHANGED given
     \/ given' \in 0 .. TagSpace - 1 /\ tag' = TagOf(Taken(given'))
  /\ rval' = 0 /\ sval' = 0 /\ acc' = 0

Next == Key \/ Block \/ Finish

Spec == Init /\ [][Next]_vars
=============================================================================
