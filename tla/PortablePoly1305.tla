-------------------------- MODULE PortablePoly1305 --------------------------
(***************************************************************************)
(* The portable Poly1305 of src/chacha20poly1305.c: 130-bit numbers as     *)
(* five limbs of 26 bits in 32-bit words, products in 64-bit words, carries*)
(* put off for as long as the words can hold them.                         *)
(*                                                                         *)
(* Radix stands for 2^26.  A 32-bit word holds 64 of them, a 64-bit word   *)
(* the square of that; a shift by 26 divides, the mask 0x3ffffff takes the *)
(* remainder.  Clamping is data: r is any number whose top limb is below   *)
(* the 24 bits of a key, which is more than the masks of the code allow.   *)
(***************************************************************************)
EXTENDS Integers

CONSTANTS
  Radix,          \* 2^26
  Multipliers,    \* clamped first halves of a one-time key, as limbs
  Pads,           \* second halves, as numbers
  Chunks,         \* blocks of 16 bytes, as limbs
  LastChunks,     \* last blocks of less than 16 bytes, with their final 1
  MaxBlocks       \* bound: blocks of a message

Limb == 0 .. 4

\* 2^128
TagSpace == (Radix * Radix * Radix * Radix * Radix) \div 4

ASSUME RadixAssumption == Radix \in Nat /\ Radix >= 64 /\ Radix % 4 = 0

ASSUME InputAssumption ==
  /\ \A x \in Multipliers \cup Chunks \cup LastChunks :
       /\ x \in [Limb -> 0 .. Radix - 1]
       /\ x[4] < Radix \div 4
  /\ Pads \subseteq 0 .. TagSpace - 1
  /\ MaxBlocks \in Nat

VARIABLES
  pc,       \* "new", "keyed" or "done"
  r, h,     \* st->r, st->h; st->s is 5 * st->r[1..4]
  pad,      \* st->pad
  blocks,   \* number of blocks taken in
  given,    \* the last of them, as a number
  tag

vars == <<pc, r, h, pad, blocks, given, tag>>

-----------------------------------------------------------------------------
(***************************************************************************)
(* Arithmetic.  W is the machine the code runs on, or Unbounded to say what*)
(* it would compute if no word ever overflowed.                            *)
(***************************************************************************)
Machine == [u32 |-> 64 * Radix, u64 |-> 4096 * Radix * Radix]
Unbounded == [u32 |-> 0, u64 |-> 0]

\* A value as a word of the given size holds it.
Fit(x, w) == IF w = 0 THEN x ELSE x % w

Carry(x) == x \div Radix
Low(x) == x % Radix

Limbs(a, b, c, d, e) ==
  [i \in Limb |-> CASE i = 0 -> a [] i = 1 -> b [] i = 2 -> c [] i = 3 -> d [] i = 4 -> e]

Zero == Limbs(0, 0, 0, 0, 0)

Value(x) ==
  x[0] + Radix * (x[1] + Radix * (x[2] + Radix * (x[3] + Radix * x[4])))

\* hibit of a whole block, and of the last one.
WholeBit == Radix \div 4
NoBit == 0

\* h with a block added, its hibit above the bits of the block.
Sum(W, x, m, hibit) ==
  [i \in Limb |-> Fit(x[i] + m[i] + (IF i = 4 THEN hibit ELSE 0), W.u32)]

\* What limb j of h is multiplied by in column i: a limb of r, or one of s.
Factor(i, j) == IF j <= i THEN r[i - j] ELSE 5 * r[5 + i - j]

\* d0 .. d4
Column(W, a, i) ==
  Fit(a[0] * Factor(i, 0) + a[1] * Factor(i, 1) + a[2] * Factor(i, 2)
        + a[3] * Factor(i, 3) + a[4] * Factor(i, 4), W.u64)

\* The columns with the carries of those below added.
Carried(W, a) ==
  LET Next64(d, below) == Fit(d + Fit(Carry(below), W.u32), W.u64)
      d0 == Column(W, a, 0)
      d1 == Next64(Column(W, a, 1), d0)
      d2 == Next64(Column(W, a, 2), d1)
      d3 == Next64(Column(W, a, 3), d2)
      d4 == Next64(Column(W, a, 4), d3)
  IN Limbs(d0, d1, d2, d3, d4)

\* Limb 0 with the carry out of limb 4, five times.
Folded(W, d) == Fit(Low(d[0]) + Fit(5 * Fit(Carry(d[4]), W.u32), W.u32), W.u32)

\* Fault: limb 0 is not masked after the fold.
KeptWithoutMask(W, d) ==
  Limbs(Folded(W, d), Fit(Low(d[1]) + Carry(Folded(W, d)), W.u32),
        Low(d[2]), Low(d[3]), Low(d[4]))

\* Fault: limb 4 is not masked, though its carry was folded.
KeptTopWhole(W, d) ==
  Limbs(Low(Folded(W, d)), Fit(Low(d[1]) + Carry(Folded(W, d)), W.u32),
        Low(d[2]), Low(d[3]), Fit(d[4], W.u32))

\* The limbs kept: only limb 1 may be left with more than 26 bits.
Kept(W, d) ==
  Limbs(Low(Folded(W, d)), Fit(Low(d[1]) + Carry(Folded(W, d)), W.u32),
        Low(d[2]), Low(d[3]), Low(d[4]))

\* h after one turn of the loop of poly1305_blocks.
Absorbed(W, x, m, hibit) == Kept(W, Carried(W, Sum(W, x, m, hibit)))

\* Fault: the carry left in limb 1 is forgotten.
SettledFromTwo(W, x) ==
  LET x3 == Fit(x[3] + Carry(x[2]), W.u32)
      x4 == Fit(x[4] + Carry(x3), W.u32)
      x0 == Fit(x[0] + 5 * Carry(x4), W.u32)
  IN Limbs(Low(x0), Fit(x[1] + Carry(x0), W.u32), Low(x[2]), Low(x3), Low(x4))

\* poly1305_finish: the carries put off so far.
Settled(W, x) ==
  LET x2 == Fit(x[2] + Carry(x[1]), W.u32)
      x3 == Fit(x[3] + Carry(x2), W.u32)
      x4 == Fit(x[4] + Carry(x3), W.u32)
      x0 == Fit(x[0] + 5 * Carry(x4), W.u32)
  IN Limbs(Low(x0), Fit(Low(x[1]) + Carry(x0), W.u32), Low(x2), Low(x3), Low(x4))

\* g = h + 5 - 2^130, whose top limb wraps below zero unless h >= Prime.
LessPrime(x) ==
  LET g0 == x[0] + 5
      g1 == x[1] + Carry(g0)
      g2 == x[2] + Carry(g1)
      g3 == x[3] + Carry(g2)
  IN Limbs(Low(g0), Low(g1), Low(g2), Low(g3),
           Fit((x[4] + Carry(g3)) - Radix, Machine.u32))

\* Fault: g is taken only above the prime, not at it.
ReducedAbovePrime(x) ==
  IF LessPrime(x)[4] >= 32 * Radix \/ Value(LessPrime(x)) = 0 THEN x ELSE LessPrime(x)

\* The mask made of bit 31 of g4 keeps h or g.
Reduced(x) == IF LessPrime(x)[4] >= 32 * Radix THEN x ELSE LessPrime(x)

\* h as the tag is taken from it.
Final(x) == Reduced(Settled(Machine, x))

\* The limbs shifted together with |, as the low 128 bits: a limb of 27 bits puts
\* its top bit on the lowest bit of the limb above.
Packed(x) ==
  LET With(y, bit) == y + bit * (1 - (y % 2))
  IN Value(Limbs(Low(x[0]), With(Low(x[1]), Carry(x[0])), With(Low(x[2]), Carry(x[1])),
                 With(Low(x[3]), Carry(x[2])), With(Low(x[4]), Carry(x[3]))))
       % TagSpace

-----------------------------------------------------------------------------
(***************************************************************************)
(* One authenticator.                                                      *)
(***************************************************************************)
Init ==
  /\ pc = "new"
  /\ r = Zero /\ h = Zero /\ pad = 0
  /\ blocks = 0 /\ given = 0 /\ tag = 0

\* poly1305_init
Key ==
  /\ pc = "new" /\ pc' = "keyed"
  /\ r' \in Multipliers
  /\ pad' \in Pads
  /\ h' = Zero
  /\ UNCHANGED <<blocks, given, tag>>

\* poly1305_blocks, one block
Block ==
  /\ pc = "keyed" /\ blocks < MaxBlocks
  /\ \E m \in Chunks :
       /\ h' = Absorbed(Machine, h, m, WholeBit)
       /\ given' = Value(Sum(Unbounded, Zero, m, WholeBit))
  /\ blocks' = blocks + 1
  /\ UNCHANGED <<pc, r, pad, tag>>

\* The tag of h = x.  The state is wiped.
Close(x) ==
  /\ pc = "keyed" /\ pc' = "done"
  /\ tag' = (Packed(Final(x)) + pad) % TagSpace
  /\ r' = Zero /\ h' = Zero /\ pad' = 0
  /\ UNCHANGED blocks

\* poly1305_finish with nothing in the buffer.
FinishWhole == Close(h) /\ UNCHANGED given

\* poly1305_finish with a block of less than 16 bytes in the buffer.
FinishPartial ==
  /\ blocks < MaxBlocks
  /\ \E m \in LastChunks :
       /\ Close(Absorbed(Machine, h, m, NoBit))
       /\ given' = Value(Sum(Unbounded, Zero, m, NoBit))

Next == Key \/ Block \/ FinishWhole \/ FinishPartial

Spec == Init /\ [][Next]_vars

-----------------------------------------------------------------------------
(***************************************************************************)
(* Properties.                                                             *)
(***************************************************************************)

\* Four limbs of h are below 2^26 between blocks, and the one that takes the last
\* carry exceeds it by less than 63: what the next block and finish count on.
TypeOK ==
  /\ pc \in {"new", "keyed", "done"}
  /\ r \in [Limb -> 0 .. Radix - 1] /\ r[4] < Radix \div 4
  /\ h \in [Limb -> Nat]
  /\ \A i \in Limb \ {1} : h[i] < Radix
  /\ h[1] < Radix + 63
  /\ pad \in 0 .. TagSpace - 1
  /\ blocks \in Nat /\ given \in Nat /\ tag \in 0 .. TagSpace - 1

\* Whatever block comes next, no 32-bit sum, no 64-bit column, no carry cut down
\* to 32 bits and no carry times five loses a bit, and neither does finish.
NoWordOverflows ==
  pc = "keyed" =>
    /\ \A m \in Chunks \cup LastChunks, b \in {WholeBit, NoBit} :
         LET a == Sum(Unbounded, h, m, b)
             d == Carried(Unbounded, a)
         IN /\ Sum(Machine, h, m, b) = a
            /\ Carried(Machine, a) = d
            /\ Kept(Machine, d) = Kept(Unbounded, d)
    /\ Settled(Machine, h) = Settled(Unbounded, h)

\* One pass of carries is enough in finish: the limbs the tag is packed from do
\* not overlap.  The pass ends by adding a carry to a limb already masked.
LimbsDoNotOverlap ==
  pc = "keyed" => \A i \in Limb : Final(h)[i] \in 0 .. Radix - 1

Authenticator == INSTANCE Poly1305 WITH
  phase <- pc,
  rval <- Value(r),
  sval <- pad,
  acc <- Value(Final(h))

\* The limbs compute Poly1305: what h stands for is the accumulator modulo the
\* prime after every block, and the tag is fully reduced before it is cut.
ImplementsPoly1305 == Authenticator!Spec
=============================================================================
