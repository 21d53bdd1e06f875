---------------------------- MODULE FusedKernels ----------------------------
(***************************************************************************)
(* What the two fused AEAD entry points of src/aead512.pl share: the width *)
(* of their ranges, the kernels they call, and the meaning of one call.    *)
(*                                                                         *)
(* Bytes are not modelled one by one.  The bytes a kernel has produced are *)
(* always a prefix of the record, so a number says which they are; any     *)
(* call that would leave something else behind gives Garbled.  The value   *)
(* of the Poly1305 accumulator is abstracted to what it is the hash OF.    *)
(***************************************************************************)
EXTENDS Integers

CONSTANT CounterSpace   \* number of values of the 32-bit block counter

ASSUME CounterSpaceAssumption == CounterSpace \in Nat \ {0}

Range    == 1024        \* bytes of one full range: sixteen 64-byte blocks
Garbled  == -1          \* not a correct prefix

-----------------------------------------------------------------------------
(***************************************************************************)
(* The ChaCha20 side.                                                      *)
(***************************************************************************)

\* The counter the 64-byte block holding byte `off' must be encrypted under;
\* counter zero is the Poly1305 key block.
DataCounter(off) == (1 + off \div 64) % CounterSpace

AdvanceCounter(c, blocks) == (c + blocks) % CounterSpace

\* A ChaCha20 call reads n bytes at offset inp, writes them at offset oup and
\* takes its keystream from counter c on.
Emit(written, oup, inp, c, n) ==
  IF oup = written /\ inp = written /\ written % 64 = 0 /\ c = DataCounter(written)
  THEN written + n
  ELSE Garbled

\* Fault: at most one range in the fill, whatever the length.
FillOneRange(len) == IF len <= Range THEN len ELSE Range

\* The fill: the key block and the first `fill' bytes in one dispatch.
FillLength(len) == IF len <= 2 * Range THEN len ELSE Range

\* Fault: the narrow fill also chosen for one byte more than it can produce.
FillWidthOffByOne(n) ==
  IF n + 63 <= 512 THEN 448
  ELSE IF n <= 1024 THEN 1024
  ELSE IF n <= 1536 THEN 1536
  ELSE 2048

\* Data bytes the kernel picked for a fill of n bytes can produce: the narrow
\* fill (eight lanes, one of them the key block), 17x, 25x and 33x.
FillWidth(n) ==
  IF n + 64 <= 512 THEN 448
  ELSE IF n <= 1024 THEN 1024
  ELSE IF n <= 1536 THEN 1536
  ELSE 2048

\* What the entries that src/aead512.pl calls directly rely on: only ChaCha20_ctr32
\* tests for an empty call, the kernels of a fill make one pass, and 17x is called
\* on what is left of a record when that is a range and at most two blocks.
Callable(entry, n) ==
  /\ entry # "ctr32" => n > 0
  /\ entry = "fill" => n = FillLength(n)
  /\ entry = "hybrid17" => n \in Range + 1 .. Range + 128

-----------------------------------------------------------------------------
(***************************************************************************)
(* The kernels that run ChaCha20 lanes and Poly1305 blocks together.       *)
(* lanes: 64-byte blocks of keystream; chain: 16-byte blocks absorbed by   *)
(* the first chain; second: by the second chain, which starts from zero.   *)
(***************************************************************************)

MacKernel == [
  mac     |-> [lanes |-> 16, chain |-> 10 * 3 + 2,   second |-> 10 * 3 + 2],
  mac1024 |-> [lanes |-> 16, chain |-> 10 * 3 + 2,   second |-> 0],
  mac512  |-> [lanes |-> 8,  chain |-> 24,           second |-> 0],
  mac256  |-> [lanes |-> 4,  chain |-> 6 * 2 + 4 * 1, second |-> 0],
  mac128  |-> [lanes |-> 2,  chain |-> 6 * 2 + 4 * 1, second |-> 0] ]

Chained(k)  == 16 * MacKernel[k].chain
Second(k)   == 16 * MacKernel[k].second

\* The borrowed finalizers leave after one pass, whatever is left to write.
Stored(k, n) == IF n <= 64 * MacKernel[k].lanes THEN n ELSE 64 * MacKernel[k].lanes

-----------------------------------------------------------------------------
(***************************************************************************)
(* The Poly1305 side.  An accumulator is the hash of: the padded AAD, then *)
(* the first ct bytes of the ciphertext, then the length block.  Its       *)
(* faults tell what went wrong on the way:                                 *)
(*   "order"   something was skipped, absorbed twice or out of order, or   *)
(*             padded before the end of the ciphertext                     *)
(*   "source"  a byte read as ciphertext was not ciphertext when read      *)
(***************************************************************************)

Accumulator == [stage: {"empty", "aad", "lengths"}, ct: Int,
                faults: SUBSET {"order", "source"}]

ZeroAccumulator == [stage |-> "empty", ct |-> 0, faults |-> {}]

\* ... of the AAD and the first n bytes of the ciphertext; of a whole record.
HashOfPrefix(n) == [stage |-> "aad", ct |-> n, faults |-> {}]

HashOfRecord(len) == [stage |-> "lengths", ct |-> len, faults |-> {}]

Unless(right, fault) == IF right THEN {} ELSE {fault}

AbsorbAad(a) ==
  [stage  |-> "aad",
   ct     |-> a.ct,
   faults |-> a.faults \cup Unless(a.stage = "empty", "order")]

\* n bytes of ciphertext from offset `from'.  A chain that ended inside a
\* 16-byte block has been padded there and cannot be continued.
Absorb(a, from, n, genuine) ==
  [stage  |-> a.stage,
   ct     |-> from + n,
   faults |-> a.faults \cup Unless(genuine, "source")
                       \cup Unless(a.stage = "aad" /\ a.ct = from /\ from % 16 = 0, "order")]

AbsorbLengths(a) ==
  [stage  |-> "lengths",
   ct     |-> a.ct,
   faults |-> a.faults \cup Unless(a.stage = "aad", "order")]

\* A second chain, from zero, over [from, to).
NoChain == [from |-> 0, to |-> 0]

\* acc = A * r^32 + B: right when B continues A, holds exactly 32 blocks and
\* the key slot does hold r^32.
Combine(a, b, slot) ==
  [stage  |-> a.stage,
   ct     |-> b.to,
   faults |-> a.faults \cup Unless(/\ a.ct = b.from
                                   /\ b.to - b.from = 32 * 16
                                   /\ slot = "r32", "order")]
=============================================================================
