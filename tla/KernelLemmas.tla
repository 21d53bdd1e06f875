---------------------------- MODULE KernelLemmas ----------------------------
(***************************************************************************)
(* The block counter of a record and the calls of the kernels: the facts   *)
(* the proofs about seal and open take from FusedKernels, and how far the  *)
(* counter reaches.                                                        *)
(***************************************************************************)
EXTENDS FusedKernels, TLAPS

-----------------------------------------------------------------------------
(***************************************************************************)
(* The counters the entry points and the range loops of src/aead512.pl     *)
(* compute are the ones the blocks need, for every counter width, whether  *)
(* or not the counter wraps.                                               *)
(***************************************************************************)

\* A multiple of M other than zero is at least M away from zero.
LEMMA MultipleIsFar ==
  ASSUME NEW M \in Nat, M > 0, NEW d \in Int
  PROVE  (d >= 1 => M * d >= M) /\ (d <= -1 => M * d <= -M)
  BY Z3

\* The remainder is the only residue in 0 .. M-1.
LEMMA RemainderIsUnique ==
  ASSUME NEW M \in Nat, M > 0, NEW x \in Int, NEW q \in Int,
         NEW r \in 0 .. M - 1, x = M * q + r
  PROVE  x % M = r
<1>1. /\ x % M \in 0 .. M - 1
      /\ x \div M \in Int
      /\ x = M * (x \div M) + (x % M)
  BY Z3
<1> DEFINE d == (x \div M) - q
<1>2. d \in Int /\ M * d = r - (x % M)
  BY <1>1, Z3
<1>3. d = 0
  BY <1>1, <1>2, MultipleIsFar, Z3
<1> QED BY <1>1, <1>2, <1>3, Z3

\* Reducing before an addition changes nothing.
LEMMA ReduceThenAdd ==
  ASSUME NEW M \in Nat, M > 0, NEW a \in Nat, NEW b \in Nat
  PROVE  ((a % M) + b) % M = (a + b) % M
<1>1. /\ a % M \in 0 .. M - 1
      /\ a \div M \in Int
      /\ a = M * (a \div M) + (a % M)
  BY Z3
<1> DEFINE c == (a % M) + b
<1>2. c \in Int
  BY <1>1
<1>3. /\ c % M \in 0 .. M - 1
      /\ c \div M \in Int
      /\ c = M * (c \div M) + (c % M)
  BY <1>2, Z3
<1>4. a + b = M * ((a \div M) + (c \div M)) + (c % M)
  BY <1>1, <1>3, Z3
<1>5. (a \div M) + (c \div M) \in Int /\ a + b \in Int
  BY <1>1, <1>3
<1>6. (a + b) % M = c % M
  <2> HIDE DEF c
  <2> QED BY <1>3, <1>4, <1>5, RemainderIsUnique
<1> QED BY <1>6

\* A counter is a value of the counter space.
LEMMA CounterInRange ==
  ASSUME NEW n \in Nat
  PROVE  n % CounterSpace \in 0 .. CounterSpace - 1
  BY CounterSpaceAssumption, Z3

\* addl of a number of blocks to the counter in the frame.
LEMMA CounterAdd ==
  ASSUME NEW a \in Nat, NEW k \in Nat
  PROVE  AdvanceCounter(a % CounterSpace, k) = (a + k) % CounterSpace
<1>1. CounterSpace \in Nat /\ CounterSpace > 0
  BY CounterSpaceAssumption
<1>2. ((a % CounterSpace) + k) % CounterSpace = (a + k) % CounterSpace
  BY <1>1, ReduceThenAdd
<1> QED BY <1>2 DEF AdvanceCounter

\* advance: sixteen blocks further, the counter of the next range.
LEMMA NextRangeCounter ==
  ASSUME NEW off \in Nat
  PROVE  AdvanceCounter(DataCounter(off), 16) = DataCounter(off + Range)
<1> DEFINE b == 1 + off \div 64
<1>1. b \in Nat /\ 1 + (off + 1024) \div 64 = b + 16
  BY Z3
<1> HIDE DEF b
<1>2. AdvanceCounter(b % CounterSpace, 16) = (b + 16) % CounterSpace
  BY <1>1, CounterAdd
<1>3. DataCounter(off) = b % CounterSpace
  BY DEF b, DataCounter
<1>4. DataCounter(off + Range) = (b + 16) % CounterSpace
  BY <1>1 DEF DataCounter, Range
<1> QED BY <1>2, <1>3, <1>4

\* main setup: the counter after a fill that advanced sixteen blocks, and
\* after the key block alone.
LEMMA SetupCounter ==
  /\ AdvanceCounter(1 % CounterSpace, 16) = DataCounter(Range)
  /\ AdvanceCounter(1 % CounterSpace, 0) = DataCounter(0)
  /\ 1 % CounterSpace = DataCounter(0)
<1>1. 0 \div 64 = 0 /\ 1024 \div 64 = 16
  BY Z3
<1>2. AdvanceCounter(1 % CounterSpace, 16) = (1 + 16) % CounterSpace
  BY CounterAdd
<1>3. AdvanceCounter(1 % CounterSpace, 0) = (1 + 0) % CounterSpace
  BY CounterAdd
<1> QED BY <1>1, <1>2, <1>3 DEF DataCounter, Range

-----------------------------------------------------------------------------
(***************************************************************************)
(* One kernel call on a record that is in order.                           *)
(***************************************************************************)

\* The counter of a block is a value of the counter space.
LEMMA DataCounterType ==
  ASSUME NEW off \in Nat
  PROVE  DataCounter(off) \in 0 .. CounterSpace - 1
<1>1. 1 + off \div 64 \in Nat
  BY Z3
<1> QED BY <1>1, CounterInRange DEF DataCounter

\* The counter the frame holds stays a value of the counter space.
LEMMA AdvanceCounterType ==
  ASSUME NEW c \in Nat, NEW k \in Nat
  PROVE  AdvanceCounter(c, k) \in 0 .. CounterSpace - 1
<1>1. c + k \in Nat
  OBVIOUS
<1> QED BY <1>1, CounterInRange DEF AdvanceCounter

\* A call at the start of a range, under the counter of that range, extends
\* the prefix by what it writes.
LEMMA EmitAtRange ==
  ASSUME NEW off \in Nat, off % Range = 0, NEW n \in Nat
  PROVE  Emit(off, off, off, DataCounter(off), n) = off + n
<1>1. off % 64 = 0
  BY Z3 DEF Range
<1> QED BY <1>1 DEF Emit

\* The fill starts the record.
LEMMA EmitAtStart ==
  ASSUME NEW n \in Nat
  PROVE  Emit(0, 0, 0, 1 % CounterSpace, n) = n
<1>1. 0 % Range = 0
  BY Z3 DEF Range
<1> QED BY <1>1, EmitAtRange, SetupCounter

\* The kernel chosen for a fill is wide enough for it.
LEMMA FillCovers ==
  ASSUME NEW n \in Nat
  PROVE  /\ FillLength(n) \in Nat /\ FillLength(n) <= n /\ FillLength(n) <= 2 * Range
         /\ FillLength(n) <= FillWidth(FillLength(n))
         /\ n > 0 => FillLength(n) > 0
         /\ FillLength(n) = n \/ (FillLength(n) = Range /\ n > 2 * Range)
  BY DEF FillLength, FillWidth, Range

\* The bytes each fused kernel authenticates, chain by chain.
LEMMA KernelChains ==
  /\ Chained("mac") = 512 /\ Second("mac") = 512
  /\ Chained("mac1024") = 512 /\ Second("mac1024") = 0
  /\ Chained("mac512") = 384 /\ Second("mac512") = 0
  /\ Chained("mac256") = 256 /\ Second("mac256") = 0
  /\ Chained("mac128") = 256 /\ Second("mac128") = 0
  BY DEF Chained, Second, MacKernel

\* The bytes each fused kernel can write.
LEMMA KernelStores ==
  ASSUME NEW n \in Nat
  PROVE  /\ n <= 1024 => Stored("mac", n) = n /\ Stored("mac1024", n) = n
         /\ n <= 512 => Stored("mac512", n) = n
         /\ n <= 256 => Stored("mac256", n) = n
         /\ n <= 128 => Stored("mac128", n) = n
  BY DEF Stored, MacKernel

-----------------------------------------------------------------------------
(***************************************************************************)
(* Absorbing the next part of a record.                                    *)
(***************************************************************************)

\* Accumulators are well formed.
LEMMA AccumulatorTypes ==
  ASSUME NEW n \in Int
  PROVE  /\ HashOfPrefix(n) \in Accumulator
         /\ HashOfRecord(n) \in Accumulator
  BY DEF Accumulator, HashOfPrefix, HashOfRecord

\* The empty accumulator and the absent chain are well typed.
LEMMA ZeroAccumulatorType == ZeroAccumulator \in Accumulator /\ NoChain \in [from: Int, to: Int]
  BY DEF Accumulator, ZeroAccumulator, NoChain

\* The AAD comes first.
LEMMA AadFirst == AbsorbAad(ZeroAccumulator) = HashOfPrefix(0)
  BY DEF AbsorbAad, ZeroAccumulator, HashOfPrefix, Unless

\* A chain that starts where the hash ends extends it.
LEMMA AbsorbNext ==
  ASSUME NEW m \in Nat, m % 16 = 0, NEW n \in Nat, NEW to \in Nat, to = m + n
  PROVE  Absorb(HashOfPrefix(m), m, n, TRUE) = HashOfPrefix(to)
  BY DEF Absorb, HashOfPrefix, Unless

\* ... in particular from the start of the record.
LEMMA AbsorbFromStart ==
  ASSUME NEW n \in Nat
  PROVE  Absorb(HashOfPrefix(0), 0, n, TRUE) = HashOfPrefix(n)
<1>1. 0 % 16 = 0
  BY Z3
<1>2. 0 + n = n
  OBVIOUS
<1> QED BY <1>1, <1>2 DEF Absorb, HashOfPrefix, Unless

\* So does a second chain of 32 blocks that starts where the first one ended.
LEMMA CombineNext ==
  ASSUME NEW m \in Nat, NEW to \in Nat, to = m + 512
  PROVE  Combine(HashOfPrefix(m), [from |-> m, to |-> to], "r32") = HashOfPrefix(to)
  BY DEF Combine, HashOfPrefix, Unless

\* The length block completes the hash of the record.
LEMMA LengthsLast ==
  ASSUME NEW n \in Nat
  PROVE  AbsorbLengths(HashOfPrefix(n)) = HashOfRecord(n)
  BY DEF AbsorbLengths, HashOfPrefix, HashOfRecord, Unless

\* Every boundary inside a range that a chain can end at is a block boundary.
LEMMA BlockBoundaries ==
  ASSUME NEW m \in Nat, m % Range = 0
  PROVE  /\ (m + Range) % Range = 0 /\ m % 16 = 0
         /\ m >= 512 => (m - 512) % 16 = 0
         /\ m >= Range => (m - Range) % 16 = 0 /\ (m - Range) % Range = 0
         /\ m >= Range + 512 => (m - Range - 512) % 16 = 0
         /\ m >= Range => (m - Range + 256) % 16 = 0 /\ (m - Range + 384) % 16 = 0
  BY Z3 DEF Range

\* i blocks further than a block boundary: the call that starts there with the counter
\* of its first block has the right one for each.
LEMMA BlockAhead ==
  ASSUME NEW off \in Nat, off % 64 = 0, NEW i \in Nat
  PROVE  AdvanceCounter(DataCounter(off), i) = DataCounter(off + 64 * i)
<1> DEFINE b == off \div 64
<1>1. b \in Nat /\ off = 64 * b
  BY Z3
<1>2. (off + 64 * i) \div 64 = b + i
  <2> HIDE DEF b
  <2> QED BY <1>1, Z3
<1>3. AdvanceCounter((1 + b) % CounterSpace, i) = ((1 + b) + i) % CounterSpace
  <2> HIDE DEF b
  <2> QED BY <1>1, CounterAdd
<1>4. (1 + b) + i = 1 + (b + i)
  <2> HIDE DEF b
  <2> QED BY <1>1
<1> QED BY <1>2, <1>3, <1>4 DEF DataCounter

\* A fill starts at block zero, and its data at the block after.
LEMMA BlockAfterKey ==
  ASSUME NEW i \in Nat
  PROVE  AdvanceCounter(0, i + 1) = DataCounter(64 * i)
<1>1. (64 * i) \div 64 = i
  BY Z3
<1> QED BY <1>1 DEF AdvanceCounter, DataCounter

-----------------------------------------------------------------------------
(***************************************************************************)
(* How long a record may be.                                               *)
(***************************************************************************)

\* One block of the counter space is the key's.
MostBytes == 64 * (CounterSpace - 1)

\* A counter that has not wrapped is a count.
LEMMA UnwrappedCounter ==
  ASSUME NEW i \in Nat, i < MostBytes
  PROVE  DataCounter(i) = 1 + i \div 64
<1>1. CounterSpace \in Nat /\ CounterSpace > 0
  BY CounterSpaceAssumption
<1>2. i \div 64 \in Nat /\ 1 + i \div 64 < CounterSpace
  BY <1>1, Z3 DEF MostBytes
<1>3. 1 + i \div 64 \in 0 .. CounterSpace - 1 /\ 1 + i \div 64 = CounterSpace * 0 + (1 + i \div 64)
  BY <1>1, <1>2
<1>4. (1 + i \div 64) % CounterSpace = 1 + i \div 64
  BY <1>1, <1>2, <1>3, RemainderIsUnique
<1> QED BY <1>4 DEF DataCounter

\* seal and open take any length, and the counter wraps.  Up to 2^32 - 1 blocks, and no
\* further, no byte of a record is encrypted under block zero, whose keystream is the
\* Poly1305 key; and up to there no two blocks are encrypted under the same counter.
THEOREM KeyBlockIsApart ==
  /\ \A n \in Nat : n <= MostBytes <=> \A i \in 0 .. n - 1 : DataCounter(i) # 0
  /\ \A i, j \in 0 .. MostBytes - 1 : DataCounter(i) = DataCounter(j) => i \div 64 = j \div 64
<1>1. CounterSpace \in Nat /\ CounterSpace > 0 /\ MostBytes \in Nat
  BY CounterSpaceAssumption DEF MostBytes
<1>2. \A i \in Nat : i < MostBytes => DataCounter(i) = 1 + i \div 64
  BY UnwrappedCounter
<1>3. \A i \in Nat : i \div 64 \in Nat
  BY Z3
<1>4. DataCounter(MostBytes) = 0
  <2>1. MostBytes \div 64 = CounterSpace - 1
    BY <1>1, Z3 DEF MostBytes
  <2>2. 1 + (CounterSpace - 1) = CounterSpace * 1 + 0 /\ 0 \in 0 .. CounterSpace - 1
    BY <1>1
  <2>3. (1 + (CounterSpace - 1)) % CounterSpace = 0
    BY <1>1, <2>2, RemainderIsUnique
  <2> QED BY <2>1, <2>3 DEF DataCounter
<1>5. ASSUME NEW n \in Nat
      PROVE  n <= MostBytes <=> \A i \in 0 .. n - 1 : DataCounter(i) # 0
  <2>1. CASE n <= MostBytes
    <3>1. ASSUME NEW i \in 0 .. n - 1 PROVE DataCounter(i) # 0
      <4>1. i \in Nat /\ i < MostBytes
        BY <1>1, <2>1
      <4> QED BY <4>1, <1>2, <1>3
    <3> QED BY <2>1, <3>1
  <2>2. CASE n > MostBytes
    <3>1. MostBytes \in 0 .. n - 1
      BY <1>1, <2>2
    <3> QED BY <1>1, <1>4, <2>2, <3>1
  <2> QED BY <1>1, <2>1, <2>2
<1>6. ASSUME NEW i \in 0 .. MostBytes - 1, NEW j \in 0 .. MostBytes - 1,
             DataCounter(i) = DataCounter(j)
      PROVE  i \div 64 = j \div 64
  <2>1. i \in Nat /\ j \in Nat /\ i < MostBytes /\ j < MostBytes
    BY <1>1
  <2> QED BY <2>1, <1>2, <1>3, <1>6
<1> QED BY <1>5, <1>6

-----------------------------------------------------------------------------
(***************************************************************************)
(* What the schedules owe the entries of src/chacha_kernels.pl they call.  *)
(***************************************************************************)

\* The entry is one that may be given n bytes, and block i of what it writes from offset
\* `from' on gets its own counter.  The first block of a fill is the key's.
RightCall(entry, n, c, from) ==
  /\ Callable(entry, n)
  /\ c \in 0 .. CounterSpace - 1
  /\ \A i \in Nat :
       AdvanceCounter(c, IF entry = "fill" THEN i + 1 ELSE i) = DataCounter(from + 64 * i)

\* A fill of the length the schedules give it, at the start of the record.
LEMMA FillIsRightCall ==
  ASSUME NEW n \in Nat, n > 0
  PROVE  RightCall("fill", FillLength(n), 0, 0)
<1>1. FillLength(n) > 0 /\ FillLength(FillLength(n)) = FillLength(n)
  BY FillCovers DEF FillLength, Range
<1>2. 0 \in 0 .. CounterSpace - 1
  BY CounterSpaceAssumption
<1>3. ASSUME NEW i \in Nat PROVE AdvanceCounter(0, i + 1) = DataCounter(0 + 64 * i)
  <2>1. 0 + 64 * i = 64 * i
    OBVIOUS
  <2> QED BY <2>1, BlockAfterKey
<1> QED BY <1>1, <1>2, <1>3 DEF RightCall, Callable

\* The last bytes of a record, from the start of a range on, in one call.
LEMMA LastIsRightCall ==
  ASSUME NEW off \in Nat, off % Range = 0, NEW n \in Nat, n > 0
  PROVE  /\ RightCall("tail", n, DataCounter(off), off)
         /\ n \in Range + 1 .. Range + 128 => RightCall("hybrid17", n, DataCounter(off), off)
<1>1. off % 64 = 0
  BY Z3 DEF Range
<1>2. \A i \in Nat : AdvanceCounter(DataCounter(off), i) = DataCounter(off + 64 * i)
  BY <1>1, BlockAhead
<1> QED BY <1>2, DataCounterType DEF RightCall, Callable
=============================================================================
