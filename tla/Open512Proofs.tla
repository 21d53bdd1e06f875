--------------------------- MODULE Open512Proofs ---------------------------
(***************************************************************************)
(* Proofs about Open512, for every set of record lengths, in place or not, *)
(* and every width of the block counter.                                   *)
(*                                                                         *)
(* IInv is inductive, one lemma per action; the safety properties follow   *)
(* from it label by label.  Then every step is mapped to a step of         *)
(* AeadRecord or to none, from where each label leaves the two fronts      *)
(* (Places), and shown to bring the end of the call closer (ToGo).         *)
(***************************************************************************)
EXTENDS Open512, KernelLemmas

\* The invariant holds when the function is entered.
LEMMA InitInv == Init => IInv
<1> SUFFICES ASSUME Init PROVE IInv
  OBVIOUS
<1>1. TypeOK
  <2>1. acc \in Accumulator /\ second \in [from: Int, to: Int]
    BY ZeroAccumulatorType DEF Init
  <2>2. ctr \in 0 .. CounterSpace - 1
    BY CounterSpaceAssumption DEF Init
  <2>3. inl \in 0 .. len /\ oup \in 0 .. len /\ inp \in 0 .. len
    BY LengthsAssumption DEF Init
  <2>4. adv \in 0 .. 2 * Range /\ look \in {0, 1, 2} /\ left \in {0, 512} /\ cap \in {0, 256, 384}
    BY DEF Init, Range
  <2>5. pc \in Labels /\ slot \in {"junk", "keystream", "r32"}
    BY DEF Init, Labels
  <2>6. /\ kern \in DOMAIN MacKernel \cup {"none"} /\ written \in Nat \cup {Garbled}
        /\ suffix \in [from: Int, n: Nat]
    BY DEF Init
  <2>7. len \in Lengths /\ inplace \in BOOLEAN /\ tag \in BOOLEAN
    BY DEF Init
  <2> QED BY <2>1, <2>2, <2>3, <2>4, <2>5, <2>6, <2>7 DEF TypeOK
<1>2. FillInv /\ InPlaceInv /\ PendingInv /\ DrainInv /\ SuffixInv
  BY LengthsAssumption
  DEF Init, FillInv, InPlaceInv, PendingInv, DrainInv, SuffixInv
<1> QED BY <1>1, <1>2 DEF IInv

-----------------------------------------------------------------------------
(***************************************************************************)
(* The steps before the schedule is chosen.                                *)
(***************************************************************************)

\* No data has moved: the key block alone is generated.
LEMMA KeyOnlyInv == IInv /\ KeyOnly => IInv'
<1> SUFFICES ASSUME IInv, KeyOnly PROVE IInv'
  OBVIOUS
<1>1. /\ pc = "entry" /\ pc' = "aad" /\ (inplace \/ len = 0) /\ slot' = "keystream"
      /\ UNCHANGED <<call, cursors, sched, acc, second, written, tag>>
  BY DEF KeyOnly, Goto
<1>2. TypeOK'
  BY <1>1 DEF IInv, TypeOK, Labels, call, cursors, sched
<1>3. FillInv' /\ InPlaceInv' /\ PendingInv' /\ DrainInv' /\ SuffixInv'
  BY <1>1 DEF IInv, FillInv, InPlaceInv, PendingInv, DrainInv, SuffixInv, call, cursors, sched
<1> QED BY <1>2, <1>3 DEF IInv

\* The fill produces exactly the bytes it is asked for: the kernel it picks is wide enough.
LEMMA FillStepInv == IInv /\ Fill => IInv'
<1> SUFFICES ASSUME IInv, Fill PROVE IInv'
  OBVIOUS
<1>1. /\ pc = "entry" /\ len \in Nat /\ len > 0 /\ ~inplace /\ inl = len /\ oup = 0 /\ inp = 0
      /\ written = 0 /\ look = 0 /\ left = 0 /\ second = NoChain
      /\ acc = ZeroAccumulator /\ tag = FALSE
  BY LengthsAssumption DEF Fill, Goto, IInv, TypeOK, FillInv, SuffixInv
<1> DEFINE fill == FillLength(len)
<1>2. /\ fill \in Nat /\ fill <= len /\ fill <= 2 * Range /\ fill > 0
      /\ Emit(0, 0, 0, 1 % CounterSpace, fill) = fill
      /\ fill <= FillWidth(fill)
  BY <1>1, FillCovers, EmitAtStart
<1>3. /\ pc' = "aad" /\ slot' = "keystream" /\ written' = fill
      /\ oup' = fill /\ inp' = fill /\ inl' = len - fill /\ adv' = fill
      /\ UNCHANGED <<call, ctr, look, left, kern, cap, suffix, acc, second, tag>>
  BY <1>1, <1>2 DEF Fill, Goto
<1> HIDE DEF fill
<1>4. TypeOK'
  BY <1>1, <1>2, <1>3 DEF IInv, TypeOK, Labels, Range, call
<1>5. FillInv' /\ InPlaceInv' /\ PendingInv' /\ DrainInv' /\ SuffixInv'
  BY <1>1, <1>2, <1>3 DEF FillInv, InPlaceInv, PendingInv, DrainInv, SuffixInv, fill, call
<1> QED BY <1>4, <1>5 DEF IInv

\* The accumulator becomes the hash of the AAD and of no ciphertext.
LEMMA HashAadInv == IInv /\ HashAad => IInv'
<1> SUFFICES ASSUME IInv, HashAad PROVE IInv'
  OBVIOUS
<1>1. /\ pc = "aad" /\ pc' = "fill_hash" /\ acc' = HashOfPrefix(0)
      /\ UNCHANGED <<call, cursors, sched, slot, second, written, tag>>
  BY AadFirst DEF HashAad, Goto, IInv, FillInv
<1>2. TypeOK'
  BY <1>1, AccumulatorTypes DEF IInv, TypeOK, Labels, call, cursors, sched
<1>3. FillInv' /\ InPlaceInv' /\ PendingInv' /\ DrainInv' /\ SuffixInv'
  BY <1>1 DEF IInv, FillInv, InPlaceInv, PendingInv, DrainInv, SuffixInv, Hashed, call, cursors, sched
<1> QED BY <1>2, <1>3 DEF IInv

\* Without a fill the record is empty, or the call is in place: nothing to hash yet.
LEMMA NoFillInv == IInv /\ NoFill => IInv'
<1> SUFFICES ASSUME IInv, NoFill PROVE IInv'
  OBVIOUS
<1>1. /\ pc = "fill_hash" /\ pc' = "main" /\ adv = 0 /\ inp = 0
      /\ look = 0 /\ Hashed(0) /\ (inplace \/ (len = 0 /\ inl = 0))
      /\ UNCHANGED <<call, cursors, sched, slot, acc, second, written, tag>>
  BY LengthsAssumption, FillCovers DEF NoFill, Goto, IInv, TypeOK, FillInv
<1>2. TypeOK'
  BY <1>1 DEF IInv, TypeOK, Labels, call, cursors, sched
<1>3. FillInv' /\ InPlaceInv' /\ PendingInv' /\ DrainInv' /\ SuffixInv'
  BY <1>1 DEF IInv, FillInv, InPlaceInv, PendingInv, DrainInv, SuffixInv, Hashed, call, cursors, sched
<1> QED BY <1>2, <1>3 DEF IInv

\* A fill that stays pending leaves more than a range to schedule.
LEMMA KeepFillPendingInv == IInv /\ KeepFillPending => IInv'
<1> SUFFICES ASSUME IInv, KeepFillPending PROVE IInv'
  OBVIOUS
<1>1. /\ pc = "fill_hash" /\ adv = Range /\ inl > 0 /\ inp = Range
      /\ inl > Range /\ Hashed(0) /\ ~inplace
  BY LengthsAssumption, FillCovers
  DEF KeepFillPending, Goto, IInv, TypeOK, FillInv, Range
<1>2. /\ pc' = "main" /\ adv' = 16 /\ look' = 1
      /\ UNCHANGED <<call, cursors, left, kern, cap, suffix, slot, acc, second, written, tag>>
  BY DEF KeepFillPending, Goto
<1>3. TypeOK'
  BY <1>1, <1>2 DEF IInv, TypeOK, Labels, call, cursors, Range
<1>4. FillInv' /\ InPlaceInv' /\ PendingInv' /\ DrainInv' /\ SuffixInv'
  BY <1>1, <1>2 DEF IInv, FillInv, InPlaceInv, PendingInv, DrainInv, SuffixInv, Hashed, call, cursors
<1> QED BY <1>3, <1>4 DEF IInv

\* A fill hashed at once was the whole record.
LEMMA HashFillNowInv == IInv /\ HashFillNow => IInv'
<1> SUFFICES ASSUME IInv, HashFillNow PROVE IInv'
  OBVIOUS
<1>1. /\ pc = "fill_hash" /\ len \in Nat /\ inl = 0 /\ look = 0 /\ ~inplace
      /\ adv = len /\ inp = len /\ acc = HashOfPrefix(0)
  BY LengthsAssumption, FillCovers
  DEF HashFillNow, Goto, IInv, TypeOK, FillInv, Hashed, Range
<1>2. inp - adv = 0 /\ Intact(0) = TRUE
  BY <1>1 DEF Intact
<1>3. Absorb(HashOfPrefix(0), 0, len, TRUE) = HashOfPrefix(len)
  <2>1. len \in Nat
    BY <1>1
  <2> QED BY ONLY <2>1, AbsorbFromStart
<1>4. /\ pc' = "main" /\ adv' = 16 /\ acc' = HashOfPrefix(len)
      /\ UNCHANGED <<call, cursors, look, left, kern, cap, suffix, slot, second, written, tag>>
  BY <1>1, <1>2, <1>3 DEF HashFillNow, Goto, Hash
<1>5. TypeOK'
  BY <1>1, <1>4, AccumulatorTypes DEF IInv, TypeOK, Labels, call, cursors, Range
<1>6. FillInv' /\ InPlaceInv' /\ PendingInv' /\ DrainInv' /\ SuffixInv'
  BY <1>1, <1>4 DEF IInv, FillInv, InPlaceInv, PendingInv, DrainInv, SuffixInv, Hashed, call, cursors
<1> QED BY <1>5, <1>6 DEF IInv

-----------------------------------------------------------------------------
(***************************************************************************)
(* The choice of a schedule.                                               *)
(***************************************************************************)

\* The counter is that of the next byte; the two-pass schedules leave.
LEMMA MainInv == IInv /\ Main => IInv'
<1> SUFFICES ASSUME IInv, Main PROVE IInv'
  OBVIOUS
<1>1. /\ pc = "main" /\ adv \in Nat
      /\ UNCHANGED <<call, inl, oup, inp, sched, slot, acc, second, written, tag>>
      /\ pc' = IF look = 1 /\ inl > Range /\ inl <= 1152 THEN "twopass" ELSE "sched"
      /\ ctr' = AdvanceCounter(1 % CounterSpace, adv)
  BY DEF Main, IInv, FillInv
<1>2. \/ look = 0 /\ inl = 0 /\ Hashed(len)
      \/ look = 0 /\ inplace /\ inp = 0 /\ Hashed(0) /\ adv = 0
      \/ look = 1 /\ ~inplace /\ inp = Range /\ inl > Range /\ Hashed(0) /\ adv = 16
  BY <1>1 DEF IInv, FillInv
<1>3. inl = 0 \/ (ctr' = DataCounter(inp) /\ inp % Range = 0)
  <2>1. Range % Range = 0 /\ 0 % Range = 0
    BY Z3 DEF Range
  <2> QED BY <1>1, <1>2, <2>1, SetupCounter
<1>4. ctr' \in 0 .. CounterSpace - 1
  <2>1. 1 % CounterSpace \in Nat
    BY CounterInRange
  <2> QED BY <1>1, <2>1, AdvanceCounterType
<1>5. TypeOK'
  BY <1>1, <1>4 DEF IInv, TypeOK, Labels, call, sched
<1>6. FillInv' /\ InPlaceInv' /\ PendingInv' /\ DrainInv' /\ SuffixInv'
  BY <1>1, <1>2, <1>3 DEF IInv, TypeOK, FillInv, InPlaceInv, PendingInv, DrainInv, SuffixInv, AtRange, Hashed, call, sched, Range
<1> QED BY <1>5, <1>6 DEF IInv

\* Each schedule starts from the bytes it was written for.
LEMMA ScheduleInv == IInv /\ Schedule => IInv'
<1> SUFFICES ASSUME IInv, Schedule PROVE IInv'
  OBVIOUS
<1>1. /\ pc = "sched" /\ inl \in Nat
      /\ UNCHANGED <<call, cursors, sched, slot, acc, second, written, tag>>
      /\ written = inp /\ left = 0 /\ second = NoChain /\ (AtRange \/ inl = 0)
      /\ inp + inl = len /\ inp \in Nat
  BY DEF Schedule, IInv, FillInv, TypeOK
<1>2. \/ look = 0 /\ inl = 0 /\ Hashed(len)
      \/ look = 0 /\ inplace /\ inp = 0 /\ Hashed(0) /\ adv = 0
      \/ look = 1 /\ ~inplace /\ inp = Range /\ inl > 1152 /\ Hashed(0) /\ adv = 16
  BY <1>1 DEF IInv, FillInv
<1>3. /\ look = 0 => pc' = IF inl < Range THEN "rest" ELSE "pow"
      /\ look = 1 => pc' = IF inl <= 1536 THEN "one" ELSE "pow"
  BY <1>1, <1>2 DEF Schedule, Range
<1>4. TypeOK'
  BY <1>1, <1>2, <1>3 DEF IInv, TypeOK, Labels, call, cursors, sched
<1>5. FillInv' /\ InPlaceInv' /\ PendingInv' /\ DrainInv' /\ SuffixInv'
  BY <1>1, <1>2, <1>3 DEF IInv, FillInv, InPlaceInv, PendingInv, DrainInv, SuffixInv, AtRange, Hashed, call, cursors, sched, Range
<1> QED BY <1>4, <1>5 DEF IInv

\* From here on the slot holds r^32.
LEMMA Pow32Inv == IInv /\ Pow32 => IInv'
<1> SUFFICES ASSUME IInv, Pow32 PROVE IInv'
  OBVIOUS
<1>1. /\ pc = "pow" /\ slot' = "r32" /\ look \in {0, 1, 2}
      /\ look' = IF look = 0 THEN 0 ELSE 2
      /\ pc' = IF look = 0 THEN "chunk" ELSE "pending"
      /\ UNCHANGED <<call, cursors, adv, left, kern, cap, suffix, acc, second, written, tag>>
  BY DEF Pow32, IInv, TypeOK
<1>2. TypeOK'
  BY <1>1 DEF IInv, TypeOK, Labels, call, cursors
<1>3. CASE look = 0
  <2>1. inl > 0
    BY <1>1, <1>3 DEF IInv, TypeOK, InPlaceInv, Range
  <2> QED BY <1>1, <1>2, <1>3, <2>1
          DEF IInv, FillInv, InPlaceInv, PendingInv, DrainInv, SuffixInv, AtRange, Hashed, call, cursors, Range
<1>4. CASE look # 0
  BY <1>1, <1>2, <1>4 DEF IInv, FillInv, InPlaceInv, PendingInv, DrainInv, SuffixInv, AtRange, Hashed, call, cursors, Range
<1> QED BY <1>3, <1>4

\* The pending range and what follows it are hashed as one interval.
LEMMA TwoPassHashInv == IInv /\ TwoPassHash => IInv'
<1> SUFFICES ASSUME IInv, TwoPassHash PROVE IInv'
  OBVIOUS
<1>1. /\ pc = "twopass" /\ ~inplace /\ AtRange /\ look = 1 /\ left = 0 /\ second = NoChain
      /\ acc = HashOfPrefix(0) /\ inp = Range /\ inl \in Nat /\ inp + inl = len /\ len \in Nat
  BY LengthsAssumption DEF TwoPassHash, Goto, IInv, TypeOK, FillInv, PendingInv, Hashed
<1>2. inp - Range = 0 /\ inl + Range = len /\ Intact(0) = TRUE
  BY <1>1 DEF Intact, Range
<1>3. Absorb(HashOfPrefix(0), 0, len, TRUE) = HashOfPrefix(len)
  <2>1. len \in Nat
    BY <1>1
  <2> QED BY ONLY <2>1, AbsorbFromStart
<1>4. /\ pc' = "twopass_crypt" /\ acc' = HashOfPrefix(len)
      /\ UNCHANGED <<call, cursors, sched, slot, second, written, tag>>
  BY <1>1, <1>2, <1>3 DEF TwoPassHash, Goto, Hash
<1>5. TypeOK'
  BY <1>1, <1>4, AccumulatorTypes DEF IInv, TypeOK, Labels, call, cursors, sched
<1>6. FillInv' /\ InPlaceInv' /\ PendingInv' /\ DrainInv' /\ SuffixInv'
  BY <1>1, <1>4 DEF IInv, FillInv, InPlaceInv, PendingInv, DrainInv, SuffixInv, AtRange, Hashed, call, cursors, sched
<1> QED BY <1>5, <1>6 DEF IInv

\* Everything that remains is decrypted, after all of it has been hashed.
LEMMA LastDecryptInv == IInv /\ (TwoPassDecrypt \/ DecryptRest) => IInv'
<1> SUFFICES ASSUME IInv, TwoPassDecrypt \/ DecryptRest PROVE IInv'
  OBVIOUS
<1>1. /\ pc \in {"twopass_crypt", "rest_crypt"} /\ pc' = "out"
      /\ written' = Emit(written, oup, inp, ctr, inl)
      /\ UNCHANGED <<call, cursors, sched, slot, acc, second, tag>>
  BY DEF TwoPassDecrypt, DecryptRest, Goto
<1>2. /\ AtRange /\ oup = inp /\ inp + inl = len /\ inp \in Nat /\ inl \in Nat /\ len \in Nat
      /\ Hashed(len) /\ second = NoChain
  BY <1>1, LengthsAssumption DEF IInv, TypeOK, FillInv, InPlaceInv, PendingInv
<1>3. written' = len
  BY <1>1, <1>2, EmitAtRange DEF AtRange
<1>4. TypeOK'
  BY <1>1, <1>2, <1>3 DEF IInv, TypeOK, Labels, call, cursors, sched
<1>5. FillInv' /\ InPlaceInv' /\ PendingInv' /\ DrainInv' /\ SuffixInv'
  BY <1>1, <1>2, <1>3 DEF IInv, FillInv, InPlaceInv, PendingInv, DrainInv, SuffixInv, Hashed, call, cursors, sched
<1> QED BY <1>4, <1>5 DEF IInv

-----------------------------------------------------------------------------
(***************************************************************************)
(* The fused passes.                                                       *)
(***************************************************************************)

\* The rounds of a kernel over intact ciphertext that follows the hash.
LEMMA RoundsExtend ==
  ASSUME IInv, NEW k \in DOMAIN MacKernel, NEW ptr \in Nat, Rounds(k, ptr),
         Hashed(ptr), ptr % 16 = 0, Chained(k) \in Nat,
         ~inplace \/ written = ptr
  PROVE  /\ acc' = HashOfPrefix(ptr + Chained(k))
         /\ second' = IF Second(k) = 0 THEN NoChain
                      ELSE [from |-> ptr + Chained(k),
                            to   |-> ptr + Chained(k) + Second(k)]
<1>1. Intact(ptr) = TRUE
  BY DEF Intact, Garbled
<1>2. ptr + Chained(k) \in Nat
  OBVIOUS
<1>3. Absorb(HashOfPrefix(ptr), ptr, Chained(k), TRUE) = HashOfPrefix(ptr + Chained(k))
  BY <1>2, AbsorbNext
<1> QED BY <1>1, <1>3 DEF Rounds, Hash, Hashed

\* A pass that writes a whole range moves every cursor to the next one.
LEMMA AdvanceKeepsRange ==
  ASSUME IInv, AtRange, inl >= Range, AdvanceRange,
         NEW k \in {"mac", "mac1024"}, Stores(k, Range), UNCHANGED call
  PROVE  /\ AtRange' /\ oup' = inp' /\ inp' + inl' = len'
         /\ inp' = inp + Range /\ inl' = inl - Range
         /\ ctr' \in 0 .. CounterSpace - 1
<1>1. inp \in Nat /\ inl \in Nat /\ inp + Range \in Nat /\ oup = inp /\ inp + inl = len
  BY LengthsAssumption DEF IInv, TypeOK, FillInv, Range
<1>2. Stored(k, Range) = Range
  BY KernelStores DEF Range
<1>3. written' = inp + Range
  <2>1. Range \in Nat
    BY DEF Range
  <2> QED BY <1>1, <1>2, <2>1, EmitAtRange DEF Stores, AtRange
<1>4. ctr' = DataCounter(inp + Range)
  BY <1>1, NextRangeCounter DEF AdvanceRange, AtRange
<1>5. (inp + Range) % Range = 0
  BY <1>1, BlockBoundaries DEF AtRange
<1>6. oup' = inp' /\ inp' + inl' = len'
  BY <1>1 DEF AdvanceRange, call, Range
<1>7. inp' = inp + Range /\ inl' = inl - Range
  BY DEF AdvanceRange
<1> QED BY <1>1, <1>3, <1>4, <1>5, <1>6, <1>7, DataCounterType DEF AtRange

\* The second chain joins the first.
LEMMA CombineExtends ==
  ASSUME NEW m \in Nat, m >= 512, Hashed(m - 512), slot = "r32",
         second = [from |-> m - 512, to |-> m], CombineChains
  PROVE  acc' = HashOfPrefix(m) /\ second' = NoChain
<1>1. m - 512 \in Nat /\ m = (m - 512) + 512
  OBVIOUS
<1> QED BY <1>1, CombineNext DEF CombineChains, Hashed

\* The rounds hash the range they may read, in two halves.
LEMMA ChunkRoundsInv == IInv /\ ChunkRounds => IInv'
<1> SUFFICES ASSUME IInv, ChunkRounds PROVE IInv'
  OBVIOUS
<1>1. /\ pc = "chunk" /\ AtRange /\ look = 0 /\ slot = "r32" /\ left = 0 /\ inplace
      /\ Hashed(inp) /\ inp \in Nat /\ inl \in Nat /\ written = inp
  BY LengthsAssumption DEF ChunkRounds, Goto, IInv, TypeOK, InPlaceInv
<1>2. /\ pc' = "chunk_store" /\ inl >= Range
      /\ Rounds("mac", inp)
      /\ UNCHANGED <<call, cursors, sched, slot, written, tag>>
  BY <1>1 DEF ChunkRounds, Goto, Rounds, sched
<1>3. /\ acc' = HashOfPrefix(inp + 512)
      /\ second' = [from |-> inp + 512, to |-> inp + Range]
  <2>1. inp % 16 = 0
    BY <1>1, BlockBoundaries DEF AtRange
  <2>2. inp + 512 + 512 = inp + Range
    BY <1>1 DEF Range
  <2>3. "mac" \in DOMAIN MacKernel
    BY DEF MacKernel
  <2> QED BY <1>1, <1>2, <2>1, <2>2, <2>3, KernelChains, RoundsExtend
<1>4. TypeOK'
  BY <1>1, <1>2, <1>3, AccumulatorTypes DEF IInv, TypeOK, Labels, call, cursors, sched, Range
<1>5. FillInv' /\ InPlaceInv' /\ PendingInv' /\ DrainInv' /\ SuffixInv'
  BY <1>1, <1>2, <1>3 DEF IInv, FillInv, InPlaceInv, PendingInv, DrainInv, SuffixInv, AtRange, Hashed, call, cursors, sched
<1> QED BY <1>4, <1>5 DEF IInv

\* The combined chains are the hash of all that precedes the pending range.
LEMMA ChunkStoresInv == IInv /\ ChunkStores => IInv'
<1> SUFFICES ASSUME IInv, ChunkStores PROVE IInv'
  OBVIOUS
<1>1. /\ pc = "chunk_store" /\ look = 0 /\ slot = "r32" /\ left = 0
      /\ inl >= Range /\ inp \in Nat /\ inl \in Nat /\ len \in Nat
      /\ inplace /\ AtRange
      /\ Hashed(inp + 512) /\ second = [from |-> inp + 512, to |-> inp + Range]
  BY LengthsAssumption DEF ChunkStores, Goto, IInv, TypeOK, InPlaceInv, Range
<1>2. /\ pc' = "chunk" /\ UNCHANGED <<call, sched, slot, tag>>
      /\ Stores("mac", Range) /\ CombineChains /\ AdvanceRange
  BY DEF ChunkStores, Goto
<1>3. acc' = HashOfPrefix(inp + Range) /\ second' = NoChain
  <2> DEFINE m == inp + Range
  <2>1. m \in Nat /\ m >= 512 /\ m - 512 = inp + 512
    BY <1>1 DEF Range
  <2> HIDE DEF m
  <2>2. second = [from |-> m - 512, to |-> m] /\ Hashed(m - 512)
    BY <1>1, <2>1 DEF m
  <2>3. acc' = HashOfPrefix(m) /\ second' = NoChain
    BY <1>1, <1>2, <2>1, <2>2, CombineExtends
  <2> QED BY <2>3 DEF m
<1>4. /\ AtRange' /\ oup' = inp' /\ inp' + inl' = len'
      /\ inp' = inp + Range /\ inl' = inl - Range
      /\ ctr' \in 0 .. CounterSpace - 1
  BY <1>1, <1>2, AdvanceKeepsRange
<1>5. TypeOK'
  BY <1>1, <1>2, <1>3, <1>4, AccumulatorTypes, ZeroAccumulatorType
  DEF IInv, TypeOK, Labels, call, sched, AtRange, Range
<1>6. FillInv' /\ InPlaceInv' /\ PendingInv' /\ DrainInv' /\ SuffixInv'
  BY <1>1, <1>2, <1>3, <1>4 DEF IInv, FillInv, InPlaceInv, PendingInv, DrainInv, SuffixInv, AtRange, Hashed, call, sched, Range
<1> QED BY <1>5, <1>6 DEF IInv

\* Less than a range remains.
LEMMA ChunksDoneInv == IInv /\ ChunksDone => IInv'
<1> SUFFICES ASSUME IInv, ChunksDone PROVE IInv'
  OBVIOUS
<1>1. /\ pc = "chunk" /\ pc' = "rest"
      /\ UNCHANGED <<call, cursors, sched, slot, acc, second, written, tag>>
  BY DEF ChunksDone, Goto
<1>2. TypeOK'
  BY <1>1 DEF IInv, TypeOK, Labels, call, cursors, sched
<1>3. FillInv' /\ InPlaceInv' /\ PendingInv' /\ DrainInv' /\ SuffixInv'
  BY <1>1 DEF IInv, FillInv, InPlaceInv, PendingInv, DrainInv, SuffixInv, AtRange, Hashed, call, cursors, sched
<1> QED BY <1>2, <1>3 DEF IInv

\* The rounds hash the pending range in two halves.
LEMMA PendingRoundsInv == IInv /\ PendingRounds => IInv'
<1> SUFFICES ASSUME IInv, PendingRounds PROVE IInv'
  OBVIOUS
<1> DEFINE ptr == inp - Range
<1>1. /\ pc = "pending" /\ AtRange /\ look = 2 /\ slot = "r32" /\ left = 0 /\ ~inplace
      /\ inp >= Range /\ Hashed(ptr) /\ inp \in Nat /\ inl \in Nat
  BY LengthsAssumption DEF PendingRounds, Goto, IInv, TypeOK, PendingInv, Range
<1>2. /\ pc' = "pending_store" /\ inl >= Range
      /\ Rounds("mac", ptr)
      /\ UNCHANGED <<call, cursors, sched, slot, written, tag>>
  BY <1>1 DEF PendingRounds, Goto, Rounds, sched, Range
<1>3. /\ acc' = HashOfPrefix(inp - 512)
      /\ second' = [from |-> inp - 512, to |-> inp]
  <2>1. ptr \in Nat /\ ptr % 16 = 0
    BY <1>1, BlockBoundaries DEF AtRange, Range
  <2>2. ptr + 512 = inp - 512 /\ ptr + 512 + 512 = inp
    BY <1>1 DEF Range
  <2>3. "mac" \in DOMAIN MacKernel
    BY DEF MacKernel
  <2> QED BY <1>1, <1>2, <2>1, <2>2, <2>3, KernelChains, RoundsExtend
<1>4. TypeOK'
  BY <1>1, <1>2, <1>3, AccumulatorTypes DEF IInv, TypeOK, Labels, call, cursors, sched
<1>5. FillInv' /\ InPlaceInv' /\ PendingInv' /\ DrainInv' /\ SuffixInv'
  BY <1>1, <1>2, <1>3 DEF IInv, FillInv, InPlaceInv, PendingInv, DrainInv, SuffixInv, AtRange, Hashed, call, cursors, sched
<1> QED BY <1>4, <1>5 DEF IInv

\* The combined chains are the hash of all that precedes the new pending range.
LEMMA PendingStoresInv == IInv /\ PendingStores => IInv'
<1> SUFFICES ASSUME IInv, PendingStores PROVE IInv'
  OBVIOUS
<1>1. /\ pc = "pending_store" /\ AtRange /\ look = 2 /\ slot = "r32" /\ left = 0 /\ ~inplace
      /\ inp >= Range /\ inl >= Range /\ inp \in Nat /\ inl \in Nat /\ len \in Nat
      /\ Hashed(inp - 512) /\ second = [from |-> inp - 512, to |-> inp]
  BY LengthsAssumption DEF PendingStores, Goto, IInv, TypeOK, PendingInv, Range
<1>2. /\ pc' = "pending" /\ UNCHANGED <<call, sched, slot, tag>>
      /\ Stores("mac", Range) /\ CombineChains /\ AdvanceRange
  BY DEF PendingStores, Goto
<1>3. acc' = HashOfPrefix(inp) /\ second' = NoChain
  BY <1>1, <1>2, CombineExtends DEF Range
<1>4. /\ AtRange' /\ oup' = inp' /\ inp' + inl' = len'
      /\ inp' = inp + Range /\ inl' = inl - Range
      /\ ctr' \in 0 .. CounterSpace - 1
  BY <1>1, <1>2, AdvanceKeepsRange
<1>5. inp' - Range = inp
  BY <1>1, <1>4 DEF Range
<1>6. TypeOK'
  BY <1>1, <1>2, <1>3, <1>4, AccumulatorTypes, ZeroAccumulatorType
  DEF IInv, TypeOK, Labels, call, sched, AtRange, Range
<1>7. FillInv' /\ InPlaceInv' /\ PendingInv' /\ DrainInv' /\ SuffixInv'
  BY <1>1, <1>2, <1>3, <1>4, <1>5 DEF IInv, FillInv, InPlaceInv, PendingInv, DrainInv, SuffixInv, AtRange, Hashed, call, sched, Range
<1> QED BY <1>6, <1>7 DEF IInv

\* Everything that remains is decrypted; the suffix starts one range back.
LEMMA Tail17Inv == IInv /\ Tail17 => IInv'
<1> SUFFICES ASSUME IInv, Tail17 PROVE IInv'
  OBVIOUS
<1>1. /\ pc = "pending" /\ AtRange /\ second = NoChain /\ left = 0 /\ ~inplace
      /\ Hashed(inp - Range) /\ inp >= Range /\ oup = inp /\ inp + inl = len
      /\ inp \in Nat /\ inl \in Nat /\ len \in Nat
  BY LengthsAssumption DEF Tail17, Goto, IInv, TypeOK, FillInv, PendingInv, Range
<1>2. written' = len
  BY <1>1, EmitAtRange DEF Tail17, AtRange
<1>3. /\ pc' = "suffix" /\ suffix' = [from |-> inp - Range, n |-> inl + Range]
      /\ UNCHANGED <<call, cursors, adv, look, left, kern, cap, slot, acc, second, tag>>
  BY DEF Tail17, Goto
<1>4. (inp - Range) % 16 = 0
  BY <1>1, BlockBoundaries DEF AtRange
<1>5. TypeOK'
  BY <1>1, <1>2, <1>3 DEF IInv, TypeOK, Labels, call, cursors, Range
<1>6. FillInv' /\ InPlaceInv' /\ PendingInv' /\ DrainInv' /\ SuffixInv'
  BY <1>1, <1>2, <1>3, <1>4 DEF IInv, FillInv, InPlaceInv, PendingInv, DrainInv, SuffixInv, Hashed, call, cursors, Range
<1> QED BY <1>5, <1>6 DEF IInv

\* Less than a range remains, and a range is pending.
LEMMA PendingDoneInv == IInv /\ PendingDone => IInv'
<1> SUFFICES ASSUME IInv, PendingDone PROVE IInv'
  OBVIOUS
<1>1. /\ pc = "pending" /\ pc' = "drain" /\ inl < Range /\ left = 0 /\ inp \in Nat
      /\ UNCHANGED <<call, cursors, sched, slot, acc, second, written, tag>>
  BY LengthsAssumption DEF PendingDone, Goto, IInv, TypeOK, PendingInv
<1>2. TypeOK'
  BY <1>1 DEF IInv, TypeOK, Labels, call, cursors, sched
<1>3. FillInv' /\ InPlaceInv' /\ PendingInv' /\ DrainInv' /\ SuffixInv'
  BY <1>1 DEF IInv, FillInv, InPlaceInv, PendingInv, DrainInv, SuffixInv, AtRange, Hashed, call, cursors, sched, Range
<1> QED BY <1>2, <1>3 DEF IInv

\* The single chain hashes the first half of the pending range.
LEMMA OneRoundsInv == IInv /\ OneRounds => IInv'
<1> SUFFICES ASSUME IInv, OneRounds PROVE IInv'
  OBVIOUS
<1>1. /\ pc = "one" /\ AtRange /\ look = 1 /\ left = 0 /\ second = NoChain /\ ~inplace
      /\ inp = Range /\ Hashed(0) /\ inl > Range /\ inl <= 1536
  BY DEF OneRounds, Goto, IInv, PendingInv
<1>2. /\ pc' = "one_store"
      /\ Rounds("mac1024", 0)
      /\ UNCHANGED <<call, cursors, sched, slot, written, tag>>
  BY <1>1 DEF OneRounds, Goto, Rounds, sched, Range
<1>3. acc' = HashOfPrefix(inp - 512) /\ second' = NoChain
  <2>1. 0 % 16 = 0
    BY Z3
  <2>2. "mac1024" \in DOMAIN MacKernel
    BY DEF MacKernel
  <2>3. 0 + 512 = inp - 512
    BY <1>1 DEF Range
  <2> QED BY <1>1, <1>2, <2>1, <2>2, <2>3, KernelChains, RoundsExtend
<1>4. TypeOK'
  <2>1. inp - 512 \in Int
    BY <1>1 DEF Range
  <2> QED BY <1>2, <1>3, <2>1, AccumulatorTypes, ZeroAccumulatorType
          DEF IInv, TypeOK, Labels, call, cursors, sched
<1>5. FillInv' /\ InPlaceInv' /\ PendingInv' /\ DrainInv' /\ SuffixInv'
  BY <1>1, <1>2, <1>3 DEF IInv, FillInv, InPlaceInv, PendingInv, DrainInv, SuffixInv, AtRange, Hashed, call, cursors, sched, Range
<1> QED BY <1>4, <1>5 DEF IInv

\* Half a range stays behind, and at most 512 bytes are left: a narrow drain.
LEMMA OneStoresInv == IInv /\ OneStores => IInv'
<1> SUFFICES ASSUME IInv, OneStores PROVE IInv'
  OBVIOUS
<1>1. /\ pc = "one_store" /\ AtRange /\ inp >= Range /\ inp \in Nat /\ inl \in Nat
      /\ look = 1 /\ left = 0 /\ second = NoChain /\ ~inplace
      /\ inl > Range /\ inl <= 1536 /\ Hashed(inp - 512) /\ len \in Nat
  BY LengthsAssumption DEF OneStores, Goto, IInv, TypeOK, PendingInv, Range
<1>2. /\ pc' = "drain" /\ look' = 1 /\ left' = 512
      /\ Stores("mac1024", Range) /\ AdvanceRange
      /\ UNCHANGED <<call, adv, kern, cap, suffix, slot, acc, second, tag>>
  BY DEF OneStores, Goto
<1>3. /\ AtRange' /\ oup' = inp' /\ inp' + inl' = len'
      /\ inp' = inp + Range /\ inl' = inl - Range
      /\ ctr' \in 0 .. CounterSpace - 1
  BY <1>1, <1>2, AdvanceKeepsRange DEF Range
<1>4. inp' - Range - left' = inp - 512
  BY <1>1, <1>2, <1>3 DEF Range
<1>5. TypeOK'
  BY <1>1, <1>2, <1>3 DEF IInv, TypeOK, Labels, call, AtRange, Range
<1>6. FillInv' /\ InPlaceInv' /\ PendingInv' /\ DrainInv' /\ SuffixInv'
  BY <1>1, <1>2, <1>3, <1>4 DEF IInv, FillInv, InPlaceInv, PendingInv, DrainInv, SuffixInv, Hashed, call, Range
<1> QED BY <1>5, <1>6 DEF IInv

-----------------------------------------------------------------------------
(***************************************************************************)
(* The drain.                                                              *)
(***************************************************************************)

\* With no residue the suffix is the pending range.
LEMMA DrainExactInv == IInv /\ DrainExact => IInv'
<1> SUFFICES ASSUME IInv, DrainExact PROVE IInv'
  OBVIOUS
<1>1. /\ pc = "drain" /\ AtRange /\ second = NoChain /\ inl = 0 /\ left \in {0, 512} /\ ~inplace
      /\ inp >= Range + left /\ Hashed(inp - Range - left) /\ inp \in Nat /\ inp = len
  BY LengthsAssumption DEF DrainExact, Goto, IInv, TypeOK, FillInv, PendingInv, DrainInv
<1>2. /\ pc' = "suffix" /\ suffix' = [from |-> inp - Range, n |-> Range]
      /\ UNCHANGED <<call, cursors, adv, look, left, kern, cap, slot, acc, second, written, tag>>
  BY DEF DrainExact, Goto
<1>3. (inp - Range - left) % 16 = 0 /\ inp - Range - left \in Nat
  BY <1>1, BlockBoundaries DEF AtRange, Range
<1>4. TypeOK'
  BY <1>1, <1>2 DEF IInv, TypeOK, Labels, call, cursors, Range
<1>5. FillInv' /\ InPlaceInv' /\ PendingInv' /\ DrainInv' /\ SuffixInv'
  BY <1>1, <1>2, <1>3 DEF IInv, FillInv, InPlaceInv, PendingInv, DrainInv, SuffixInv, AtRange, Hashed, call, cursors, Range
<1> QED BY <1>4, <1>5 DEF IInv

\* The drain resumes where the last chain stopped.
LEMMA DrainRoundsInv == IInv /\ DrainRounds => IInv'
<1> SUFFICES ASSUME IInv, DrainRounds PROVE IInv'
  OBVIOUS
<1> DEFINE ptr == inp - Range - left
<1>1. /\ pc = "drain" /\ AtRange /\ inp >= Range + left /\ Hashed(ptr) /\ ~inplace
      /\ inl > 0 /\ inl < Range /\ inp \in Nat /\ inl \in Nat /\ left \in {0, 512}
      /\ \/ look = 2 /\ slot = "r32" /\ left = 0
         \/ look = 1 /\ left = 512 /\ inl <= 512
  BY LengthsAssumption DEF DrainRounds, Goto, IInv, TypeOK, PendingInv, DrainInv
<1>2. /\ pc' = "drain_store"
      /\ Rounds(kern', ptr)
      /\ UNCHANGED <<call, cursors, adv, look, left, suffix, slot, written, tag>>
  BY <1>1 DEF DrainRounds, Goto, Rounds, Range
<1>3. \/ kern' = "mac128" /\ cap' = 256 /\ inl <= 128
      \/ kern' = "mac256" /\ cap' = 256 /\ inl <= 256
      \/ kern' = "mac512" /\ cap' = 384 /\ inl <= 512
      \/ kern' = "mac" /\ cap' = 0 /\ look = 2
  BY <1>1 DEF DrainRounds, DrainChoice
<1>4. ptr % 16 = 0
  BY <1>1, BlockBoundaries DEF AtRange, Range
<1>5. ptr \in Nat
  BY <1>1 DEF Range
<1>6. kern' \in DOMAIN MacKernel
  BY <1>3 DEF MacKernel
<1> HIDE DEF ptr
<1>7. CASE kern' = "mac"
  <2>1. left = 0 /\ slot = "r32" /\ cap' = 0 /\ look = 2
    BY <1>1, <1>3, <1>7
  <2>2. acc' = HashOfPrefix(ptr + 512) /\ second' = [from |-> ptr + 512, to |-> ptr + 512 + 512]
    BY <1>1, <1>2, <1>4, <1>5, <1>6, <1>7, KernelChains, RoundsExtend
  <2>3. ptr + 512 = inp - 512 /\ ptr + 512 + 512 = inp
    BY <1>1, <2>1 DEF ptr, Range
  <2>4. TypeOK'
    BY <1>1, <1>2, <1>6, <1>7, <2>1, <2>2, <2>3, AccumulatorTypes
    DEF IInv, TypeOK, Labels, call, cursors
  <2>5. FillInv' /\ InPlaceInv' /\ PendingInv' /\ DrainInv' /\ SuffixInv'
    BY <1>1, <1>2, <1>7, <2>1, <2>2, <2>3
    DEF IInv, FillInv, InPlaceInv, PendingInv, DrainInv, SuffixInv, AtRange, Hashed, call, cursors, Range
  <2> QED BY <2>4, <2>5 DEF IInv
<1>8. CASE kern' # "mac"
  <2>1. PICK c \in {256, 384} : cap' = c /\ Chained(kern') = c /\ Second(kern') = 0
    BY <1>3, <1>8, KernelChains
  <2>2. acc' = HashOfPrefix(ptr + c) /\ second' = NoChain
    BY <1>1, <1>2, <1>4, <1>5, <1>6, <2>1, RoundsExtend
  <2>3. TypeOK'
    <3>1. ptr + c \in Int
      BY <1>5, <2>1
    <3> QED BY <1>1, <1>2, <1>6, <2>1, <2>2, <3>1, AccumulatorTypes, ZeroAccumulatorType
            DEF IInv, TypeOK, Labels, call, cursors
  <2>4. DrainInv'
    <3>1. acc' = HashOfPrefix(inp' - Range - left' + cap')
      BY <1>2, <2>1, <2>2 DEF ptr, cursors
    <3> QED BY <1>1, <1>2, <1>3, <1>8, <2>2, <3>1 DEF DrainInv, Hashed, call, cursors
  <2>5. FillInv' /\ InPlaceInv' /\ PendingInv' /\ SuffixInv'
    BY <1>1, <1>2, <1>8, <2>2
    DEF IInv, FillInv, InPlaceInv, PendingInv, SuffixInv, AtRange, call, cursors, Range
  <2> QED BY <2>3, <2>4, <2>5 DEF IInv
<1> QED BY <1>7, <1>8

\* The suffix begins where the narrow chain ended.
LEMMA NarrowDrainStoresInv == IInv /\ NarrowDrainStores => IInv'
<1> SUFFICES ASSUME IInv, NarrowDrainStores PROVE IInv'
  OBVIOUS
<1>1. /\ pc = "drain_store" /\ kern # "mac" /\ AtRange /\ second = NoChain /\ ~inplace
      /\ oup = inp /\ inp + inl = len
      /\ inp >= Range + left /\ inl < Range /\ inp \in Nat /\ inl \in Nat /\ left \in {0, 512}
      /\ Hashed(inp - Range - left + cap) /\ len \in Nat
      /\ \/ kern = "mac128" /\ cap = 256 /\ inl <= 128
         \/ kern = "mac256" /\ cap = 256 /\ inl <= 256
         \/ kern = "mac512" /\ cap = 384 /\ inl <= 512
  BY LengthsAssumption DEF NarrowDrainStores, Goto, IInv, TypeOK, FillInv, PendingInv, DrainInv
<1>2. Stored(kern, inl) = inl
  BY <1>1, KernelStores
<1>3. written' = len
  BY <1>1, <1>2, EmitAtRange, SMTT(30) DEF NarrowDrainStores, Stores, AtRange
<1>4. /\ pc' = "suffix"
      /\ suffix' = [from |-> inp - (Range - cap), n |-> inl + (Range - cap)]
      /\ UNCHANGED <<call, cursors, adv, look, left, kern, cap, slot, acc, second, tag>>
  BY <1>1 DEF NarrowDrainStores, Goto
<1>5. (inp - (Range - cap) - left) % 16 = 0
  <2>1. (inp - 1024) % 1024 = 0
    BY <1>1, BlockBoundaries DEF AtRange, Range
  <2> DEFINE b == inp - 1024
  <2>2. b \in Nat /\ b % 1024 = 0
    BY <1>1, <2>1 DEF Range
  <2>3. inp - (Range - cap) - left = b + cap - left
    BY <1>1 DEF Range
  <2> HIDE DEF b
  <2>4. \A c \in {256, 384}, l \in {0, 512} : (b + c - l) % 16 = 0
    BY <2>2, Z3
  <2> QED BY <1>1, <2>3, <2>4
<1>6. TypeOK'
  BY <1>1, <1>3, <1>4 DEF IInv, TypeOK, Labels, call, cursors, Range
<1>7. FillInv' /\ InPlaceInv' /\ PendingInv' /\ DrainInv' /\ SuffixInv'
  <2>1. /\ suffix'.from - left' = inp - Range - left + cap
        /\ suffix'.from - left' \in Nat /\ suffix'.from + suffix'.n = len
    BY <1>1, <1>4 DEF Range
  <2>2. (suffix'.from - left') % 16 = 0
    BY <1>4, <1>5
  <2>3. SuffixInv'
    BY <1>1, <1>3, <1>4, <2>1, <2>2 DEF IInv, SuffixInv, Hashed, call
  <2> QED BY <1>1, <1>3, <1>4, <2>3
          DEF IInv, FillInv, InPlaceInv, PendingInv, DrainInv, call, cursors
<1> QED BY <1>6, <1>7 DEF IInv

\* After a wide drain the suffix is the residue.
LEMMA WideDrainStoresInv == IInv /\ WideDrainStores => IInv'
<1> SUFFICES ASSUME IInv, WideDrainStores PROVE IInv'
  OBVIOUS
<1>1. /\ pc = "drain_store" /\ kern = "mac" /\ AtRange /\ ~inplace
      /\ oup = inp /\ inp + inl = len
      /\ inp >= Range /\ inl < Range /\ inp \in Nat /\ inl \in Nat /\ left = 0 /\ slot = "r32"
      /\ Hashed(inp - 512) /\ second = [from |-> inp - 512, to |-> inp] /\ len \in Nat
  BY LengthsAssumption
  DEF WideDrainStores, Goto, IInv, TypeOK, FillInv, PendingInv, DrainInv, Range
<1>2. Stored(kern, inl) = inl
  BY <1>1, KernelStores DEF Range
<1>3. written' = len
  BY <1>1, <1>2, EmitAtRange DEF WideDrainStores, Stores, AtRange
<1>4. acc' = HashOfPrefix(inp) /\ second' = NoChain
  BY <1>1, CombineExtends DEF WideDrainStores, Range
<1>5. /\ pc' = "suffix" /\ suffix' = [from |-> inp, n |-> inl]
      /\ UNCHANGED <<call, cursors, adv, look, left, kern, cap, slot, tag>>
  BY DEF WideDrainStores, Goto
<1>6. inp % 16 = 0
  BY <1>1, BlockBoundaries DEF AtRange
<1>7. TypeOK'
  BY <1>1, <1>3, <1>4, <1>5, AccumulatorTypes, ZeroAccumulatorType
  DEF IInv, TypeOK, Labels, call, cursors
<1>8. FillInv' /\ InPlaceInv' /\ PendingInv' /\ DrainInv' /\ SuffixInv'
  BY <1>1, <1>3, <1>4, <1>5, <1>6 DEF IInv, FillInv, InPlaceInv, PendingInv, DrainInv, SuffixInv, Hashed, call, cursors
<1> QED BY <1>7, <1>8 DEF IInv

-----------------------------------------------------------------------------
(***************************************************************************)
(* The suffix, the rest of an in-place open, the tag.                      *)
(***************************************************************************)

\* The suffix ends the record.
LEMMA HashSuffixInv == IInv /\ HashSuffix => IInv'
<1> SUFFICES ASSUME IInv, HashSuffix PROVE IInv'
  OBVIOUS
<1> DEFINE m == suffix.from - left
           k == suffix.n + left
<1>1. /\ pc = "suffix" /\ ~inplace /\ written = len /\ second = NoChain /\ len \in Nat
      /\ m \in Nat /\ m % 16 = 0 /\ k \in Nat /\ m + k = len
      /\ acc = HashOfPrefix(m)
  BY LengthsAssumption DEF HashSuffix, Goto, IInv, TypeOK, SuffixInv, Hashed
<1>2. /\ pc' = "out" /\ left' = 0
      /\ acc' = Absorb(acc, m, k, Intact(m))
      /\ UNCHANGED <<call, cursors, adv, look, kern, cap, suffix, slot, second, written, tag>>
  BY DEF HashSuffix, Goto, Hash
<1> HIDE DEF m, k
<1>3. Intact(m) = TRUE
  BY <1>1 DEF Intact
<1>4. acc' = HashOfPrefix(len)
  BY <1>1, <1>2, <1>3, AbsorbNext
<1>5. TypeOK'
  BY <1>1, <1>2, <1>4, AccumulatorTypes DEF IInv, TypeOK, Labels, call, cursors
<1>6. FillInv' /\ InPlaceInv' /\ PendingInv' /\ DrainInv' /\ SuffixInv'
  BY <1>1, <1>2, <1>4 DEF IInv, FillInv, InPlaceInv, PendingInv, DrainInv, SuffixInv, Hashed, call, cursors
<1> QED BY <1>5, <1>6 DEF IInv

\* An empty rest leaves the whole record hashed.
LEMMA NoRestInv == IInv /\ NoRest => IInv'
<1> SUFFICES ASSUME IInv, NoRest PROVE IInv'
  OBVIOUS
<1>1. /\ pc = "rest" /\ pc' = "out" /\ inl = 0 /\ inp = len /\ written = len
      /\ Hashed(len) /\ second = NoChain
      /\ UNCHANGED <<call, cursors, sched, slot, acc, second, written, tag>>
  BY LengthsAssumption DEF NoRest, Goto, IInv, TypeOK, FillInv, InPlaceInv
<1>2. TypeOK'
  BY <1>1 DEF IInv, TypeOK, Labels, call, cursors, sched
<1>3. FillInv' /\ InPlaceInv' /\ PendingInv' /\ DrainInv' /\ SuffixInv'
  BY <1>1 DEF IInv, FillInv, InPlaceInv, PendingInv, DrainInv, SuffixInv, Hashed, call, cursors, sched
<1> QED BY <1>2, <1>3 DEF IInv

\* The rest is hashed before it is decrypted.
LEMMA HashRestInv == IInv /\ HashRest => IInv'
<1> SUFFICES ASSUME IInv, HashRest PROVE IInv'
  OBVIOUS
<1>1. /\ pc = "rest" /\ inl # 0 /\ inplace /\ AtRange /\ look = 0 /\ left = 0
      /\ acc = HashOfPrefix(inp) /\ second = NoChain
      /\ inp \in Nat /\ inl \in Nat /\ len \in Nat /\ inp + inl = len
  BY LengthsAssumption DEF HashRest, Goto, IInv, TypeOK, FillInv, InPlaceInv, Hashed
<1>2. Intact(inp) = TRUE
  BY <1>1 DEF Intact, AtRange, Garbled
<1>3. inp % 16 = 0
  BY <1>1, BlockBoundaries DEF AtRange
<1>4. /\ pc' = "rest_crypt" /\ acc' = HashOfPrefix(len)
      /\ UNCHANGED <<call, cursors, sched, slot, second, written, tag>>
  BY <1>1, <1>2, <1>3, AbsorbNext DEF HashRest, Goto, Hash
<1>5. TypeOK'
  BY <1>1, <1>4, AccumulatorTypes DEF IInv, TypeOK, Labels, call, cursors, sched
<1>6. FillInv' /\ InPlaceInv' /\ PendingInv' /\ DrainInv' /\ SuffixInv'
  BY <1>1, <1>4 DEF IInv, FillInv, InPlaceInv, PendingInv, DrainInv, SuffixInv, AtRange, Hashed, call, cursors, sched
<1> QED BY <1>5, <1>6 DEF IInv

\* The length block completes the hash of the record.
LEMMA OutInv == IInv /\ Out => IInv'
<1> SUFFICES ASSUME IInv, Out PROVE IInv'
  OBVIOUS
<1>1. pc = "out" /\ Hashed(len) /\ written = len /\ second = NoChain /\ len \in Nat
  BY LengthsAssumption DEF Out, Goto, IInv, TypeOK, SuffixInv
<1>2. /\ pc' = "done" /\ tag' = TRUE /\ acc' = HashOfRecord(len)
      /\ UNCHANGED <<call, cursors, sched, slot, second, written>>
  BY <1>1, LengthsLast DEF Out, Goto, Hashed
<1>3. TypeOK'
  <2>1. tag' \in BOOLEAN
    BY <1>2
  <2>2. acc' \in Accumulator
    BY <1>1, <1>2, AccumulatorTypes
  <2> QED BY <1>2, <2>1, <2>2 DEF IInv, TypeOK, Labels, call, cursors, sched
<1>4. FillInv' /\ InPlaceInv' /\ PendingInv' /\ DrainInv' /\ SuffixInv'
  BY <1>1, <1>2 DEF IInv, FillInv, InPlaceInv, PendingInv, DrainInv, SuffixInv, call, cursors
<1> QED BY <1>3, <1>4 DEF IInv

-----------------------------------------------------------------------------
(***************************************************************************)
(* Every step.                                                             *)
(***************************************************************************)

\* The invariant depends on nothing but the variables.
LEMMA StutterInv == IInv /\ UNCHANGED vars => IInv'
  BY DEF IInv, TypeOK, FillInv, InPlaceInv, PendingInv, DrainInv, SuffixInv, AtRange, Hashed, vars, call, cursors, sched

\* The invariant is inductive.
LEMMA StepInv == IInv /\ [Next]_vars => IInv'
<1> SUFFICES ASSUME IInv, [Next]_vars PROVE IInv'
  OBVIOUS
<1>1. CASE KeyOnly \/ Fill \/ HashAad \/ NoFill \/ KeepFillPending \/ HashFillNow
  BY <1>1, KeyOnlyInv, FillStepInv, HashAadInv, NoFillInv, KeepFillPendingInv, HashFillNowInv
<1>2. CASE Main \/ Schedule \/ Pow32 \/ TwoPassHash \/ TwoPassDecrypt
  BY <1>2, MainInv, ScheduleInv, Pow32Inv, TwoPassHashInv, LastDecryptInv
<1>3. CASE ChunkRounds \/ ChunkStores \/ ChunksDone
  BY <1>3, ChunkRoundsInv, ChunkStoresInv, ChunksDoneInv
<1>4. CASE PendingRounds \/ PendingStores \/ Tail17 \/ PendingDone \/ OneRounds \/ OneStores
  BY <1>4, PendingRoundsInv, PendingStoresInv, Tail17Inv, PendingDoneInv,
     OneRoundsInv, OneStoresInv
<1>5. CASE DrainExact \/ DrainRounds \/ NarrowDrainStores \/ WideDrainStores \/ HashSuffix
  BY <1>5, DrainExactInv, DrainRoundsInv, NarrowDrainStoresInv, WideDrainStoresInv,
     HashSuffixInv
<1>6. CASE NoRest \/ HashRest \/ DecryptRest \/ Out
  BY <1>6, NoRestInv, HashRestInv, LastDecryptInv, OutInv
<1>7. CASE Returned \/ UNCHANGED vars
  BY <1>7, StutterInv DEF Returned
<1> QED BY <1>1, <1>2, <1>3, <1>4, <1>5, <1>6, <1>7 DEF Next

\* The inductive invariant of open, for every record length, in place or not.
THEOREM OpenInvariant == Spec => []IInv
  BY InitInv, StepInv, PTL DEF Spec

\* The cursors stay inside the record whatever its length.
THEOREM OpenTypeOK == Spec => []TypeOK
<1>1. IInv => TypeOK
  BY DEF IInv
<1> QED BY <1>1, OpenInvariant, PTL

\* Whatever schedule a length selects, the tag that is computed is that of the
\* whole record, all of which has been decrypted.
THEOREM OpenTagCoversRecord == Spec => []TagCoversRecord
<1>1. IInv => TagCoversRecord
  BY DEF IInv, SuffixInv, TagCoversRecord
<1> QED BY <1>1, OpenInvariant, PTL

\* At every label the accumulator is the hash of a prefix, without a fault,
\* neither chain has read past the record, and the output is a prefix.
LEMMA NoFault ==
  ASSUME IInv
  PROVE  acc.faults = {} /\ WithinRecord /\ KeystreamInOrder
<1> USE LengthsAssumption DEF WithinRecord, KeystreamInOrder, Garbled
<1>1. ZeroAccumulator.faults = {} /\ ZeroAccumulator.ct = 0 /\ NoChain.to = 0
  BY DEF ZeroAccumulator, NoChain
<1>2. \A n \in Int : /\ HashOfPrefix(n).faults = {} /\ HashOfPrefix(n).ct = n
                     /\ HashOfRecord(n).faults = {} /\ HashOfRecord(n).ct = n
  BY DEF HashOfPrefix, HashOfRecord
<1>3. inp \in Nat /\ inl \in Nat /\ len \in Nat /\ inp + inl = len
  BY DEF IInv, TypeOK, FillInv
<1>4. CASE pc \in {"entry", "aad", "fill_hash", "main", "sched"}
  BY <1>1, <1>2, <1>3, <1>4 DEF IInv, FillInv, Hashed
<1>5. CASE pc \in {"chunk", "chunk_store", "rest", "rest_crypt"} \/ (pc = "pow" /\ look = 0)
  BY <1>1, <1>2, <1>3, <1>5 DEF IInv, InPlaceInv, AtRange, Hashed, Range
<1>6. CASE pc \in {"twopass", "twopass_crypt", "pending", "one"} \/ (pc = "pow" /\ look # 0)
  BY <1>1, <1>2, <1>3, <1>6 DEF IInv, PendingInv, AtRange, Hashed, Range
<1>7. CASE pc \in {"pending_store", "one_store"}
  BY <1>1, <1>2, <1>3, <1>7 DEF IInv, PendingInv, AtRange, Hashed
<1>8. CASE pc = "drain"
  BY <1>1, <1>2, <1>3, <1>8 DEF IInv, TypeOK, PendingInv, DrainInv, AtRange, Hashed, Range
<1>9. CASE pc = "drain_store"
  <2>1. written = inp /\ left \in Nat
    BY <1>9 DEF IInv, TypeOK, PendingInv, AtRange
  <2>2. CASE kern = "mac"
    BY <1>2, <1>3, <1>9, <2>1, <2>2 DEF IInv, PendingInv, Hashed
  <2>3. CASE kern # "mac"
    <3>1. PICK c \in {256, 384} : Hashed(inp - Range - left + c) /\ second = NoChain
      BY <1>9, <2>3 DEF IInv, DrainInv
    <3> QED BY <1>1, <1>2, <1>3, <2>1, <3>1 DEF Hashed, Range
  <2> QED BY <2>2, <2>3
<1>10. CASE pc = "suffix"
  <2>1. /\ suffix.from - left \in 0 .. len /\ Hashed(suffix.from - left)
        /\ written = len /\ second = NoChain
    BY <1>3, <1>10 DEF IInv, TypeOK, SuffixInv
  <2> QED BY <1>1, <1>2, <1>3, <2>1 DEF Hashed
<1>11. CASE pc \in {"out", "done"}
  BY <1>1, <1>2, <1>3, <1>11 DEF IInv, SuffixInv, Hashed
<1> QED BY <1>4, <1>5, <1>6, <1>7, <1>8, <1>9, <1>10, <1>11 DEF IInv, TypeOK, Labels

\* Nothing is authenticated twice, skipped or out of order.
THEOREM OpenMacInOrder == Spec => []MacInOrder
<1>1. IInv => MacInOrder
  BY NoFault DEF MacInOrder
<1> QED BY <1>1, OpenInvariant, PTL

\* An in-place open authenticates every byte before it overwrites it.
THEOREM OpenMacOverCiphertext == Spec => []MacOverCiphertext
<1>1. IInv => MacOverCiphertext
  BY NoFault DEF MacOverCiphertext
<1> QED BY <1>1, OpenInvariant, PTL

\* Every block is decrypted under its own counter.
THEOREM OpenKeystreamInOrder == Spec => []KeystreamInOrder
<1>1. IInv => KeystreamInOrder
  BY NoFault
<1> QED BY <1>1, OpenInvariant, PTL

\* The kernels that authenticate a fixed number of bytes stay in the record.
THEOREM OpenWithinRecord == Spec => []WithinRecord
<1>1. IInv => WithinRecord
  BY NoFault
<1> QED BY <1>1, OpenInvariant, PTL

-----------------------------------------------------------------------------
(***************************************************************************)
(* Every step is a step of the record's, or none.                          *)
(***************************************************************************)

\* How far the authenticator has got, by where it is.
LEMMA Fronts ==
  /\ acc = ZeroAccumulator /\ second = NoChain => Absorbed = 0
  /\ \A n : Hashed(n) /\ second = NoChain => Absorbed = n
  /\ \A n : acc = HashOfRecord(n) /\ second = NoChain => Absorbed = n
  /\ \A m, n : second = [from |-> m, to |-> n] /\ n # 0 => Absorbed = n
  BY DEF Absorbed, Hashed, ZeroAccumulator, HashOfPrefix, HashOfRecord, NoChain

\* What has been authenticated and what has been decrypted, label by label.
Places ==
  /\ len \in Nat /\ inp \in Nat /\ inl \in Nat /\ inp + inl = len
  /\ written \in 0 .. len
  /\ pc \in {"entry", "aad", "fill_hash"} => written = inp /\ Absorbed = 0
  /\ pc = "entry" => inp = 0
  /\ pc \in {"main", "sched"} => Absorbed = IF inl = 0 THEN len ELSE 0
  /\ pc \in {"twopass", "one"} => Absorbed = 0
  /\ pc \in {"chunk", "rest"} => Absorbed = inp
  /\ pc \in {"chunk_store", "rest_crypt"} => written = inp
  /\ pc = "chunk_store" => inl >= Range /\ Absorbed = inp + Range
  /\ pc \in {"twopass_crypt", "rest_crypt", "out", "done"} => Absorbed = len
  /\ pc = "pending" => Absorbed = inp - Range
  /\ pc = "pending_store" => inl >= Range /\ Absorbed = inp
  /\ pc \in {"one", "one_store"} => inl > Range
  /\ pc = "one_store" => Absorbed = inp - 512
  /\ pc = "drain" => Absorbed = inp - Range - left
  /\ pc = "drain_store" =>
       Absorbed = IF kern = "mac" THEN inp ELSE inp - Range - left + cap
  /\ pc \in {"chunk", "rest", "twopass", "twopass_crypt", "pending", "pending_store",
             "one", "one_store", "drain", "drain_store"} => written = inp
  /\ pc \in {"twopass", "twopass_crypt", "pending", "pending_store", "one",
             "one_store", "drain", "drain_store", "suffix"} => ~inplace
  /\ pc \in {"chunk", "chunk_store"} => inplace
  /\ pc \in {"suffix", "out", "done"} => written = len
  /\ pc = "suffix" => Absorbed \in 0 .. len
  /\ tag => pc = "done"

LEMMA PlacesHold == IInv => Places
<1> SUFFICES ASSUME IInv PROVE Places
  OBVIOUS
<1>1. /\ len \in Nat /\ inp \in Nat /\ inl \in Nat /\ inp + inl = len
      /\ left \in Nat /\ tag \in BOOLEAN /\ inplace \in BOOLEAN
  BY LengthsAssumption DEF IInv, TypeOK, FillInv
<1>2. written \in 0 .. len
  BY <1>1, NoFault DEF IInv, TypeOK, WithinRecord, KeystreamInOrder
<1>3. /\ pc \in {"entry", "aad", "fill_hash"} => written = inp /\ Absorbed = 0
      /\ pc = "entry" => inp = 0
      /\ pc \in {"main", "sched"} => Absorbed = IF inl = 0 THEN len ELSE 0
  BY <1>1, Fronts DEF IInv, FillInv, Range
<1>4. /\ pc \in {"chunk", "rest"} => Absorbed = inp /\ written = inp
      /\ pc = "chunk_store" => inl >= Range /\ Absorbed = inp + Range
      /\ pc = "rest_crypt" => Absorbed = len
      /\ pc \in {"chunk_store", "rest_crypt"} => written = inp
      /\ pc \in {"chunk", "chunk_store"} => inplace
  BY <1>1, Fronts DEF IInv, InPlaceInv, AtRange, Range
<1>5. /\ pc \in {"twopass", "one"} => Absorbed = 0
      /\ pc = "twopass_crypt" => Absorbed = len
      /\ pc = "pending" => Absorbed = inp - Range
      /\ pc \in {"twopass", "twopass_crypt", "pending", "pending_store", "one",
                 "one_store", "drain", "drain_store"} => ~inplace /\ written = inp
      /\ pc = "pending_store" => inl >= Range /\ Absorbed = inp
      /\ pc \in {"one", "one_store"} => inl > Range
      /\ pc = "one_store" => Absorbed = inp - 512
      /\ pc = "drain_store" /\ kern = "mac" => Absorbed = inp
  <2>1. inp # 0 \/ ~(pc \in {"pending_store", "drain_store"})
    BY <1>1 DEF IInv, PendingInv, Range
  <2> QED BY <1>1, <2>1, Fronts DEF IInv, PendingInv, AtRange
<1>6. /\ pc = "drain" => Absorbed = inp - Range - left
      /\ pc = "drain_store" /\ kern # "mac" => Absorbed = inp - Range - left + cap
  BY Fronts DEF IInv, DrainInv
<1>7. /\ pc \in {"out", "done"} => Absorbed = len
      /\ pc \in {"suffix", "out", "done"} => written = len
      /\ pc = "suffix" => ~inplace /\ Absorbed = suffix.from - left /\ suffix.from - left \in 0 .. len
      /\ tag => pc = "done"
  <2>1. /\ pc \in {"out", "done"} => Absorbed = len
        /\ pc \in {"suffix", "out", "done"} => written = len
        /\ pc = "suffix" => ~inplace /\ Absorbed = suffix.from - left
        /\ tag => pc = "done"
    BY Fronts DEF IInv, SuffixInv
  <2>2. pc = "suffix" => suffix.from - left \in 0 .. len
    BY <1>1 DEF IInv, TypeOK, SuffixInv
  <2> QED BY <2>1, <2>2
<1> QED BY <1>1, <1>2, <1>3, <1>4, <1>5, <1>6, <1>7 DEF Places

LEMMA PlacesNext == IInv' => Places'
  BY PlacesHold, PTL

\* The ciphertext that a step authenticates exists, and none of it has been overwritten.
LEMMA StepHashes ==
  ASSUME UNCHANGED <<call, written, tag>>, tag = FALSE, Absorbed \in Nat,
         Absorbed' \in Absorbed .. len, inplace => written <= Absorbed
  PROVE  [Record!Next]_(Record!vars)
<1>1. len' = len /\ inplace' = inplace /\ written' = written /\ tag' = tag
  BY DEF call
<1>2. CASE Absorbed' = Absorbed
  BY <1>1, <1>2 DEF Record!vars
<1>3. CASE Absorbed' # Absorbed
  <2>1. Absorbed' \in Absorbed + 1 .. len
    BY <1>3
  <2> HIDE DEF Absorbed
  <2>2. Record!Authenticate
    BY <1>1, <2>1 DEF Record!Authenticate, Record!MayAuthenticate, Record!Progress
  <2> QED BY <2>2 DEF Record!Next
<1> QED BY <1>2, <1>3

\* What a step overwrites has been authenticated.
LEMMA StepWrites ==
  ASSUME UNCHANGED <<call, tag>>, tag = FALSE, written \in Nat, Absorbed' = Absorbed,
         written' \in written .. len, inplace => written' <= Absorbed
  PROVE  [Record!Next]_(Record!vars)
<1>1. len' = len /\ inplace' = inplace /\ tag' = tag
  BY DEF call
<1>2. CASE written' = written
  BY <1>1, <1>2 DEF Record!vars
<1>3. CASE written' # written
  <2>1. written' \in written + 1 .. len
    BY <1>3
  <2>2. Record!Crypt
    BY <1>1, <2>1 DEF Record!Crypt, Record!MayWrite, Record!Progress
  <2> QED BY <2>2 DEF Record!Next
<1> QED BY <1>2, <1>3

LEMMA NextRefines == IInv /\ IInv' /\ [Next]_vars => [Record!Next]_(Record!vars)
<1> SUFFICES ASSUME IInv, IInv', [Next]_vars PROVE [Record!Next]_(Record!vars)
  OBVIOUS
<1>1. Places /\ Places'
  BY PlacesHold, PlacesNext
<1>2. left \in {0, 512} /\ cap \in {0, 256, 384} /\ tag \in BOOLEAN /\ adv \in Nat
  BY DEF IInv, TypeOK, Range
<1>3. pc # "done" => tag = FALSE
  BY <1>1, <1>2 DEF Places
\* Nothing moves.
<1>4. CASE \/ KeyOnly \/ NoFill \/ KeepFillPending \/ Main \/ Schedule \/ Pow32 \/ ChunksDone
           \/ PendingDone \/ DrainExact \/ NoRest \/ Returned \/ UNCHANGED vars
  <2>1. UNCHANGED <<call, acc, second, written, tag>>
    BY <1>4 DEF KeyOnly, NoFill, KeepFillPending, Main, Schedule, Pow32, ChunksDone,
                PendingDone, DrainExact, NoRest, Returned, vars
  <2> QED BY <2>1 DEF Record!vars, Absorbed, call
<1>5. CASE HashAad
  <2>1. pc = "aad" /\ pc' = "fill_hash" /\ UNCHANGED <<call, written, tag>>
    BY <1>5 DEF HashAad, Goto
  <2>2. Absorbed' = Absorbed
    BY <2>1, <1>1 DEF Places
  <2> QED BY <2>1, <2>2 DEF Record!vars, call
\* Steps of the authenticator alone.
<1>6. CASE HashFillNow
  <2>1. pc = "fill_hash" /\ pc' = "main" /\ adv # 0 /\ UNCHANGED <<call, written, tag>>
    BY <1>6 DEF HashFillNow, Goto
  <2>2. ~inplace
    BY <2>1 DEF IInv, FillInv
  <2>3. Absorbed = 0 /\ Absorbed' \in 0 .. len
    BY <2>1, <1>1 DEF Places, call
  <2> QED BY <2>1, <2>2, <2>3, <1>3, StepHashes
<1>7. CASE TwoPassHash
  <2>1. pc = "twopass" /\ pc' = "twopass_crypt" /\ UNCHANGED <<call, written, tag>>
    BY <1>7 DEF TwoPassHash, Goto
  <2>2. Absorbed = 0 /\ Absorbed' \in 0 .. len /\ ~inplace
    BY <2>1, <1>1 DEF Places, call
  <2> QED BY <2>1, <2>2, <1>3, StepHashes
<1>8. CASE ChunkRounds
  <2>1. pc = "chunk" /\ pc' = "chunk_store" /\ UNCHANGED <<call, cursors, written, tag>>
    BY <1>8 DEF ChunkRounds, Rounds, Goto
  <2>2. Absorbed = inp /\ Absorbed' = inp + Range /\ inl >= Range /\ written <= Absorbed
    BY <2>1, <1>1 DEF Places, cursors
  <2>3. Absorbed \in Nat /\ Absorbed' \in Absorbed .. len
    BY <2>2, <1>1 DEF Places, Range
  <2> QED BY <2>1, <2>2, <2>3, <1>3, StepHashes
<1>9. CASE PendingRounds
  <2>1. pc = "pending" /\ pc' = "pending_store" /\ UNCHANGED <<call, cursors, written, tag>>
    BY <1>9 DEF PendingRounds, Rounds, Goto
  <2>2. Absorbed = inp - Range /\ Absorbed' = inp /\ ~inplace
    BY <2>1, <1>1 DEF Places, cursors
  <2>3. Absorbed \in Nat /\ Absorbed' \in Absorbed .. len
    <3>1. inp >= Range
      BY <2>1, <1>1, <1>2 DEF IInv, PendingInv, Places, Range
    <3> QED BY <2>2, <3>1, <1>1 DEF Places, Range
  <2> QED BY <2>1, <2>2, <2>3, <1>3, StepHashes
<1>10. CASE OneRounds
  <2>1. pc = "one" /\ pc' = "one_store" /\ UNCHANGED <<call, cursors, written, tag>>
    BY <1>10 DEF OneRounds, Rounds, Goto
  <2>2. Absorbed = 0 /\ Absorbed' = inp - 512 /\ ~inplace
    BY <2>1, <1>1 DEF Places, cursors
  <2>3. Absorbed \in Nat /\ Absorbed' \in Absorbed .. len
    <3>1. inp = Range
      BY <2>1 DEF IInv, PendingInv
    <3> QED BY <2>2, <3>1, <1>1 DEF Places, Range
  <2> QED BY <2>1, <2>2, <2>3, <1>3, StepHashes
<1>11. CASE DrainRounds
  <2>1. pc = "drain" /\ pc' = "drain_store" /\ UNCHANGED <<call, cursors, left, written, tag>>
    BY <1>11 DEF DrainRounds, Rounds, Goto
  <2>2. /\ Absorbed = inp - Range - left /\ ~inplace
        /\ Absorbed' = IF kern' = "mac" THEN inp ELSE inp - Range - left + cap'
    BY <2>1, <1>1 DEF Places, cursors
  <2>3. cap' \in {0, 256, 384}
    BY DEF IInv, TypeOK
  <2>4. Absorbed \in Nat /\ Absorbed' \in Absorbed .. len
    <3>1. inp >= Range + left /\ inp \in Nat /\ len \in Nat /\ inp <= len
      BY <2>1, <1>1 DEF IInv, PendingInv, Places
    <3>2. Absorbed \in Nat /\ Absorbed + left + Range = inp
      BY <2>2, <3>1, <1>2 DEF Range
    <3>3. Absorbed' >= Absorbed /\ Absorbed' <= inp /\ Absorbed' \in Int
      <4>1. CASE kern' = "mac"
        BY <4>1, <2>2, <3>1, <3>2, <1>2 DEF Range
      <4>2. CASE kern' # "mac"
        <5> DEFINE c == cap'
        <5>1. c \in Int /\ c >= 0 /\ c <= 384
          BY <2>3
        <5>2. Absorbed' = inp - Range - left + c
          BY <4>2, <2>2
        <5>3. left \in Int /\ left >= 0 /\ Range = 1024
          BY <1>2 DEF Range
        <5> HIDE DEF c
        <5>4. Absorbed = inp - Range - left
          BY <2>2
        <5> HIDE DEF Absorbed
        <5> QED BY <5>1, <5>2, <5>3, <5>4, <3>1
      <4> QED BY <4>1, <4>2
    <3> QED BY <3>1, <3>2, <3>3
  <2> QED BY <2>1, <2>2, <2>4, <1>3, StepHashes
<1>12. CASE HashSuffix
  <2>1. pc = "suffix" /\ pc' = "out" /\ UNCHANGED <<call, written, tag>>
    BY <1>12 DEF HashSuffix, Goto
  <2>2. Absorbed \in 0 .. len /\ Absorbed' = len /\ ~inplace
    BY <2>1, <1>1 DEF Places, call
  <2>3. Absorbed \in Nat /\ Absorbed' \in Absorbed .. len
    BY <2>2, <1>1 DEF Places
  <2> QED BY <2>1, <2>2, <2>3, <1>3, StepHashes
<1>13. CASE HashRest
  <2>1. pc = "rest" /\ pc' = "rest_crypt" /\ UNCHANGED <<call, cursors, written, tag>>
    BY <1>13 DEF HashRest, Goto
  <2>2. Absorbed = inp /\ Absorbed' = len /\ written <= Absorbed
    BY <2>1, <1>1 DEF Places, call
  <2>3. Absorbed \in Nat /\ Absorbed' \in Absorbed .. len
    BY <2>2, <1>1 DEF Places
  <2> QED BY <2>1, <2>2, <2>3, <1>3, StepHashes
\* Steps of the cipher alone, or with a combination that absorbs nothing.
<1>14. CASE Fill
  <2>1. pc = "entry" /\ pc' = "aad" /\ ~inplace /\ UNCHANGED <<call, tag>>
    BY <1>14 DEF Fill, Goto
  <2>2. written = 0 /\ written' \in 0 .. len /\ Absorbed' = Absorbed
    BY <2>1, <1>1 DEF Places, call
  <2> QED BY <2>1, <2>2, <1>3, StepWrites
<1>15. CASE ChunkStores
  <2>1. pc = "chunk_store" /\ pc' = "chunk" /\ UNCHANGED <<call, tag>> /\ inp' = inp + Range
    BY <1>15 DEF ChunkStores, AdvanceRange, Goto
  <2>2. /\ written = inp /\ written' = inp + Range /\ Absorbed = inp + Range
        /\ Absorbed' = inp + Range /\ inl >= Range
    BY <2>1, <1>1 DEF Places
  <2>3. written \in Nat /\ written' \in written .. len /\ written' <= Absorbed
    BY <2>2, <1>1 DEF Places, Range
  <2> QED BY <2>1, <2>2, <2>3, <1>3, StepWrites
<1>16. CASE PendingStores
  <2>1. pc = "pending_store" /\ pc' = "pending" /\ UNCHANGED <<call, tag>> /\ inp' = inp + Range
    BY <1>16 DEF PendingStores, AdvanceRange, Goto
  <2>2. /\ written = inp /\ written' = inp + Range /\ Absorbed = inp /\ ~inplace
        /\ Absorbed' = inp' - Range /\ inl >= Range
    BY <2>1, <1>1 DEF Places
  <2>3. written \in Nat /\ written' \in written .. len /\ Absorbed' = Absorbed
    BY <2>1, <2>2, <1>1 DEF Places, Range
  <2> QED BY <2>1, <2>2, <2>3, <1>3, StepWrites
<1>17. CASE OneStores
  <2>1. /\ pc = "one_store" /\ pc' = "drain" /\ UNCHANGED <<call, tag>> /\ inp' = inp + Range
        /\ left' = 512
    BY <1>17 DEF OneStores, AdvanceRange, Goto
  <2>2. /\ written = inp /\ written' = inp + Range /\ Absorbed = inp - 512 /\ ~inplace
        /\ Absorbed' = inp' - Range - left' /\ inl > Range
    BY <2>1, <1>1 DEF Places
  <2>3. written \in Nat /\ written' \in written .. len /\ Absorbed' = Absorbed
    BY <2>1, <2>2, <1>1 DEF Places, Range
  <2> QED BY <2>1, <2>2, <2>3, <1>3, StepWrites
<1>18. CASE TwoPassDecrypt \/ Tail17 \/ NarrowDrainStores \/ WideDrainStores \/ DecryptRest
  <2>1. /\ pc \in {"twopass_crypt", "pending", "drain_store", "rest_crypt"}
        /\ pc' \in {"suffix", "out"} /\ UNCHANGED <<call, tag>>
    BY <1>18 DEF TwoPassDecrypt, Tail17, NarrowDrainStores, WideDrainStores, DecryptRest, Goto
  <2>2. written \in Nat /\ written' \in written .. len /\ written' = len /\ len' = len
    BY <2>1, <1>1 DEF Places, call
  <2>3. Absorbed' = Absorbed
    <3>1. CASE TwoPassDecrypt \/ Tail17 \/ NarrowDrainStores \/ DecryptRest
      BY <3>1 DEF TwoPassDecrypt, Tail17, NarrowDrainStores, DecryptRest, Absorbed
    <3>2. CASE WideDrainStores
      <4>1. /\ pc = "drain_store" /\ pc' = "suffix" /\ kern = "mac" /\ UNCHANGED <<cursors, left>>
            /\ suffix' = [from |-> inp, n |-> inl]
        BY <3>2 DEF WideDrainStores, Goto
      <4>2. Absorbed = inp /\ left = 0
        BY <4>1, <1>1 DEF Places, IInv, PendingInv
      <4>3. Hashed(suffix.from - left)' /\ second' = NoChain
        BY <4>1 DEF IInv, SuffixInv
      <4>4. acc' = HashOfPrefix(inp)
        BY <4>1, <4>2, <4>3, <1>1 DEF Hashed, Places
      <4> QED BY <4>2, <4>3, <4>4 DEF Absorbed, HashOfPrefix, NoChain
    <3> QED BY <1>18, <3>1, <3>2
  <2>4. inplace => written' <= Absorbed
    BY <2>1, <2>2, <1>1 DEF Places
  <2> QED BY <2>1, <2>2, <2>3, <2>4, <1>3, StepWrites
\* The tag.
<1>19. CASE Out
  <2>1. pc = "out" /\ pc' = "done" /\ UNCHANGED <<call, written>> /\ tag' = TRUE
    BY <1>19 DEF Out, Goto
  <2>2. Absorbed = len /\ Absorbed' = len /\ written = len
    BY <2>1, <1>1 DEF Places, call
  <2>3. Record!Finish
    <3> HIDE DEF Absorbed
    <3>1. ~(Absorbed < len)
      BY <2>2, <1>1 DEF Places
    <3> QED BY <2>1, <2>2, <3>1, <1>3 DEF Record!Finish, call
  <2> QED BY <2>3 DEF Record!Next
<1> QED BY <1>4, <1>5, <1>6, <1>7, <1>8, <1>9, <1>10, <1>11, <1>12, <1>13, <1>14, <1>15,
           <1>16, <1>17, <1>18, <1>19 DEF Next

\* Whatever schedule its length selects, a call is one of AeadRecord's: it decrypts once,
\* front to back, authenticates once, front to back, in place always before it overwrites,
\* and writes the tag last.  The safety part of ImplementsRecord, for all constants.
THEOREM OpenRefinesRecord == Spec => Record!Init /\ [][Record!Next]_(Record!vars)
<1>1. Init => Record!Init
  <2> SUFFICES ASSUME Init PROVE Record!Init
    OBVIOUS
  <2>1. Absorbed = 0
    BY Fronts DEF Init
  <2> QED BY <2>1, LengthsAssumption DEF Init, Record!Init
<1>2. IInv /\ [Next]_vars => IInv'
  BY StepInv
<1>3. IInv /\ IInv' /\ [Next]_vars => [Record!Next]_(Record!vars)
  BY NextRefines
<1> QED BY <1>1, <1>2, <1>3, InitInv, PTL DEF Spec

-----------------------------------------------------------------------------
(***************************************************************************)
(* No schedule goes round for ever.                                        *)
(***************************************************************************)

\* The labels in the order in which a call passes them.
Rank(label) ==
  CASE label = "entry"                                     -> 12
    [] label = "aad"                                       -> 11
    [] label = "fill_hash"                                 -> 10
    [] label = "main"                                      -> 9
    [] label = "sched"                                     -> 8
    [] label = "pow"                                       -> 7
    [] label \in {"chunk", "pending", "one", "twopass"}    -> 6
    [] label \in {"chunk_store", "pending_store", "one_store", "twopass_crypt"} -> 5
    [] label \in {"drain", "rest"}                         -> 4
    [] label \in {"drain_store", "rest_crypt"}             -> 3
    [] label = "suffix"                                    -> 2
    [] label = "out"                                       -> 1
    [] OTHER                                               -> 0

\* What is left to do: the labels to come and the bytes not yet decrypted.
ToGo == (len - written) + Rank(pc)

\* Only the two loops go back, and they do so after a range.
LEMMA RankFalls ==
  ASSUME Next, pc # "done"
  PROVE  \/ Rank(pc') < Rank(pc)
         \/ ChunkStores \/ PendingStores
<1>1. CASE KeyOnly \/ Fill \/ HashAad \/ NoFill \/ KeepFillPending \/ HashFillNow
  BY <1>1 DEF KeyOnly, Fill, HashAad, NoFill, KeepFillPending, HashFillNow, Goto, Rank
<1>2. CASE Main \/ Schedule \/ Pow32 \/ TwoPassHash \/ TwoPassDecrypt
  BY <1>2 DEF Main, Schedule, Pow32, TwoPassHash, TwoPassDecrypt, Goto, Rank
<1>3. CASE \/ ChunkRounds \/ ChunksDone \/ PendingRounds \/ Tail17 \/ PendingDone
           \/ OneRounds \/ OneStores
  BY <1>3 DEF ChunkRounds, ChunksDone, PendingRounds, Tail17, PendingDone, OneRounds, OneStores,
              Goto, Rank
<1>4. CASE \/ DrainExact \/ DrainRounds \/ NarrowDrainStores \/ WideDrainStores \/ HashSuffix
           \/ NoRest \/ HashRest \/ DecryptRest \/ Out
  BY <1>4 DEF DrainExact, DrainRounds, NarrowDrainStores, WideDrainStores, HashSuffix,
              NoRest, HashRest, DecryptRest, Out, Goto, Rank
<1> QED BY <1>1, <1>2, <1>3, <1>4 DEF Next, Returned

LEMMA RankIsNatural == \A label : Rank(label) \in Nat
  BY DEF Rank

\* What is decrypted stays decrypted.
LEMMA NothingUndone ==
  ASSUME [Record!Next]_(Record!vars), written \in Nat
  PROVE  len' = len /\ written' >= written
<1>1. CASE Record!Authenticate \/ Record!Finish
  BY <1>1 DEF Record!Authenticate, Record!Finish, Record!Progress
<1>2. CASE Record!Crypt
  BY <1>2 DEF Record!Crypt, Record!Progress
<1>3. CASE UNCHANGED Record!vars
  BY <1>3 DEF Record!vars
<1> QED BY <1>1, <1>2, <1>3 DEF Record!Next

LEMMA StepGetsCloser ==
  ASSUME IInv, IInv', [Next]_vars
  PROVE  [ToGo' < ToGo]_vars
<1> SUFFICES ASSUME Next, vars' # vars PROVE ToGo' < ToGo
  OBVIOUS
<1>1. Places /\ Places'
  BY PlacesHold, PlacesNext
<1>2. len \in Nat /\ written \in 0 .. len /\ written' \in 0 .. len'
  BY <1>1 DEF Places
<1>3. len' = len /\ written' >= written
  BY <1>2, NextRefines, NothingUndone
<1>4. Rank(pc) \in Nat /\ Rank(pc') \in Nat
  BY RankIsNatural
<1>5. CASE pc = "done"
  BY <1>5 DEF Next, KeyOnly, Fill, HashAad, NoFill, KeepFillPending, HashFillNow, Main, Schedule,
              Pow32, TwoPassHash, TwoPassDecrypt, ChunkRounds, ChunkStores, ChunksDone,
              PendingRounds, PendingStores, Tail17, PendingDone, OneRounds, OneStores, DrainExact,
              DrainRounds, NarrowDrainStores, WideDrainStores, HashSuffix, NoRest, HashRest,
              DecryptRest, Out, Returned, Goto
<1>6. CASE Rank(pc') < Rank(pc)
  BY <1>2, <1>3, <1>4, <1>6 DEF ToGo
<1>7. CASE ChunkStores \/ PendingStores
  <2>1. /\ pc \in {"chunk_store", "pending_store"} /\ pc' \in {"chunk", "pending"}
        /\ inp' = inp + Range
    BY <1>7 DEF ChunkStores, PendingStores, AdvanceRange, Goto
  <2>2. written = inp /\ written' = inp + Range /\ inp \in Nat
    BY <2>1, <1>1 DEF Places
  <2>3. Rank(pc) = 5 /\ Rank(pc') = 6
    BY <2>1 DEF Rank
  <2> QED BY <2>2, <2>3, <1>2, <1>3 DEF ToGo, Range
<1> QED BY <1>5, <1>6, <1>7, RankFalls

\* Every step brings the end of the call closer, whatever its length: no schedule has
\* a loop that does not decrypt, and a call takes at most len + 12 steps.
THEOREM OpenGetsCloser ==
  Spec => ToGo = len + 12 /\ [](ToGo \in Nat) /\ [][ToGo' < ToGo]_vars
<1>0. Init => ToGo = len + 12
  BY LengthsAssumption DEF Init, ToGo, Rank
<1>1. IInv => ToGo \in Nat
  <2> SUFFICES ASSUME IInv PROVE ToGo \in Nat
    OBVIOUS
  <2>1. len \in Nat /\ written \in 0 .. len /\ Rank(pc) \in Nat
    BY PlacesHold, RankIsNatural DEF Places
  <2> QED BY <2>1 DEF ToGo
<1>2. IInv /\ IInv' /\ [Next]_vars => [ToGo' < ToGo]_vars
  BY StepGetsCloser
<1> QED BY <1>0, <1>1, <1>2, OpenInvariant, PTL DEF Spec

-----------------------------------------------------------------------------
(***************************************************************************)
(* The calls into src/chacha_kernels.pl.                                   *)
(***************************************************************************)

\* The step calls an entry for the next n bytes, the keystream from counter c on.
KernelCall(entry, n, c) ==
  \/ Fill /\ entry = "fill" /\ n = FillLength(len) /\ c = 0
  \/ (TwoPassDecrypt \/ Tail17) /\ entry = "hybrid17" /\ n = inl /\ c = ctr
  \/ DecryptRest /\ entry = "tail" /\ n = inl /\ c = ctr

\* The two-pass schedule is for a range and at most two blocks.
Residue == pc \in {"twopass", "twopass_crypt"} => inl \in Range + 1 .. Range + 128

LEMMA ResidueStep ==
  ASSUME IInv, Residue, [Next]_vars
  PROVE  Residue'
<1>1. inl \in Nat
  BY LengthsAssumption DEF IInv, TypeOK
<1>2. CASE Main
  BY <1>1, <1>2 DEF Main, Residue, Range
<1>3. CASE TwoPassHash
  BY <1>3 DEF TwoPassHash, Goto, Residue, cursors
<1>4. CASE UNCHANGED vars
  BY <1>4 DEF Residue, vars, cursors
<1>5. CASE KeyOnly \/ Fill \/ HashAad \/ NoFill \/ KeepFillPending \/ HashFillNow
  BY <1>5 DEF KeyOnly, Fill, HashAad, NoFill, KeepFillPending, HashFillNow, Goto, Residue
<1>6. CASE Schedule \/ Pow32 \/ TwoPassDecrypt
  BY <1>6 DEF Schedule, Pow32, TwoPassDecrypt, Goto, Residue
<1>7. CASE \/ ChunkRounds \/ ChunkStores \/ ChunksDone \/ PendingRounds \/ PendingStores
           \/ Tail17 \/ PendingDone \/ OneRounds \/ OneStores
  BY <1>7 DEF ChunkRounds, ChunkStores, ChunksDone, PendingRounds, PendingStores, Tail17,
              PendingDone, OneRounds, OneStores, Goto, Residue
<1>8. CASE \/ DrainExact \/ DrainRounds \/ NarrowDrainStores \/ WideDrainStores \/ HashSuffix
           \/ NoRest \/ HashRest \/ DecryptRest \/ Out
  BY <1>8 DEF DrainExact, DrainRounds, NarrowDrainStores, WideDrainStores, HashSuffix, NoRest,
              HashRest, DecryptRest, Out, Goto, Residue
<1> QED BY <1>2, <1>3, <1>4, <1>5, <1>6, <1>7, <1>8 DEF Next, Returned

\* One step's call.
LEMMA StepCallsKernel ==
  ASSUME IInv, Residue, NEW entry, NEW n, NEW c, KernelCall(entry, n, c)
  PROVE  RightCall(entry, n, c, written) /\ written' = written + n
<1>1. CASE Fill /\ entry = "fill" /\ n = FillLength(len) /\ c = 0
  <2>1. len \in Nat /\ len > 0 /\ written = 0 /\ inp = 0 /\ oup = 0
    BY <1>1, LengthsAssumption DEF Fill, Goto, IInv, TypeOK, FillInv
  <2>2. /\ FillLength(len) \in Nat /\ FillLength(len) <= FillWidth(FillLength(len))
        /\ Emit(0, 0, 0, 1 % CounterSpace, FillLength(len)) = FillLength(len)
    BY <2>1, FillCovers, EmitAtStart
  <2>3. written' = 0 + FillLength(len)
    BY <1>1, <2>1, <2>2 DEF Fill
  <2> QED BY <1>1, <2>1, <2>3, FillIsRightCall
<1>2. CASE /\ \/ (TwoPassDecrypt \/ Tail17) /\ entry = "hybrid17"
              \/ DecryptRest /\ entry = "tail"
           /\ n = inl /\ c = ctr
  <2>1. /\ AtRange /\ oup = inp /\ inp \in Nat /\ inl \in Nat /\ inl > 0
        /\ entry = "hybrid17" => inl \in Range + 1 .. Range + 128
    BY <1>2, LengthsAssumption
    DEF TwoPassDecrypt, Tail17, DecryptRest, Goto, IInv, TypeOK, FillInv, InPlaceInv, PendingInv,
        Residue, Range
  <2>2. written' = Emit(written, oup, inp, ctr, inl)
    BY <1>2 DEF TwoPassDecrypt, Tail17, DecryptRest
  <2>3. written' = written + inl
    BY <2>1, <2>2, EmitAtRange DEF AtRange
  <2>4. RightCall(entry, inl, DataCounter(inp), inp)
    BY <1>2, <2>1, LastIsRightCall DEF AtRange
  <2> QED BY <1>2, <2>1, <2>3, <2>4 DEF AtRange
<1> QED BY <1>1, <1>2 DEF KernelCall

\* Every entry open calls outright gets what it relies on: an entry that tests nothing
\* is never given an empty call, a fill fits one pass and 17x its seventeen blocks and a
\* little; and each block of the call is decrypted under the counter of its place in the
\* record, the call continuing where the last one stopped.
THEOREM OpenCallsKernels ==
  Spec => [][\A entry, n, c : KernelCall(entry, n, c) =>
               RightCall(entry, n, c, written) /\ written' = written + n]_vars
<1>1. Init => Residue
  BY DEF Init, Residue
<1>2. IInv /\ Residue /\ [Next]_vars => Residue'
  BY ResidueStep
<1>3. IInv /\ Residue /\ [Next]_vars
        => [\A entry, n, c : KernelCall(entry, n, c) =>
              RightCall(entry, n, c, written) /\ written' = written + n]_vars
  BY StepCallsKernel
<1> QED BY <1>1, <1>2, <1>3, OpenInvariant, PTL DEF Spec
=============================================================================
