--------------------------- MODULE Seal512Proofs ---------------------------
(***************************************************************************)
(* Proofs about Seal512, for every set of record lengths and every width   *)
(* of the block counter.                                                   *)
(*                                                                         *)
(* IInv is inductive, one lemma per action; the safety properties follow   *)
(* from it label by label.  Then every step is mapped to a step of         *)
(* AeadRecord or to none, from where each label leaves the two fronts      *)
(* (Places), and shown to bring the end of the call closer (ToGo).         *)
(***************************************************************************)
EXTENDS Seal512, KernelLemmas

\* The invariant holds when the function is entered.
LEMMA InitInv == Init => IInv
<1> SUFFICES ASSUME Init PROVE IInv
  OBVIOUS
<1>1. TypeOK
  <2>1. acc \in Accumulator /\ second \in [from: Int, to: Int]
    BY ZeroAccumulatorType DEF Init
  <2>2. ctr \in 0 .. CounterSpace - 1
    BY CounterSpaceAssumption DEF Init
  <2>3. inl \in 0 .. len /\ oup \in 0 .. len /\ inp \in 0 .. len
    BY LengthsAssumption DEF Init
  <2>4. adv \in 0 .. 2 * Range /\ look \in {0, 1, 2} /\ left \in {0, 512} /\ cap \in {0, 256, 384}
    BY DEF Init, Range
  <2>5. pc \in Labels /\ slot \in {"junk", "keystream", "r32"}
    BY DEF Init, Labels
  <2>6. kern \in DOMAIN MacKernel \cup {"none"} /\ written \in Nat \cup {Garbled}
    BY DEF Init
  <2>7. len \in Lengths /\ tag \in BOOLEAN
    BY DEF Init
  <2> QED BY <2>1, <2>2, <2>3, <2>4, <2>5, <2>6, <2>7 DEF TypeOK
<1>2. FillInv /\ PendingInv /\ DrainInv /\ SuffixInv /\ NoDeadBranch
  BY LengthsAssumption
  DEF Init, FillInv, PendingInv, DrainInv, SuffixInv, NoDeadBranch, DeadBranches, AtCursor
<1> QED BY <1>1, <1>2 DEF IInv

-----------------------------------------------------------------------------
(***************************************************************************)
(* The steps before the schedule is chosen.                                *)
(***************************************************************************)

\* No data has moved: the key block alone is generated.
LEMMA KeyOnlyInv == IInv /\ KeyOnly => IInv'
<1> SUFFICES ASSUME IInv, KeyOnly PROVE IInv'
  OBVIOUS
<1>1. /\ pc = "entry" /\ pc' = "aad" /\ len = 0 /\ slot' = "keystream"
      /\ UNCHANGED <<len, cursors, sched, acc, second, written, tag>>
  BY DEF KeyOnly, Goto
<1>2. TypeOK'
  BY <1>1 DEF IInv, TypeOK, Labels, cursors, sched
<1>3. FillInv' /\ PendingInv' /\ DrainInv' /\ SuffixInv' /\ NoDeadBranch'
  BY <1>1 DEF IInv, FillInv, PendingInv, DrainInv, SuffixInv, NoDeadBranch,
              DeadBranches, AtCursor, cursors, sched
<1> QED BY <1>2, <1>3 DEF IInv

\* The fill produces exactly the bytes it is asked for: the kernel it picks is wide enough.
LEMMA FillStepInv == IInv /\ Fill => IInv'
<1> SUFFICES ASSUME IInv, Fill PROVE IInv'
  OBVIOUS
<1>1. /\ pc = "entry" /\ len \in Nat /\ len > 0 /\ inl = len /\ oup = 0 /\ inp = 0
      /\ written = 0 /\ look = 0 /\ left = 0 /\ second = NoChain
      /\ acc = ZeroAccumulator /\ tag = FALSE
  BY LengthsAssumption DEF Fill, Goto, IInv, TypeOK, FillInv, SuffixInv, AtCursor
<1> DEFINE fill == FillLength(len)
<1>2. /\ fill \in Nat /\ fill <= len /\ fill <= 2 * Range /\ fill > 0
      /\ Emit(0, 0, 0, 1 % CounterSpace, fill) = fill
      /\ fill <= FillWidth(fill)
  BY <1>1, FillCovers, EmitAtStart
<1>3. /\ pc' = "aad" /\ slot' = "keystream" /\ written' = fill
      /\ oup' = fill /\ inp' = fill /\ inl' = len - fill /\ adv' = fill
      /\ UNCHANGED <<len, ctr, look, left, kern, cap, acc, second, tag>>
  BY <1>1, <1>2 DEF Fill, Goto
<1> HIDE DEF fill
<1>4. TypeOK'
  BY <1>1, <1>2, <1>3 DEF IInv, TypeOK, Labels, Range
<1>5. FillInv' /\ PendingInv' /\ DrainInv' /\ SuffixInv' /\ NoDeadBranch'
  BY <1>1, <1>2, <1>3 DEF FillInv, PendingInv, DrainInv, SuffixInv, NoDeadBranch,
                          DeadBranches, AtCursor, fill
<1> QED BY <1>4, <1>5 DEF IInv

\* The accumulator becomes the hash of the AAD and of no ciphertext.
LEMMA HashAadInv == IInv /\ HashAad => IInv'
<1> SUFFICES ASSUME IInv, HashAad PROVE IInv'
  OBVIOUS
<1>1. /\ pc = "aad" /\ pc' = "fill_hash" /\ acc' = HashOfPrefix(0)
      /\ UNCHANGED <<len, cursors, sched, slot, second, written, tag>>
  BY AadFirst DEF HashAad, Goto, IInv, FillInv
<1>2. TypeOK'
  BY <1>1, AccumulatorTypes DEF IInv, TypeOK, Labels, cursors, sched
<1>3. FillInv' /\ PendingInv' /\ DrainInv' /\ SuffixInv' /\ NoDeadBranch'
  BY <1>1 DEF IInv, FillInv, PendingInv, DrainInv, SuffixInv, NoDeadBranch,
              DeadBranches, AtCursor, Hashed, cursors, sched
<1> QED BY <1>2, <1>3 DEF IInv

\* Without a fill the record is empty, or the call is in place: nothing to hash yet.
LEMMA NoFillInv == IInv /\ NoFill => IInv'
<1> SUFFICES ASSUME IInv, NoFill PROVE IInv'
  OBVIOUS
<1>1. /\ pc = "fill_hash" /\ pc' = "main" /\ adv = 0 /\ inp = 0
      /\ len = 0 /\ inl = 0 /\ look = 0 /\ Hashed(0)
      /\ UNCHANGED <<len, cursors, sched, slot, acc, second, written, tag>>
  BY LengthsAssumption, FillCovers DEF NoFill, Goto, IInv, TypeOK, FillInv, AtCursor
<1>2. TypeOK'
  BY <1>1 DEF IInv, TypeOK, Labels, cursors, sched
<1>3. FillInv' /\ PendingInv' /\ DrainInv' /\ SuffixInv' /\ NoDeadBranch'
  BY <1>1 DEF IInv, FillInv, PendingInv, DrainInv, SuffixInv, NoDeadBranch,
              DeadBranches, AtCursor, Hashed, cursors, sched
<1> QED BY <1>2, <1>3 DEF IInv

\* A fill that stays pending leaves more than a range to schedule.
LEMMA KeepFillPendingInv == IInv /\ KeepFillPending => IInv'
<1> SUFFICES ASSUME IInv, KeepFillPending PROVE IInv'
  OBVIOUS
<1>1. /\ pc = "fill_hash" /\ adv = Range /\ inl > 0 /\ inp = Range
      /\ inl > Range /\ Hashed(0)
  BY LengthsAssumption, FillCovers
  DEF KeepFillPending, Goto, IInv, TypeOK, FillInv, AtCursor, Range
<1>2. /\ pc' = "main" /\ adv' = 16 /\ look' = 1
      /\ UNCHANGED <<len, cursors, left, kern, cap, slot, acc, second, written, tag>>
  BY DEF KeepFillPending, Goto
<1>3. TypeOK'
  BY <1>1, <1>2 DEF IInv, TypeOK, Labels, cursors, Range
<1>4. FillInv' /\ PendingInv' /\ DrainInv' /\ SuffixInv' /\ NoDeadBranch'
  BY <1>1, <1>2 DEF IInv, FillInv, PendingInv, DrainInv, SuffixInv, NoDeadBranch,
                    DeadBranches, AtCursor, Hashed, cursors
<1> QED BY <1>3, <1>4 DEF IInv

\* A fill hashed at once was the whole record.
LEMMA HashFillNowInv == IInv /\ HashFillNow => IInv'
<1> SUFFICES ASSUME IInv, HashFillNow PROVE IInv'
  OBVIOUS
<1>1. /\ pc = "fill_hash" /\ len \in Nat /\ inl = 0 /\ look = 0
      /\ adv = len /\ oup = len /\ written = len /\ acc = HashOfPrefix(0)
  BY LengthsAssumption, FillCovers
  DEF HashFillNow, Goto, IInv, TypeOK, FillInv, AtCursor, Hashed, Range
<1>2. /\ oup - adv = 0 /\ Produced(0, len) = TRUE
  BY <1>1 DEF Produced, Garbled
<1>3. Absorb(HashOfPrefix(0), 0, len, TRUE) = HashOfPrefix(len)
  <2>1. len \in Nat
    BY <1>1
  <2> QED BY ONLY <2>1, AbsorbFromStart
<1>4. /\ pc' = "main" /\ adv' = 16 /\ acc' = HashOfPrefix(len)
      /\ UNCHANGED <<len, cursors, look, left, kern, cap, slot, second, written, tag>>
  BY <1>1, <1>2, <1>3 DEF HashFillNow, Goto, Hash
<1>5. TypeOK'
  BY <1>1, <1>4, AccumulatorTypes DEF IInv, TypeOK, Labels, cursors, Range
<1>6. FillInv' /\ PendingInv' /\ DrainInv' /\ SuffixInv' /\ NoDeadBranch'
  BY <1>1, <1>4 DEF IInv, FillInv, PendingInv, DrainInv, SuffixInv, NoDeadBranch,
                    DeadBranches, AtCursor, Hashed, cursors
<1> QED BY <1>5, <1>6 DEF IInv

-----------------------------------------------------------------------------
(***************************************************************************)
(* The choice of a schedule.                                               *)
(***************************************************************************)

\* The counter is that of the next byte; the two-pass schedules leave.
LEMMA MainInv == IInv /\ Main => IInv'
<1> SUFFICES ASSUME IInv, Main PROVE IInv'
  OBVIOUS
<1>1. /\ pc = "main" /\ adv \in Nat
      /\ UNCHANGED <<len, inl, oup, inp, sched, slot, acc, second, written, tag>>
      /\ pc' = IF look = 1 /\ inl > Range /\ inl <= 1152 THEN "twopass" ELSE "sched"
      /\ ctr' = AdvanceCounter(1 % CounterSpace, adv)
  BY DEF Main, IInv, FillInv
<1>2. \/ look = 0 /\ inl = 0 /\ Hashed(len)
      \/ look = 1 /\ inp = Range /\ inl > Range /\ Hashed(0) /\ adv = 16
  BY <1>1 DEF IInv, FillInv
<1>3. look = 1 => ctr' = DataCounter(inp) /\ inp % Range = 0
  <2>1. Range % Range = 0
    BY Z3 DEF Range
  <2> QED BY <1>1, <1>2, <2>1, SetupCounter
<1>4. ctr' \in 0 .. CounterSpace - 1
  <2>1. 1 % CounterSpace \in Nat
    BY CounterInRange
  <2> QED BY <1>1, <2>1, AdvanceCounterType
<1>5. TypeOK'
  BY <1>1, <1>4 DEF IInv, TypeOK, Labels, sched
<1>6. FillInv' /\ PendingInv' /\ DrainInv' /\ SuffixInv' /\ NoDeadBranch'
  BY <1>1, <1>2, <1>3 DEF IInv, TypeOK, FillInv, PendingInv, DrainInv, SuffixInv,
                          NoDeadBranch, DeadBranches, AtCursor, AtRange, Hashed, sched, Range
<1> QED BY <1>5, <1>6 DEF IInv

\* A pending range has more than 1152 bytes behind it; nothing pending, none.
LEMMA ScheduleInv == IInv /\ Schedule => IInv'
<1> SUFFICES ASSUME IInv, Schedule PROVE IInv'
  OBVIOUS
<1>1. /\ pc = "sched" /\ inl \in Nat
      /\ UNCHANGED <<len, cursors, sched, slot, acc, second, written, tag>>
      /\ \/ look = 0 /\ inl = 0 /\ Hashed(len)
         \/ look = 1 /\ inp = Range /\ inl > 1152 /\ Hashed(0) /\ adv = 16 /\ AtRange
  BY DEF Schedule, IInv, FillInv, TypeOK
<1>2. /\ look = 0 => pc' = "short"
      /\ look = 1 => pc' = IF inl <= 1536 THEN "one" ELSE "pow"
  BY <1>1 DEF Schedule, Range
<1>3. TypeOK'
  BY <1>1, <1>2 DEF IInv, TypeOK, Labels, cursors, sched
<1>4. FillInv' /\ PendingInv' /\ DrainInv' /\ SuffixInv' /\ NoDeadBranch'
  BY <1>1, <1>2 DEF IInv, FillInv, PendingInv, DrainInv, SuffixInv,
                    NoDeadBranch, DeadBranches, AtCursor, AtRange, Hashed, cursors, sched, Range
<1> QED BY <1>3, <1>4 DEF IInv

\* From here on the slot holds r^32.
LEMMA Pow32Inv == IInv /\ Pow32 => IInv'
<1> SUFFICES ASSUME IInv, Pow32 PROVE IInv'
  OBVIOUS
<1>1. /\ pc = "pow" /\ pc' = "chunk" /\ slot' = "r32" /\ look' = 2
      /\ UNCHANGED <<len, cursors, adv, left, kern, cap, acc, second, written, tag>>
  BY DEF Pow32, Goto
<1>2. TypeOK'
  BY <1>1 DEF IInv, TypeOK, Labels, cursors
<1>3. FillInv' /\ PendingInv' /\ DrainInv' /\ SuffixInv' /\ NoDeadBranch'
  BY <1>1 DEF IInv, FillInv, PendingInv, DrainInv, SuffixInv,
              NoDeadBranch, DeadBranches, AtCursor, AtRange, Hashed, cursors, Range
<1> QED BY <1>2, <1>3 DEF IInv

\* Everything that remains is encrypted behind a pending range.
LEMMA CryptAndRollBackInv ==
  ASSUME IInv, pc \in {"twopass", "chunk"}, pc' = "suffix", CryptAndRollBack
  PROVE  IInv'
<1>1. /\ AtRange /\ second = NoChain /\ left = 0 /\ Hashed(inp - Range) /\ inp >= Range
      /\ inp \in Nat /\ inl \in Nat /\ len \in Nat
  BY LengthsAssumption DEF IInv, TypeOK, PendingInv, Range
<1>2. written' = len
  BY <1>1, EmitAtRange DEF CryptAndRollBack, AtRange, AtCursor
<1>3. /\ oup' = inp - Range /\ inl' = inl + Range
      /\ UNCHANGED <<len, inp, ctr, sched, slot, acc, second, tag>>
  BY <1>1 DEF CryptAndRollBack, AtRange, AtCursor
<1>4. (inp - Range) % 16 = 0
  BY <1>1, BlockBoundaries DEF AtRange
<1>5. TypeOK'
  BY <1>1, <1>2, <1>3 DEF IInv, TypeOK, Labels, sched, AtRange, AtCursor, Range
<1>6. FillInv' /\ PendingInv' /\ DrainInv' /\ SuffixInv' /\ NoDeadBranch'
  BY <1>1, <1>2, <1>3, <1>4
  DEF IInv, FillInv, PendingInv, DrainInv, SuffixInv,
      NoDeadBranch, DeadBranches, AtCursor, AtRange, Hashed, sched, Range
<1> QED BY <1>5, <1>6 DEF IInv

\* Nothing is left to encrypt on this path: the fill took it all.
LEMMA ShortInv == IInv /\ Short => IInv'
<1> SUFFICES ASSUME IInv, Short PROVE IInv'
  OBVIOUS
<1>1. /\ pc = "short" /\ look = 0 /\ inl = 0 /\ Hashed(len) /\ oup = len
      /\ left = 0 /\ second = NoChain /\ written = len /\ len \in Nat
  BY LengthsAssumption DEF Short, Goto, IInv, TypeOK, FillInv, AtCursor
<1>2. /\ pc' = "suffix" /\ written' = written
      /\ UNCHANGED <<len, cursors, sched, slot, acc, second, tag>>
  BY <1>1 DEF Short, Goto
<1>3. TypeOK'
  BY <1>1, <1>2 DEF IInv, TypeOK, Labels, cursors, sched
<1>4. FillInv' /\ PendingInv' /\ DrainInv' /\ SuffixInv' /\ NoDeadBranch'
  BY <1>1, <1>2 DEF IInv, FillInv, PendingInv, DrainInv, SuffixInv,
                    NoDeadBranch, DeadBranches, AtCursor, Hashed, cursors, sched
<1> QED BY <1>3, <1>4 DEF IInv

-----------------------------------------------------------------------------
(***************************************************************************)
(* The fused passes.                                                       *)
(***************************************************************************)

\* The rounds of a kernel over ciphertext that exists and follows the hash.
LEMMA RoundsExtend ==
  ASSUME IInv, NEW k \in DOMAIN MacKernel, NEW ptr \in Nat, Rounds(k, ptr),
         Hashed(ptr), ptr % 16 = 0, Chained(k) \in Nat, Second(k) \in Nat,
         written \in Nat, ptr + Chained(k) + Second(k) <= written
  PROVE  /\ acc' = HashOfPrefix(ptr + Chained(k))
         /\ second' = IF Second(k) = 0 THEN NoChain
                      ELSE [from |-> ptr + Chained(k),
                            to   |-> ptr + Chained(k) + Second(k)]
<1>1. Produced(ptr, Chained(k) + Second(k)) = TRUE
  BY DEF Produced, Garbled
<1>2. ptr + Chained(k) \in Nat
  OBVIOUS
<1>3. Absorb(HashOfPrefix(ptr), ptr, Chained(k), TRUE) = HashOfPrefix(ptr + Chained(k))
  BY <1>2, AbsorbNext
<1> QED BY <1>1, <1>3 DEF Rounds, Hashed

\* A pass that writes a whole range moves every cursor to the next one.
LEMMA AdvanceKeepsRange ==
  ASSUME IInv, AtRange, inl >= Range, AdvanceRange,
         NEW k \in {"mac", "mac1024"}, Stores(k, Range), UNCHANGED len
  PROVE  /\ AtRange'
         /\ inp' = inp + Range /\ inl' = inl - Range
         /\ ctr' \in 0 .. CounterSpace - 1
<1>1. inp \in Nat /\ inl \in Nat /\ inp + Range \in Nat
  BY LengthsAssumption DEF IInv, TypeOK, Range
<1>2. Stored(k, Range) = Range
  BY KernelStores DEF Range
<1>3. written' = inp + Range
  <2>1. Range \in Nat
    BY DEF Range
  <2> QED BY <1>1, <1>2, <2>1, EmitAtRange DEF Stores, AtRange, AtCursor
<1>4. ctr' = DataCounter(inp + Range)
  BY <1>1, NextRangeCounter DEF AdvanceRange, AtRange
<1>5. (inp + Range) % Range = 0
  BY <1>1, BlockBoundaries DEF AtRange
<1>6. oup' = inp' /\ inp' + inl' = len'
  BY <1>1 DEF AdvanceRange, AtRange, AtCursor, Range
<1>7. inp' = inp + Range /\ inl' = inl - Range
  BY DEF AdvanceRange
<1> QED BY <1>1, <1>3, <1>4, <1>5, <1>6, <1>7, DataCounterType DEF AtRange, AtCursor

\* The second chain joins the first.
LEMMA CombineExtends ==
  ASSUME NEW m \in Nat, m >= 512, Hashed(m - 512), slot = "r32",
         second = [from |-> m - 512, to |-> m], CombineChains
  PROVE  acc' = HashOfPrefix(m) /\ second' = NoChain
<1>1. m - 512 \in Nat /\ m = (m - 512) + 512
  OBVIOUS
<1> QED BY <1>1, CombineNext DEF CombineChains, Hashed

\* The rounds hash the range they may read, in two halves.
LEMMA ChunkRoundsInv == IInv /\ ChunkRounds => IInv'
<1> SUFFICES ASSUME IInv, ChunkRounds PROVE IInv'
  OBVIOUS
<1> DEFINE ptr == inp - Range
<1>1. /\ pc = "chunk" /\ AtRange /\ look = 2 /\ slot = "r32" /\ left = 0
      /\ inp >= Range /\ Hashed(ptr) /\ inp \in Nat /\ inl \in Nat
  BY LengthsAssumption DEF ChunkRounds, Goto, IInv, TypeOK, PendingInv
<1>2. /\ pc' = "chunk_store" /\ inl >= Range
      /\ Rounds("mac", ptr)
      /\ UNCHANGED <<len, cursors, sched, slot, written, tag>>
  BY <1>1 DEF ChunkRounds, Goto, Rounds, AtRange, AtCursor, sched, Range
<1>3. /\ acc' = HashOfPrefix(inp - 512)
      /\ second' = [from |-> inp - 512, to |-> inp]
  <2>1. ptr \in Nat /\ ptr % 16 = 0 /\ written = inp
    BY <1>1, BlockBoundaries DEF AtRange, AtCursor, Range
  <2>2. ptr + 512 = inp - 512 /\ ptr + 512 + 512 = inp
    BY <1>1 DEF Range
  <2>3. "mac" \in DOMAIN MacKernel
    BY DEF MacKernel
  <2> QED BY <1>1, <1>2, <2>1, <2>2, <2>3, KernelChains, RoundsExtend
<1>4. TypeOK'
  BY <1>1, <1>2, <1>3, AccumulatorTypes DEF IInv, TypeOK, Labels, cursors, sched
<1>5. FillInv' /\ PendingInv' /\ DrainInv' /\ SuffixInv' /\ NoDeadBranch'
  BY <1>1, <1>2, <1>3
  DEF IInv, FillInv, PendingInv, DrainInv, SuffixInv,
      NoDeadBranch, DeadBranches, AtCursor, AtRange, Hashed, cursors, sched
<1> QED BY <1>4, <1>5 DEF IInv

\* The combined chains are the hash of all that precedes the pending range.
LEMMA ChunkStoresInv == IInv /\ ChunkStores => IInv'
<1> SUFFICES ASSUME IInv, ChunkStores PROVE IInv'
  OBVIOUS
<1>1. /\ pc = "chunk_store" /\ AtRange /\ look = 2 /\ slot = "r32" /\ left = 0
      /\ inp >= Range /\ inl >= Range /\ inp \in Nat /\ inl \in Nat /\ len \in Nat
      /\ Hashed(inp - 512) /\ second = [from |-> inp - 512, to |-> inp]
  BY LengthsAssumption DEF ChunkStores, Goto, IInv, TypeOK, PendingInv
<1>2. /\ pc' = "chunk" /\ UNCHANGED <<len, sched, slot, tag>>
      /\ Stores("mac", Range) /\ CombineChains /\ AdvanceRange
  BY DEF ChunkStores, Goto
<1>3. acc' = HashOfPrefix(inp) /\ second' = NoChain
  BY <1>1, <1>2, CombineExtends DEF Range
<1>4. /\ AtRange' /\ inp' = inp + Range /\ inl' = inl - Range
      /\ ctr' \in 0 .. CounterSpace - 1
  BY <1>1, <1>2, AdvanceKeepsRange
<1>5. inp' - Range = inp
  BY <1>1, <1>4 DEF Range
<1>6. TypeOK'
  BY <1>1, <1>2, <1>3, <1>4, AccumulatorTypes, ZeroAccumulatorType
  DEF IInv, TypeOK, Labels, sched, AtRange, AtCursor, Range
<1>7. FillInv' /\ PendingInv' /\ DrainInv' /\ SuffixInv' /\ NoDeadBranch'
  BY <1>1, <1>2, <1>3, <1>4, <1>5
  DEF IInv, FillInv, PendingInv, DrainInv, SuffixInv,
      NoDeadBranch, DeadBranches, Hashed, sched, Range
<1> QED BY <1>6, <1>7 DEF IInv

\* Less than a range remains.
LEMMA ChunksDoneInv == IInv /\ ChunksDone => IInv'
<1> SUFFICES ASSUME IInv, ChunksDone PROVE IInv'
  OBVIOUS
<1>1. /\ pc = "chunk" /\ pc' = "drain" /\ inl < Range
      /\ AtRange /\ second = NoChain /\ look = 2 /\ slot = "r32" /\ left = 0
      /\ inp >= Range /\ Hashed(inp - Range) /\ inp \in Nat
      /\ UNCHANGED <<len, cursors, sched, slot, acc, second, written, tag>>
  BY LengthsAssumption DEF ChunksDone, Goto, IInv, TypeOK, PendingInv
<1>2. TypeOK'
  BY <1>1 DEF IInv, TypeOK, Labels, cursors, sched
<1>3. FillInv' /\ PendingInv' /\ DrainInv' /\ SuffixInv' /\ NoDeadBranch'
  BY <1>1
  DEF IInv, FillInv, PendingInv, DrainInv, SuffixInv,
      NoDeadBranch, DeadBranches, AtCursor, AtRange, Hashed, cursors, sched, Range
<1> QED BY <1>2, <1>3 DEF IInv

\* The single chain hashes the first half of the pending range.
LEMMA OneRoundsInv == IInv /\ OneRounds => IInv'
<1> SUFFICES ASSUME IInv, OneRounds PROVE IInv'
  OBVIOUS
<1>1. /\ pc = "one" /\ AtRange /\ look = 1 /\ left = 0 /\ second = NoChain
      /\ inp = Range /\ Hashed(0) /\ inl > Range /\ inl <= 1536
  BY DEF OneRounds, Goto, IInv, PendingInv
<1>2. /\ pc' = "one_store"
      /\ Rounds("mac1024", 0)
      /\ UNCHANGED <<len, cursors, sched, slot, written, tag>>
  BY <1>1 DEF OneRounds, Goto, Rounds, AtRange, AtCursor, sched, Range
<1>3. acc' = HashOfPrefix(inp - 512) /\ second' = NoChain
  <2>1. 0 % 16 = 0
    BY Z3
  <2>2. "mac1024" \in DOMAIN MacKernel /\ written = 1024
    BY <1>1 DEF MacKernel, AtRange, AtCursor, Range
  <2>3. 0 + 512 = inp - 512
    BY <1>1 DEF Range
  <2> QED BY <1>1, <1>2, <2>1, <2>2, <2>3, KernelChains, RoundsExtend
<1>4. TypeOK'
  <2>1. inp - 512 \in Int
    BY <1>1 DEF Range
  <2> QED BY <1>2, <1>3, <2>1, AccumulatorTypes, ZeroAccumulatorType
          DEF IInv, TypeOK, Labels, cursors, sched
<1>5. FillInv' /\ PendingInv' /\ DrainInv' /\ SuffixInv' /\ NoDeadBranch'
  BY <1>1, <1>2, <1>3
  DEF IInv, FillInv, PendingInv, DrainInv, SuffixInv,
      NoDeadBranch, DeadBranches, AtCursor, AtRange, Hashed, cursors, sched, Range
<1> QED BY <1>4, <1>5 DEF IInv

\* Half a range stays behind, and at most 512 bytes are left: a narrow drain.
LEMMA OneStoresInv == IInv /\ OneStores => IInv'
<1> SUFFICES ASSUME IInv, OneStores PROVE IInv'
  OBVIOUS
<1>1. /\ pc = "one_store" /\ AtRange /\ inp >= Range /\ inp \in Nat /\ inl \in Nat
      /\ look = 1 /\ left = 0 /\ second = NoChain
      /\ inl > Range /\ inl <= 1536 /\ Hashed(inp - 512) /\ len \in Nat
  BY LengthsAssumption DEF OneStores, Goto, IInv, TypeOK, PendingInv
<1>2. /\ pc' = "drain" /\ look' = 1 /\ left' = 512
      /\ Stores("mac1024", Range) /\ AdvanceRange
      /\ UNCHANGED <<len, adv, kern, cap, slot, acc, second, tag>>
  BY DEF OneStores, Goto
<1>3. /\ AtRange' /\ inp' = inp + Range /\ inl' = inl - Range
      /\ ctr' \in 0 .. CounterSpace - 1
  BY <1>1, <1>2, AdvanceKeepsRange DEF Range
<1>4. inp' - Range - left' = inp - 512
  BY <1>1, <1>2, <1>3 DEF Range
<1>5. TypeOK'
  BY <1>1, <1>2, <1>3 DEF IInv, TypeOK, Labels, AtRange, AtCursor, Range
<1>6. FillInv' /\ PendingInv' /\ DrainInv' /\ SuffixInv' /\ NoDeadBranch'
  BY <1>1, <1>2, <1>3, <1>4
  DEF IInv, FillInv, PendingInv, DrainInv, SuffixInv,
      NoDeadBranch, DeadBranches, Hashed, Range
<1> QED BY <1>5, <1>6 DEF IInv

-----------------------------------------------------------------------------
(***************************************************************************)
(* The drain.                                                              *)
(***************************************************************************)

\* With no residue the suffix is the pending range.
LEMMA DrainExactInv == IInv /\ DrainExact => IInv'
<1> SUFFICES ASSUME IInv, DrainExact PROVE IInv'
  OBVIOUS
<1>1. /\ pc = "drain" /\ AtRange /\ second = NoChain /\ inl = 0 /\ left \in {0, 512}
      /\ inp >= Range + left /\ Hashed(inp - Range - left) /\ inp \in Nat /\ len \in Nat
  BY LengthsAssumption DEF DrainExact, Goto, IInv, TypeOK, PendingInv, DrainInv
<1>2. /\ pc' = "suffix" /\ oup' = inp - Range /\ inl' = Range
      /\ UNCHANGED <<len, inp, ctr, sched, slot, acc, second, written, tag>>
  BY <1>1 DEF DrainExact, Goto, AtRange, AtCursor
<1>3. (inp - Range - left) % 16 = 0
  BY <1>1, BlockBoundaries DEF AtRange, Range
<1>4. TypeOK'
  BY <1>1, <1>2 DEF IInv, TypeOK, Labels, sched, AtRange, AtCursor, Range
<1>5. FillInv' /\ PendingInv' /\ DrainInv' /\ SuffixInv' /\ NoDeadBranch'
  BY <1>1, <1>2, <1>3
  DEF IInv, FillInv, PendingInv, DrainInv, SuffixInv,
      NoDeadBranch, DeadBranches, AtCursor, AtRange, Hashed, sched, Range
<1> QED BY <1>4, <1>5 DEF IInv

\* The drain resumes where the last chain stopped.
LEMMA DrainRoundsInv == IInv /\ DrainRounds => IInv'
<1> SUFFICES ASSUME IInv, DrainRounds PROVE IInv'
  OBVIOUS
<1> DEFINE ptr == inp - Range - left
<1>1. /\ pc = "drain" /\ AtRange /\ inp >= Range + left /\ Hashed(ptr)
      /\ inl > 0 /\ inl < Range /\ inp \in Nat /\ inl \in Nat /\ left \in {0, 512}
      /\ \/ look = 2 /\ slot = "r32" /\ left = 0
         \/ look = 1 /\ left = 512 /\ inl <= 512
  BY LengthsAssumption DEF DrainRounds, Goto, IInv, TypeOK, PendingInv, DrainInv
<1>2. /\ pc' = "drain_store"
      /\ Rounds(kern', ptr)
      /\ UNCHANGED <<len, cursors, adv, look, left, slot, written, tag>>
  BY <1>1 DEF DrainRounds, Goto, Rounds, AtRange, AtCursor, Range
<1>3. \/ kern' = "mac128" /\ cap' = 256 /\ inl <= 128
      \/ kern' = "mac256" /\ cap' = 256 /\ inl <= 256
      \/ kern' = "mac512" /\ cap' = 384 /\ inl <= 512
      \/ kern' = "mac" /\ cap' = 0 /\ inl > 512
  BY <1>1 DEF DrainRounds, DrainChoice
<1>4. ptr % 16 = 0
  BY <1>1, BlockBoundaries DEF AtRange, Range
<1>5. ptr \in Nat /\ written = inp /\ ptr + 1024 <= written
  BY <1>1 DEF AtRange, AtCursor, Range
<1>6. kern' \in DOMAIN MacKernel
  BY <1>3 DEF MacKernel
<1> HIDE DEF ptr
<1>7. CASE kern' = "mac"
  <2>1. left = 0 /\ slot = "r32" /\ cap' = 0 /\ look = 2
    BY <1>1, <1>3, <1>7
  <2>2. acc' = HashOfPrefix(ptr + 512) /\ second' = [from |-> ptr + 512, to |-> ptr + 512 + 512]
    BY <1>1, <1>2, <1>4, <1>5, <1>6, <1>7, KernelChains, RoundsExtend
  <2>3. ptr + 512 = inp - 512 /\ ptr + 512 + 512 = inp
    BY <1>1, <2>1 DEF ptr, Range
  <2>4. TypeOK'
    BY <1>1, <1>2, <1>6, <1>7, <2>1, <2>2, <2>3, AccumulatorTypes
    DEF IInv, TypeOK, Labels, cursors
  <2>5. FillInv' /\ PendingInv' /\ DrainInv' /\ SuffixInv' /\ NoDeadBranch'
    BY <1>1, <1>2, <1>7, <2>1, <2>2, <2>3
    DEF IInv, FillInv, PendingInv, DrainInv, SuffixInv,
        NoDeadBranch, DeadBranches, AtCursor, AtRange, Hashed, cursors, Range
  <2> QED BY <2>4, <2>5 DEF IInv
<1>8. CASE kern' # "mac"
  <2>1. PICK c \in {256, 384} : cap' = c /\ Chained(kern') = c /\ Second(kern') = 0
    BY <1>3, <1>8, KernelChains
  <2>2. acc' = HashOfPrefix(ptr + c) /\ second' = NoChain
    <3>1. c \in Nat /\ 0 \in Nat /\ written \in Nat /\ ptr + c + 0 <= written
      BY <1>1, <1>5, <2>1
    <3> QED BY <1>1, <1>2, <1>4, <1>5, <1>6, <2>1, <3>1, RoundsExtend
  <2>3. TypeOK'
    <3>1. ptr + c \in Int
      BY <1>5, <2>1
    <3> QED BY <1>1, <1>2, <1>6, <2>1, <2>2, <3>1, AccumulatorTypes, ZeroAccumulatorType
            DEF IInv, TypeOK, Labels, cursors
  <2>4. DrainInv'
    <3>1. acc' = HashOfPrefix(inp' - Range - left' + cap')
      BY <1>2, <2>1, <2>2 DEF ptr, cursors
    <3> QED BY <1>1, <1>2, <1>3, <1>8, <2>2, <3>1 DEF DrainInv, Hashed, cursors
  <2>5. FillInv' /\ PendingInv' /\ SuffixInv' /\ NoDeadBranch'
    BY <1>1, <1>2, <1>8, <2>2
    DEF IInv, FillInv, PendingInv, SuffixInv,
        NoDeadBranch, DeadBranches, AtCursor, AtRange, cursors, Range
  <2> QED BY <2>3, <2>4, <2>5 DEF IInv
<1> QED BY <1>7, <1>8

\* The suffix begins where the narrow chain ended.
LEMMA NarrowDrainStoresInv == IInv /\ NarrowDrainStores => IInv'
<1> SUFFICES ASSUME IInv, NarrowDrainStores PROVE IInv'
  OBVIOUS
<1>1. /\ pc = "drain_store" /\ kern # "mac" /\ AtRange /\ second = NoChain
      /\ inp >= Range + left /\ inl < Range /\ inp \in Nat /\ inl \in Nat /\ left \in {0, 512}
      /\ Hashed(inp - Range - left + cap) /\ len \in Nat
      /\ \/ kern = "mac128" /\ cap = 256 /\ inl <= 128
         \/ kern = "mac256" /\ cap = 256 /\ inl <= 256
         \/ kern = "mac512" /\ cap = 384 /\ inl <= 512
  BY LengthsAssumption DEF NarrowDrainStores, Goto, IInv, TypeOK, PendingInv, DrainInv
<1>2. Stored(kern, inl) = inl
  BY <1>1, KernelStores
<1>3. written' = len
  BY <1>1, <1>2, EmitAtRange, SMTT(30) DEF NarrowDrainStores, Stores, AtRange, AtCursor
<1>4. /\ pc' = "suffix" /\ oup' = inp - (Range - cap) /\ inl' = inl + (Range - cap)
      /\ UNCHANGED <<len, inp, ctr, sched, slot, acc, second, tag>>
  BY <1>1 DEF NarrowDrainStores, Goto, AtRange, AtCursor
<1>5. (inp - (Range - cap) - left) % 16 = 0
  <2>1. (inp - 1024) % 1024 = 0
    BY <1>1, BlockBoundaries DEF AtRange, Range
  <2> DEFINE b == inp - 1024
  <2>2. b \in Nat /\ b % 1024 = 0
    BY <1>1, <2>1 DEF Range
  <2>3. inp - (Range - cap) - left = b + cap - left
    BY <1>1 DEF Range
  <2> HIDE DEF b
  <2>4. \A c \in {256, 384}, l \in {0, 512} : (b + c - l) % 16 = 0
    BY <2>2, Z3
  <2> QED BY <1>1, <2>3, <2>4
<1>6. TypeOK'
  BY <1>1, <1>3, <1>4 DEF IInv, TypeOK, Labels, sched, AtRange, AtCursor, Range
<1>7. FillInv' /\ PendingInv' /\ DrainInv' /\ SuffixInv' /\ NoDeadBranch'
  <2>1. oup' - left' = inp - Range - left + cap /\ oup' >= left' /\ oup' + inl' = len
    BY <1>1, <1>4 DEF AtRange, AtCursor, sched, Range
  <2>2. (oup' - left') % 16 = 0
    BY <1>4, <1>5 DEF sched
  <2> QED BY <1>1, <1>3, <1>4, <2>1, <2>2
          DEF IInv, FillInv, PendingInv, DrainInv, SuffixInv,
              NoDeadBranch, DeadBranches, Hashed, sched
<1> QED BY <1>6, <1>7 DEF IInv

\* After a wide drain the suffix is the residue.
LEMMA WideDrainStoresInv == IInv /\ WideDrainStores => IInv'
<1> SUFFICES ASSUME IInv, WideDrainStores PROVE IInv'
  OBVIOUS
<1>1. /\ pc = "drain_store" /\ kern = "mac" /\ AtRange
      /\ inp >= Range /\ inl < Range /\ inp \in Nat /\ inl \in Nat /\ left = 0 /\ slot = "r32"
      /\ Hashed(inp - 512) /\ second = [from |-> inp - 512, to |-> inp] /\ len \in Nat
  BY LengthsAssumption DEF WideDrainStores, Goto, IInv, TypeOK, PendingInv, DrainInv
<1>2. Stored(kern, inl) = inl
  BY <1>1, KernelStores DEF Range
<1>3. written' = len
  BY <1>1, <1>2, EmitAtRange DEF WideDrainStores, Stores, AtRange, AtCursor
<1>4. acc' = HashOfPrefix(inp) /\ second' = NoChain
  BY <1>1, CombineExtends DEF WideDrainStores, Range
<1>5. /\ pc' = "suffix"
      /\ UNCHANGED <<len, cursors, sched, slot, tag>>
  BY DEF WideDrainStores, Goto
<1>6. inp % 16 = 0
  BY <1>1, BlockBoundaries DEF AtRange
<1>7. TypeOK'
  BY <1>1, <1>3, <1>4, <1>5, AccumulatorTypes, ZeroAccumulatorType
  DEF IInv, TypeOK, Labels, cursors, sched
<1>8. FillInv' /\ PendingInv' /\ DrainInv' /\ SuffixInv' /\ NoDeadBranch'
  BY <1>1, <1>3, <1>4, <1>5, <1>6
  DEF IInv, FillInv, PendingInv, DrainInv, SuffixInv,
      NoDeadBranch, DeadBranches, AtCursor, AtRange, Hashed, cursors, sched
<1> QED BY <1>7, <1>8 DEF IInv

-----------------------------------------------------------------------------
(***************************************************************************)
(* The exposed suffix and the tag.                                         *)
(***************************************************************************)

\* The suffix starts where the hash ends and reaches the end of the record.
LEMMA SuffixFacts ==
  ASSUME IInv, pc = "suffix"
  PROVE  /\ SuffixStart \in Nat /\ SuffixBytes \in Nat /\ SuffixStart + SuffixBytes = len
         /\ Hashed(SuffixStart) /\ written = len /\ len \in Nat /\ second = NoChain
         /\ SuffixBytes # 0 => SuffixStart % 16 = 0
         /\ SuffixBytes # 0 => Produced(SuffixStart, SuffixBytes) = TRUE
  BY LengthsAssumption
  DEF IInv, TypeOK, SuffixInv, SuffixStart, SuffixBytes, Produced, Garbled

\* The suffix, widened by what a single chain left, continues the accumulator.
LEMMA AbsorbSuffix ==
  ASSUME IInv, pc = "suffix", SuffixBytes # 0
  PROVE  Absorb(acc, SuffixStart, SuffixBytes, Produced(SuffixStart, SuffixBytes))
           = HashOfPrefix(len)
<1>1. Absorb(HashOfPrefix(SuffixStart), SuffixStart, SuffixBytes, TRUE) = HashOfPrefix(len)
  BY SuffixFacts, AbsorbNext
<1> QED BY <1>1, SuffixFacts DEF Hashed

\* The suffix ends the record, with or without the length block in the same call.
LEMMA SuffixStepInv == IInv /\ (NoSuffix \/ FinishSuffix \/ HashSuffix) => IInv'
<1> SUFFICES ASSUME IInv, NoSuffix \/ FinishSuffix \/ HashSuffix PROVE IInv'
  OBVIOUS
<1>1. pc = "suffix" /\ WidenSuffix
  BY DEF NoSuffix, FinishSuffix, HashSuffix, Goto
<1>2. /\ oup' = SuffixStart /\ inl' = SuffixBytes /\ left' = 0
      /\ UNCHANGED <<len, inp, ctr, adv, look, kern, cap, slot, second, written>>
  BY <1>1 DEF WidenSuffix
<1>3. /\ written = len /\ second = NoChain /\ len \in Nat
      /\ SuffixStart \in 0 .. len /\ SuffixBytes \in 0 .. len
  BY <1>1, SuffixFacts
<1>4. \/ pc' = "length" /\ acc' = HashOfPrefix(len) /\ tag' = tag
      \/ pc' = "done" /\ acc' = HashOfRecord(len) /\ tag' = TRUE
  <2>1. CASE NoSuffix
    BY <1>1, <2>1, SuffixFacts DEF NoSuffix, Goto, Hashed
  <2>2. CASE HashSuffix
    BY <1>1, <2>2, AbsorbSuffix DEF HashSuffix, Hash, Goto
  <2>3. CASE FinishSuffix
    BY <1>1, <1>3, <2>3, AbsorbSuffix, LengthsLast DEF FinishSuffix, Goto
  <2> QED BY <2>1, <2>2, <2>3
<1>5. tag = FALSE
  BY <1>1 DEF IInv, TypeOK, SuffixInv
<1>6. TypeOK'
  <2>1. tag' \in BOOLEAN
    BY <1>4, <1>5
  <2>2. acc' \in Accumulator
    BY <1>3, <1>4, AccumulatorTypes
  <2>3. pc' \in Labels
    BY <1>4 DEF Labels
  <2> QED BY <1>2, <1>3, <2>1, <2>2, <2>3 DEF IInv, TypeOK
<1>7. FillInv' /\ PendingInv' /\ DrainInv' /\ NoDeadBranch'
  BY <1>4 DEF FillInv, PendingInv, DrainInv, NoDeadBranch, DeadBranches
<1>8. SuffixInv'
  BY <1>2, <1>3, <1>4, <1>5 DEF SuffixInv, Hashed
<1> QED BY <1>6, <1>7, <1>8 DEF IInv

\* The length block completes the hash of the record.
LEMMA LengthBlockInv == IInv /\ LengthBlock => IInv'
<1> SUFFICES ASSUME IInv, LengthBlock PROVE IInv'
  OBVIOUS
<1>1. /\ pc = "length" /\ Hashed(len) /\ written = len /\ second = NoChain /\ len \in Nat
  BY LengthsAssumption DEF LengthBlock, Goto, IInv, TypeOK, SuffixInv
<1>2. /\ pc' = "done" /\ tag' = TRUE /\ acc' = HashOfRecord(len)
      /\ UNCHANGED <<len, cursors, sched, slot, second, written>>
  BY <1>1, LengthsLast DEF LengthBlock, Goto, Hashed
<1>3. TypeOK'
  <2>1. tag' \in BOOLEAN
    BY <1>2
  <2>2. acc' \in Accumulator
    BY <1>1, <1>2, AccumulatorTypes
  <2> QED BY <1>2, <2>1, <2>2 DEF IInv, TypeOK, Labels, cursors, sched
<1>4. FillInv' /\ PendingInv' /\ DrainInv' /\ SuffixInv' /\ NoDeadBranch'
  BY <1>1, <1>2 DEF FillInv, PendingInv, DrainInv, SuffixInv, NoDeadBranch, DeadBranches
<1> QED BY <1>3, <1>4 DEF IInv

-----------------------------------------------------------------------------
(***************************************************************************)
(* Every step.                                                             *)
(***************************************************************************)

\* The invariant depends on nothing but the variables.
LEMMA StutterInv == IInv /\ UNCHANGED vars => IInv'
  BY DEF IInv, TypeOK, FillInv, PendingInv, DrainInv, SuffixInv, NoDeadBranch,
         AtCursor, AtRange, Hashed, vars, cursors, sched

\* The invariant is inductive.
LEMMA StepInv == IInv /\ [Next]_vars => IInv'
<1> SUFFICES ASSUME IInv, [Next]_vars PROVE IInv'
  OBVIOUS
<1>1. CASE KeyOnly \/ Fill \/ HashAad \/ NoFill \/ KeepFillPending \/ HashFillNow
  BY <1>1, KeyOnlyInv, FillStepInv, HashAadInv, NoFillInv, KeepFillPendingInv, HashFillNowInv
<1>2. CASE Main \/ Schedule \/ Pow32 \/ Short
  BY <1>2, MainInv, ScheduleInv, Pow32Inv, ShortInv
<1>3. CASE TwoPass \/ Tail17
  BY <1>3, CryptAndRollBackInv DEF TwoPass, Tail17, Goto
<1>4. CASE ChunkRounds \/ ChunkStores \/ ChunksDone \/ OneRounds \/ OneStores
  BY <1>4, ChunkRoundsInv, ChunkStoresInv, ChunksDoneInv, OneRoundsInv, OneStoresInv
<1>5. CASE DrainExact \/ DrainRounds \/ NarrowDrainStores \/ WideDrainStores
  BY <1>5, DrainExactInv, DrainRoundsInv, NarrowDrainStoresInv, WideDrainStoresInv
<1>6. CASE NoSuffix \/ FinishSuffix \/ HashSuffix \/ LengthBlock
  BY <1>6, SuffixStepInv, LengthBlockInv
<1>7. CASE Returned \/ UNCHANGED vars
  BY <1>7, StutterInv DEF Returned
<1> QED BY <1>1, <1>2, <1>3, <1>4, <1>5, <1>6, <1>7 DEF Next

\* The inductive invariant of seal, for every record length.
THEOREM SealInvariant == Spec => []IInv
  BY InitInv, StepInv, PTL DEF Spec

\* The cursors stay inside the record whatever its length.
THEOREM SealTypeOK == Spec => []TypeOK
<1>1. IInv => TypeOK
  BY DEF IInv
<1> QED BY <1>1, SealInvariant, PTL

\* Whatever schedule a length selects, the tag that is returned is that of the
\* whole record, all of which has been encrypted.
THEOREM SealTagCoversRecord == Spec => []TagCoversRecord
<1>1. IInv => TagCoversRecord
  BY DEF IInv, SuffixInv, TagCoversRecord
<1> QED BY <1>1, SealInvariant, PTL

\* Every block is encrypted under its own counter.
THEOREM SealKeystreamInOrder == Spec => []KeystreamInOrder
<1>1. IInv => KeystreamInOrder
  <2> SUFFICES ASSUME IInv PROVE written # Garbled
    BY DEF KeystreamInOrder
  <2>1. CASE pc \in {"suffix", "length", "done"}
    BY <2>1, LengthsAssumption DEF IInv, TypeOK, SuffixInv, Garbled
  <2>2. CASE pc \in {"entry", "aad", "fill_hash", "main", "sched", "short"}
    BY <2>2 DEF IInv, TypeOK, FillInv, AtCursor, Garbled
  <2>3. CASE pc \in {"pow", "twopass", "chunk", "chunk_store", "one", "one_store", "drain", "drain_store"}
    BY <2>3 DEF IInv, TypeOK, PendingInv, AtRange, AtCursor, Garbled
  <2> QED BY <2>1, <2>2, <2>3 DEF IInv, TypeOK, Labels, NoDeadBranch
<1> QED BY <1>1, SealInvariant, PTL

\* The prologue of the look-ahead loop and its "no power needed" entry are
\* dead code.
THEOREM SealNoDeadBranch == Spec => []NoDeadBranch
<1>1. IInv => NoDeadBranch
  BY DEF IInv
<1> QED BY <1>1, SealInvariant, PTL

\* At every label the accumulator is the hash of a prefix, without a fault,
\* and neither chain has read past the record.
LEMMA NoFault ==
  ASSUME IInv
  PROVE  acc.faults = {} /\ WithinRecord
<1> USE LengthsAssumption DEF WithinRecord
<1>1. ZeroAccumulator.faults = {} /\ ZeroAccumulator.ct = 0 /\ NoChain.to = 0
  BY DEF ZeroAccumulator, NoChain
<1>2. \A n \in Int : /\ HashOfPrefix(n).faults = {} /\ HashOfPrefix(n).ct = n
                     /\ HashOfRecord(n).faults = {} /\ HashOfRecord(n).ct = n
  BY DEF HashOfPrefix, HashOfRecord
<1>3. CASE pc \in {"entry", "aad", "fill_hash", "main", "sched", "short"}
  BY <1>1, <1>2, <1>3 DEF IInv, TypeOK, FillInv, AtCursor, Hashed
<1>4. CASE pc \in {"pow", "twopass", "chunk", "one", "chunk_store", "one_store"}
  BY <1>1, <1>2, <1>4 DEF IInv, TypeOK, PendingInv, AtRange, AtCursor, Hashed, Range
<1>5. CASE pc = "drain"
  BY <1>1, <1>2, <1>5 DEF IInv, TypeOK, PendingInv, DrainInv, AtRange, AtCursor, Hashed, Range
<1>6. CASE pc = "drain_store"
  <2>1. inp \in Nat /\ len \in Nat /\ inp <= len /\ written = inp /\ left \in Nat
    BY <1>6 DEF IInv, TypeOK, PendingInv, AtRange, AtCursor
  <2>2. CASE kern = "mac"
    BY <1>2, <1>6, <2>1, <2>2 DEF IInv, PendingInv, Hashed
  <2>3. CASE kern # "mac"
    <3>1. PICK c \in {256, 384} : Hashed(inp - Range - left + c) /\ second = NoChain
      BY <1>6, <2>3 DEF IInv, DrainInv
    <3> QED BY <1>1, <1>2, <2>1, <3>1 DEF Hashed, Range
  <2> QED BY <2>2, <2>3
<1>7. CASE pc = "suffix"
  <2>1. /\ SuffixStart \in 0 .. len /\ Hashed(SuffixStart)
        /\ written = len /\ second = NoChain /\ len \in Nat
    BY <1>7, SuffixFacts
  <2> QED BY <1>1, <1>2, <2>1 DEF Hashed
<1>8. CASE pc \in {"length", "done"}
  BY <1>1, <1>2, <1>8 DEF IInv, TypeOK, SuffixInv, Hashed
<1> QED BY <1>3, <1>4, <1>5, <1>6, <1>7, <1>8 DEF IInv, TypeOK, Labels, NoDeadBranch

\* Nothing is authenticated twice, skipped or out of order.
THEOREM SealMacInOrder == Spec => []MacInOrder
<1>1. IInv => MacInOrder
  BY NoFault DEF MacInOrder
<1> QED BY <1>1, SealInvariant, PTL

\* Nothing is authenticated before it has been encrypted.
THEOREM SealMacOverCiphertext == Spec => []MacOverCiphertext
<1>1. IInv => MacOverCiphertext
  BY NoFault DEF MacOverCiphertext
<1> QED BY <1>1, SealInvariant, PTL

\* The kernels that authenticate a fixed number of bytes stay in the record.
THEOREM SealWithinRecord == Spec => []WithinRecord
<1>1. IInv => WithinRecord
  BY NoFault
<1> QED BY <1>1, SealInvariant, PTL

-----------------------------------------------------------------------------
(***************************************************************************)
(* Every step is a step of the record's, or none.                          *)
(***************************************************************************)

\* How far the authenticator has got, by where it is.
LEMMA Fronts ==
  /\ acc = ZeroAccumulator /\ second = NoChain => Absorbed = 0
  /\ \A n : Hashed(n) /\ second = NoChain => Absorbed = n
  /\ \A n : acc = HashOfRecord(n) /\ second = NoChain => Absorbed = n
  /\ \A m, n : second = [from |-> m, to |-> n] /\ n # 0 => Absorbed = n
  BY DEF Absorbed, Hashed, ZeroAccumulator, HashOfPrefix, HashOfRecord, NoChain

\* What has been authenticated and what has been encrypted, label by label.
Places ==
  /\ len \in Nat /\ inp \in Nat /\ inl \in Nat /\ written \in 0 .. len
  /\ pc \notin {"suffix", "length", "done"} => written = inp /\ inp + inl = len
  /\ pc \in {"entry", "aad", "fill_hash"} => Absorbed = 0
  /\ pc = "entry" => inp = 0
  /\ pc \in {"main", "sched", "short"} => Absorbed = IF inl = 0 THEN len ELSE 0
  /\ pc = "one" => Absorbed = 0 /\ inp = Range
  /\ pc = "chunk" => inp >= Range /\ Absorbed = inp - Range
  /\ pc = "chunk_store" => inl >= Range /\ Absorbed = inp
  /\ pc = "one_store" => inl > Range /\ Absorbed = inp - 512
  /\ pc = "drain" => inp >= Range + left /\ Absorbed = inp - Range - left
  /\ pc = "drain_store" =>
       Absorbed = IF kern = "mac" THEN inp ELSE inp - Range - left + cap
  /\ pc = "suffix" => Absorbed \in 0 .. len
  /\ pc \in {"length", "done"} => Absorbed = len
  /\ pc \in {"suffix", "length", "done"} => written = len
  /\ tag => pc = "done"

LEMMA PlacesHold == IInv => Places
<1> SUFFICES ASSUME IInv PROVE Places
  OBVIOUS
<1>1. /\ len \in Nat /\ inp \in Nat /\ inl \in Nat /\ oup \in Nat
      /\ left \in Nat /\ tag \in BOOLEAN /\ pc \in Labels
  BY LengthsAssumption DEF IInv, TypeOK
<1>2. pc \notin {"suffix", "length", "done"} => written = inp /\ inp + inl = len
  <2>1. CASE pc \in {"entry", "aad", "fill_hash", "main", "sched", "short"}
    BY <2>1 DEF IInv, FillInv, AtCursor
  <2>2. CASE pc \in {"pow", "twopass", "chunk", "one", "drain",
                     "chunk_store", "one_store", "drain_store"}
    BY <2>2 DEF IInv, PendingInv, AtRange, AtCursor
  <2>3. pc \notin DeadBranches
    BY DEF IInv, NoDeadBranch
  <2>4. pc \in {"entry", "aad", "fill_hash", "main", "sched", "short", "pow", "twopass",
               "chunk", "one", "drain", "chunk_store", "one_store", "drain_store",
               "suffix", "length", "done"}
    BY <1>1, <2>3 DEF Labels
  <2> QED BY <2>1, <2>2, <2>4
<1>3. /\ pc \in {"entry", "aad", "fill_hash"} => Absorbed = 0
      /\ pc = "entry" => inp = 0
      /\ pc \in {"main", "sched", "short"} => Absorbed = IF inl = 0 THEN len ELSE 0
  BY <1>1, Fronts DEF IInv, FillInv, Range
<1>4. /\ pc = "one" => Absorbed = 0 /\ inp = Range
      /\ pc = "chunk" => inp >= Range /\ Absorbed = inp - Range
      /\ pc = "chunk_store" => inl >= Range /\ Absorbed = inp
      /\ pc = "one_store" => inl > Range /\ Absorbed = inp - 512
      /\ pc = "drain_store" /\ kern = "mac" => Absorbed = inp
  <2>1. inp # 0 \/ ~(pc \in {"chunk_store", "drain_store"})
    BY <1>1 DEF IInv, PendingInv, Range
  <2> QED BY <1>1, <2>1, Fronts DEF IInv, PendingInv
<1>5. /\ pc = "drain" => inp >= Range + left /\ Absorbed = inp - Range - left
      /\ pc = "drain_store" /\ kern # "mac" => Absorbed = inp - Range - left + cap
  BY Fronts DEF IInv, DrainInv, PendingInv
<1>6. /\ pc \in {"length", "done"} => Absorbed = len
      /\ pc \in {"suffix", "length", "done"} => written = len
      /\ pc = "suffix" => Absorbed \in 0 .. len
      /\ tag => pc = "done"
  <2>1. /\ pc \in {"length", "done"} => Absorbed = len
        /\ pc \in {"suffix", "length", "done"} => written = len
        /\ pc = "suffix" => Absorbed = oup - left
        /\ tag => pc = "done"
    BY Fronts DEF IInv, SuffixInv
  <2>2. pc = "suffix" => oup - left \in 0 .. len
    BY <1>1 DEF IInv, SuffixInv
  <2> QED BY <2>1, <2>2
<1>7. written \in 0 .. len
  <2>1. CASE pc \in {"suffix", "length", "done"}
    BY <2>1, <1>1, <1>6
  <2>2. CASE pc \notin {"suffix", "length", "done"}
    BY <2>2, <1>1, <1>2
  <2> QED BY <2>1, <2>2
<1> QED BY <1>1, <1>2, <1>3, <1>4, <1>5, <1>6, <1>7 DEF Places

LEMMA PlacesNext == IInv' => Places'
  BY PlacesHold, PTL

\* A step authenticates only what has been encrypted.
LEMMA StepHashes ==
  ASSUME UNCHANGED <<len, written, tag>>, tag = FALSE, len \in Nat, Absorbed \in Nat,
         Absorbed' \in Absorbed .. written, written \in 0 .. len
  PROVE  [Record!Next]_(Record!vars)
<1>1. CASE Absorbed' = Absorbed
  BY <1>1 DEF Record!vars
<1>2. CASE Absorbed' # Absorbed
  <2>1. Absorbed' \in Absorbed + 1 .. len /\ Absorbed' <= written
    BY <1>2
  <2> HIDE DEF Absorbed
  <2>2. Record!Authenticate
    BY <2>1 DEF Record!Authenticate, Record!MayAuthenticate, Record!Progress
  <2> QED BY <2>2 DEF Record!Next
<1> QED BY <1>1, <1>2

\* A step encrypts what comes next.
LEMMA StepWrites ==
  ASSUME UNCHANGED <<len, tag>>, tag = FALSE, written \in Nat, Absorbed' = Absorbed,
         written' \in written .. len
  PROVE  [Record!Next]_(Record!vars)
<1>1. CASE written' = written
  BY <1>1 DEF Record!vars
<1>2. CASE written' # written
  <2>1. written' \in written + 1 .. len
    BY <1>2
  <2>2. Record!Crypt
    BY <2>1 DEF Record!Crypt, Record!MayWrite, Record!Progress
  <2> QED BY <2>2 DEF Record!Next
<1> QED BY <1>1, <1>2

LEMMA NextRefines == IInv /\ IInv' /\ [Next]_vars => [Record!Next]_(Record!vars)
<1> SUFFICES ASSUME IInv, IInv', [Next]_vars PROVE [Record!Next]_(Record!vars)
  OBVIOUS
<1>1. Places /\ Places'
  BY PlacesHold, PlacesNext
<1>2. left \in {0, 512} /\ cap' \in {0, 256, 384} /\ tag \in BOOLEAN
  BY DEF IInv, TypeOK
<1>3. pc # "done" => tag = FALSE
  BY <1>1, <1>2 DEF Places
<1>4. len \in Nat /\ inp \in Nat /\ inl \in Nat /\ written \in 0 .. len
  BY <1>1 DEF Places
\* Nothing moves.
<1>5. CASE \/ KeyOnly \/ NoFill \/ KeepFillPending \/ Main \/ Schedule \/ Pow32 \/ ChunksDone
           \/ DrainExact \/ NoSuffix \/ Returned \/ UNCHANGED vars
  <2>1. UNCHANGED <<len, acc, second, written, tag>>
    BY <1>5 DEF KeyOnly, NoFill, KeepFillPending, Main, Schedule, Pow32, ChunksDone,
                DrainExact, NoSuffix, WidenSuffix, Returned, vars
  <2> QED BY <2>1 DEF Record!vars, Absorbed
<1>6. CASE HashAad
  <2>1. pc = "aad" /\ pc' = "fill_hash" /\ UNCHANGED <<len, written, tag>>
    BY <1>6 DEF HashAad, Goto
  <2>2. Absorbed' = Absorbed
    BY <2>1, <1>1 DEF Places
  <2> QED BY <2>1, <2>2 DEF Record!vars
\* Steps of the authenticator alone.
<1>7. CASE HashFillNow
  <2>1. pc = "fill_hash" /\ pc' = "main" /\ UNCHANGED <<len, cursors, written, tag>>
    BY <1>7 DEF HashFillNow, Goto
  <2>2. Absorbed = 0 /\ Absorbed' = IF inl = 0 THEN len ELSE 0
    BY <2>1, <1>1 DEF Places, cursors
  <2>3. Absorbed' \in Absorbed .. written
    <3>1. written = inp /\ inp + inl = len
      BY <2>1, <1>1 DEF Places
    <3>2. CASE inl = 0
      <4>1. Absorbed' = len /\ written = len
        BY <2>2, <3>1, <3>2, <1>4
      <4> QED BY <2>2, <4>1, <1>4
    <3>3. CASE inl # 0
      <4>1. Absorbed' = 0
        BY <2>2, <3>3
      <4> HIDE DEF Absorbed
      <4> QED BY <2>2, <4>1, <1>4
    <3> QED BY <3>2, <3>3
  <2>4. Absorbed \in Nat
    BY <2>2
  <2> QED BY <2>1, <2>3, <2>4, <1>3, <1>4, StepHashes
<1>8. CASE ChunkRounds
  <2>1. pc = "chunk" /\ pc' = "chunk_store" /\ UNCHANGED <<len, cursors, written, tag>>
    BY <1>8 DEF ChunkRounds, Rounds, Goto
  <2>2. Absorbed = inp - Range /\ Absorbed' = inp /\ inp >= Range /\ written = inp
    BY <2>1, <1>1 DEF Places, cursors
  <2>3. Absorbed \in Nat /\ Absorbed' \in Absorbed .. written
    BY <2>2, <1>4 DEF Range
  <2> QED BY <2>1, <2>3, <1>3, <1>4, StepHashes
<1>9. CASE OneRounds
  <2>1. pc = "one" /\ pc' = "one_store" /\ UNCHANGED <<len, cursors, written, tag>>
    BY <1>9 DEF OneRounds, Rounds, Goto
  <2>2. Absorbed = 0 /\ Absorbed' = inp - 512 /\ inp = Range /\ written = inp
    BY <2>1, <1>1 DEF Places, cursors
  <2>3. Absorbed \in Nat /\ Absorbed' \in Absorbed .. written
    BY <2>2, <1>4 DEF Range
  <2> QED BY <2>1, <2>3, <1>3, <1>4, StepHashes
<1>10. CASE DrainRounds
  <2>1. pc = "drain" /\ pc' = "drain_store" /\ UNCHANGED <<len, cursors, left, written, tag>>
    BY <1>10 DEF DrainRounds, Rounds, Goto
  <2>2. /\ Absorbed = inp - Range - left /\ inp >= Range + left /\ written = inp
        /\ Absorbed' = IF kern' = "mac" THEN inp ELSE inp - Range - left + cap'
    BY <2>1, <1>1 DEF Places, cursors
  <2>3. Absorbed \in Nat /\ Absorbed <= written
    BY <2>2, <1>2, <1>4 DEF Range
  <2>4. Absorbed' \in Absorbed .. written
    <3>1. CASE kern' = "mac"
      <4>1. Absorbed' = written
        BY <3>1, <2>2
      <4> HIDE DEF Absorbed
      <4> QED BY <4>1, <2>3, <1>4
    <3>2. CASE kern' # "mac"
      <4> DEFINE c == cap'
      <4>1. c \in Int /\ c >= 0 /\ c <= 384
        BY <1>2
      <4>2. Absorbed' = inp - Range - left + c
        BY <3>2, <2>2
      <4>3. left \in Int /\ left >= 0 /\ Range = 1024
        BY <1>2 DEF Range
      <4> HIDE DEF c, Absorbed
      <4> QED BY <4>1, <4>2, <4>3, <2>2, <1>4
    <3> QED BY <3>1, <3>2
  <2> QED BY <2>1, <2>3, <2>4, <1>3, <1>4, StepHashes
<1>11. CASE HashSuffix
  <2>1. pc = "suffix" /\ pc' = "length" /\ UNCHANGED <<len, written, tag>>
    BY <1>11 DEF HashSuffix, WidenSuffix, Goto
  <2>2. Absorbed \in 0 .. len /\ Absorbed' = len /\ written = len
    BY <2>1, <1>1 DEF Places
  <2>3. Absorbed \in Nat /\ Absorbed' \in Absorbed .. written
    BY <2>2, <1>4
  <2> QED BY <2>1, <2>3, <1>3, <1>4, StepHashes
\* Steps of the cipher alone, or with a combination that absorbs nothing.
<1>12. CASE Fill
  <2>1. pc = "entry" /\ pc' = "aad" /\ UNCHANGED <<len, tag>>
    BY <1>12 DEF Fill, Goto
  <2>2. written = 0 /\ written' \in 0 .. len /\ Absorbed' = Absorbed
    BY <2>1, <1>1 DEF Places
  <2> QED BY <2>1, <2>2, <1>3, StepWrites
<1>13. CASE ChunkStores
  <2>1. pc = "chunk_store" /\ pc' = "chunk" /\ UNCHANGED <<len, tag>> /\ inp' = inp + Range
    BY <1>13 DEF ChunkStores, AdvanceRange, Goto
  <2>2. /\ written = inp /\ written' = inp + Range /\ Absorbed = inp
        /\ Absorbed' = inp' - Range /\ inl >= Range /\ inp + inl = len
    BY <2>1, <1>1 DEF Places
  <2>3. written \in Nat /\ written' \in written .. len /\ Absorbed' = Absorbed
    BY <2>1, <2>2, <1>4 DEF Range
  <2> QED BY <2>1, <2>3, <1>3, StepWrites
<1>14. CASE OneStores
  <2>1. /\ pc = "one_store" /\ pc' = "drain" /\ UNCHANGED <<len, tag>> /\ inp' = inp + Range
        /\ left' = 512
    BY <1>14 DEF OneStores, AdvanceRange, Goto
  <2>2. /\ written = inp /\ written' = inp + Range /\ Absorbed = inp - 512
        /\ Absorbed' = inp' - Range - left' /\ inl > Range /\ inp + inl = len
    BY <2>1, <1>1 DEF Places
  <2>3. written \in Nat /\ written' \in written .. len /\ Absorbed' = Absorbed
    BY <2>1, <2>2, <1>4 DEF Range
  <2> QED BY <2>1, <2>3, <1>3, StepWrites
<1>15. CASE TwoPass \/ Short \/ Tail17 \/ NarrowDrainStores \/ WideDrainStores
  <2>1. /\ pc \in {"twopass", "short", "chunk", "drain_store"} /\ pc' = "suffix"
        /\ UNCHANGED <<len, tag>>
    BY <1>15 DEF TwoPass, Short, Tail17, CryptAndRollBack, NarrowDrainStores, WideDrainStores, Goto
  <2>2. written \in Nat /\ written' \in written .. len
    BY <2>1, <1>1, <1>4 DEF Places
  <2>3. Absorbed' = Absorbed
    <3>1. CASE TwoPass \/ Short \/ Tail17 \/ NarrowDrainStores
      BY <3>1 DEF TwoPass, Short, Tail17, CryptAndRollBack, NarrowDrainStores, Absorbed
    <3>2. CASE WideDrainStores
      <4>1. /\ pc = "drain_store" /\ pc' = "suffix" /\ kern = "mac"
            /\ CombineChains
        BY <3>2 DEF WideDrainStores, Goto
      <4>2. second # NoChain /\ second' = NoChain /\ acc'.ct = second.to
        <5>1. second = [from |-> inp - 512, to |-> inp] /\ inp >= Range
          BY <4>1 DEF IInv, PendingInv
        <5>2. inp # 0
          BY <5>1, <1>4 DEF Range
        <5> QED BY <4>1, <5>1, <5>2 DEF CombineChains, Combine, NoChain
      <4> QED BY <4>2 DEF Absorbed
    <3> QED BY <1>15, <3>1, <3>2
  <2> QED BY <2>1, <2>2, <2>3, <1>3, StepWrites
\* The tag.
<1>16. CASE FinishSuffix \/ LengthBlock
  <2>1. /\ pc \in {"suffix", "length"} /\ pc' = "done" /\ UNCHANGED <<len, written>>
        /\ tag' = TRUE
    BY <1>16 DEF FinishSuffix, LengthBlock, WidenSuffix, Goto
  <2>2. Absorbed' = len /\ written = len /\ len \in Nat
    BY <2>1, <1>1 DEF Places
  <2>3. Record!Finish
    <3> HIDE DEF Absorbed
    <3> QED BY <2>1, <2>2, <1>3 DEF Record!Finish, Record!MayAuthenticate
  <2> QED BY <2>3 DEF Record!Next
<1> QED BY <1>5, <1>6, <1>7, <1>8, <1>9, <1>10, <1>11, <1>12, <1>13, <1>14, <1>15, <1>16 DEF Next

\* Whatever schedule its length selects, a call is one of AeadRecord's: it encrypts once,
\* front to back, authenticates once, front to back, only what has been encrypted, and
\* writes the tag last.  The safety part of ImplementsRecord, for all constants.
THEOREM SealRefinesRecord == Spec => Record!Init /\ [][Record!Next]_(Record!vars)
<1>1. Init => Record!Init
  <2> SUFFICES ASSUME Init PROVE Record!Init
    OBVIOUS
  <2>1. Absorbed = 0
    BY Fronts DEF Init
  <2> QED BY <2>1, LengthsAssumption DEF Init, Record!Init
<1>2. IInv /\ [Next]_vars => IInv'
  BY StepInv
<1>3. IInv /\ IInv' /\ [Next]_vars => [Record!Next]_(Record!vars)
  BY NextRefines
<1> QED BY <1>1, <1>2, <1>3, InitInv, PTL DEF Spec

-----------------------------------------------------------------------------
(***************************************************************************)
(* No schedule goes round for ever.                                        *)
(***************************************************************************)

\* The labels in the order in which a call passes them.
Rank(label) ==
  CASE label = "entry"                                     -> 12
    [] label = "aad"                                       -> 11
    [] label = "fill_hash"                                 -> 10
    [] label = "main"                                      -> 9
    [] label = "sched"                                     -> 8
    [] label = "pow"                                       -> 7
    [] label \in {"chunk", "one", "twopass", "short"}      -> 6
    [] label \in {"chunk_store", "one_store"}              -> 5
    [] label = "drain"                                     -> 4
    [] label = "drain_store"                               -> 3
    [] label = "suffix"                                    -> 2
    [] label = "length"                                    -> 1
    [] OTHER                                               -> 0

\* What is left to do: the labels to come and the bytes not yet encrypted.
ToGo == (len - written) + Rank(pc)

\* Only the loop goes back, and it does so after a range.
LEMMA RankFalls ==
  ASSUME Next, pc # "done"
  PROVE  \/ Rank(pc') < Rank(pc)
         \/ ChunkStores
<1>1. CASE KeyOnly \/ Fill \/ HashAad \/ NoFill \/ KeepFillPending \/ HashFillNow
  BY <1>1 DEF KeyOnly, Fill, HashAad, NoFill, KeepFillPending, HashFillNow, Goto, Rank
<1>2. CASE Main \/ Schedule \/ Pow32 \/ TwoPass \/ Short
  BY <1>2 DEF Main, Schedule, Pow32, TwoPass, Short, Goto, Rank
<1>3. CASE ChunkRounds \/ Tail17 \/ ChunksDone \/ OneRounds \/ OneStores
  BY <1>3 DEF ChunkRounds, Tail17, ChunksDone, OneRounds, OneStores, Goto, Rank
<1>4. CASE \/ DrainExact \/ DrainRounds \/ NarrowDrainStores \/ WideDrainStores
           \/ NoSuffix \/ FinishSuffix \/ HashSuffix \/ LengthBlock
  BY <1>4 DEF DrainExact, DrainRounds, NarrowDrainStores, WideDrainStores, NoSuffix,
              FinishSuffix, HashSuffix, LengthBlock, Goto, Rank
<1> QED BY <1>1, <1>2, <1>3, <1>4 DEF Next, Returned

LEMMA RankIsNatural == \A label : Rank(label) \in Nat
  BY DEF Rank

\* What is encrypted stays encrypted.
LEMMA NothingUndone ==
  ASSUME [Record!Next]_(Record!vars), written \in Nat
  PROVE  len' = len /\ written' >= written
<1>1. CASE Record!Authenticate \/ Record!Finish
  BY <1>1 DEF Record!Authenticate, Record!Finish, Record!Progress
<1>2. CASE Record!Crypt
  BY <1>2 DEF Record!Crypt, Record!Progress
<1>3. CASE UNCHANGED Record!vars
  BY <1>3 DEF Record!vars
<1> QED BY <1>1, <1>2, <1>3 DEF Record!Next

LEMMA StepGetsCloser ==
  ASSUME IInv, IInv', [Next]_vars
  PROVE  [ToGo' < ToGo]_vars
<1> SUFFICES ASSUME Next, vars' # vars PROVE ToGo' < ToGo
  OBVIOUS
<1>1. Places /\ Places'
  BY PlacesHold, PlacesNext
<1>2. len \in Nat /\ written \in 0 .. len /\ written' \in 0 .. len'
  BY <1>1 DEF Places
<1>3. len' = len /\ written' >= written
  BY <1>2, NextRefines, NothingUndone
<1>4. Rank(pc) \in Nat /\ Rank(pc') \in Nat
  BY RankIsNatural
<1>5. CASE pc = "done"
  BY <1>5 DEF Next, KeyOnly, Fill, HashAad, NoFill, KeepFillPending, HashFillNow, Main, Schedule,
              Pow32, TwoPass, Short, ChunkRounds, ChunkStores, Tail17, ChunksDone, OneRounds,
              OneStores, DrainExact, DrainRounds, NarrowDrainStores, WideDrainStores, NoSuffix,
              FinishSuffix, HashSuffix, LengthBlock, Returned, Goto
<1>6. CASE Rank(pc') < Rank(pc)
  BY <1>2, <1>3, <1>4, <1>6 DEF ToGo
<1>7. CASE ChunkStores
  <2>1. /\ pc = "chunk_store" /\ pc' = "chunk"
        /\ inp' = inp + Range
    BY <1>7 DEF ChunkStores, AdvanceRange, Goto
  <2>2. written = inp /\ written' = inp + Range /\ inp \in Nat
    BY <2>1, <1>1 DEF Places
  <2>3. Rank(pc) = 5 /\ Rank(pc') = 6
    BY <2>1 DEF Rank
  <2> QED BY <2>2, <2>3, <1>2, <1>3 DEF ToGo, Range
<1> QED BY <1>5, <1>6, <1>7, RankFalls

\* Every step brings the end of the call closer, whatever its length: no schedule has
\* a loop that does not encrypt, and a call takes at most len + 12 steps.
THEOREM SealGetsCloser ==
  Spec => ToGo = len + 12 /\ [](ToGo \in Nat) /\ [][ToGo' < ToGo]_vars
<1>0. Init => ToGo = len + 12
  BY LengthsAssumption DEF Init, ToGo, Rank
<1>1. IInv => ToGo \in Nat
  <2> SUFFICES ASSUME IInv PROVE ToGo \in Nat
    OBVIOUS
  <2>1. len \in Nat /\ written \in 0 .. len /\ Rank(pc) \in Nat
    BY PlacesHold, RankIsNatural DEF Places
  <2> QED BY <2>1 DEF ToGo
<1>2. IInv /\ IInv' /\ [Next]_vars => [ToGo' < ToGo]_vars
  BY StepGetsCloser
<1> QED BY <1>0, <1>1, <1>2, SealInvariant, PTL DEF Spec

-----------------------------------------------------------------------------
(***************************************************************************)
(* The calls into src/chacha_kernels.pl.                                   *)
(***************************************************************************)

\* The step calls an entry for the next n bytes, the keystream from counter c on.
KernelCall(entry, n, c) ==
  \/ Fill /\ entry = "fill" /\ n = FillLength(len) /\ c = 0
  \/ (TwoPass \/ Tail17) /\ entry = "hybrid17" /\ n = inl /\ c = ctr
  \/ Short /\ inl # 0 /\ entry = "tail" /\ n = inl /\ c = ctr

\* The two-pass schedule is for a range and at most two blocks.
Residue == pc = "twopass" => inl \in Range + 1 .. Range + 128

LEMMA ResidueStep ==
  ASSUME IInv, Residue, [Next]_vars
  PROVE  Residue'
<1>1. inl \in Nat
  BY LengthsAssumption DEF IInv, TypeOK
<1>2. CASE Main
  BY <1>1, <1>2 DEF Main, Residue, Range
<1>3. CASE UNCHANGED vars
  BY <1>3 DEF Residue, vars, cursors
<1>4. CASE KeyOnly \/ Fill \/ HashAad \/ NoFill \/ KeepFillPending \/ HashFillNow
  BY <1>4 DEF KeyOnly, Fill, HashAad, NoFill, KeepFillPending, HashFillNow, Goto, Residue
<1>5. CASE Schedule \/ Pow32 \/ TwoPass \/ Short
  BY <1>5 DEF Schedule, Pow32, TwoPass, Short, Goto, Residue
<1>6. CASE ChunkRounds \/ ChunkStores \/ Tail17 \/ ChunksDone \/ OneRounds \/ OneStores
  BY <1>6 DEF ChunkRounds, ChunkStores, Tail17, ChunksDone, OneRounds, OneStores, Goto, Residue
<1>7. CASE \/ DrainExact \/ DrainRounds \/ NarrowDrainStores \/ WideDrainStores
           \/ NoSuffix \/ FinishSuffix \/ HashSuffix \/ LengthBlock
  BY <1>7 DEF DrainExact, DrainRounds, NarrowDrainStores, WideDrainStores, NoSuffix,
              FinishSuffix, HashSuffix, LengthBlock, Goto, Residue
<1> QED BY <1>2, <1>3, <1>4, <1>5, <1>6, <1>7 DEF Next, Returned

\* One step's call.
LEMMA StepCallsKernel ==
  ASSUME IInv, Residue, NEW entry, NEW n, NEW c, KernelCall(entry, n, c)
  PROVE  RightCall(entry, n, c, written) /\ written' = written + n /\ entry # "tail"
<1>1. CASE Fill /\ entry = "fill" /\ n = FillLength(len) /\ c = 0
  <2>1. len \in Nat /\ len > 0 /\ written = 0 /\ inp = 0 /\ oup = 0
    BY <1>1, LengthsAssumption DEF Fill, Goto, IInv, TypeOK, FillInv, AtCursor
  <2>2. /\ FillLength(len) \in Nat /\ FillLength(len) <= FillWidth(FillLength(len))
        /\ Emit(0, 0, 0, 1 % CounterSpace, FillLength(len)) = FillLength(len)
    BY <2>1, FillCovers, EmitAtStart
  <2>3. written' = 0 + FillLength(len)
    BY <1>1, <2>1, <2>2 DEF Fill
  <2> QED BY <1>1, <2>1, <2>3, FillIsRightCall
<1>2. CASE (TwoPass \/ Tail17) /\ entry = "hybrid17" /\ n = inl /\ c = ctr
  <2>1. /\ AtRange /\ inp \in Nat /\ inl \in Nat /\ inl \in Range + 1 .. Range + 128
    BY <1>2, LengthsAssumption
    DEF TwoPass, Tail17, Goto, IInv, TypeOK, PendingInv, Residue, Range
  <2>2. written' = Emit(written, oup, inp, ctr, inl)
    BY <1>2 DEF TwoPass, Tail17, CryptAndRollBack
  <2>3. written' = written + inl
    BY <2>1, <2>2, EmitAtRange DEF AtRange, AtCursor
  <2>4. RightCall(entry, inl, DataCounter(inp), inp)
    BY <1>2, <2>1, LastIsRightCall DEF AtRange, Range
  <2> QED BY <1>2, <2>1, <2>3, <2>4 DEF AtRange, AtCursor
<1>3. CASE Short /\ inl # 0
  BY <1>3, LengthsAssumption DEF Short, Goto, IInv, TypeOK, FillInv
<1> QED BY <1>1, <1>2, <1>3 DEF KernelCall

\* Every entry seal calls outright gets what it relies on: no entry is given an empty call,
\* a fill fits one pass and 17x its seventeen blocks and a little; and each block of the
\* call is encrypted under the counter of its place in the record, the call continuing
\* where the last one stopped.  The call of the short schedule is never made: what has
\* nothing pending was all in the fill.
THEOREM SealCallsKernels ==
  Spec => [][\A entry, n, c : KernelCall(entry, n, c) =>
               RightCall(entry, n, c, written) /\ written' = written + n /\ entry # "tail"]_vars
<1>1. Init => Residue
  BY DEF Init, Residue
<1>2. IInv /\ Residue /\ [Next]_vars => Residue'
  BY ResidueStep
<1>3. IInv /\ Residue /\ [Next]_vars
        => [\A entry, n, c : KernelCall(entry, n, c) =>
              RightCall(entry, n, c, written) /\ written' = written + n /\ entry # "tail"]_vars
  BY StepCallsKernel
<1> QED BY <1>1, <1>2, <1>3, SealInvariant, PTL DEF Spec
=============================================================================
