------------------------------ MODULE Seal512 ------------------------------
(***************************************************************************)
(* chacha20_poly1305_seal_512 (src/aead512.pl): encrypt a record and       *)
(* compute its tag on an AVX-512 machine.                                  *)
(*                                                                         *)
(* A one-range look-ahead: the first range is encrypted together with the  *)
(* key block and stays pending; then range i is encrypted while range i-1  *)
(* is authenticated; the drain encrypts the residue and leaves an exposed  *)
(* suffix, out[oup, oup + inl), that one last call authenticates.  The MAC *)
(* reads the output buffer, so it may only read what is already there.     *)
(***************************************************************************)
EXTENDS FusedKernels

CONSTANT Lengths        \* the record lengths considered

ASSUME LengthsAssumption == Lengths \subseteq Nat

VARIABLES
  len,            \* the call: bytes of the record
  pc,             \* the label about to run
  inl,            \* %rbx: bytes not yet dispatched; then length of the suffix
  oup, inp,       \* frame 312, 320: output cursor, then start of the suffix; input cursor
  adv,            \* frame 504, low word: fill length, then counter advance
  look,           \* frame 508: 0 no pending range, 1 pending, 2 pending and r^32
  left,           \* frame 536: pending bytes left out of every MAC chain
  ctr,            \* frame 368: block counter of the next data block
  slot,           \* frame 384: what it holds now
  acc, second,    \* frame 288/424, 448: the accumulator and the second chain
  kern, cap,      \* %r14, %r13: kernel of a narrow drain, bytes it authenticates
  written,        \* bytes of ciphertext produced, a prefix, or Garbled
  tag             \* the tag has been computed

cursors == <<inl, oup, inp, ctr>>
sched   == <<adv, look, left, kern, cap>>
vars    == <<len, pc, cursors, sched, slot, acc, second, written, tag>>

Init ==
  /\ len \in Lengths
  /\ pc = "entry"
  /\ inl = len
  /\ oup = 0 /\ inp = 0
  /\ adv = 0 /\ look = 0 /\ left = 0 /\ ctr = 0
  /\ slot = "junk"
  /\ acc = ZeroAccumulator
  /\ second = NoChain
  /\ kern = "none" /\ cap = 0
  /\ written = 0
  /\ tag = FALSE

Goto(from, to) == pc = from /\ pc' = to

\* out[from, from + n) is ciphertext by now.
Produced(from, n) == written # Garbled /\ from + n <= written

Hash(from, n) == acc' = Absorb(acc, from, n, Produced(from, n))

-----------------------------------------------------------------------------
(***************************************************************************)
(* Block zero, the first bytes, the AAD.                                   *)
(***************************************************************************)

KeyOnly ==
  /\ Goto("entry", "aad")
  /\ len = 0
  /\ slot' = "keystream"
  /\ UNCHANGED <<len, cursors, sched, acc, second, written, tag>>

Fill ==
  /\ Goto("entry", "aad")
  /\ len # 0
  /\ LET fill == FillLength(len)
         out  == IF fill <= FillWidth(fill) THEN fill ELSE FillWidth(fill)
     IN /\ written' = Emit(written, oup, inp, 1 % CounterSpace, out)
        /\ oup' = oup + fill
        /\ inp' = inp + fill
        /\ inl' = inl - fill
        /\ adv' = fill
  /\ slot' = "keystream"
  /\ UNCHANGED <<len, ctr, look, left, kern, cap, acc, second, tag>>

HashAad ==
  /\ Goto("aad", "fill_hash")
  /\ acc' = AbsorbAad(acc)
  /\ UNCHANGED <<len, cursors, sched, slot, second, written, tag>>

NoFill ==
  /\ Goto("fill_hash", "main")
  /\ adv = 0
  /\ UNCHANGED <<len, cursors, sched, slot, acc, second, written, tag>>

\* A full first range stays pending when there is more ChaCha20 work to come.
KeepFillPending ==
  /\ Goto("fill_hash", "main")
  /\ adv = Range /\ inl # 0
  /\ adv' = 16
  /\ look' = 1
  /\ UNCHANGED <<len, cursors, left, kern, cap, slot, acc, second, written, tag>>

HashFillNow ==
  /\ Goto("fill_hash", "main")
  /\ adv # 0 /\ (adv # Range \/ inl = 0)
  /\ Hash(oup - adv, adv)
  /\ adv' = 16
  /\ UNCHANGED <<len, cursors, look, left, kern, cap, slot, second, written, tag>>

-----------------------------------------------------------------------------
(***************************************************************************)
(* The choice of a schedule.                                               *)
(***************************************************************************)

\* Fault: the blocks of the fill are not counted.
MainForgetsFill ==
  /\ pc = "main"
  /\ ctr' = 1 % CounterSpace
  /\ pc' = IF look = 1 /\ inl > Range /\ inl <= 1152 THEN "twopass" ELSE "sched"
  /\ UNCHANGED <<len, inl, oup, inp, sched, slot, acc, second, written, tag>>

Main ==
  /\ pc = "main"
  /\ ctr' = AdvanceCounter(1 % CounterSpace, adv)
  /\ pc' = IF look = 1 /\ inl > Range /\ inl <= 1152 THEN "twopass" ELSE "sched"
  /\ UNCHANGED <<len, inl, oup, inp, sched, slot, acc, second, written, tag>>

\* "prologue" (a first range with nothing pending) and "no_pow" (a pending
\* range and at most half a range to come) have no action: see NoDeadBranch.
Schedule ==
  /\ pc = "sched"
  /\ pc' = CASE look = 0 /\ inl < Range                   -> "short"
             [] look = 0 /\ inl >= Range                  -> "prologue"
             [] look # 0 /\ inl <= 512                    -> "no_pow"
             [] look # 0 /\ inl >= Range /\ inl <= 1536   -> "one"
             [] OTHER                                     -> "pow"
  /\ UNCHANGED <<len, cursors, sched, slot, acc, second, written, tag>>

\* r^32 replaces the keystream in the slot.
Pow32 ==
  /\ Goto("pow", "chunk")
  /\ slot' = "r32"
  /\ look' = 2
  /\ UNCHANGED <<len, cursors, adv, left, kern, cap, acc, second, written, tag>>

\* Encrypt everything that remains; the pending range and what was encrypted
\* become the suffix.
CryptAndRollBack ==
  /\ written' = Emit(written, oup, inp, ctr, inl)
  /\ oup' = oup - Range
  /\ inl' = inl + Range
  /\ UNCHANGED <<len, inp, ctr, sched, slot, acc, second, tag>>

\* Exactly one more range and a little residue.
TwoPass == Goto("twopass", "suffix") /\ CryptAndRollBack

\* Nothing pending: encrypt what remains, all of it is the suffix.
Short ==
  /\ Goto("short", "suffix")
  /\ written' = IF inl = 0 THEN written ELSE Emit(written, oup, inp, ctr, inl)
  /\ UNCHANGED <<len, cursors, sched, slot, acc, second, tag>>

-----------------------------------------------------------------------------
(***************************************************************************)
(* The fused passes.  A fused kernel has read all of its MAC input when it *)
(* stores its first byte: the rounds and the stores are two steps.         *)
(***************************************************************************)

\* The rounds of kernel k, its MAC input starting at ptr.
Rounds(k, ptr) ==
  /\ acc' = Absorb(acc, ptr, Chained(k), Produced(ptr, Chained(k) + Second(k)))
  /\ second' = IF Second(k) = 0 THEN NoChain
               ELSE [from |-> ptr + Chained(k), to |-> ptr + Chained(k) + Second(k)]
  /\ UNCHANGED <<len, cursors, adv, look, left, slot, written, tag>>

Stores(k, n) == written' = Emit(written, oup, inp, ctr, Stored(k, n))

AdvanceRange ==
  /\ oup' = oup + Range
  /\ inp' = inp + Range
  /\ inl' = inl - Range
  /\ ctr' = AdvanceCounter(ctr, 16)

CombineChains ==
  /\ acc' = Combine(acc, second, slot)
  /\ second' = NoChain

\* Fault: a range is started for a residue that needs all sixteen lanes.
ChunkRoundsEarly ==
  /\ Goto("chunk", "chunk_store")
  /\ inl > Range - 64
  /\ Rounds("mac", oup - Range)
  /\ UNCHANGED <<kern, cap>>

\* Fault: the range being encrypted is authenticated, not the pending one.
ChunkRoundsReadsAhead ==
  /\ Goto("chunk", "chunk_store")
  /\ inl >= 1089 \/ inl = Range
  /\ Rounds("mac", oup)
  /\ UNCHANGED <<kern, cap>>

\* Authenticate the pending range while encrypting the next one.
ChunkRounds ==
  /\ Goto("chunk", "chunk_store")
  /\ inl >= 1089 \/ inl = Range
  /\ Rounds("mac", oup - Range)
  /\ UNCHANGED <<kern, cap>>

ChunkStores ==
  /\ Goto("chunk_store", "chunk")
  /\ Stores("mac", Range)
  /\ CombineChains
  /\ AdvanceRange
  /\ UNCHANGED <<len, sched, slot, tag>>

\* One range and at most one block more: a single 17-block pass.
Tail17 ==
  /\ Goto("chunk", "suffix")
  /\ inl > Range /\ inl < 1089
  /\ CryptAndRollBack

ChunksDone ==
  /\ Goto("chunk", "drain")
  /\ inl < Range
  /\ UNCHANGED <<len, cursors, sched, slot, acc, second, written, tag>>

\* A single chain over half of the pending range: no r^32, no combine.
OneRounds ==
  /\ Goto("one", "one_store")
  /\ Rounds("mac1024", oup - Range)
  /\ UNCHANGED <<kern, cap>>

OneStores ==
  /\ Goto("one_store", "drain")
  /\ Stores("mac1024", Range)
  /\ look' = 1
  /\ left' = 512
  /\ AdvanceRange
  /\ UNCHANGED <<len, adv, kern, cap, slot, acc, second, tag>>

-----------------------------------------------------------------------------
(***************************************************************************)
(* The drain: less than a range remains, one range is pending.             *)
(***************************************************************************)

\* No residue to hide the pending range behind: it is the suffix.
DrainExact ==
  /\ Goto("drain", "suffix")
  /\ inl = 0
  /\ oup' = oup - Range
  /\ inl' = Range
  /\ UNCHANGED <<len, inp, ctr, sched, slot, acc, second, written, tag>>

\* Fault: the two-lane kernel also chosen for one byte more than it can write.
DrainChoiceOffByOne ==
  CASE inl <= 129               -> <<"mac128", 256>>
    [] inl > 129 /\ inl <= 256  -> <<"mac256", 256>>
    [] inl > 256 /\ inl <= 512  -> <<"mac512", 384>>
    [] OTHER                    -> <<"mac", 0>>

\* Fault: one roll-back for both mid-sized kernels.
DrainChoiceSameCap ==
  CASE inl <= 128               -> <<"mac128", 256>>
    [] inl > 128 /\ inl <= 256  -> <<"mac256", 384>>
    [] inl > 256 /\ inl <= 512  -> <<"mac512", 384>>
    [] OTHER                    -> <<"mac", 0>>

\* The kernel, and the bytes the roll-back assumes it authenticates.
DrainChoice ==
  CASE inl <= 128               -> <<"mac128", 256>>
    [] inl > 128 /\ inl <= 256  -> <<"mac256", 256>>
    [] inl > 256 /\ inl <= 512  -> <<"mac512", 384>>
    [] OTHER                    -> <<"mac", 0>>

\* Fault: the range being encrypted is authenticated, not the pending one.
DrainRoundsReadsAhead ==
  /\ Goto("drain", "drain_store")
  /\ inl # 0
  /\ kern' = DrainChoice[1]
  /\ cap'  = DrainChoice[2]
  /\ Rounds(kern', oup - left)

DrainRounds ==
  /\ Goto("drain", "drain_store")
  /\ inl # 0
  /\ kern' = DrainChoice[1]
  /\ cap'  = DrainChoice[2]
  /\ Rounds(kern', oup - Range - left)

NarrowDrainStores ==
  /\ Goto("drain_store", "suffix")
  /\ kern # "mac"
  /\ Stores(kern, inl)
  /\ oup' = oup - (Range - cap)
  /\ inl' = inl + (Range - cap)
  /\ UNCHANGED <<len, inp, ctr, sched, slot, acc, second, tag>>

WideDrainStores ==
  /\ Goto("drain_store", "suffix")
  /\ kern = "mac"
  /\ Stores(kern, inl)
  /\ CombineChains
  /\ UNCHANGED <<len, cursors, sched, slot, tag>>

-----------------------------------------------------------------------------
(***************************************************************************)
(* The exposed suffix and the tag.                                         *)
(***************************************************************************)

\* Fault: the half range a single chain left behind is skipped.
SuffixStartSkipsLeft == oup

\* Half of a pending range a single chain left behind joins the suffix.
SuffixStart == oup - left
SuffixBytes == inl + left

WidenSuffix ==
  /\ oup' = SuffixStart
  /\ inl' = SuffixBytes
  /\ left' = 0
  /\ UNCHANGED <<len, inp, ctr, adv, look, kern, cap, slot, second, written>>

NoSuffix ==
  /\ Goto("suffix", "length")
  /\ SuffixBytes = 0
  /\ WidenSuffix
  /\ UNCHANGED <<acc, tag>>

\* The suffix, the length block and the tag in one call.
FinishSuffix ==
  /\ Goto("suffix", "done")
  /\ SuffixBytes # 0 /\ look = 1
  /\ WidenSuffix
  /\ acc' = AbsorbLengths(Absorb(acc, SuffixStart, SuffixBytes,
                                 Produced(SuffixStart, SuffixBytes)))
  /\ tag' = TRUE

HashSuffix ==
  /\ Goto("suffix", "length")
  /\ SuffixBytes # 0 /\ look # 1
  /\ WidenSuffix
  /\ Hash(SuffixStart, SuffixBytes)
  /\ UNCHANGED tag

LengthBlock ==
  /\ Goto("length", "done")
  /\ acc' = AbsorbLengths(acc)
  /\ tag' = TRUE
  /\ UNCHANGED <<len, cursors, sched, slot, second, written>>

Returned == pc = "done" /\ UNCHANGED vars

Next ==
  \/ KeyOnly \/ Fill \/ HashAad \/ NoFill \/ KeepFillPending \/ HashFillNow
  \/ Main \/ Schedule \/ Pow32 \/ TwoPass \/ Short
  \/ ChunkRounds \/ ChunkStores \/ Tail17 \/ ChunksDone \/ OneRounds \/ OneStores
  \/ DrainExact \/ DrainRounds \/ NarrowDrainStores \/ WideDrainStores
  \/ NoSuffix \/ FinishSuffix \/ HashSuffix \/ LengthBlock \/ Returned

\* Straight-line code on one thread: it does not stop between two labels.
Spec == Init /\ [][Next]_vars /\ WF_vars(Next)
-----------------------------------------------------------------------------
(***************************************************************************)
(* Properties.                                                             *)
(***************************************************************************)

\* Branches of the schedule the code still has but no call takes.
DeadBranches == {"prologue", "no_pow"}

Labels == {"entry", "aad", "fill_hash", "main", "sched", "pow", "twopass",
           "short", "chunk", "chunk_store", "one", "one_store", "drain",
           "drain_store", "suffix", "length", "done"} \cup DeadBranches

\* The state is well formed: in particular no cursor leaves the record and a
\* single-chain pass leaves nothing or half a range behind.
TypeOK ==
  /\ len \in Lengths
  /\ pc \in Labels
  /\ inl \in 0 .. len /\ oup \in 0 .. len /\ inp \in 0 .. len
  /\ adv \in 0 .. 2 * Range /\ look \in {0, 1, 2} /\ left \in {0, 512}
  /\ ctr \in 0 .. CounterSpace - 1
  /\ slot \in {"junk", "keystream", "r32"}
  /\ acc \in Accumulator
  /\ second \in [from: Int, to: Int]
  /\ kern \in DOMAIN MacKernel \cup {"none"} /\ cap \in {0, 256, 384}
  /\ written \in Nat \cup {Garbled}
  /\ tag \in BOOLEAN

\* Whatever mixture of single chains, split chains and IFMA suffixes a length
\* selects, the accumulator is always that of AAD || ciphertext prefix: no
\* block skipped, hashed twice, hashed out of order or combined with a power
\* of r that the slot does not hold.
MacInOrder == "order" \notin acc.faults

\* The MAC reads the output buffer while it is being produced: every byte it
\* reads has already been encrypted by an earlier step.
MacOverCiphertext == "source" \notin acc.faults

\* Every 64-byte block is encrypted under its own counter, and the ciphertext
\* is complete up to `written': no kernel is given a range wider than it can
\* write and then followed by another one.
KeystreamInOrder == written # Garbled

\* The kernels that authenticate a fixed number of bytes, whatever the length,
\* never reach past the record, and no output is produced past its end.
WithinRecord == acc.ct <= len /\ second.to <= len /\ written <= len

\* The returned tag is that of the whole record, and the whole of it has been
\* encrypted.
TagCoversRecord == tag => acc = HashOfRecord(len) /\ written = len

\* A fill leaves either nothing or, pending, more than 1152 bytes to schedule:
\* the prologue of the look-ahead loop and its "no power needed" entry are
\* never taken.
NoDeadBranch == pc \notin DeadBranches

\* Bytes whose Poly1305 contribution has been read, the second chain included.
Absorbed == IF second = NoChain THEN acc.ct ELSE second.to

Record == INSTANCE AeadRecord WITH
  mode     <- "seal",
  crypted  <- written,
  authed   <- Absorbed,
  finished <- tag

\* Every schedule is one of the record's: bytes are encrypted once, in order,
\* and authenticated once encrypted; and every call returns a tag.
ImplementsRecord == Record!Spec

-----------------------------------------------------------------------------
(***************************************************************************)
(* The inductive invariant: what holds at each label.                      *)
(***************************************************************************)

Hashed(n) == acc = HashOfPrefix(n)

\* Everything before the cursors is encrypted, nothing after them.
AtCursor == oup = inp /\ inp + inl = len /\ written = inp

\* ... and the next byte opens a range, under the counter in the frame.
AtRange == AtCursor /\ inp % Range = 0 /\ ctr = DataCounter(inp)

\* Before the schedule is chosen.
FillInv ==
  /\ pc \in {"entry", "aad", "fill_hash", "main", "sched", "short"} =>
       AtCursor /\ left = 0 /\ second = NoChain
  /\ pc = "entry" => inp = 0 /\ adv = 0 /\ look = 0
  /\ pc \in {"aad", "fill_hash"} =>
       look = 0 /\ inp = adv /\ adv = IF len = 0 THEN 0 ELSE FillLength(len)
  /\ pc \in {"entry", "aad"} => acc = ZeroAccumulator
  /\ pc = "fill_hash" => Hashed(0)
  /\ pc \in {"main", "sched", "short"} =>
       \/ look = 0 /\ inl = 0 /\ Hashed(len)
       \/ look = 1 /\ inp = Range /\ inl > Range /\ Hashed(0) /\ adv = 16
  /\ pc = "sched" /\ look = 1 => AtRange /\ inl > 1152
  /\ pc = "short" => look = 0
  /\ pc = "main" => adv \in {0, 16}

\* One range pending.
PendingInv ==
  /\ pc \in {"pow", "twopass", "chunk", "one", "drain"} => AtRange /\ second = NoChain
  /\ pc \in {"pow", "twopass", "one"} => look = 1 /\ left = 0 /\ Hashed(0) /\ inp = Range
  /\ pc = "pow" => inl > 1536
  /\ pc = "twopass" => inl > Range
  /\ pc = "one" => inl > Range /\ inl <= 1536
  /\ pc = "chunk" =>
       look = 2 /\ slot = "r32" /\ left = 0 /\ inp >= Range /\ Hashed(inp - Range)
  /\ pc \in {"chunk_store", "one_store", "drain_store"} => AtRange /\ inp >= Range
  /\ pc = "chunk_store" => inl >= Range /\ look = 2 /\ left = 0
  /\ pc = "chunk_store" \/ (pc = "drain_store" /\ kern = "mac") =>
       /\ slot = "r32" /\ left = 0
       /\ Hashed(inp - 512) /\ second = [from |-> inp - 512, to |-> inp]
  /\ pc = "one_store" =>
       /\ look = 1 /\ left = 0 /\ inl > Range /\ inl <= 1536
       /\ Hashed(inp - 512) /\ second = NoChain

\* Less than a range to encrypt.
DrainInv ==
  /\ pc = "drain" =>
       /\ inl < Range /\ inp >= Range + left
       /\ Hashed(inp - Range - left)
       /\ \/ look = 2 /\ slot = "r32" /\ left = 0
          \/ look = 1 /\ left = 512 /\ inl <= 512
  /\ pc = "drain_store" => inl > 0 /\ inl < Range /\ inp >= Range + left
  /\ pc = "drain_store" /\ kern # "mac" =>
       /\ second = NoChain
       /\ Hashed(inp - Range - left + cap)
       /\ \/ kern = "mac128" /\ cap = 256 /\ inl <= 128
          \/ kern = "mac256" /\ cap = 256 /\ inl <= 256
          \/ kern = "mac512" /\ cap = 384 /\ inl <= 512

\* What is left is the end of the record, and follows what is hashed.
SuffixInv ==
  /\ pc \in {"suffix", "length", "done"} => written = len /\ second = NoChain
  /\ pc = "suffix" =>
       /\ Hashed(oup - left) /\ oup >= left /\ oup + inl = len
       /\ inl + left = 0 \/ (oup - left) % 16 = 0
  /\ pc = "length" => Hashed(len)
  /\ pc = "done" => acc = HashOfRecord(len)
  /\ tag => pc = "done"

\* Inductive: together the parts say where the record stands at every label, which
\* is what each of the safety properties above follows from.
IInv == TypeOK /\ FillInv /\ PendingInv /\ DrainInv /\ SuffixInv /\ NoDeadBranch
=============================================================================
