------------------------------ MODULE Open512 ------------------------------
(***************************************************************************)
(* chacha20_poly1305_open_512 (src/aead512.pl): decrypt a record and       *)
(* compute its tag on an AVX-512 machine.                                  *)
(*                                                                         *)
(* The schedule depends on whether the call is in place and on how many    *)
(* bytes remain.  A disjoint open decrypts a first range together with the *)
(* key block, keeps its ciphertext pending, and then decrypts range i      *)
(* while authenticating range i-1; an in-place open must authenticate a    *)
(* range before the same pass overwrites it.                               *)
(***************************************************************************)
EXTENDS FusedKernels

CONSTANT Lengths        \* the record lengths considered

ASSUME LengthsAssumption == Lengths \subseteq Nat

VARIABLES
  len, inplace,   \* the call: bytes of the record; out == in
  pc,             \* the label about to run
  inl,            \* %rbx: bytes of the record not yet dispatched
  oup, inp,       \* frame 312, 320: output and input cursors, as offsets
  adv,            \* frame 504, low word: fill length, then counter advance
  look,           \* frame 508: 0 no pending range, 1 pending, 2 pending and r^32
  left,           \* frame 536: pending bytes left out of every MAC chain
  ctr,            \* frame 368: block counter of the next data block
  slot,           \* frame 384: what it holds now
  acc, second,    \* frame 288/424, 448: the accumulator and the second chain
  kern, cap,      \* %r14, %r13: kernel of a narrow drain, bytes it authenticates
  suffix,         \* %rdi, %rsi: start and length of the exposed suffix
  written,        \* bytes of plaintext produced, a prefix, or Garbled
  tag             \* the tag has been computed

call    == <<len, inplace>>
cursors == <<inl, oup, inp, ctr>>
sched   == <<adv, look, left, kern, cap, suffix>>
vars    == <<call, pc, cursors, sched, slot, acc, second, written, tag>>

Init ==
  /\ len \in Lengths
  /\ inplace \in BOOLEAN
  /\ pc = "entry"
  /\ inl = len
  /\ oup = 0 /\ inp = 0
  /\ adv = 0 /\ look = 0 /\ left = 0 /\ ctr = 0
  /\ slot = "junk"
  /\ acc = ZeroAccumulator
  /\ second = NoChain
  /\ kern = "none" /\ cap = 0
  /\ suffix = [from |-> 0, n |-> 0]
  /\ written = 0
  /\ tag = FALSE

Goto(from, to) == pc = from /\ pc' = to

\* The input bytes from offset `from' on still hold ciphertext: an in-place
\* open has not written over them.
Intact(from) == inplace => (written # Garbled /\ written <= from)

Hash(from, n) == acc' = Absorb(acc, from, n, Intact(from))

-----------------------------------------------------------------------------
(***************************************************************************)
(* Block zero, the first bytes, the AAD.                                   *)
(***************************************************************************)

KeyOnly ==
  /\ Goto("entry", "aad")
  /\ inplace \/ len = 0
  /\ slot' = "keystream"
  /\ UNCHANGED <<call, cursors, sched, acc, second, written, tag>>

\* Fault: an in-place open takes the fill too.
FillAlsoInPlace ==
  /\ Goto("entry", "aad")
  /\ len # 0
  /\ written' = Emit(written, oup, inp, 1 % CounterSpace, FillLength(len))
  /\ oup' = oup + FillLength(len)
  /\ inp' = inp + FillLength(len)
  /\ inl' = inl - FillLength(len)
  /\ adv' = FillLength(len)
  /\ slot' = "keystream"
  /\ UNCHANGED <<call, ctr, look, left, kern, cap, suffix, acc, second, tag>>

\* The plaintext of the fill is written before its ciphertext is hashed.
Fill ==
  /\ Goto("entry", "aad")
  /\ ~inplace /\ len # 0
  /\ LET fill == FillLength(len)
         out  == IF fill <= FillWidth(fill) THEN fill ELSE FillWidth(fill)
     IN /\ written' = Emit(written, oup, inp, 1 % CounterSpace, out)
        /\ oup' = oup + fill
        /\ inp' = inp + fill
        /\ inl' = inl - fill
        /\ adv' = fill
  /\ slot' = "keystream"
  /\ UNCHANGED <<call, ctr, look, left, kern, cap, suffix, acc, second, tag>>

HashAad ==
  /\ Goto("aad", "fill_hash")
  /\ acc' = AbsorbAad(acc)
  /\ UNCHANGED <<call, cursors, sched, slot, second, written, tag>>

NoFill ==
  /\ Goto("fill_hash", "main")
  /\ adv = 0
  /\ UNCHANGED <<call, cursors, sched, slot, acc, second, written, tag>>

\* A full first range stays pending when there is more ChaCha20 work to come.
KeepFillPending ==
  /\ Goto("fill_hash", "main")
  /\ adv = Range /\ inl # 0
  /\ adv' = 16
  /\ look' = 1
  /\ UNCHANGED <<call, cursors, left, kern, cap, suffix, slot, acc, second, written, tag>>

HashFillNow ==
  /\ Goto("fill_hash", "main")
  /\ adv # 0 /\ (adv # Range \/ inl = 0)
  /\ Hash(inp - adv, adv)
  /\ adv' = 16
  /\ UNCHANGED <<call, cursors, look, left, kern, cap, suffix, slot, second, written, tag>>

-----------------------------------------------------------------------------
(***************************************************************************)
(* The choice of a schedule.                                               *)
(***************************************************************************)

Main ==
  /\ pc = "main"
  /\ ctr' = AdvanceCounter(1 % CounterSpace, adv)
  /\ pc' = IF look = 1 /\ inl > Range /\ inl <= 1152 THEN "twopass" ELSE "sched"
  /\ UNCHANGED <<call, inl, oup, inp, sched, slot, acc, second, written, tag>>

Schedule ==
  /\ pc = "sched"
  /\ pc' = CASE look = 0 /\ inl < Range                   -> "rest"
             [] look # 0 /\ inl <= 512                    -> "pending"
             [] look # 0 /\ inl > Range /\ inl <= 1536    -> "one"
             [] OTHER                                     -> "pow"
  /\ UNCHANGED <<call, cursors, sched, slot, acc, second, written, tag>>

\* r^32 replaces the keystream in the slot.
Pow32 ==
  /\ pc = "pow"
  /\ slot' = "r32"
  /\ look' = IF look = 0 THEN 0 ELSE 2
  /\ pc' = IF look = 0 THEN "chunk" ELSE "pending"
  /\ UNCHANGED <<call, cursors, adv, left, kern, cap, suffix, acc, second, written, tag>>

\* Exactly one more range and a little residue: hash the whole input, decrypt.
TwoPassHash ==
  /\ Goto("twopass", "twopass_crypt")
  /\ Hash(inp - Range, inl + Range)
  /\ UNCHANGED <<call, cursors, sched, slot, second, written, tag>>

TwoPassDecrypt ==
  /\ Goto("twopass_crypt", "out")
  /\ written' = Emit(written, oup, inp, ctr, inl)
  /\ UNCHANGED <<call, cursors, sched, slot, acc, second, tag>>

-----------------------------------------------------------------------------
(***************************************************************************)
(* The fused passes.  A fused kernel has read all of its MAC input when it *)
(* stores its first byte: the rounds and the stores are two steps.         *)
(***************************************************************************)

\* The rounds of kernel k, its MAC input starting at ptr.
Rounds(k, ptr) ==
  /\ Hash(ptr, Chained(k))
  /\ second' = IF Second(k) = 0 THEN NoChain
               ELSE [from |-> ptr + Chained(k), to |-> ptr + Chained(k) + Second(k)]
  /\ UNCHANGED <<call, cursors, adv, look, left, slot, written, tag>>

Stores(k, n) == written' = Emit(written, oup, inp, ctr, Stored(k, n))

\* Fault: the counter is not moved past the range.
AdvanceCursorsOnly ==
  /\ oup' = oup + Range
  /\ inp' = inp + Range
  /\ inl' = inl - Range
  /\ ctr' = ctr

AdvanceRange ==
  /\ oup' = oup + Range
  /\ inp' = inp + Range
  /\ inl' = inl - Range
  /\ ctr' = AdvanceCounter(ctr, 16)

CombineChains ==
  /\ acc' = Combine(acc, second, slot)
  /\ second' = NoChain

\* Fault: a range is started for a residue that needs all sixteen lanes.
ChunkRoundsEarly ==
  /\ Goto("chunk", "chunk_store")
  /\ inl > Range - 64
  /\ Rounds("mac", inp)
  /\ UNCHANGED <<kern, cap, suffix>>

\* In place: authenticate the range that the same pass decrypts.
ChunkRounds ==
  /\ Goto("chunk", "chunk_store")
  /\ inl >= Range
  /\ Rounds("mac", inp)
  /\ UNCHANGED <<kern, cap, suffix>>

ChunkStores ==
  /\ Goto("chunk_store", "chunk")
  /\ Stores("mac", Range)
  /\ CombineChains
  /\ AdvanceRange
  /\ UNCHANGED <<call, sched, slot, tag>>

ChunksDone ==
  /\ Goto("chunk", "rest")
  /\ inl < Range
  /\ UNCHANGED <<call, cursors, sched, slot, acc, second, written, tag>>

\* Disjoint: authenticate the pending range while decrypting the next one.
PendingRounds ==
  /\ Goto("pending", "pending_store")
  /\ inl >= 1089 \/ inl = Range
  /\ Rounds("mac", inp - Range)
  /\ UNCHANGED <<kern, cap, suffix>>

PendingStores ==
  /\ Goto("pending_store", "pending")
  /\ Stores("mac", Range)
  /\ CombineChains
  /\ AdvanceRange
  /\ UNCHANGED <<call, sched, slot, tag>>

\* One range and at most one block more: decrypt it in a 17-block pass and
\* leave everything to the suffix.
Tail17 ==
  /\ Goto("pending", "suffix")
  /\ inl > Range /\ inl < 1089
  /\ written' = Emit(written, oup, inp, ctr, inl)
  /\ suffix' = [from |-> inp - Range, n |-> inl + Range]
  /\ UNCHANGED <<call, cursors, adv, look, left, kern, cap, slot, acc, second, tag>>

PendingDone ==
  /\ Goto("pending", "drain")
  /\ inl < Range
  /\ UNCHANGED <<call, cursors, sched, slot, acc, second, written, tag>>

\* A single chain over half of the pending range: no r^32, no combine.
OneRounds ==
  /\ Goto("one", "one_store")
  /\ Rounds("mac1024", inp - Range)
  /\ UNCHANGED <<kern, cap, suffix>>

\* Fault: the drain is told that r^32 has been computed.
OneStoresClaimsPower ==
  /\ Goto("one_store", "drain")
  /\ Stores("mac1024", Range)
  /\ look' = 2
  /\ left' = 512
  /\ AdvanceRange
  /\ UNCHANGED <<call, adv, kern, cap, suffix, slot, acc, second, tag>>

OneStores ==
  /\ Goto("one_store", "drain")
  /\ Stores("mac1024", Range)
  /\ look' = 1
  /\ left' = 512
  /\ AdvanceRange
  /\ UNCHANGED <<call, adv, kern, cap, suffix, slot, acc, second, tag>>

-----------------------------------------------------------------------------
(***************************************************************************)
(* The drain: less than a range remains, one range is pending.             *)
(***************************************************************************)

DrainExact ==
  /\ Goto("drain", "suffix")
  /\ inl = 0
  /\ suffix' = [from |-> inp - Range, n |-> Range]
  /\ UNCHANGED <<call, cursors, adv, look, left, kern, cap, slot, acc, second, written, tag>>

\* The kernel, and the bytes the roll-back assumes it authenticates.
DrainChoice ==
  CASE inl <= 128                -> <<"mac128", 256>>
    [] inl > 128 /\ inl <= 256   -> <<"mac256", 256>>
    [] inl > 256 /\ look # 2 /\ inl <= 512 -> <<"mac512", 384>>
    [] OTHER                     -> <<"mac", 0>>

\* Fault: the half range a single chain left behind is skipped.
DrainRoundsSkipsLeft ==
  /\ Goto("drain", "drain_store")
  /\ inl # 0
  /\ kern' = DrainChoice[1]
  /\ cap'  = DrainChoice[2]
  /\ Rounds(kern', inp - Range)
  /\ UNCHANGED suffix

\* Fault: the range being decrypted is authenticated, not the pending one.
DrainRoundsReadsAhead ==
  /\ Goto("drain", "drain_store")
  /\ inl # 0
  /\ kern' = DrainChoice[1]
  /\ cap'  = DrainChoice[2]
  /\ Rounds(kern', inp - left)
  /\ UNCHANGED suffix

DrainRounds ==
  /\ Goto("drain", "drain_store")
  /\ inl # 0
  /\ kern' = DrainChoice[1]
  /\ cap'  = DrainChoice[2]
  /\ Rounds(kern', inp - Range - left)
  /\ UNCHANGED suffix

NarrowDrainStores ==
  /\ Goto("drain_store", "suffix")
  /\ kern # "mac"
  /\ Stores(kern, inl)
  /\ suffix' = [from |-> inp - (Range - cap), n |-> inl + (Range - cap)]
  /\ UNCHANGED <<call, cursors, adv, look, left, kern, cap, slot, acc, second, tag>>

WideDrainStores ==
  /\ Goto("drain_store", "suffix")
  /\ kern = "mac"
  /\ Stores(kern, inl)
  /\ CombineChains
  /\ suffix' = [from |-> inp, n |-> inl]
  /\ UNCHANGED <<call, cursors, adv, look, left, kern, cap, slot, tag>>

\* Fault: the suffix starts where the pending bytes do, but is not widened.
HashSuffixNotWidened ==
  /\ Goto("suffix", "out")
  /\ Hash(suffix.from - left, suffix.n)
  /\ left' = 0
  /\ UNCHANGED <<call, cursors, adv, look, kern, cap, suffix, slot, second, written, tag>>

HashSuffix ==
  /\ Goto("suffix", "out")
  /\ Hash(suffix.from - left, suffix.n + left)
  /\ left' = 0
  /\ UNCHANGED <<call, cursors, adv, look, kern, cap, suffix, slot, second, written, tag>>

-----------------------------------------------------------------------------
(***************************************************************************)
(* The rest of an in-place open, and the tag.                              *)
(***************************************************************************)

NoRest ==
  /\ Goto("rest", "out")
  /\ inl = 0
  /\ UNCHANGED <<call, cursors, sched, slot, acc, second, written, tag>>

HashRest ==
  /\ Goto("rest", "rest_crypt")
  /\ inl # 0
  /\ Hash(inp, inl)
  /\ UNCHANGED <<call, cursors, sched, slot, second, written, tag>>

DecryptRest ==
  /\ Goto("rest_crypt", "out")
  /\ written' = Emit(written, oup, inp, ctr, inl)
  /\ UNCHANGED <<call, cursors, sched, slot, acc, second, tag>>

Out ==
  /\ Goto("out", "done")
  /\ acc' = AbsorbLengths(acc)
  /\ tag' = TRUE
  /\ UNCHANGED <<call, cursors, sched, slot, second, written>>

Returned == pc = "done" /\ UNCHANGED vars

Next ==
  \/ KeyOnly \/ Fill \/ HashAad \/ NoFill \/ KeepFillPending \/ HashFillNow
  \/ Main \/ Schedule \/ Pow32 \/ TwoPassHash \/ TwoPassDecrypt
  \/ ChunkRounds \/ ChunkStores \/ ChunksDone
  \/ PendingRounds \/ PendingStores \/ Tail17 \/ PendingDone \/ OneRounds \/ OneStores
  \/ DrainExact \/ DrainRounds \/ NarrowDrainStores \/ WideDrainStores \/ HashSuffix
  \/ NoRest \/ HashRest \/ DecryptRest \/ Out \/ Returned

\* Straight-line code on one thread: it does not stop between two labels.
Spec == Init /\ [][Next]_vars /\ WF_vars(Next)
-----------------------------------------------------------------------------
(***************************************************************************)
(* Properties.                                                             *)
(***************************************************************************)

Labels == {"entry", "aad", "fill_hash", "main", "sched", "pow", "twopass",
           "twopass_crypt", "chunk", "chunk_store", "pending", "pending_store",
           "one", "one_store", "drain", "drain_store", "suffix", "rest",
           "rest_crypt", "out", "done"}

\* The state is well formed: in particular a cursor never passes the end of
\* the record (inl is a natural number) and a single-chain pass leaves nothing
\* or half a range behind.
TypeOK ==
  /\ len \in Lengths /\ inplace \in BOOLEAN
  /\ pc \in Labels
  /\ inl \in 0 .. len /\ oup \in 0 .. len /\ inp \in 0 .. len
  /\ adv \in 0 .. 2 * Range /\ look \in {0, 1, 2} /\ left \in {0, 512}
  /\ ctr \in 0 .. CounterSpace - 1
  /\ slot \in {"junk", "keystream", "r32"}
  /\ acc \in Accumulator
  /\ second \in [from: Int, to: Int]
  /\ kern \in DOMAIN MacKernel \cup {"none"} /\ cap \in {0, 256, 384}
  /\ suffix \in [from: Int, n: Nat]
  /\ written \in Nat \cup {Garbled}
  /\ tag \in BOOLEAN

\* Whatever mixture of single chains, split chains and IFMA suffixes a length
\* selects, the accumulator is always that of AAD || ciphertext prefix: no
\* block skipped, hashed twice, hashed out of order or combined with a power
\* of r that the slot does not hold.
MacInOrder == "order" \notin acc.faults

\* No byte is authenticated after this call has overwritten it with plaintext
\* (the reason the in-place open has a schedule of its own).
MacOverCiphertext == "source" \notin acc.faults

\* Every 64-byte block is decrypted under its own counter, and the plaintext
\* is complete up to `written': no kernel is given a range wider than it can
\* write and then followed by another one.
KeystreamInOrder == written # Garbled

\* The kernels that authenticate a fixed number of bytes, whatever the length,
\* never reach past the record, and no output is produced past its end.
WithinRecord == acc.ct <= len /\ second.to <= len /\ written <= len

\* The returned tag is that of the whole record, and the whole of it has been
\* decrypted.
TagCoversRecord == tag => acc = HashOfRecord(len) /\ written = len

\* Bytes whose Poly1305 contribution has been read, the second chain included.
Absorbed == IF second = NoChain THEN acc.ct ELSE second.to

Record == INSTANCE AeadRecord WITH
  mode     <- IF inplace THEN "open_inplace" ELSE "open",
  crypted  <- written,
  authed   <- Absorbed,
  finished <- tag

\* Every schedule is one of the record's: bytes are decrypted once, in order,
\* in place only once authenticated; and every call returns a tag.
ImplementsRecord == Record!Spec

-----------------------------------------------------------------------------
(***************************************************************************)
(* The inductive invariant: what holds at each label.                      *)
(***************************************************************************)

Hashed(n) == acc = HashOfPrefix(n)

\* The next byte to decrypt opens a range, under the counter in the frame.
AtRange == written = inp /\ inp % Range = 0 /\ ctr = DataCounter(inp)

\* Before the schedule is chosen.
FillInv ==
  /\ oup = inp /\ inp + inl = len
  /\ pc \in {"entry", "aad", "fill_hash", "main", "sched"} =>
       written = inp /\ left = 0 /\ second = NoChain
  /\ pc = "entry" => inp = 0 /\ adv = 0 /\ look = 0
  /\ pc \in {"aad", "fill_hash"} =>
       /\ look = 0 /\ inp = adv
       /\ adv = IF inplace \/ len = 0 THEN 0 ELSE FillLength(len)
  /\ pc \in {"entry", "aad"} => acc = ZeroAccumulator
  /\ pc = "fill_hash" => Hashed(0)
  /\ pc = "main" => adv \in {0, 16}
  /\ pc \in {"main", "sched"} =>
       \/ look = 0 /\ inl = 0 /\ Hashed(len)
       \/ look = 0 /\ inplace /\ inp = 0 /\ Hashed(0) /\ adv = 0
       \/ look = 1 /\ ~inplace /\ inp = Range /\ inl > Range /\ Hashed(0) /\ adv = 16
  /\ pc = "sched" => AtRange \/ inl = 0
  /\ pc = "sched" /\ look = 1 => inl > 1152

\* In place: everything before the cursors is hashed and decrypted.
InPlaceInv ==
  /\ pc \in {"chunk", "chunk_store", "rest", "rest_crypt"} \/ (pc = "pow" /\ look = 0) =>
       look = 0 /\ left = 0 /\ (inl = 0 \/ (inplace /\ AtRange))
  /\ pc \in {"chunk", "rest"} \/ (pc = "pow" /\ look = 0) =>
       Hashed(inp) /\ second = NoChain /\ written = inp
  /\ pc = "pow" /\ look = 0 => inl >= Range
  /\ pc = "chunk" => slot = "r32" /\ inplace /\ AtRange
  /\ pc = "chunk_store" =>
       /\ slot = "r32" /\ inl >= Range
       /\ Hashed(inp + 512) /\ second = [from |-> inp + 512, to |-> inp + Range]
  /\ pc = "rest_crypt" => inl > 0 /\ Hashed(len) /\ second = NoChain

\* Disjoint: one range is decrypted and waits to be hashed.
PendingInv ==
  /\ pc \in {"twopass", "twopass_crypt", "pending", "pending_store", "one",
             "one_store", "drain", "drain_store"} \/ (pc = "pow" /\ look # 0) =>
       ~inplace /\ AtRange /\ inp >= Range + left
  /\ pc \in {"twopass", "twopass_crypt", "one"} \/ (pc = "pow" /\ look # 0) =>
       look = 1 /\ left = 0 /\ second = NoChain
  /\ pc \in {"twopass", "one"} \/ (pc = "pow" /\ look # 0) => Hashed(0) /\ inp = Range
  /\ pc = "twopass_crypt" => Hashed(len)
  /\ pc \in {"one", "one_store"} => inl > Range /\ inl <= 1536
  /\ pc \in {"pending", "pending_store"} => look = 2 /\ slot = "r32" /\ left = 0
  /\ pc = "pending" => Hashed(inp - Range) /\ second = NoChain
  /\ pc = "pending_store" => inl >= Range
  /\ pc = "pending_store" \/ (pc = "drain_store" /\ kern = "mac") =>
       /\ slot = "r32" /\ left = 0
       /\ Hashed(inp - 512) /\ second = [from |-> inp - 512, to |-> inp]
  /\ pc = "one_store" => look = 1 /\ left = 0 /\ Hashed(inp - 512) /\ second = NoChain

\* Less than a range to decrypt.
DrainInv ==
  /\ pc = "drain" =>
       /\ inl < Range /\ second = NoChain
       /\ Hashed(inp - Range - left)
       /\ \/ look = 2 /\ slot = "r32" /\ left = 0
          \/ look = 1 /\ left = 512 /\ inl <= 512
  /\ pc = "drain_store" => inl > 0 /\ inl < Range
  /\ pc = "drain_store" /\ kern # "mac" =>
       /\ second = NoChain
       /\ Hashed(inp - Range - left + cap)
       /\ \/ kern = "mac128" /\ cap = 256 /\ inl <= 128
          \/ kern = "mac256" /\ cap = 256 /\ inl <= 256
          \/ kern = "mac512" /\ cap = 384 /\ inl <= 512

\* What is left is the end of the record, and follows what is hashed.
SuffixInv ==
  /\ pc \in {"suffix", "out", "done"} => written = len /\ second = NoChain
  /\ pc = "suffix" =>
       /\ ~inplace /\ suffix.from - left \in Nat /\ suffix.from + suffix.n = len
       /\ Hashed(suffix.from - left)
       /\ (suffix.from - left) % 16 = 0
  /\ pc = "out" => Hashed(len)
  /\ pc = "done" => acc = HashOfRecord(len)
  /\ tag => pc = "done"

\* Inductive: together the parts say where the record stands at every label, which
\* is what each of the safety properties above follows from.
IInv == TypeOK /\ FillInv /\ InPlaceInv /\ PendingInv /\ DrainInv /\ SuffixInv
=============================================================================
