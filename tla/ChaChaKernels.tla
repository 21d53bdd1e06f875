--------------------------- MODULE ChaChaKernels ----------------------------
(***************************************************************************)
(* One ChaCha20 call (src/chacha_kernels.pl): from an entry point, through *)
(* the dispatch on processor and length, to the passes of the kernels it   *)
(* ends up in.                                                             *)
(*                                                                         *)
(* A call produces a stream of bytes; its i-th 64-byte block must come     *)
(* from counter c0 + i.  The rounds are not modelled: a block is its       *)
(* counter, and a pass writes blocks of consecutive counters.  The stream  *)
(* of a fill starts with the block of the Poly1305 key.                    *)
(***************************************************************************)
EXTENDS FusedKernels

CONSTANTS
  Lengths,        \* numbers of bytes asked for
  Processors,     \* sets of features
  FirstCounters   \* counters a call may start from

\* What OPENSSL_ia32cap_P tells apart ("atom": MOVBE without XSAVE).
Features == {"avx512f", "avx512vl", "ssse3", "xop", "avx2", "atom"}

ASSUME CallsAssumption ==
  /\ Lengths \subseteq Nat
  /\ Processors \subseteq SUBSET Features
  /\ FirstCounters \subseteq 0 .. CounterSpace - 1

\* ChaCha20_ctr32 is called from C.  The others exist for src/aead512.pl, on a
\* processor with AVX-512: ChaCha20_tail_avx512, _17x, _16x_tiered (its call
\* there cannot be reached, but it is exported) and the fill of a record.
Entries == {"ctr32", "tail", "hybrid17", "tiered", "fill"}

\* 64-byte blocks a pass of each kernel computes in vector registers.
Lanes == [
  scalar |-> 1, ssse3 |-> 1, two128 |-> 2, x4 |-> 4, xop4 |-> 4, x8 |-> 8,
  vl2 |-> 2, vl4 |-> 4, vl8 |-> 8, x16 |-> 16, tiered16 |-> 16,
  x9 |-> 8, x17 |-> 16, x32 |-> 32, key17 |-> 16, key25 |-> 24, key33 |-> 32 ]

\* Kernels that repeat one pass until everything is written.
Plain == {"scalar", "ssse3", "x4", "xop4", "x8", "vl2", "vl4", "vl8", "x16"}

VARIABLES
  entry, len, cpu, c0,  \* the call
  pc,             \* a dispatcher, a kernel about to make a pass, or "done"
  rest,           \* %rdx: bytes of the stream still to write
  written,        \* bytes written, a prefix of the stream, or Garbled
  block,          \* %r8: the counter block a kernel reads when entered
  caller,         \* counter word of the caller's block
  private,        \* counter word of the block in the frame of ChaCha20_32x
  lane,           \* counter of the first vector lane of the next pass
  other,          \* counter of the scalar block, or of the second instance
  passes          \* passes made in vector registers

call == <<entry, len, cpu, c0>>
ctrs == <<block, caller, private>>
vars == <<call, pc, rest, written, ctrs, lane, other, passes>>

\* Bytes of the whole stream.
Total == IF entry = "fill" THEN 64 + len ELSE len

\* No entry but ctr32 tests the processor.  A fill starts from counter zero.
Init ==
  /\ entry \in Entries /\ len \in Lengths /\ cpu \in Processors
  /\ c0 \in FirstCounters
  /\ Callable(entry, len)
  /\ entry # "ctr32" => {"avx512f", "avx512vl"} \subseteq cpu
  /\ entry = "fill" => c0 = 0
  /\ pc = entry
  /\ rest = Total
  /\ written = 0
  /\ block = "caller" /\ caller = c0
  /\ private = 0
  /\ lane = 0 /\ other = 0
  /\ passes = 0

\* n bytes from the blocks of counters c, c + 1, ... appended to what is there.
Append(w, c, n) ==
  IF n = 0 THEN w
  ELSE IF w # Garbled /\ w % 64 = 0 /\ c = AdvanceCounter(c0, w \div 64)
  THEN w + n
  ELSE Garbled

AtMost(n, bound) == IF n <= bound THEN n ELSE bound

-----------------------------------------------------------------------------
(***************************************************************************)
(* Dispatch.                                                               *)
(***************************************************************************)

\* The counter block a kernel is given.
BlockCounter == IF block = "caller" THEN caller ELSE private

\* A kernel loads the counter block when it is entered; the key kernels with
\* two instances leave the first counter to the scalar block.
Load(k, c) ==
  /\ lane'  = IF k \in {"key25", "key33"} THEN AdvanceCounter(c, 1)
              ELSE IF k \in DOMAIN Lanes THEN c ELSE lane
  /\ other' = CASE k = "x9"                 -> AdvanceCounter(c, 8)
                [] k \in {"x17", "key17"}   -> AdvanceCounter(c, 16)
                [] k = "x32"                -> AdvanceCounter(c, 16)
                [] k \in {"key25", "key33"} -> AdvanceCounter(c, 17)
                [] OTHER                    -> other

Jump(from, to) ==
  /\ pc = from
  /\ pc' = to
  /\ Load(to, BlockCounter)
  /\ UNCHANGED <<call, rest, written, block, caller, passes>>
  /\ private' = IF to = "x32" THEN BlockCounter ELSE private

\* ChaCha20_ctr32
Ctr32 ==
  Jump("ctr32", CASE rest = 0          -> "done"
                  [] rest # 0 /\ "avx512f" \in cpu  -> "avx512"
                  [] rest # 0 /\ "avx512f" \notin cpu /\ "avx512vl" \in cpu -> "avx512vl"
                  [] rest # 0 /\ cpu \cap {"avx512f", "avx512vl"} = {}
                       -> IF "ssse3" \in cpu THEN "sse" ELSE "scalar")

\* Fault: the two-block kernel for less than two blocks.
SseShortPair ==
  Jump("sse", CASE "xop" \in cpu -> "xop4"
                [] "xop" \notin cpu /\ rest <= 64 -> "ssse3"
                [] "xop" \notin cpu /\ rest > 64 /\ rest <= 128 -> "two128"
                [] "xop" \notin cpu /\ rest > 128 -> "four")

\* ChaCha20_ssse3
Sse ==
  Jump("sse", CASE "xop" \in cpu -> "xop4"
                [] "xop" \notin cpu /\ rest < 128 -> "ssse3"
                [] "xop" \notin cpu /\ rest = 128 -> "two128"
                [] "xop" \notin cpu /\ rest > 128 -> "four")

\* Fault: the jump back lands on the dispatcher, not on the body.
FourJumpsToDispatch ==
  Jump("four", CASE "avx2" \in cpu -> "hybrid9"
                 [] "avx2" \notin cpu /\ rest <= 192 /\ "atom" \in cpu -> "sse"
                 [] "avx2" \notin cpu /\ ~(rest <= 192 /\ "atom" \in cpu) -> "x4")

\* ChaCha20_4x: an Atom is better off with the 1x SSSE3 code.
Four ==
  Jump("four", CASE "avx2" \in cpu -> "hybrid9"
                 [] "avx2" \notin cpu /\ rest <= 192 /\ "atom" \in cpu -> "ssse3"
                 [] "avx2" \notin cpu /\ ~(rest <= 192 /\ "atom" \in cpu) -> "x4")

\* Fault: the last block counted as a pass of its own.
RefusedWithoutLastBlock(n, span) == n >= (span + 64) * ((n - 1) \div span) + 1

\* A stitched pass writes `span' bytes in vector registers and 64 more; a last
\* block costs no pass.  It is refused when it would save no pass.
Refused(n, span) == n >= (span + 64) * ((n - 1) \div span) + 65

\* ChaCha20_9x and ChaCha20_17x
Take9    == ~Refused(rest, 512)  /\ Jump("hybrid9", "x9")
Refuse9  == Refused(rest, 512)   /\ Jump("hybrid9", "x8")
Take17   == ~Refused(rest, 1024) /\ Jump("hybrid17", "x17")
Refuse17 == Refused(rest, 1024)  /\ Jump("hybrid17", "x16")

\* ChaCha20_avx512, also called ChaCha20_4xvl
Avx512 ==
  Jump("avx512", CASE rest <= 512 -> "vl4"
                   [] rest > 512 /\ rest < 2240 /\ rest # 2048 -> "hybrid17"
                   [] rest >= 2240 \/ rest = 2048 -> "x32")

\* ChaCha20_avx512vl, also called ChaCha20_2xvl
Avx512vl == Jump("avx512vl", IF rest <= 128 THEN "vl2" ELSE "vl8")

\* ChaCha20_16x_tiered
TieredEntry == Jump("tiered", "tiered16")

\* ChaCha20_tail_avx512, its callees' own tests included
TailAvx512 ==
  Jump("tail", CASE rest <= 128 -> "vl2"
                 [] rest > 128 /\ rest <= 256  -> "vl4"
                 [] rest > 256 /\ rest <= 512  -> "vl8"
                 [] rest > 512 /\ rest < 2048  -> "x16"
                 [] rest >= 2048               -> "x32")

\* Fault: the two-instance kernel for one byte more than it has lanes.
FillDispatchOffByOne ==
  Jump("fill", CASE FillWidth(len) = 448  -> "tail"
                 [] FillWidth(len) = 1024 -> "key17"
                 [] FillWidth(len) = 1536 \/ len = 1537 -> "key25"
                 [] FillWidth(len) = 2048 /\ len # 1537 -> "key33")

\* The fill of src/aead512.pl: block zero and the data in one dispatch.  The
\* narrow one encrypts zeros in a scratch buffer and is xored from there.
FillDispatch ==
  Jump("fill", CASE FillWidth(len) = 448  -> "tail"
                 [] FillWidth(len) = 1024 -> "key17"
                 [] FillWidth(len) = 1536 -> "key25"
                 [] FillWidth(len) = 2048 -> "key33")

-----------------------------------------------------------------------------
(***************************************************************************)
(* Passes.                                                                 *)
(***************************************************************************)

Wrote(w, n) ==
  /\ written' = w
  /\ rest' = rest - n
  /\ passes' = passes + 1

\* One pass of a kernel that does nothing else.
PlainPass ==
  /\ pc \in Plain
  /\ LET n == AtMost(rest, 64 * Lanes[pc])
     IN /\ Wrote(Append(written, lane, n), n)
        /\ pc' = IF n = rest THEN "done" ELSE pc
  /\ lane' = AdvanceCounter(lane, Lanes[pc])
  /\ UNCHANGED <<call, ctrs, other>>

\* ChaCha20_128: two blocks, whatever the length.
Pass128 ==
  /\ pc = "two128"
  /\ Wrote(Append(written, lane, 128), 128)
  /\ pc' = "done"
  /\ UNCHANGED <<call, ctrs, lane, other>>

\* Fault: the counter of the caller moves only in front of another full pass.
TieredPassNoHandOver ==
  /\ pc = "tiered16"
  /\ LET n == AtMost(rest, 1024)
         next == AdvanceCounter(caller, 16)
     IN /\ Wrote(Append(written, lane, n), n)
        /\ \/ n = rest /\ pc' = "done" /\ UNCHANGED <<caller, lane, other>>
           \/ n < rest /\ rest - n <= 256 /\ pc' = "vl4" /\ caller' = caller /\ Load("vl4", caller)
           \/ n < rest /\ rest - n > 256 /\ pc' = pc /\ caller' = next
              /\ lane' = AdvanceCounter(lane, 16) /\ UNCHANGED other
  /\ UNCHANGED <<call, block, private>>

\* ChaCha20_16x_tiered: after a full pass, at most four blocks are left to the
\* 4xvl body, which loads the caller's counter block again.
TieredPass ==
  /\ pc = "tiered16"
  /\ LET n == AtMost(rest, 1024)
         next == AdvanceCounter(caller, 16)
     IN /\ Wrote(Append(written, lane, n), n)
        /\ \/ n = rest /\ pc' = "done" /\ UNCHANGED <<caller, lane, other>>
           \/ n < rest /\ rest - n <= 256 /\ pc' = "vl4" /\ caller' = next /\ Load("vl4", next)
           \/ n < rest /\ rest - n > 256 /\ pc' = pc /\ caller' = next
              /\ lane' = AdvanceCounter(lane, 16) /\ UNCHANGED other
  /\ UNCHANGED <<call, block, private>>

\* Fault: the lanes move past the lanes only.
StitchMovesLanesOnly(k, last) ==
  /\ pc = k
  /\ LET v == AtMost(rest, 64 * Lanes[k])
         s == AtMost(rest - v, 64)
     IN /\ Wrote(Append(Append(written, lane, v), other, s), v + s)
        /\ pc' = IF rest' = 0 THEN "done" ELSE IF rest' <= 64 THEN last ELSE k
  /\ lane'  = AdvanceCounter(lane, Lanes[k])
  /\ other' = AdvanceCounter(other, Lanes[k] + 1)
  /\ UNCHANGED <<call, ctrs>>

\* The lanes, then the scalar block; both counters move past both.  At most one
\* block more is left to the scalar registers alone.
Stitch(k, last) ==
  /\ pc = k
  /\ LET v == AtMost(rest, 64 * Lanes[k])
         s == AtMost(rest - v, 64)
     IN /\ Wrote(Append(Append(written, lane, v), other, s), v + s)
        /\ pc' = IF rest' = 0 THEN "done" ELSE IF rest' <= 64 THEN last ELSE k
  /\ lane'  = AdvanceCounter(lane, Lanes[k] + 1)
  /\ other' = AdvanceCounter(other, Lanes[k] + 1)
  /\ UNCHANGED <<call, ctrs>>

\* The scalar counter is back at the block the lanes would start with.
LastBlock(k, last) ==
  /\ pc = last
  /\ other' = (other - Lanes[k]) % CounterSpace
  /\ written' = Append(written, other', rest)
  /\ rest' = 0
  /\ pc' = "done"
  /\ UNCHANGED <<call, ctrs, lane, passes>>

Pass9  == Stitch("x9", "last9")
Last9  == LastBlock("x9", "last9")
Pass17 == Stitch("x17", "last17")
Last17 == LastBlock("x17", "last17")

\* Fault: the caller's counter is moved, and its block passed on.
Pass32MovesCaller ==
  /\ pc = "x32"
  /\ Wrote(Append(Append(written, lane, 1024), other, 1024), 2048)
  /\ pc' = IF rest' = 0 THEN "done" ELSE IF rest' < 2048 THEN "residue32" ELSE "x32"
  /\ lane'    = AdvanceCounter(lane, 32)
  /\ other'   = AdvanceCounter(other, 32)
  /\ private' = AdvanceCounter(private, 32)
  /\ caller'  = AdvanceCounter(caller, 32)
  /\ UNCHANGED <<call, block>>

\* ChaCha20_32x
Pass32 ==
  /\ pc = "x32"
  /\ Wrote(Append(Append(written, lane, 1024), other, 1024), 2048)
  /\ pc' = IF rest' = 0 THEN "done" ELSE IF rest' < 2048 THEN "residue32" ELSE "x32"
  /\ lane'    = AdvanceCounter(lane, 32)
  /\ other'   = AdvanceCounter(other, 32)
  /\ private' = AdvanceCounter(private, 32)
  /\ UNCHANGED <<call, block, caller>>

\* ... calls another kernel for the residue, on its private counter block.
Residue32 ==
  /\ pc = "residue32"
  /\ block' = "private"
  /\ pc' = IF "avx512vl" \in cpu THEN "tail" ELSE "x16"
  /\ Load(pc', private)
  /\ UNCHANGED <<call, rest, written, caller, private, passes>>

\* ChaCha20_17x_key: the key is the first lane; there is no second pass.
KeyPass17 ==
  /\ pc = "key17"
  /\ LET v == AtMost(rest, 1024)
         s == AtMost(rest - v, 64)
     IN Wrote(Append(Append(written, lane, v), other, s), v + s)
  /\ pc' = "done"
  /\ UNCHANGED <<call, ctrs, lane, other>>

\* ChaCha20_25x_key and _33x_key: the scalar block is the key.
KeyPassPaired ==
  /\ pc \in {"key25", "key33"}
  /\ LET n == AtMost(rest - 64, 64 * Lanes[pc])
         a == AtMost(n, 1024)
         w == Append(Append(Append(written, BlockCounter, 64), lane, a), other, n - a)
     IN Wrote(w, 64 + n)
  /\ pc' = "done"
  /\ UNCHANGED <<call, ctrs, lane, other>>

Returned == pc = "done" /\ UNCHANGED vars

Next ==
  \/ Ctr32 \/ Sse \/ Four \/ Take9 \/ Refuse9 \/ Take17 \/ Refuse17
  \/ Avx512 \/ Avx512vl \/ TailAvx512 \/ TieredEntry \/ FillDispatch
  \/ PlainPass \/ Pass128 \/ TieredPass \/ Pass9 \/ Last9 \/ Pass17 \/ Last17
  \/ Pass32 \/ Residue32 \/ KeyPass17 \/ KeyPassPaired \/ Returned

\* Straight-line code on one thread: it does not stop between two labels.
Spec == Init /\ [][Next]_vars /\ WF_vars(Next)

-----------------------------------------------------------------------------
(***************************************************************************)
(* Properties.                                                             *)
(***************************************************************************)

Labels == DOMAIN Lanes \cup Entries \cup
  {"sse", "four", "hybrid9", "avx512", "avx512vl", "last9", "last17", "residue32", "done"}

\* The state is well formed: in particular no pass writes more than what is
\* left of the call (rest is a natural number).
TypeOK ==
  /\ entry \in Entries /\ len \in Lengths /\ cpu \in Processors /\ c0 \in FirstCounters
  /\ pc \in Labels
  /\ rest \in 0 .. Total
  /\ written \in 0 .. Total \cup {Garbled}
  /\ block \in {"caller", "private"}
  /\ {caller, private, lane, other} \subseteq 0 .. CounterSpace - 1
  /\ passes \in Nat

\* Whatever chain of kernels the processor and the length select, every block
\* comes from its own counter: none is repeated, skipped or out of order where
\* one kernel takes over from another, and the counter wraps where it should.
KeystreamInOrder == written # Garbled

\* A call that returns has written the whole stream: no kernel is given more
\* than it can produce in the passes it makes.
StreamComplete == pc = "done" => written = Total

\* The caller's counter block is as it was, but for the tiered entry, which
\* leaves it at the block after its last full pass when something followed it.
\* ChaCha20_32x hands its residue to another kernel on a block of its own.
CallerCounterKept ==
  IF entry # "tiered" THEN caller = c0
  ELSE pc = "done" => caller = AdvanceCounter(c0, 16 * ((len - 1) \div 1024))

\* Passes that n bytes take in a stitched kernel, and in the plain one.
StitchedPasses(n, span) == 1 + (IF n <= span + 128 THEN 0 ELSE (n - 65) \div (span + 64))
PlainPasses(n, span)    == (n + span - 1) \div span

\* The stitched kernel is chosen exactly when it saves a vector pass: a call it
\* takes ends with fewer passes than the plain kernel would have made, and one
\* it refuses, which is never above 3584 bytes (9x) or 15360 bytes (17x), would
\* have had no fewer.
StitchedExactlyWhenItSaves ==
  [][/\ pc \in {"x9", "last9"} /\ pc' = "done"   => passes' < PlainPasses(Total, 512)
     /\ pc \in {"x17", "last17"} /\ pc' = "done" => passes' < PlainPasses(Total, 1024)
     /\ Refuse9  => rest <= 3584 /\ StitchedPasses(rest, 512) >= PlainPasses(rest, 512)
     /\ Refuse17 => rest <= 15360 /\ StitchedPasses(rest, 1024) >= PlainPasses(rest, 1024)]_vars

\* Every call returns: the dispatchers, which jump into each other, do not send
\* a call round in circles, and every loop runs out.
EveryCallReturns == <>(pc = "done")

-----------------------------------------------------------------------------
(***************************************************************************)
(* The inductive invariant: what holds at each label.                      *)
(***************************************************************************)

Dispatchers == Entries \cup {"sse", "four", "hybrid9", "avx512", "avx512vl"}

\* The counter of the block at offset n of the stream, a multiple of 64.
At(n) == AdvanceCounter(c0, n \div 64)

\* ... and of the block k further.
Next64(k) == AdvanceCounter(At(written), k)

\* How much is left where a kernel depends on it.
RestInv ==
  /\ written # Garbled /\ written + rest = Total
  /\ pc # "done" => written % 64 = 0
  /\ pc = "done" => rest = 0
  /\ pc \notin {"ctr32", "done"} => rest > 0
  /\ pc = "two128" => rest = 128
  /\ pc = "four" => rest > 128
  /\ pc \in {"x9", "x17", "hybrid9", "hybrid17"} => rest > 64
  /\ pc \in {"last9", "last17"} => rest <= 64
  /\ pc = "x32" => rest >= 2048
  /\ pc = "fill" => entry = "fill" /\ written = 0 /\ rest \in 65 .. 2112
  /\ pc = "key17" => rest <= 1088
  /\ pc = "key25" => rest \in 65 .. 1600
  /\ pc = "key33" => rest \in 65 .. 2112

\* Where the counters stand.
CounterInv ==
  /\ pc \in Dispatchers \cup {"key25", "key33"} => BlockCounter = At(written)
  /\ pc \in Plain \cup {"two128", "tiered16", "x9", "x17", "key17", "x32"} => lane = At(written)
  /\ pc \in {"x9", "last9"} => other = Next64(8)
  /\ pc \in {"x17", "last17", "key17", "x32"} => other = Next64(16)
  /\ pc \in {"key25", "key33"} => lane = Next64(1) /\ other = Next64(17)
  /\ pc \in {"x32", "residue32"} => private = At(written)

\* The caller's block: the tiered entry moves it a range at a time.
CallerInv ==
  /\ entry # "tiered" => caller = c0 /\ pc \notin {"tiered", "tiered16"}
  /\ entry = "tiered" =>
       /\ pc \in {"tiered", "tiered16", "vl4", "done"} /\ block = "caller"
       /\ pc = "tiered" => written = 0
       /\ pc \in {"tiered", "tiered16"} => written % Range = 0 /\ caller = At(written)
       /\ pc \in {"vl4", "done"} => caller = AdvanceCounter(c0, 16 * ((len - 1) \div Range))

\* The calls the stitched kernels take, and how far their passes have come.
PassInv ==
  /\ pc \in {"ctr32", "sse", "four", "avx512", "hybrid9", "hybrid17"} => passes = 0 /\ written = 0
  /\ pc \in {"x9", "last9"} => ~Refused(Total, 512) /\ written = 576 * passes
  /\ pc \in {"x17", "last17"} => ~Refused(Total, 1024) /\ written = 1088 * passes
  /\ pc \in {"last9", "last17"} => passes > 0

IInv == TypeOK /\ RestInv /\ CounterInv /\ CallerInv /\ PassInv
=============================================================================
