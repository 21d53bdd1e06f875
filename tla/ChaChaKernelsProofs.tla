------------------------ MODULE ChaChaKernelsProofs -------------------------
(***************************************************************************)
(* One ChaCha20 call, for every length, processor, first counter and width *)
(* of the counter: the dispatch formula of the two stitched kernels, the   *)
(* inductive invariant, what follows from it, and that every step brings   *)
(* the return closer.                                                      *)
(***************************************************************************)
EXTENDS ChaChaKernels, KernelLemmas, TLAPS

\* Division by the widths of the passes.
LEMMA Quotient512 ==
  ASSUME NEW n \in Nat
  PROVE  n \div 512 \in Nat /\ 512 * (n \div 512) <= n /\ n < 512 * (n \div 512) + 512
  BY SMT

LEMMA Quotient576 ==
  ASSUME NEW n \in Nat
  PROVE  n \div 576 \in Nat /\ 576 * (n \div 576) <= n /\ n < 576 * (n \div 576) + 576
  BY SMT

LEMMA Quotient1024 ==
  ASSUME NEW n \in Nat
  PROVE  n \div 1024 \in Nat /\ 1024 * (n \div 1024) <= n /\ n < 1024 * (n \div 1024) + 1024
  BY SMT

LEMMA Quotient1088 ==
  ASSUME NEW n \in Nat
  PROVE  n \div 1088 \in Nat /\ 1088 * (n \div 1088) <= n /\ n < 1088 * (n \div 1088) + 1088
  BY SMT

\* ChaCha20_9x refuses exactly the calls on which it would not save a pass, and
\* none above 3584 bytes.  The dispatchers hand it no call of a single block.
THEOREM RefusedBy9x ==
  ASSUME NEW n \in Nat, n > 64
  PROVE  /\ Refused(n, 512) => n <= 3584
         /\ Refused(n, 512) <=> StitchedPasses(n, 512) >= PlainPasses(n, 512)
<1> DEFINE q == (n - 1) \div 512
           p == (n - 65) \div 576
<1>1. n - 1 \in Nat /\ n - 65 \in Nat /\ n + 511 \in Nat
  OBVIOUS
<1>2. q \in Nat /\ 512 * q <= n - 1 /\ n - 1 < 512 * q + 512
  BY <1>1, Quotient512
<1>3. p \in Nat /\ 576 * p <= n - 65 /\ n - 65 < 576 * p + 576
  BY <1>1, Quotient576
<1>4. PlainPasses(n, 512) = q + 1
  <2>1. PlainPasses(n, 512) = (n + 511) \div 512
    BY DEF PlainPasses
  <2>2. n + 511 = (n - 1) + 512
    OBVIOUS
  <2> QED BY <2>1, <2>2, <1>1, <1>2, Quotient512
<1>5. StitchedPasses(n, 512) = p + 1
  BY <1>3 DEF StitchedPasses
<1>6. Refused(n, 512) <=> n >= 576 * q + 65
  BY DEF Refused
<1> HIDE DEF p, q
<1>7. Refused(n, 512) <=> p >= q
  BY <1>2, <1>3, <1>6
<1>8. Refused(n, 512) => n <= 3584
  BY <1>2, <1>6
<1> QED BY <1>2, <1>3, <1>4, <1>5, <1>7, <1>8

\* The same of ChaCha20_17x, and 15360 bytes.
THEOREM RefusedBy17x ==
  ASSUME NEW n \in Nat, n > 64
  PROVE  /\ Refused(n, 1024) => n <= 15360
         /\ Refused(n, 1024) <=> StitchedPasses(n, 1024) >= PlainPasses(n, 1024)
<1> DEFINE q == (n - 1) \div 1024
           p == (n - 65) \div 1088
<1>1. n - 1 \in Nat /\ n - 65 \in Nat /\ n + 1023 \in Nat
  OBVIOUS
<1>2. q \in Nat /\ 1024 * q <= n - 1 /\ n - 1 < 1024 * q + 1024
  BY <1>1, Quotient1024
<1>3. p \in Nat /\ 1088 * p <= n - 65 /\ n - 65 < 1088 * p + 1088
  BY <1>1, Quotient1088
<1>4. PlainPasses(n, 1024) = q + 1
  <2>1. PlainPasses(n, 1024) = (n + 1023) \div 1024
    BY DEF PlainPasses
  <2>2. n + 1023 = (n - 1) + 1024
    OBVIOUS
  <2> QED BY <2>1, <2>2, <1>1, <1>2, Quotient1024
<1>5. StitchedPasses(n, 1024) = p + 1
  BY <1>3 DEF StitchedPasses
<1>6. Refused(n, 1024) <=> n >= 1088 * q + 65
  BY DEF Refused
<1> HIDE DEF p, q
<1>7. Refused(n, 1024) <=> p >= q
  BY <1>2, <1>3, <1>6
<1>8. Refused(n, 1024) => n <= 15360
  BY <1>2, <1>6
<1> QED BY <1>2, <1>3, <1>4, <1>5, <1>7, <1>8

-----------------------------------------------------------------------------
(***************************************************************************)
(* Counters and the stream.                                                *)
(***************************************************************************)

\* Block counters are counters, however far they are advanced.
LEMMA AdvanceType ==
  ASSUME NEW c \in Nat, NEW k \in Nat
  PROVE  AdvanceCounter(c, k) \in 0 .. CounterSpace - 1 /\ AdvanceCounter(c, k) \in Nat
<1>1. c + k \in Nat
  OBVIOUS
<1> QED BY <1>1, CounterInRange, CounterSpaceAssumption DEF AdvanceCounter

\* Two advances are one.
LEMMA AdvanceTwice ==
  ASSUME NEW c \in Nat, NEW j \in Nat, NEW k \in Nat
  PROVE  AdvanceCounter(AdvanceCounter(c, j), k) = AdvanceCounter(c, j + k)
<1>1. c + j \in Nat
  OBVIOUS
<1>2. AdvanceCounter((c + j) % CounterSpace, k) = (c + j + k) % CounterSpace
  BY <1>1, CounterAdd
<1> QED BY <1>2 DEF AdvanceCounter

\* The order of two advances does not matter.
LEMMA AdvanceSwap ==
  ASSUME NEW c \in Nat, NEW j \in Nat
  PROVE  /\ j + 1 \in Nat
         /\ AdvanceCounter(AdvanceCounter(c, j), j + 1) = AdvanceCounter(AdvanceCounter(c, j + 1), j)
<1> DEFINE k == j + 1
<1>1. k \in Nat /\ j + k = k + j
  OBVIOUS
<1> HIDE DEF k
<1>2. AdvanceCounter(AdvanceCounter(c, j), k) = AdvanceCounter(c, j + k)
  BY <1>1, AdvanceTwice
<1>3. AdvanceCounter(AdvanceCounter(c, k), j) = AdvanceCounter(c, k + j)
  BY <1>1, AdvanceTwice
<1> QED BY <1>1, <1>2, <1>3 DEF k

\* A counter advanced by nothing.
LEMMA AdvanceZero ==
  ASSUME NEW c \in 0 .. CounterSpace - 1
  PROVE  AdvanceCounter(c, 0) = c
<1>1. c \in Nat /\ c + 0 = c /\ CounterSpace \in Nat /\ CounterSpace > 0
  BY CounterSpaceAssumption
<1>2. c = CounterSpace * 0 + c
  BY <1>1
<1>3. c % CounterSpace = c
  BY <1>1, <1>2, RemainderIsUnique
<1> QED BY <1>1, <1>3 DEF AdvanceCounter

\* The counter of the block k blocks further on.
LEMMA AtNext ==
  ASSUME c0 \in Nat, NEW w \in Nat, NEW k \in Nat, NEW v, v = w + 64 * k
  PROVE  At(v) = AdvanceCounter(At(w), k)
<1> DEFINE b == w \div 64
<1>1. b \in Nat /\ v \div 64 = b + k
  BY Z3
<1>2. At(w) = AdvanceCounter(c0, b) /\ At(v) = AdvanceCounter(c0, b + k)
  BY <1>1 DEF At
<1> HIDE DEF b
<1> QED BY <1>1, <1>2, AdvanceTwice

\* Bytes from the block that is due.
LEMMA AppendDue ==
  ASSUME NEW w \in Nat, w % 64 = 0, NEW n \in Nat
  PROVE  Append(w, At(w), n) = w + n
  BY DEF Append, At, Garbled

\* No bytes at all.
LEMMA AppendNothing ==
  ASSUME NEW w, NEW c
  PROVE  Append(w, c, 0) = w
  BY DEF Append

\* v bytes at offset w and b more after them, the first of a block of their
\* own: the k blocks before it are full.
BlocksThen(w, v, k, b) ==
  /\ {w, v, k, b} \subseteq Nat
  /\ w % 64 = 0
  /\ b # 0 => v = 64 * k

\* Bytes from the block that is due, then bytes from the one k further.
LEMMA AppendPair ==
  ASSUME c0 \in Nat, NEW w, NEW v, NEW k, NEW b, BlocksThen(w, v, k, b)
  PROVE  Append(Append(w, At(w), v), AdvanceCounter(At(w), k), b) = w + v + b
<1> DEFINE x == w + v
<1>1. w \in Nat /\ v \in Nat /\ k \in Nat /\ b \in Nat /\ w % 64 = 0
  BY DEF BlocksThen
<1>2. Append(w, At(w), v) = x /\ x \in Nat
  BY <1>1, AppendDue
<1>3. CASE b = 0
  BY <1>1, <1>2, <1>3, AppendNothing
<1>4. CASE b # 0
  <2>1. x = w + 64 * k /\ x % 64 = 0
    BY <1>1, <1>4, Z3 DEF BlocksThen
  <2> HIDE DEF x
  <2>2. At(x) = AdvanceCounter(At(w), k)
    BY <1>1, <2>1, AtNext
  <2>3. Append(x, At(x), b) = x + b
    BY <1>1, <1>2, <2>1, AppendDue
  <2> QED BY <1>2, <2>2, <2>3 DEF x
<1> QED BY <1>1, <1>3, <1>4

\* The call, and the counter due at a state of the invariant.
LEMMA CallFacts ==
  ASSUME IInv
  PROVE  /\ len \in Nat /\ rest \in Nat /\ written \in Nat /\ passes \in Nat
         /\ c0 \in 0 .. CounterSpace - 1 /\ c0 \in Nat
         /\ {caller, private, lane, other, BlockCounter} \subseteq 0 .. CounterSpace - 1
         /\ At(written) \in 0 .. CounterSpace - 1 /\ At(written) \in Nat
<1>1. len \in Nat /\ c0 \in 0 .. CounterSpace - 1
  BY CallsAssumption DEF IInv, TypeOK
<1>2. Total \in Nat
  BY <1>1 DEF Total
<1>3. rest \in Nat /\ written \in Nat /\ passes \in Nat
  BY <1>2 DEF IInv, TypeOK, RestInv
<1>4. {caller, private, lane, other, BlockCounter} \subseteq 0 .. CounterSpace - 1
  BY DEF IInv, TypeOK, BlockCounter
<1>5. c0 \in Nat /\ written \div 64 \in Nat
  BY <1>1, <1>3, CounterSpaceAssumption, Z3
<1>6. At(written) \in 0 .. CounterSpace - 1 /\ At(written) \in Nat
  BY <1>5, AdvanceType DEF At
<1> QED BY <1>1, <1>3, <1>4, <1>5, <1>6

-----------------------------------------------------------------------------
(***************************************************************************)
(* The call begins.                                                        *)
(***************************************************************************)

\* Nothing is written, and the caller's counter is the first one.
LEMMA InitInv == Init => IInv
<1> SUFFICES ASSUME Init PROVE IInv
  OBVIOUS
<1>1. /\ len \in Nat /\ c0 \in 0 .. CounterSpace - 1 /\ 0 \in 0 .. CounterSpace - 1
      /\ CounterSpace \in Nat \ {0}
  BY CallsAssumption, CounterSpaceAssumption DEF Init
<1>2. Total \in Nat /\ rest = Total /\ rest \in 0 .. Total
  BY <1>1 DEF Init, Total
<1>3. TypeOK
  <2>1. pc \in Labels
    BY Zenon DEF Init, Labels
  <2>2. written \in 0 .. Total \cup {Garbled} /\ passes \in Nat
    BY <1>2 DEF Init
  <2>3. {caller, private, lane, other} \subseteq 0 .. CounterSpace - 1
    BY <1>1 DEF Init
  <2> QED BY <1>2, <2>1, <2>2, <2>3 DEF Init, TypeOK
<1>4. 0 \div 64 = 0 /\ 0 % 64 = 0 /\ 0 % 1024 = 0
  BY Z3
<1>5. At(0) = c0
  BY <1>1, <1>4, AdvanceZero DEF At
<1>6. RestInv
  BY <1>1, <1>2, <1>4, SMTT(30) DEF Init, Callable, RestInv, Total, Entries, FillLength, Garbled, Range
<1>7. CounterInv
  BY <1>5 DEF Init, CounterInv, Dispatchers, Entries, BlockCounter, Plain
<1>8. CallerInv
  BY <1>4, <1>5 DEF Init, CallerInv, Entries, Range
<1>9. PassInv
  BY DEF Init, PassInv, Entries
<1> QED BY <1>3, <1>6, <1>7, <1>8, <1>9 DEF IInv

-----------------------------------------------------------------------------
(***************************************************************************)
(* Dispatch.                                                               *)
(***************************************************************************)

\* What a jump can lead to.
Targets == Dispatchers \cup DOMAIN Lanes \cup {"done"}

\* The counters a kernel is entered with are those of the next block and the
\* ones its lanes need: what an action still has to show is how much is left.
LEMMA JumpInv ==
  ASSUME IInv, NEW from \in Dispatchers, NEW to \in Targets, Jump(from, to),
         RestInv', CallerInv', PassInv'
  PROVE  IInv'
<1> DEFINE c == BlockCounter
<1>1. /\ pc' = to /\ c = At(written) /\ Load(to, c)
      /\ private' = IF to = "x32" THEN c ELSE private
      /\ UNCHANGED <<call, rest, written, block, caller, passes>>
  BY DEF Jump, IInv, CounterInv
<1>2. /\ c \in 0 .. CounterSpace - 1 /\ c \in Nat
      /\ {caller, private, lane, other} \subseteq 0 .. CounterSpace - 1
      /\ written \in Nat
  BY CallFacts, <1>1
<1>3. At(written)' = c
  BY <1>1 DEF At, call
<1>4. \A k \in Nat : Next64(k)' = AdvanceCounter(c, k)
  BY <1>3 DEF Next64
<1>5. /\ AdvanceCounter(c, 1) \in 0 .. CounterSpace - 1
      /\ AdvanceCounter(c, 8) \in 0 .. CounterSpace - 1
      /\ AdvanceCounter(c, 16) \in 0 .. CounterSpace - 1
      /\ AdvanceCounter(c, 17) \in 0 .. CounterSpace - 1
  BY <1>2, AdvanceType
<1> HIDE DEF c
<1>6. /\ to \in {"key25", "key33"} => lane' = AdvanceCounter(c, 1) /\ other' = AdvanceCounter(c, 17)
      /\ to \in Plain \cup {"two128", "tiered16", "x9", "x17", "key17", "x32"} => lane' = c
      /\ to = "x9" => other' = AdvanceCounter(c, 8)
      /\ to \in {"x17", "key17", "x32"} => other' = AdvanceCounter(c, 16)
  BY <1>1 DEF Load, Lanes, Plain
<1>7. {lane', other', private', caller'} \subseteq 0 .. CounterSpace - 1
  BY <1>1, <1>2, <1>5 DEF Load
<1>8. to \in {"key25", "key33"} \cup Dispatchers => BlockCounter' = c
  BY <1>1, Zenon DEF BlockCounter, c
<1>9. CounterInv'
  BY <1>1, <1>3, <1>4, <1>6, <1>8 DEF CounterInv, Targets, Dispatchers, Entries, Lanes
<1>10. TypeOK'
  BY <1>1, <1>7, Zenon DEF IInv, TypeOK, call, Total, Targets, Dispatchers, Labels
<1> QED BY <1>9, <1>10 DEF IInv

\* What a kernel asks of the calls a dispatcher sends it.
Suits(from, to) ==
  /\ from \in Dispatchers /\ to \in Targets \ {"ctr32", "tiered", "fill"}
  /\ to = "tiered16" <=> from = "tiered"
  /\ to = "done" => rest = 0
  /\ to # "done" => rest > 0
  /\ to = "two128" => rest = 128
  /\ to = "four" => rest > 128
  /\ to \in {"x9", "x17", "hybrid9", "hybrid17"} => rest > 64
  /\ to = "x9" => ~Refused(rest, 512)
  /\ to = "x17" => ~Refused(rest, 1024)
  /\ to = "x32" => rest >= 2048
  /\ to = "key17" => rest <= 1088
  /\ to = "key25" => rest \in 65 .. 1600
  /\ to = "key33" => rest \in 65 .. 2112

\* A call reaches these dispatchers before anything is written, and only they
\* send it to the labels at which that matters.
First == {"ctr32", "sse", "four", "avx512", "hybrid9", "hybrid17"}
Early == {"sse", "four", "avx512", "hybrid9", "hybrid17", "x9", "x17"}

\* A dispatcher that sends a call where it suits keeps the invariant.
LEMMA DispatchInv ==
  ASSUME IInv, NEW from, NEW to, Suits(from, to), Jump(from, to),
         to \in Early => from \in First
  PROVE  IInv'
<1>1. /\ pc = from /\ pc' = to
      /\ UNCHANGED <<entry, len, rest, written, block, caller, c0, passes>>
  BY DEF Jump, call
<1>2. /\ len \in Nat /\ rest \in Nat /\ written \in Nat
      /\ At(written)' = At(written) /\ Total' = Total
  BY <1>1, CallFacts DEF At, Total
<1>3. from \in Dispatchers /\ to \in Targets
  BY DEF Suits
<1>4. RestInv'
  <2>1. written # Garbled /\ written % 64 = 0 /\ written + rest = Total
    BY <1>1, <1>3 DEF IInv, RestInv, Dispatchers, Entries
  <2>2. to \notin {"fill", "last9", "last17"}
    BY DEF Suits, Targets, Dispatchers, Entries, Lanes
  <2> QED BY <1>1, <1>2, <2>1, <2>2 DEF RestInv, Suits
<1>5. CallerInv'
  <2>1. CASE entry = "tiered"
    <3>1. from = "tiered" /\ to = "tiered16"
      BY <1>1, <2>1 DEF IInv, CallerInv, Suits, Dispatchers, Entries
    <3> QED BY <1>1, <1>2, <2>1, <3>1 DEF IInv, CallerInv
  <2>2. CASE entry # "tiered"
    <3>1. from # "tiered" /\ to \notin {"tiered", "tiered16"}
      BY <1>1, <2>2 DEF IInv, CallerInv, Suits
    <3> QED BY <1>1, <2>2, <3>1 DEF IInv, CallerInv
  <2> QED BY <2>1, <2>2
<1>6. PassInv'
  <2>1. to \notin {"ctr32", "last9", "last17"}
    BY DEF Suits, Targets, Dispatchers, Entries, Lanes
  <2>2. to \in Early => passes = 0 /\ written = 0
    BY <1>1 DEF IInv, PassInv, First, Dispatchers, Entries
  <2>3. to \in Early => rest = Total
    BY <1>2, <2>2 DEF IInv, RestInv
  <2> QED BY <1>1, <1>2, <2>1, <2>2, <2>3 DEF PassInv, Suits, Early
<1> QED BY <1>1, <1>3, <1>4, <1>5, <1>6, JumpInv

\* An empty call is over.
LEMMA Ctr32Inv == IInv /\ Ctr32 => IInv'
<1> SUFFICES ASSUME IInv, Ctr32 PROVE IInv'
  OBVIOUS
<1>1. rest \in Nat /\ (rest > 0 \/ pc = "ctr32")
  BY CallFacts DEF Ctr32, Jump, IInv, RestInv
<1>2. PICK to \in {"done", "avx512", "avx512vl", "sse", "scalar"} : Jump("ctr32", to) /\ Suits("ctr32", to)
  BY <1>1 DEF Ctr32, Suits, Jump, Dispatchers, Entries, Targets, Lanes, IInv, TypeOK, RestInv
<1> QED BY <1>2, DispatchInv DEF First, Early, Dispatchers, Entries

\* The two-block kernel takes two blocks.
LEMMA SseInv == IInv /\ Sse => IInv'
<1> SUFFICES ASSUME IInv, Sse PROVE IInv'
  OBVIOUS
<1>1. rest \in Nat /\ (rest > 0 \/ pc = "ctr32")
  BY CallFacts DEF Sse, Jump, IInv, RestInv
<1>2. PICK to \in {"xop4", "ssse3", "two128", "four"} : Jump("sse", to) /\ Suits("sse", to)
  BY <1>1 DEF Sse, Suits, Jump, Dispatchers, Entries, Targets, Lanes, IInv, TypeOK, RestInv
<1> QED BY <1>2, DispatchInv DEF First, Early, Dispatchers, Entries

\* More than two blocks.
LEMMA FourInv == IInv /\ Four => IInv'
<1> SUFFICES ASSUME IInv, Four PROVE IInv'
  OBVIOUS
<1>1. rest \in Nat /\ (rest > 0 \/ pc = "ctr32")
  BY CallFacts DEF Four, Jump, IInv, RestInv
<1>2. PICK to \in {"hybrid9", "ssse3", "x4"} : Jump("four", to) /\ Suits("four", to)
  BY <1>1 DEF Four, Suits, Jump, Dispatchers, Entries, Targets, Lanes, IInv, TypeOK, RestInv
<1> QED BY <1>2, DispatchInv DEF First, Early, Dispatchers, Entries

\* The stitched kernel is taken.
LEMMA Take9Inv == IInv /\ Take9 => IInv'
<1> SUFFICES ASSUME IInv, Take9 PROVE IInv'
  OBVIOUS
<1>1. rest \in Nat /\ (rest > 0 \/ pc = "ctr32")
  BY CallFacts DEF Take9, Jump, IInv, RestInv
<1>2. PICK to \in {"x9"} : Jump("hybrid9", to) /\ Suits("hybrid9", to)
  BY <1>1 DEF Take9, Suits, Jump, Dispatchers, Entries, Targets, Lanes, IInv, TypeOK, RestInv
<1> QED BY <1>2, DispatchInv DEF First, Early, Dispatchers, Entries

\* ... refused.
LEMMA Refuse9Inv == IInv /\ Refuse9 => IInv'
<1> SUFFICES ASSUME IInv, Refuse9 PROVE IInv'
  OBVIOUS
<1>1. rest \in Nat /\ (rest > 0 \/ pc = "ctr32")
  BY CallFacts DEF Refuse9, Jump, IInv, RestInv
<1>2. PICK to \in {"x8"} : Jump("hybrid9", to) /\ Suits("hybrid9", to)
  BY <1>1 DEF Refuse9, Suits, Jump, Dispatchers, Entries, Targets, Lanes, IInv, TypeOK, RestInv
<1> QED BY <1>2, DispatchInv DEF First, Early, Dispatchers, Entries

\* The stitched kernel is taken.
LEMMA Take17Inv == IInv /\ Take17 => IInv'
<1> SUFFICES ASSUME IInv, Take17 PROVE IInv'
  OBVIOUS
<1>1. rest \in Nat /\ (rest > 0 \/ pc = "ctr32")
  BY CallFacts DEF Take17, Jump, IInv, RestInv
<1>2. PICK to \in {"x17"} : Jump("hybrid17", to) /\ Suits("hybrid17", to)
  BY <1>1 DEF Take17, Suits, Jump, Dispatchers, Entries, Targets, Lanes, IInv, TypeOK, RestInv
<1> QED BY <1>2, DispatchInv DEF First, Early, Dispatchers, Entries

\* ... refused.
LEMMA Refuse17Inv == IInv /\ Refuse17 => IInv'
<1> SUFFICES ASSUME IInv, Refuse17 PROVE IInv'
  OBVIOUS
<1>1. rest \in Nat /\ (rest > 0 \/ pc = "ctr32")
  BY CallFacts DEF Refuse17, Jump, IInv, RestInv
<1>2. PICK to \in {"x16"} : Jump("hybrid17", to) /\ Suits("hybrid17", to)
  BY <1>1 DEF Refuse17, Suits, Jump, Dispatchers, Entries, Targets, Lanes, IInv, TypeOK, RestInv
<1> QED BY <1>2, DispatchInv DEF First, Early, Dispatchers, Entries

\* Two instances only for a full pass of both.
LEMMA Avx512Inv == IInv /\ Avx512 => IInv'
<1> SUFFICES ASSUME IInv, Avx512 PROVE IInv'
  OBVIOUS
<1>1. rest \in Nat /\ (rest > 0 \/ pc = "ctr32")
  BY CallFacts DEF Avx512, Jump, IInv, RestInv
<1>2. PICK to \in {"vl4", "hybrid17", "x32"} : Jump("avx512", to) /\ Suits("avx512", to)
  BY <1>1 DEF Avx512, Suits, Jump, Dispatchers, Entries, Targets, Lanes, IInv, TypeOK, RestInv
<1> QED BY <1>2, DispatchInv DEF First, Early, Dispatchers, Entries

\* Two or eight lanes.
LEMMA Avx512vlInv == IInv /\ Avx512vl => IInv'
<1> SUFFICES ASSUME IInv, Avx512vl PROVE IInv'
  OBVIOUS
<1>1. rest \in Nat /\ (rest > 0 \/ pc = "ctr32")
  BY CallFacts DEF Avx512vl, Jump, IInv, RestInv
<1>2. PICK to \in {"vl2", "vl8"} : Jump("avx512vl", to) /\ Suits("avx512vl", to)
  BY <1>1 DEF Avx512vl, Suits, Jump, Dispatchers, Entries, Targets, Lanes, IInv, TypeOK, RestInv
<1> QED BY <1>2, DispatchInv DEF First, Early, Dispatchers, Entries

\* The tiered entry.
LEMMA TieredEntryInv == IInv /\ TieredEntry => IInv'
<1> SUFFICES ASSUME IInv, TieredEntry PROVE IInv'
  OBVIOUS
<1>1. rest \in Nat /\ (rest > 0 \/ pc = "ctr32")
  BY CallFacts DEF TieredEntry, Jump, IInv, RestInv
<1>2. PICK to \in {"tiered16"} : Jump("tiered", to) /\ Suits("tiered", to)
  BY <1>1 DEF TieredEntry, Suits, Jump, Dispatchers, Entries, Targets, Lanes, IInv, TypeOK, RestInv
<1> QED BY <1>2, DispatchInv DEF First, Early, Dispatchers, Entries

\* Two instances only for a full pass of both.
LEMMA TailAvx512Inv == IInv /\ TailAvx512 => IInv'
<1> SUFFICES ASSUME IInv, TailAvx512 PROVE IInv'
  OBVIOUS
<1>1. rest \in Nat /\ (rest > 0 \/ pc = "ctr32")
  BY CallFacts DEF TailAvx512, Jump, IInv, RestInv
<1>2. PICK to \in {"vl2", "vl4", "vl8", "x16", "x32"} : Jump("tail", to) /\ Suits("tail", to)
  BY <1>1 DEF TailAvx512, Suits, Jump, Dispatchers, Entries, Targets, Lanes, IInv, TypeOK, RestInv
<1> QED BY <1>2, DispatchInv DEF First, Early, Dispatchers, Entries

\* The key kernels have lanes for the whole fill.
LEMMA FillDispatchInv == IInv /\ FillDispatch => IInv'
<1> SUFFICES ASSUME IInv, FillDispatch PROVE IInv'
  OBVIOUS
<1> DEFINE Fits(to) == /\ to = "key17" => len <= 1024
                       /\ to = "key25" => len <= 1536
                       /\ to = "key33" => len <= 2048
<1>1. len \in Nat /\ rest \in Nat /\ written \in Nat /\ written = 0 /\ rest = 64 + len
      /\ rest \in 65 .. 2112
  BY CallFacts DEF FillDispatch, Jump, IInv, RestInv, Total
<1>2. /\ FillWidth(len) \in {448, 1024, 1536, 2048}
      /\ FillWidth(len) # 448 => len <= FillWidth(len)
  BY <1>1 DEF FillWidth
<1>3. PICK to \in {"tail", "key17", "key25", "key33"} : Jump("fill", to) /\ Fits(to)
  <2>1. CASE FillWidth(len) = 448
    BY <2>1 DEF FillDispatch
  <2>2. CASE FillWidth(len) = 1024
    BY <1>2, <2>2 DEF FillDispatch
  <2>3. CASE FillWidth(len) = 1536
    BY <1>2, <2>3 DEF FillDispatch
  <2>4. CASE FillWidth(len) = 2048
    BY <1>2, <2>4 DEF FillDispatch
  <2> QED BY <1>2, <2>1, <2>2, <2>3, <2>4
<1>4. "fill" \in Dispatchers /\ to \in Targets
  BY Zenon DEF Dispatchers, Entries, Targets, Lanes
<1>5. pc = "fill" /\ pc' = to /\ UNCHANGED <<entry, len, rest, written, block, caller, c0, passes>>
  BY <1>3 DEF Jump, call
<1>6. At(written)' = At(written) /\ Total' = Total
  BY <1>5 DEF At, Total
<1>7. RestInv'
  BY <1>1, <1>3, <1>5, <1>6, SMTT(30) DEF IInv, RestInv
<1>8. CallerInv'
  BY <1>3, <1>5, <1>6 DEF IInv, CallerInv
<1>9. PassInv'
  BY <1>3, <1>5, <1>6 DEF IInv, PassInv, RestInv
<1> QED BY <1>3, <1>4, <1>7, <1>8, <1>9, JumpInv

-----------------------------------------------------------------------------
(***************************************************************************)
(* Passes.                                                                 *)
(***************************************************************************)

\* A pass that continues the stream leaves the state well formed.
LEMMA PassType ==
  ASSUME IInv, UNCHANGED call, RestInv', pc' \in Labels, block' \in {"caller", "private"},
         rest' \in Nat, written' \in Nat, passes' \in Nat,
         {caller', private', lane', other'} \subseteq 0 .. CounterSpace - 1
  PROVE  TypeOK'
<1>1. written' + rest' = Total'
  BY Zenon DEF RestInv
<1>2. rest' \in 0 .. Total' /\ written' \in 0 .. Total' \cup {Garbled}
  BY <1>1
<1> QED BY <1>2, Zenon DEF IInv, TypeOK, call

\* The lanes of the plain kernels.
LEMMA PlainLanes == \A k \in Plain : Lanes[k] \in Nat /\ Lanes[k] > 0 /\ k \in DOMAIN Lanes
  BY DEF Plain, Lanes

\* The lanes move past what they produced.
LEMMA PlainPassInv == IInv /\ PlainPass => IInv'
<1> SUFFICES ASSUME IInv, PlainPass PROVE IInv'
  OBVIOUS
<1> DEFINE k == Lanes[pc]
           n == AtMost(rest, 64 * k)
<1>1. /\ len \in Nat /\ rest \in Nat /\ written \in Nat /\ passes \in Nat
      /\ c0 \in Nat /\ At(written) \in Nat
      /\ {caller, private, lane, other} \subseteq 0 .. CounterSpace - 1
  BY CallFacts
<1>2. pc \in Plain /\ k \in Nat /\ k > 0 /\ pc \in DOMAIN Lanes
  BY PlainLanes DEF PlainPass
<1>3. n \in Nat /\ n <= rest /\ n > 0 /\ (n # rest => n = 64 * k)
  <2>1. rest > 0
    BY <1>1, <1>2 DEF IInv, RestInv, Plain
  <2> QED BY <1>1, <1>2, <2>1 DEF AtMost
<1>4. written % 64 = 0 /\ lane = At(written)
  BY <1>2 DEF IInv, RestInv, CounterInv, Plain
<1>5. /\ written' = written + n /\ rest' = rest - n /\ passes' = passes + 1
      /\ pc' = (IF n = rest THEN "done" ELSE pc)
      /\ lane' = AdvanceCounter(lane, k)
      /\ UNCHANGED <<entry, len, cpu, c0, block, caller, private, other>>
  BY <1>1, <1>3, <1>4, AppendDue DEF PlainPass, Wrote, call, ctrs
<1> HIDE DEF n, k
<1>6. n # rest => written' % 64 = 0 /\ At(written)' = lane'
  <2>1. (written + 64 * k) % 64 = 0
    BY <1>1, <1>2, <1>4, Z3
  <2>2. n # rest => At(written + n) = AdvanceCounter(At(written), k)
    BY <1>1, <1>2, <1>3, AtNext
  <2>3. At(written)' = At(written')
    BY <1>5 DEF At
  <2> QED BY <2>1, <2>2, <2>3, <1>3, <1>4, <1>5
<1>7. RestInv'
  <2>1. written' # Garbled /\ written' + rest' = Total' /\ rest' \in Nat
    BY <1>1, <1>3, <1>5 DEF IInv, RestInv, Total, Garbled
  <2> QED BY <1>1, <1>2, <1>3, <1>5, <1>6, <2>1 DEF RestInv, Plain
<1>8. CounterInv'
  BY <1>2, <1>5, <1>6 DEF CounterInv, Plain, Dispatchers, Entries
<1>9. CallerInv'
  BY <1>2, <1>5 DEF IInv, CallerInv, Plain
<1>10. PassInv'
  BY <1>2, <1>5 DEF PassInv, Plain
<1>11. lane' \in 0 .. CounterSpace - 1 /\ rest' \in Nat /\ written' \in Nat /\ passes' \in Nat
  BY <1>1, <1>2, <1>3, <1>4, <1>5, AdvanceType
<1>12. TypeOK'
  BY <1>1, <1>2, <1>5, <1>7, <1>11, PassType DEF IInv, TypeOK, Labels, call
<1> QED BY <1>7, <1>8, <1>9, <1>10, <1>12 DEF IInv

\* Exactly the two blocks it computes.
LEMMA Pass128Inv == IInv /\ Pass128 => IInv'
<1> SUFFICES ASSUME IInv, Pass128 PROVE IInv'
  OBVIOUS
<1>1. /\ len \in Nat /\ rest \in Nat /\ written \in Nat /\ passes \in Nat
      /\ {caller, private, lane, other} \subseteq 0 .. CounterSpace - 1
  BY CallFacts
<1>2. written % 64 = 0 /\ lane = At(written) /\ rest = 128
  BY DEF Pass128, IInv, RestInv, CounterInv
<1>3. Append(written, lane, 128) = written + 128
  BY <1>1, <1>2, AppendDue
<1>4. /\ pc = "two128" /\ pc' = "done" /\ written' = written + 128 /\ rest' = 0 /\ passes' = passes + 1
      /\ UNCHANGED <<entry, len, cpu, c0, block, caller, private, lane, other>>
  BY <1>1, <1>2, <1>3 DEF Pass128, Wrote, call, ctrs
<1>5. RestInv'
  BY <1>1, <1>2, <1>4 DEF IInv, RestInv, Total, Garbled
<1>6. CounterInv'
  BY <1>4 DEF CounterInv, Plain, Dispatchers, Entries
<1>7. CallerInv'
  BY <1>4 DEF IInv, CallerInv
<1>8. PassInv'
  BY <1>4 DEF PassInv
<1>9. TypeOK'
  BY <1>1, <1>4, <1>5, PassType DEF IInv, TypeOK, Labels, call
<1> QED BY <1>5, <1>6, <1>7, <1>8, <1>9 DEF IInv

\* Where the tiered entry leaves the caller's counter.
LEMMA TieredCaller ==
  ASSUME c0 \in Nat, NEW w \in Nat, w % Range = 0, NEW r \in 1 .. Range
  PROVE  At(w) = AdvanceCounter(c0, 16 * ((w + r - 1) \div Range))
<1>1. w \div 64 = 16 * ((w + r - 1) \div 1024)
  BY Z3 DEF Range
<1> QED BY <1>1 DEF At, Range

\* The 4xvl body takes over at the block after the last full pass.
LEMMA TieredPassInv == IInv /\ TieredPass => IInv'
<1> SUFFICES ASSUME IInv, TieredPass PROVE IInv'
  OBVIOUS
<1> DEFINE n == AtMost(rest, 1024)
           next == AdvanceCounter(caller, 16)
<1>1. /\ len \in Nat /\ rest \in Nat /\ written \in Nat /\ passes \in Nat
      /\ c0 \in Nat /\ At(written) \in Nat
      /\ {caller, private, lane, other} \subseteq 0 .. CounterSpace - 1
  BY CallFacts
<1>2. /\ pc = "tiered16" /\ entry = "tiered" /\ block = "caller"
      /\ rest > 0 /\ written % 64 = 0 /\ lane = At(written)
      /\ written % Range = 0 /\ caller = At(written) /\ written + rest = len
  BY DEF TieredPass, IInv, RestInv, CounterInv, CallerInv, Total, Plain
<1>3. n \in Nat /\ n <= rest /\ n > 0 /\ n <= 1024 /\ (n < rest => n = 1024)
  BY <1>1, <1>2 DEF AtMost
<1>4. /\ written' = written + n /\ rest' = rest - n /\ passes' = passes + 1
      /\ UNCHANGED <<entry, len, cpu, c0, block, private>>
  BY <1>1, <1>2, <1>3, AppendDue DEF TieredPass, Wrote, call
<1>5. \/ n = rest /\ pc' = "done" /\ UNCHANGED <<caller, lane, other>>
      \/ n < rest /\ rest - n <= 256 /\ pc' = "vl4" /\ caller' = next /\ lane' = next /\ other' = other
      \/ n < rest /\ pc' = "tiered16" /\ caller' = next
         /\ lane' = AdvanceCounter(lane, 16) /\ UNCHANGED other
  BY <1>2 DEF TieredPass, Load, Lanes
<1>6. next \in 0 .. CounterSpace - 1 /\ AdvanceCounter(lane, 16) = next
  BY <1>1, <1>2, AdvanceType
<1>7. {caller', private', lane', other'} \subseteq 0 .. CounterSpace - 1
  BY <1>1, <1>4, <1>5, <1>6
<1>8. n < rest => written' % 64 = 0 /\ written' % Range = 0 /\ At(written)' = next
  <2>1. At(written)' = At(written')
    BY <1>4 DEF At
  <2>2. n = 1024 => At(written + n) = AdvanceCounter(At(written), 16)
    BY <1>1, AtNext
  <2>3. n = 1024 => (written + n) % 64 = 0 /\ (written + n) % Range = 0
    BY <1>1, <1>2, Z3 DEF Range
  <2> QED BY <1>2, <1>3, <1>4, <2>1, <2>2, <2>3
<1> HIDE DEF n, next
<1>9. RestInv'
  <2>1. written' # Garbled /\ written' + rest' = Total' /\ rest' \in Nat
    BY <1>1, <1>2, <1>3, <1>4 DEF Total, Garbled
  <2> QED BY <1>1, <1>3, <1>4, <1>5, <1>8, <2>1 DEF RestInv
<1>10. CounterInv'
  BY <1>5, <1>6, <1>8 DEF CounterInv, Plain, Dispatchers, Entries
<1>11. CallerInv'
  <2>1. CASE n = rest
    <3>1. rest \in 1 .. Range /\ written + rest - 1 = len - 1
      BY <1>1, <1>2, <1>3, <2>1 DEF Range
    <3>2. caller = AdvanceCounter(c0, 16 * ((len - 1) \div Range))
      BY <1>1, <1>2, <3>1, TieredCaller
    <3> QED BY <1>2, <1>3, <1>4, <1>5, <2>1, <3>2 DEF CallerInv
  <2>2. CASE n < rest /\ rest - n <= 256 /\ pc' = "vl4"
    <3>1. rest - n \in 1 .. Range /\ written' + (rest - n) - 1 = len - 1 /\ written' \in Nat
      BY <1>1, <1>2, <1>3, <1>4, <2>2 DEF Range
    <3>2. At(written') = AdvanceCounter(c0, 16 * ((written' + (rest - n) - 1) \div Range))
      BY <1>1, <1>8, <2>2, <3>1, TieredCaller
    <3>3. At(written') = next
      BY <1>4, <1>8, <2>2 DEF At
    <3> QED BY <1>2, <1>4, <1>5, <2>2, <3>1, <3>2, <3>3 DEF CallerInv
  <2>3. CASE n < rest /\ pc' = "tiered16"
    BY <1>2, <1>4, <1>5, <1>8, <2>3 DEF CallerInv
  <2> QED BY <1>5, <2>1, <2>2, <2>3
<1>12. PassInv'
  BY <1>5 DEF PassInv
<1>13. TypeOK'
  <2>1. pc' \in Labels
    BY <1>5, Zenon DEF Labels, Lanes
  <2>2. rest' \in Nat /\ written' \in Nat /\ passes' \in Nat
    BY <1>1, <1>3, <1>4
  <2> QED BY <1>2, <1>4, <1>7, <1>9, <2>1, <2>2, PassType DEF call
<1> QED BY <1>9, <1>10, <1>11, <1>12, <1>13 DEF IInv

\* The two stitched kernels.
StitchedKernel(k, last, L) ==
  \/ k = "x9" /\ last = "last9" /\ L = 8
  \/ k = "x17" /\ last = "last17" /\ L = 16

\* Both counters move past the lanes and the scalar block.
LEMMA StitchInv ==
  ASSUME IInv, NEW k, NEW last, NEW L \in Nat, StitchedKernel(k, last, L), Stitch(k, last)
  PROVE  IInv'
<1> DEFINE v == AtMost(rest, 64 * L)
           b == AtMost(rest - v, 64)
           n == v + b
<1>1. /\ len \in Nat /\ rest \in Nat /\ written \in Nat /\ passes \in Nat
      /\ c0 \in Nat /\ At(written) \in Nat
      /\ {caller, private, lane, other} \subseteq 0 .. CounterSpace - 1
  BY CallFacts
<1>2. Lanes[k] = L /\ L \in Nat /\ L > 0
  BY DEF StitchedKernel, Lanes
<1>3. /\ pc = k /\ rest > 64 /\ written % 64 = 0
      /\ lane = At(written) /\ other = AdvanceCounter(At(written), L)
  BY DEF StitchedKernel, Stitch, IInv, RestInv, CounterInv, Plain, Next64
<1>4. /\ v \in Nat /\ b \in Nat /\ n \in Nat /\ n <= rest /\ n > 0
      /\ b # 0 => v = 64 * L
      /\ n # rest => v = 64 * L /\ b = 64
  BY <1>1, <1>2, <1>3 DEF AtMost
<1>5. Append(Append(written, lane, v), other, b) = written + n
  <2> HIDE DEF v, b
  <2>1. BlocksThen(written, v, L, b)
    BY <1>1, <1>2, <1>3, <1>4 DEF BlocksThen
  <2>2. Append(Append(written, At(written), v), AdvanceCounter(At(written), L), b) = written + v + b
    BY <1>1, <2>1, AppendPair
  <2> QED BY <1>1, <1>3, <1>4, <2>2
<1>6. /\ written' = written + n /\ rest' = rest - n /\ passes' = passes + 1
      /\ pc' = IF rest' = 0 THEN "done" ELSE IF rest' <= 64 THEN last ELSE k
      /\ lane' = AdvanceCounter(lane, L + 1) /\ other' = AdvanceCounter(other, L + 1)
      /\ UNCHANGED <<entry, len, cpu, c0, block, caller, private>>
  BY <1>2, <1>5 DEF Stitch, Wrote, call, ctrs
<1> HIDE DEF v, b
<1>7. rest' # 0 => n = 64 * (L + 1)
  BY <1>1, <1>2, <1>4, <1>6
<1> HIDE DEF n
<1>8. rest' # 0 => /\ written' % 64 = 0 /\ At(written)' = lane'
                   /\ other' = AdvanceCounter(lane', L)
  <2> SUFFICES ASSUME rest' # 0
               PROVE  written' % 64 = 0 /\ At(written)' = lane' /\ other' = AdvanceCounter(lane', L)
    OBVIOUS
  <2>1. written' % 64 = 0
    BY <1>1, <1>2, <1>3, <1>6, <1>7, Z3
  <2>2. L + 1 \in Nat /\ At(written') = AdvanceCounter(At(written), L + 1)
    BY <1>1, <1>2, <1>6, <1>7, AtNext
  <2>3. At(written)' = At(written')
    BY <1>6 DEF At
  <2>4. other' = AdvanceCounter(lane', L)
    BY <1>1, <1>2, <1>3, <1>6, AdvanceSwap
  <2> QED BY <1>3, <1>6, <2>1, <2>2, <2>3, <2>4
<1>9. pc' \in {"done", last, k} /\ (pc' = "done" => rest' = 0)
      /\ (pc' = last => rest' # 0 /\ rest' <= 64) /\ (pc' = k => rest' > 64)
  BY <1>1, <1>4, <1>6 DEF StitchedKernel
<1>10. RestInv'
  <2>1. written' # Garbled /\ written' + rest' = Total' /\ rest' \in Nat
    BY <1>1, <1>4, <1>6 DEF IInv, RestInv, Total, Garbled
  <2> QED BY <1>8, <1>9, <2>1 DEF RestInv, StitchedKernel
<1>11. CounterInv'
  BY <1>8, <1>9 DEF CounterInv, Plain, Dispatchers, Entries, StitchedKernel, Next64
<1>12. CallerInv'
  BY <1>3, <1>6, <1>9 DEF IInv, CallerInv, StitchedKernel
<1>13. PassInv'
  <2>1. Total' = Total
    BY <1>6 DEF Total
  <2>2. CASE k = "x9"
    BY <1>1, <1>3, <1>6, <1>7, <1>9, <2>1, <2>2 DEF IInv, PassInv, StitchedKernel
  <2>3. CASE k = "x17"
    BY <1>1, <1>3, <1>6, <1>7, <1>9, <2>1, <2>3 DEF IInv, PassInv, StitchedKernel
  <2> QED BY <2>2, <2>3 DEF StitchedKernel
<1>14. TypeOK'
  <2>1. lane' \in 0 .. CounterSpace - 1 /\ other' \in 0 .. CounterSpace - 1
    <3>1. lane \in Nat /\ other \in Nat /\ L + 1 \in Nat
      BY <1>1, <1>2, CounterSpaceAssumption
    <3> QED BY <1>6, <3>1, AdvanceType
  <2>2. pc' \in Labels
    BY <1>9, Zenon DEF StitchedKernel, Labels, Lanes
  <2>3. rest' \in Nat /\ written' \in Nat /\ passes' \in Nat
    BY <1>1, <1>4, <1>6
  <2>4. block' \in {"caller", "private"}
    BY <1>6 DEF IInv, TypeOK
  <2>5. {caller', private', lane', other'} \subseteq 0 .. CounterSpace - 1
    BY <1>1, <1>6, <2>1
  <2> QED BY <1>6, <1>10, <2>2, <2>3, <2>4, <2>5, PassType DEF call
<1> QED BY <1>10, <1>11, <1>12, <1>13, <1>14 DEF IInv

\* Taking back what was added.
LEMMA TakeBack ==
  ASSUME NEW a \in 0 .. CounterSpace - 1, NEW k \in Nat
  PROVE  (AdvanceCounter(a, k) - k) % CounterSpace = a
<1> DEFINE M == CounterSpace
           r == (a + k) % M
           q == (a + k) \div M
<1>1. M \in Nat /\ M > 0 /\ a \in Nat /\ a + k \in Int
  BY CounterSpaceAssumption
<1> HIDE DEF M
<1>2. r \in Int /\ q \in Int /\ a + k = M * q + r
  BY <1>1, Z3
<1> HIDE DEF r, q
<1>3. r - k \in Int /\ -q \in Int /\ r - k = M * (-q) + a
  BY <1>1, <1>2, Z3
<1>4. a \in 0 .. M - 1
  BY DEF M
<1>5. (r - k) % M = a
  BY <1>1, <1>3, <1>4, RemainderIsUnique
<1> QED BY <1>5 DEF r, M, AdvanceCounter

\* The last block takes the scalar counter back to the block that is due.
LEMMA LastBlockInv ==
  ASSUME IInv, NEW k, NEW last, NEW L \in Nat, StitchedKernel(k, last, L), LastBlock(k, last)
  PROVE  IInv'
<1>1. /\ len \in Nat /\ rest \in Nat /\ written \in Nat /\ passes \in Nat
      /\ c0 \in Nat /\ At(written) \in 0 .. CounterSpace - 1
      /\ {caller, private, lane, other} \subseteq 0 .. CounterSpace - 1
  BY CallFacts
<1>2. Lanes[k] = L
  BY DEF StitchedKernel, Lanes
<1>3. pc = last /\ written % 64 = 0 /\ other = AdvanceCounter(At(written), L)
  BY DEF StitchedKernel, LastBlock, IInv, RestInv, CounterInv, Next64
<1>4. other' = At(written)
  BY <1>1, <1>2, <1>3, TakeBack DEF LastBlock
<1>5. /\ written' = written + rest /\ rest' = 0 /\ pc' = "done"
      /\ UNCHANGED <<entry, len, cpu, c0, block, caller, private, lane, passes>>
  BY <1>1, <1>3, <1>4, AppendDue DEF LastBlock, call, ctrs
<1>6. RestInv'
  BY <1>1, <1>5 DEF IInv, RestInv, Total, Garbled
<1>7. CounterInv'
  BY <1>5 DEF CounterInv, Plain, Dispatchers, Entries
<1>8. CallerInv'
  BY <1>3, <1>5 DEF IInv, CallerInv, StitchedKernel
<1>9. PassInv'
  BY <1>5 DEF PassInv
<1>10. TypeOK'
  <2>1. {caller', private', lane', other'} \subseteq 0 .. CounterSpace - 1
    BY <1>1, <1>4, <1>5
  <2>2. written' \in Nat /\ rest' \in Nat /\ passes' \in Nat
    BY <1>1, <1>5
  <2>3. pc' \in Labels /\ block' \in {"caller", "private"}
    BY <1>5 DEF IInv, TypeOK, Labels
  <2> QED BY <1>5, <1>6, <2>1, <2>2, <2>3, PassType DEF call
<1> QED BY <1>6, <1>7, <1>8, <1>9, <1>10 DEF IInv

\* ChaCha20_32x: both instances move past both.
LEMMA Pass32Inv == IInv /\ Pass32 => IInv'
<1> SUFFICES ASSUME IInv, Pass32 PROVE IInv'
  OBVIOUS
<1> DEFINE base == At(written)
<1>1. /\ len \in Nat /\ rest \in Nat /\ written \in Nat /\ passes \in Nat
      /\ c0 \in Nat /\ base \in 0 .. CounterSpace - 1 /\ base \in Nat
      /\ {caller, private, lane, other} \subseteq 0 .. CounterSpace - 1
  BY CallFacts
<1>2. /\ pc = "x32" /\ rest >= 2048 /\ written % 64 = 0
      /\ lane = base /\ private = base /\ other = AdvanceCounter(base, 16)
  BY DEF Pass32, IInv, RestInv, CounterInv, Plain, Next64
<1>3. Append(Append(written, lane, 1024), other, 1024) = written + 2048
  <2>1. BlocksThen(written, 1024, 16, 1024)
    BY <1>1, <1>2 DEF BlocksThen
  <2>2. Append(Append(written, At(written), 1024), AdvanceCounter(At(written), 16), 1024) = written + 1024 + 1024
    BY <1>1, <2>1, AppendPair
  <2>3. lane = At(written) /\ other = AdvanceCounter(At(written), 16)
    BY <1>2
  <2> QED BY <1>1, <2>2, <2>3
<1>4. /\ written' = written + 2048 /\ rest' = rest - 2048 /\ passes' = passes + 1
      /\ pc' = IF rest' = 0 THEN "done" ELSE IF rest' < 2048 THEN "residue32" ELSE "x32"
      /\ lane' = AdvanceCounter(base, 32) /\ private' = AdvanceCounter(base, 32)
      /\ other' = AdvanceCounter(AdvanceCounter(base, 16), 32)
      /\ UNCHANGED <<entry, len, cpu, c0, block, caller>>
  BY <1>2, <1>3 DEF Pass32, Wrote, call
<1>5. At(written)' = lane'
  <2>1. At(written + 2048) = AdvanceCounter(base, 32)
    BY <1>1, AtNext
  <2> QED BY <1>4, <2>1 DEF At
<1>6. other' = AdvanceCounter(lane', 16)
  <2>1. AdvanceCounter(AdvanceCounter(base, 16), 32) = AdvanceCounter(base, 48)
    BY <1>1, AdvanceTwice, SMTT(30)
  <2>2. AdvanceCounter(AdvanceCounter(base, 32), 16) = AdvanceCounter(base, 48)
    BY <1>1, AdvanceTwice, SMTT(30)
  <2> QED BY <1>4, <2>1, <2>2
<1>7. lane' \in 0 .. CounterSpace - 1 /\ other' \in 0 .. CounterSpace - 1
  <2>1. AdvanceCounter(base, 16) \in Nat
    BY <1>1, AdvanceType
  <2> QED BY <1>1, <1>4, <2>1, AdvanceType
<1> HIDE DEF base
<1>8. written' % 64 = 0
  <2>1. (written + 2048) % 64 = 0
    BY <1>1, <1>2, Z3
  <2> QED BY <1>4, <2>1
<1>9. /\ written' \in Nat /\ rest' \in Nat /\ passes' \in Nat
      /\ pc' \in {"done", "residue32", "x32"}
      /\ pc' = "done" => rest' = 0
      /\ pc' # "done" => rest' > 0
      /\ pc' = "x32" => rest' >= 2048
  BY <1>1, <1>2, <1>4
<1>10. RestInv'
  <2>1. written' # Garbled /\ written' + rest' = Total'
    BY <1>1, <1>2, <1>4 DEF IInv, RestInv, Total, Garbled
  <2>2. /\ pc' \notin {"two128", "four", "x9", "x17", "hybrid9", "hybrid17", "last9", "last17"}
        /\ pc' \notin {"fill", "key17", "key25", "key33"}
    BY <1>9
  <2>3. pc' = "done" => rest' = 0
    BY <1>9
  <2>4. pc' \notin {"ctr32", "done"} => rest' > 0
    BY <1>9
  <2>5. pc' = "x32" => rest' >= 2048
    BY <1>9
  <2> QED BY <1>8, <2>1, <2>2, <2>3, <2>4, <2>5 DEF RestInv
<1>11. CounterInv'
  BY <1>4, <1>5, <1>6, <1>9 DEF CounterInv, Plain, Dispatchers, Entries, Next64
<1>12. CallerInv'
  BY <1>2, <1>4, <1>9 DEF IInv, CallerInv
<1>13. PassInv'
  <2>1. pc' \in {"done", "residue32", "x32"}
    BY <1>9
  <2> QED BY <2>1 DEF PassInv
<1>14. TypeOK'
  <2>1. {caller', private', lane', other'} \subseteq 0 .. CounterSpace - 1
    BY <1>1, <1>4, <1>7
  <2>2. pc' \in Labels /\ block' \in {"caller", "private"}
    BY <1>4, <1>9 DEF IInv, TypeOK, Labels, Lanes
  <2> QED BY <1>4, <1>9, <1>10, <2>1, <2>2, PassType DEF call
<1> QED BY <1>10, <1>11, <1>12, <1>13, <1>14 DEF IInv

\* The kernel of the residue reads the private block, which is due.
LEMMA Residue32Inv == IInv /\ Residue32 => IInv'
<1> SUFFICES ASSUME IInv, Residue32 PROVE IInv'
  OBVIOUS
<1>1. /\ len \in Nat /\ rest \in Nat /\ written \in Nat /\ passes \in Nat
      /\ {caller, private, lane, other} \subseteq 0 .. CounterSpace - 1
  BY CallFacts
<1>2. pc = "residue32" /\ written % 64 = 0 /\ rest > 0 /\ private = At(written)
  BY DEF Residue32, IInv, RestInv, CounterInv
<1>3. /\ pc' \in {"tail", "x16"} /\ block' = "private"
      /\ pc' = "x16" => lane' = private
      /\ {lane', other'} \subseteq {lane, other, private}
      /\ UNCHANGED <<entry, len, cpu, c0, rest, written, caller, private, passes>>
  BY DEF Residue32, Load, Lanes, call
<1>4. At(written)' = At(written) /\ Total' = Total /\ BlockCounter' = private
  BY <1>3 DEF At, Total, BlockCounter
<1>5. RestInv'
  BY <1>1, <1>2, <1>3, <1>4 DEF IInv, RestInv
<1>6. CounterInv'
  BY <1>2, <1>3, <1>4 DEF CounterInv, Plain, Dispatchers, Entries
<1>7. CallerInv'
  BY <1>2, <1>3 DEF IInv, CallerInv
<1>8. PassInv'
  BY <1>3 DEF PassInv
<1>9. TypeOK'
  <2>1. pc' \in Labels
    BY <1>3 DEF Labels, Lanes, Entries
  <2> QED BY <1>1, <1>3, <1>5, <2>1, PassType DEF call
<1> QED BY <1>5, <1>6, <1>7, <1>8, <1>9 DEF IInv

\* A pass that ends the call.
LEMMA CallEnds ==
  ASSUME IInv, pc # "done", pc' = "done", written' = Total, rest' = 0, passes' \in Nat,
         entry # "tiered", UNCHANGED <<call, ctrs, lane, other>>
  PROVE  IInv'
<1>1. /\ len \in Nat /\ written \in Nat
      /\ {caller, private, lane, other} \subseteq 0 .. CounterSpace - 1
  BY CallFacts
<1>2. Total' = Total /\ Total \in Nat
  BY <1>1 DEF Total, call
<1>3. RestInv'
  BY <1>2 DEF RestInv, Garbled
<1>4. CounterInv'
  BY DEF CounterInv, Plain, Dispatchers, Entries
<1>5. CallerInv'
  BY DEF IInv, CallerInv, call, ctrs
<1>6. PassInv'
  BY DEF PassInv
<1>7. TypeOK'
  <2>1. pc' \in Labels /\ block' \in {"caller", "private"}
    BY DEF IInv, TypeOK, Labels, ctrs
  <2>2. {caller', private', lane', other'} \subseteq 0 .. CounterSpace - 1
    BY <1>1 DEF ctrs
  <2> QED BY <1>2, <1>3, <2>1, <2>2, PassType
<1> QED BY <1>3, <1>4, <1>5, <1>6, <1>7 DEF IInv

\* ChaCha20_17x_key writes at most seventeen blocks, and a fill has no more.
LEMMA KeyPass17Inv == IInv /\ KeyPass17 => IInv'
<1> SUFFICES ASSUME IInv, KeyPass17 PROVE IInv'
  OBVIOUS
<1> DEFINE v == AtMost(rest, 1024)
           b == AtMost(rest - v, 64)
<1>1. /\ len \in Nat /\ rest \in Nat /\ written \in Nat /\ passes \in Nat
      /\ c0 \in Nat /\ At(written) \in Nat
  BY CallFacts
<1>2. /\ pc = "key17" /\ rest <= 1088 /\ written % 64 = 0 /\ written + rest = Total
      /\ lane = At(written) /\ other = AdvanceCounter(At(written), 16) /\ entry # "tiered"
  BY DEF KeyPass17, IInv, RestInv, CounterInv, CallerInv, Plain, Next64
<1>3. v \in Nat /\ b \in Nat /\ v + b = rest /\ (b # 0 => v = 64 * 16)
  BY <1>1, <1>2 DEF AtMost
<1>4. Append(Append(written, lane, v), other, b) = Total
  <2> HIDE DEF v, b
  <2>1. BlocksThen(written, v, 16, b)
    BY <1>1, <1>2, <1>3 DEF BlocksThen
  <2>2. Append(Append(written, At(written), v), AdvanceCounter(At(written), 16), b) = written + v + b
    BY <1>1, <2>1, AppendPair
  <2> QED BY <1>1, <1>2, <1>3, <2>2
<1>5. /\ pc' = "done" /\ written' = Total /\ rest' = rest - (v + b) /\ passes' = passes + 1
      /\ UNCHANGED <<call, ctrs, lane, other>>
  BY <1>4 DEF KeyPass17, Wrote
<1> HIDE DEF v, b
<1> QED BY <1>1, <1>2, <1>3, <1>5, CallEnds

\* The scalar block, then the first instance, then the second.
LEMMA KeyPassPairedInv == IInv /\ KeyPassPaired => IInv'
<1> SUFFICES ASSUME IInv, KeyPassPaired PROVE IInv'
  OBVIOUS
<1> DEFINE n == AtMost(rest - 64, 64 * Lanes[pc])
           a == AtMost(n, 1024)
           d == n - a
           w == written + 64
<1>1. /\ len \in Nat /\ rest \in Nat /\ written \in Nat /\ passes \in Nat
      /\ c0 \in Nat /\ At(written) \in Nat
  BY CallFacts
<1>2. pc \in {"key25", "key33"}
  BY DEF KeyPassPaired
<1>3. rest >= 65 /\ rest - 64 <= 64 * Lanes[pc] /\ Lanes[pc] \in Nat
  BY <1>1, <1>2 DEF IInv, RestInv, Lanes
<1>4. written % 64 = 0 /\ written + rest = Total
  BY <1>2 DEF IInv, RestInv
<1>5. /\ BlockCounter = At(written) /\ lane = AdvanceCounter(At(written), 1)
      /\ other = AdvanceCounter(At(written), 17)
  BY <1>2 DEF IInv, CounterInv, Next64
<1>6. entry # "tiered"
  BY <1>2 DEF IInv, CallerInv
<1>7. n = rest - 64 /\ n \in Nat /\ a \in Nat /\ d \in Nat /\ (d # 0 => a = 64 * 16)
  BY <1>1, <1>3 DEF AtMost
<1>8. Append(written, BlockCounter, 64) = w
  BY <1>1, <1>4, <1>5, AppendDue
<1>9. w \in Nat /\ w % 64 = 0 /\ w = written + 64 * 1
  BY <1>1, <1>4, Z3
<1>10. w + a + d = Total
  BY <1>1, <1>4, <1>7
<1> HIDE DEF w, a, d
<1>11. At(w) = lane
  BY <1>1, <1>5, <1>9, AtNext
<1>12. AdvanceCounter(lane, 16) = other
  BY <1>1, <1>5, AdvanceTwice, SMTT(30)
<1>13. Append(Append(w, lane, a), other, d) = Total
  <2>1. BlocksThen(w, a, 16, d)
    BY <1>7, <1>9 DEF BlocksThen
  <2>2. Append(Append(w, At(w), a), AdvanceCounter(At(w), 16), d) = w + a + d
    BY <1>1, <2>1, AppendPair
  <2> QED BY <1>10, <1>11, <1>12, <2>2
<1>14. /\ pc' = "done" /\ written' = Total /\ rest' = rest - (64 + n) /\ passes' = passes + 1
       /\ UNCHANGED <<call, ctrs, lane, other>>
  BY <1>8, <1>13 DEF KeyPassPaired, Wrote, a, d
<1> HIDE DEF n
<1> QED BY <1>1, <1>2, <1>3, <1>6, <1>7, <1>14, CallEnds

-----------------------------------------------------------------------------
(***************************************************************************)
(* The theorems.                                                           *)
(***************************************************************************)

\* One lemma per action of the kernels and dispatchers.
LEMMA StepInv == IInv /\ [Next]_vars => IInv'
<1> SUFFICES ASSUME IInv, [Next]_vars PROVE IInv'
  OBVIOUS
<1>1. CASE Ctr32
  BY <1>1, Ctr32Inv
<1>2. CASE Sse
  BY <1>2, SseInv
<1>3. CASE Four
  BY <1>3, FourInv
<1>4. CASE Take9 \/ Refuse9
  BY <1>4, Take9Inv, Refuse9Inv
<1>5. CASE Take17 \/ Refuse17
  BY <1>5, Take17Inv, Refuse17Inv
<1>6. CASE Avx512 \/ Avx512vl \/ TailAvx512
  BY <1>6, Avx512Inv, Avx512vlInv, TailAvx512Inv
<1>7. CASE TieredEntry \/ FillDispatch
  BY <1>7, TieredEntryInv, FillDispatchInv
<1>8. CASE PlainPass \/ Pass128 \/ TieredPass
  BY <1>8, PlainPassInv, Pass128Inv, TieredPassInv
<1>9. CASE Pass9 \/ Last9
  <2>1. StitchedKernel("x9", "last9", 8)
    BY DEF StitchedKernel
  <2> QED BY <1>9, <2>1, StitchInv, LastBlockInv DEF Pass9, Last9
<1>10. CASE Pass17 \/ Last17
  <2>1. StitchedKernel("x17", "last17", 16)
    BY DEF StitchedKernel
  <2> QED BY <1>10, <2>1, StitchInv, LastBlockInv DEF Pass17, Last17
<1>11. CASE Pass32 \/ Residue32
  BY <1>11, Pass32Inv, Residue32Inv
<1>12. CASE KeyPass17 \/ KeyPassPaired
  BY <1>12, KeyPass17Inv, KeyPassPairedInv
<1>13. CASE Returned \/ UNCHANGED vars
  <2>1. UNCHANGED <<entry, len, cpu, c0, pc, rest, written, block, caller, private, lane, other, passes>>
    BY <1>13 DEF Returned, vars, call, ctrs
  <2>2. /\ Total' = Total /\ At(written)' = At(written) /\ BlockCounter' = BlockCounter
        /\ \A k \in Nat : Next64(k)' = Next64(k)
    BY <2>1 DEF Total, At, BlockCounter, Next64
  <2>3. TypeOK'
    BY <2>1, <2>2 DEF IInv, TypeOK
  <2>4. RestInv'
    BY <2>1, <2>2 DEF IInv, RestInv
  <2>5. CounterInv'
    BY <2>1, <2>2 DEF IInv, CounterInv
  <2>6. CallerInv' /\ PassInv'
    BY <2>1, <2>2 DEF IInv, CallerInv, PassInv
  <2> QED BY <2>3, <2>4, <2>5, <2>6 DEF IInv
<1> QED BY <1>1, <1>2, <1>3, <1>4, <1>5, <1>6, <1>7, <1>8, <1>9, <1>10, <1>11, <1>12, <1>13
     DEF Next

\* Every ChaCha20 call keeps the inductive invariant.
THEOREM ChaChaInvariant == Spec => []IInv
<1> QED BY InitInv, StepInv, PTL DEF Spec

\* The state of a call is well formed, and no kernel of src/chacha_kernels.pl
\* writes more than what is left of it, whatever its length.
THEOREM ChaChaTypeOK == Spec => []TypeOK
<1>1. IInv => TypeOK
  BY DEF IInv
<1> QED BY <1>1, ChaChaInvariant, PTL

\* For every processor, length and first counter, every block of the stream
\* comes from its own counter, across every hand-over and the wrap.
THEOREM StreamInOrder == Spec => []KeystreamInOrder
<1>1. IInv => KeystreamInOrder
  BY DEF IInv, RestInv, KeystreamInOrder
<1> QED BY <1>1, ChaChaInvariant, PTL

\* A call that returns has written the whole stream.
THEOREM StreamWritten == Spec => []StreamComplete
<1>1. IInv => StreamComplete
  <2> SUFFICES ASSUME IInv, pc = "done" PROVE written = Total
    BY DEF StreamComplete
  <2>1. written \in Nat /\ rest = 0 /\ written + rest = Total
    BY CallFacts DEF IInv, RestInv
  <2> QED BY <2>1
<1> QED BY <1>1, ChaChaInvariant, PTL

\* No kernel leaves the caller's counter moved, but the tiered one, which
\* leaves it where its documentation says.
THEOREM CallerCounter == Spec => []CallerCounterKept
<1>1. IInv => CallerCounterKept
  BY DEF IInv, CallerInv, CallerCounterKept, Range
<1> QED BY <1>1, ChaChaInvariant, PTL

-----------------------------------------------------------------------------

\* A call that ChaCha20_9x takes and that has 576 * p + 65 bytes or more makes p + 2
\* plain passes or more; one with more than 576 * p makes more than p.
LEMMA SavedBy9x ==
  ASSUME NEW n \in Nat, NEW p \in Nat
  PROVE  /\ ~Refused(n, 512) /\ n >= 576 * p + 65 => p + 1 < PlainPasses(n, 512)
         /\ n > 576 * p => p < PlainPasses(n, 512)
<1> SUFFICES ASSUME n > 0
             PROVE  /\ ~Refused(n, 512) /\ n >= 576 * p + 65 => p + 1 < PlainPasses(n, 512)
                    /\ n > 576 * p => p < PlainPasses(n, 512)
  OBVIOUS
<1> DEFINE q == (n - 1) \div 512
<1>1. n - 1 \in Nat /\ n + 511 \in Nat /\ n + 511 = (n - 1) + 512
  OBVIOUS
<1>2. q \in Nat /\ 512 * q <= n - 1 /\ n - 1 < 512 * q + 512
  BY <1>1, Quotient512
<1>3. PlainPasses(n, 512) = q + 1
  <2>1. PlainPasses(n, 512) = (n + 511) \div 512
    BY DEF PlainPasses
  <2> QED BY <1>1, <1>2, <2>1, Quotient512
<1>4. Refused(n, 512) <=> n >= 576 * q + 65
  BY DEF Refused
<1> HIDE DEF q
<1> QED BY <1>2, <1>3, <1>4

\* A call that ChaCha20_17x takes and that has 1088 * p + 65 bytes or more makes p + 2
\* plain passes or more; one with more than 1088 * p makes more than p.
LEMMA SavedBy17x ==
  ASSUME NEW n \in Nat, NEW p \in Nat
  PROVE  /\ ~Refused(n, 1024) /\ n >= 1088 * p + 65 => p + 1 < PlainPasses(n, 1024)
         /\ n > 1088 * p => p < PlainPasses(n, 1024)
<1> SUFFICES ASSUME n > 0
             PROVE  /\ ~Refused(n, 1024) /\ n >= 1088 * p + 65 => p + 1 < PlainPasses(n, 1024)
                    /\ n > 1088 * p => p < PlainPasses(n, 1024)
  OBVIOUS
<1> DEFINE q == (n - 1) \div 1024
<1>1. n - 1 \in Nat /\ n + 1023 \in Nat /\ n + 1023 = (n - 1) + 1024
  OBVIOUS
<1>2. q \in Nat /\ 1024 * q <= n - 1 /\ n - 1 < 1024 * q + 1024
  BY <1>1, Quotient1024
<1>3. PlainPasses(n, 1024) = q + 1
  <2>1. PlainPasses(n, 1024) = (n + 1023) \div 1024
    BY DEF PlainPasses
  <2> QED BY <1>1, <1>2, <2>1, Quotient1024
<1>4. Refused(n, 1024) <=> n >= 1088 * q + 65
  BY DEF Refused
<1> HIDE DEF q
<1> QED BY <1>2, <1>3, <1>4

\* A call the stitched kernel has taken ends with fewer passes.
LEMMA Ends9x ==
  ASSUME IInv, Pass9 \/ Last9, pc' = "done"
  PROVE  passes' < PlainPasses(Total, 512)
<1>1. rest \in Nat /\ written \in Nat /\ passes \in Nat /\ Total = written + rest /\ Total \in Nat
  BY CallFacts DEF IInv, RestInv
<1>2. CASE Pass9
  <2>1. pc = "x9" /\ passes' = passes + 1
    BY <1>2 DEF Pass9, Stitch, Wrote
  <2>2. rest > 64 /\ written = 576 * passes /\ ~Refused(Total, 512)
    BY <2>1 DEF IInv, RestInv, PassInv
  <2>3. Total >= 576 * passes + 65
    BY <1>1, <2>2
  <2> QED BY <1>1, <2>1, <2>2, <2>3, SavedBy9x
<1>3. CASE Last9
  <2>1. pc = "last9" /\ passes' = passes
    BY <1>3 DEF Last9, LastBlock
  <2>2. rest > 0 /\ written = 576 * passes
    BY <2>1 DEF IInv, RestInv, PassInv
  <2>3. Total > 576 * passes
    BY <1>1, <2>2
  <2> QED BY <1>1, <2>1, <2>3, SavedBy9x
<1> QED BY <1>2, <1>3

\* A call the stitched kernel has taken ends with fewer passes.
LEMMA Ends17x ==
  ASSUME IInv, Pass17 \/ Last17, pc' = "done"
  PROVE  passes' < PlainPasses(Total, 1024)
<1>1. rest \in Nat /\ written \in Nat /\ passes \in Nat /\ Total = written + rest /\ Total \in Nat
  BY CallFacts DEF IInv, RestInv
<1>2. CASE Pass17
  <2>1. pc = "x17" /\ passes' = passes + 1
    BY <1>2 DEF Pass17, Stitch, Wrote
  <2>2. rest > 64 /\ written = 1088 * passes /\ ~Refused(Total, 1024)
    BY <2>1 DEF IInv, RestInv, PassInv
  <2>3. Total >= 1088 * passes + 65
    BY <1>1, <2>2
  <2> QED BY <1>1, <2>1, <2>2, <2>3, SavedBy17x
<1>3. CASE Last17
  <2>1. pc = "last17" /\ passes' = passes
    BY <1>3 DEF Last17, LastBlock
  <2>2. rest > 0 /\ written = 1088 * passes
    BY <2>1 DEF IInv, RestInv, PassInv
  <2>3. Total > 1088 * passes
    BY <1>1, <2>2
  <2> QED BY <1>1, <2>1, <2>3, SavedBy17x
<1> QED BY <1>2, <1>3

\* Only their own passes run at the labels of the stitched kernels.
LEMMA StitchedLabels ==
  ASSUME Next
  PROVE  /\ pc \in {"x9", "last9"} => Pass9 \/ Last9
         /\ pc \in {"x17", "last17"} => Pass17 \/ Last17
<1>1. Ctr32 \/ Sse \/ Four \/ Take9 \/ Refuse9 \/ Take17 \/ Refuse17 => pc \in Dispatchers
  BY DEF Ctr32, Sse, Four, Take9, Refuse9, Take17, Refuse17, Jump, Dispatchers, Entries
<1>2. Avx512 \/ Avx512vl \/ TailAvx512 \/ TieredEntry \/ FillDispatch => pc \in Dispatchers
  BY DEF Avx512, Avx512vl, TailAvx512, TieredEntry, FillDispatch, Jump, Dispatchers, Entries
<1>3. PlainPass \/ Pass128 \/ TieredPass => pc \in Plain \cup {"two128", "tiered16"}
  BY DEF PlainPass, Pass128, TieredPass
<1>4. Pass32 \/ Residue32 \/ KeyPass17 \/ KeyPassPaired \/ Returned
        => pc \in {"x32", "residue32", "key17", "key25", "key33", "done"}
  BY DEF Pass32, Residue32, KeyPass17, KeyPassPaired, Returned
<1>5. Pass9 \/ Last9 => pc \in {"x9", "last9"}
  BY DEF Pass9, Last9, Stitch, LastBlock
<1>6. Pass17 \/ Last17 => pc \in {"x17", "last17"}
  BY DEF Pass17, Last17, Stitch, LastBlock
<1> QED BY <1>1, <1>2, <1>3, <1>4, <1>5, <1>6 DEF Next, Dispatchers, Entries, Plain

\* The formula of the dispatchers is right on every call: the passes a call
\* has made when it ends in a stitched kernel are fewer than the plain kernel
\* would have made, and a call that is refused would have saved none.
THEOREM StitchedSaves == Spec => StitchedExactlyWhenItSaves
<1> DEFINE Saves ==
      /\ pc \in {"x9", "last9"} /\ pc' = "done"   => passes' < PlainPasses(Total, 512)
      /\ pc \in {"x17", "last17"} /\ pc' = "done" => passes' < PlainPasses(Total, 1024)
      /\ Refuse9  => rest <= 3584 /\ StitchedPasses(rest, 512) >= PlainPasses(rest, 512)
      /\ Refuse17 => rest <= 15360 /\ StitchedPasses(rest, 1024) >= PlainPasses(rest, 1024)
<1>1. IInv /\ Next => Saves
  <2> SUFFICES ASSUME IInv, Next PROVE Saves
    OBVIOUS
  <2>1. pc \in {"x9", "last9"} /\ pc' = "done" => passes' < PlainPasses(Total, 512)
    BY StitchedLabels, Ends9x
  <2>2. pc \in {"x17", "last17"} /\ pc' = "done" => passes' < PlainPasses(Total, 1024)
    BY StitchedLabels, Ends17x
  <2>3. ASSUME Refuse9
        PROVE  rest <= 3584 /\ StitchedPasses(rest, 512) >= PlainPasses(rest, 512)
    <3>1. rest \in Nat /\ rest > 64 /\ Refused(rest, 512)
      BY <2>3, CallFacts DEF Refuse9, Jump, IInv, RestInv
    <3> QED BY <3>1, RefusedBy9x
  <2>4. ASSUME Refuse17
        PROVE  rest <= 15360 /\ StitchedPasses(rest, 1024) >= PlainPasses(rest, 1024)
    <3>1. rest \in Nat /\ rest > 64 /\ Refused(rest, 1024)
      BY <2>4, CallFacts DEF Refuse17, Jump, IInv, RestInv
    <3> QED BY <3>1, RefusedBy17x
  <2> QED BY <2>1, <2>2, <2>3, <2>4
<1>2. IInv /\ [Next]_vars => [Saves]_vars
  BY <1>1
<1>3. StitchedExactlyWhenItSaves <=> [][Saves]_vars
  BY DEF StitchedExactlyWhenItSaves
<1> HIDE DEF Saves
<1> QED BY <1>2, <1>3, ChaChaInvariant, PTL DEF Spec

-----------------------------------------------------------------------------
(***************************************************************************)
(* The dispatchers do not go round in circles, and every loop runs out.    *)
(***************************************************************************)

\* The labels in the order in which a call passes them.
Rank(label) ==
  CASE label = "ctr32"                                                 -> 6
    [] label \in {"sse", "avx512", "avx512vl", "fill", "residue32"}    -> 5
    [] label \in {"four", "tail"}                                      -> 4
    [] label \in {"hybrid9", "hybrid17", "tiered"}                     -> 3
    [] label \in DOMAIN Lanes                                          -> 2
    [] label \in {"last9", "last17"}                                   -> 1
    [] OTHER                                                           -> 0

\* What is left to do: the labels to come and the bytes not yet written.
ToGo == rest + Rank(pc)

LEMMA RankIsSmall == \A label : Rank(label) \in 0 .. 6
  BY DEF Rank

LEMMA LeftIsNatural == IInv => rest \in Nat /\ len \in Nat /\ Total \in Nat
  BY CallFacts DEF Total

LEMMA LeftNext == IInv' => (rest \in Nat)'
  BY LeftIsNatural, PTL

\* A jump goes down, and writes nothing.
LEMMA JumpGetsCloser ==
  ASSUME \/ Ctr32 \/ Sse \/ Four \/ Take9 \/ Refuse9 \/ Take17 \/ Refuse17
         \/ Avx512 \/ Avx512vl \/ TailAvx512 \/ TieredEntry \/ FillDispatch \/ Residue32,
         rest \in Nat, len \in Nat
  PROVE  rest' = rest /\ Rank(pc') < Rank(pc)
<1>1. CASE Ctr32
  BY <1>1 DEF Ctr32, Jump, Rank, Lanes
<1>2. CASE Sse \/ Four
  BY <1>2 DEF Sse, Four, Jump, Rank, Lanes
<1>3. CASE Take9 \/ Refuse9 \/ Take17 \/ Refuse17
  BY <1>3 DEF Take9, Refuse9, Take17, Refuse17, Jump, Rank, Lanes
<1>4. CASE Avx512 \/ Avx512vl \/ TieredEntry
  BY <1>4 DEF Avx512, Avx512vl, TieredEntry, Jump, Rank, Lanes
<1>5. CASE TailAvx512
  BY <1>5 DEF TailAvx512, Jump, Rank, Lanes
<1>6. CASE FillDispatch
  <2>1. FillWidth(len) \in {448, 1024, 1536, 2048}
    BY DEF FillWidth
  <2> QED BY <1>6, <2>1 DEF FillDispatch, Jump, Rank, Lanes
<1>7. CASE Residue32
  BY <1>7 DEF Residue32, Rank, Lanes
<1> QED BY <1>1, <1>2, <1>3, <1>4, <1>5, <1>6, <1>7

\* A pass writes something, and goes up only to the residue of a pass of 2048 bytes.
LEMMA PassGetsCloser ==
  ASSUME IInv, IInv',
         \/ PlainPass \/ Pass128 \/ TieredPass \/ Pass9 \/ Last9 \/ Pass17 \/ Last17
         \/ KeyPass17 \/ KeyPassPaired
  PROVE  rest' < rest /\ Rank(pc') <= Rank(pc)
<1>1. rest \in Nat /\ rest' \in Nat
  BY LeftIsNatural, LeftNext
<1>2. pc \notin {"ctr32", "done"} => rest > 0
  BY DEF IInv, RestInv
<1>3. CASE PlainPass
  <2>1. pc \in Plain /\ Lanes[pc] \in Nat /\ Lanes[pc] > 0 /\ pc \in DOMAIN Lanes
    BY <1>3, PlainLanes DEF PlainPass
  <2>2. pc' \in {"done", pc} /\ rest' = rest - AtMost(rest, 64 * Lanes[pc])
    BY <1>3 DEF PlainPass, Wrote
  <2>3. rest > 0
    BY <2>1, <1>2 DEF Plain
  <2> QED BY <1>1, <2>1, <2>2, <2>3 DEF AtMost, Rank, Plain, Lanes
<1>4. CASE Pass128
  BY <1>1, <1>4 DEF Pass128, Wrote, Rank, Lanes
<1>5. CASE TieredPass
  BY <1>1, <1>2, <1>5 DEF TieredPass, Wrote, AtMost, Rank, Lanes
<1>6. CASE Pass9 \/ Pass17
  <2>1. PICK k \in {"x9", "x17"}, last \in {"last9", "last17"} : Stitch(k, last)
    BY <1>6 DEF Pass9, Pass17
  <2>2. /\ pc = k /\ pc' \in {"done", k, last}
        /\ rest' = rest - (AtMost(rest, 64 * Lanes[k]) + AtMost(rest - AtMost(rest, 64 * Lanes[k]), 64))
    BY <2>1 DEF Stitch, Wrote
  <2>3. 64 * Lanes[k] \in {512, 1024}
    BY DEF Lanes
  <2>4. rest > 0
    BY <1>2, <2>2
  <2>5. Rank(pc') <= Rank(pc)
    BY <2>2 DEF Rank, Lanes
  <2> QED BY <1>1, <2>2, <2>3, <2>4, <2>5 DEF AtMost
<1>7. CASE Last9 \/ Last17
  BY <1>1, <1>2, <1>7 DEF Last9, Last17, LastBlock, Rank, Lanes
<1>8. CASE KeyPass17
  BY <1>1, <1>2, <1>8 DEF KeyPass17, Wrote, AtMost, Rank, Lanes
<1>9. CASE KeyPassPaired
  <2>1. /\ pc \in {"key25", "key33"} /\ pc' = "done"
        /\ rest' = rest - (64 + AtMost(rest - 64, 64 * Lanes[pc]))
    BY <1>9 DEF KeyPassPaired, Wrote
  <2>2. 64 * Lanes[pc] \in {1536, 2048} /\ rest > 64
    BY <2>1, SMTT(30) DEF Lanes, IInv, RestInv
  <2>3. Rank(pc') <= Rank(pc)
    BY <2>1 DEF Rank, Lanes
  <2> QED BY <1>1, <2>1, <2>2, <2>3 DEF AtMost
<1> QED BY <1>3, <1>4, <1>5, <1>6, <1>7, <1>8, <1>9

LEMMA StepGetsCloser ==
  ASSUME IInv, IInv', [Next]_vars
  PROVE  [ToGo' < ToGo]_vars
<1> SUFFICES ASSUME Next, vars' # vars PROVE ToGo' < ToGo
  OBVIOUS
<1>1. rest \in Nat /\ rest' \in Nat /\ len \in Nat
  BY LeftIsNatural, LeftNext
<1>2. Rank(pc) \in 0 .. 6 /\ Rank(pc') \in 0 .. 6
  BY RankIsSmall
<1>3. CASE \/ Ctr32 \/ Sse \/ Four \/ Take9 \/ Refuse9 \/ Take17 \/ Refuse17
           \/ Avx512 \/ Avx512vl \/ TailAvx512 \/ TieredEntry \/ FillDispatch \/ Residue32
  BY <1>1, <1>2, <1>3, JumpGetsCloser DEF ToGo
<1>4. CASE \/ PlainPass \/ Pass128 \/ TieredPass \/ Pass9 \/ Last9 \/ Pass17 \/ Last17
           \/ KeyPass17 \/ KeyPassPaired
  BY <1>1, <1>2, <1>4, PassGetsCloser DEF ToGo
<1>5. CASE Pass32
  <2>1. rest' = rest - 2048
    BY <1>5 DEF Pass32, Wrote
  <2> QED BY <1>1, <1>2, <2>1 DEF ToGo
<1> QED BY <1>3, <1>4, <1>5 DEF Next, Returned

\* Every step brings the return closer, whatever the length and the processor: the
\* dispatchers do not send a call round in circles, and no loop passes without writing.
THEOREM ChaChaGetsCloser ==
  Spec => ToGo <= Total + 6 /\ [](ToGo \in Nat) /\ [][ToGo' < ToGo]_vars
<1>0. Init => ToGo <= Total + 6
  <2> SUFFICES ASSUME Init PROVE ToGo <= Total + 6
    OBVIOUS
  <2>1. Total \in Nat /\ rest = Total /\ Rank(pc) \in 0 .. 6
    BY InitInv, LeftIsNatural, RankIsSmall DEF Init
  <2> QED BY <2>1 DEF ToGo
<1>1. IInv => ToGo \in Nat
  <2> SUFFICES ASSUME IInv PROVE ToGo \in Nat
    OBVIOUS
  <2>1. rest \in Nat /\ Rank(pc) \in 0 .. 6
    BY LeftIsNatural, RankIsSmall
  <2> QED BY <2>1 DEF ToGo
<1>2. IInv /\ IInv' /\ [Next]_vars => [ToGo' < ToGo]_vars
  BY StepGetsCloser
<1> QED BY <1>0, <1>1, <1>2, ChaChaInvariant, PTL DEF Spec
=============================================================================
