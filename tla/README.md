# Verification of the ChaChaCha AEAD

TLA+ models, TLC configurations and TLAPS proofs for the ChaCha20-Poly1305
library in `src/`: C and x86-64 assembly, no operating system calls, no threads
of its own, no input or output. What can go wrong in it is mostly not concurrency
between processes but *schedules*: one call overlaps encryption, decryption and
authentication of different parts of a record on vector and scalar units, picks
one of some twenty kernels by length and processor, and hands a record from one
to the next with cursors, counters and half-finished hashes in a stack frame. A
mistake shows for a few lengths only. The models follow these schedules label by
label; bytes are positions in a record, keystream is a block counter, and the
Poly1305 accumulator is the bytes it is the hash of. Around them are the models of
the C code: the record as the caller sees it, the arithmetic of the portable
Poly1305, and the globals that choose the code, which threads do share.

1. [The system](#1-the-system)
2. [The modules and the code](#2-the-modules-and-the-code)
3. [The runs](#3-the-runs)
4. [The proofs](#4-the-proofs)
5. [Where code and documentation differ](#5-where-code-and-documentation-differ)
6. [What is not modelled](#6-what-is-not-modelled)
7. [Plan](#7-plan)

## 1. The system

| component | source | state | operations |
|---|---|---|---|
| C API, detection and switch | `chacha20poly1305.c/.h` | `g_avx512`, `g_ready`, `OPENSSL_ia32cap_P` | detect, `set_avx512_enabled`, seal / open and their scatter forms |
| ChaCha20 streaming context | `chacha20poly1305.c` 115-145 | `CHACHA20_CTX`: key, counter, 64 bytes of buffered keystream, how many are used | init, update, cleanup |
| Portable AEAD and Poly1305 | `chacha20poly1305.c` 147-290, 298-390 | five 26-bit limbs, 16-byte buffer | init, update, finish; MAC and cipher one after the other |
| ChaCha20 kernels and dispatch | `chacha_kernels.pl` | registers and frame of one call: bytes left, vector and scalar counters, counter block | 5 entry points, the dispatch between them, 17 kernels |
| AVX-512 open | `aead512.pl` 162-836 | frame: cursors, bytes left, counter, look-ahead flag, accumulator, slot for r^32 | `chacha20_poly1305_open_512` |
| AVX-512 seal | `aead512.pl` 838-1520 | the same, and the start of the suffix not yet authenticated | `chacha20_poly1305_seal_512` |
| Fused kernels | `aead_mac.S`, `aead_mac_partial.pl` | two accumulators | 16 lanes with one or two MAC chains; 2, 4, 8 lanes with one |
| Poly1305 IFMA | `poly1305_ifma.asm` | accumulator in vector limbs | absorb a suffix, finish with the length block |
| Poly1305 powers and bridge | `poly1305_pow.S` | r, r^2 .. r^32 in 44-bit limbs | power, combine two chains |
| Issue probes | `tools/probe/ilp.c`, `ports.c` | cycles of the best sample | eight measured loops, the sampling around them |
| Build, tests, benchmarks; vendored code | `Makefile`, `x86_64-xlate.pl`, `tools/`, `vendor/` | none of the library's | |

How they interact. The C entry points fill in a union (key, counter, nonce; on
return the tag) and call the AVX-512 open or seal, or the portable code. The
AVX-512 code calls the ChaCha20 kernels directly for the first bytes together
with the key block (the *fill*), for what is left of an in-place open, and for
17-block tails; it calls the fused kernels for ranges of 1024 bytes, the borrowed
finalizers of the ChaCha20 kernels to store what a fused kernel computed, and
IFMA for what no fused kernel has authenticated. `CRYPTO_chacha_20` and the
streaming context call `ChaCha20_ctr32`, which dispatches over everything.

Which behaviours are hard, and what has to hold:

* **Order of reading and overwriting** (open, in place): a range is authenticated
  by the same pass that decrypts it, and must be read first. (seal): the MAC reads
  the output one range behind the kernel writing it. Needed: every byte
  authenticated is ciphertext when read.
* **Order of the hash**: ranges go through a single chain, two chains combined
  with r^32, drains of 2, 4, 8 or 16 lanes that authenticate a fixed number of
  bytes, and IFMA suffixes, with roll-backs of the cursor between. Needed: the tag
  is that of AAD, ciphertext, lengths, each byte once.
* **Counters**: the word that counts blocks is advanced by the fill, by 16 per
  range, by stitched kernels that keep two of them. Needed: block i of a stream
  comes from counter i, across every hand-over and the wrap of 32 bits.
* **Widths**: a kernel makes the passes it is coded for, not what the length
  needs. Needed: none is chosen for more than it writes, none writes or reads past
  the record.
* **Dead and dying code**: thresholds moved later than the comments, two branches
  of the seal that no length reaches.
* **Split streams**: an update continues in the middle of a block another one
  began. Needed: the split does not show.
* **Lengths of the caller**: sums of a `size_t` wrap, the tag follows the ciphertext,
  out may be in. Needed: nothing written outside what the caller gave, and nothing
  left there by a call that fails.
* **Two implementations of one function**: the portable path buffers what it
  authenticates and does one thing after the other. Needed: the same tag.
* **Lazy carries**: the portable Poly1305 leaves carries in its limbs for the next
  block. Needed: no word overflows, and the tag is reduced, for the one accumulator
  in 2^128 too.
* **Global switch**: detection against `set_avx512_enabled`, constructors and
  other threads. Needed: no kernel the processor cannot run, and a switch that
  holds.

`PROJECT.json` lists each hazard with its line and the properties that catch it.

## 2. The modules and the code

| module | models | extends |
|---|---|---|
| `FusedKernels` | what a ChaCha20 call, a fused kernel, an accumulator and a combine mean | |
| `AeadRecord` | abstract: what one seal or open promises, whatever its schedule | |
| `Open512` | `chacha20_poly1305_open_512`, every label | `FusedKernels` |
| `Seal512` | `chacha20_poly1305_seal_512`, every label | `FusedKernels` |
| `ChaChaKernels` | one ChaCha20 call, from an entry point through the dispatch to the passes | `FusedKernels` |
| `CipherStream` | abstract: what the streaming interface promises | |
| `ChaChaContext` | `CRYPTO_chacha_20_init`, `_update`, `_cleanup` | `FusedKernels` |
| `Poly1305` | abstract: blocks and tag modulo the prime, in numbers | |
| `PortablePoly1305` | `poly1305_init`, `_blocks`, `_finish`: five limbs in 32- and 64-bit words | |
| `PortableMac` | `poly1305_update`, `pad16`, `tag_portable`: what the blocks are | |
| `AeadApi` | `chacha20_poly1305_seal`, `_open`, `_seal_scatter`, `_open_gather`, both paths | `PortableMac` |
| `ApiDispatch` | `detect`, `init_ctor`, `ensure_ready`, `set_avx512_enabled`, and the calls that read the globals | |
| `ProbeLoops` | the loops of `tools/probe/ilp.c` and `ports.c`, and their `run` | |
| `MC...` (`MCOpen512` to `MCProbeLoops`) | values of the constants for TLC | the module they name |
| `SealClaims`, `ChaChaClaims` | statements of the documentation the code does not keep | `Seal512`, `MCChaChaKernels` |
| `KernelLemmas` | facts about counters, kernel calls and accumulators; how far the counter reaches | `FusedKernels` |
| `Open512Proofs`, `Seal512Proofs`, `ChaChaKernelsProofs`, `ChaChaContextProofs` | theorems | the module they name, `KernelLemmas` |
| `PortablePoly1305Proofs`, `AeadApiProofs`, `ApiDispatchProofs` | theorems | the module they name |

`Open512` and `Seal512` refine `AeadRecord`, `ChaChaContext` refines
`CipherStream`, `PortablePoly1305` refines `Poly1305`. `AeadApi` composes: its
AVX-512 path takes any steps `AeadRecord` allows (`Kernels`), which is what the two
refinements are for, and its portable path is the calls of `PortableMac`. The
kernels compose with `ChaChaKernels` by contract. What they take of a
ChaCha20 call (consecutive counters from the one given, everything written, the
caller's counter block left alone) is `KeystreamInOrder`, `StreamComplete` and
`CallerCounterKept` there; what an entry takes of its caller is `Callable` in
`FusedKernels`, which `Init` of `ChaChaKernels` assumes and section 4 proves of every
call.

In each module a definition that begins with `\* Fault:` is the code with one
plausible mistake, and is not part of the specification. Each property is known to
fail when the definition after the fault is replaced by it.

### Seal and open

One action is one label of the assembly with everything up to the next; `pc` is the
label. A pass of a fused kernel is two actions, its rounds (the MAC reads its input)
and its stores (the output is written): that order is what an in-place open lives
on, and the code between them is where the cursors move.

| variable | code |
|---|---|
| `inl` | `%rbx`, bytes of the record not dispatched |
| `oup`, `inp` | frame 312, 320: output and input cursors |
| `adv`, `look`, `left` | frame 504: fill length, later counter advance; 508: 0 no pending range, 1 pending, 2 pending and r^32 there; 536: pending bytes in no chain |
| `ctr` | frame 368, the block counter |
| `slot` | frame 384: junk, keystream of the fill, or r^32 |
| `acc`, `second` | frame 288 and 424, 448: the accumulator, and a second chain that starts from zero |
| `kern`, `cap` | `%r14`, `%r13`: kernel of a narrow drain and the bytes it authenticates |
| `suffix` | `%rdi`, `%rsi` where the exposed suffix is authenticated |
| `written` | how much of the output is a correct prefix, or `Garbled` |
| `tag` | the tag has been computed |

`Emit` is a ChaCha20 call: it continues a prefix of the output only at the right
offset under the right counter. `Absorb` continues a hash, and records the fault
`order` if the bytes do not follow those before (or those were padded), and `source`
if a byte read is not ciphertext at that moment. `Combine` is right only for 512
bytes and with r^32 in the slot. The input of a seal is taken to be elsewhere or in
place alike: it is read by the pass that writes over it. An open has `inplace` as a
parameter of the call, compared by the code itself (`out == in`).

Every label a length reaches is modelled. Two branches of the seal are tests whose
outcome no length gives: the prologue that encrypts a first range with nothing
pending (`aead512.pl` 1094-1110) and the entry without a power (1143). Their targets
are labels without an action, and `NoDeadBranch` says they are never reached. A third
is the call in `Short` (1239), which runs only if bytes remain with nothing pending:
`SealCallsKernels` proves that it is never made. The calls of `ChaCha20_16x` and `ChaCha20_16x_tiered` in the two-pass
paths (`aead512.pl` 362-380, 1066-1077) sit behind a second test of a length that
was tested before; the paths are modelled with the call the reachable test makes.

### A ChaCha20 call

`pc` is a dispatcher (`Ctr32`, `Sse`, `Four`, `Take9`/`Refuse9`, `Avx512`,
`Avx512vl`, `Take17`/`Refuse17`, `TieredEntry`, `TailAvx512`, `FillDispatch`: tests
of processor and length and a jump) or a kernel about to make a pass (`PlainPass`
for the nine that repeat one pass, `Pass128`, `TieredPass`, the stitched `Pass9` and
`Pass17` with their scalar last blocks, `Pass32` and its residue, `KeyPass17` and
`KeyPassPaired` for the kernels with the key block). `rest` is `%rdx`. The counters
are where the code keeps them: the caller's block, the copy `ChaCha20_32x` makes in
its frame, the vector lanes, and the scalar block or second instance. A kernel
loads them when it is entered (`Load`), so that a hand-over with a stale block shows.
`Entries` are the exported `ChaCha20_ctr32` and the entries `aead512.pl` calls, with
the lengths it calls them with (`Callable`): 17x with 1025 to 1152 bytes, a fill with
at most 2048, none with zero. That those entries find AVX-512F and AVX-512VL is the
caller's doing as well: `ApiDispatch` takes the AEAD kernels to need both and more.

### The streaming context

An update is three actions: `Drain` the buffered block, `Whole` blocks by one kernel
call, `Partial` for the rest through a new buffered block. `ks` is which block of
which stream the buffer holds: init leaves the old one there. After a cleanup only an
init follows, as for a context nobody initialised: the header promises nothing for
an update of such a context (it would xor with zeros).

### The portable Poly1305

`Radix` is 2^26; a 32-bit word holds 64 of it and a 64-bit word 4096 of its square,
whatever it is, so that a small radix has the same headroom as the real one. `h` and
`r` are `st->h` and `st->r`. Every operator takes the machine `W` it runs on:
`Machine` reduces where the code stores to a word or casts, `Unbounded` never, and
`NoWordOverflows` says they agree. One `Block` is one turn of the loop of
`poly1305_blocks`; `Close` is the end of `poly1305_finish`: the tag and the wipe. The
subtraction of the prime is modelled with its wrap below zero and the mask made of
the sign bit. Left out as data: the clamping masks (`Multipliers` may be any number
below 2^128) and the chain of 32-bit additions that adds the pad.

### Seal and open as the caller sees them

`mem` is the caller's two buffers, `in` and `out`; a byte is the set of what has been
XORed into it, so that decrypting with the right keystream gives the plaintext back
and with another one does not. `before` is what was at out when the call was made.
`pc` runs through `start`, the portable steps (`seal_crypt`, `seal_tag`; `open_tag`,
`open_crypt`) or `fused`, `verify` and `returned`. After a seal `Deliver` puts the
record into the buffer of an open: as it is, cut to any length, with any byte changed,
or with another nonce or associated data. The tag is ideal: a tag is equal to another
if nonce and input are. `fast` is what `g_avx512` was when the call tested it. The
length block of `Lens` is 8 bytes of each length, as in the code.

### Detection and the switch

Each thread is idle, in a call or in a detection. A detection reads the processor
first (`Detect`) and then makes its stores one at a time in any order (`Store`): the
globals are plain objects, which a compiler may store to in any order and another
thread may see between any two stores. A torn `int` is left out. `MayRun` has the
order of constructors: until `init_ctor` has run only one thread calls, and it may
call before `init_ctor`. `using_avx512` is `ensure_ready` and a read, the first half of
an `Aead` call; a `CRYPTO_chacha_20` of no bytes returns before either. `used` is the
set of instructions of the kernel the last call ran; `switch` is what the last
`set_avx512_enabled` promised. `Chosen` is the one load of both words in
`ChaCha20_ctr32`. `ChaCha20_32x`, which that load has to find AVX-512F for, loads the
second word again (`chacha_kernels.pl:4615`) to choose the kernel of its residue; that
load has no step of its own, because the word it finds is the one already seen
(`DispatchWordsSettle`).

### The probes

An instruction is the registers it reads and writes and the unit it runs on; the loop
bodies of `ilp.c` are `Chains(1)`, `(2)`, `(4)`, `(8)` instruction by instruction, and
those of `ports.c` are written out. The processor is ideal and external: it renames
registers and issues the oldest ready instructions. `Sample` is the turn of `run`
with its failed samples, in which the result is whatever was left in memory.

## 3. The runs

| run | distinct states | what it asks |
|---|---|---|
| `open` | 145 390 | every schedule of an open, in place and not |
| `seal` | 68 380 | every schedule of a seal |
| `chacha` | 470 942 | every chain of kernels of a ChaCha20 call |
| `context` | 40 025 | every way to split a stream into updates |
| `poly` | 66 878 | limbs, words and carries of the portable Poly1305 |
| `api` | 54 672 | a record sealed, carried and opened by either path |
| `dispatch` | 152 076 | detection, switch and calls of two threads |
| `ilp` | 4 177 | what the measured loops measure |
| `tail17_comment`, `scalar_suffix`, `bypass_formula`, `early_disable` | violations | section 5 |

**`open`, `seal`.** `MacInOrder`: the accumulator is at every label that of AAD and a
prefix of the ciphertext. `MacOverCiphertext`: no byte is authenticated after an open
has overwritten it, or before a seal has encrypted it. `KeystreamInOrder`: every
block under its counter, and no kernel given more than it can write. `WithinRecord`:
kernels that authenticate a fixed length stay inside the record. `TagCoversRecord`:
a tag is that of the whole record. `NoDeadBranch` (seal). `ImplementsRecord`:
the schedule is one of `AeadRecord`, which includes that every call returns.
`IInv` is the inductive invariant of the proofs.

Lengths are *all* of 0 .. 5300: five ranges of 1024 bytes and 180 more. No test in the
code compares the bytes left with more than 2048, and above that each turn of a loop
takes 1024 bytes and comes back to the same label in the same state but for the
offset; so with lengths up to five ranges each path into, around and out of each loop
is taken with every residue, and loops turn more than once. `CounterSpace` is 50, so
that the counter wraps inside the longer records (5300 bytes are 83 blocks).

**`chacha`.** `KeystreamInOrder` and `StreamComplete`: each block of the stream from
its own counter, all of it written. `CallerCounterKept`: only the tiered entry moves
the caller's counter block, and where it leaves it. `StitchedExactlyWhenItSaves`: the
stitched kernel is taken by exactly the calls in which it saves a vector pass, and
never refused above the bounds its comment gives. `EveryCallReturns`. Lengths are
0 .. 2310 (past two passes of the widest kernel of the fill and the 32x entry) and
around 3584, 4096 and 6144, where the dispatch refuses for the last time, two passes
of 32x end and three passes meet a residue. Processors are the eight kinds the
dispatch tells apart, one without AVX-512F but with VL (the C code can mask it out),
one the other way. The counter has 97 values and starts at 0 or seven blocks before
the wrap.

**`context`.** `StreamInOrder`: each byte is xored with its own byte of the
keystream, however the stream is split and whatever the context was used for before.
`ImplementsStream`: a stream of updates is one stream, and an update encrypts all it
was given. Updates of 0, 1, 3, 20, 44, 63, 64, 65, 127, 128 and 130 bytes reach every
position in a block and every combination of the three steps; 520 bytes in a stream
make the counter of 4 values wrap twice; two streams show what the first leaves in
the buffer. Deadlock is not checked: the bounds `MaxBytes` and `MaxStreams` stop the
caller, and a caller may stop.

**`poly`.** `NoWordOverflows`: whatever block comes next, no sum, column, carry or
carry times five loses a bit. `TypeOK` is what that rests on: one limb exceeds the
radix by at most 62. `LimbsDoNotOverlap`: the tag is packed from limbs below the radix
although finish carries around only once. `ImplementsPoly1305`: every block and every
tag is that of the arithmetic modulo the prime. The radix is 64: a limb has 6 bits,
the fewest the assumption allows, and the words have the same headroom over it as
over 26; multipliers and blocks are all ones, single limbs and numbers whose
sum is just below, at and above the prime. Messages are up to 4 blocks, after which
the largest possible carry has been through every limb and back.

**`api`.** `WritesStayInRoom`: no write outside the caller's buffers, wrap or not.
`NothingReleased`: a call that returns 0 leaves only old bytes and zeros.
`TagCoversRecord`: either path computes the tag of the same bytes, and an open in
place of those it was given. `OpensWhatWasSealed`: a record opens exactly if it is
what was sealed, whichever path was at each end. Blocks are 4 bytes, tags 2, sizes
modulo 16: lengths below, at and above one and two blocks for record and associated
data, and 14 and 15, for which the sum wraps. Rooms of 1 to 10 bytes are too small,
exact and larger. The scatter forms are given what the buffers hold; the caller's
promise that out holds the record is taken as given, as nothing tests it.

**`dispatch`.** `NeverUnsupported`: no call runs an instruction the processor does
not have, however its reads fall between stores. `SwitchHolds`: once loaded, off stays
off and on is what the processor has, as long as calls of `set_avx512_enabled` do not
overlap (then the last store wins, and either is right). Five processors are those the
detection tells apart: none, Skylake-X, Ice Lake (with bit 11 of leaf 1 set, which is
XOP only on AMD), Bulldozer with XOP, Zen 4. Two threads with three calls each have
one detection overlap another and a call overlap both.

**`ilp`.** `RunsAtItsWidth`: a loop takes the cycles of its longest chain or of its
ports, whichever is more, and no more than a latency above: its chains are serial and
independent of each other. `NeverOverstates`: the rate printed is never above what the
loop allows, whichever samples fail. Two turns show each dependence between turns; six
machines have fewer, as many and more ports than a loop can use.

In `api` and `dispatch` deadlock is not checked because the last call is followed by
none, in `poly` because a tag ends the authenticator, in `ilp` because the report
ends the program.

**Fairness.** Seal, open and the kernels are straight-line code of one thread with no
waiting: `WF_vars(Next)`. In the context only the steps inside an update are fair;
when and whether a caller calls is not assumed. The runs of the C code state safety
only and assume no fairness.

## 4. The proofs

`tlapm` proves, for every value of the constants:

| module | theorems |
|---|---|
| `Open512Proofs`, `Seal512Proofs` | `Invariant`, `TypeOK`, `MacInOrder`, `MacOverCiphertext`, `KeystreamInOrder`, `WithinRecord`, `TagCoversRecord`, `RefinesRecord`, `GetsCloser`, `CallsKernels` (with the prefix `Open` or `Seal`), `SealNoDeadBranch` |
| `KernelLemmas` | `KeyBlockIsApart` |
| `ChaChaKernelsProofs` | `ChaChaInvariant`, `ChaChaTypeOK`, `StreamInOrder`, `StreamWritten`, `CallerCounter`, `StitchedSaves`, `ChaChaGetsCloser`; `RefusedBy9x`, `RefusedBy17x` |
| `ChaChaContextProofs` | `ContextInvariant`, `ContextTypeOK`, `ContextStreamInOrder`, `ContextRefinesStream` |
| `PortablePoly1305Proofs` | `PolyTypeOK`, `PolyNoWordOverflows`, `PolyLimbsDoNotOverlap`, `PolyBlocksMultiply`, `PolyFullyReduced`, `PolyImplementsPoly1305` |
| `AeadApiProofs` | `ApiInvariant`, `ApiWritesStayInRoom`, `ApiNothingReleased`, `ApiTagCoversRecord`, `ApiOpensWhatWasSealed`, `ApiRunsRecord` |
| `ApiDispatchProofs` | `DispatchNeverUnsupported`, `DispatchSwitchHolds`, `DispatchWordsSettle` |

Assumptions. `CounterSpaceAssumption`: the counter has at least one value, so that a
counter of 2^32 is one case and no proof depends on whether or when it wraps.
`LengthsAssumption`: lengths are natural numbers: records of any length.
`CallsAssumption`, `ContextAssumption`: the same for calls and updates, and first
counters are values of the counter. `RadixAssumption`, `InputAssumption`: a radix of
at least 64 divisible by 4, and any multipliers and blocks below a quarter of its
fifth power, so that 2^26 with every key and message is one case.
`BlockAssumption`, `SizeAssumption`: a block is an even number of bytes, a tag is not
empty and fits a `size_t` of any width. `ProcessorAssumption`: any processors. `ThreadsAssumption`: no thread is
called like a position of the switch, which holds either a position or a thread.

Seal and open. The properties say what the accumulator and the output are, but a step
is right only because of where the cursors, the pending range, the half range left
out and the second chain stand: `IInv` says that label by label. In the open it is
`FillInv` (before the schedule is chosen), `InPlaceInv`, `PendingInv`, `DrainInv`
and `SuffixInv`. Two of its facts are the ones a reader of the assembly asks for: the
single-chain schedule reaches the drain with at most 512 bytes left, so that the
sixteen-lane drain, which needs r^32, is not taken without it; and what is hashed is
always a multiple of 16 bytes until the suffix that ends the record. The lemmas about
the counter (`KernelLemmas`) reduce a sum modulo the counter space once
(`ReduceThenAdd`), and everything else is about offsets.

`OpenRefinesRecord` and `SealRefinesRecord` are the safety part of `ImplementsRecord`.
`Places` says where each label leaves the two fronts of `AeadRecord`, the bytes
crypted and the bytes authenticated (a second chain counts where it has got to), and
with that before and after a step each action is `Authenticate`, `Crypt`, `Finish` or
a stutter. Where a second chain has run ahead of the first, combining the two moves
neither front.

What can be said of termination without fairness is proved too. `ToGo` is what is left
to crypt plus the place of the label in the order in which a call passes them
(`Rank`); it is a natural number and every step lowers it (`OpenGetsCloser`,
`SealGetsCloser`). Only the two loops of a schedule go back to an earlier label, and a
turn of theirs takes 1024 bytes off the rest. So no schedule has a loop that does not
get on, and no call takes more than its length and 12 steps.

How the modules fit. A module that stands for another is right only if each keeps what
the other assumes, and two seams are proved on both sides. Below, `OpenCallsKernels` and
`SealCallsKernels` say that each data call of a schedule is a `RightCall`: `Callable` by
its entry, of the bytes that follow those written, and from a counter that gives block i
of the call the counter of that block of the record, wrapping or not. (The other call is
for the key block alone, 64 bytes from counter zero. The kernels that run ChaCha20 and
Poly1305 together have no entry in `ChaChaKernels`; `Stored` says what they write.) With
`StreamInOrder` and `StreamWritten` of the entry, whatever the processor and the length
select inside, the bytes are then those `Emit` takes them for. It needs one fact more
than `IInv`: the two-pass schedules hold a range and at most two blocks (`Residue`). Above,
`ApiRunsRecord` says that the AVX-512 path of the C interface enters the kernels as
`AeadRecord` starts and then takes only its steps; `OpenRefinesRecord` and
`SealRefinesRecord` are the other side.

`KeyBlockIsApart` is about the limit nobody tests. In a record of at most
64 (2^32 - 1) bytes no byte is encrypted under counter zero, whose keystream is the
Poly1305 key, and no two blocks share a counter; in any longer one some byte is. `seal`
and `open` take such a length, and every theorem here covers it: a counter that wraps is
in order, but no longer unique.

A ChaCha20 call. `IInv` relates each counter the code keeps to the offset in the
stream (`CounterInv`), the caller's block to it (`CallerInv`), and the number of
passes of a stitched kernel to what is written (`PassInv`). `RefusedBy9x` and
`RefusedBy17x` are about the formula alone: for *every* length above a block the
shift-and-add in the dispatcher refuses exactly the calls in which the stitched
kernel would make no fewer passes, none above 3584 or 15360 bytes. (The AEAD never
calls 17x with lengths that large; the theorem holds for all.) `StitchedSaves` puts
the two together. `ChaChaGetsCloser` is the same measure as for a record: bytes left
to write plus the rank of the label. The dispatchers, which jump into each other on
tests of length and processor of their own, only go down; the one way up is
from the 32-lane kernel to the residue after a pass, which has written 2048 bytes.

The context. `IInv` says that between the steps of an update the counter is that of
the first block not buffered, and that the bytes of the buffer not used are those the
stream needs next. `ContextRefinesStream` is the safety part of `ImplementsStream`.

The portable Poly1305. `TypeOK` is inductive: if four limbs are below the radix and
one less than 63 above it, a column of five products is below 4096 radix^2, its carry
below 64 radix, and five times the last carry leaves limb 1 with at most 62 more. The
products are not linear, and are bounded one by one (each factor by its own bound)
before anything is added. `PolyBlocksMultiply`: the value of the limbs after a block
is congruent modulo the prime to (accumulator + block) * r, by summing the five
columns and cancelling the carries. `PolyFullyReduced`: what finish packs is below the
prime.

`PolyImplementsPoly1305` puts them together, and needs more. `Poly1305` works in
numbers: it multiplies modulo the prime one digit at a time (`ShiftIn`), because TLC
could not hold the whole product. `ModProductValue` shows that this is the product
modulo the prime: a digit shifted in keeps the congruence (`ShiftInCarries`), and the
columns of digits sum to the product (`ColumnsMultiply`, an identity of polynomials).
A number below the prime congruent to another is its remainder (`OneRemainder`), so
that after every turn of the loop the value of the limbs modulo the prime *is* the
accumulator (`AbsorbedIsTaken`). At the end the value finish packs is the remainder
(`FinalValue`), its four words are those of the number cut to 128 bits
(`PackedValue`), and the pad is added as the abstract specification adds it
(`CloseIsFinish`).

The C interface. `IInv` says that until a call returns only the record's own bytes at
out have been written, and that the lengths tested on entry leave room for the tag;
the arithmetic of the wrap is `WrapShows`. `TagInv` adds that what has been
authenticated is the front of the message, and that an open in place has overwritten
nothing behind it; it needs `TagInputIsLayout`: the buffer of `poly1305_update`, for
pieces of any length, gives `poly1305_blocks` the padded associated data, the padded
ciphertext and the lengths, and ends empty.

`ApiOpensWhatWasSealed` follows a record from one end to the other. `CarryInv` says
what each half leaves for the next: `SealedAs`, that the wire holds the ciphertext and
the tag of what was sealed, byte by byte; `Origin`, that what was sealed is the
plaintext; `Delivered`, that an open is given that record, or one that differs in the
associated data, the nonce, the length or one byte; `Halfway`, what a call has done to
the buffer it writes between two steps. With
`TagInv` it says what the comparison compares. A tag is its inputs, so the theorem is
about the interface and not about the strength of Poly1305: whatever the lengths, by
whichever path each end went, equal inputs reach the comparison exactly for an intact
record, and then the bytes at out are the plaintext. It needs that the formal sum of
keystream and ciphertext takes the keystream off again (a byte is the set of its
terms) and that the parts of a byte differ (`Atoms`).

Detection. What every detection stores is a subset of what the processor has, the
same each time, and a decision to run AVX-512 is founded on the words of the library
or on OpenSSL's: so any mixture of old and new values is a set of instructions the
processor has.

`DispatchSwitchHolds` is about more than one thread at a time. `SwitchHolds` speaks of
the moments in which nobody is in the switch, and is not inductive: `SwitchInv` adds
that until the constructor has run one thread at most is in the library
(`OneThreadFirst`), that afterwards a detection can only be one that
`set_avx512_enabled(1)` asked for, that whoever is in the switch is who it is held by
unless two have met there (`SwitchHeld`), and what such a detection has still to
store (`AnswerKept`).

`DispatchWordsSettle` is about loads that follow one another: a word that has been
filled never changes. Its invariant (`WordsOfOne`) is that the words have one writer:
without OpenSSL every detection stores the same values, and with it no detection has a
store of a word to make. If both wrote, a Skylake-X would show AVX-512F to one load
and hide it from the next.

Only model-checked: what rests on fairness, which is out of reach of the provers
(`EveryCallReturns`, and in `ImplementsRecord` and `ImplementsStream` that a call
finishes; the measures above are the part of it that needs no fairness), and the
probes: the loops of `RunsAtItsWidth` are data, up to 192 instructions each, and what
they take is a computation along the trace, on which `NeverOverstates` rests.

## 5. Where code and documentation differ

* `aead512.pl:1312` gives 1152 as the bound of the seal's 17-block tail; the code
  leaves the loop for it only up to 1088, what 17 blocks are (`tail17_comment`). The
  code is right.
* `src/README.md:273` says leftovers of at most 768 bytes are finished by the scalar
  Poly1305. In the seal the code that does so cannot be reached: every suffix goes to
  the IFMA routines (`scalar_suffix`).
* `src/README.md:151` gives the test with which the dispatch bypasses the stitched
  kernels as `len >= 512 * ((len - 1) >> 6) + 65`, which no length above a block
  meets; the code has `576 * ((len - 1) >> 9) + 65` (`bypass_formula`).
* `chacha20poly1305.h:73` says of `set_avx512_enabled` that it "Forces portable
  fallback when enabled is 0." `init_ctor` detects unconditionally, where every other
  caller goes through `ensure_ready`; a call from a constructor that runs before it is
  undone (`early_disable`).

Met on the way, and not contradicted by any statement of the repository:

* `set_avx512_enabled(0)` changes `g_avx512` only. The portable AEAD still encrypts
  with `ChaCha20_ctr32`, which reads `OPENSSL_ia32cap_P` and keeps using AVX-512.
* With `CHACHA20_USE_OPENSSL_CAP` the masking of AVX-512F on Skylake-X is computed and
  dropped, and AVX-512 is off for good if `init_ctor` runs before OpenSSL's setup.
* `tools/bench/bench_ctr32_sweep.c` has a detection of its own, without that masking.
* A probe whose seven samples all fail prints a rate of 0.00, not an error.

## 6. What is not modelled

* The arithmetic of the assembly: ChaCha20 rounds, multiplication in 44- and 52-bit
  limbs. A block is its counter, an accumulator what it is the hash of. That the
  kernels compute those functions is for known-answer tests.
* The bytes of the portable Poly1305: `ld32`, `st32`, clamping. `PortableMac` has the
  order of the bytes, `PortablePoly1305` the numbers they stand for.
* The instruction schedules of the kernels, register allocation, ABI and constant
  time (`ct_eq16` is modelled for what it compares).
* Wiping of keys and temporaries (`memset` of `d`, `pk`, `tag`, `k`): a compiler may
  drop it, and nothing reads them again.
* Buffers that overlap without being equal, which the library does not promise.
* A limit on the length of a record, which the API does not have: from 2^32 blocks on
  the counter reaches zero again (`KeyBlockIsApart`; `PROJECT.json`, hazards).
* Whether the operating system saves the registers AVX-512 needs: `detect` does not
  ask either.
* Benchmarks (`tools/bench`), `trace_dispatch.c`, `kernel_ipc.c`, tests, report
  scripts, build: straight-line drivers that time or compare calls of the library and
  keep no state of it.
  The setup of the cycle counter (`vendor/bench_perf.h`); what its `bench_perf_stop`
  fails on, a short read or a count of zero, is the failed sample of `ProbeLoops`.
  Vendored libraries.

## 7. Plan

The order was by what a mistake would cost and a test would miss. Done:

1. `FusedKernels`, `AeadRecord`, `Open512`, `Seal512`: the schedules of a record,
   with all their safety properties proved.
2. `ChaChaKernels`: the dispatch and hand-overs of a ChaCha20 call, proved, and that
   the schedules call it as it needs.
3. `SealClaims`, `ChaChaClaims`: what the documentation says otherwise.
4. `CipherStream`, `ChaChaContext`: the streaming interface, proved.
5. `Poly1305`, `PortablePoly1305`: limbs and carries of the portable Poly1305, proved
   to be Poly1305.
6. `PortableMac`, `AeadApi`: the C interface over both paths, its three invariants
   and what a round trip gives proved, and that its AVX-512 path is `AeadRecord`.
7. `ApiDispatch`: detection, constructors, switch, threads, proved.
8. `ProbeLoops`: what the issue probes measure.

Left:

1. The 44-bit powers of `poly1305_pow.S` between reductions, as `PortablePoly1305`
   does it for 26 bits.
2. How the IFMA routines split a suffix into batches, single blocks and a padded rest,
   and which power each lane needs.
