----------------------------- MODULE ApiDispatch -----------------------------
(***************************************************************************)
(* Which code a call runs (src/chacha20poly1305.c): the constructor, the   *)
(* detection of the processor, the switch of                               *)
(* chacha20_poly1305_set_avx512_enabled, and the calls that read what they *)
(* leave in the globals, from any number of threads.                       *)
(*                                                                         *)
(* The globals are plain objects.  A detection computes its values first   *)
(* and then makes its stores in any order, as the compiler may, with the   *)
(* steps of other threads in between.  The stores of one thread are seen   *)
(* by itself.  Only the bits that choose a kernel are modelled; "bit11" is *)
(* XOP on AMD and something else on Intel.                                 *)
(***************************************************************************)
EXTENDS Integers, FiniteSets

CONSTANTS
  Threads,
  Processors,    \* what CPUID reports, see ProcessorAssumption
  MaxCalls       \* bound: calls a thread makes

Word1 == {"bit11", "ssse3"}
Word2 == {"avx2", "bmi2", "avx512f", "adx", "ifma", "bw", "avx512vl"}

\* The bits g_avx512 stands for.
Need == {"avx2", "bmi2", "avx512f", "ifma", "bw", "avx512vl"}

ASSUME ProcessorAssumption ==
  /\ \A p \in Processors :
       p \in [amd : BOOLEAN,              \* vendor string of leaf 0
              skylakex : BOOLEAN,         \* signature 0x5065x of leaf 1
              leaf1 : SUBSET Word1,       \* ECX of leaf 1
              xop : BOOLEAN,              \* ECX bit 11 of leaf 0x80000001
              leaf7 : SUBSET Word2]       \* EBX of leaf 7
  /\ MaxCalls \in Nat

\* A thread is none of the positions of the switch.
ASSUME ThreadsAssumption == Threads \cap {"auto", "off", "off early", "contended"} = {}

VARIABLES
  cpu, openssl,         \* the processor; built with CHACHA20_USE_OPENSSL_CAP
  setup,                \* OpenSSL has filled OPENSSL_ia32cap_P
  loaded,               \* init_ctor has run: threads may start
  w1, w2,               \* OPENSSL_ia32cap_P[1] and [2]
  g_avx512, g_ready,
  pc, then,             \* of each thread; where a detection returns to
  stores, found,        \* stores a detection has yet to make; its g_avx512
  calls,                \* calls made by each thread
  used,                 \* instructions the kernel of the last call needed
  switch                \* what the last set_avx512_enabled left: "auto" (also before
                        \* any), "off", "off early" (before init_ctor), the thread
                        \* that is in one, or "contended" once two overlap

globals == <<w1, w2, g_avx512, g_ready>>
fixed == <<cpu, openssl>>
vars == <<fixed, setup, loaded, globals, pc, then, stores, found, calls, used, switch>>

\* Instructions the processor has: XOP is an AMD extension.
Has == cpu.leaf7 \cup (cpu.leaf1 \ {"bit11"}) \cup (IF cpu.amd /\ cpu.xop THEN {"xop"} ELSE {})

\* Fault: bit 11 of leaf 1 is taken for XOP.
LeafOneAsIs == cpu.leaf1 \cup (IF cpu.amd /\ cpu.xop THEN {"bit11"} ELSE {})

\* detect, word 1: bit 11 is XOP, from the extended leaf, on AMD only.
WordOne == (cpu.leaf1 \ {"bit11"}) \cup (IF cpu.amd /\ cpu.xop THEN {"bit11"} ELSE {})

\* detect, word 2: AVX-512F is hidden on Skylake-X.
WordTwo == cpu.leaf7 \ (IF cpu.skylakex THEN {"avx512f"} ELSE {})

-----------------------------------------------------------------------------
Init ==
  /\ cpu \in Processors /\ openssl \in BOOLEAN
  /\ setup = FALSE /\ loaded = FALSE
  /\ w1 = {} /\ w2 = {} /\ g_avx512 = FALSE /\ g_ready = FALSE
  /\ pc = [t \in Threads |-> "idle"] /\ then = [t \in Threads |-> "idle"]
  /\ stores = [t \in Threads |-> {}] /\ found = [t \in Threads |-> FALSE]
  /\ calls = [t \in Threads |-> 0]
  /\ used = [t \in Threads |-> {}]
  /\ switch = "auto"

Idle(t) == pc[t] = "idle"
Goto(t, to) == pc' = [pc EXCEPT ![t] = to]

\* The CPUID part of detect.  With OpenSSL's words only g_avx512 is computed, from
\* what is there now.
Detect(t, after) ==
  /\ Goto(t, "detect")
  /\ then' = [then EXCEPT ![t] = after]
  /\ stores' = [stores EXCEPT ![t] =
       (IF openssl THEN {} ELSE {"w1", "w2"}) \cup {"g_avx512", "g_ready"}]
  /\ found' = [found EXCEPT ![t] = Need \subseteq (IF openssl THEN w2 ELSE WordTwo)]
  /\ UNCHANGED <<globals, calls, used>>

\* One of its stores.
Store(t) ==
  /\ pc[t] = "detect"
  /\ \E x \in stores[t] :
       /\ stores' = [stores EXCEPT ![t] = @ \ {x}]
       /\ w1' = IF x = "w1" THEN WordOne ELSE w1
       /\ w2' = IF x = "w2" THEN WordTwo ELSE w2
       /\ g_avx512' = IF x = "g_avx512" THEN found[t] ELSE g_avx512
       /\ g_ready' = IF x = "g_ready" THEN TRUE ELSE g_ready
  /\ UNCHANGED <<fixed, setup, loaded, pc, then, found, calls, used, switch>>

Switching(t) == {pc[t], then[t]} \cap {"switch_off", "switch_on", "enabled"} # {}

\* A call of set_avx512_enabled no other overlaps decides the switch.
Decides(t, position) == switch' = IF switch = t THEN position ELSE "contended"

\* The constructor and set_avx512_enabled(1) end with the detection.
Detected(t) ==
  /\ pc[t] = "detect" /\ stores[t] = {}
  /\ Goto(t, IF then[t] \in {"ctor", "enabled"} THEN "idle" ELSE then[t])
  /\ then' = [then EXCEPT ![t] = "idle"]
  /\ loaded' = (loaded \/ then[t] = "ctor")
  /\ IF then[t] = "enabled" THEN Decides(t, "auto") ELSE UNCHANGED switch
  /\ UNCHANGED <<fixed, setup, globals, stores, found, calls, used>>

-----------------------------------------------------------------------------
\* Another constructor may call the library before init_ctor, on the only thread.
MayRun(t) == loaded \/ \A u \in Threads : Idle(u) /\ (u # t => calls[u] = 0)

\* Fault: every call detects again.
EnsureReadyAlways(t, after) == Detect(t, after)

\* ensure_ready
EnsureReady(t, after) ==
  IF g_ready
  THEN Goto(t, after) /\ UNCHANGED <<globals, then, stores, found, calls, used>>
  ELSE Detect(t, after)

\* init_ctor: detects whether or not that was done.
InitCtor(t) ==
  /\ ~loaded /\ MayRun(t) /\ then[t] # "ctor"
  /\ Detect(t, "ctor")
  /\ UNCHANGED <<fixed, setup, loaded, switch>>

\* OPENSSL_cpuid_setup, from a constructor of libcrypto.
OpenSSLSetup ==
  /\ openssl /\ ~setup /\ setup' = TRUE
  /\ w1' = WordOne /\ w2' = cpu.leaf7
  /\ UNCHANGED <<fixed, loaded, g_avx512, g_ready, pc, then, stores, found, calls, used, switch>>

\* A call: of set_avx512_enabled, of CRYPTO_chacha_20, or of seal or open.
Call(t) ==
  /\ Idle(t) /\ MayRun(t) /\ calls[t] < MaxCalls
  /\ pc' = [pc EXCEPT ![t] = "called"]
  /\ calls' = [calls EXCEPT ![t] = @ + 1]
  /\ UNCHANGED <<fixed, setup, loaded, globals, then, stores, found, used, switch>>

Enter(t) ==
  /\ pc[t] = "called"
  /\ \/ /\ \E after \in {"switch_off", "switch_on"} : EnsureReady(t, after)
        /\ switch' = IF \E u \in Threads \ {t} : Switching(u) THEN "contended" ELSE t
     \/ /\ \E after \in {"chacha", "aead"} : EnsureReady(t, after)
        /\ UNCHANGED switch
  /\ UNCHANGED <<fixed, setup, loaded>>

\* set_avx512_enabled(0)
SwitchOff(t) ==
  /\ pc[t] = "switch_off" /\ Goto(t, "idle")
  /\ g_avx512' = FALSE
  /\ Decides(t, IF loaded THEN "off" ELSE "off early")
  /\ UNCHANGED <<fixed, setup, loaded, w1, w2, g_ready, then, stores, found, calls, used>>

\* set_avx512_enabled(1)
SwitchOn(t) ==
  /\ pc[t] = "switch_on"
  /\ Detect(t, "enabled")
  /\ UNCHANGED <<fixed, setup, loaded, switch>>

\* What the kernel needs that ChaCha20_ctr32 chooses by one load of both words.
\* ChaCha20_32x, which that load has to find AVX-512F for, loads the second word again
\* to choose the kernel of its residue: the same word, by WordsSettle.
Chosen ==
  CASE "avx512f" \in w2  -> {"avx512f"}
    [] "avx512f" \notin w2 /\ "avx512vl" \in w2 -> {"avx512vl"}
    [] {"avx512f", "avx512vl"} \cap w2 = {} /\ "ssse3" \notin w1 -> {}
    [] {"avx512f", "avx512vl"} \cap w2 = {} /\ "ssse3" \in w1 ->
         {"ssse3"} \cup (IF "bit11" \in w1 THEN {"xop"} ELSE w2 \cap {"avx2"})

ChaCha(t) ==
  /\ pc[t] = "chacha" /\ Goto(t, "idle")
  /\ used' = [used EXCEPT ![t] = Chosen]
  /\ UNCHANGED <<fixed, setup, loaded, globals, then, stores, found, calls, switch>>

\* seal_scatter and open_gather: the kernels, or the portable path, which ends in
\* ChaCha20_ctr32 as well.
Aead(t) ==
  /\ pc[t] = "aead"
  /\ IF g_avx512
     THEN Goto(t, "idle") /\ used' = [used EXCEPT ![t] = Need]
     ELSE Goto(t, "chacha") /\ UNCHANGED used
  /\ UNCHANGED <<fixed, setup, loaded, globals, then, stores, found, calls, switch>>

Next ==
  \/ OpenSSLSetup
  \/ \E t \in Threads :
       \/ InitCtor(t) \/ Store(t) \/ Detected(t)
       \/ Call(t) \/ Enter(t) \/ SwitchOff(t) \/ SwitchOn(t) \/ ChaCha(t) \/ Aead(t)

Spec == Init /\ [][Next]_vars

-----------------------------------------------------------------------------
(***************************************************************************)
(* Properties.                                                             *)
(***************************************************************************)

\* No call runs a kernel the processor has no instructions for, however its reads
\* of the globals fall between the stores of a detection.
NeverUnsupported == \A t \in Threads : used[t] \subseteq Has

\* Once the library is loaded the switch keeps its last position: off until it is
\* turned on again, and the answer of the processor when it is on.
SwitchHolds ==
  /\ switch = "off" => ~g_avx512
  /\ loaded /\ switch = "auto" /\ ~openssl => g_avx512 = (Need \subseteq WordTwo)

\* A word of OPENSSL_ia32cap_P that has been filled is never changed, by whichever
\* detections store it again: ChaCha20_32x loads the second word a second time and
\* must find in it what ChaCha20_ctr32 did.
WordsSettle == [][(w1 # {} => w1' = w1) /\ (w2 # {} => w2' = w2)]_vars

\* chacha20poly1305.h:73, "Forces portable fallback when enabled is 0.": a call of
\* set_avx512_enabled(0) that nothing has taken back is in force.
DisableForcesPortable == switch \in {"off", "off early"} => ~g_avx512
=============================================================================
