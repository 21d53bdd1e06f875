-------------------------- MODULE ApiDispatchProofs --------------------------
(***************************************************************************)
(* The choice of the code a call runs, for any processors, any number of   *)
(* threads and of calls: no call runs an instruction the processor lacks,  *)
(* the switch keeps the position it was last put in, and the words of the  *)
(* processor, once filled, stay what they are.                             *)
(***************************************************************************)
EXTENDS ApiDispatch, TLAPS

\* What the words of OPENSSL_ia32cap_P may hold: nothing yet, what detect finds, or
\* what OpenSSL finds, which does not hide AVX-512F.
WordsAsFound ==
  /\ w1 \in {{}, WordOne}
  /\ w2 \in {{}, WordTwo, cpu.leaf7}

\* Whoever decides that the AVX-512 kernels can run has seen their bits, and so has a
\* detection that is yet to store its decision.
DecisionsFounded ==
  /\ g_avx512 => Need \subseteq cpu.leaf7
  /\ \A t \in Threads : found[t] => Need \subseteq cpu.leaf7

Shape ==
  /\ cpu \in Processors
  /\ \A t \in Threads : t \in DOMAIN found /\ t \in DOMAIN used /\ found[t] \in BOOLEAN
  /\ g_avx512 \in BOOLEAN

IInv == Shape /\ WordsAsFound /\ DecisionsFounded /\ NeverUnsupported

-----------------------------------------------------------------------------
(***************************************************************************)
(* What a processor reports is what it has.                                *)
(***************************************************************************)
LEMMA CpuShape ==
  ASSUME cpu \in Processors
  PROVE  /\ cpu.leaf1 \subseteq Word1 /\ cpu.leaf7 \subseteq Word2
         /\ cpu.amd \in BOOLEAN /\ cpu.xop \in BOOLEAN
  BY ProcessorAssumption

LEMMA WordTwoHeld ==
  ASSUME cpu \in Processors, w2 \in {{}, WordTwo, cpu.leaf7}
  PROVE  w2 \subseteq cpu.leaf7
  BY DEF WordTwo

\* Bit 11 is in the first word only where it stands for XOP.
LEMMA WordOneHeld ==
  ASSUME cpu \in Processors, w1 \in {{}, WordOne}
  PROVE  /\ "ssse3" \in w1 => "ssse3" \in Has
         /\ "bit11" \in w1 => "xop" \in Has
  BY CpuShape DEF WordOne, Has, Word1

\* So the kernel ChaCha20_ctr32 chooses can run.
LEMMA ChosenRuns ==
  ASSUME cpu \in Processors, WordsAsFound
  PROVE  Chosen \subseteq Has
<1>1. w2 \subseteq cpu.leaf7 /\ cpu.leaf7 \subseteq Has
  BY WordTwoHeld DEF WordsAsFound, Has
<1>2. ("ssse3" \in w1 => "ssse3" \in Has) /\ ("bit11" \in w1 => "xop" \in Has)
  BY WordOneHeld DEF WordsAsFound
<1>3. CASE "avx512f" \in w2
  BY <1>1, <1>3 DEF Chosen
<1>4. CASE "avx512f" \notin w2 /\ "avx512vl" \in w2
  BY <1>1, <1>4 DEF Chosen
<1>5. CASE {"avx512f", "avx512vl"} \cap w2 = {} /\ "ssse3" \notin w1
  BY <1>5 DEF Chosen
<1>6. CASE {"avx512f", "avx512vl"} \cap w2 = {} /\ "ssse3" \in w1
  <2>1. Chosen = {"ssse3"} \cup (IF "bit11" \in w1 THEN {"xop"} ELSE w2 \cap {"avx2"})
    BY <1>6 DEF Chosen
  <2> QED BY <2>1, <1>1, <1>2, <1>6
<1> QED BY <1>3, <1>4, <1>5, <1>6

-----------------------------------------------------------------------------
LEMMA InitIInv == Init => IInv
  BY DEF Init, IInv, Shape, WordsAsFound, DecisionsFounded, NeverUnsupported

\* A detection decides on bits the processor has.
LEMMA DetectKeeps ==
  ASSUME IInv, NEW t \in Threads, NEW after, Detect(t, after),
         UNCHANGED <<cpu, openssl>>
  PROVE  IInv'
<1>1. w2 \subseteq cpu.leaf7 /\ WordTwo \subseteq cpu.leaf7
  BY WordTwoHeld DEF IInv, Shape, WordsAsFound, WordTwo
<1>2. \A u \in Threads : found'[u] => Need \subseteq cpu.leaf7
  BY <1>1 DEF Detect, IInv, Shape, DecisionsFounded
<1>3. DecisionsFounded'
  BY <1>2 DEF Detect, globals, IInv, DecisionsFounded
<1>4. Shape'
  BY DEF Detect, globals, IInv, Shape
<1>5. WordsAsFound'
  BY DEF Detect, globals, IInv, WordsAsFound, WordOne, WordTwo
<1>6. NeverUnsupported'
  BY DEF Detect, IInv, NeverUnsupported, Has
<1> QED BY <1>3, <1>4, <1>5, <1>6 DEF IInv

\* Each store is of something found.
LEMMA StoreKeeps ==
  ASSUME IInv, NEW t \in Threads, Store(t)
  PROVE  IInv'
<1>1. PICK x \in stores[t] :
        /\ w1' = IF x = "w1" THEN WordOne ELSE w1
        /\ w2' = IF x = "w2" THEN WordTwo ELSE w2
        /\ g_avx512' = IF x = "g_avx512" THEN found[t] ELSE g_avx512
  BY DEF Store
<1>2. cpu' = cpu /\ found' = found /\ used' = used
  BY DEF Store, fixed
<1>3. found[t] \in BOOLEAN
  BY DEF IInv, Shape
<1>4. Shape'
  BY <1>1, <1>2, <1>3 DEF IInv, Shape
<1>5. WordsAsFound'
  BY <1>1, <1>2 DEF IInv, WordsAsFound, WordOne, WordTwo
<1>6. DecisionsFounded'
  BY <1>1, <1>2 DEF IInv, DecisionsFounded
<1>7. NeverUnsupported'
  BY <1>2 DEF IInv, NeverUnsupported, Has
<1> QED BY <1>4, <1>5, <1>6, <1>7 DEF IInv

\* A step that leaves words and decisions alone, but for the switch turned off, and
\* runs nothing.
LEMMA QuietKeeps ==
  ASSUME IInv, UNCHANGED <<cpu, w1, w2, found, used>>, g_avx512' \in {g_avx512, FALSE}
  PROVE  IInv'
<1>1. Shape'
  BY DEF IInv, Shape
<1>2. WordsAsFound'
  BY DEF IInv, WordsAsFound, WordOne, WordTwo
<1>3. DecisionsFounded'
  <2>1. CASE g_avx512' = g_avx512
    BY <2>1 DEF IInv, DecisionsFounded
  <2>2. CASE g_avx512' = FALSE
    BY <2>2 DEF IInv, DecisionsFounded
  <2> QED BY <2>1, <2>2
<1>4. NeverUnsupported'
  BY DEF IInv, NeverUnsupported, Has
<1> QED BY <1>1, <1>2, <1>3, <1>4 DEF IInv

LEMMA EnsureReadyKeeps ==
  ASSUME IInv, NEW t \in Threads, NEW after, EnsureReady(t, after), UNCHANGED <<cpu, openssl>>
  PROVE  IInv'
<1>1. CASE g_ready
  BY <1>1, QuietKeeps DEF EnsureReady, globals
<1>2. CASE ~g_ready
  BY <1>2, DetectKeeps DEF EnsureReady
<1> QED BY <1>1, <1>2

\* What a call runs.
LEMMA UsesKeeps ==
  ASSUME IInv, NEW t \in Threads, NEW what, what \subseteq Has,
         used' = [used EXCEPT ![t] = what], UNCHANGED <<cpu, w1, w2, found, g_avx512>>
  PROVE  IInv'
<1>1. NeverUnsupported'
  BY DEF IInv, Shape, NeverUnsupported, Has
<1> QED BY <1>1 DEF IInv, Shape, WordsAsFound, DecisionsFounded, WordOne, WordTwo

LEMMA OpenSSLSetupKeeps == IInv /\ OpenSSLSetup => IInv'
  BY DEF OpenSSLSetup, fixed, IInv, Shape, WordsAsFound, DecisionsFounded, NeverUnsupported,
         WordOne, WordTwo, Has

LEMMA AeadKeeps == ASSUME IInv, NEW t \in Threads, Aead(t) PROVE IInv'
<1>1. CASE g_avx512
  <2>1. Need \subseteq Has
    BY <1>1 DEF IInv, DecisionsFounded, Has
  <2> QED BY <2>1, <1>1, UsesKeeps DEF Aead, fixed, globals
<1>2. CASE ~g_avx512
  BY <1>2, QuietKeeps DEF Aead, fixed, globals
<1> QED BY <1>1, <1>2

LEMMA ChaChaKeeps == ASSUME IInv, NEW t \in Threads, ChaCha(t) PROVE IInv'
<1>1. Chosen \subseteq Has
  BY ChosenRuns DEF IInv, Shape
<1> QED BY <1>1, UsesKeeps DEF ChaCha, fixed, globals

LEMMA NextKeepsIInv == IInv /\ [Next]_vars => IInv'
<1> SUFFICES ASSUME IInv, [Next]_vars PROVE IInv'
  OBVIOUS
<1>1. CASE UNCHANGED vars
  BY <1>1, QuietKeeps DEF vars, fixed, globals
<1>2. CASE OpenSSLSetup
  BY <1>2, OpenSSLSetupKeeps
<1>3. ASSUME NEW t \in Threads,
             \/ InitCtor(t) \/ Store(t) \/ Detected(t)
             \/ Call(t) \/ Enter(t) \/ SwitchOff(t) \/ SwitchOn(t) \/ ChaCha(t) \/ Aead(t)
      PROVE  IInv'
  <2>1. CASE InitCtor(t)
    BY <2>1, DetectKeeps DEF InitCtor, fixed
  <2>2. CASE Store(t)
    BY <2>2, StoreKeeps
  <2>3. CASE Detected(t)
    BY <2>3, QuietKeeps DEF Detected, fixed, globals
  <2>4. CASE Call(t)
    BY <2>4, QuietKeeps DEF Call, fixed, globals
  <2>5. CASE Enter(t)
    <3>1. PICK after : EnsureReady(t, after)
      BY <2>5 DEF Enter
    <3> QED BY <3>1, <2>5, EnsureReadyKeeps DEF Enter, fixed
  <2>6. CASE SwitchOff(t)
    BY <2>6, QuietKeeps DEF SwitchOff, fixed
  <2>7. CASE SwitchOn(t)
    BY <2>7, DetectKeeps DEF SwitchOn, fixed
  <2> QED BY <1>3, <2>1, <2>2, <2>3, <2>4, <2>5, <2>6, <2>7, ChaChaKeeps, AeadKeeps
<1> QED BY <1>1, <1>2, <1>3 DEF Next

-----------------------------------------------------------------------------
\* However the stores of detections, of the switch and of OpenSSL fall between the
\* reads of other threads, and whether or not the constructor ran first, no call runs
\* a kernel with an instruction the processor does not have.
THEOREM DispatchNeverUnsupported == Spec => []NeverUnsupported
<1>1. IInv => NeverUnsupported
  BY DEF IInv
<1> QED BY <1>1, InitIInv, NextKeepsIInv, PTL DEF Spec

-----------------------------------------------------------------------------
(***************************************************************************)
(* The switch: once the library is loaded it keeps its last position.      *)
(***************************************************************************)
\* Where a thread is: it detects exactly while it has somewhere to return to, and has
\* stores to make only then.
Places ==
  /\ pc \in [Threads -> {"idle", "called", "detect", "switch_off", "switch_on",
                         "chacha", "aead"}]
  /\ then \in [Threads -> {"idle", "ctor", "enabled", "switch_off", "switch_on",
                           "chacha", "aead"}]
  /\ stores \in [Threads -> SUBSET {"w1", "w2", "g_avx512", "g_ready"}]
  /\ found \in [Threads -> BOOLEAN]
  /\ \A t \in Threads :
       /\ pc[t] = "detect" <=> then[t] # "idle"
       /\ pc[t] # "detect" => stores[t] = {}

\* Until init_ctor has run one thread at most is in the library.  Afterwards nothing
\* detects but set_avx512_enabled(1): a detection is over when g_ready has been stored.
OneThreadFirst ==
  /\ \A t, u \in Threads : ~loaded /\ t # u => Idle(t) \/ Idle(u)
  /\ loaded => g_ready /\ \A t \in Threads : pc[t] = "detect" => then[t] = "enabled"
  /\ \A t \in Threads : pc[t] = "detect" /\ "g_ready" \notin stores[t] => g_ready

\* Who is in set_avx512_enabled has the switch, unless it is contended.
SwitchHeld ==
  /\ \A t \in Threads : Switching(t) => switch \in {t, "contended"}
  /\ switch = "off" => loaded

\* A detection nobody interferes with leaves the processor's answer once stored.
AnswerKept ==
  ~openssl =>
    \A t \in Threads : pc[t] = "detect" =>
      /\ found[t] = (Need \subseteq WordTwo)
      /\ "g_avx512" \notin stores[t] /\ (~loaded \/ switch = t) =>
           g_avx512 = (Need \subseteq WordTwo)

\* SwitchHolds speaks of the moments when nobody is in the switch; the rest says what
\* whoever is in it will leave.
SwitchInv == Places /\ OneThreadFirst /\ SwitchHeld /\ AnswerKept /\ SwitchHolds

LEMMA InitSwitch == Init => SwitchInv
  BY DEF Init, SwitchInv, Places, OneThreadFirst, SwitchHeld, AnswerKept, SwitchHolds, Idle,
         Switching

\* Before init_ctor has run, a thread that may start has the library to itself, and so
\* has one that has started.
LEMMA AloneFirst ==
  ASSUME SwitchInv, ~loaded, NEW t \in Threads, MayRun(t) \/ ~Idle(t)
  PROVE  \A u \in Threads : u # t => pc[u] = "idle" /\ then[u] = "idle" /\ stores[u] = {}
  BY DEF SwitchInv, Places, OneThreadFirst, MayRun, Idle

\* One step of one thread.
Step(t) ==
  \/ InitCtor(t) \/ Store(t) \/ Detected(t)
  \/ Call(t) \/ Enter(t) \/ SwitchOff(t) \/ SwitchOn(t) \/ ChaCha(t) \/ Aead(t)

LEMMA PlacesKept == ASSUME SwitchInv, NEW t \in Threads, Step(t) PROVE Places'
<1>1. Places
  BY DEF SwitchInv
<1>2. CASE InitCtor(t)
  BY <1>1, <1>2 DEF Places, InitCtor, Detect, Goto
<1>3. CASE Store(t)
  BY <1>1, <1>3 DEF Places, Store
<1>4. CASE Detected(t)
  BY <1>1, <1>4 DEF Places, Detected, Goto
<1>5. CASE Call(t)
  BY <1>1, <1>5 DEF Places, Call, Idle
<1>6. CASE Enter(t)
  <2>1. PICK after \in {"switch_off", "switch_on", "chacha", "aead"} :
          pc[t] = "called" /\ EnsureReady(t, after)
    BY <1>6 DEF Enter
  <2>2. CASE g_ready
    BY <1>1, <2>1, <2>2 DEF Places, EnsureReady, Goto
  <2>3. CASE ~g_ready
    <3>1. Detect(t, after)
      BY <2>1, <2>3 DEF EnsureReady
    <3>2. pc' \in [Threads -> {"idle", "called", "detect", "switch_off", "switch_on",
                              "chacha", "aead"}]
      BY <1>1, <3>1 DEF Places, Detect, Goto
    <3>3. then' \in [Threads -> {"idle", "ctor", "enabled", "switch_off", "switch_on",
                                "chacha", "aead"}]
      BY <1>1, <2>1, <3>1 DEF Places, Detect
    <3>4. stores' \in [Threads -> SUBSET {"w1", "w2", "g_avx512", "g_ready"}]
      BY <1>1, <3>1 DEF Places, Detect
    <3>5. found' \in [Threads -> BOOLEAN]
      BY <1>1, <3>1 DEF Places, Detect
    <3>6. \A u \in Threads : /\ pc'[u] = "detect" <=> then'[u] # "idle"
                             /\ pc'[u] # "detect" => stores'[u] = {}
      BY <1>1, <2>1, <3>1 DEF Places, Detect, Goto
    <3> QED BY <3>2, <3>3, <3>4, <3>5, <3>6 DEF Places
  <2> QED BY <2>2, <2>3
<1>7. CASE SwitchOn(t)
  BY <1>1, <1>7 DEF Places, SwitchOn, Detect, Goto
<1>8. CASE SwitchOff(t) \/ ChaCha(t) \/ Aead(t)
  BY <1>1, <1>8, ZenonT(60) DEF Places, SwitchOff, ChaCha, Aead, Goto
<1> QED BY <1>2, <1>3, <1>4, <1>5, <1>6, <1>7, <1>8 DEF Step

LEMMA OneThreadKept == ASSUME SwitchInv, NEW t \in Threads, Step(t) PROVE OneThreadFirst'
<1> USE DEF OneThreadFirst, Idle
<1>1. Places /\ OneThreadFirst /\ Places'
  BY PlacesKept DEF SwitchInv
<1>0. ~loaded => \A u \in Threads : u # t => pc[u] = "idle" /\ then[u] = "idle"
  BY AloneFirst DEF Step, InitCtor, Call, Store, Detected, Enter, SwitchOff, SwitchOn, ChaCha, Aead
<1>2. CASE InitCtor(t)
  BY <1>0, <1>1, <1>2 DEF Places, InitCtor, Detect, Goto
<1>3. CASE Store(t)
  BY <1>0, <1>1, <1>3 DEF Places, Store
<1>4. CASE Detected(t)
  <2>1. /\ pc[t] = "detect" /\ stores[t] = {} /\ g_ready' = g_ready /\ stores' = stores
        /\ pc' = [pc EXCEPT ![t] = IF then[t] \in {"ctor", "enabled"} THEN "idle" ELSE then[t]]
        /\ then' = [then EXCEPT ![t] = "idle"]
        /\ loaded' = (loaded \/ then[t] = "ctor")
    BY <1>4 DEF Detected, Goto, globals
  <2>2. g_ready /\ pc'[t] # "detect"
    BY <1>1, <2>1 DEF Places
  <2>3. \A u \in Threads : u # t => pc'[u] = pc[u] /\ then'[u] = then[u]
    BY <1>1, <2>1 DEF Places
  <2>4. \A u, v \in Threads : ~loaded' /\ u # v => Idle(u)' \/ Idle(v)'
    BY <1>0, <2>1, <2>3
  <2>5. \A u \in Threads : loaded' /\ pc'[u] = "detect" => then'[u] = "enabled"
    BY <1>0, <1>1, <2>1, <2>2, <2>3
  <2> QED BY <2>1, <2>2, <2>4, <2>5
<1>5. CASE Call(t)
  BY <1>0, <1>1, <1>5 DEF Places, Call, globals
<1>6. CASE Enter(t)
  BY <1>0, <1>1, <1>6 DEF Places, Enter, EnsureReady, Detect, Goto, globals
<1>7. CASE SwitchOn(t)
  BY <1>0, <1>1, <1>7 DEF Places, SwitchOn, Detect, Goto, globals
<1>8. CASE SwitchOff(t) \/ ChaCha(t) \/ Aead(t)
  <2>1. /\ loaded' = loaded /\ g_ready' = g_ready /\ stores' = stores /\ then' = then
        /\ pc[t] # "detect" /\ pc[t] # "idle"
        /\ \E to \in {"idle", "chacha"} : pc' = [pc EXCEPT ![t] = to]
    BY <1>8 DEF SwitchOff, ChaCha, Aead, Goto, globals
  <2>2. pc'[t] # "detect" /\ \A u \in Threads : u # t => pc'[u] = pc[u]
    BY <1>1, <2>1 DEF Places
  <2> QED BY <1>0, <1>1, <2>1, <2>2
<1> QED BY <1>2, <1>3, <1>4, <1>5, <1>6, <1>7, <1>8 DEF Step

InSwitch == {"switch_off", "switch_on", "enabled"}

LEMMA SwitchHeldKept == ASSUME SwitchInv, NEW t \in Threads, Step(t) PROVE SwitchHeld'
<1>1. Places /\ OneThreadFirst /\ Places' /\ SwitchHeld
  BY PlacesKept DEF SwitchInv
<1>2. /\ \A u \in Threads : Switching(u) <=> pc[u] \in InSwitch \/ then[u] \in InSwitch
      /\ \A u \in Threads : Switching(u)' <=> pc'[u] \in InSwitch \/ then'[u] \in InSwitch
  BY DEF Switching, InSwitch
<1>3. t \notin {"auto", "off", "off early", "contended"}
  BY ThreadsAssumption
\* The switch is as it was, and nobody entered it.
<1>4. CASE /\ switch' = switch /\ (loaded => loaded')
           /\ \A u \in Threads : Switching(u)' => Switching(u)
  BY <1>1, <1>4 DEF SwitchHeld
\* One thread leaves it.
<1>5. CASE \E position \in {"auto", "off", "off early"} :
             /\ Decides(t, position) /\ (position = "off" => loaded')
             /\ Switching(t) /\ ~Switching(t)' /\ (loaded => loaded')
             /\ \A u \in Threads : u # t => (Switching(u)' => Switching(u))
  BY <1>1, <1>3, <1>5 DEF SwitchHeld, Decides
\* One thread enters it.
<1>6. CASE /\ switch' = IF \E u \in Threads \ {t} : Switching(u) THEN "contended" ELSE t
           /\ \A u \in Threads : u # t => (Switching(u)' => Switching(u))
  BY <1>1, <1>3, <1>6 DEF SwitchHeld
<1>7. CASE InitCtor(t)
  <2>1. Switching(t)' => Switching(t)
    BY <1>1, <1>2, <1>7 DEF Places, InitCtor, Detect, Goto, InSwitch
  <2>2. \A u \in Threads : Switching(u)' => Switching(u)
    BY <1>1, <1>2, <1>7, <2>1 DEF Places, InitCtor, Detect, Goto
  <2> QED BY <1>4, <1>7, <2>2 DEF InitCtor
<1>8. CASE Store(t)
  BY <1>2, <1>4, <1>8 DEF Store
<1>9. CASE Detected(t)
  <2>1. /\ pc[t] = "detect" /\ (loaded => loaded')
        /\ pc' = [pc EXCEPT ![t] = IF then[t] \in {"ctor", "enabled"} THEN "idle" ELSE then[t]]
        /\ then' = [then EXCEPT ![t] = "idle"]
        /\ IF then[t] = "enabled" THEN Decides(t, "auto") ELSE UNCHANGED switch
    BY <1>9 DEF Detected, Goto
  <2>2. \A u \in Threads : u # t => (Switching(u)' => Switching(u))
    BY <1>1, <1>2, <2>1 DEF Places
  <2>3. Switching(t)' => Switching(t)
    BY <1>1, <1>2, <2>1 DEF Places, InSwitch
  <2>4. then[t] = "enabled" => Switching(t) /\ ~Switching(t)'
    BY <1>1, <1>2, <2>1 DEF Places, InSwitch
  <2>5. CASE then[t] = "enabled"
    BY <1>5, <2>1, <2>2, <2>4, <2>5
  <2>6. CASE then[t] # "enabled"
    BY <1>4, <2>1, <2>2, <2>3, <2>6
  <2> QED BY <2>5, <2>6
<1>10. CASE Call(t)
  <2>1. \A u \in Threads : Switching(u)' => Switching(u)
    BY <1>1, <1>2, <1>10 DEF Places, Call, Idle, InSwitch
  <2> QED BY <1>4, <1>10, <2>1 DEF Call
<1>11. CASE Enter(t)
  <2>1. /\ pc[t] = "called" /\ loaded' = loaded
        /\ \E after : EnsureReady(t, after)
    BY <1>11 DEF Enter
  <2>2. /\ \A u \in Threads : u # t => pc'[u] = pc[u] /\ then'[u] = then[u]
    BY <1>1, <2>1 DEF Places, EnsureReady, Detect, Goto
  <2>3. \A u \in Threads : u # t => (Switching(u)' => Switching(u))
    BY <1>2, <2>2
  <2>4. CASE switch' = IF \E u \in Threads \ {t} : Switching(u) THEN "contended" ELSE t
    BY <1>6, <2>3, <2>4
  <2>5. CASE \E after \in {"chacha", "aead"} : EnsureReady(t, after) /\ switch' = switch
    <3>1. ~Switching(t)'
      BY <1>1, <1>2, <2>1, <2>5 DEF Places, EnsureReady, Detect, Goto, InSwitch
    <3>2. \A u \in Threads : Switching(u)' => Switching(u)
      BY <2>3, <3>1
    <3> QED BY <1>4, <2>1, <2>5, <3>2
  <2> QED BY <1>11, <2>4, <2>5 DEF Enter
<1>12. CASE SwitchOff(t)
  <2>1. /\ Switching(t) /\ ~Switching(t)'
        /\ \A u \in Threads : u # t => (Switching(u)' => Switching(u))
    BY <1>1, <1>2, <1>12, ZenonT(60) DEF Places, SwitchOff, Goto, InSwitch
  <2>2. loaded' = loaded /\ Decides(t, IF loaded THEN "off" ELSE "off early")
    BY <1>12 DEF SwitchOff
  <2> QED BY <1>5, <2>1, <2>2
<1>13. CASE SwitchOn(t)
  <2>1. \A u \in Threads : Switching(u)' => Switching(u)
    BY <1>1, <1>2, <1>13 DEF Places, SwitchOn, Detect, Goto, InSwitch
  <2> QED BY <1>4, <1>13, <2>1 DEF SwitchOn
<1>14. CASE ChaCha(t) \/ Aead(t)
  <2>1. \A u \in Threads : Switching(u)' => Switching(u)
    BY <1>1, <1>2, <1>14 DEF Places, ChaCha, Aead, Goto, InSwitch
  <2> QED BY <1>4, <1>14, <2>1 DEF ChaCha, Aead
<1> QED BY <1>7, <1>8, <1>9, <1>10, <1>11, <1>12, <1>13, <1>14 DEF Step

\* What the processor answers does not change.
Answer == Need \subseteq WordTwo

LEMMA AnswerFixed == UNCHANGED cpu => Answer' = Answer
  BY DEF Answer, WordTwo

LEMMA AnswerKeptKept == ASSUME SwitchInv, NEW t \in Threads, Step(t) PROVE AnswerKept'
<1>1. Places /\ OneThreadFirst /\ SwitchHeld /\ Places' /\ SwitchHeld'
  BY PlacesKept, SwitchHeldKept DEF SwitchInv
<1>2. t \notin {"auto", "off", "off early", "contended"}
  BY ThreadsAssumption
<1>3. cpu' = cpu /\ openssl' = openssl
  BY DEF Step, InitCtor, Store, Detected, Call, Enter, SwitchOff, SwitchOn, ChaCha, Aead, fixed
<1>4. Answer' = Answer
  BY <1>3, AnswerFixed
<1>5. ~openssl => \A u \in Threads : pc[u] = "detect" =>
        /\ found[u] = Answer
        /\ "g_avx512" \notin stores[u] /\ (~loaded \/ switch = u) => g_avx512 = Answer
  BY DEF SwitchInv, AnswerKept, Answer
<1>6. SUFFICES ASSUME ~openssl, NEW u \in Threads, pc'[u] = "detect"
               PROVE  /\ found'[u] = Answer
                      /\ "g_avx512" \notin stores'[u] /\ (~loaded' \/ switch' = u) =>
                           g_avx512' = Answer
  BY <1>3, <1>4 DEF AnswerKept, Answer
<1>7. ~loaded => \A v \in Threads : v # t => pc[v] = "idle" /\ then[v] = "idle"
  BY AloneFirst DEF Step, Idle, InitCtor, Call, Store, Detected, Enter, SwitchOff, SwitchOn,
                    ChaCha, Aead
<1>8. /\ pc[u] = "detect" /\ u # t => loaded /\ then[u] = "enabled" /\ switch \in {u, "contended"}
      /\ pc[t] = "detect" /\ loaded => switch \in {t, "contended"}
      /\ pc[t] \in {"switch_off", "switch_on"} => switch \in {t, "contended"}
      /\ u # "contended" /\ u \notin {"auto", "off", "off early"}
  <2>1. pc[u] = "detect" /\ u # t => loaded
    BY <1>7
  <2>2. \A v \in Threads : pc[v] = "detect" /\ loaded => then[v] = "enabled"
    BY <1>1 DEF OneThreadFirst
  <2>3. \A v \in Threads : then[v] = "enabled" \/ pc[v] \in {"switch_off", "switch_on"} =>
          switch \in {v, "contended"}
    BY <1>1 DEF SwitchHeld, Switching
  <2> QED BY <2>1, <2>2, <2>3, ThreadsAssumption
\* A thread that starts to detect has the answer found and not yet stored.
<1>9. ASSUME NEW after, Detect(t, after), u = t
      PROVE  found'[u] = Answer /\ "g_avx512" \in stores'[u]
  BY <1>1, <1>6, <1>9 DEF Detect, Answer, Places
<1>10. CASE InitCtor(t)
  <2>1. PICK after : Detect(t, after) /\ loaded' = loaded /\ switch' = switch
    BY <1>10 DEF InitCtor
  <2>2. CASE u = t
    BY <1>9, <2>1, <2>2
  <2>3. CASE u # t
    <3>1. /\ pc'[u] = pc[u] /\ stores'[u] = stores[u] /\ found'[u] = found[u]
          /\ g_avx512' = g_avx512
      BY <1>1, <2>1, <2>3 DEF Detect, Goto, Places, globals
    <3> QED BY <1>5, <1>6, <2>1, <3>1
  <2> QED BY <2>2, <2>3
<1>11. CASE Store(t)
  <2>1. PICK x \in stores[t] :
          /\ stores' = [stores EXCEPT ![t] = @ \ {x}]
          /\ g_avx512' = IF x = "g_avx512" THEN found[t] ELSE g_avx512
    BY <1>11 DEF Store
  <2>2. pc' = pc /\ found' = found /\ loaded' = loaded /\ switch' = switch /\ pc[t] = "detect"
    BY <1>11 DEF Store
  <2>3. CASE u = t
    <3>1. stores'[u] = stores[u] \ {x}
      BY <1>1, <2>1, <2>3 DEF Places
    <3> QED BY <1>5, <1>6, <2>1, <2>2, <2>3, <3>1
  <2>4. CASE u # t
    <3>1. stores'[u] = stores[u]
      BY <1>1, <2>1, <2>4 DEF Places
    <3>2. ~(~loaded \/ switch = u)
      BY <1>2, <1>6, <1>8, <2>2, <2>4
    <3> QED BY <1>5, <1>6, <2>2, <3>1, <3>2
  <2> QED BY <2>3, <2>4
<1>12. CASE Detected(t)
  <2>1. /\ pc[t] = "detect" /\ stores' = stores /\ found' = found /\ g_avx512' = g_avx512
        /\ (loaded => loaded')
        /\ pc' = [pc EXCEPT ![t] = IF then[t] \in {"ctor", "enabled"} THEN "idle" ELSE then[t]]
        /\ switch' \in {switch, "auto", "contended"}
    BY <1>12 DEF Detected, Goto, Decides, globals
  <2>2. pc'[t] # "detect"
    BY <1>1, <2>1 DEF Places
  <2>3. u # t /\ pc'[u] = pc[u]
    BY <1>1, <1>6, <2>1, <2>2 DEF Places
  <2> QED BY <1>5, <1>6, <1>8, <2>1, <2>3
<1>13. CASE Call(t) \/ ChaCha(t) \/ Aead(t)
  <2>1. /\ stores' = stores /\ found' = found /\ g_avx512' = g_avx512
        /\ loaded' = loaded /\ switch' = switch
        /\ \E to \in {"idle", "called", "chacha"} : pc' = [pc EXCEPT ![t] = to]
    BY <1>13 DEF Call, ChaCha, Aead, Goto, globals
  <2>2. pc'[u] = pc[u]
    BY <1>1, <1>6, <2>1 DEF Places
  <2> QED BY <1>5, <1>6, <2>1, <2>2
<1>14. CASE Enter(t)
  <2>1. /\ loaded' = loaded /\ switch' \in {switch, t, "contended"}
        /\ \E after \in {"switch_off", "switch_on", "chacha", "aead"} : EnsureReady(t, after)
    BY <1>14 DEF Enter
  <2>2. CASE u = t
    <3>1. PICK after : Detect(t, after)
      BY <1>1, <1>6, <2>1, <2>2 DEF EnsureReady, Goto, Places
    <3> QED BY <1>9, <2>2, <3>1
  <2>3. CASE u # t
    <3>1. /\ pc'[u] = pc[u] /\ stores'[u] = stores[u] /\ found'[u] = found[u]
          /\ g_avx512' = g_avx512
      BY <1>1, <2>1, <2>3 DEF EnsureReady, Detect, Goto, Places, globals
    <3> QED BY <1>5, <1>6, <1>8, <2>1, <2>3, <3>1
  <2> QED BY <2>2, <2>3
<1>15. CASE SwitchOff(t)
  <2>1. /\ pc[t] = "switch_off" /\ pc' = [pc EXCEPT ![t] = "idle"] /\ loaded' = loaded
        /\ stores' = stores /\ found' = found
        /\ switch' \in {"off", "off early", "contended"}
    BY <1>15 DEF SwitchOff, Goto, Decides
  <2>2. u # t /\ pc'[u] = pc[u]
    BY <1>1, <1>6, <2>1 DEF Places
  <2> QED BY <1>5, <1>6, <1>8, <2>1, <2>2
<1>16. CASE SwitchOn(t)
  <2>1. Detect(t, "enabled") /\ loaded' = loaded /\ switch' = switch
    BY <1>16 DEF SwitchOn
  <2>2. CASE u = t
    BY <1>9, <2>1, <2>2
  <2>3. CASE u # t
    <3>1. /\ pc'[u] = pc[u] /\ stores'[u] = stores[u] /\ found'[u] = found[u]
          /\ g_avx512' = g_avx512
      BY <1>1, <2>1, <2>3 DEF Detect, Goto, Places, globals
    <3> QED BY <1>5, <1>6, <2>1, <3>1
  <2> QED BY <2>2, <2>3
<1> QED BY <1>10, <1>11, <1>12, <1>13, <1>14, <1>15, <1>16 DEF Step

\* When the switch has a position nobody is in it, and once the library is loaded that
\* means nobody stores.
LEMMA SwitchHoldsKept == ASSUME SwitchInv, NEW t \in Threads, Step(t) PROVE SwitchHolds'
<1>1. Places /\ OneThreadFirst /\ SwitchHeld /\ Places' /\ SwitchHeld'
  BY PlacesKept, SwitchHeldKept DEF SwitchInv
<1>2. t \notin {"auto", "off", "off early", "contended"}
  BY ThreadsAssumption
<1>3. cpu' = cpu /\ openssl' = openssl
  BY DEF Step, InitCtor, Store, Detected, Call, Enter, SwitchOff, SwitchOn, ChaCha, Aead, fixed
<1>4. Answer' = Answer
  BY <1>3, AnswerFixed
<1>5. /\ switch = "off" => loaded /\ ~g_avx512
      /\ loaded /\ switch = "auto" /\ ~openssl => g_avx512 = Answer
  BY <1>1 DEF SwitchInv, SwitchHolds, SwitchHeld, Answer
<1>6. SUFFICES /\ switch' = "off" => ~g_avx512'
               /\ loaded' /\ switch' = "auto" /\ ~openssl => g_avx512' = Answer
  BY <1>3, <1>4 DEF SwitchHolds, Answer
<1>7. CASE loaded' = loaded /\ switch' = switch /\ g_avx512' = g_avx512
  BY <1>5, <1>7
<1>8. CASE InitCtor(t) \/ Call(t) \/ SwitchOn(t) \/ ChaCha(t) \/ Aead(t)
  BY <1>7, <1>8 DEF InitCtor, Call, SwitchOn, ChaCha, Aead, Detect, globals
<1>9. CASE Store(t)
  <2>1. pc[t] = "detect" /\ loaded' = loaded /\ switch' = switch
    BY <1>9 DEF Store
  <2>2. loaded => switch \in {t, "contended"}
    BY <1>1, <2>1 DEF OneThreadFirst, SwitchHeld, Switching
  <2> QED BY <1>2, <1>5, <2>1, <2>2
<1>10. CASE Detected(t)
  <2>1. /\ pc[t] = "detect" /\ stores[t] = {} /\ g_avx512' = g_avx512
        /\ loaded' = (loaded \/ then[t] = "ctor")
        /\ IF then[t] = "enabled" THEN Decides(t, "auto") ELSE UNCHANGED switch
    BY <1>10 DEF Detected, globals
  <2>2. ~openssl /\ (~loaded \/ switch = t) => g_avx512 = Answer
    BY <2>1 DEF SwitchInv, AnswerKept, Answer
  <2>3. CASE then[t] = "enabled"
    BY <1>2, <1>5, <2>1, <2>2, <2>3 DEF Decides
  <2>4. CASE then[t] # "enabled"
    <3>1. ~loaded /\ switch' = switch
      BY <1>1, <2>1, <2>4 DEF OneThreadFirst
    <3> QED BY <1>5, <2>1, <2>2, <3>1
  <2> QED BY <2>3, <2>4
<1>11. CASE Enter(t)
  <2>1. loaded' = loaded /\ switch' \in {switch, t, "contended"}
    BY <1>11 DEF Enter
  <2>2. g_avx512' = g_avx512
    BY <1>11 DEF Enter, EnsureReady, Detect, globals
  <2> QED BY <1>2, <1>5, <2>1, <2>2
<1>12. CASE SwitchOff(t)
  BY <1>2, <1>12 DEF SwitchOff, Decides
<1> QED BY <1>8, <1>9, <1>10, <1>11, <1>12 DEF Step

LEMMA NextKeepsSwitch == SwitchInv /\ [Next]_vars => SwitchInv'
<1> SUFFICES ASSUME SwitchInv, [Next]_vars PROVE SwitchInv'
  OBVIOUS
<1>1. ASSUME UNCHANGED <<cpu, openssl, loaded, pc, then, stores, found, g_avx512, g_ready, switch>>
      PROVE  SwitchInv'
  <2>1. Answer' = Answer
    BY <1>1, AnswerFixed
  <2>2. AnswerKept'
    BY <1>1, <2>1 DEF SwitchInv, AnswerKept, Answer
  <2>3. SwitchHolds'
    BY <1>1, <2>1 DEF SwitchInv, SwitchHolds, Answer
  <2>4. Places' /\ OneThreadFirst'
    BY <1>1 DEF SwitchInv, Places, OneThreadFirst, Idle
  <2>5. SwitchHeld'
    BY <1>1 DEF SwitchInv, SwitchHeld, Switching
  <2> QED BY <2>2, <2>3, <2>4, <2>5 DEF SwitchInv
<1>2. CASE UNCHANGED vars
  BY <1>1, <1>2 DEF vars, fixed, globals
<1>3. CASE OpenSSLSetup
  BY <1>1, <1>3 DEF OpenSSLSetup, fixed
<1>4. ASSUME NEW t \in Threads, Step(t)
      PROVE  SwitchInv'
  BY <1>4, PlacesKept, OneThreadKept, SwitchHeldKept, AnswerKeptKept, SwitchHoldsKept DEF SwitchInv
<1> QED BY <1>2, <1>3, <1>4 DEF Next, Step

\* Once the constructor has run, the library stays forced portable from the return of
\* one set_avx512_enabled(0) to the next set_avx512_enabled(1), and after that one the
\* processor's answer is back, whatever calls other threads make meanwhile and however
\* their stores fall, as long as no two of those two calls overlap.
THEOREM DispatchSwitchHolds == Spec => []SwitchHolds
<1>1. SwitchInv => SwitchHolds
  BY DEF SwitchInv
<1> QED BY <1>1, InitSwitch, NextKeepsSwitch, PTL DEF Spec

-----------------------------------------------------------------------------
(***************************************************************************)
(* The words: once filled they stay what they are.                         *)
(***************************************************************************)
\* Either detect fills the words or OpenSSL does: with OpenSSL's words no detection
\* has a store of one to make, and without them every store is of the same value.
WordsOfOne ==
  /\ \A t \in Threads : t \in DOMAIN stores
  /\ IF openssl
     THEN /\ \A t \in Threads : stores[t] \cap {"w1", "w2"} = {}
          /\ ~setup => w1 = {} /\ w2 = {}
     ELSE w1 \in {{}, WordOne} /\ w2 \in {{}, WordTwo}

\* What a step may do to the words.
Kept == (w1 # {} => w1' = w1) /\ (w2 # {} => w2' = w2)

LEMMA InitWords == Init => WordsOfOne
  BY DEF Init, WordsOfOne

\* A detection that finds OpenSSL's words has only its own decision to store.
LEMMA DetectSettles ==
  ASSUME WordsOfOne, NEW t \in Threads, NEW after, Detect(t, after), UNCHANGED <<fixed, setup>>
  PROVE  WordsOfOne' /\ Kept
<1>1. w1' = w1 /\ w2' = w2 /\ cpu' = cpu /\ openssl' = openssl /\ setup' = setup
  BY DEF Detect, globals, fixed
<1>2. \A u \in Threads : u \in DOMAIN stores' /\
        stores'[u] = IF u = t
                     THEN (IF openssl THEN {} ELSE {"w1", "w2"}) \cup {"g_avx512", "g_ready"}
                     ELSE stores[u]
  BY DEF Detect, WordsOfOne
<1>3. openssl => \A u \in Threads : stores'[u] \cap {"w1", "w2"} = {}
  BY <1>2 DEF WordsOfOne
<1> QED BY <1>1, <1>2, <1>3 DEF WordsOfOne, Kept, WordOne, WordTwo

\* A step that leaves words and stores alone.
LEMMA QuietSettles ==
  ASSUME WordsOfOne, UNCHANGED <<fixed, setup, w1, w2, stores>>
  PROVE  WordsOfOne' /\ Kept
  BY DEF WordsOfOne, Kept, WordOne, WordTwo, fixed

LEMMA StoreSettles ==
  ASSUME WordsOfOne, NEW t \in Threads, Store(t)
  PROVE  WordsOfOne' /\ Kept
<1>1. cpu' = cpu /\ openssl' = openssl /\ setup' = setup
  BY DEF Store, fixed
<1>2. PICK x \in stores[t] :
        /\ stores' = [stores EXCEPT ![t] = @ \ {x}]
        /\ w1' = IF x = "w1" THEN WordOne ELSE w1
        /\ w2' = IF x = "w2" THEN WordTwo ELSE w2
  BY DEF Store
<1>3. \A u \in Threads : u \in DOMAIN stores' /\ stores'[u] \subseteq stores[u]
  BY <1>2 DEF WordsOfOne
<1>4. CASE openssl
  <2>1. w1' = w1 /\ w2' = w2
    BY <1>2, <1>4 DEF WordsOfOne
  <2> QED BY <1>1, <1>3, <1>4, <2>1 DEF WordsOfOne, Kept
<1>5. CASE ~openssl
  BY <1>1, <1>2, <1>3, <1>5 DEF WordsOfOne, Kept, WordOne, WordTwo
<1> QED BY <1>4, <1>5

LEMMA EnsureReadySettles ==
  ASSUME WordsOfOne, NEW t \in Threads, NEW after, EnsureReady(t, after),
         UNCHANGED <<fixed, setup>>
  PROVE  WordsOfOne' /\ Kept
<1>1. CASE g_ready
  BY <1>1, QuietSettles DEF EnsureReady, globals
<1>2. CASE ~g_ready
  BY <1>2, DetectSettles DEF EnsureReady
<1> QED BY <1>1, <1>2

LEMMA NextSettles == WordsOfOne /\ [Next]_vars => WordsOfOne' /\ Kept
<1> SUFFICES ASSUME WordsOfOne, [Next]_vars PROVE WordsOfOne' /\ Kept
  OBVIOUS
<1>1. CASE UNCHANGED vars
  BY <1>1, QuietSettles DEF vars, globals
<1>2. CASE OpenSSLSetup
  BY <1>2 DEF OpenSSLSetup, fixed, WordsOfOne, Kept, WordOne, WordTwo
<1>3. ASSUME NEW t \in Threads, Step(t)
      PROVE  WordsOfOne' /\ Kept
  <2>1. CASE InitCtor(t)
    BY <2>1, DetectSettles DEF InitCtor
  <2>2. CASE Store(t)
    BY <2>2, StoreSettles
  <2>3. CASE Detected(t) \/ Call(t) \/ SwitchOff(t) \/ ChaCha(t) \/ Aead(t)
    BY <2>3, QuietSettles DEF Detected, Call, SwitchOff, ChaCha, Aead, globals
  <2>4. CASE Enter(t)
    <3>1. PICK after : EnsureReady(t, after)
      BY <2>4 DEF Enter
    <3> QED BY <2>4, <3>1, EnsureReadySettles DEF Enter
  <2>5. CASE SwitchOn(t)
    BY <2>5, DetectSettles DEF SwitchOn
  <2> QED BY <1>3, <2>1, <2>2, <2>3, <2>4, <2>5 DEF Step
<1> QED BY <1>1, <1>2, <1>3 DEF Next, Step

\* A word of OPENSSL_ia32cap_P is filled once: whatever detections run again or overlap,
\* no later load finds another value, so that ChaCha20_32x, which loads the second word
\* after ChaCha20_ctr32 has, chooses the kernel of its residue by the same processor.
THEOREM DispatchWordsSettle == Spec => WordsSettle
<1>1. WordsOfOne /\ [Next]_vars => WordsOfOne' /\ [Kept]_vars
  BY NextSettles
<1> QED BY <1>1, InitWords, PTL DEF Spec, WordsSettle, Kept
=============================================================================
