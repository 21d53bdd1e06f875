------------------------------ MODULE ProbeLoops ------------------------------
(***************************************************************************)
(* The loops of src/tools/probe/ilp.c and ports.c, which measure how many  *)
(* instructions a cycle the processor issues, and the sampling around      *)
(* them.  The measured rate means something only if the dependences in a   *)
(* loop are those its name claims: a chain of quarter rounds serial in     *)
(* itself, and the chains independent of each other.                       *)
(*                                                                         *)
(* The processor is an ideal one: registers are renamed, so that only a    *)
(* read waits for the write before it, and each cycle the oldest ready     *)
(* instructions are issued, as many as there are ports.  An instruction is *)
(* the registers it reads and writes; dec and jnz are left out.            *)
(***************************************************************************)
EXTENDS Integers, Sequences, FiniteSets, FiniteSetsExt

CONSTANTS
  Machines,     \* processors, see MachineAssumption
  Iterations,   \* bound: turns of the loop, N in the code
  Samples,      \* times a loop is measured, 7 in the code
  Noise         \* cycles an interrupt may add to a sample

Unit == {"vec", "mul"}

ASSUME MachineAssumption ==
  /\ \A m \in Machines : m \in [ports : [Unit -> 1 .. 32], latency : [Unit -> 1 .. 8]]
  /\ Iterations \in Nat \ {0} /\ Samples \in Nat \ {0} /\ Noise \subseteq Nat

-----------------------------------------------------------------------------
(***************************************************************************)
(* The loops.  A zmm register is its number, 0 to 31; a general register   *)
(* is its number in the encoding after those (rax 0, rdx 2, rbx 3, rsi 6). *)
(***************************************************************************)

\* vpaddd and vpxord of two registers into the second; vprold of one.
Mix(from, to) == [unit |-> "vec", reads |-> {from, to}, writes |-> {to}]
Rotate(z) == [unit |-> "vec", reads |-> {z}, writes |-> {z}]

\* Fault: the second instruction takes its input from before the first.
HalfRoundLoose(c) ==
  LET z == [i \in 0 .. 3 |-> 4 * c + i]
  IN <<Mix(z[1], z[0]), Mix(z[1], z[3]), Rotate(z[3]),
       Mix(z[3], z[2]), Mix(z[2], z[1]), Rotate(z[1])>>

\* Half a quarter round of chain c; the halves differ in the rotations only.
HalfRound(c) ==
  LET z == [i \in 0 .. 3 |-> 4 * c + i]
  IN <<Mix(z[1], z[0]), Mix(z[0], z[3]), Rotate(z[3]),
       Mix(z[3], z[2]), Mix(z[2], z[1]), Rotate(z[1])>>

\* Two quarter rounds of each of k chains, the chains in turn at every step.
Chains(k) == [j \in 1 .. 24 * k |-> HalfRound((j - 1) % k)[(((j - 1) \div k) % 6) + 1]]

chains1 == Chains(1)
chains2 == Chains(2)
chains4 == Chains(4)
chains8 == Chains(8)

\* VEC8 of ZADD_I or ZXOR_I, with zmm8 as the other operand, and of ZROL_I.
Vec8Mix == [i \in 1 .. 8 |-> Mix(8, i - 1)]
Vec8Rotate == [i \in 1 .. 8 |-> Rotate(i - 1)]

\* mulx from, lo, hi: rdx times from.
Mulx(from, lo, hi) ==
  [unit |-> "mul", reads |-> {32 + 2, 32 + from}, writes |-> {32 + lo, 32 + hi}]

Mulx4 == <<Mulx(8, 9, 10), Mulx(11, 12, 13), Mulx(14, 15, 0), Mulx(6, 7, 3)>>

vec_add == Vec8Mix \o Vec8Mix \o Vec8Mix \o Vec8Mix
vec_mix == Vec8Mix \o Vec8Mix \o Vec8Rotate \o Vec8Mix
scalar_mulx == Mulx4 \o Mulx4
both == Vec8Mix \o Vec8Mix \o Mulx4 \o Vec8Rotate \o Vec8Mix \o Mulx4

\* A loop, and how many independent chains of how many instructions a turn its
\* name and the calls in main say it has.  A chain of length 0 waits for nothing.
Claim(body, vec, vec_length, mul) ==
  [body |-> body, chains |-> vec, length |-> vec_length,
   ops |-> [u \in Unit |-> IF u = "vec" THEN vec * vec_length ELSE mul]]

Loops ==
  [chains1 |-> Claim(chains1, 1, 24, 0), chains2 |-> Claim(chains2, 2, 24, 0),
   chains4 |-> Claim(chains4, 4, 24, 0), chains8 |-> Claim(chains8, 8, 24, 0),
   vec_add |-> Claim(vec_add, 8, 4, 0), vec_mix |-> Claim(vec_mix, 8, 4, 0),
   scalar_mulx |-> Claim(scalar_mulx, 0, 0, 8), both |-> Claim(both, 8, 4, 8)]

Names == DOMAIN Loops

\* The instructions of the whole run of a loop.
Run(l) == 1 .. Iterations * Len(Loops[l].body)

Trace == [l \in Names |-> [j \in Run(l) |-> Loops[l].body[((j - 1) % Len(Loops[l].body)) + 1]]]

\* What instruction j waits for: the last before it to write what it reads.
Producers(l, j) ==
  LET before(z) == {i \in 1 .. j - 1 : z \in Trace[l][i].writes}
  IN {Max(before(z)) : z \in {y \in Trace[l][j].reads : before(y) # {}}}

Waits == [l \in Names |-> [j \in Run(l) |-> Producers(l, j)]]

-----------------------------------------------------------------------------
VARIABLES
  pc,
  loop, machine,
  cycle,
  issued,    \* the cycle in which each instruction issued so far was
  taken,     \* samples taken
  good,      \* cycles of those the counter could be read after
  best

vars == <<pc, loop, machine, cycle, issued, taken, good, best>>

\* best before any sample: 1e30.
None == 1000000000

Init ==
  /\ pc = "loop"
  /\ loop \in Names /\ machine \in Machines
  /\ cycle = 0 /\ issued = <<>>
  /\ taken = 0 /\ good = {} /\ best = None

Left == Run(loop) \ DOMAIN issued

\* The instructions of a unit that are issued in this cycle.
Oldest(u) ==
  LET done(i)  == i \in DOMAIN issued /\ issued[i] + machine.latency[Trace[loop][i].unit] <= cycle
      ready    == {j \in Left : Trace[loop][j].unit = u /\ \A i \in Waits[loop][j] : done(i)}
  IN {j \in ready : Cardinality({i \in ready : i < j}) < machine.ports[u]}

Cycle ==
  /\ pc = "loop" /\ Left # {}
  /\ LET now == UNION {Oldest(u) : u \in Unit}
     IN issued' = [j \in DOMAIN issued \cup now |-> IF j \in now THEN cycle ELSE issued[j]]
  /\ cycle' = cycle + 1
  /\ UNCHANGED <<pc, loop, machine, taken, good, best>>

LoopEnds ==
  /\ pc = "loop" /\ Left = {} /\ pc' = "sample"
  /\ UNCHANGED <<loop, machine, cycle, issued, taken, good, best>>

\* Fault: the sample counts whether or not the counter could be read, and what is
\* in it is then left over.
SampleUnread(read, cycles) == best' = IF cycles < best THEN cycles ELSE best

\* The end of the loop of run: the fewest cycles are kept, and a sample whose
\* counter could not be read is passed over.
Sample(read, cycles) == best' = IF read /\ cycles < best THEN cycles ELSE best

\* One turn of the loop of run.  Where the counter cannot be read the sample is not
\* initialised.
Measure ==
  /\ pc = "sample" /\ taken < Samples
  /\ \/ \E extra \in Noise :
          /\ Sample(TRUE, cycle + extra)
          /\ good' = good \cup {cycle + extra}
     \/ \E left \in {0, cycle} : Sample(FALSE, left) /\ UNCHANGED good
  /\ taken' = taken + 1
  /\ UNCHANGED <<pc, loop, machine, cycle, issued>>

\* The rate is printed, from best and the number of instructions.
Report ==
  /\ pc = "sample" /\ taken = Samples /\ pc' = "reported"
  /\ UNCHANGED <<loop, machine, cycle, issued, taken, good, best>>

Next == Cycle \/ LoopEnds \/ Measure \/ Report

Spec == Init /\ [][Next]_vars

-----------------------------------------------------------------------------
(***************************************************************************)
(* Properties.                                                             *)
(***************************************************************************)

\* Cycles the run needs: for its longest chain, or for the ports of a unit.
Bound ==
  LET claim == Loops[loop]
      chain == IF claim.length = 0 THEN 1
               ELSE (Iterations * claim.length - 1) * machine.latency["vec"] + 1
      unit(u) == (Iterations * claim.ops[u] + machine.ports[u] - 1) \div machine.ports[u]
  IN Max({chain} \cup {unit(u) : u \in Unit})

\* A loop measures what its name says: its chains are serial, so that more ports get
\* nothing more out of it, and independent, so that nothing holds it up but its
\* longest chain and the ports.
RunsAtItsWidth ==
  pc # "loop" => cycle \in Bound .. Bound + machine.latency["vec"]

\* The rate printed is never more than the loop allows, whichever samples fail, and
\* it is 0 (best is 1e30) only if all of them did.
NeverOverstates ==
  pc = "reported" =>
    /\ best >= Bound
    /\ best = None <=> good = {}
=============================================================================
