---------------------------- MODULE CipherStream ----------------------------
(***************************************************************************)
(* What the streaming interface of src/chacha20poly1305.h promises: after  *)
(* an init, the bytes given to any sequence of updates come out, each once *)
(* and in the order given, as if they had been given to one call.          *)
(***************************************************************************)
EXTENDS Integers

VARIABLES
  given,      \* bytes given to the updates of the stream so far
  produced    \* bytes of it encrypted so far

vars == <<given, produced>>

Init == given = 0 /\ produced = 0

\* A stream begins when the last one has no work left.
Start == given = produced /\ given' = 0 /\ produced' = 0

Give == given = produced /\ given' \in Nat /\ given' >= given /\ UNCHANGED produced

Produce == produced' \in produced + 1 .. given /\ UNCHANGED given

Next == Start \/ Give \/ Produce

Spec == Init /\ [][Next]_vars /\ WF_vars(Produce)
=============================================================================
