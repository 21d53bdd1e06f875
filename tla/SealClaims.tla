----------------------------- MODULE SealClaims -----------------------------
(***************************************************************************)
(* What the documentation says of the seal's schedule, and the code does   *)
(* not do.                                                                 *)
(***************************************************************************)
EXTENDS Seal512

MCLengths == 0 .. 4 * Range

MCCounterSpace == 50

\* src/aead512.pl:1312: with a chunk pending and (1024, 1152] bytes remaining,
\* the loop encrypts all of them in one 17-block pass.  The bound the loop
\* tests was moved to 1088, what a 17-block pass can produce.
Tail17UpTo1152 ==
  [][pc = "chunk" /\ inl > Range /\ inl <= 1152 => Tail17]_vars

\* src/README.md:273: leftovers of at most 768 bytes are finished by the scalar
\* Poly1305.  No branch reaches that code: every suffix, whatever its length,
\* goes to the IFMA routines.
SmallSuffixIsScalar ==
  [][HashSuffix \/ FinishSuffix => SuffixBytes > 768]_vars
=============================================================================
