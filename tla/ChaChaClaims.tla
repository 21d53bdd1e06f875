---------------------------- MODULE ChaChaClaims ----------------------------
(***************************************************************************)
(* A statement the repository makes about the dispatch of a ChaCha20 call  *)
(* that the code does not keep.                                            *)
(***************************************************************************)
EXTENDS MCChaChaKernels

\* README.md, "Avoiding Slow Scalar Tails": the dispatcher bypasses 9x when
\* len >= BATCH * ((len - 1) >> 6) + 65, where BATCH is 512.
HybridLoses(n) == n >= 512 * ((n - 1) \div 64) + 65

\* The dispatcher of ChaCha20_9x follows that formula.
BypassAsDocumented ==
  [][/\ Take9   => ~HybridLoses(rest)
     /\ Refuse9 => HybridLoses(rest)]_vars
=============================================================================
