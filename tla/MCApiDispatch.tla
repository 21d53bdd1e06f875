--------------------------- MODULE MCApiDispatch ---------------------------
(***************************************************************************)
(* Two threads and the processors detection tells apart.  Leaf 1 bit 11 is *)
(* set on the Intel processors: it is SDBG there.                          *)
(***************************************************************************)
EXTENDS ApiDispatch, TLC

Processor(amd, skylakex, leaf1, xop, leaf7) ==
  [amd |-> amd, skylakex |-> skylakex, leaf1 |-> leaf1, xop |-> xop, leaf7 |-> leaf7]

MCProcessors == {
  Processor(FALSE, FALSE, {"ssse3", "bit11"}, FALSE, {}),              \* SSSE3 only
  Processor(FALSE, TRUE, Word1, FALSE, Word2 \ {"ifma"}),              \* Skylake-X
  Processor(FALSE, FALSE, Word1, FALSE, Word2),                        \* Ice Lake
  Processor(TRUE, FALSE, {"ssse3"}, TRUE, {}),                         \* Bulldozer
  Processor(TRUE, FALSE, {"ssse3"}, FALSE, Word2) }                    \* Zen 4

Symmetry == Permutations(Threads)
=============================================================================
