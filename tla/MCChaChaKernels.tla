-------------------------- MODULE MCChaChaKernels ---------------------------
(* ChaChaKernels with one processor of every kind the dispatch tells apart,  *)
(* and the lengths around every threshold and up to several passes.          *)
EXTENDS ChaChaKernels

MCProcessors == {
  {}, {"ssse3"}, {"ssse3", "atom"}, {"ssse3", "xop"}, {"ssse3", "avx2"},
  {"ssse3", "avx2", "avx512vl"},                \* AVX-512F masked out
  {"ssse3", "avx2", "avx512f"},                 \* AVX-512F alone
  {"ssse3", "avx2", "avx512f", "avx512vl"} }

MCLengths == UNION { 0 .. 2310, 3510 .. 3590, 4090 .. 4200, 6140 .. 6210 }

\* Seven blocks from the wrap, and far from it.
MCFirstCounters == {0, 90}
=============================================================================
