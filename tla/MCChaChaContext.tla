--------------------------- MODULE MCChaChaContext --------------------------
(* ChaChaContext with updates of less than, exactly and more than a block,   *)
(* on a counter that wraps twice in a stream.                                *)
EXTENDS ChaChaContext

MCLengths == {0, 1, 3, 20, 44, 63, 64, 65, 127, 128, 130}

MCFirstCounters == {0, 3}
=============================================================================
