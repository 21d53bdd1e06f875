----------------------------- MODULE MCAeadApi -----------------------------
(***************************************************************************)
(* Blocks of 4 bytes, tags of 2, sizes modulo 16: lengths below, at and    *)
(* above a block, and two for which in_len plus the tag does not fit.      *)
(***************************************************************************)
EXTENDS AeadApi

MCLengths == {0, 1, 3, 4, 5, 8, 14, 15}
MCAdLengths == {0, 1, 4, 5}
MCRooms == {1, 2, 4, 7, 10}
=============================================================================
