----------------------------- MODULE MCOpen512 -----------------------------
(***************************************************************************)
(* Every record length up to five ranges and a residue, in place or not.   *)
(***************************************************************************)
EXTENDS Open512

MCLengths == 0 .. 5 * Range + 180

\* Small, so that the counter wraps inside the longer records.
MCCounterSpace == 50
=============================================================================
