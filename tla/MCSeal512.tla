----------------------------- MODULE MCSeal512 -----------------------------
(***************************************************************************)
(* Every record length up to five ranges and a residue.                    *)
(***************************************************************************)
EXTENDS Seal512

MCLengths == 0 .. 5 * Range + 180

\* Small, so that the counter wraps inside the longer records.
MCCounterSpace == 50
=============================================================================
