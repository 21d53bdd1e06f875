------------------------- MODULE MCPortablePoly1305 -------------------------
(* PortablePoly1305 with limbs of 6 bits, the narrowest its bounds allow, and  *)
(* numbers at the ends of the ranges: all ones, single limbs, sums that land   *)
(* on both sides of the prime.                                                 *)
EXTENDS PortablePoly1305

MCMultipliers == {
  Limbs(63, 63, 63, 63, 15), Limbs(1, 0, 0, 0, 0), Limbs(0, 0, 0, 0, 15),
  Limbs(63, 3, 15, 60, 12), Limbs(2, 0, 0, 0, 8), Limbs(17, 40, 5, 33, 9)}

MCPads == {0, 64^5 \div 4 - 1}

MCChunks == {
  Limbs(63, 63, 63, 63, 15), Limbs(0, 0, 0, 0, 0), Limbs(59, 63, 63, 63, 15),
  Limbs(58, 63, 63, 63, 15), Limbs(1, 0, 0, 0, 0), Limbs(63, 62, 63, 63, 15),
  Limbs(21, 42, 0, 7, 11)}

MCLastChunks == {
  Limbs(1, 0, 0, 0, 0), Limbs(63, 63, 63, 63, 3), Limbs(5, 1, 0, 0, 0)}
=============================================================================
