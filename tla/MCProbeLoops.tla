---------------------------- MODULE MCProbeLoops ----------------------------
(* Two vector ports and one multiplier, an odd number of ports, and more than *)
(* any loop can use; vector instructions of one or two cycles, mulx of four. *)
EXTENDS ProbeLoops

MCMachines ==
  {[ports |-> [u \in Unit |-> IF u = "vec" THEN p ELSE IF p = 2 THEN 1 ELSE 2],
    latency |-> [u \in Unit |-> IF u = "vec" THEN l ELSE 4]] : p \in {2, 3, 8}, l \in {1, 2}}

MCNoise == {0, 7}
=============================================================================
