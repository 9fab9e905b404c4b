---------------------------- MODULE MCUpdateCheck ----------------------------
(* UpdateCheck on a small instance: two pools, two compute resources. *)
EXTENDS UpdateCheck, TLC

CONSTANTS p1, p2, cr1, cr2

MCPools == {p1, p2}
MCComputeResources == {cr1, cr2}

\* MaxCount 2 by default; 1 and 3 are below and above it.
MCCounts == {1, 3}

AllDisturbances  == {"fleet", "login", "reads"}
NoDisturbance    == {}

Symmetry == Permutations(MCPools) \cup Permutations(MCComputeResources)
=============================================================================
