------------------------- MODULE MCAccountBootstrap -------------------------
(* Three builds, one with its Lambda in a VPC, and a cluster creation.       *)
EXTENDS AccountBootstrap

CONSTANTS b1, b2, b3, c1

MCProcesses == {b1, b2, b3, c1}
MCBuilders  == {b1, b2, b3}
MCInVpc     == {b1}
=============================================================================
