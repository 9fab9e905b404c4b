---------------------------- MODULE MCComputeFleet ----------------------------
(* ComputeFleet on a small instance. *)
EXTENDS ComputeFleet

CONSTANTS c1, c2

MCCallers == {c1, c2}
=============================================================================
