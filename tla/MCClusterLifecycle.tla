-------------------------- MODULE MCClusterLifecycle --------------------------
(* ClusterLifecycle with three requests: two concurrent updates, or an       *)
(* update and a deletion, meet a creation; or three creations race.          *)
EXTENDS ClusterLifecycle, TLC

CONSTANTS r1, r2, r3

MCRequests == {r1, r2, r3}

Symmetry == Permutations(MCRequests)
=============================================================================
