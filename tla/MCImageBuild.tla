---------------------------- MODULE MCImageBuild ----------------------------
(* Small instances of ImageBuild: requests for one id, a build of a longer id. *)
EXTENDS ImageBuild, TLC

CONSTANTS c1, c2, d1, n1

TwoCreators  == {c1, c2}
OneDeleter   == {d1}
NoNeighbours == {}
OneNeighbour == {n1}
Symmetric    == Permutations(Creators)
=============================================================================
