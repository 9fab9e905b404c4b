--------------------------- MODULE MCStackCleanup ---------------------------
(* StackCleanup with three items on two pages and a timeout of eight sleeps. *)
EXTENDS StackCleanup

CONSTANTS i1, i2, i3

MCItems  == {i1, i2, i3}
MCPageOf == [i \in MCItems |-> IF i = i3 THEN 2 ELSE 1]
=============================================================================
