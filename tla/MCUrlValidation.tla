--------------------------- MODULE MCUrlValidation ---------------------------
(* Three validators; two of them check the same script. *)
EXTENDS UrlValidation

CONSTANTS a, b, c

MCValidators == {a, b, c}
MCTimed      == {a, b}
MCUrlOf      == [i \in MCValidators |-> IF i = c THEN "cookbook" ELSE "script"]
=============================================================================
