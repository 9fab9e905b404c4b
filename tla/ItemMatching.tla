---------------------------- MODULE ItemMatching ----------------------------
(* How ConfigPatch._compare_list pairs the items of two lists of sections: by *)
(* the value of their update key.  A list is given by the keys of its items.  *)
EXTENDS SequencesExt

\* The first item of the deployed list with the key of a wanted item, 0 if there
\* is none.
IndexOf(keys, key) == SelectInSeq(keys, LAMBDA k : k = key)

Matches(olds, news) == [i \in DOMAIN news |-> IndexOf(olds, news[i])]

\* mutant: what is gone from the list is not looked for
NotLooked(olds, visited) == { }
\* mutant: the items that were compared are not marked as visited
NotMarked(olds, visited) == DOMAIN olds
\* The deployed items that no wanted item was compared with.
NotVisited(olds, visited) == (DOMAIN olds) \ visited
=============================================================================
