---------------------------- MODULE MCPublication ----------------------------
(* Publication on small instances. *)
EXTENDS Publication, TLC

Symmetry == Permutations(Requests) \cup Permutations(Sources)

\* A second crawl may find as many documents as the first, or one more.
Lengths == [e \in Editions |-> IF e = "longer" THEN 2 ELSE 1]
=============================================================================
