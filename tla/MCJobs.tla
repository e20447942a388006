------------------------------- MODULE MCJobs -------------------------------
(* Jobs on small instances. *)
EXTENDS Jobs, TLC

Symmetry == Permutations(Runs) \cup Permutations(Requests)
=============================================================================
