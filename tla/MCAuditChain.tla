----------------------------- MODULE MCAuditChain -----------------------------
(* AuditChain on small instances. *)
EXTENDS AuditChain, TLC

Symmetry == Permutations(Appends) \cup Permutations(Purges)
=============================================================================
