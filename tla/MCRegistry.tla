----------------------------- MODULE MCRegistry -----------------------------
(* Instances of Registry for TLC. *)
EXTENDS Registry, TLC

\* Kinds, templates and requests are interchangeable.
Symmetry == Permutations(Kinds) \cup Permutations(Templates) \cup Permutations(Requests)
=============================================================================
