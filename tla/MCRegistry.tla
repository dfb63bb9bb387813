----------------------------- MODULE MCRegistry -----------------------------
(* Names of services and of features are interchangeable. *)
EXTENDS Registry, TLC

Symmetry == Permutations(Names) \cup Permutations(Features)
=============================================================================
