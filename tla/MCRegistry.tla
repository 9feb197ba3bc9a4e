------------------------------ MODULE MCRegistry ------------------------------
(***************************************************************************)
(* Symmetry for the run of Registry.                                       *)
(***************************************************************************)
EXTENDS Registry, TLC

Symmetry == Permutations(Nodes) \cup Permutations(Requests)
=============================================================================
