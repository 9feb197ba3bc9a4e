--------------------------- MODULE MCFederationSync ---------------------------
(***************************************************************************)
(* Symmetry for the run of FederationSync: no property is temporal.        *)
(***************************************************************************)
EXTENDS FederationSync, TLC

Symmetry == Permutations(Syncs) \cup Permutations(Peers)
=============================================================================
