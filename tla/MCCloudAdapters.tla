--------------------------- MODULE MCCloudAdapters ---------------------------
(***************************************************************************)
(* Symmetry for the run of CloudAdapters.                                  *)
(***************************************************************************)
EXTENDS CloudAdapters, TLC

Symmetry == Permutations(Calls)
=============================================================================
