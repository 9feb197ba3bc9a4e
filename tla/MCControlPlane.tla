--------------------------- MODULE MCControlPlane ---------------------------
(***************************************************************************)
(* Model values, symmetry and bounds for the runs of ControlPlane.         *)
(***************************************************************************)
EXTENDS ControlPlane, TLC

\* Interchangeable requests, consents, nodes and pods.
Symmetry == Permutations(Requests) \cup Permutations(Consents)
            \cup Permutations(Nodes) \cup Permutations(Pods)
=============================================================================
