---------------------------- MODULE MCPolicyBundle ----------------------------
(***************************************************************************)
(* Two bundles that decide the same request differently, and symmetry of   *)
(* calls.                                                                  *)
(***************************************************************************)
EXTENDS PolicyBundle, TLC

Rule(effect, all, any) == [effect |-> effect, all |-> all, any |-> any]

MCBundles ==
    {[id |-> 1, rules |-> [r \in {"grant"} |-> Rule("deny", {}, {})]],
     [id |-> 2, rules |-> [r \in {"grant"} |-> Rule("allow", {"x"}, {"y", "z"})]]}

Symmetry == Permutations(Calls)
=============================================================================
