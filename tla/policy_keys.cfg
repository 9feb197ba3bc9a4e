SPECIFICATION Spec
CONSTANTS
    Calls = {c1, c2, c3}
    KeyIds = {k1}
    MaxRestarts = 1
    Empty = Empty
    Null = Null
    Messages <- MCBundles
    Bundles <- MCBundles
    RuleIds = {"grant", "revoke"}
    Conditions = {"x", "y", "z"}
    CacheTtl = 1
    MaxTime = 1
INVARIANTS
    AllowsOnlySigned
    CachedWithinTtl
    DataKeysSurvive
    RefusesOnlyForeign
CHECK_DEADLOCK FALSE
SYMMETRY Symmetry
