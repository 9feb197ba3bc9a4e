SPECIFICATION RegistrySpec
CONSTANTS
    Nodes = {n1, n2}
    Requests = {r1, r2, r3, r4}
    Limits = {0, 1}
    DefaultLimit = 2
    Instants = {1, 2}
    Null = Null
SYMMETRY Symmetry
INVARIANTS
    RegistryInv
    LookupsAreCurrent
    ListsAreComplete
PROPERTIES
    RegistrationKeepsStatus
CHECK_DEADLOCK FALSE
