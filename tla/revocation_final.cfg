SPECIFICATION Spec
CONSTANTS
    Consents = {c1}
    Nodes = {n1}
    Requests = {r1, r2}
    Pods = {p1}
    NoHeader = NoHeader
    NotAUuid = NotAUuid
    Null = Null
    PoolSize = 1
    MaxLockDepth = 1
PROPERTIES
    RevocationIsFinal
