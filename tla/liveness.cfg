SPECIFICATION FairSpec
CONSTANTS
    Consents = {c1}
    Nodes = {n1}
    Requests = {r1}
    Pods = {p1, p2}
    NoHeader = NoHeader
    NotAUuid = NotAUuid
    Null = Null
    PoolSize = 2
    MaxLockDepth = 2
INVARIANTS
    OneTickUnlessSessionLost
PROPERTIES
    RequestsAndTicksEnd
    DueConsentsExpire
