SPECIFICATION Spec
CONSTANTS
    Consents = {c1}
    Nodes = {n1}
    Requests = {r1, r2, r3}
    Pods = {p1}
    NoHeader = NoHeader
    NotAUuid = NotAUuid
    Null = Null
    PoolSize = 1
    MaxLockDepth = 1
SYMMETRY Symmetry
INVARIANTS
    IInv
    AcknowledgedIsRecorded
    RecordedRevocationHolds
    RevokedAtTellsTheRevoker
    ArchiveHoldsOnlyRecorded
PROPERTIES
    ExpiresOnlyWhatWasDue
    QuerySeesAcknowledgedRevocation
    RootChangesWithTrail
    ImplementsLedger
