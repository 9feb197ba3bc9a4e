SPECIFICATION Spec
CONSTANTS
    Syncs = {s1, s2, s3}
    Peers = {p1, p2}
    MaxCursor = 2
    Null = Null
INVARIANTS
    CursorIsOfLoggedPost
    LastAcceptedInForce
    AnswerMatchesTables
CHECK_DEADLOCK FALSE
SYMMETRY Symmetry
