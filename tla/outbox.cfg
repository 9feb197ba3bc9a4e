SPECIFICATION FairSpec
CONSTANTS
    Events = {e1, e2}
    Consents = {c1, c2}
    Publishers = {p1, p2}
    BatchLimit = 2
    Refusable = {e1}
    Null = Null
INVARIANTS
    OutboxInv
    FirstCopiesInOrder
PROPERTIES
    ImplementsDelivery
    DeliversAll
