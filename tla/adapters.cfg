SPECIFICATION CloudSpec
CONSTANTS
    Calls = {c1, c2, c3}
    MaxVersion = 2
    Null = Null
SYMMETRY Symmetry
INVARIANTS
    StoredIsAcknowledged
    AnswersAreCurrent
    VerdictsExplained
CHECK_DEADLOCK FALSE
