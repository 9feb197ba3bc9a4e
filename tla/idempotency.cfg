SPECIFICATION FlowSpec
CONSTANTS
    Attempts = {a1, a2}
    Submits = {a1, a2}
    Keys = {k1, k2}
    Null = Null
INVARIANTS
    RunsOnceUnlessDisturbed
    SameAnswerUnlessDisturbed
    SuccessIsOfMutation
    GrantsAreAccountedFor
PROPERTIES
    SpinnerEnds
CHECK_DEADLOCK FALSE
