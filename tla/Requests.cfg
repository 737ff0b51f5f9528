CONSTANTS
    n1 = n1
    n2 = n2
    v = v
    Calls = {n1, n2, v}
    NextCalls = {n1, n2}
    NULL = NULL
    Unresolved = Unresolved
    Harness = Harness
    Odd = Odd
    MaxSockets = 2
    MaxDeaths = 1
SPECIFICATION Spec
SYMMETRY Symmetry
CHECK_DEADLOCK FALSE
INVARIANTS
    RepliesAreOwn
    OneTakeover
PROPERTIES
    LabelIsKept
    AnswersAreTrue
