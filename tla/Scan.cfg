CONSTANTS
    Paths = {f, g}
    Encoders = {e1, e2}
    NULL = NULL
    Modes = {"tracked"}
    Reverts = FALSE
    MaxEdits = 1
    MaxBuilds = 2
    MaxConfigs = 1
SPECIFICATION Spec
SYMMETRY Symmetry
CHECK_DEADLOCK FALSE
INVARIANTS
    OneModel
    Accounted
    CompletionIsWhole
PROPERTIES
    PendingKeepsWatch
