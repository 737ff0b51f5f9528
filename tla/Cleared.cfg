CONSTANTS
    Paths = {f}
    Encoders = {e1, e2}
    NULL = NULL
    Modes = {"tracked", "all"}
    Reverts = TRUE
    MaxEdits = 1
    MaxBuilds = 2
    MaxConfigs = 1
SPECIFICATION Spec
SYMMETRY Symmetry
CHECK_DEADLOCK FALSE
INVARIANT KeptIsUnchanged
