CONSTANTS
    k = k
    w = w
    x = x
    Uuids = {u1, u2, u3}
    Clients = {a, k}
    Primaries = {a}
    NULL = NULL
    MaxDepth = 2
    MaxVersion = 2
    Owners = {w}
    ClientOf <- OneWorker
    Lease = 0
    MaxServes = 2
    GroupMax = 2
    MaxCandidates = 1
    MaxRuns = 1
SPECIFICATION Spec
SYMMETRY Symmetry
INVARIANTS
    TypeOK
    OpenIffUndecided
    ServedArePrefix
    DispositionsTrue
    ServesBounded
PROPERTIES
    NothingLost
    PlansAreFresh
