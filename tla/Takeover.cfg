CONSTANTS
    k = k
    w = w
    x = x
    Uuids = {u1}
    Clients = {a, k}
    Primaries = {a}
    NULL = NULL
    MaxDepth = 2
    MaxVersion = 2
    Owners = {w, x}
    ClientOf <- TwoWorkers
    Lease = 1
    MaxServes = 2
    GroupMax = 2
    MaxCandidates = 1
    MaxRuns = 3
SPECIFICATION FairSpec
INVARIANT OneActiveRun
PROPERTIES
    StaleRunsFrozen
    OnlyPlanGroupsTakesOver
    EveryRunLetsGo
