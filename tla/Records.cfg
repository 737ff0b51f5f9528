CONSTANTS
    Uuids = {u1, u2, u3}
    Clients = {a, b}
    Primaries = {a, b}
    NULL = NULL
    MaxDepth = 2
    MaxVersion = 3
    GroupMax = 2
    FusionDepth = 2
    Overfetch = 1
    MaxDoublings = 1
    RrfK = 60
    Penalty <- Halves
    MutualK = 2
    MaxChunks = 5
SPECIFICATION MCSpec
SYMMETRY Symmetry
INVARIANTS
    ReceiptsCurrent
    Acyclic
    HeirsLead
    RankingNeverStalls
    ProbesTellTruth
    PlansCohere
PROPERTIES
    RetiredFrozen
    EdgeTargetsHold
    WritesAreLicensed
