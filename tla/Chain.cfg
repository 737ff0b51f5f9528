CONSTANTS
    Uuids = {u1, u2, u3, u4}
    Clients = {a}
    Primaries = {a}
    NULL = NULL
    MaxDepth = 2
    MaxVersion = 2
SPECIFICATION RecordsSpec
SYMMETRY Symmetry
INVARIANT LatestResolves
