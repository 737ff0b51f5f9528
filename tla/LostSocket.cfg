CONSTANTS
    Services = {s1, s2, s3}
    Clients = {c1, c2}
    Inodes = {i1, i2}
    NULL = NULL
SPECIFICATION Spec
INVARIANT LiveSocketsStay
SYMMETRY Symmetry
