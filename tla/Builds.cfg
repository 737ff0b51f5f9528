CONSTANTS
    p = p
    q = q
    f = f
    here = here
    there = there
    Procs = {p, q, f}
    Hosts = {here, there}
    HostOf <- TwoHosts
    Here = here
    Callers = {c1, c2}
    NULL = NULL
    MaxScans = 2
SPECIFICATION Spec
SYMMETRY Symmetry
INVARIANTS
    OneScanner
    RemovalsSpareBuilds
    AlreadyIndexingIsTrue
    SpawnsDoNotOverlap
