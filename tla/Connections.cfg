CONSTANTS
    w1 = w1
    w2 = w2
    r1 = r1
    r2 = r2
    Tasks = {w1, w2, r1, r2}
    Writers = {w1, w2}
    NULL = NULL
    PoolSize = 1
    MaxConns = 4
    MaxFaults = 2
SPECIFICATION Spec
SYMMETRY Symmetry
CHECK_DEADLOCK FALSE
INVARIANTS
    PoolHonest
    TransactionsAreOwn
    NothingLeftOpen
PROPERTIES
    AnswersAreTrue
