CONSTANTS
    p1 = p1
    p2 = p2
    k1 = k1
    v1 = v1
    Procs <- MCProcs
    Keys <- MCKeys
    Values <- MCValues
    NotFound = NotFound
SPECIFICATION Spec
CHECK_DEADLOCK FALSE
INVARIANTS
    MapAccessExclusive
