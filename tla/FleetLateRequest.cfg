SPECIFICATION RecoverySpec
CONSTANTS
    p1 = p1
    p2 = p2
    w1 = w1
    w2 = w2
    None = None
    Primaries = {p1, p2}
    Workers = {w1, w2}
    MaxPass = 4
    MaxRemovals = 2
    MaxFaults = 0
INVARIANTS
    LateRequestServed
CHECK_DEADLOCK FALSE
