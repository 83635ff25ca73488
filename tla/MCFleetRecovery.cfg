SPECIFICATION RecoverySpec
CONSTANTS
    p1 = p1
    p2 = p2
    w1 = w1
    w2 = w2
    None = None
    Primaries = {p1, p2}
    Workers = {w1, w2}
    MaxPass = 2
    MaxRemovals = 1
    MaxFaults = 1
INVARIANTS
    TypeOK
    OneReconciler
    
PROPERTIES
    NoRepeatedInvite
    ReconcilerLeaves
    ImplementsSingleFlight
CHECK_DEADLOCK FALSE
