SPECIFICATION Spec
CONSTANTS
    c1 = c1
    c2 = c2
    c3 = c3
    None = None
    Callers = {c1, c2, c3}
    MaxCalls = 3
    MaxCrashes = 1
INVARIANTS
    TypeOK
    RestartCanRefresh
    RefreshTokenCurrent
PROPERTIES
    RefreshedOnce
    CallsEnd
CHECK_DEADLOCK FALSE
