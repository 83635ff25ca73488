SPECIFICATION Spec
CONSTANTS
    u1 = u1
    u2 = u2
    h1 = h1
    h2 = h2
    Users = {u1, u2}
    Guarded = {u2}
    Handlers = {h1, h2}
    InitWar <- MCInitWar
    Threshold <- MCThreshold
    Window = 1
    Durations = {1}
    AutoDuration = 1
    QuarantineTime = 1
    MaxAudit = 3
    MaxTime = 2
    MaxOps = 2
    MaxCommands = 2
PROPERTIES
    WarLastsItsDuration
CHECK_DEADLOCK FALSE
