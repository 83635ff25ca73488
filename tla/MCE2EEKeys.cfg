SPECIFICATION Spec
CONSTANTS
    a1 = a1
    a2 = a2
    w1 = w1
    w2 = w2
    Accounts = {a1, a2}
    QRLogins = {a2}
    Workers = {w1, w2}
    User = User
    NoKey = NoKey
    MaxMsgs = 2
    MaxEvents = 2
    MaxGroups = 3
    MaxKeys = 4
SYMMETRY Interchangeable
INVARIANTS
    Reachable
    Readable
    Sends
CHECK_DEADLOCK FALSE
