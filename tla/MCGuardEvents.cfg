SPECIFICATION Spec
CONSTANTS
    b1 = b1
    b2 = b2
    h = h
    u = u
    Nobody = Nobody
    Bots = {b1, b2}
    Users = {h, u}
    InitRoles <- MCRoles
    InitRooms <- MCRooms
    InitRules <- MCRules
    MaxOps = 2
    MaxFaults = 1
INVARIANTS
    OneReaction
    DebtsPaid
    BlacklistedOut

    
SYMMETRY Symmetry
CHECK_DEADLOCK FALSE
