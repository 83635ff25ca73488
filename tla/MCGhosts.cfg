SPECIFICATION Spec
CONSTANTS
    p1 = p1
    p2 = p2
    g = g
    f = f
    Boss = Boss
    Nobody = Nobody
    Bots = {p1, p2, g}
    Foes = {f}
    InitScenes <- MCScenes
    MaxOps = 2
    MaxFaults = 1
INVARIANTS
    
    TicketClosed
    
    
SYMMETRY Symmetry
CHECK_DEADLOCK FALSE
