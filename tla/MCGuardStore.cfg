SPECIFICATION Spec
CONSTANTS
    u1 = u1
    u2 = u2
    b1 = b1
    g1 = g1
    Blank = Blank
    MIDs = {u1, u2, b1}
    Accounts = {b1}
    Groups = {g1}
    InitFiles <- MCInitFiles
    MaxFailures = 1
INVARIANTS
    TypeOK
    RolesExclusive
    ProtectedNotBlacklisted
    RestartKeepsState
PROPERTIES
    CreatorSurvives
    HierarchyRespected
SYMMETRY Symmetry
