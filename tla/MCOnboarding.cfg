SPECIFICATION OnboardingSpec
CONSTANTS
    a1 = a1
    a2 = a2
    a3 = a3
    Names = {a1, a2, a3}
    NewAccount = a1
    QueueSize = 2
    MaxEmits = 4
    MaxWire = 2
    MaxChallenges = 2
INVARIANTS
    AskedOnce
    ErrorReported
PROPERTIES
    VerdictHeard
    Ends
CHECK_DEADLOCK FALSE
