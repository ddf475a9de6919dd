SPECIFICATION EitherSpec
CONSTANTS
    s1 = s1
    s2 = s2
    Slots <- MCSlots
    Workloads <- MCWorkloads
    Recycle = FALSE
    MaxTroubles = 2
    Programs <- MCPrograms
    MaxNodes = 4
    MaxUpsets = 1
    Trips <- MCSlots
    MaxMishaps = 2
    MaxRetries = 2
    MaxSetbacks = 6
    FailureThreshold = 2
INVARIANTS
    ReportsMatchEffects
    AttributesLostOnlyToStaleCopies
    CountsAndPathsAreRight
    
    WorkersKeepTrying
PROPERTIES
    NodeDecided
CHECK_DEADLOCK FALSE
