SPECIFICATION FairSpec
CONSTANTS
    Workers = {w1, w2}
    TotalPages = 2
    SentOf <- MCSentOf
    FailedOf <- MCFailedOf
    IsTestAB = TRUE
    SnapshotSkew = TRUE
    MaxCopies = 1
    MaxFaults = 2
    DeliveryLimit = 2
INVARIANTS
    CompletionJustified
    
    ReportsCount
PROPERTIES
    
    EventuallyCompleted
CHECK_DEADLOCK FALSE
