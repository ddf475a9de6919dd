SPECIFICATION Spec
CONSTANTS
    Clients = {c1, c2}
    MaxRuns = 2
    MaxRequests = 3
    MaxAttempts = 2
    MaxFaults = 2
    MaxCrashes = 1
INVARIANTS
    RowsFollowWorkflows
    HandedOverOnce
PROPERTIES
    StopIsFinal
CHECK_DEADLOCK FALSE
