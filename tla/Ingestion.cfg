SPECIFICATION FairIngestion
CONSTANTS
    Events = {e1, e2}
    Modes <- MCModes
    RequeueLimit = 1
    MaxFaults <- MCMaxFaults
INVARIANTS
    AcceptedIsKept

    
CHECK_DEADLOCK FALSE
