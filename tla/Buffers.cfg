SPECIFICATION FairBufferSpec
CONSTANTS
    Contacts = {c1, c2}
    NSegments = 2
    MaxBuffer = 2
    MaxMerged = 2
    MaxJobs = 2
    FailureThreshold = 2
    MaxCallbacks = 2
    MaxRuns = 3
    MaxArrivals = 3
    MaxFaults = 2
    MaxHappenings = 3
INVARIANTS
    BuffersKeepEvents
PROPERTIES
    EverythingEvaluated
CHECK_DEADLOCK FALSE
