SPECIFICATION FairSpec
CONSTANTS
    Bodies = {b1, b2}
    Prefetch = 2
    MaxChannels = 2
    MaxLosses = 1
    MaxCrashes = 1
    DeliveryLimit = 2
    Partitions = {p1}
    NoOffset = NoOffset
    MaxSessions = 3
INVARIANTS
    NoneLostNoneEarly
PROPERTIES
    SettlesOwnDelivery
    EventuallyFinished
CHECK_DEADLOCK FALSE
