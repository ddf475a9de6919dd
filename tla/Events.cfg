SPECIFICATION FairSpec
CONSTANTS
    e1 = e1
    r1 = r1
    h1 = h1
    h2 = h2
    w1 = w1
    w2 = w2
    Hosts = {h1, h2}
    Workers = {w1, w2}
    HostOf <- MCHostOf
    Genuine = {e1}
    Rejected = {r1}
    SendsOf <- MCSendsOf
    BatchSize = 2
    Retries = 1
    MaxExpiries = 1
    MaxFaults = 2
    MaxEnds = 1
    DeliveryLimit = 2
INVARIANTS
    PayloadsAccounted
PROPERTIES
    EventuallySettled
CHECK_DEADLOCK FALSE
