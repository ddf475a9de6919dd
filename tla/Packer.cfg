SPECIFICATION FairSpec
CONSTANTS
    c1 = c1
    c2 = c2
    c3 = c3
    h1 = h1
    h2 = h2
    w1 = w1
    w2 = w2
    Hosts <- MCHosts
    Workers <- MCWorkers
    HostOf <- MCHostOf
    Contacts <- MCContacts
    Unreachable <- MCUnreachable
    BatchSize = 1
    MaxRequests = 2
    MaxControls = 1
    MaxFaults = 1
    DeliveryLimit = 2
INVARIANTS
    OncePerPass
    EveryoneServed
PROPERTIES
    PackSettles
CHECK_DEADLOCK FALSE
