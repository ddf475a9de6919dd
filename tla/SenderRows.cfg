SPECIFICATION MCSpec
CONSTANTS
    p1 = p1
    c1 = c1
    c2 = c2
    h1 = h1
    h2 = h2
    Hosts = {h1, h2}
    Workers = {w1, w2}
    HostOf <- MCTwoHosts
    Pages <- MCOnePage
    ContactsOf <- MCTwoContacts
    RetryCount = 1
    ControlReliable = FALSE
    MaxOwnerActions = 2
    MaxRepacks = 1
    MaxFaults = 1
    DeliveryLimit = 2
    People = {c1, c2}
    SampleSize = 1
    MaxAsks = 2
    MaxUpsets = 1
SYMMETRY ReplicaSymmetry
INVARIANTS
    ContactsAccounted
    PagesReported
PROPERTIES
    RowsDecidedOnce
    ReviewsAreSound
CHECK_DEADLOCK FALSE
