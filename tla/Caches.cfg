SPECIFICATION FairSpec
CONSTANTS
    Instances = {i1, i2}
    Requests = {r1, r2}
    MaxRequests = 3
    MaxCallFaults = 1
    None = None
    Contents = {ta, tb}
    Callers = {c1, c2, c3}
    MaxCalls = 4
    NoDomain = NoDomain
    Syncs = {s1, s2}
    MaxClicks = 3
    JourneyIds = {j1, j2}
    Editors = {e1}
    Triggers <- MCTriggers
    TriggerEvents <- MCTriggerEvents
    MaxEdits = 2
    MaxMishaps = 1
INVARIANTS
    CachesFollowTable
    LinksOnVerifiedDomains
    EveryActiveJourneyStarts

    
CHECK_DEADLOCK FALSE
