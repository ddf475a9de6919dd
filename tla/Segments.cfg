SPECIFICATION MCFairSpec
CONSTANTS
    c1 = c1
    c2 = c2
    Contacts <- MCContacts
    SegmentEvents <- MCEvents
    Definitions <- MCDefinitions
    MaxEvents = 2
    MaxEdits = 1
    MaxMishaps = 1

    
    
PROPERTIES
    EveryEventCounts
CHECK_DEADLOCK FALSE
