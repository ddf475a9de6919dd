SPECIFICATION Spec
CONSTANTS
    Sessions <- MCSessions
    Deliveries <- MCDeliveries
    MsgOf <- MCMsgOf
    Requests <- MCRequests
    Flows <- MCFlows
    MaxIncidents = 1

    
PROPERTIES
    NoNodeAfterCancel
    TimedJourneyEnds
CHECK_DEADLOCK FALSE
