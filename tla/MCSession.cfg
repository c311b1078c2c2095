SPECIFICATION FairSpec
CONSTANTS
    s1 = s1
    s2 = s2
    Servers <- OneServer
    Cleanup = TRUE
    MaxCalls = 4
INVARIANTS
    RepliesInStep
    StopMeansKilled
PROPERTIES
    CallsReturn
    CleanedUp
CHECK_DEADLOCK FALSE
