SPECIFICATION LiveSpec
CONSTANTS
    a1 = a1  b1 = b1  a2 = a2  a3 = a3
    shared = shared  own = own  alice = alice  bob = bob
    None = None
    V <- OneOfEach
    Server <- MCServer
    Shared <- MCShared
    SrvOf <- MCSrvOf
    UidOf <- MCUidOf
    MaxClients = 2
    Mortal <- Unshared
    ShortNaps = FALSE
    Unstable <- Sharing
    SsmMayEnd = FALSE
PROPERTIES
    StopsAlone
    UnwantedEnds
    AvailEnds
    WaitersHear
CHECK_DEADLOCK FALSE
