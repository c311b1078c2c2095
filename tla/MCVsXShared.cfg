SPECIFICATION Spec
CONSTANTS
    a1 = a1  b1 = b1  a2 = a2  a3 = a3
    shared = shared  own = own  alice = alice  bob = bob
    None = None
    V <- Sharers
    Server <- MCServer
    Shared <- MCShared
    SrvOf <- MCSrvOf
    UidOf <- MCUidOf
    MaxClients = 2
    Mortal <- Everyone
    ShortNaps = TRUE
    Unstable <- Everyone
    SsmMayEnd = TRUE
INVARIANTS
    OneXServer
PROPERTY
    AdmittedWithinShares
CHECK_DEADLOCK FALSE
