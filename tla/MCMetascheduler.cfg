CONSTANTS
    h1 = h1  h2 = h2  u1 = u1  u2 = u2  viz = viz  batch = batch
    NoCall = NoCall
    Call = {1, 2}
    Slot = {1, 2, 3}
    Uid = {u1, u2}
    Host = {h1, h2}
    Sched = {viz, batch}
    MayFail = {viz, batch}
    Res <- mcRes
    Gpu <- mcGpu
    HostOf <- mcHostOf
    ShareLimit <- mcShareLimit
    Weight <- mcWeight
    SchedNodes <- mcSchedNodes
    SchedList <- mcSchedList
    Requests <- allRequests
SPECIFICATION Spec
INVARIANTS
    IInv
    Exclusive
    WithinLimit
    OwnersMatch
    ReleaseNeverRaises
    ChoicesStand
    GpuHasReservation
    NodeIsWhole
PROPERTIES
    PoolSpec
