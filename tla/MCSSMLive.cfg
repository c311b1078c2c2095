SPECIFICATION LiveSpec
CONSTANTS
    root = root
    alice = alice
    own = own
    shared = shared
    NoWait = NoWait
    Root = root
    Uid <- MCUid
    Server <- OneServer
    SharedServer <- OneServer
    ShareLimit <- MCShareLimit
    MaxConn = 2
    Conn <- MCConn
    MaxAllocs = 2
    Wishes <- SharedWish
    TcpPeers = TRUE
    Polls = TRUE
    Strangers = TRUE
    LateDeaths = FALSE
    LeaveAlive = FALSE
PROPERTIES
    RemovedOnBehalfOf
    WaitersReleased
    DepartedCleanedUp
    DeadXForgotten
