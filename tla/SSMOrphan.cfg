SPECIFICATION Spec
CONSTANTS
    root = root
    alice = alice
    own = own
    shared = shared
    NoWait = NoWait
    Root = root
    Uid <- OneUser
    Server <- OwnServer
    SharedServer <- NoServer
    ShareLimit <- MCShareLimit
    MaxConn = 2
    Conn <- MCConn
    MaxAllocs = 1
    Wishes <- OwnWish
    TcpPeers = FALSE
    Polls = FALSE
    Strangers = FALSE
    LateDeaths = TRUE
    LeaveAlive = FALSE
INVARIANT NoOrphan
