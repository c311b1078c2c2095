SPECIFICATION Spec
CONSTANTS
    root = root
    alice = alice
    own = own
    shared = shared
    NoWait = NoWait
    Root = root
    Uid <- OneUser
    Server <- OneServer
    SharedServer <- OneServer
    ShareLimit <- MCShareLimit
    MaxConn = 3
    Conn <- MCConn
    MaxAllocs = 2
    Wishes <- SharedWish
    TcpPeers = TRUE
    Polls = TRUE
    Strangers = TRUE
    LateDeaths = FALSE
    LeaveAlive = FALSE
INVARIANTS
    XClientsToldToExit
    TablesCountXClients
    NoOrphan
    EntriesFound
