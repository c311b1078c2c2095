SPECIFICATION TimersSpec
CONSTANTS
    c1 = c1  c2 = c2  c3 = c3
    Client <- MCClient
    Timeouts = {1, 3, 5}
    MaxTime = 8
    Idle = Idle
    Never = Never
INVARIANTS
    LatestInTime
PROPERTY
    TimedAnswered
