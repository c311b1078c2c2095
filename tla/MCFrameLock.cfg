SPECIFICATION Spec
CONSTANTS
    g1 = g1  g2 = g2  g3 = g3
    Chain <- ThreeGpus
    XServer <- TwoServers
    Port <- TwoPorts
    Layouts <- AnyLayout
    Rate <- TwoRates
    MaxCalls = 3
PROPERTY SuccessMeansLocked
CHECK_DEADLOCK FALSE
