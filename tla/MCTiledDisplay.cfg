SPECIFICATION Spec
CONSTANTS
    None = None
    Displays <- AllDisplays
    Modes <- MCModes
    DefaultMode = "SXGA"
    Ports = 2
    MaxFB <- MCMaxFB
    Values <- MCValues
    MaxChanges = 2
INVARIANTS
    BlocksTile
    PanelsInPlace
    ScanoutsApart
    DrawnWhole
CHECK_DEADLOCK FALSE
