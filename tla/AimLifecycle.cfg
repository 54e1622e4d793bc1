SPECIFICATION FairSpec
CONSTANTS
    NumAims = 2
    Tier1 = {1}
    Tier23 = {2}
    SeedTypes <- MCTypes
    ScanAim = 2
    Required <- MCRequired
    MaxObs = 2
    ZeroStreak = 1
    AboveStreak = 1
    Tasks = {"daily", "weekly", "monthly", "compact"}
    MaxFaults = 1
INVARIANTS
    ActiveIsGranted
CHECK_DEADLOCK FALSE
