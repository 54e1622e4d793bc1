SPECIFICATION FairSpec
CONSTANTS
    NumAims = 2
    Tier1 = {1, 2}
    Tier23 = {}
    SeedTypes <- MCTypes
    ScanAim = 0
    Required <- MCRequired
    MaxObs = 0
    ZeroStreak = 1
    AboveStreak = 1
    Tasks = {"daily", "weekly"}
    MaxFaults = 0
PROPERTIES
    StreakIsSuppressed
    DiversityRestored
CHECK_DEADLOCK FALSE
