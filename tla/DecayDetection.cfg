SPECIFICATION Spec
CONSTANTS
    MaxRun = 2
    HazardNum = 1
    HazardDen = 2
    Likelihoods <- MCLikelihoods
    Returns <- MCReturns
    Allowance = 1
    DefaultLimit = 2
    Limits <- MCLimits
    MaxLimit = 2
    SustainedWindow = 2
    MaxObs = 4
INVARIANTS CpIsHazard SilentUntilCutOff ShiftIsBreached
CHECK_DEADLOCK FALSE
