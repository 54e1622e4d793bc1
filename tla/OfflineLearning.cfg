SPECIFICATION FairSpec
CONSTANTS
    a1 = a1
    a2 = a2
    Assets = {a1, a2}
    NoOutcome = NoOutcome
    NoAsset = NoAsset
    Queue <- MCQueue
    BatchCount = 2
    Cps <- MCCps
    SustainedWindow = 2
    MaxJobs = 2
    MaxCalibrations = 1
    MaxRuns = 1
    MaxFaults = 1
INVARIANTS LearnedAtMostOnce LossIsBounded
PROPERTIES DetectorsRemember JobsAreRun
