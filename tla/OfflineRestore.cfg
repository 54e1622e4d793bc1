SPECIFICATION Spec
CONSTANTS
    a1 = a1
    a2 = a2
    Assets = {a1, a2}
    NoOutcome = NoOutcome
    NoAsset = NoAsset
    Queue <- MCQueue
    BatchCount = 2
    Cps <- MCCalm
    SustainedWindow = 2
    MaxJobs = 4
    MaxCalibrations = 0
    MaxRuns = 1
    MaxFaults = 1
INVARIANT RestartKeepsDetectors
