SPECIFICATION FairSpec
CONSTANTS
    Dir <- Short
    Contracts = 1
    DInit = 1025
    Marks <- MCMarks
    Jitters <- MCJitters
    Fills <- MCFills
    Slip = 2
    SignalJitter = NoJitter
    NoStop = NoStop
    NoMark = NoMark
    NoJitter = NoJitter
    MaxPolls = 2
    MaxCrashes = 1
    MaxTimeouts = 1
    MaxRejects = 1
    MaxRedisFails = 1
CONSTRAINT OneTrouble
INVARIANTS BrokerHoldsTheStop ProfitIsLocked
PROPERTIES BrokerNeverWeakens TrailCatchesUp
CHECK_DEADLOCK FALSE
