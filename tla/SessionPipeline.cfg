SPECIFICATION Spec
CONSTANTS
    lon = lon
    ny = ny
    mgc = mgc
    es = es
    NoSession = NoSession
    Sessions = {lon, ny}
    Assets = {mgc, es}
    OpenAt <- MCOpenAt
    HomeOf <- MCHomeOf
    TradedIn <- MCTradedIn
    Active = {mgc, es}
    Window = 1
    OrTicks = 1
    CutoffTicks = 2
    DayEnd = 4
    MaxDay = 2
    Attempts = 2
    MaxRuns = 2
    MaxAnswers = 1
    MaxFaults = 2
CONSTRAINTS OneKind AnsweredDay
INVARIANTS CloseOncePerRun FreshRange BreakoutSignalledOnce UntakenHasShadow
CHECK_DEADLOCK FALSE
