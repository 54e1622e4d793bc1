SPECIFICATION FairSpec
CONSTANTS
    lon = lon
    ny = ny
    mgc = mgc
    es = es
    NoSession = NoSession
    Sessions = {lon, ny}
    Assets = {mgc, es}
    OpenAt <- MCOpenAt
    HomeOf <- MCHomeOf
    TradedIn <- MCTradedIn
    Active = {mgc, es}
    Window = 1
    OrTicks = 1
    CutoffTicks = 2
    DayEnd = 4
    MaxDay = 1
    Attempts = 2
    MaxRuns = 2
    MaxAnswers = 0
    MaxFaults = 1
PROPERTY SessionCloses
CHECK_DEADLOCK FALSE
