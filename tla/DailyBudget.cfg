SPECIFICATION Spec
CONSTANTS
    lon = lon
    pre = pre
    ny = ny
    apac = apac
    es = es
    nkd = nkd
    Sessions = {lon, pre, ny, apac}
    Order = {lon, ny, apac}
    OpenAt <- MCOpenAt
    ResetAt = 3
    Share <- MCShare
    Total = 12
    Exposure = 24
    Assets = {es, nkd}
    Bypass = {nkd}
    Topstep = TRUE
    Risk <- MCRisk
    Win = 10
    MaxDay = 2
    MaxTrades = 2
    MaxFaults = 1
INVARIANTS LedgerIsHistory ScreenedOnTodaysBudget TradeFitsDay ResetOncePerDay
CHECK_DEADLOCK FALSE
