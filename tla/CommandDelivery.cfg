SPECIFICATION FairSpec
CONSTANTS
    t1 = t1
    m1 = m1
    n1 = n1
    o1 = o1
    o2 = o2
    Towers = {t1}
    ParityOf <- MCParity
    Batches = {m1, n1}
    Exempt = {n1}
    Hash <- MCHash
    Orders = {o1, o2}
    OrdersOf <- MCOrders
    WithEntry = {o1}
    WithStop = {o1}
    ReadCount = 2
    PendingCount = 2
    MaxDay = 2
    MaxFaults <- MCFaults
CONSTRAINT TwoFaults
INVARIANTS PendingIsInHand NoSignalLost EntriesBounded TakenIsOpen
    NakedNeedsFault NoOrphanTarget
PROPERTY SignalIsHandled
CHECK_DEADLOCK FALSE
