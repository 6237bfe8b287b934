CONSTANTS
    o1 = o1
    o2 = o2
    c1 = c1
    e1 = e1
    w1 = w1
    OrderIds = {o1, o2}
    Clients = {c1}
    Pollers = {e1}
    Tickers = {w1}
    MaxCrashes = 1
    Quantity <- SignedQuantity
SPECIFICATION FairSpec
INVARIANTS
    PositionCountsTrades
PROPERTIES
    SerialOrderKeepsLifecycle
    ReachedOrderLeavesBook
CHECK_DEADLOCK FALSE
