CONSTANTS
    t1 = t1
    t2 = t2
    r1 = r1
    r2 = r2
    Threads = {t1, t2}
    Resetters = {r1, r2}
    StartingCapital = 3
    Leverage = 1
    Amounts = {1}
    Pnls <- Loss
SPECIFICATION Spec
INVARIANT
    ResetOnce
CHECK_DEADLOCK FALSE
