CONSTANTS
    t1 = t1
    t2 = t2
    Threads = {t1, t2}
    Resetters = {}
    StartingCapital = 3
    Leverage = 1
    Amounts = {1}
    Pnls <- Loss
SPECIFICATION Spec
INVARIANT
    LockProtectsFunds
CHECK_DEADLOCK FALSE
