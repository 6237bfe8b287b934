CONSTANTS
    o1 = o1
    o2 = o2
    OrderIds = {o1, o2}
    StartingCapital = 3600
    Leverage = 1
    Quantities = {1, 2}
    MaxOpen = 2
    Prices = {720, 1440}
    PriceTypes = {"MARKET", "LIMIT"}
    Products = {"CNC"}
    InitialHoldings = 1
SPECIFICATION Spec
INVARIANT
    NeverOversold
CHECK_DEADLOCK FALSE
