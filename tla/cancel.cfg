CONSTANTS
    o1 = o1
    o2 = o2
    OrderIds = {o1, o2}
    StartingCapital = 3600
    Leverage = 1
    Quantities = {1, 2}
    MaxOpen = 2
    Prices = {720}
    PriceTypes = {"MARKET", "LIMIT"}
    Products = {"MIS", "CNC"}
    InitialHoldings = 1
SPECIFICATION Spec
PROPERTY
    CancelReturnsWhatWasBlocked
CHECK_DEADLOCK FALSE
