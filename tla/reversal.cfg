CONSTANTS
    o1 = o1
    o2 = o2
    OrderIds = {o1, o2}
    StartingCapital = 3600
    Leverage = 1
    Quantities = {1, 2}
    MaxOpen = 2
    Prices = {720}
    PriceTypes = {"MARKET"}
    Products = {"MIS"}
    InitialHoldings = 0
SPECIFICATION Spec
PROPERTY
    ReversalIsMargined
CHECK_DEADLOCK FALSE
