CONSTANTS
    o1 = o1
    o2 = o2
    o3 = o3
    OrderIds = {o1, o2, o3}
    StartingCapital = 25
    Leverage = 1
    Quantities = {1, 2}
    MaxOpen = 2
    Prices = {7, 10}
    PriceTypes = {"MARKET", "LIMIT", "SL-M"}
    Products = {"MIS", "CNC"}
    InitialHoldings = 1
SPECIFICATION Spec
SYMMETRY OrderSymmetry
INVARIANTS
    TypeOK
    MoneyConserved
    QuantityMatchesTrades
PROPERTIES
    RoundingIsBounded
    PnlReachesFunds
    FillReconciles
    PlacingNeverOverdraws
    ImplementsLifecycle
CHECK_DEADLOCK FALSE
