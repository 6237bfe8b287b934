CONSTANTS
    MaxStops = 1
    Settlers = {1, 2}
    Bought <- BoughtAndSold
    Held <- HeldBefore
    MaxFills = 1
    Listers = {1, 2}
    CatchUps = {3}
    Expired = {1, 2}
    Stale = {2, 3}
    Pnl <- ClosingPnl
    Clients = {3}
    SquareOffJobs = {1, 2}
    Backup = {2}
    OrderIds = {1, 2, 3}
    Quantities <- OrderQuantities
    MaxOrders = 2
    QueuedOrders = {1, 2}
    MultiOrders = {2}
    SmartOrders = {1}
    Tabs = {1, 2}
    DownloadJobIds = {1}
    Items = {1, 2}
    Workers = {1, 2}
    JobRequests = {3}
    MaxEvents = 2
    Users = {1}
    Timers = {2}
    Restorers = {3}
    MaxProcesses = 2
    Modes = {"LONG", "BOTH"}
    Webhooks = {1, 2}
    EndTime = 0
    SquareOffMinute = 1
    Patience = 2
    MaxSignals = 2
    Subscribers = {1, 2}
    Instruments = {1, 2}
    MaxSymbols = 1
    Scenarios <- OneOrTwoConnections
    MaxLogins = 1
    MaxFailures = 2
    Toggles = {1, 2}
    Pollers = {1, 2}
    Watchers = {1, 2}
    Loops = {1, 2}
    EngineSettings <- WithAndWithoutFallback
SPECIFICATION FairSpec
INVARIANTS
    SettlementKeepsShares
    NoPurchaseVanishes
    WorthKept
    BookedOnce
    FundsContainBookings
    SentAsDecided
    RowTellsWhatWasSent
    CompletedMeansDownloaded
    OneProcess
    ManualStopHolds
    SignalsKeepTheirOrder
    ShutdownDrains
    StreamsMatchSubscriptions
    EngineFollowsMode
PROPERTIES
    EverythingIsSettled
    SettlesRowByRow
    OverStaysOver
    SessionEndsFlat
    ApprovedIsAnswered
    RunningJobMovesOn
CHECK_DEADLOCK FALSE
