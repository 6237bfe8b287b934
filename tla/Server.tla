-------------------------------- MODULE Server --------------------------------
(***************************************************************************)
(* The parts of the server that work beside order execution.  They keep    *)
(* their state in tables, files and queues of their own and none of them   *)
(* reads what another writes, so that any behaviour of the server is, for  *)
(* each part, a behaviour of that part alone: this module explores them    *)
(* one at a time.  The part that is not explored stands still.             *)
(***************************************************************************)
EXTENDS Integers, Sequences, FiniteSets

CONSTANTS
    MaxStops,                                           \* stops of the server
    Settlers, Bought, Held, MaxFills,                              \* Settlement
    Listers, CatchUps, Expired, Stale, Pnl,                        \* Expiry
    Clients, SquareOffJobs, Backup, OrderIds, Quantities,
    MaxOrders,                                                     \* SquareOff
    QueuedOrders, MultiOrders, SmartOrders, Tabs,                  \* ActionCenter
    DownloadJobIds, Items, Workers, JobRequests, MaxEvents,        \* DownloadJobs
    Users, Timers, Restorers, MaxProcesses,                        \* StrategyHost
    Modes, Webhooks, EndTime, SquareOffMinute, Patience,
    MaxSignals,                                                    \* SignalQueue
    Subscribers, Instruments, MaxSymbols, Scenarios, MaxLogins,
    MaxFailures,                                            \* SubscriptionProxy
    Toggles, Pollers, Watchers, Loops, EngineSettings       \* EngineThreads

\* An order has a quantity.
ASSUME QuantitiesAssumption == Quantities \subseteq Int \ {0}

\* Symbols and positions are numbers, and quantities are.  A position may be both
\* in an expired contract and a stale intraday one; a thread lists or catches up.
ASSUME SettlementAssumption ==
    /\ DOMAIN Bought \subseteq Nat /\ IsFiniteSet(DOMAIN Bought \cup DOMAIN Held)
    /\ Bought \in [DOMAIN Bought -> Int]
    /\ Held \in [DOMAIN Held -> Int]

ASSUME ExpiryAssumption ==
    /\ Expired \cup Stale \subseteq Nat /\ IsFiniteSet(Expired \cup Stale)
    /\ Pnl \in [Expired \cup Stale -> Int]
    /\ Listers \cap CatchUps = {}

\* The items of a download job are numbers, too.
ASSUME DownloadAssumption == Items \subseteq Nat

\* A strategy that is only SHORT mirrors a LONG one.
ASSUME ModesAssumption == Modes \subseteq {"LONG", "BOTH"}

\* The join at a shutdown is long enough for some orders.
ASSUME PatienceAssumption == Patience \in Nat

\* A connection has room for a symbol, and the modes are 1 to 3.
ASSUME SymbolsAssumption ==
    /\ IsFiniteSet(Instruments)
    /\ MaxSymbols \in Nat \ {0}
    /\ \A s \in Scenarios, c \in Subscribers : s.feeds[c] \subseteq Instruments \X (1 .. 3)

\* The request of the start is one of the requests; no thread has the number 0.
ASSUME EnginesAssumption == 1 \in Toggles /\ 0 \notin Pollers \cup Loops

VARIABLES
    part,   \* the part that is explored
    stPositions, stHoldings, stFunds, stJob, stFills, stStops, stOwned, stUpset,
    exOpen, exFunds, exJob, exStops, exBooked, exUpset,
    soPast, soPosition, soBook, soCall, soRequests,
    acRow, acBroker, acCall, acStops, acSent, acUpset,
    djStatus, djItems, djEvent, djCleared, djQueue, djWorker, djRequest,
    djFreezing, djEvents, djStops, djUpset,
    shAlive, shSpawned, shTracked, shConfig, shReady, shThread, shRestarts,
    shUpset,
    sqMode, sqNow, sqRegular, sqSmart, sqPosition, sqSender, sqWebhook,
    sqSquared, sqStopping, sqPatience, sqSignals, sqWanted, sqLoad, sqUpset,
    spScenario, spAuthenticated, spWants, spAdapter, spRegistered, spPool, spCall,
    spMail, spLogin, spLogins, spFailures, spLost, spKept,
    etSetting, etMode, etCall, etLock, etStopEvent, etThread, etPoller, etWatching,
    etWatcher, etWs, etRunning, etPolls, etLoopThread, etLoop, etMonitor,
    etFailed, etCrossed, etSlow

stVars == <<stPositions, stHoldings, stFunds, stJob, stFills, stStops, stOwned,
            stUpset>>
exVars == <<exOpen, exFunds, exJob, exStops, exBooked, exUpset>>
soVars == <<soPast, soPosition, soBook, soCall, soRequests>>
acVars == <<acRow, acBroker, acCall, acStops, acSent, acUpset>>
djVars == <<djStatus, djItems, djEvent, djCleared, djQueue, djWorker, djRequest,
            djFreezing, djEvents, djStops, djUpset>>
shVars == <<shAlive, shSpawned, shTracked, shConfig, shReady, shThread,
            shRestarts, shUpset>>
sqVars == <<sqMode, sqNow, sqRegular, sqSmart, sqPosition, sqSender, sqWebhook,
            sqSquared, sqStopping, sqPatience, sqSignals, sqWanted, sqLoad, sqUpset>>
spVars == <<spScenario, spAuthenticated, spWants, spAdapter, spRegistered, spPool,
            spCall, spMail, spLogin, spLogins, spFailures, spLost, spKept>>
etVars == <<etSetting, etMode, etCall, etLock, etStopEvent, etThread, etPoller,
            etWatching, etWatcher, etWs, etRunning, etPolls, etLoopThread, etLoop,
            etMonitor, etFailed, etCrossed, etSlow>>

vars == <<part, stVars, exVars, soVars, acVars, djVars, shVars, sqVars, spVars,
          etVars>>

ST == INSTANCE Settlement WITH
    positions <- stPositions, holdings <- stHoldings, funds <- stFunds,
    job <- stJob, fills <- stFills, stops <- stStops, owned <- stOwned,
    upset <- stUpset

EX == INSTANCE Expiry WITH
    open <- exOpen, funds <- exFunds, job <- exJob, stops <- exStops,
    booked <- exBooked, upset <- exUpset

SO == INSTANCE SquareOff WITH
    Jobs <- SquareOffJobs, MaxRequests <- MaxOrders,
    past <- soPast, position <- soPosition, book <- soBook, call <- soCall,
    requests <- soRequests

AC == INSTANCE ActionCenter WITH
    Orders <- QueuedOrders, Multi <- MultiOrders, Smart <- SmartOrders,
    Requests <- Tabs,
    row <- acRow, broker <- acBroker, call <- acCall, stops <- acStops,
    sent <- acSent, upset <- acUpset

DJ == INSTANCE DownloadJobs WITH
    Jobs <- DownloadJobIds, Requests <- JobRequests,
    status <- djStatus, items <- djItems, event <- djEvent,
    cleared <- djCleared, queue <- djQueue, worker <- djWorker,
    request <- djRequest, freezing <- djFreezing, events <- djEvents,
    stops <- djStops, upset <- djUpset

SH == INSTANCE StrategyHost WITH
    MaxRestarts <- MaxStops,
    alive <- shAlive, spawned <- shSpawned, tracked <- shTracked,
    config <- shConfig, ready <- shReady, thread <- shThread,
    restarts <- shRestarts, upset <- shUpset

SQ == INSTANCE SignalQueue WITH
    SquareOffTime <- SquareOffMinute,
    mode <- sqMode, now <- sqNow, regular <- sqRegular, smart <- sqSmart,
    position <- sqPosition, sender <- sqSender, webhook <- sqWebhook,
    squared <- sqSquared, stopping <- sqStopping, patience <- sqPatience,
    signals <- sqSignals, wanted <- sqWanted, load <- sqLoad, upset <- sqUpset

SP == INSTANCE SubscriptionProxy WITH
    scenario <- spScenario, authenticated <- spAuthenticated, wants <- spWants,
    adapter <- spAdapter, registered <- spRegistered, pool <- spPool,
    call <- spCall, mail <- spMail, login <- spLogin, logins <- spLogins,
    failures <- spFailures, lost <- spLost, kept <- spKept

ET == INSTANCE EngineThreads WITH
    Requests <- Toggles, Settings <- EngineSettings,
    setting <- etSetting, mode <- etMode, call <- etCall, lock <- etLock,
    stopEvent <- etStopEvent, thread <- etThread, poller <- etPoller,
    watching <- etWatching, watcher <- etWatcher, ws <- etWs,
    running <- etRunning, polls <- etPolls, loopThread <- etLoopThread,
    loop <- etLoop, monitor <- etMonitor, failed <- etFailed,
    crossed <- etCrossed, slow <- etSlow

Parts == {"settlement", "expiry", "square-off", "action center", "downloads",
          "strategies", "signals", "subscriptions", "engines"}

\* Where a part has several initial states, one is enough while it stands still.
Init ==
    /\ part \in Parts
    /\ ST!Init /\ EX!Init /\ SO!Init /\ AC!Init /\ DJ!Init /\ SH!Init /\ SQ!Init
    /\ SP!Init /\ ET!Init
    /\ part # "expiry" => exOpen = {}
    /\ part # "signals" => sqMode = CHOOSE m \in Modes : TRUE
    /\ part # "subscriptions" => spScenario = CHOOSE e \in Scenarios : TRUE
    /\ part # "engines" => ~etMode
    /\ part # "engines" => etSetting = CHOOSE e \in EngineSettings : TRUE

Settle ==
    /\ part = "settlement" /\ ST!Next
    /\ UNCHANGED <<part, exVars, soVars, acVars, djVars, shVars, sqVars, spVars, etVars>>
Expire ==
    /\ part = "expiry" /\ EX!Next
    /\ UNCHANGED <<part, stVars, soVars, acVars, djVars, shVars, sqVars, spVars, etVars>>
SquareOff ==
    /\ part = "square-off" /\ SO!Next
    /\ UNCHANGED <<part, stVars, exVars, acVars, djVars, shVars, sqVars, spVars, etVars>>
Approve ==
    /\ part = "action center" /\ AC!Next
    /\ UNCHANGED <<part, stVars, exVars, soVars, djVars, shVars, sqVars, spVars, etVars>>
DownloadData ==
    /\ part = "downloads" /\ DJ!Next
    /\ UNCHANGED <<part, stVars, exVars, soVars, acVars, shVars, sqVars, spVars, etVars>>
Host ==
    /\ part = "strategies" /\ SH!Next
    /\ UNCHANGED <<part, stVars, exVars, soVars, acVars, djVars, sqVars, spVars, etVars>>
Signal ==
    /\ part = "signals" /\ SQ!Next
    /\ UNCHANGED <<part, stVars, exVars, soVars, acVars, djVars, shVars, spVars, etVars>>
Subscribe ==
    /\ part = "subscriptions" /\ SP!Next
    /\ UNCHANGED <<part, stVars, exVars, soVars, acVars, djVars, shVars, sqVars, etVars>>
Switch ==
    /\ part = "engines" /\ ET!Next
    /\ UNCHANGED <<part, stVars, exVars, soVars, acVars, djVars, shVars, sqVars, spVars>>

Next ==
    \/ Settle \/ Expire \/ SquareOff \/ Approve \/ DownloadData \/ Host
    \/ Signal \/ Subscribe \/ Switch

Spec == Init /\ [][Next]_vars

-----------------------------------------------------------------------------
(* The fairness of each part, for the one that is explored *)

FairSettlement ==
    \A t \in Settlers : WF_stVars(part = "settlement" /\ ST!Daily(t))

FairExpiry ==
    \A t \in EX!Threads :
        WF_exVars(part = "expiry" /\ (EX!Begin(t) \/ EX!Step(t)))

FairSquareOff ==
    /\ WF_soVars(part = "square-off" /\ SO!SquareOffTime)
    /\ \A j \in Backup :
          /\ WF_soVars(part = "square-off" /\ (SO!StartPass(j) \/ SO!JobStep(j)))
          /\ SF_soVars(part = "square-off" /\ \E o \in OrderIds : SO!InsertClosing(j, o))
          /\ SF_soVars(part = "square-off" /\ \E o \in OrderIds : SO!FillClosing(j, o))

FairApproval == \A r \in Tabs : WF_acVars(part = "action center" /\ AC!Step(r))

FairDownloads ==
    \A w \in Workers : WF_djVars(part = "downloads" /\ DJ!Work(w))

FairSpec ==
    /\ Spec
    /\ FairSettlement /\ FairExpiry /\ FairSquareOff
    /\ FairApproval /\ FairDownloads

-----------------------------------------------------------------------------
(* Properties: those of the parts, stated and explained there *)

\* Settlement: shares neither appear nor vanish in a settlement, bought ones not
\* even in stops and overlaps, money moves with them, row by row, and a reader of
\* both tables sees at most one row too many.
SettlementKeepsShares == ST!SettlementKeepsShares
NoPurchaseVanishes == ST!NoPurchaseVanishes
WorthKept == ST!WorthKept
SettlesRowByRow == ST!SettlesRowByRow

\* Expiry: what is closed is booked once, also where a catch-up stops, and the
\* funds contain what was booked.
BookedOnce == EX!BookedOnce
FundsContainBookings == EX!FundsContainBookings

\* Every delivery position is settled, and every other position that should no
\* longer be open is closed, in the end and for good: EveryRowSettled of Settlement
\* and EveryPositionClosed of Expiry in one.
EverythingIsSettled ==
    <>[]((part = "settlement" => ST!Settled) /\ EX!Settled)

\* SquareOff: the session ends without positions and orders, and a session that
\* is over is not opened again by passes that overlap.
OverStaysOver == SO!OverStaysOver
SessionEndsFlat == SO!SessionEndsFlat

\* ActionCenter: the broker gets what was approved, once, the row tells so, and
\* no approved order stays without an answer, as far as the answer names an order.
SentAsDecided == AC!SentAsDecided
RowTellsWhatWasSent == AC!RowTellsWhatWasSent
ApprovedIsAnswered == AC!ApprovedIsAnswered

\* DownloadJobs: a completed job has downloaded every symbol, and a running one
\* does not hang.
CompletedMeansDownloaded == DJ!CompletedMeansDownloaded
RunningJobMovesOn == DJ!RunningJobMovesOn

\* StrategyHost: a strategy has one process, and none once its user stopped it.
OneProcess == SH!OneProcess
ManualStopHolds == SH!ManualStopHolds

\* SignalQueue: two queues keep the meaning of the signals, and a shutdown sends
\* what they contain as far as it waits.
SignalsKeepTheirOrder == SQ!SignalsKeepTheirOrder
ShutdownDrains == SQ!ShutdownDrains

\* SubscriptionProxy: what the clients ask for, what the pool records and what the
\* broker sends agree.
StreamsMatchSubscriptions == SP!StreamsMatchSubscriptions

\* EngineThreads: one engine runs in analyze mode and none in live mode, and the
\* server knows it.
EngineFollowsMode == ET!EngineFollowsMode
=============================================================================
