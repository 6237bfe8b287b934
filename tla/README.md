# Verification of OpenAlgo

OpenAlgo is a Flask server that gives trading clients one API in front of some
thirty brokers. In *analyze mode* it does not call a broker: the **sandbox**
under `src/openalgo-server/sandbox/` accepts the orders itself, executes them
against live quotes and keeps funds, positions and holdings. Beside it the server
keeps state of its own for orders that wait for approval, downloads of historical
data, Python strategies that it hosts, signals that it queues and market data that its
clients subscribe. These are the
parts of the repository that own state and change it from several threads, and the
subject of this project; most of the rest forwards requests to brokers. The
directory holds TLA+ models, the TLC configurations that check them and TLAPS proofs
about them.

    tlc -workers 2 -config trading.cfg MCSandboxTrading    # any run below
    tlapm SandboxTrading_proofs.tla                        # the proofs: likewise of
                                                           # FundManager, OrderExecution,
                                                           # WsExecutionEngine, StrategyHost,
                                                           # Server, Settlements, Sums

`PROJECT.json` lists components, runs, mutants, hazards, findings, theorems and,
for every definition that models code, the source lines it stands for.

## 1. Inventory

All paths are below `src/openalgo-server/` unless they start with `src/`.

| Component | State | Operations | Interacts with |
|---|---|---|---|
| Order manager `sandbox/order_manager.py` | `sandbox_orders` | place, modify, cancel, list | blocks and releases margin at the fund manager; executes marketable orders at once through the execution engine; tells the WebSocket engine of resting orders |
| Execution engine `sandbox/execution_engine.py` | `sandbox_trades`, `sandbox_positions` | polling pass, price conditions, fill, netting | reads orders and quotes, releases margin, reconciles funds |
| Fund manager `sandbox/fund_manager.py` | `sandbox_funds`, a class-level `RLock` | initialise, check, block, release, settle, reset, reconcile | called by every other part |
| Position manager `sandbox/position_manager.py` | marks positions to market | close a position, settle expired contracts, session settlement | places MARKET orders, releases margin |
| Holdings manager `sandbox/holdings_manager.py` | `sandbox_holdings` | T+1 settlement | moves rows and margin, one fund commit for each position |
| WebSocket execution engine `sandbox/websocket_execution_engine.py` | index of open orders by symbol, reference counts of subscriptions, fallback flag, under a lock | rebuild, order placed, order completed, tick, start and stop fallback | market data service, execution engine |
| Engine thread `sandbox/execution_thread.py`, `blueprints/settings.py` | the mode, the running engine, handles of its threads, under a lock | switch the mode, start, stop, upgrade polling to WebSocket | both engines |
| Square-off `sandbox/squareoff_manager.py`, `squareoff_thread.py` | scheduler jobs | cancel MIS orders, close MIS positions, T+1, resets | order, position, holdings and fund managers |
| Catch-up `sandbox/catch_up_processor.py` | none | settles stale intraday positions and missed T+1 after a login | funds row, position and holdings managers |
| Database `database/sandbox_db.py` | the tables, one scoped session for each thread | commit, rollback | everything above |
| Service layer `services/sandbox_service.py` | none | dispatch, publish events | managers |
| Live order services, broker plugins, REST API, UI | at the broker | validate and forward | not part of the sandbox |
| Action center `database/action_center_db.py`, `services/pending_order_execution_service.py`, `blueprints/orders.py` | `pending_orders` | queue, approve, reject, delete, approve all, execute | live order services |
| Historify downloads `services/historify_service.py`, `database/historify_db.py` | job and item rows, `_running_jobs`, `_paused_jobs`, a pool of threads | create, pause, resume, cancel, delete, retry, clean up at a start | broker history APIs |
| Python strategy host `blueprints/python_strategy.py` | `RUNNING_STRATEGIES`, a file of configurations, operating system processes | start, stop, delete, timers, restore after a start or a login, reap | scheduler, master-contract hook |
| Webhook strategies `blueprints/strategy.py` | two order queues, one sending thread | webhook, square-off job, send, shut down | order API |
| WebSocket proxy `websocket_proxy/server.py`, `connection_manager.py`, `broker_factory.py` | clients and their subscriptions, the registered pools, each with its connections, counts and modes | authenticate, subscribe, unsubscribe, leave, recover from a stale token, discard at a login | broker adapters, market data service, logins (`database/auth_db.py`) |
| Market data service `services/market_data_service.py` | tick cache, subscribers, staleness | broadcast, subscribe | WebSocket engine |
| Event bus `utils/event_bus.py` | subscribers | publish | UI |
| Node server and React frontend `src/server.js` | option-chain caches | serve pages | brokers' APIs |

What is hard here, and what makes each part correct:

* **Orders worked on by several threads.** Request threads place and cancel; the
  polling engine loads all open orders and works through them with pauses; the
  WebSocket engine loads one order per tick. Fallback and upgrade let both engines
  run at once. No lock covers an order or a position row. An order must be executed
  at most once and never after its cancellation, and each trade must reach the
  position.
* **A chain of commits for each fill.** Trade and status, release of margin,
  position, reconciliation are separate commits. A failure or a restart may cut
  the chain anywhere.
* **One funds row.** Money must be conserved, an order must not spend what another
  has blocked, and `used_margin` must be what orders and positions hold. Most
  methods take the lock; the check before an order, the decision to reset and
  `reconcile_margin` do not.
* **Long sequences.** Netting has five branches, margin is computed from different
  prices on different paths, a modified order keeps the margin of the original, a
  reset deletes positions and keeps orders. Quantity, average, P&L and margin must
  agree after any sequence of legal calls.
* **Liveness.** An order whose price is reached must leave the book, and a caller of
  a locked fund operation must get an answer.
* **Settlement and expiry.** Work is committed item by item in loops that may fail,
  stop or overlap in the middle. Shares must be neither lost nor doubled, a closing
  must be booked once, and everything due must be settled in the end.
* **The end of the session.** Jobs of the scheduler overlap with each other and with
  requests under way; in the end there must be neither a position nor an order.
* **Approvals.** Two tabs may decide about one order, and nobody executes later what
  was approved. The broker must get exactly what was approved, and the row must say so.
* **Jobs, processes and queues.** Flags in rows, files and memory are read in one step
  and acted on in another, and survive a restart or do not. A job called complete must
  have its data, a strategy must have one process and none once it is stopped, and
  signals must keep their order.
* **Shared streams.** Clients share symbols in several modes, the pool asks the broker for
  the highest only, and one refused call, recovery or login can leave the index of the
  proxy, the books of the pool and the broker in three different states.
* **Engines started and stopped by several threads.** Requests, the watcher that upgrades
  and the health monitor start and stop engines whose threads may outlive their join. The
  engine that runs must be the one the mode asks for, and the only one.

The full list of hazards, each at its line, is in `PROJECT.json`.

## 2. Modules

| Module | Content |
|---|---|
| `SandboxFunds` | the funds row; each fund-manager method as an operator |
| `PositionNetting` | `_update_position`: the five netting branches as operators on a position row |
| `OrderLifecycle` | abstract specification: what a client may rely on about an order |
| `SandboxTrading` | the whole engine for one user, one instrument and one product; every handler is one action |
| `FundManager` | the fund manager under concurrent callers, commit by commit, with its lock |
| `MarginAccount` | abstract specification: what an order may rely on about its margin |
| `OrderExecution` | clients, polling engine and WebSocket engine on the same orders, commit by commit, with failures and restarts |
| `WsExecutionEngine` | how the WebSocket engine learns of orders and prices: index, reference counts, subscriptions, ticks, start and stop |
| `Settlement` | T+1 settlement of delivery positions, commit by commit, overlapping with itself, with fills, failures and a stop |
| `AtomicSettlement` | abstract specification: what a T+1 settlement comes to, row by row |
| `Expiry` | settlement of expired contracts and of stale intraday positions against the funds row |
| `SquareOff` | the end of the intraday session: cron and backup jobs, requests and fills |
| `ActionCenter` | orders that wait for approval: crossing decisions, batches, execution, record |
| `DownloadJobs` | Historify jobs: rows, memory, pool threads and requests |
| `StrategyHost` | one Python strategy: processes, memory, file, timers, restorations |
| `SignalQueue` | webhook signals, the two queues and the thread that sends |
| `SubscriptionProxy` | subscriptions of several clients on the pool of broker connections of their user |
| `EngineThreads` | which execution engine runs: requests that switch the mode, upgrade, fallback, joins that time out |
| `Server` | the nine parts above in one specification |
| `MC...` | what TLC needs in addition: symmetry, the constants that a `.cfg` cannot write |
| `SandboxTrading_proofs`, `FundManager_proofs`, `OrderExecution_proofs`, `WsExecutionEngine_proofs`, `StrategyHost_proofs` | theorems about the module of that name |
| `Server_proofs` | theorems about the server: those of the strategy host carried over; action center, square-off, downloads, signals, engine threads and subscriptions proved there |
| `Settlements_proofs` | theorems about the server: expiry and T+1 settlement |
| `Sums_proofs` | lemmas about sums over finite domains, on which all totals rest |

`SandboxTrading` composes `SandboxFunds` and `PositionNetting` and is shown to
implement `OrderLifecycle`. `FundManager` uses the same `SandboxFunds` operators
and splits them where another thread can come in; it is shown to implement
`MarginAccount` until a reconciliation or a reset. `OrderExecution` uses
`OrderLifecycle` order by order. `Settlement` is shown to implement `AtomicSettlement`
row by row while nothing disturbs it; the tables show each row in two commits, and what
a reader of the tables finds in between is stated and proved beside it.

`Server` puts the nine parts beside order execution together. Each keeps its state in
tables, files, queues, connections or handles of threads that no other reads, so a
behaviour of all is, seen from one part, a behaviour of that part with stuttering;
exploring one part at a time (`part` is chosen at the start and the others stand still)
therefore loses nothing, and the state spaces add up instead of multiplying. The two links
that exist are abstracted where they meet the part: a fill in `Settlement` and `SquareOff`
is an action of the environment, an order that `SignalQueue` sends is accepted or fails.

### Sequential engine: SandboxTrading

| Variable | Code |
|---|---|
| `funds` | row of `sandbox_funds`: available, used, realized |
| `position` | row of `sandbox_positions`; `row` says whether it exists |
| `holdings` | quantity of `sandbox_holdings` |
| `orders` | rows of `sandbox_orders`; `absent` is an id not handed out yet |
| `trades` | number of rows of `sandbox_trades` for each order |
| `blocked` | the clock is in the period where new MIS positions are refused |
| `traded` | history, no code: net quantity and cash of the trades since the last reset |

`PlaceOrder` is `place_order` with a quote, including the execution of a marketable
order and everything that the execution does. `PlaceOrderWithoutQuote` is the path
on which all quote attempts fail: a MARKET order then needs a position row to take
a price from. `RejectCncSale` records a delivery sale of shares the user does not
own. `ModifyOrder` and `CancelOrder` are the methods of the same name,
`ProcessOrder` is one order of an engine's pass, `CloseWholePosition` is
`close_position`, `ResetFunds` the weekly reset. A request that the code refuses
without writing is a stuttering step.

`_get_leverage` returns a configured number for the instrument; the model has one
instrument, so `Leverage` is a constant. Amounts are integers. The database rounds to two
decimals; average price and proportional margins are integer divisions in the model, and
run `trading` has prices whose averages do not always divide, so that what rounding does
is checked (`RoundingIsBounded`). The contract value by which the code multiplies a P&L is
1, as it is for every instrument but crypto contracts (execution_engine.py:499 and 577):
one instrument has one, and it scales each P&L alike. A closed order's row keeps only its
status, because no decision of the engine reads more of it.

### Concurrent funds: FundManager

Each thread of `Threads` runs the fund side of one order in an instrument of its
own: check, block, then cancel, or fill, validate, reconcile, close, and reconcile
again. A method under `_lock` is one step that needs the lock to be free, apart
from the reset, which commits twice. What runs without the lock is split at its
reads. `snapshot` is what a thread has read and will act on. The ORM writes only
the columns whose value changed with respect to the row it read: `Overwritten`
and `Reset` say which columns an UPDATE leaves alone.
`ReleaseFails` is the `except` path of `release_margin`, whose answer the closing fill does
not look at: the position is cleared and its margin stays blocked. In `cancel_order` the
status is in the same session, so that a failing release takes it back and nothing has
happened. `raced` and `disturbed` are history: a write from a row that another thread had
changed meanwhile; a failed release, a reconciliation or a reset.

### Concurrent orders: OrderExecution

A thread has orders in its `batch` (loaded, not yet looked at) or is `at` a step of one
order: about to commit a cancellation, about to commit the trade, about to read the
position, about to write it. `loaded` is the session of the thread: a row that it loaded
while the order was open, which still reads open until a commit of the thread expires it.
`reached` abstracts quotes: the market satisfies the order's condition. `FailExecution` is
the `except` branch of `_execute_order`, reachable from every statement of the fill
("database is locked", or the unique constraint when two fills insert the same position);
it marks the order rejected, or fails at that as well and leaves its status alone
(409-420). `Crash` restarts the process: only the tables survive. `MaxCrashes` bounds
restarts and double failures together. `overlapped`, `failed` and `raced` are history
variables that name what the code does not protect: an order in two hands at once, an
execution cut short, a position row written from a stale read.

### Orders and subscriptions of the WebSocket engine: WsExecutionEngine

| Variable | Code |
|---|---|
| `status` | `order_status` in the database |
| `client`, `tick`, `control` | program points of the request threads, of the thread that delivers ticks, of the thread that starts and stops the engine |
| `engine`, `created` | the singleton `_websocket_execution_engine`; a stop discards it and the next use makes another |
| `running`, `index`, `refs` | `_running`, `_pending_orders_index`, `_user_symbol_refcounts` of each instance |
| `registered` | the subscriber of `MarketDataService` |
| `requests`, `subscriptions` | messages on the connection; what the proxy has of it, by symbol and mode |
| `streams`, `streamCalls` | what Flow and the API want of the same connection |
| `missed`, `lost` | history: a subscription refused, skipped or released by a call for all streams; a rebuild that failed |

The engine, Flow and the API share one connection for each user
(`websocket_service.get_websocket_connection`), and the proxy takes its messages in
order. Ticks come to the engine inside the event loop of the proxy
(`process_market_data` in `zmq_listener`), so no message is handled during a tick: the
unsubscription that completes an order waits there for an answer that cannot come,
times out, and is handled after the tick. `HandleRequest` therefore needs `TickIdle`.
A caller outside the loop waits for its answer and ignores it; the model lets it go on
at once, which adds interleavings and removes none.

A subscription may be skipped (no API key, no connection) or refused by the broker;
the engine logs it and never tries again. `missed` remembers for which symbols, and
the properties make no promise about these.

### T+1 settlement: Settlement

`positions` and `holdings` are the rows, `job` is one settler: the rest of its query,
what its session has loaded, the holding it is about to write, and the rows it has
marked for deletion (`leaving`, `empty`). The point of the model is *which commit
carries what*: `transfer_margin_to_holdings` commits the session of its caller, so a
holding is in the database one commit before its position is gone. `Fund` is that
commit, `FundFails` its rollback, which takes the marks along and which the loop does
not notice, `Abort` the exception on a row that another settler has deleted. `owned`
and `upset` are history: what trades have left, and whether a stop, another settlement,
a fill or a failure came in between.

### Expired and stale positions: Expiry

`Look`, `Release` and `Clear` are `_settle_expired_position` with its two commits,
`Load` and `Settle` the catch-up with one. `job[t].seen` is what the session loaded;
`Overwrite` writes the columns that differ from what was read. `booked` counts how often
the closing of a position went into the funds. The query for expired contracts has no
product filter (position_manager.py:1231), so that an intraday contract that was not squared
off on its expiry day is in both lists, and both settlements may take it.

### End of the session: SquareOff

`position` and `book` are one instrument's MIS position and open orders with signed
quantities, `call` each thread's place in `place_order` or in `check_and_square_off`.
After the square-off time `place_order` accepts orders against the position only, of any
size, and looks at the position before the order is committed.

### Approvals: ActionCenter

`row` is the status of an order, `broker` what `update_broker_status` wrote. A decision
is two steps, the SELECT for a pending row (`Select`) and the UPDATE by id. `Multi` are
basket and split orders, whose answer is a success without an order id, whether the broker
takes some of their legs or none; `Smart` are orders that compare themselves with a position,
whose answer is the same when there is nothing to send. `Unnamed` is what the code does with
such an answer: neither branch (pending_order_execution_service.py:142 and 177) records
anything. `ExecuteFails` is the outer `except` (189), `UpdateFails` that of
`update_broker_status` (action_center_db.py:309), whose callers do not look.

### Downloads: DownloadJobs

`event` and `cleared` are the Event objects of `_paused_jobs`, which tell a worker to
pause; the worker keeps the object it found when it last looked. `request` is two steps,
the look at the status and the act. `freezing` says that a cancellation holds
`_job_state_lock` for good. A retry resets the items that it saw failed when it looked, one
commit for each (`ResetItem`), then the job, so that two of them may come across each other.

### Python strategies: StrategyHost

`alive` are processes of the operating system, `tracked` is `RUNNING_STRATEGIES`,
`config` what the file keeps, `ready` that there is a broker with a master contract. A
restart empties `tracked` and keeps `config`; children are sessions of their own, so
`alive` may survive it. `error` is "waiting" where the text of the error names the master
contract: `check_and_start_pending_strategies` tells by the text what to start
(python_strategy.py:2790), and finds the one that a restoration stores when the contract
went away just before the restart (2744) as well as the one that `Postpone` stores.

### Signals: SignalQueue

`smart` and `regular` are the queues, `sender` the thread; "look" is the moment after it
has found the smart queue empty. `wanted` is the position after all signals in the order
of their arrival. A shutdown waits thirty seconds for the thread (strategy.py:186), which
sleeps a second after each smart order: `Patience` is the number of orders that it sends
in that time if nothing delays it, `patience` what is left of it, and `GiveUp` the end of the
join. It may come early, when sending takes long ("slow"). `load` counts what a shutdown
found in the queues and in the hand of the thread, and what came after it.

### Shared streams: SubscriptionProxy

`wants` is `subscriptions` and `subscription_index`, `adapter` says that `broker_adapters`
has the user, `registered` that the pool behind it is the one in `_POOLED_ADAPTERS`. In
`pool`, `tracked` and `home` are `subscription_map`, `counts` is `adapter_symbol_counts`,
and `streams` is what the broker sends; the operators from `SubscribeInner` to
`UnsubscribeAll` return what each method of `ConnectionPool` may leave behind and answer.
`call` is the step of the event loop. The proxy's handlers do not wait between two calls of
the pool, so that no other message comes in between; a login runs in a thread of its own and
may discard the pool between any two calls, also in the middle of a recovery. `mail` is the
invalidation that it publishes. `lost` and `kept` are history: symbols that were cut off, or
are still streamed, after a failure that nobody is told of.

An adapter that accepts a subscription is taken to stream it. `authenticate_client` is one
step which finds, makes or fails to make the adapter of the user, its retries included; the
depth of a subscription is left out. All clients belong to one user: the index is not keyed
by user at all (server.py:1062), and two users' subscriptions of one symbol would release
each other's streams.

### Engine threads: EngineThreads

| Variable | Code |
|---|---|
| `mode` | `analyze_mode` of the settings |
| `call`, `lock` | the step of each request; `_thread_lock` and who holds it |
| `thread`, `poller` | `_execution_thread`, and the polling threads that exist |
| `watching`, `watcher`, `stopEvent` | `_auto_upgrade_thread`, the watchers that exist, `_auto_upgrade_stop_event` |
| `ws`, `running` | is `_websocket_engine` set, and `_running` of that engine |
| `polls`, `loopThread`, `loop` | its `_fallback_running` and `_fallback_thread`, and the loops that exist; an `old` one belongs to an engine that was stopped |
| `monitor` | is its health monitor waiting for the loop |
| `failed`, `crossed`, `slow` | history: the last start failed, requests have crossed, threads were forgotten before they ended |

A request commits the mode and then calls `start_execution_engine`, which is one step, or
`stop_execution_engine`, which holds the lock while it waits for the watcher, the loop and
the poller in turn. A watcher may wait for the same lock, so that the join of the watcher
times out, and goes on with what it finds after the stop. `Join` ends with its thread or
without it. Whether the proxy is up and its data fresh is the environment's choice. A
stop of the server leaves the mode only and is the initial state, in which request 1 is the
start's own call (`app.py`). The health monitor and a stop may both stop the fallback; the
model takes both to find its thread, and leaves out that the second may find `None`.

## 3. What is checked

Passing runs:

| Run | Properties | Question |
|---|---|---|
| `trading` | `TypeOK`, `MoneyConserved`, `QuantityMatchesTrades`, `RoundingIsBounded`, `PnlReachesFunds`, `FillReconciles`, `PlacingNeverOverdraws`, `ImplementsLifecycle` | Do money, position, P&L and order book agree after any sequence of operations, where averages divide and where they do not, does each P&L reach the funds, and does the engine implement the abstract order life? |
| `funds` | `ConservedUnlessRaced`, `UsedIsHeld`, `BlockNeverOverdraws`, `BlockReturns`, `KeepsAccount` | Does any interleaving of fund operations lose money, overdraw the account or block a caller, other than through the races named, and does each order get back once what it gave once? |
| `race` | `PositionCountsTrades`, `SerialOrderKeepsLifecycle`, `ReachedOrderLeavesBook` | With engines, clients, failures and a restart in any order: does an order that is in one hand at a time keep its life, does each trade reach the position, does a reached order leave the book? |
| `ws` | `NoOrderForgotten`, `RefsCoverIndex`, `OpenOrderIsStreamed`, `OpenOrderIsExecuted` | While the engine is started, stopped and started again and Flow uses the same connection: does the engine know every open order, is its symbol streamed, and is it executed in the end? |
| `server` | those of the next table | Does each part beside order execution keep its promise, and does its work end? |

The types of `FundManager`, `OrderExecution` and `WsExecutionEngine` are proved for all
constants (section 4) and no run repeats them.

| Part | Properties of `server` |
|---|---|
| `Settlement` | `SettlementKeepsShares`: an undisturbed settlement neither makes nor loses a share. `NoPurchaseVanishes`: stops and overlaps never lose a bought share. `WorthKept`: shares and money move in one commit, also through fills and failures. `SettlesRowByRow`: an undisturbed settlement implements `AtomicSettlement`, and a reader of both tables finds at any time at most one row twice, which is in the holdings and not deleted yet. |
| `Expiry` | `BookedOnce`: a closing is booked once, exactly when the row is closed, and the catch-up may stop anywhere. `FundsContainBookings`: the funds are the sum of the bookings. |
| both | `EverythingIsSettled`: what is due is settled and closed in the end, and stays so. |
| `SquareOff` | `OverStaysOver`: a session that is over is not opened again. `SessionEndsFlat`: in the end there is no position and no open order. |
| `ActionCenter` | `SentAsDecided`: the broker gets an order at most once, and no rejected one. `RowTellsWhatWasSent`: the row says whether the broker has it, or nothing if the answer named no order. `ApprovedIsAnswered`: an approved order gets an answer, in the same case none. |
| `DownloadJobs` | `CompletedMeansDownloaded`: a completed job has every symbol. `RunningJobMovesOn`: a running job ends or is paused. |
| `StrategyHost` | `OneProcess`: a strategy never trades twice. `ManualStopHolds`: what a user stopped stays stopped. |
| `SignalQueue` | `SignalsKeepTheirOrder`: the queues keep the meaning of the signals. `ShutdownDrains`: a shutdown sends what was queued, as far as its join waits. |
| `SubscriptionProxy` | `StreamsMatchSubscriptions`: a client gets the ticks it subscribed, nothing is streamed that nobody wants, and the counts that place a symbol on a connection are right. |
| `EngineThreads` | `EngineFollowsMode`: an engine runs in analyze mode and none in live mode, no two execute at once, and a stop finds every one that works. |

These parts protect little against each other's interleavings, and most properties name
what they do not survive in a history variable `upset`: crossing decisions, a stop between
a start and its record, a failing commit or an answer that is lost, a retry of a paused job,
a stop of a strategy that waits for the master contract, an exit that overtakes an entry. The
mutants show that each property still depends on the code within those limits. What
modelling showed beyond them, without a run of its own:

* `cancel_job` (historify_service.py:1857) holds `_job_state_lock` and calls
  `_cleanup_job` (1865), which takes it again. The lock is not reentrant, so the request
  never answers ("Job cancelled", 1870 and docs/prd/historify-api-reference.md:365) and
  every job waits at its next symbol. `freezing` models it.
* `delete_strategy` (python_strategy.py:1902) and `cleanup_on_exit` (2638) hold
  `PROCESS_LOCK` and call `stop_strategy_process`, which takes it again. The step
  "deleting" models it.
* The design of the sandbox (docs/design/07-sandbox/README.md:263) states `total_capital =
  available_balance + used_margin + realized_pnl`. The code keeps the equation with the
  profit and loss on the other side: `release_margin` adds it to the available balance
  (fund_manager.py:263), and so does a change of the capital (blueprints/sandbox.py:236).
  `MoneyConserved` is the equation of the code; the document's is wrong after the first close
  that gains or loses.
* A success without an order id leaves an approved order without any record
  (pending_order_execution_service.py:142-182), that of a basket whose legs were all refused
  no less than that of a smart order whose position already matches, and so does a failing
  commit of the record (action_center_db.py:309).
* A strategy that waits for the master contract is started without a look at
  `manually_stopped` (python_strategy.py:2787), also the one that a restoration could not
  restart because the contract went away in between: its error "Failed to restart: Master
  contract dependency not met" (2744) contains the text that the check looks for (2790).
* A shutdown gives up after thirty seconds (strategy.py:186), although its docstring promises
  to drain the remaining orders and each smart order takes a second. The thread is a daemon:
  what is left then is lost with the process.
* The settlement of expired contracts takes every position of its exchanges
  (position_manager.py:1231), the catch-up every stale intraday one, so that both may settle
  the same.
* The shutdown of the signal queue (strategy.py:183) relies on smart orders being seen
  first. A smart order and the pill that both arrive after the thread has found the smart
  queue empty are taken in the wrong order, and the smart order is lost.
* A login discards the pool after it has published the invalidation (auth_db.py:544 and
  561). A client that authenticates between the two gets a new adapter whose pool is then
  disconnected; `broker_adapters` and the index still have it, and no tick comes any more.
  Each handled invalidation also leaves the clients in the index without an adapter, until
  one of them authenticates again.
* A switch to a lower mode that the broker refuses is rolled back by a call whose answer
  nobody reads (connection_manager.py:844). If that fails too, the pool answers "Already
  subscribed" for a symbol that nobody streams.
* A pool that was discarded is not initialised any more, so that a recovery that was under
  way does not clear what it has connected since (connection_manager.py:412), and appends
  one more connection than `MAX_WEBSOCKET_CONNECTIONS` admits. The property therefore
  bounds the symbols of a connection and not the number of connections.
* Two requests that switch the mode may write it in one order and act in the other
  (settings.py:31 and 37), and leave live mode with an engine or analyze mode without.
  The Telegram bot (telegram_bot_service.py:2432) switches the mode and starts no engine.
* A thread that outlives its join is forgotten and goes on beside its successor, although
  execution_thread.py:97 says that only one instance will run. A loop of the fallback that
  outlives the ten seconds of websocket_execution_engine.py:352 finds `_fallback_running`
  set again when the data is stale once more, and there are two for good.
* A start of the WebSocket engine that cannot register reports success all the same
  (websocket_execution_engine.py:85 and 496). An upgrade then stops the poller and leaves no
  engine at all, and no watcher.
* A stop between a fund commit and the deletion of its row settles the row again; a
  failing fund operation loses the holding, for the row is deleted all the same
  (holdings_manager.py:187 and 241).

Properties with `~raced`, `~disturbed`, `overlapped` or `failed` in them say
exactly how far the code's guarantee goes; the violated runs below show that it goes
no further. `MoneyConserved` needs no such condition: the cancel and reversal
findings move money between available and used and keep the sum.

Runs that find a violation, each of a statement that the repository makes:

| Run | Statement | What the code does |
|---|---|---|
| `cancel` | `CancelReturnsWhatWasBlocked`; order_manager.py:866 | A CNC sale stores a margin it never blocked, and a cancellation gives it back; an order against the position stores 0 and is then treated as a row of an old release whose margin is computed anew |
| `reversal` | `ReversalIsMargined`; test_margin_scenarios.py:295 | The excess's share of the margin is taken twice, once when the order is placed and once when it fills |
| `oversell` | `NeverOversold`; order_manager.py:192 | A holding that was sold and is not settled yet is sold again, because a negative position counts as zero |
| `unlocked` | `LockProtectsFunds`; fund_manager.py:46 | `reconcile_margin` reads and writes the funds row without the lock |
| `double_reset` | `ResetOnce`; fund_manager.py:145 | Two callers that both decided to reset do so one after the other |
| `duplicate_fill` | `AtMostOneTrade`; execution_engine.py:250 | Two threads look for a trade before either has committed one |
| `streams` | `StreamOutlivesOthers`; server.py:1228 | An unsubscription names its mode once for the message, the proxy looks for it in each symbol and takes Quote: the engine's release of LTP drops the Quote stream of Flow |

`OpenOrderIsStreamed` holds today for a reason its authors did not intend. The engine
sends its subscriptions and releases outside its lock, so a release that was decided
first may arrive after the subscription of a new order. It does no harm because the
proxy never releases LTP on such a message. The mutant of this property,
`ReleasedInMode`, is the obvious repair of `streams`, and with it the new order is
left without ticks: the order of the two messages must be repaired first.

### Bounds

* `trading`: three orders, of quantity 1 or 2, prices 7 and 10, MARKET, LIMIT and SL-M, at
  most two orders in the book (`MaxOpen`), products MIS and CNC, one settled share to
  start with. Three orders open, add to, reduce, close and reverse a position, and reopen
  a closed row; two prices make profits, losses, marketable and resting orders; a capital
  of 25 lets one purchase succeed and the next one fail. The average of one share at each
  price is rounded, that of one and two is not. A closing order that is enlarged, or whose
  position is gone when it fills, opens a position without margin. SL adds no control that
  LIMIT and SL-M do not have; it is in the model, in the proofs, and left out of this run
  to keep it short. NRML differs from MIS only in the session check and is covered by the
  proofs. Order ids are symmetric: which unused id is chosen is immaterial, as
  `MCSandboxTrading` explains.
* `funds`: two orders, two callers that may find the reset due, which comes due
  once in a behaviour. Capital 3 and margin 2, so that the balance covers one order
  and not both: the second check passes on money that the first thread then blocks.
  Closing fills book a loss of 1.
* `race`: two orders of opposite sign on one instrument, one client, one poller, one
  ticker, one restart or one failure to mark a failed order (`MaxCrashes`). Each kind of
  thread meets each other kind on the same order; two orders make a batch that is stale
  for its second order.
* `ws`: two orders on one symbol, one request thread, two instances of the engine, so
  that it is stopped and started once (`MaxEngines`), and either two calls for streams
  or the stop (`MaxStreamCalls`: a stop takes the place of all of them, to keep the two
  sources of interleaving apart). Two orders are needed for a reference that outlives
  one order and for the next order that meets a late release; symbols are independent
  in the engine and the proxy, so one is enough. Orders are placed in the order of
  their ids, which is no restriction as they are alike.
* `server`: two threads of each kind that can meet, and one stop of the server
  (`MaxStops`, which bounds failing commits and lost answers as well). Settlement: a
  purchase and a sale of a holding, one fill. Expiry: two contracts and two stale
  positions with profits and losses, one of them both, any of them closed already.
  Square-off: one client with two orders of sizes 1 and -2, so that an order can be larger
  than the position it is against, a cron job and the backup. Action center: two tabs, a
  smart and a basket order. Downloads: one job of two symbols, two pool threads, one
  request at a time, the job set going twice (`MaxEvents`): created and retried.
  Strategies: one user, one timer, one restoration, two processes (`MaxProcesses`), which
  is what it takes to have one too many. Signals: two requests, two signals and the
  square-off's own, three minutes of the day, a join that waits for two orders
  (`Patience`), so that a shutdown meets fewer orders, as many or more, a strategy that is
  LONG and one that is BOTH. Subscriptions: two clients and one symbol on each connection,
  in two scenarios: one connection and a broker that keeps its session, with clients that
  share one symbol in the same and in another mode, so that modes cover each other, switch
  up and down and the pool is full; and two connections with two symbols, so that a symbol
  must find the connection with room. One login (`MaxLogins`) and two failures of the
  broker (`MaxFailures`): one refuses the token, the other the recovery. Engine threads:
  two pollers and two loops, in three scenarios: two requests that cross, with one
  watcher; one request and two watchers, so that one outlives the stop and meets its
  successor; and an engine with its fallback. 493 000 states in all, three to four
  minutes.
* The violated runs use the smallest instance that shows the behaviour.

`CHECK_DEADLOCK FALSE` is set throughout: the ids of a finite instance run out and all
orders may be closed, and the system then has nothing left to do.

### Fairness

`FundManager!Fairness` is weak fairness of what a thread does by itself inside a
call: the operating system runs every thread that can run. Requests and resets are
not assumed to come. `OrderExecution!Fairness` has weak fairness for the work of each
thread and for each new pass of the polling loop, which repeats until the engine is
stopped, and strong fairness of `ProcessOrder` for the pollers: an order whose price
is reached, and stays so, gets a quote again and again, so it is not skipped for
ever. There is no fairness for ticks, clients or the market: the poller alone
guarantees `ReachedOrderLeavesBook`. Restarts are bounded.

`WsExecutionEngine!Fairness` has weak fairness of the steps of each thread within its
call and strong fairness of three things that are enabled again and again without
being enabled for ever. `HandleRequest`: the event loop takes messages and ticks first
in, first out, so ticks do not keep a message waiting for ever. Ticks of a subscribed
symbol: the broker sends them all session long. `ExecuteOrder`: the price meets the
condition of an open order again and again; orders whose price never comes are not
what the property is about. Clients, starts, stops and Flow are not assumed to come.

In `Server` settlements, lists of positions and logins come again and again
(`FairSettlement`, `FairExpiry`): the jobs are scheduled every day and at every start.
Weak fairness of one action for each thread is enough, and failures and stops are bounded.
`FairSquareOff` asks only the backup job to come back every minute and to go on, with
strong fairness of inserting and executing its closing order: there is a price again and
again. Cron jobs, clients and fills may stop anywhere, so the backup alone guarantees
`SessionEndsFlat`. `FairApproval` is that a request which was begun goes on, and
`FairDownloads` that the threads of the pool do and a download comes to an end. Nothing is
assumed of users, timers and restarts, and `StrategyHost`, `SignalQueue`, `SubscriptionProxy`
and `EngineThreads` have no liveness: a process, a signal and a tick may be lost by design,
and a thread that hangs is what the joins with a timeout are for.

## 4. What is proved

TLAPS checks these for every value of the constants that meets the named
assumptions.

| Theorem | Statement | Assumptions |
|---|---|---|
| `NetAddsQuantity` | a fill changes the quantity by its signed quantity | order and row well typed, positive quantity |
| `SandboxTrading_proofs!TypeCorrect` | `Spec => []TypeOK` | capital natural, leverage positive, prices and quantities positive |
| `MoneyIsConserved` | `Spec => []MoneyConserved` | same |
| `PositionIsNetOfTrades` | `Spec => []QuantityMatchesTrades` | same |
| `BookImplementsLifecycle` | `Spec => ImplementsLifecycle` | same |
| `RoundingBounded` | `Spec => RoundingIsBounded` | same |
| `RealizedIsCashFlow` | `Spec /\ AveragesDivide` implies `[]RealizedMatchesCashFlow` | same |
| `PnlIsBooked` | `Spec => PnlReachesFunds` | same |
| `MarginedPnlIsBooked` | `Spec /\ []Margined` implies `[]RealizedIsBooked` | same |
| `FillsReconcile` | `Spec => FillReconciles` | same |
| `PlacingKeepsBalance` | `Spec => PlacingNeverOverdraws` | same |
| `FundManager_proofs!TypeCorrect` | `Spec => []TypeOK` | finitely many threads, none of which is a resetter |
| `MoneyConservedUnlessRaced` | `Spec => []ConservedUnlessRaced` | same |
| `BlockIsSafe` | `Spec => BlockNeverOverdraws` | same |
| `UsedMarginIsHeld` | `Spec => []UsedIsHeld` | same |
| `AccountIsKept` | `Spec => KeepsAccount` | same |
| `OrderExecution_proofs!TypeCorrect` | `Spec => []TypeOK` | quantities are not zero, finitely many threads and orders |
| `SerialOrdersLive` | `Spec => SerialOrderKeepsLifecycle` | same |
| `PositionCounts` | `Spec => []PositionCountsTrades` | same |
| `WsExecutionEngine_proofs!TypeCorrect` | `Spec => []TypeOK` | orders are numbers, each has a symbol, at least one instance of the engine |
| `OrdersAreKnown` | `Spec => []NoOrderForgotten` | same |
| `ReferencesSuffice` | `Spec => []RefsCoverIndex` | same |
| `OpenOrdersStream` | `Spec => []OpenOrderIsStreamed` | same |
| `ServerSendsAsDecided` | `Spec => []SentAsDecided` | none |
| `ServerRowTells` | `Spec => []RowTellsWhatWasSent` | none |
| `ServerHasOneProcess` | `Spec => []OneProcess` | none |
| `ServerManualStopHolds` | `Spec => []ManualStopHolds` | none |
| `ServerStaysOver` | `Spec => OverStaysOver` | quantities are not zero |
| `ServerCompletesDownloads` | `Spec => []CompletedMeansDownloaded` | symbols are numbers |
| `ServerDrainsQueues` | `Spec => []ShutdownDrains` | the join waits for a natural number of orders |
| `ServerKeepsSignalOrder` | `Spec => []SignalsKeepTheirOrder` | strategies are LONG or BOTH |
| `ServerFollowsMode` | `Spec => []EngineFollowsMode` | the request of the start is a request, no thread has the number 0 |
| `ServerStreamsMatch` | `Spec => []StreamsMatchSubscriptions` | finitely many symbols, a connection has room for one, modes are 1 to 3 |
| `ServerBooksOnce` | `Spec => []BookedOnce` | no thread both lists and catches up |
| `ServerFundsContainBookings` | `Spec => []FundsContainBookings` | finitely many positions, P&L are integers |
| `ServerKeepsShares` | `Spec => []SettlementKeepsShares` | symbols and quantities are numbers |
| `ServerKeepsPurchases` | `Spec => []NoPurchaseVanishes` | same |
| `ServerSettlesRowByRow` | `Spec => SettlesRowByRow` | symbols and quantities are numbers |
| `ServerKeepsWorth` | `SalesAreCovered` implies `Spec => []WorthKept` | finitely many symbols, quantities are integers |
| `Sums_proofs!SumOfOneChange`, `SumTakenApart`, `SumWithoutZeros` | what one value, or none, does to the sum over a domain | the domain is finite, the values are integers |

*Trading.* Type correctness is inductive; its hard part is netting, where each of
the five branches has a lemma (`OpenPositionNets` to `ReversePositionNets`) that the
new row is well typed and its quantity is the old one plus the signed quantity of the
fill. Money is conserved because each operator of `SandboxFunds` changes `Cash` by
exactly the P&L that it books, one lemma each, so the invariant is inductive given the
types. One lemma for each action (`...Preserves`) carries all three invariants. The
refinement needs the invariant `Untraded`: an order that is absent or open has no
trade, so a fill sets its count to one. Every action then does one of four things to
the book (`Executed`, `Submitted`, `Cancelled`, `Kept`), and each of these maps to an
abstract action or a stutter. `FillsReconcile` and `PlacingKeepsBalance` are
statements about steps that need the types only.

*Rounding.* `Residue` is what booked P&L, cash flow of the trades and cost of the position
leave unexplained. Opening, closing, reducing and reversing keep it exactly, at any prices
(`OpenKeepsResidue` to `ReverseKeepsResidue`); adding to a position changes it by the
remainder that the division for the new average leaves (`AddAverages`), which is less than
the new quantity. `NextRounds` carries this from the netting operators over the fills
(`StepFills`) to every action, so that `RoundingBounded` holds at all prices. If the cost
divides whenever a position grows (`AveragesDivide`, a hypothesis about the behaviour that
prices 720 and 1440 meet for three orders of one or two shares), the residue never leaves
zero, which is `RealizedMatchesCashFlow`.

*P&L.* `get_open_positions` takes for granted that "Closed position P&L is already in
realized_pnl" (`sandbox/position_manager.py:531`), but the only code that adds it to the
funds is `release_margin`, which a fill calls only when the position holds margin.
`HandsOver` says of a netting branch that the P&L it adds to the row is the one it hands
to that call, and that the call is left out only for a row without margin; `NetHandsOver`
proves it of all five branches, `FillBooks` of the funds, and `NextBooks` carries it to
every action, which is `PnlIsBooked`. The exception is real: an order that was accepted
against a position which is gone when the order fills, or that was enlarged beyond it,
opens a position that holds no margin, and what that position earns or loses stays in its
row. `MarginedPnlIsBooked` is the converse for whole behaviours: while every open position
holds margin (`Margined`), the funds have booked exactly what the position realised. Both
need `position.margin` to be a natural number, which is why `TypeOK` says so and
`ShareOfMargin` bounds the share that a reducing fill gives back.

*Funds.* `ConservedUnlessRaced` is inductive with the types: a write from a row that
changed since it was read sets `raced`, and otherwise what was read is the present row and
the operators conserve cash. `BlockIsSafe` holds because the step that blocks tests the
balance again. `UsedIsHeld` is not inductive; `HeldInv` adds that the position row of a
thread holds nothing or the margin of its order, and nothing before the fill (`RowsInv`),
and that a reset which is about to delete the rows has been recorded (`DeletingInv`).
`HeldStep` then shows that every step changes `used` and the sum of what is held by the
same amount. `AccountIsKept` is the refinement of `MarginAccount`: the free cash is
`available`, an order holds what `Held` says, and has taken its margin when its thread is
past the block. The successful block is the abstract `Take`, which is where the second
test of the balance is needed; the cancellation and the release of a closing fill are
`GiveBack`; the check before the lock, the fill, the commit that clears the position row
and everything a reconciliation reads are stutters (`AccountStep`). The release gives back
what it read in the position row, and `RowsInv` is what makes that the margin of the
order. A reconciliation that writes, a reset and a release that fails end the promise, and
set `disturbed`.

*Sums.* Margins held, what was traded, bookings and holdings are totals over threads,
orders, positions or symbols, all written with `SumFunction` of the community modules. It
takes one element after the other out of the domain, in the order that `CHOOSE` happens to
give, so that nothing about it is immediate. `Sums_proofs` shows for every finite domain
that the order does not matter, and nothing about a sum is assumed. The library's induction
over finite sets cannot be applied (it takes a predicate as a parameter); instead the sets
for which a claim fails are collected, a smallest of them is chosen because `<` on
cardinalities is well-founded (`LeastSubset`), and taking one element out of it contradicts
the choice. `SumOfOneChange` is what the steps of the models cite.

In the modules below an invariant says what holds *unless* something happened, and a
variable (`overlapped`, `raced`, `upset`) names what did. No invariant is inductive as it
stands, because it speaks of the tables only; each proof adds what every thread holds in
its variables between two steps and how that relates to the tables. TLC checked each of
the inductive invariants before it was proved. There is one lemma for each action, or one
for each kind of change an action makes, and the theorem combines them.

*Orders executed concurrently.* `OrdersAreSerial` says of an order that was never in two
hands and never failed: at most one thread has it in its batch or at work, it is open
until its trade is committed and complete from then on, and it has one trade exactly when
it is complete. Each step of the engines, the clients and a restart then changes the row as
a step of `OrderLifecycle` or not at all (`Lives`). `PositionInv` counts, for each order,
the threads that have committed its trade and not yet written the position (`Filling`): a
trade adds its quantity to both sums, writing the position takes it from one of them, and
the two steps in between move a thread within the set.

*WebSocket engine.* `EngineInv` is one invariant for all four theorems, since each part
needs the others. One instance of the engine is the singleton and only it runs
(`Singleton`). An open order is in its index or a client is still to tell it (`AllKnown`),
also through a start that happens between the commit of the order and the notification.
The references to a symbol are at least as many as the orders on it (`Counted`); to keep
this the tick, which takes references down after it has taken orders out, needs to know
that nobody else has taken these orders out (`TickInIndex`, `TickDecided`). A symbol
with references is streamed, asked for in the channel to the proxy, about to be
asked for by a client or the starting thread, or its call has failed (`AllStreamed`); the
order of the channel matters, because an unsubscription that overtook would be fatal.

*Action center.* `SerialOrder` relates the request that has an order in hand to its row
and to what the broker was sent; `Answered` relates the answer on its way to the record,
and says that an answer without an id leaves none (`Tells`). *Strategy host.* `Holders`:
the lock has one holder, and whoever records or adopts has one process in hand. `Known`:
the process that is alive is the one the file names, in memory if the server has any, or
the one that is about to be recorded. `StopHolds`: after a manual stop nobody is past the
checks of a start, and no error that names the master contract is left to start it again.
The server takes the strategy host from its proof module: `Server_proofs` instantiates it,
shows that the actions are the same and that a step of the server is a step or a stutter
of the part (`StrategyHostStep`), and applies its lemmas. The other parts are proved about
the server's instances directly.

*Square-off.* `OverStaysOver` is a statement about steps and needs the types of what the
passes hold (`PassTypeInv`). *Downloads.* `OneWorker`: a job without an overlap is in the
queue once or with one worker. `LeavesNothing`: what a worker has not on its list is
downloaded, or has failed and it knows; and it is not called completed while someone works
on it; a retry that resets items one by one meets no worker and no completed job, or is an
overlap. *Signals.* `QueueInv`: the pill is in the regular queue only, nothing that came
before it is behind it, and the sender ends only after it found no early order. `DrainInv`
counts for the join: what waits and what the join has waited for are together no more than
the orders that the shutdown met or that came after it, and the pill; so a thread that was
given up after as many orders as the join waits for was left with nothing, unless there
were more. `SignalInv` says what the two queues are for, by the mode. In a BOTH strategy
the regular queue has nothing but pills, and what the signals ask for is the last smart
order, the one in the sender's hand if none waits, or the position if it holds none
(`LastTarget`). In a LONG one every smart order is an exit to zero and every regular one
an entry of one, and what is asked for is the number of entries that wait on top of
`Base`, where the strategy stands after the exits. An entry that is sent before an older
exit is what breaks it, so that while nothing overtook the sender looks at the regular
queue only when the smart one is empty.

*Engine threads.* `LockHeld`: a request between the steps of a stop, or a watcher in the
middle of an upgrade, is named by `_thread_lock`. `OnePoller` and `OneLoop` tie the handles
to the threads: only the poller in the handle works, it has been told to end before its
replacement is let go, and a loop that is alive is the one in its handle unless it outlived
its join. `Obeyed` relates a request under way to the mode; it is what makes the steps of a
stop preserve the agreement between mode and engine that holds when nothing is under way.

*Subscriptions.* The pool is a record that several clients change through a few operations,
so the proof is in two layers. The lemmas on books (`PlacedBooks`, `AskedBooks`,
`RemovedBooks`, `DowngradedBooks`, up to `SubscribedBooks` and `UnsubscribedMode`) say of
every outcome of a call to the pool that the books stay good (`GoodBooks`: the count of a
connection is the number of its symbols, tracked symbols are those with a connection, the
broker sends the highest mode or nothing) and what happened to the symbol. `ProxyInv` then
relates the pool to the clients, symbol by symbol (`Agrees`): a symbol that is not lost has
in the pool, or in the list that a recovery is to put back, every mode that somebody wants,
and one that is not kept has no other. To keep this through a recovery `CallInHand` adds that
what the books contain before they are cleared is in that list. `Marked` shows that
forgetting a failure is sound: nobody wants the symbol and the pool does not know it.

*Expiry.* `OneSettler` and `ClosedIsBooked`: without an overlap, the one thread that
settles has read what the rows contain, and a position is booked when it is closed or
between the two commits. `FundsInv`: the funds row is the sum of what was booked; every
booking reads and writes it in one commit except the catch-up, whose write from an older
row is recorded as a race, as is a margin that was cut off at zero. *T+1.* `SettlementInv`
has two halves. `PurchasesCovered`, which survives stops and overlaps, says what every
session may still commit or delete without taking from a purchase. `AloneAndExact` holds
of a session that nothing disturbed: what it has read is in the tables, and a row whose
holding is committed is on its way out. `NothingLost` is about worth: one session at a
time, a row that it treats as empty has quantity zero, the holding that it will write is
the one it read and the quantity of the row, and what is sold is held. The commit then
moves money and shares by the same amount.

*T+1 row by row.* `ServerSettlesRowByRow` has two parts. The first maps the tables of a
settlement under way to those of `AtomicSettlement`: a position counts until its holding
is committed (`GoneRows`: marked rows and the row whose fund operation has committed), a
holding that comes to nothing counts no longer (`GoneHoldings`). With this mapping the
commit of the fund operation is the abstract step, a row of quantity zero is dropped when
it is marked, and all other steps stutter (`QuerySeen` to `FinishSeen`), among them the
last commit, which deletes what no longer counts. `SettlementInv` gives that the session
is alone and has read what is in the tables, `TakenInv` that the row in hand still has the
quantity that was read, and `NoAbort` that no row it needs is gone. The mapping counts by
what the settlement is about to delete, which nobody else can see. The second part,
`AtMostOneTwice`, is about the tables alone, as the check of a delivery sale reads them
(order_manager.py:197-219): of all symbols at most one has, beside its shares, its row
once more. `TwiceInv` gives it: among the rows that a settlement has settled and not
deleted, one has shares at most, because each commit deletes what was marked before
(`TwiceStep`), and `OneTwice` counts.

`SalesAreCovered` says that every row which sells has a holding to sell from. It restricts
the rows that a settlement finds, and the check of delivery sales is what gives it: a sale is
accepted up to the shares in the position and the holdings
(`sandbox/order_manager.py:192-224`), so that a position becomes negative only where there
is a holding. For a row without one the code would insert a holding with a negative quantity
and release margin that nothing had blocked. The check does not count what sales that rest
or are not yet settled will take (the run `oversell`), so a share that is sold twice, once
before and once after its holding is settled and deleted, is outside this theorem.

## 5. Only model-checked, or not at all

* `RealizedMatchesCashFlow` at prices where averages do not divide is false, not unproved:
  the theorem has `AveragesDivide` as a hypothesis, no run checks it, and `RoundingIsBounded`
  says what holds in general.
* Liveness (`BlockReturns`, `ReachedOrderLeavesBook`, `OpenOrderIsExecuted` and those of
  `server`): beyond the prover.
* The statements of the `violation` runs, which do not hold.

## 6. Not modelled

* In the sandbox: lot sizes, symbol lookup and daily P&L snapshots; mark-to-market (`ltp`,
  `pnl`, `unrealized_pnl`) and the listing endpoints, which feed displays only; several
  instruments of one user in `SandboxTrading` (the funds row is their only link, and
  `FundManager` has several); GTT orders. `process_session_settlement` and
  `process_all_users_settlement` of the position manager have no caller. A rejected
  modification that leaves a dirty row in the session: the web server removes the session
  at the end of a request. Polling forced by `SANDBOX_ENGINE_TYPE`, which differs by having
  no watcher.
* In Historify: catalog, watch lists, exports, uploads, the scheduler of downloads and the
  data itself; the counters of the progress. In the strategy host: uploading, editing, logs,
  environment variables and the texts of schedules. `blueprints/chartink.py` is a near copy
  of `blueprints/strategy.py` with its own queues.
* In the proxy: several users, the retries within an authentication, throttling and
  formatting of ticks, statistics, and the reconnects that each broker's adapter does by
  itself. The cache of market data, the event bus and Flow's executor beyond its subscriptions.
* Brokers, API and UI, which are by far most of the lines of the repository (the plugins
  under `broker/` alone are some thirty copies of the same adapters): input and output around
  other systems' state, with no protocol of their own to check.

## 7. Plan

Done: the sequential core with its proofs, the concurrent fund manager with its
proofs, concurrent order execution and the WebSocket engine's index and subscriptions with
theirs, and the nine parts of `Server`: settlement, expiry, square-off, action center,
downloads, strategies, signals, shared streams and engine threads, each with a proof.

Theorems next: `SalesAreCovered` from the code instead of as a hypothesis, by letting
settlement and placing of sales run in one specification; an abstract account that goes on
after a reconciliation.

Models next: two users in `SubscriptionProxy`; the scheduler of downloads.
