-------------------------- MODULE WsExecutionEngine --------------------------
(***************************************************************************)
(* How the WebSocket execution engine learns of the open orders and of the *)
(* prices of their symbols.  An instance of the engine keeps an index of   *)
(* open orders and a count of references to each symbol; request threads   *)
(* notify it of new orders, the control thread starts and stops it, and it *)
(* notices that an order is gone when the next tick finds it closed.       *)
(*                                                                         *)
(* The engine, the Flow nodes and the WebSocket API of a user share one    *)
(* connection to the proxy, which handles its messages in order.  Ticks    *)
(* reach the engine inside the event loop of the proxy, so no message is   *)
(* handled while a tick is: a call that waits there for the answer of the  *)
(* proxy waits in vain, and its message is handled after the tick.         *)
(*                                                                         *)
(* One user; how an order is executed is the subject of OrderExecution.    *)
(***************************************************************************)
EXTENDS Integers, Sequences, FiniteSets

CONSTANTS
    OrderIds,       \* in the order in which they are given out
    Clients,        \* request threads in place_order
    Symbols,
    SymbolOf,       \* the symbol of each order
    MaxEngines,     \* bound of the model: instances of the engine
    MaxStreamCalls  \* bound of the model: calls for streams by Flow or the API;
                    \* a stop of the engine takes the place of all of them

Engines == 1 .. MaxEngines
NoEngine == 0
Modes == {"LTP", "Quote"}

ASSUME OrderIdsAssumption == OrderIds \subseteq Nat
ASSUME SymbolAssumption == SymbolOf \in [OrderIds -> Symbols]
ASSUME MaxEnginesAssumption == MaxEngines \in Nat \ {0}
ASSUME MaxStreamCallsAssumption == MaxStreamCalls \in Nat

VARIABLES
    status,         \* each order: "absent", "open" or "closed"
    client,         \* what each request thread is at
    tick,           \* what the thread that delivers ticks is at
    control,        \* what the thread that starts and stops the engine is at
    engine,         \* the singleton, or NoEngine
    created,        \* instances so far
    running,        \* _running of each instance
    index,          \* _pending_orders_index of each instance
    refs,           \* _user_symbol_refcounts of each instance
    registered,     \* the instance that MarketDataService calls, or NoEngine
    requests,       \* messages on their way to the proxy
    subscriptions,  \* what the proxy has of the connection: symbol and mode
    streams,        \* what Flow and the API have subscribed and not released
    streamCalls,    \* their calls so far
    missed,         \* history: symbols whose LTP subscription was not made
                    \* or was released by a call for all streams
    lost            \* history: the last rebuild of the index failed

engineVars == <<engine, created, running, index, refs>>
proxyVars == <<subscriptions, streams, streamCalls>>
history == <<missed, lost>>
vars == <<status, client, tick, control, engine, created, running, index,
          refs, registered, requests, subscriptions, streams, streamCalls,
          missed, lost>>

NoClient == [step |-> "idle", orders |-> {}, engine |-> NoEngine]
NoTick == [step |-> "look", batch |-> {}, orders |-> {}, engine |-> NoEngine]
At(step, symbols) == [step |-> step, symbols |-> symbols]

Init ==
    /\ status = [o \in OrderIds |-> "absent"]
    /\ client = [c \in Clients |-> NoClient]
    /\ tick = NoTick
    /\ control = At("stopped", {})
    /\ engine = NoEngine
    /\ created = 0
    /\ running = [e \in Engines |-> FALSE]
    /\ index = [e \in Engines |-> {}]
    /\ refs = [e \in Engines |-> [s \in Symbols |-> 0]]
    /\ registered = NoEngine
    /\ requests = <<>>
    /\ subscriptions = {}
    /\ streams = {}
    /\ streamCalls = 0
    /\ missed = {}
    /\ lost = FALSE

OrdersOn(s) == {o \in OrderIds : SymbolOf[o] = s}
OpenOrders == {o \in OrderIds : status[o] = "open"}
Referenced(e) == {s \in Symbols : refs[e][s] > 0}

\* get_websocket_execution_engine: the singleton, made where there is none.
GetInstance(e) ==
    /\ IF engine = NoEngine THEN created' = created + 1 /\ e = created'
                            ELSE e = engine /\ UNCHANGED created
    /\ engine' = e

Message(op, symbols, mode) == [op |-> op, symbols |-> symbols, mode |-> mode]

\* A message of the engine goes out on the connection of the user, unless the
\* user has no API key or the connection is down.
SendOrSkip(op, symbols) ==
    \/ /\ requests' = Append(requests, Message(op, symbols, "LTP"))
       /\ UNCHANGED missed
    \/ /\ missed' = IF op = "subscribe" THEN missed \cup symbols ELSE missed
       /\ UNCHANGED requests

-----------------------------------------------------------------------------
(* Request threads: place_order *)

Goto(c, step) == client' = [client EXCEPT ![c].step = step]
Leave(c) == client' = [client EXCEPT ![c] = NoClient]

\* The open order is committed; it may be executed at once (CloseOrder).
PlaceOrder(c, o) ==
    /\ client[c] = NoClient
    /\ status[o] = "absent"
    /\ \A p \in OrderIds : p < o => status[p] # "absent"
    /\ status' = [status EXCEPT ![o] = "open"]
    /\ client' = [client EXCEPT ![c] =
                    [step |-> "placed", orders |-> {o}, engine |-> NoEngine]]
    /\ UNCHANGED <<tick, control, engineVars, registered, requests, proxyVars,
                   history>>

\* _engine_lock is held from the beginning to the end of a stop.
EngineLockFree == control.step \notin {"clear", "release"}

Running(e) == e # NoEngine /\ running[e]

\* Mutant: an engine that is still starting does not count as running.
RunningAndRegistered(e) == e # NoEngine /\ running[e] /\ registered = e

IsRunning(e) == Running(e)

\* Only a running engine is told, and only of an order that is still open.
FindEngine(c) ==
    /\ client[c].step = "placed"
    /\ EngineLockFree
    /\ LET tell == client[c].orders \subseteq OpenOrders /\ IsRunning(engine)
       IN  \/ tell /\ Goto(c, "get")
           \/ ~tell /\ Leave(c)
    /\ UNCHANGED <<status, tick, control, engineVars, registered, requests,
                   proxyVars, history>>

GetEngine(c) ==
    /\ client[c].step = "get"
    /\ EngineLockFree
    /\ \E e \in Engines :
          /\ GetInstance(e)
          /\ client' = [client EXCEPT ![c].step = "notify", ![c].engine = e]
    /\ UNCHANGED <<status, tick, control, running, index, refs, registered,
                   requests, proxyVars, history>>

\* Mutant: the order counts only when it is the first of its symbol.
NotifyCountsSymbols(c, o) ==
    LET e == client[c].engine
        s == SymbolOf[o]
    IN  /\ client[c].step = "notify"
        /\ o \in client[c].orders
        /\ index' = [index EXCEPT ![e] = @ \cup {o}]
        /\ refs' = [refs EXCEPT ![e][s] = 1]
        /\ IF refs[e][s] = 0 THEN Goto(c, "subscribe") ELSE Leave(c)
        /\ UNCHANGED <<status, tick, control, engine, created, running,
                       registered, requests, proxyVars, history>>

\* notify_order_placed: the reference is counted even if the order is in the
\* index already, where a rebuild has put and counted it.
NotifyOrderPlaced(c, o) ==
    LET e == client[c].engine
        s == SymbolOf[o]
    IN  /\ client[c].step = "notify"
        /\ o \in client[c].orders
        /\ index' = [index EXCEPT ![e] = @ \cup {o}]
        /\ refs' = [refs EXCEPT ![e][s] = @ + 1]
        /\ IF refs[e][s] = 0 THEN Goto(c, "subscribe") ELSE Leave(c)
        /\ UNCHANGED <<status, tick, control, engine, created, running,
                       registered, requests, proxyVars, history>>

\* Outside the lock of the engine.  The thread then waits for the answer of
\* the proxy or for ten seconds, and does nothing with either.
SubscribeSymbol(c) ==
    /\ client[c].step = "subscribe"
    /\ SendOrSkip("subscribe", {SymbolOf[o] : o \in client[c].orders})
    /\ Leave(c)
    /\ UNCHANGED <<status, tick, control, engineVars, registered, proxyVars,
                   lost>>

\* The order is cancelled, or executed by its request or a polling engine.
CloseOrder(o) ==
    /\ status[o] = "open"
    /\ status' = [status EXCEPT ![o] = "closed"]
    /\ UNCHANGED <<client, tick, control, engineVars, registered, requests,
                   proxyVars, history>>

-----------------------------------------------------------------------------
(* The thread that delivers ticks *)

TickIdle == tick = NoTick

\* The next order of the batch, or the end of the tick.
NextOf(batch) ==
    tick' = IF batch = {} THEN NoTick
            ELSE [tick EXCEPT !.step = "look", !.batch = batch, !.orders = {}]

\* _on_market_data copies the orders of the symbol from the index.
OnMarketData(s) ==
    LET found == index[registered] \cap OrdersOn(s)
    IN  /\ TickIdle
        /\ Running(registered)
        /\ found # {}
        /\ tick' = [NoTick EXCEPT !.batch = found, !.engine = registered]
        /\ UNCHANGED <<status, client, control, engineVars, registered,
                       requests, proxyVars, history>>

\* An open order whose condition the price meets is executed,
ExecuteOrder(o) ==
    /\ tick.step = "look"
    /\ o \in tick.batch
    /\ status[o] = "open"
    /\ status' = [status EXCEPT ![o] = "closed"]
    /\ tick' = [tick EXCEPT !.step = "complete", !.batch = @ \ {o},
                            !.orders = {o}]
    /\ UNCHANGED <<client, control, engineVars, registered, requests,
                   proxyVars, history>>

\* another one stays,
KeepOrder(o) ==
    /\ tick.step = "look"
    /\ o \in tick.batch
    /\ status[o] = "open"
    /\ NextOf(tick.batch \ {o})
    /\ UNCHANGED <<status, client, control, engineVars, registered, requests,
                   proxyVars, history>>

\* and one that is no longer open is dropped.
DropOrder(o) ==
    /\ tick.step = "look"
    /\ o \in tick.batch
    /\ status[o] # "open"
    /\ tick' = [tick EXCEPT !.step = "complete", !.batch = @ \ {o},
                            !.orders = {o}]
    /\ UNCHANGED <<status, client, control, engineVars, registered, requests,
                   proxyVars, history>>

\* _decrement_user_symbol_refcount takes the last reference of the user away.
IsLastRef(e, s) == Referenced(e) # {} /\ refs[e][s] <= 1

Decremented(n) == IF n > 0 THEN n - 1 ELSE 0

\* Mutant: the whole symbol leaves the index with the first order.
CompleteSymbol(o) ==
    LET e == tick.engine
        s == SymbolOf[o]
    IN  /\ tick.step = "complete"
        /\ o \in tick.orders
        /\ index' = [index EXCEPT ![e] = @ \ OrdersOn(s)]
        /\ refs' = [refs EXCEPT ![e][s] = Decremented(@)]
        /\ IF IsLastRef(e, s) THEN tick' = [tick EXCEPT !.step = "unsubscribe"]
                              ELSE NextOf(tick.batch)
        /\ UNCHANGED <<status, client, control, engine, created, running,
                       registered, requests, proxyVars, history>>

\* notify_order_completed, under the lock of the engine.
NotifyOrderCompleted(o) ==
    LET e == tick.engine
        s == SymbolOf[o]
    IN  /\ tick.step = "complete"
        /\ o \in tick.orders
        /\ index' = [index EXCEPT ![e] = @ \ {o}]
        /\ refs' = [refs EXCEPT ![e][s] = Decremented(@)]
        /\ IF IsLastRef(e, s) THEN tick' = [tick EXCEPT !.step = "unsubscribe"]
                              ELSE NextOf(tick.batch)
        /\ UNCHANGED <<status, client, control, engine, created, running,
                       registered, requests, proxyVars, history>>

UnsubscribeSymbol ==
    /\ tick.step = "unsubscribe"
    /\ SendOrSkip("unsubscribe", {SymbolOf[o] : o \in tick.orders})
    /\ NextOf(tick.batch)
    /\ UNCHANGED <<status, client, control, engineVars, registered, proxyVars,
                   lost>>

TickStep ==
    \/ \E o \in OrderIds :
          ExecuteOrder(o) \/ KeepOrder(o) \/ DropOrder(o)
          \/ NotifyOrderCompleted(o)
    \/ UnsubscribeSymbol

-----------------------------------------------------------------------------
(* The control thread, under _thread_lock *)

\* start: the engine counts as running before it has its index.
Start ==
    /\ control.step = "stopped"
    /\ \E e \in Engines :
          GetInstance(e) /\ running' = [running EXCEPT ![e] = TRUE]
    /\ control' = At("rebuild", {})
    /\ UNCHANGED <<status, client, tick, index, refs, registered, requests,
                   proxyVars, history>>

\* _rebuild_order_index, under the lock of the engine; the query may fail.
RebuildOrderIndex ==
    /\ control.step = "rebuild"
    /\ \E found \in {OpenOrders, {}} :
          /\ index' = [index EXCEPT ![engine] = found]
          /\ refs' = [refs EXCEPT ![engine] =
                [s \in Symbols |-> Cardinality(found \cap OrdersOn(s))]]
          /\ control' = At("subscribe", {SymbolOf[o] : o \in found})
          /\ lost' = (found # OpenOrders)
    /\ UNCHANGED <<status, client, tick, engine, created, running, registered,
                   requests, proxyVars, missed>>

SubscribeIndexed ==
    /\ control.step = "subscribe"
    /\ IF control.symbols = {} THEN UNCHANGED <<requests, missed>>
                               ELSE SendOrSkip("subscribe", control.symbols)
    /\ control' = At("register", {})
    /\ UNCHANGED <<status, client, tick, engineVars, registered, proxyVars,
                   lost>>

\* subscribe_critical
Register ==
    /\ control.step = "register"
    /\ registered' = engine
    /\ control' = At("started", {})
    /\ UNCHANGED <<status, client, tick, engineVars, requests, proxyVars,
                   history>>

\* stop: ticks are ignored from now on, so that leaving MarketDataService is
\* no step of its own.
Stop ==
    /\ control.step = "started"
    /\ created < MaxEngines /\ streamCalls = 0
    /\ streamCalls' = MaxStreamCalls
    /\ running' = [running EXCEPT ![engine] = FALSE]
    /\ registered' = NoEngine
    /\ control' = At("clear", {})
    /\ UNCHANGED <<status, client, tick, engine, created, index, refs, requests,
                   subscriptions, streams, history>>

\* _unsubscribe_all_ws clears the counts.  It leaves the index as it is, which
\* nobody reads again: the next start makes another instance.
ClearRefs ==
    /\ control.step = "clear"
    /\ control' = At("release", Referenced(engine))
    /\ refs' = [refs EXCEPT ![engine] = [s \in Symbols |-> 0]]
    /\ index' = [index EXCEPT ![engine] = {}]
    /\ UNCHANGED <<status, client, tick, engine, created, running,
                   registered, requests, proxyVars, history>>

ReleaseSymbols ==
    /\ control.step = "release"
    /\ IF control.symbols = {} THEN UNCHANGED <<requests, missed>>
                               ELSE SendOrSkip("unsubscribe", control.symbols)
    /\ engine' = NoEngine
    /\ control' = At("stopped", {})
    /\ UNCHANGED <<status, client, tick, created, running, index, refs,
                   registered, proxyVars, lost>>

ControlStep ==
    \/ RebuildOrderIndex \/ SubscribeIndexed \/ Register
    \/ ClearRefs \/ ReleaseSymbols

-----------------------------------------------------------------------------
(* The proxy *)

\* subscribe_client: the broker accepts or refuses each symbol.  Of the streams
\* wanted, those remain that are not refused.
ProxySubscribe(request, wanted) ==
    /\ request.op = "subscribe"
    /\ \E accepted \in SUBSET request.symbols :
          LET refused == request.symbols \ accepted
          IN  /\ subscriptions' =
                    subscriptions \cup (accepted \X {request.mode})
              /\ streams' = wanted \ ((refused \X {request.mode}) \ subscriptions)
              /\ missed' = IF request.mode = "LTP"
                           THEN (missed \ accepted)
                                \cup {s \in refused :
                                         <<s, "LTP">> \notin subscriptions}
                           ELSE missed

\* Mutant: the mode of the message is heeded, as it was meant to be.  A release
\* that a new subscription of the symbol has overtaken then undoes it.
ReleasedInMode(request) == request.symbols \X {request.mode}

\* unsubscribe_client takes the mode from each symbol, where no caller puts
\* it, and not from the message: the default is Quote.
Released(request) == request.symbols \X {"Quote"}

ProxyUnsubscribe(request, wanted) ==
    /\ request.op = "unsubscribe"
    /\ subscriptions' = subscriptions \ Released(request)
    /\ streams' = wanted
    /\ UNCHANGED missed

HandleRequest ==
    /\ TickIdle
    /\ requests # <<>>
    /\ LET request == Head(requests)
       IN  ProxySubscribe(request, streams) \/ ProxyUnsubscribe(request, streams)
    /\ requests' = Tail(requests)
    /\ UNCHANGED <<status, client, tick, control, engineVars, registered,
                   streamCalls, lost>>

-----------------------------------------------------------------------------
(* Flow nodes and the WebSocket API, on the same connection.  Nothing else   *)
(* depends on when their message is sent, so it is sent when its turn comes. *)

StreamCall ==
    /\ streamCalls < MaxStreamCalls
    /\ streamCalls' = streamCalls + 1
    /\ TickIdle
    /\ requests = <<>>
    /\ UNCHANGED <<status, client, tick, control, engineVars, registered,
                   requests, lost>>

SubscribeStream(s, m) ==
    /\ StreamCall
    /\ ProxySubscribe(Message("subscribe", {s}, m), streams \cup {<<s, m>>})

UnsubscribeStream(s, m) ==
    /\ <<s, m>> \in streams
    /\ StreamCall
    /\ ProxyUnsubscribe(Message("unsubscribe", {s}, m), streams \ {<<s, m>>})

UnsubscribeAllStreams ==
    /\ StreamCall
    /\ subscriptions' = {}
    /\ streams' = {}
    /\ missed' = missed \cup {s \in Symbols : <<s, "LTP">> \in subscriptions}

-----------------------------------------------------------------------------
ClientStep(c) ==
    \/ FindEngine(c) \/ GetEngine(c)
    \/ \E o \in OrderIds : NotifyOrderPlaced(c, o)
    \/ SubscribeSymbol(c)

Next ==
    \/ \E c \in Clients, o \in OrderIds : PlaceOrder(c, o)
    \/ \E c \in Clients : ClientStep(c)
    \/ \E o \in OrderIds : CloseOrder(o)
    \/ \E s \in Symbols : OnMarketData(s)
    \/ TickStep
    \/ Start \/ Stop \/ ControlStep
    \/ \E s \in Symbols, m \in Modes :
          SubscribeStream(s, m) \/ UnsubscribeStream(s, m)
    \/ UnsubscribeAllStreams
    \/ HandleRequest

Spec == Init /\ [][Next]_vars

\* Every thread that can run does; the event loop of the proxy takes messages
\* and ticks in turn; a subscribed symbol ticks again and again, and so does
\* the price that the condition of an order waits for.
Fairness ==
    /\ \A c \in Clients : WF_vars(ClientStep(c))
    /\ WF_vars(TickStep)
    /\ WF_vars(ControlStep)
    /\ SF_vars(HandleRequest)
    /\ \A s \in Symbols :
          SF_vars(<<s, "LTP">> \in subscriptions /\ OnMarketData(s))
    /\ \A o \in OrderIds : SF_vars(ExecuteOrder(o))

FairSpec == Spec /\ Fairness

-----------------------------------------------------------------------------
(* Properties *)

Requests == [op: {"subscribe", "unsubscribe"},
             symbols: SUBSET Symbols, mode: Modes]

TypeOK ==
    /\ status \in [OrderIds -> {"absent", "open", "closed"}]
    /\ client \in [Clients ->
          [step: {"idle", "placed", "get", "notify", "subscribe"},
           orders: SUBSET OrderIds, engine: Engines \cup {NoEngine}]]
    /\ tick \in [step: {"look", "complete", "unsubscribe"},
                 batch: SUBSET OrderIds, orders: SUBSET OrderIds,
                 engine: Engines \cup {NoEngine}]
    /\ control \in [step: {"stopped", "rebuild", "subscribe", "register",
                           "started", "clear", "release"},
                    symbols: SUBSET Symbols]
    /\ engine \in Engines \cup {NoEngine}
    /\ created \in 0 .. MaxEngines
    /\ running \in [Engines -> BOOLEAN]
    /\ index \in [Engines -> SUBSET OrderIds]
    /\ refs \in [Engines -> [Symbols -> Nat]]
    /\ registered \in Engines \cup {NoEngine}
    /\ requests \in Seq(Requests)
    /\ subscriptions \in SUBSET (Symbols \X Modes)
    /\ streams \in SUBSET (Symbols \X Modes)
    /\ streamCalls \in 0 .. MaxStreamCalls
    /\ missed \in SUBSET Symbols
    /\ lost \in BOOLEAN

\* The engine has been started and its index has been built.
Indexed == control.step \in {"subscribe", "register", "started"} /\ ~lost

\* A request thread that places the order will still tell a running engine.
InPlacement(o) ==
    \E c \in Clients : /\ o \in client[c].orders
                       /\ client[c].step \in {"placed", "get", "notify"}

\* However placing an order interleaves with a start or a restart, the engine
\* that runs knows every open order that no request thread is still placing:
\* the rebuild or the notification brings it in, and nothing takes it out.
NoOrderForgotten ==
    Indexed => \A o \in OpenOrders : o \in index[engine] \/ InPlacement(o)

\* The engine never counts fewer references to a symbol than it has orders on
\* it, so it does not release a symbol that an indexed order needs.
RefsCoverIndex ==
    \A e \in Engines, s \in Symbols :
        Running(e) => refs[e][s] >= Cardinality(index[e] \cap OrdersOn(s))

\* No call is under way.
Quiet ==
    /\ TickIdle
    /\ requests = <<>>
    /\ \A c \in Clients : client[c] = NoClient
    /\ control.step \in {"stopped", "started"}

\* When all calls have come to their end, the proxy streams the price of every
\* open order, unless a subscription failed or Flow released all of them.
OpenOrderIsStreamed ==
    Quiet /\ Indexed =>
        \A o \in OpenOrders :
            SymbolOf[o] \in missed \/ <<SymbolOf[o], "LTP">> \in subscriptions

\* An open order is executed or cancelled in the end, as long as the engine is
\* not stopped and the subscription of its symbol has not failed.
OpenOrderIsExecuted ==
    \A o \in OrderIds :
        status[o] = "open" /\ control.step = "started"
            ~> \/ status[o] = "closed"
               \/ control.step # "started"
               \/ SymbolOf[o] \in missed
               \/ lost

-----------------------------------------------------------------------------
(* Statements of the repository that the code does not keep *)

\* docs/websocket-architecture.md: "Every subscription is keyed by (symbol,
\* exchange, mode)" and is dropped "when the last consumer [...] unsubscribes".
StreamOutlivesOthers == Quiet => streams \subseteq subscriptions
=============================================================================
