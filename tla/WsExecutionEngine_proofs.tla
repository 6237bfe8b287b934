------------------------ MODULE WsExecutionEngine_proofs ------------------------
(***************************************************************************)
(* What the WebSocket engine promises for any number of orders, request    *)
(* threads, symbols, instances of the engine and calls for streams: it     *)
(* knows every open order, counts at least as many references to a symbol  *)
(* as it has orders on it, and the proxy streams the symbol.               *)
(***************************************************************************)
EXTENDS WsExecutionEngine, FiniteSetTheorems, TLAPS

\* The steps of the control thread while the engine runs, and from the rebuild of
\* the index on.
RunningSteps == {"rebuild", "subscribe", "register", "started"}
IndexSteps == {"subscribe", "register", "started"}

\* The singleton is the only instance that runs, and MarketDataService calls no
\* other one; what is not made yet has no orders.
Singleton ==
    /\ engine <= created
    /\ \A c \in Clients : client[c].engine <= created
    /\ tick.engine <= created
    /\ control.step # "stopped" => engine # NoEngine
    /\ \A e \in Engines : running[e] => e = engine /\ control.step \in RunningSteps
    /\ control.step \in RunningSteps => running[engine]
    /\ registered # NoEngine => registered = engine /\ control.step = "started"
    /\ \A e \in Engines : e > created =>
          index[e] = {} /\ \A s \in Symbols : refs[e][s] = 0

\* Only finitely many orders are there.
FewOrders ==
    /\ IsFiniteSet(OpenOrders)
    /\ \A e \in Engines : IsFiniteSet(index[e])

\* A request thread has one order in hand and tells the singleton of it.
WillTell(c, o) ==
    /\ client[c].orders = {o}
    /\ \/ client[c].step \in {"placed", "get"}
       \/ client[c].step = "notify" /\ client[c].engine = engine

OneInHand ==
    \A c \in Clients : client[c].step # "idle" =>
        \E o \in OrderIds : client[c].orders = {o}

\* The tick takes an order out of the index once it is closed.
TickDecided == tick.step = "complete" => \A o \in tick.orders : status[o] = "closed"

\* Nobody has an order in hand that is not placed yet.
Placed ==
    \A o \in OrderIds : status[o] = "absent" =>
        /\ \A e \in Engines : o \notin index[e]
        /\ \A c \in Clients : o \notin client[c].orders
        /\ o \notin tick.batch

AllKnown ==
    Indexed => \A o \in OpenOrders :
        o \in index[engine] \/ \E c \in Clients : WillTell(c, o)

\* A tick takes its orders from the index of the engine that is registered, and
\* only the tick takes them out again.
Ticking == tick.engine # NoEngine /\ tick.engine = engine

TickInIndex ==
    /\ tick.step = "complete" => tick.orders \cap tick.batch = {}
    /\ Ticking => control.step \in {"started", "clear", "release"}
    /\ Ticking /\ control.step = "started" =>
          /\ tick.batch \subseteq index[engine]
          /\ tick.step = "complete" => tick.orders \subseteq index[engine]

Counted ==
    engine # NoEngine /\ control.step \notin {"clear", "release"} =>
        \A s \in Symbols :
            refs[engine][s] >= Cardinality(index[engine] \cap OrdersOn(s))

\* Somebody has subscribed the symbol, is about to, or has failed to.
IsRequest(m, s) == m.op = "subscribe" /\ m.mode = "LTP" /\ s \in m.symbols
Requested(s) == \E i \in 1 .. Len(requests) : IsRequest(requests[i], s)

Streamed(s) ==
    \/ s \in missed
    \/ <<s, "LTP">> \in subscriptions
    \/ Requested(s)
    \/ \E c \in Clients : /\ client[c].step = "subscribe"
                          /\ \E o \in client[c].orders : SymbolOf[o] = s
    \/ control.step = "subscribe" /\ s \in control.symbols

AllStreamed ==
    control.step \in IndexSteps =>
        \A s \in Symbols : refs[engine][s] > 0 => Streamed(s)

EngineInv ==
    /\ TypeOK /\ Singleton /\ FewOrders
    /\ OneInHand /\ TickDecided /\ Placed /\ AllKnown
    /\ TickInIndex /\ Counted /\ AllStreamed
-----------------------------------------------------------------------------
(* How the variables change *)

ClientSteps == {"idle", "placed", "get", "notify", "subscribe"}
ClientType == [step: ClientSteps, orders: SUBSET OrderIds,
               engine: Engines \cup {NoEngine}]
TickType == [step: {"look", "complete", "unsubscribe"}, batch: SUBSET OrderIds,
             orders: SUBSET OrderIds, engine: Engines \cup {NoEngine}]

LEMMA TypeFacts ==
    ASSUME TypeOK
    PROVE  client \in [Clients -> ClientType] /\ tick \in TickType
  BY DEF TypeOK, ClientType, ClientSteps, TickType

LEMMA GotoMoves ==
    ASSUME TypeOK, NEW c \in Clients, NEW step \in ClientSteps, Goto(c, step)
    PROVE  /\ client' \in [Clients -> ClientType]
           /\ client'[c].step = step /\ client'[c].orders = client[c].orders
           /\ client'[c].engine = client[c].engine
           /\ \A d \in Clients \ {c} : client'[d] = client[d]
  BY TypeFacts DEF Goto, ClientType

LEMMA LeaveMoves ==
    ASSUME TypeOK, NEW c \in Clients, Leave(c)
    PROVE  /\ client' \in [Clients -> ClientType]
           /\ client'[c].step = "idle" /\ client'[c].orders = {}
           /\ client'[c].engine = NoEngine
           /\ \A d \in Clients \ {c} : client'[d] = client[d]
  <1>1. NoClient \in ClientType
    BY DEF NoClient, ClientType, ClientSteps
  <1>2. NoClient.step = "idle" /\ NoClient.orders = {} /\ NoClient.engine = NoEngine
    BY DEF NoClient
  <1>3. QED
    BY <1>1, <1>2, TypeFacts DEF Leave

LEMMA NextOfMoves ==
    ASSUME TypeOK, NEW batch \in SUBSET OrderIds, NextOf(batch)
    PROVE  /\ tick' \in TickType
           /\ tick'.step = "look" /\ tick'.batch = batch /\ tick'.orders = {}
           /\ tick'.engine \in {tick.engine, NoEngine}
  BY TypeFacts DEF NextOf, NoTick, TickType

LEMMA IndexPart ==
    ASSUME NEW e \in Engines, NEW s \in Symbols, IsFiniteSet(index[e])
    PROVE  /\ IsFiniteSet(index[e] \cap OrdersOn(s))
           /\ Cardinality(index[e] \cap OrdersOn(s)) \in Nat
  BY FS_Intersection, FS_CardinalityType

-----------------------------------------------------------------------------
(* What stays as it is *)

\* No part of the invariant is disturbed by a step that changes none of the
\* variables it speaks of.
LEMMA SameStays ==
    ASSUME EngineInv
    PROVE  /\ UNCHANGED <<engineVars, client, tick, control, registered>> => Singleton'
           /\ UNCHANGED <<status, index>> => FewOrders'
           /\ UNCHANGED client => OneInHand'
           /\ UNCHANGED <<tick, status>> => TickDecided'
           /\ UNCHANGED <<status, index, client, tick>> => Placed'
           /\ UNCHANGED <<control, lost, status, index, engine, client>> => AllKnown'
           /\ UNCHANGED <<tick, engine, control, index>> => TickInIndex'
           /\ UNCHANGED <<engine, control, refs, index>> => Counted'
           /\ UNCHANGED <<control, refs, engine, missed, subscriptions, requests, client>>
                 => AllStreamed'
  <1>1. UNCHANGED <<engineVars, client, tick, control, registered>> => Singleton'
    BY DEF EngineInv, Singleton, engineVars
  <1>2. UNCHANGED <<status, index>> => FewOrders'
    BY DEF EngineInv, FewOrders, OpenOrders
  <1>3. UNCHANGED client => OneInHand'
    BY DEF EngineInv, OneInHand
  <1>4. UNCHANGED <<tick, status>> => TickDecided'
    BY DEF EngineInv, TickDecided
  <1>5. UNCHANGED <<status, index, client, tick>> => Placed'
    BY DEF EngineInv, Placed
  <1>6. UNCHANGED <<control, lost, status, index, engine, client>> => AllKnown'
    BY DEF EngineInv, AllKnown, WillTell, Indexed, OpenOrders
  <1>7. UNCHANGED <<tick, engine, control, index>> => TickInIndex'
    BY DEF EngineInv, TickInIndex, Ticking
  <1>8. UNCHANGED <<engine, control, refs, index>> => Counted'
    BY DEF EngineInv, Counted, OrdersOn
  <1>9. UNCHANGED <<control, refs, engine, missed, subscriptions, requests, client>>
           => AllStreamed'
    BY DEF EngineInv, AllStreamed, Streamed, Requested
  <1>10. QED
    BY <1>1, <1>2, <1>3, <1>4, <1>5, <1>6, <1>7, <1>8, <1>9

\* Whoever has told, or is about to tell, the engine of an order still is.
LEMMA AllKnownStays ==
    ASSUME AllKnown, UNCHANGED <<client, engine>>, OpenOrders' \subseteq OpenOrders,
           Indexed' => Indexed,
           Indexed => index[engine] \cap OpenOrders' \subseteq index'[engine]
    PROVE  AllKnown'
  <1>1. \A c \in Clients, o \in OrderIds : WillTell(c, o) => WillTell(c, o)'
    BY DEF WillTell
  <1>2. OpenOrders' \subseteq OrderIds
    BY DEF OpenOrders
  <1>3. QED
    BY <1>1, <1>2 DEF AllKnown

\* A message stays on its way when another one is sent.
LEMMA RequestedStays ==
    ASSUME requests \in Seq(Requests), NEW s \in Symbols, Requested(s),
           \/ UNCHANGED requests
           \/ \E m \in Requests : requests' = Append(requests, m)
    PROVE  Requested(s)'
  <1>1. PICK i \in 1 .. Len(requests) : IsRequest(requests[i], s)
    BY DEF Requested
  <1>2. Len(requests) \in Nat
    OBVIOUS
  <1>3. i \in 1 .. Len(requests') /\ requests'[i] = requests[i]
    BY <1>1, <1>2
  <1>4. QED
    BY <1>1, <1>3 DEF Requested, IsRequest

\* The proxy takes one message, the others wait.
LEMMA HeadOrTail ==
    ASSUME requests \in Seq(Requests), requests # <<>>, requests' = Tail(requests),
           NEW s \in Symbols, Requested(s)
    PROVE  IsRequest(Head(requests), s) \/ Requested(s)'
  <1>1. PICK i \in 1 .. Len(requests) : IsRequest(requests[i], s)
    BY DEF Requested
  <1>2. CASE i = 1
    BY <1>1, <1>2
  <1>3. CASE i # 1
    <2>1. Len(requests) \in Nat
      OBVIOUS
    <2>2. i - 1 \in 1 .. Len(requests') /\ requests'[i - 1] = requests[i]
      BY <1>1, <1>3, <2>1
    <2>3. QED
      BY <1>1, <2>2 DEF Requested, IsRequest
  <1>4. QED
    BY <1>2, <1>3

LEMMA StreamedStays ==
    ASSUME NEW s \in Symbols, Streamed(s),
           missed \subseteq missed', subscriptions \subseteq subscriptions',
           Requested(s) => Requested(s)',
           \A c \in Clients : client[c].step = "subscribe" => client'[c] = client[c],
           control.step = "subscribe" => UNCHANGED control
    PROVE  Streamed(s)'
  BY DEF Streamed

LEMMA AllStreamedStays ==
    ASSUME AllStreamed, UNCHANGED <<engine, control>>,
           \A s \in Symbols :
              /\ refs'[engine][s] > 0 => refs[engine][s] > 0
              /\ Streamed(s) => Streamed(s)'
    PROVE  AllStreamed'
  BY DEF AllStreamed

\* A message of the engine goes out, or its symbols count as missed.
LEMMA SendMoves ==
    ASSUME TypeOK, NEW op \in {"subscribe", "unsubscribe"},
           NEW symbols \in SUBSET Symbols, SendOrSkip(op, symbols)
    PROVE  /\ requests' \in Seq(Requests) /\ missed' \subseteq Symbols
           /\ missed \subseteq missed'
           /\ \A s \in Symbols : Requested(s) => Requested(s)'
           /\ op = "subscribe" => \A s \in symbols : Requested(s)' \/ s \in missed'
  <1> DEFINE message == Message(op, symbols, "LTP")
  <1>1. message \in Requests /\ requests \in Seq(Requests) /\ missed \subseteq Symbols
    BY DEF Message, Requests, Modes, TypeOK
  <1>2. CASE requests' = Append(requests, message) /\ UNCHANGED missed
    <2>1. requests' \in Seq(Requests)
      BY <1>1, <1>2
    <2>2. \A s \in Symbols : Requested(s) => Requested(s)'
      BY <1>1, <1>2, RequestedStays
    <2>3. Len(requests') \in 1 .. Len(requests') /\ requests'[Len(requests')] = message
      BY <1>1, <1>2
    <2>4. op = "subscribe" => \A s \in symbols : IsRequest(message, s)
      BY DEF IsRequest, Message
    <2>5. op = "subscribe" => \A s \in symbols : Requested(s)'
      BY <2>3, <2>4 DEF Requested, IsRequest
    <2>6. QED
      BY <1>1, <1>2, <2>1, <2>2, <2>5
  <1>3. CASE /\ missed' = IF op = "subscribe" THEN missed \cup symbols ELSE missed
             /\ UNCHANGED requests
    BY <1>1, <1>3, RequestedStays
  <1>4. QED
    BY <1>2, <1>3 DEF SendOrSkip

-----------------------------------------------------------------------------
\* An order is placed by a thread that has nothing else in hand.
LEMMA PlaceOrderKeeps ==
    ASSUME EngineInv, NEW c \in Clients, NEW o \in OrderIds, PlaceOrder(c, o)
    PROVE  EngineInv'
  <1>a. /\ client' \in [Clients -> ClientType]
        /\ \A d \in Clients \ {c} : client'[d] = client[d]
        /\ client'[c].step = "placed" /\ client'[c].orders = {o}
        /\ client'[c].engine = NoEngine
        /\ client[c].step = "idle" /\ client[c].orders = {}
    BY TypeFacts DEF PlaceOrder, EngineInv, ClientType, ClientSteps, NoClient
  <1>b. /\ status'[o] = "open" /\ status[o] = "absent"
        /\ \A p \in OrderIds \ {o} : status'[p] = status[p]
    BY DEF PlaceOrder, EngineInv, TypeOK
  <1>1. TypeOK'
    BY <1>a DEF EngineInv, PlaceOrder, engineVars, proxyVars, history, TypeOK
  <1>2. Singleton'
    BY <1>1, <1>a DEF EngineInv, PlaceOrder, engineVars, TypeOK, Singleton, NoEngine
  <1>3. FewOrders'
    <2>1. OpenOrders' = OpenOrders \cup {o} /\ index' = index
      BY <1>b DEF OpenOrders, PlaceOrder, engineVars
    <2>2. QED
      BY <2>1, FS_AddElement DEF EngineInv, FewOrders
  <1>4. OneInHand'
    BY <1>a DEF EngineInv, OneInHand, PlaceOrder
  <1>5. TickDecided'
    BY <1>b DEF EngineInv, TickDecided, PlaceOrder, TypeOK
  <1>6. Placed'
    BY <1>a, <1>b DEF EngineInv, Placed, PlaceOrder, engineVars
  <1>7. AllKnown'
    <2> SUFFICES ASSUME Indexed', NEW p \in OpenOrders', p \notin index'[engine']
                 PROVE  \E d \in Clients : WillTell(d, p)'
      BY DEF AllKnown
    <2>1. CASE p = o
      BY <1>a, <2>1 DEF WillTell
    <2>2. CASE p # o
      <3>1. /\ Indexed /\ p \in OpenOrders /\ p \notin index[engine] /\ engine' = engine
        BY <1>b, <2>2 DEF PlaceOrder, Indexed, OpenOrders, engineVars, history
      <3>2. PICK d \in Clients : WillTell(d, p)
        BY <3>1 DEF EngineInv, AllKnown
      <3>3. d # c
        BY <1>a, <3>2 DEF WillTell
      <3>4. QED
        BY <1>a, <3>1, <3>2, <3>3 DEF WillTell
    <2>3. QED
      BY <2>1, <2>2
  <1>8. AllStreamed'
    <2>1. UNCHANGED <<engine, control, requests, missed, subscriptions>> /\ refs' = refs
      BY DEF PlaceOrder, engineVars, proxyVars, history
    <2>2. \A s \in Symbols : Requested(s) => Requested(s)'
      BY <2>1 DEF Requested
    <2>3. \A d \in Clients : client[d].step = "subscribe" => client'[d] = client[d]
      BY <1>a DEF PlaceOrder
    <2>4. \A s \in Symbols : Streamed(s) => Streamed(s)'
      BY <2>1, <2>2, <2>3, StreamedStays
    <2>5. QED
      BY <2>1, <2>4, AllStreamedStays DEF EngineInv
  <1>9. TickInIndex' /\ Counted'
    BY SameStays DEF PlaceOrder, engineVars, proxyVars, history
  <1>10. QED
    BY <1>1, <1>2, <1>3, <1>4, <1>5, <1>6, <1>7, <1>8, <1>9 DEF EngineInv

\* A thread leaves only if the order is closed or no engine runs.
LEMMA FindEngineKeeps ==
    ASSUME EngineInv, NEW c \in Clients, FindEngine(c)
    PROVE  EngineInv'
  <1>a. /\ client' \in [Clients -> ClientType]
        /\ \A d \in Clients \ {c} : client'[d] = client[d]
        /\ \/ /\ client'[c].step = "idle" /\ client'[c].orders = {}
              /\ client'[c].engine = NoEngine
              /\ ~(client[c].orders \subseteq OpenOrders /\ IsRunning(engine))
           \/ /\ client'[c].step = "get" /\ client'[c].orders = client[c].orders
              /\ client'[c].engine = client[c].engine
    BY GotoMoves, LeaveMoves DEF FindEngine, EngineInv, ClientSteps
  <1>1. TypeOK'
    BY <1>a DEF EngineInv, TypeOK, ClientType, ClientSteps, FindEngine, engineVars,
           proxyVars, history
  <1>2. Singleton'
    <2>1. created \in Nat
      BY MaxEnginesAssumption DEF EngineInv, TypeOK
    <2>2. \A d \in Clients : client'[d].engine <= created
      BY <1>a, <2>1 DEF EngineInv, Singleton, NoEngine
    <2>3. QED
      BY <2>2 DEF EngineInv, Singleton, FindEngine, engineVars
  <1>3. OneInHand'
    BY <1>a DEF EngineInv, OneInHand, FindEngine
  <1>4. Placed'
    BY <1>a DEF EngineInv, Placed, FindEngine, engineVars
  <1>5. AllKnown'
    <2> SUFFICES ASSUME Indexed', NEW o \in OpenOrders', o \notin index'[engine']
                 PROVE  \E d \in Clients : WillTell(d, o)'
      BY DEF AllKnown
    <2>1. /\ Indexed /\ o \in OpenOrders /\ o \notin index[engine] /\ engine' = engine
      BY DEF FindEngine, Indexed, OpenOrders, engineVars, history
    <2>2. PICK d \in Clients : WillTell(d, o)
      BY <2>1 DEF EngineInv, AllKnown
    <2>3. IsRunning(engine)
      BY <2>1 DEF EngineInv, Singleton, Indexed, RunningSteps, IsRunning, Running
    <2>4. CASE d = c
      BY <1>a, <2>1, <2>2, <2>3, <2>4 DEF WillTell, FindEngine
    <2>5. CASE d # c
      BY <1>a, <2>1, <2>2, <2>5 DEF WillTell
    <2>6. QED
      BY <2>4, <2>5
  <1>6. AllStreamed'
    <2>1. UNCHANGED <<engine, control, requests, missed, subscriptions>> /\ refs' = refs
      BY DEF FindEngine, engineVars, proxyVars, history
    <2>2. \A s \in Symbols : Requested(s) => Requested(s)'
      BY <2>1 DEF Requested
    <2>3. \A d \in Clients : client[d].step = "subscribe" => client'[d] = client[d]
      BY <1>a DEF FindEngine
    <2>4. \A s \in Symbols : Streamed(s) => Streamed(s)'
      BY <2>1, <2>2, <2>3, StreamedStays
    <2>5. QED
      BY <2>1, <2>4, AllStreamedStays DEF EngineInv
  <1>7. FewOrders' /\ TickDecided' /\ TickInIndex' /\ Counted'
    BY SameStays DEF FindEngine, engineVars, proxyVars, history
  <1>8. QED
    BY <1>1, <1>2, <1>3, <1>4, <1>5, <1>6, <1>7 DEF EngineInv

\* A new instance has no orders, so that its counts are right.
LEMMA GetEngineKeeps ==
    ASSUME EngineInv, NEW c \in Clients, GetEngine(c)
    PROVE  EngineInv'
  <1>a. /\ client' \in [Clients -> ClientType]
        /\ \A d \in Clients \ {c} : client'[d] = client[d]
        /\ client'[c].step = "notify" /\ client'[c].orders = client[c].orders
        /\ client'[c].engine = engine' /\ client[c].step = "get"
    <2>1. PICK e \in Engines :
             /\ engine' = e
             /\ client' = [client EXCEPT ![c].step = "notify", ![c].engine = e]
      BY DEF GetEngine, GetInstance
    <2>2. client \in [Clients -> ClientType]
      BY TypeFacts DEF EngineInv
    <2>3. client[c].step = "get"
      BY DEF GetEngine
    <2>4. QED
      BY <2>1, <2>2, <2>3 DEF ClientType, ClientSteps
  <1>b. /\ engine' \in Engines
        /\ \/ engine' = engine /\ created' = created
           \/ engine = NoEngine /\ engine' = created' /\ created' = created + 1
    BY DEF GetEngine, GetInstance, NoEngine, Engines, EngineInv
  <1>1. TypeOK'
    BY <1>a, <1>b, MaxEnginesAssumption
       DEF EngineInv, TypeOK, ClientType, ClientSteps, GetEngine, proxyVars, history,
           Engines, NoEngine
  <1>2. Singleton'
    BY <1>a, <1>b, MaxEnginesAssumption
       DEF EngineInv, TypeOK, Singleton, GetEngine, NoEngine, Engines, RunningSteps,
           EngineLockFree, ClientType
  <1>3. OneInHand'
    BY <1>a DEF EngineInv, OneInHand, GetEngine
  <1>4. Placed'
    BY <1>a DEF EngineInv, Placed, GetEngine, engineVars
  <1>5. AllKnown'
    <2> SUFFICES ASSUME Indexed', NEW o \in OpenOrders', o \notin index'[engine']
                 PROVE  \E d \in Clients : WillTell(d, o)'
      BY DEF AllKnown
    <2>1. Indexed /\ o \in OpenOrders /\ index' = index
      BY DEF GetEngine, Indexed, OpenOrders, history
    <2>2. engine' = engine
      BY <1>b, <2>1 DEF EngineInv, Singleton, Indexed
    <2>3. PICK d \in Clients : WillTell(d, o)
      BY <2>1, <2>2 DEF EngineInv, AllKnown
    <2>4. CASE d = c
      BY <1>a, <2>3, <2>4 DEF WillTell
    <2>5. CASE d # c
      BY <1>a, <2>2, <2>3, <2>5 DEF WillTell
    <2>6. QED
      BY <2>4, <2>5
  <1>6. TickInIndex'
    BY <1>1, <1>a
       DEF EngineInv, GetEngine, GetInstance, TypeOK, TickInIndex, Ticking, Singleton
  <1>7. Counted'
    <2>1. CASE engine' = engine
      BY <2>1 DEF EngineInv, Counted, GetEngine, OrdersOn
    <2>2. CASE engine = NoEngine /\ engine' = created'
      <3>1. index[engine'] = {} /\ \A s \in Symbols : refs[engine'][s] = 0
        BY <1>b, <2>2 DEF EngineInv, TypeOK, Singleton, NoEngine, Engines
      <3>2. \A s \in Symbols : Cardinality({} \cap OrdersOn(s)) = 0
        BY FS_EmptySet
      <3>3. QED
        BY <3>1, <3>2 DEF Counted, GetEngine
    <2>3. QED
      BY <1>b, <2>1, <2>2
  <1>8. AllStreamed'
    <2>1. SUFFICES ASSUME control.step \in IndexSteps
                   PROVE  AllStreamed'
      BY DEF AllStreamed, GetEngine
    <2>2. engine' = engine
      BY <1>b, <2>1 DEF EngineInv, Singleton, IndexSteps
    <2>3. UNCHANGED <<control, refs, requests, missed, subscriptions>>
      BY DEF GetEngine, proxyVars, history
    <2>4. \A d \in Clients : client[d].step = "subscribe" => client'[d] = client[d]
      BY <1>a
    <2>5. \A s \in Symbols : Streamed(s) => Streamed(s)'
      BY <2>3, <2>4, StreamedStays DEF Requested
    <2>6. QED
      BY <2>2, <2>3, <2>5, AllStreamedStays DEF EngineInv
  <1>9. FewOrders' /\ TickDecided'
    BY SameStays DEF GetEngine, engineVars, proxyVars, history
  <1>10. QED
    BY <1>1, <1>2, <1>3, <1>4, <1>5, <1>6, <1>7, <1>8, <1>9 DEF EngineInv

\* The count grows with the index, and the first reference is subscribed.
LEMMA NotifyOrderPlacedKeeps ==
    ASSUME EngineInv, NEW c \in Clients, NEW o \in OrderIds, NotifyOrderPlaced(c, o)
    PROVE  EngineInv'
  <1>a. /\ client' \in [Clients -> ClientType]
        /\ \A d \in Clients \ {c} : client'[d] = client[d]
        /\ client[c].step = "notify" /\ o \in client[c].orders
        /\ \/ /\ client'[c].step = "idle" /\ client'[c].orders = {}
              /\ client'[c].engine = NoEngine
              /\ refs[client[c].engine][SymbolOf[o]] # 0
           \/ /\ client'[c].step = "subscribe" /\ client'[c].orders = client[c].orders
              /\ client'[c].engine = client[c].engine
    BY GotoMoves, LeaveMoves DEF NotifyOrderPlaced, EngineInv, ClientSteps
  <1>b. client[c].engine \in Engines \cup {NoEngine} /\ SymbolOf[o] \in Symbols
    BY SymbolAssumption, TypeFacts DEF EngineInv, ClientType
  <1>c. \A e \in Engines :
          index'[e] = IF e = client[c].engine THEN index[e] \cup {o} ELSE index[e]
    BY DEF NotifyOrderPlaced, EngineInv, TypeOK
  <1>d. \A e \in Engines, s \in Symbols :
          refs'[e][s] = IF e = client[c].engine /\ s = SymbolOf[o] THEN refs[e][s] + 1
                        ELSE refs[e][s]
    BY <1>b DEF NotifyOrderPlaced, EngineInv, TypeOK
  <1>e. \A e \in Engines, s \in Symbols : refs[e][s] \in Nat
    BY DEF EngineInv, TypeOK
  <1>1. TypeOK'
    <2>1. index' \in [Engines -> SUBSET OrderIds]
      BY DEF NotifyOrderPlaced, EngineInv, TypeOK
    <2>2. refs' \in [Engines -> [Symbols -> Nat]]
      <3>1. refs \in [Engines -> [Symbols -> Nat]]
        BY DEF EngineInv, TypeOK
      <3>2. refs' = [refs EXCEPT ![client[c].engine][SymbolOf[o]] = @ + 1]
        BY DEF NotifyOrderPlaced
      <3>3. CASE client[c].engine \in Engines
        BY <1>b, <3>1, <3>2, <3>3
      <3>4. CASE client[c].engine \notin Engines
        BY <3>1, <3>2, <3>4
      <3>5. QED
        BY <3>3, <3>4
    <2>3. QED
      BY <1>a, <2>1, <2>2
         DEF NotifyOrderPlaced, EngineInv, TypeOK, ClientType, ClientSteps, proxyVars,
             history
  <1>2. Singleton'
    <2>1. created \in Nat /\ client[c].engine <= created
      BY MaxEnginesAssumption DEF EngineInv, TypeOK, Singleton
    <2>2. \A d \in Clients : client'[d].engine <= created
      BY <1>a, <2>1 DEF EngineInv, Singleton, NoEngine
    <2>a. \A e \in Engines : e > created => e # client[c].engine
      BY <1>b, <2>1 DEF Engines, NoEngine
    <2>3. \A e \in Engines : e > created => index'[e] = index[e]
      BY <1>c, <2>a
    <2>4. \A e \in Engines : e > created => \A s \in Symbols : refs'[e][s] = refs[e][s]
      BY <1>d, <2>a
    <2>5. QED
      BY <2>2, <2>3, <2>4 DEF EngineInv, Singleton, NotifyOrderPlaced
  <1>3. FewOrders'
    <2>1. \A e \in Engines : IsFiniteSet(index[e]) => IsFiniteSet(index'[e])
      <3>1. \A e \in Engines : IsFiniteSet(index[e]) => IsFiniteSet(index[e] \cup {o})
        BY FS_AddElement
      <3>2. QED
        BY <1>c, <3>1
    <2>2. QED
      BY <2>1 DEF EngineInv, FewOrders, OpenOrders, NotifyOrderPlaced
  <1>4. OneInHand'
    BY <1>a DEF EngineInv, OneInHand, NotifyOrderPlaced
  <1>5. Placed'
    BY <1>a, <1>c DEF EngineInv, Placed, NotifyOrderPlaced
  <1>6. AllKnown'
    <2> SUFFICES ASSUME Indexed', NEW p \in OpenOrders', p \notin index'[engine']
                 PROVE  \E d \in Clients : WillTell(d, p)'
      BY DEF AllKnown
    <2>1. Indexed /\ p \in OpenOrders /\ engine' = engine
      BY DEF NotifyOrderPlaced, Indexed, OpenOrders, history
    <2>2. engine \in Engines
      BY <2>1 DEF EngineInv, TypeOK, Singleton, Indexed
    <2>3. p \notin index[engine]
      BY <1>c, <2>1, <2>2
    <2>4. PICK d \in Clients : WillTell(d, p)
      BY <2>1, <2>3 DEF EngineInv, AllKnown
    <2>5. d # c
      BY <1>a, <1>c, <2>1, <2>2, <2>4 DEF WillTell
    <2>6. QED
      BY <1>a, <2>1, <2>4, <2>5 DEF WillTell
  <1>7. TickInIndex'
    BY <1>c DEF EngineInv, TypeOK, TickInIndex, Ticking, NotifyOrderPlaced, NoEngine
  <1>8. Counted'
    <2> SUFFICES ASSUME engine # NoEngine, control.step \notin {"clear", "release"},
                        NEW s \in Symbols
                 PROVE  refs'[engine][s] >= Cardinality(index'[engine] \cap OrdersOn(s))
      BY DEF Counted, NotifyOrderPlaced, OrdersOn
    <2>1. engine \in Engines
      BY DEF EngineInv, TypeOK
    <2>2. /\ refs[engine][s] >= Cardinality(index[engine] \cap OrdersOn(s))
          /\ IsFiniteSet(index[engine] \cap OrdersOn(s))
          /\ Cardinality(index[engine] \cap OrdersOn(s)) \in Nat
      BY <2>1, IndexPart DEF EngineInv, Counted, FewOrders
    <2>3. CASE client[c].engine = engine /\ s = SymbolOf[o]
      <3>1. index'[engine] \cap OrdersOn(s) = (index[engine] \cap OrdersOn(s)) \cup {o}
        BY <1>c, <2>1, <2>3 DEF OrdersOn
      <3> DEFINE part == index[engine] \cap OrdersOn(s)
      <3>2. Cardinality(part \cup {o}) \in {Cardinality(part), Cardinality(part) + 1}
        BY <2>2, FS_AddElement
      <3>3. refs'[engine][s] = refs[engine][s] + 1
        BY <1>d, <2>1, <2>3
      <3>4. refs[engine][s] \in Nat
        BY <1>e, <2>1
      <3> HIDE DEF part
      <3>5. Cardinality(part \cup {o}) <= refs[engine][s] + 1
        BY <2>2, <3>2, <3>4 DEF part
      <3>6. QED
        BY <3>1, <3>3, <3>5 DEF part
    <2>4. CASE ~(client[c].engine = engine /\ s = SymbolOf[o])
      <3>1. index'[engine] \cap OrdersOn(s) = index[engine] \cap OrdersOn(s)
        BY <1>c, <2>1, <2>4 DEF OrdersOn
      <3>2. QED
        BY <1>d, <2>1, <2>2, <2>4, <3>1
    <2>5. QED
      BY <2>3, <2>4
  <1>9. AllStreamed'
    <2> SUFFICES ASSUME control.step \in IndexSteps, NEW s \in Symbols,
                        refs'[engine][s] > 0
                 PROVE  Streamed(s)'
      BY DEF AllStreamed, NotifyOrderPlaced
    <2>1. engine \in Engines
      BY DEF EngineInv, TypeOK, Singleton, IndexSteps
    <2>2. UNCHANGED <<control, requests, missed, subscriptions>>
      BY DEF NotifyOrderPlaced, proxyVars, history
    <2>3. \A d \in Clients : client[d].step = "subscribe" => client'[d] = client[d]
      BY <1>a
    <2>4. CASE refs[engine][s] > 0
      <3>1. Streamed(s)
        BY <2>4 DEF EngineInv, AllStreamed
      <3>2. QED
        BY <2>2, <2>3, <3>1, StreamedStays DEF Requested
    <2>5. CASE refs[engine][s] = 0
      BY <1>a, <1>d, <2>1, <2>5 DEF Streamed
    <2>6. QED
      BY <1>e, <2>1, <2>4, <2>5
  <1>10. TickDecided'
    BY SameStays DEF NotifyOrderPlaced, engineVars, proxyVars, history
  <1>11. QED
    BY <1>1, <1>2, <1>3, <1>4, <1>5, <1>6, <1>7, <1>8, <1>9, <1>10 DEF EngineInv

\* The subscription is on its way, or has failed.
LEMMA SubscribeSymbolKeeps ==
    ASSUME EngineInv, NEW c \in Clients, SubscribeSymbol(c)
    PROVE  EngineInv'
  <1>a. /\ client' \in [Clients -> ClientType]
        /\ \A d \in Clients \ {c} : client'[d] = client[d]
        /\ client'[c].step = "idle" /\ client'[c].orders = {} /\ client'[c].engine = NoEngine
        /\ client[c].step = "subscribe"
    BY LeaveMoves DEF SubscribeSymbol, EngineInv
  <1> DEFINE symbols == {SymbolOf[o] : o \in client[c].orders}
  <1>b. symbols \in SUBSET Symbols
    BY SymbolAssumption, TypeFacts DEF EngineInv, ClientType
  <1>c. /\ requests' \in Seq(Requests) /\ missed' \subseteq Symbols
        /\ missed \subseteq missed'
        /\ \A s \in Symbols : Requested(s) => Requested(s)'
        /\ \A s \in symbols : Requested(s)' \/ s \in missed'
    BY <1>b, SendMoves DEF SubscribeSymbol, EngineInv
  <1>1. TypeOK'
    BY <1>a, <1>c
       DEF EngineInv, TypeOK, ClientType, ClientSteps, SubscribeSymbol, engineVars,
                   proxyVars
  <1>2. Singleton'
    <2>1. created \in Nat
      BY MaxEnginesAssumption DEF EngineInv, TypeOK
    <2>2. \A d \in Clients : client'[d].engine <= created
      BY <1>a, <2>1 DEF EngineInv, Singleton, NoEngine
    <2>3. QED
      BY <2>2 DEF EngineInv, Singleton, SubscribeSymbol, engineVars
  <1>3. OneInHand'
    BY <1>a DEF EngineInv, OneInHand, SubscribeSymbol
  <1>4. Placed'
    BY <1>a DEF EngineInv, Placed, SubscribeSymbol, engineVars
  <1>5. AllKnown'
    <2> SUFFICES ASSUME Indexed', NEW o \in OpenOrders', o \notin index'[engine']
                 PROVE  \E d \in Clients : WillTell(d, o)'
      BY DEF AllKnown
    <2>1. /\ Indexed /\ o \in OpenOrders /\ o \notin index[engine] /\ engine' = engine
      BY DEF SubscribeSymbol, Indexed, OpenOrders, engineVars
    <2>2. PICK d \in Clients : WillTell(d, o)
      BY <2>1 DEF EngineInv, AllKnown
    <2>3. QED
      BY <1>a, <2>1, <2>2 DEF WillTell
  <1>6. AllStreamed'
    <2>1. UNCHANGED <<engine, control, refs, subscriptions>>
      BY DEF SubscribeSymbol, engineVars, proxyVars
    <2>2. \A s \in Symbols : Streamed(s) => Streamed(s)'
      BY <1>a, <1>c, <2>1 DEF Streamed
    <2>3. QED
      BY <2>1, <2>2, AllStreamedStays DEF EngineInv
  <1>7. FewOrders' /\ TickDecided' /\ TickInIndex' /\ Counted'
    BY SameStays DEF SubscribeSymbol, engineVars, proxyVars, history
  <1>8. QED
    BY <1>1, <1>2, <1>3, <1>4, <1>5, <1>6, <1>7 DEF EngineInv

\* An order that is closed need not be known.
LEMMA CloseOrderKeeps ==
    ASSUME EngineInv, NEW o \in OrderIds, CloseOrder(o)
    PROVE  EngineInv'
  <1>1. TypeOK'
    BY DEF EngineInv, CloseOrder, engineVars, proxyVars, history, TypeOK
  <1>2. FewOrders'
    <2>1. OpenOrders' \subseteq OpenOrders /\ index' = index
      BY DEF CloseOrder, engineVars, proxyVars, history, OpenOrders
    <2>2. QED
      BY <2>1, FS_Subset DEF EngineInv, FewOrders
  <1>3. TickDecided'
    BY <1>1 DEF EngineInv, CloseOrder, engineVars, proxyVars, history, TypeOK, TickDecided
  <1>4. Placed'
    BY <1>1 DEF EngineInv, CloseOrder, engineVars, Placed, Singleton, TickInIndex
  <1>5. AllKnown'
    <2>1. UNCHANGED <<client, engine>> /\ OpenOrders' \subseteq OpenOrders
      BY DEF CloseOrder, engineVars, proxyVars, history, OpenOrders
    <2>2. Indexed' => Indexed
      BY DEF CloseOrder, engineVars, proxyVars, history, Indexed, EngineInv, TypeOK
    <2>3. index' = index
      BY DEF CloseOrder, engineVars, proxyVars, history
    <2>4. QED
      BY <2>1, <2>2, <2>3, AllKnownStays DEF EngineInv
  <1>6. Singleton' /\ OneInHand' /\ TickInIndex' /\ Counted' /\ AllStreamed'
    BY SameStays DEF CloseOrder, engineVars, proxyVars, history
  <1>7. QED
    BY <1>1, <1>2, <1>3, <1>4, <1>5, <1>6 DEF EngineInv

\* The batch comes from the index of the engine that is registered.
LEMMA OnMarketDataKeeps ==
    ASSUME EngineInv, NEW s \in Symbols, OnMarketData(s)
    PROVE  EngineInv'
  <1>1. TypeOK'
    BY DEF EngineInv, OnMarketData, NoTick, OrdersOn, engineVars, proxyVars, history, TypeOK
  <1>2. Singleton'
    BY DEF EngineInv, TypeOK, Singleton, OnMarketData, NoTick, Running, NoEngine,
           engineVars,
           Engines
  <1>3. TickDecided'
    BY <1>1 DEF OnMarketData, NoTick, proxyVars, history, TypeOK, TickDecided
  <1>4. Placed'
    BY <1>1 DEF EngineInv, OnMarketData, Running, engineVars, TypeOK, Placed
  <1>5. TickInIndex'
    BY <1>1 DEF EngineInv, OnMarketData, NoTick, engineVars, TickInIndex, Ticking, Singleton
  <1>6. FewOrders' /\ OneInHand' /\ AllKnown' /\ Counted' /\ AllStreamed'
    BY SameStays DEF OnMarketData, engineVars, proxyVars, history
  <1>7. QED
    BY <1>1, <1>2, <1>3, <1>4, <1>5, <1>6 DEF EngineInv

\* The tick closes an order that it has in hand.
LEMMA ExecuteOrderKeeps ==
    ASSUME EngineInv, NEW o \in OrderIds, ExecuteOrder(o)
    PROVE  EngineInv'
  <1>1. TypeOK'
    BY DEF EngineInv, ExecuteOrder, engineVars, proxyVars, history, TypeOK
  <1>2. Singleton'
    BY <1>1 DEF EngineInv, ExecuteOrder, engineVars, Singleton
  <1>3. FewOrders'
    <2>1. OpenOrders' \subseteq OpenOrders /\ index' = index
      BY DEF ExecuteOrder, engineVars, proxyVars, history, OpenOrders
    <2>2. QED
      BY <2>1, FS_Subset DEF EngineInv, FewOrders
  <1>4. TickDecided'
    BY <1>1 DEF EngineInv, ExecuteOrder, engineVars, proxyVars, history, TypeOK, TickDecided
  <1>5. Placed'
    BY <1>1 DEF EngineInv, ExecuteOrder, engineVars, Placed, TickInIndex
  <1>6. AllKnown'
    <2>1. UNCHANGED <<client, engine>> /\ OpenOrders' \subseteq OpenOrders
      BY DEF ExecuteOrder, engineVars, proxyVars, history, OpenOrders
    <2>2. Indexed' => Indexed
      BY DEF ExecuteOrder, engineVars, proxyVars, history, Indexed, EngineInv, TypeOK
    <2>3. index' = index
      BY DEF ExecuteOrder, engineVars, proxyVars, history
    <2>4. QED
      BY <2>1, <2>2, <2>3, AllKnownStays DEF EngineInv
  <1>7. TickInIndex'
    BY <1>1 DEF EngineInv, ExecuteOrder, engineVars, TickInIndex, Ticking
  <1>8. OneInHand' /\ Counted' /\ AllStreamed'
    BY SameStays DEF ExecuteOrder, engineVars, proxyVars, history
  <1>9. QED
    BY <1>1, <1>2, <1>3, <1>4, <1>5, <1>6, <1>7, <1>8 DEF EngineInv

\* The tick leaves the order where it is.
LEMMA KeepOrderKeeps ==
    ASSUME EngineInv, NEW o \in OrderIds, KeepOrder(o)
    PROVE  EngineInv'
  <1>1. TypeOK'
    BY DEF EngineInv, KeepOrder, NextOf, NoTick, engineVars, proxyVars, history, TypeOK
  <1>2. Singleton'
    BY <1>1
       DEF EngineInv, KeepOrder, NextOf, NoTick, engineVars, TypeOK, Singleton, NoEngine
  <1>3. TickDecided'
    BY <1>1 DEF KeepOrder, NextOf, NoTick, history, TypeOK, TickDecided
  <1>4. Placed'
    BY <1>1
       DEF EngineInv, KeepOrder, NextOf, NoTick, engineVars, Placed, Singleton, TickInIndex
  <1>5. TickInIndex'
    BY <1>1 DEF EngineInv, KeepOrder, NextOf, NoTick, engineVars, TickInIndex, Ticking
  <1>6. FewOrders' /\ OneInHand' /\ AllKnown' /\ Counted' /\ AllStreamed'
    BY SameStays DEF KeepOrder, engineVars, proxyVars, history
  <1>7. QED
    BY <1>1, <1>2, <1>3, <1>4, <1>5, <1>6 DEF EngineInv

\* An order of the batch that is not open is closed.
LEMMA DropOrderKeeps ==
    ASSUME EngineInv, NEW o \in OrderIds, DropOrder(o)
    PROVE  EngineInv'
  <1>1. TypeOK'
    BY DEF EngineInv, DropOrder, engineVars, proxyVars, history, TypeOK
  <1>2. Singleton'
    BY <1>1 DEF EngineInv, DropOrder, engineVars, Singleton
  <1>3. TickDecided'
    BY TypeFacts DEF DropOrder, EngineInv, TypeOK, TickType, TickDecided, Placed
  <1>4. Placed'
    BY <1>1 DEF EngineInv, DropOrder, engineVars, Placed, Singleton, TickInIndex
  <1>5. TickInIndex'
    BY <1>1 DEF EngineInv, DropOrder, engineVars, TickInIndex, Ticking, Singleton
  <1>6. FewOrders' /\ OneInHand' /\ AllKnown' /\ Counted' /\ AllStreamed'
    BY SameStays DEF DropOrder, engineVars, proxyVars, history
  <1>7. QED
    BY <1>1, <1>2, <1>3, <1>4, <1>5, <1>6 DEF EngineInv

\* A closed order leaves the index, and its reference goes with it.
LEMMA NotifyOrderCompletedKeeps ==
    ASSUME EngineInv, NEW o \in OrderIds, NotifyOrderCompleted(o)
    PROVE  EngineInv'
  <1>a. /\ tick' \in TickType /\ tick'.batch = tick.batch
        /\ tick'.engine \in {tick.engine, NoEngine} /\ tick'.step # "complete"
    <2>1. CASE tick' = [tick EXCEPT !.step = "unsubscribe"]
      BY <2>1, TypeFacts DEF EngineInv, TickType
    <2>2. CASE NextOf(tick.batch)
      BY <2>2, TypeFacts, NextOfMoves DEF EngineInv, TickType
    <2>3. QED
      BY <2>1, <2>2 DEF NotifyOrderCompleted
  <1>b. /\ tick.step = "complete" /\ o \in tick.orders
        /\ tick.engine \in Engines \cup {NoEngine} /\ SymbolOf[o] \in Symbols
    BY SymbolAssumption, TypeFacts DEF NotifyOrderCompleted, EngineInv, TickType
  <1>c. \A e \in Engines :
          index'[e] = IF e = tick.engine THEN index[e] \ {o} ELSE index[e]
    BY DEF NotifyOrderCompleted, EngineInv, TypeOK
  <1>d. \A e \in Engines, s \in Symbols :
          refs'[e][s] = IF e = tick.engine /\ s = SymbolOf[o] THEN Decremented(refs[e][s])
                        ELSE refs[e][s]
    BY <1>b DEF NotifyOrderCompleted, EngineInv, TypeOK
  <1>e. \A e \in Engines, s \in Symbols : refs[e][s] \in Nat
    BY DEF EngineInv, TypeOK
  <1>f. UNCHANGED <<status, client, control, engine, created, running, registered,
                    requests, subscriptions, streams, streamCalls, missed, lost>>
    BY DEF NotifyOrderCompleted, proxyVars, history
  <1>1. TypeOK'
    <2>1. index' \in [Engines -> SUBSET OrderIds]
      BY DEF NotifyOrderCompleted, EngineInv, TypeOK
    <2>2. refs' \in [Engines -> [Symbols -> Nat]]
      <3>1. refs \in [Engines -> [Symbols -> Nat]]
        BY DEF EngineInv, TypeOK
      <3>2. refs' = [refs EXCEPT ![tick.engine][SymbolOf[o]] = Decremented(@)]
        BY DEF NotifyOrderCompleted
      <3>3. CASE tick.engine \in Engines
        BY <1>b, <3>1, <3>2, <3>3 DEF Decremented
      <3>4. CASE tick.engine \notin Engines
        BY <3>1, <3>2, <3>4
      <3>5. QED
        BY <3>3, <3>4
    <2>3. QED
      BY <1>a, <1>f, <2>1, <2>2 DEF EngineInv, TypeOK, TickType
  <1>2. Singleton'
    <2>1. created \in Nat /\ tick.engine <= created
      BY MaxEnginesAssumption DEF EngineInv, TypeOK, Singleton
    <2>2. tick'.engine <= created
      BY <1>a, <2>1 DEF NoEngine
    <2>a. \A e \in Engines : e > created => e # tick.engine
      BY <1>b, <2>1 DEF Engines, NoEngine
    <2>3. \A e \in Engines : e > created => index'[e] = index[e]
      BY <1>c, <2>a
    <2>4. \A e \in Engines : e > created => \A s \in Symbols : refs'[e][s] = refs[e][s]
      BY <1>d, <2>a
    <2>5. QED
      BY <1>f, <2>2, <2>3, <2>4 DEF EngineInv, Singleton
  <1>3. FewOrders'
    <2>1. \A e \in Engines : IsFiniteSet(index[e]) => IsFiniteSet(index'[e])
      <3>1. \A e \in Engines : IsFiniteSet(index[e]) => IsFiniteSet(index[e] \ {o})
        BY FS_Subset
      <3>2. QED
        BY <1>c, <3>1
    <2>2. QED
      BY <1>f, <2>1 DEF EngineInv, FewOrders, OpenOrders
  <1>4. TickDecided'
    BY <1>a DEF TickDecided
  <1>5. Placed'
    BY <1>a, <1>c, <1>f DEF EngineInv, Placed
  <1>6. AllKnown'
    <2>1. status[o] = "closed"
      BY <1>b DEF EngineInv, TickDecided
    <2>2. Indexed => engine \in Engines
      BY DEF EngineInv, TypeOK, Singleton, Indexed
    <2>3. Indexed => index[engine] \cap OpenOrders' \subseteq index'[engine]
      BY <1>c, <1>f, <2>1, <2>2 DEF OpenOrders
    <2>4. QED
      BY <1>f, <2>3, AllKnownStays DEF EngineInv, Indexed, OpenOrders
  <1>7. TickInIndex'
    BY <1>a, <1>b, <1>c, <1>f DEF EngineInv, TypeOK, TickInIndex, Ticking, NoEngine
  <1>8. Counted'
    <2> SUFFICES ASSUME engine # NoEngine, control.step \notin {"clear", "release"},
                        NEW s \in Symbols
                 PROVE  refs'[engine][s] >= Cardinality(index'[engine] \cap OrdersOn(s))
      BY <1>f DEF Counted, OrdersOn
    <2>1. engine \in Engines
      BY DEF EngineInv, TypeOK
    <2>2. /\ refs[engine][s] >= Cardinality(index[engine] \cap OrdersOn(s))
          /\ IsFiniteSet(index[engine] \cap OrdersOn(s))
          /\ Cardinality(index[engine] \cap OrdersOn(s)) \in Nat
      BY <2>1, IndexPart DEF EngineInv, Counted, FewOrders
    <2>3. CASE tick.engine = engine /\ s = SymbolOf[o]
      <3>1. o \in index[engine] \cap OrdersOn(s)
        BY <1>b, <2>3 DEF EngineInv, TickInIndex, Ticking, OrdersOn
      <3>2. index'[engine] \cap OrdersOn(s) = (index[engine] \cap OrdersOn(s)) \ {o}
        BY <1>c, <2>1, <2>3
      <3>3. Cardinality((index[engine] \cap OrdersOn(s)) \ {o})
               = Cardinality(index[engine] \cap OrdersOn(s)) - 1
        BY <2>2, <3>1, FS_RemoveElement
      <3>4. refs'[engine][s] = Decremented(refs[engine][s])
        BY <1>d, <2>1, <2>3
      <3>5. (index[engine] \cap OrdersOn(s)) \ {o} \subseteq index[engine] \cap OrdersOn(s)
        OBVIOUS
      <3>6. Cardinality((index[engine] \cap OrdersOn(s)) \ {o}) \in Nat
        BY <2>2, <3>5, FS_Subset, FS_CardinalityType
      <3>7. QED
        BY <1>e, <2>1, <2>2, <3>2, <3>3, <3>4, <3>6 DEF Decremented
    <2>4. CASE ~(tick.engine = engine /\ s = SymbolOf[o])
      <3>1. index'[engine] \cap OrdersOn(s) = index[engine] \cap OrdersOn(s)
        BY <1>c, <2>1, <2>4 DEF OrdersOn
      <3>2. QED
        BY <1>d, <2>1, <2>2, <2>4, <3>1
    <2>5. QED
      BY <2>3, <2>4
  <1>9. AllStreamed'
    <2>1. ASSUME control.step \in IndexSteps
          PROVE  \A s \in Symbols : refs'[engine][s] > 0 => refs[engine][s] > 0
      <3>1. engine \in Engines
        BY <2>1 DEF EngineInv, TypeOK, Singleton, IndexSteps
      <3>2. QED
        BY <1>d, <1>e, <3>1 DEF Decremented
    <2>2. \A s \in Symbols : Streamed(s) => Streamed(s)'
      BY <1>f, StreamedStays DEF Requested
    <2>3. QED
      BY <1>f, <2>1, <2>2, AllStreamedStays DEF EngineInv, AllStreamed
  <1>10. OneInHand'
    BY SameStays DEF NotifyOrderCompleted, engineVars, proxyVars, history
  <1>11. QED
    BY <1>1, <1>2, <1>3, <1>4, <1>5, <1>6, <1>7, <1>8, <1>9, <1>10 DEF EngineInv

\* The release goes out; it says nothing of who else needs the symbol.
LEMMA UnsubscribeSymbolKeeps ==
    ASSUME EngineInv, UnsubscribeSymbol
    PROVE  EngineInv'
  <1>a. /\ tick' \in TickType
        /\ tick'.step = "look" /\ tick'.batch = tick.batch /\ tick'.orders = {}
        /\ tick'.engine \in {tick.engine, NoEngine}
    BY TypeFacts, NextOfMoves DEF UnsubscribeSymbol, EngineInv, TickType
  <1> DEFINE symbols == {SymbolOf[o] : o \in tick.orders}
  <1>b. symbols \in SUBSET Symbols
    BY SymbolAssumption, TypeFacts DEF EngineInv, TickType
  <1>c. /\ requests' \in Seq(Requests) /\ missed' \subseteq Symbols
        /\ missed \subseteq missed'
        /\ \A s \in Symbols : Requested(s) => Requested(s)'
    BY <1>b, SendMoves DEF UnsubscribeSymbol, EngineInv
  <1>1. TypeOK'
    BY <1>a, <1>c DEF EngineInv, TypeOK, TickType, UnsubscribeSymbol, engineVars, proxyVars
  <1>2. Singleton'
    BY <1>1, <1>a DEF EngineInv, UnsubscribeSymbol, engineVars, TypeOK, Singleton, NoEngine
  <1>3. TickDecided'
    BY <1>1, <1>a DEF NoTick, engineVars, proxyVars, history, TypeOK, TickDecided
  <1>4. Placed'
    BY <1>1, <1>a DEF EngineInv, UnsubscribeSymbol, engineVars, Placed
  <1>5. TickInIndex'
    BY <1>1, <1>a DEF EngineInv, UnsubscribeSymbol, engineVars, TickInIndex, Ticking
  <1>6. AllStreamed'
    <2>1. UNCHANGED <<engine, control, refs, subscriptions, client>>
      BY DEF UnsubscribeSymbol, engineVars, proxyVars
    <2>2. \A s \in Symbols : Streamed(s) => Streamed(s)'
      BY <1>c, <2>1, StreamedStays
    <2>3. QED
      BY <2>1, <2>2, AllStreamedStays DEF EngineInv
  <1>7. FewOrders' /\ OneInHand' /\ AllKnown' /\ Counted'
    BY SameStays DEF UnsubscribeSymbol, engineVars, proxyVars, history
  <1>8. QED
    BY <1>1, <1>2, <1>3, <1>4, <1>5, <1>6, <1>7 DEF EngineInv

\* The singleton, new or not, does not run yet, and its counts are right.
LEMMA StartKeeps ==
    ASSUME EngineInv, Start
    PROVE  EngineInv'
  <1>1. TypeOK'
    BY DEF EngineInv, Start, GetInstance, At, proxyVars, history, TypeOK, Engines
  <1>2. Singleton'
    BY OrderIdsAssumption, MaxStreamCallsAssumption, <1>1
       DEF EngineInv, Start, GetInstance, At, history, TypeOK, Singleton, RunningSteps,
           NoEngine, Engines
  <1>3. AllKnown'
    BY <1>1 DEF Start, At, AllKnown, Indexed, Engines, Singleton, OneInHand
  <1>4. TickInIndex'
    BY <1>1
       DEF EngineInv, Start, GetInstance, TypeOK, TickInIndex, Ticking, Engines, Singleton
  <1>5. Counted'
    <2>1. engine' \in Engines /\ UNCHANGED <<index, refs>>
      BY DEF Start, GetInstance
    <2>2. CASE engine' = engine /\ engine # NoEngine
      BY <2>1, <2>2 DEF EngineInv, Counted, Start, OrdersOn
    <2>3. CASE engine = NoEngine /\ engine' = created + 1
      <3>1. index[engine'] = {} /\ \A s \in Symbols : refs[engine'][s] = 0
        BY <2>1, <2>3 DEF EngineInv, TypeOK, Singleton, NoEngine, Engines
      <3>2. \A s \in Symbols : Cardinality({} \cap OrdersOn(s)) = 0
        BY FS_EmptySet
      <3>3. QED
        BY <2>1, <3>1, <3>2 DEF Counted
    <2>4. QED
      BY <2>2, <2>3 DEF Start, GetInstance
  <1>6. AllStreamed'
    BY <1>1 DEF Start, At, AllStreamed, IndexSteps, Requested, IsRequest, Singleton
  <1>7. FewOrders' /\ OneInHand' /\ TickDecided' /\ Placed'
    BY SameStays DEF Start, engineVars, proxyVars, history
  <1>8. QED
    BY <1>1, <1>2, <1>3, <1>4, <1>5, <1>6, <1>7 DEF EngineInv

\* The rebuild knows, counts and will subscribe what is open.
LEMMA RebuildOrderIndexKeeps ==
    ASSUME EngineInv, RebuildOrderIndex
    PROVE  EngineInv'
  <1>a. engine \in Engines
    BY DEF EngineInv, TypeOK, Singleton, RebuildOrderIndex
  <1>b. PICK found \in {OpenOrders, {}} :
          /\ index' = [index EXCEPT ![engine] = found]
          /\ refs' = [refs EXCEPT ![engine] =
                [s \in Symbols |-> Cardinality(found \cap OrdersOn(s))]]
          /\ control' = At("subscribe", {SymbolOf[o] : o \in found})
          /\ lost' = (found # OpenOrders)
    BY Zenon DEF RebuildOrderIndex
  <1>c. /\ found \subseteq OrderIds /\ IsFiniteSet(found)
        /\ \A s \in Symbols : Cardinality(found \cap OrdersOn(s)) \in Nat
    BY FS_EmptySet, FS_Intersection, FS_CardinalityType
       DEF EngineInv, FewOrders, OpenOrders
  <1>d. {SymbolOf[o] : o \in found} \subseteq Symbols
    BY <1>c, SymbolAssumption
  <1>e. control'.step = "subscribe" /\ control'.symbols = {SymbolOf[o] : o \in found}
    BY <1>b DEF At
  <1>f. /\ index'[engine] = found
        /\ \A s \in Symbols : refs'[engine][s] = Cardinality(found \cap OrdersOn(s))
        /\ \A e \in Engines \ {engine} : index'[e] = index[e] /\ refs'[e] = refs[e]
    BY <1>a, <1>b DEF EngineInv, TypeOK
  <1>1. TypeOK'
    <2>1. index' \in [Engines -> SUBSET OrderIds]
      BY <1>b, <1>c DEF EngineInv, TypeOK
    <2>2. refs' \in [Engines -> [Symbols -> Nat]]
      BY <1>b, <1>c DEF EngineInv, TypeOK
    <2>3. control' \in [step: {"stopped", "rebuild", "subscribe", "register",
                             "started", "clear", "release"},
                      symbols: SUBSET Symbols]
      BY <1>b, <1>d DEF At
    <2>4. lost' \in BOOLEAN
      BY <1>b
    <2>5. QED
      BY <2>1, <2>2, <2>3, <2>4 DEF RebuildOrderIndex, EngineInv, TypeOK, proxyVars
  <1>2. Singleton'
    <2>1. created \in Nat /\ engine <= created
      BY MaxEnginesAssumption DEF EngineInv, TypeOK, Singleton
    <2>2. \A e \in Engines : e > created => e # engine
      BY <2>1 DEF Engines
    <2>3. \A e \in Engines : e > created => index'[e] = index[e] /\ refs'[e] = refs[e]
      BY <1>f, <2>2
    <2>4. \A e \in Engines : e > created =>
             index'[e] = {} /\ \A s \in Symbols : refs'[e][s] = 0
      BY <2>3 DEF EngineInv, Singleton
    <2>5. UNCHANGED <<client, tick, engine, created, running, registered>>
      BY DEF RebuildOrderIndex
    <2>6. control.step = "rebuild"
      BY DEF RebuildOrderIndex
    <2>7. QED
      BY <1>e, <2>4, <2>5, <2>6 DEF EngineInv, Singleton, RunningSteps
  <1>3. FewOrders'
    BY <1>a, <1>c, <1>f DEF RebuildOrderIndex, EngineInv, FewOrders, OpenOrders
  <1>4. Placed'
    BY <1>a, <1>b, <1>f DEF RebuildOrderIndex, EngineInv, Placed, OpenOrders
  <1>5. AllKnown'
    BY <1>b, <1>f DEF RebuildOrderIndex, AllKnown, Indexed, OpenOrders
  <1>6. TickInIndex'
    BY <1>e DEF RebuildOrderIndex, EngineInv, TickInIndex, Ticking
  <1>7. Counted'
    BY <1>c, <1>f DEF RebuildOrderIndex, Counted, OrdersOn
  <1>8. AllStreamed'
    <2> SUFFICES ASSUME NEW s \in Symbols, refs'[engine][s] > 0
                 PROVE  Streamed(s)'
      BY DEF AllStreamed, RebuildOrderIndex
    <2>1. found \cap OrdersOn(s) # {}
      BY <1>f, FS_EmptySet
    <2>2. s \in control'.symbols
      BY <1>c, <1>e, <2>1 DEF OrdersOn
    <2>3. QED
      BY <1>e, <2>2 DEF Streamed
  <1>9. OneInHand' /\ TickDecided'
    BY SameStays DEF RebuildOrderIndex, engineVars, proxyVars, history
  <1>10. QED
    BY <1>1, <1>2, <1>3, <1>4, <1>5, <1>6, <1>7, <1>8, <1>9 DEF EngineInv

\* The symbols of the index are subscribed, or missed.
LEMMA SubscribeIndexedKeeps ==
    ASSUME EngineInv, SubscribeIndexed
    PROVE  EngineInv'
  <1>a. control'.step = "register" /\ control'.symbols = {} /\ control.step = "subscribe"
    BY DEF SubscribeIndexed, At
  <1>b. /\ requests' \in Seq(Requests) /\ missed' \subseteq Symbols
        /\ missed \subseteq missed'
        /\ \A s \in Symbols : Requested(s) => Requested(s)'
        /\ \A s \in control.symbols : Requested(s)' \/ s \in missed'
    <2>1. CASE control.symbols = {}
      BY <2>1 DEF SubscribeIndexed, EngineInv, TypeOK, Requested
    <2>2. CASE control.symbols # {}
      <3>1. control.symbols \in SUBSET Symbols
        BY DEF EngineInv, TypeOK
      <3>2. QED
        BY <2>2, <3>1, SendMoves DEF SubscribeIndexed, EngineInv
    <2>3. QED
      BY <2>1, <2>2
  <1>1. TypeOK'
    BY <1>b DEF SubscribeIndexed, At, EngineInv, TypeOK, engineVars, proxyVars
  <1>2. Singleton'
    BY <1>1, <1>a DEF EngineInv, SubscribeIndexed, engineVars, Singleton, RunningSteps
  <1>3. AllKnown'
    <2>1. UNCHANGED <<client, engine>> /\ OpenOrders' \subseteq OpenOrders
      BY DEF SubscribeIndexed, At, engineVars, proxyVars, history, OpenOrders
    <2>2. Indexed' => Indexed
      BY DEF SubscribeIndexed, proxyVars, history, Indexed, EngineInv, TypeOK
    <2>3. index' = index
      BY DEF SubscribeIndexed, SendOrSkip, Message, At, engineVars, proxyVars, history
    <2>4. QED
      BY <2>1, <2>2, <2>3, AllKnownStays DEF EngineInv
  <1>4. TickInIndex'
    BY <1>1, <1>a DEF EngineInv, SubscribeIndexed, engineVars, TickInIndex, Ticking
  <1>5. Counted'
    BY <1>1, <1>a DEF EngineInv, SubscribeIndexed, engineVars, Counted, Engines, Singleton
  <1>6. AllStreamed'
    <2>1. UNCHANGED <<engine, refs, client, subscriptions>>
      BY DEF SubscribeIndexed, engineVars, proxyVars
    <2>2. \A s \in Symbols : Streamed(s) => Streamed(s)'
      BY <1>b, <2>1 DEF Streamed
    <2>3. QED
      BY <1>a, <2>1, <2>2 DEF EngineInv, AllStreamed, IndexSteps
  <1>7. FewOrders' /\ OneInHand' /\ TickDecided' /\ Placed'
    BY SameStays DEF SubscribeIndexed, engineVars, proxyVars, history
  <1>8. QED
    BY <1>1, <1>2, <1>3, <1>4, <1>5, <1>6, <1>7 DEF EngineInv

\* The engine is registered once its index is there.
LEMMA RegisterKeeps ==
    ASSUME EngineInv, Register
    PROVE  EngineInv'
  <1>1. TypeOK'
    BY DEF EngineInv, Register, At, engineVars, proxyVars, history, TypeOK
  <1>2. Singleton'
    BY <1>1 DEF EngineInv, Register, At, engineVars, Singleton, RunningSteps
  <1>3. AllKnown'
    <2>1. UNCHANGED <<client, engine>> /\ OpenOrders' \subseteq OpenOrders
      BY DEF Register, At, engineVars, proxyVars, history, OpenOrders
    <2>2. Indexed' => Indexed
      BY DEF Register, At, engineVars, proxyVars, history, Indexed, EngineInv, TypeOK
    <2>3. index' = index
      BY DEF Register, At, engineVars, proxyVars, history
    <2>4. QED
      BY <2>1, <2>2, <2>3, AllKnownStays DEF EngineInv
  <1>4. TickInIndex'
    BY <1>1 DEF EngineInv, Register, engineVars, TickInIndex, Ticking, Singleton
  <1>5. Counted'
    BY <1>1 DEF EngineInv, Register, engineVars, Counted, Engines, Singleton
  <1>6. AllStreamed'
    <2>1. UNCHANGED <<engine, refs, client, subscriptions, missed, requests>>
      BY DEF Register, engineVars, proxyVars, history
    <2>2. control.step = "register" /\ control'.step = "started"
      BY DEF Register, At
    <2>3. \A s \in Symbols : Streamed(s) => Streamed(s)'
      BY <2>1, <2>2, StreamedStays DEF Requested
    <2>4. QED
      BY <2>1, <2>2, <2>3 DEF EngineInv, AllStreamed, IndexSteps
  <1>7. FewOrders' /\ OneInHand' /\ TickDecided' /\ Placed'
    BY SameStays DEF Register, engineVars, proxyVars, history
  <1>8. QED
    BY <1>1, <1>2, <1>3, <1>4, <1>5, <1>6, <1>7 DEF EngineInv

\* An engine that stops is not the one that promises anything.
LEMMA StopKeeps ==
    ASSUME EngineInv, Stop
    PROVE  EngineInv'
  <1>1. TypeOK'
    <2>1. control' \in [step: {"stopped", "rebuild", "subscribe", "register",
                             "started", "clear", "release"},
                      symbols: SUBSET Symbols]
      BY DEF Stop, At
    <2>2. streamCalls' \in 0 .. MaxStreamCalls
      BY MaxStreamCallsAssumption DEF Stop
    <2>3. running' \in [Engines -> BOOLEAN]
      BY DEF Stop, EngineInv, TypeOK
    <2>4. QED
      BY <2>1, <2>2, <2>3 DEF Stop, EngineInv, TypeOK, history, NoEngine
  <1>2. Singleton'
    BY <1>1 DEF EngineInv, Stop, At, TypeOK, Singleton, RunningSteps
  <1>3. AllKnown'
    BY <1>1 DEF Stop, At, AllKnown, Indexed, NoEngine, Engines, Singleton, OneInHand
  <1>4. TickInIndex'
    BY <1>1 DEF EngineInv, Stop, At, TickInIndex, NoEngine, Engines, Singleton
  <1>5. Counted'
    BY <1>1 DEF Stop, At, history, TypeOK, Counted, NoEngine, Engines, Singleton
  <1>6. AllStreamed'
    BY <1>1 DEF Stop, At, AllStreamed, IndexSteps, IsRequest, Singleton
  <1>7. FewOrders' /\ OneInHand' /\ TickDecided' /\ Placed'
    BY SameStays DEF Stop, engineVars, proxyVars, history
  <1>8. QED
    BY <1>1, <1>2, <1>3, <1>4, <1>5, <1>6, <1>7 DEF EngineInv

\* The index and the counts are emptied together.
LEMMA ClearRefsKeeps ==
    ASSUME EngineInv, ClearRefs
    PROVE  EngineInv'
  <1>1. TypeOK'
    BY DEF EngineInv, ClearRefs, At, Referenced, proxyVars, history, TypeOK
  <1>2. Singleton'
    BY <1>1 DEF EngineInv, ClearRefs, At, Singleton, RunningSteps
  <1>3. FewOrders'
    <2>1. \A e \in Engines : index'[e] = {} \/ index'[e] = index[e]
      BY DEF ClearRefs, EngineInv, TypeOK
    <2>2. QED
      BY <2>1, FS_EmptySet DEF ClearRefs, EngineInv, FewOrders, OpenOrders
  <1>4. Placed'
    BY <1>1 DEF EngineInv, ClearRefs, Placed, Engines, Singleton, TickInIndex
  <1>5. AllKnown'
    BY <1>1 DEF ClearRefs, At, AllKnown, Indexed, Engines, Singleton, OneInHand
  <1>6. TickInIndex'
    BY <1>1 DEF EngineInv, ClearRefs, At, TickInIndex, Engines, Singleton
  <1>7. Counted'
    BY <1>1 DEF ClearRefs, At, TypeOK, Counted, NoEngine, Engines, Singleton
  <1>8. AllStreamed'
    BY <1>1 DEF ClearRefs, TypeOK, AllStreamed, Requested, IsRequest, Singleton
  <1>9. OneInHand' /\ TickDecided'
    BY SameStays DEF ClearRefs, engineVars, proxyVars, history
  <1>10. QED
    BY <1>1, <1>2, <1>3, <1>4, <1>5, <1>6, <1>7, <1>8, <1>9 DEF EngineInv

\* The instance is given up.
LEMMA ReleaseSymbolsKeeps ==
    ASSUME EngineInv, ReleaseSymbols
    PROVE  EngineInv'
  <1>1. TypeOK'
    <2>1. requests' \in Seq(Requests) /\ missed' \subseteq Symbols
      <3>1. control.symbols \in SUBSET Symbols
        BY DEF EngineInv, TypeOK
      <3>2. QED
        BY <3>1, SendMoves DEF ReleaseSymbols, EngineInv, TypeOK
    <2>2. QED
      BY <2>1 DEF ReleaseSymbols, At, EngineInv, TypeOK, proxyVars, NoEngine
  <1>2. Singleton'
    BY <1>1 DEF EngineInv, ReleaseSymbols, At, TypeOK, Singleton, RunningSteps, NoEngine
  <1>3. AllKnown'
    BY <1>1 DEF ReleaseSymbols, At, AllKnown, Indexed, Singleton, OneInHand
  <1>4. TickInIndex'
    BY <1>1 DEF EngineInv, ReleaseSymbols, TickInIndex, Ticking, Singleton
  <1>5. Counted'
    BY <1>1 DEF ReleaseSymbols, TypeOK, Counted, NoEngine, Engines, Singleton
  <1>6. AllStreamed'
    BY <1>1 DEF ReleaseSymbols, At, AllStreamed, IndexSteps, IsRequest, Singleton
  <1>7. FewOrders' /\ OneInHand' /\ TickDecided' /\ Placed'
    BY SameStays DEF ReleaseSymbols, engineVars, proxyVars, history
  <1>8. QED
    BY <1>1, <1>2, <1>3, <1>4, <1>5, <1>6, <1>7 DEF EngineInv

\* A subscription in any mode takes no other one away.
LEMMA SubscribeStreamKeeps ==
    ASSUME EngineInv, NEW s \in Symbols, NEW m \in Modes, SubscribeStream(s, m)
    PROVE  EngineInv'
  <1>1. TypeOK'
    BY MaxStreamCallsAssumption
       DEF EngineInv, SubscribeStream, StreamCall, ProxySubscribe, Message, engineVars,
           TypeOK
  <1>2. AllStreamed'
    BY <1>1
       DEF EngineInv, SubscribeStream, StreamCall, ProxySubscribe, Message, TickIdle,
           engineVars, AllStreamed, Streamed, Requested
  <1>3. /\ Singleton' /\ FewOrders' /\ OneInHand' /\ TickDecided'
        /\ Placed' /\ AllKnown' /\ TickInIndex' /\ Counted'
    BY SameStays DEF SubscribeStream, StreamCall, engineVars, proxyVars, history
  <1>4. QED
    BY <1>1, <1>2, <1>3 DEF EngineInv

\* A release takes mode Quote away, whatever mode it names.
LEMMA UnsubscribeStreamKeeps ==
    ASSUME EngineInv, NEW s \in Symbols, NEW m \in Modes, UnsubscribeStream(s, m)
    PROVE  EngineInv'
  <1>1. TypeOK'
    BY MaxStreamCallsAssumption
       DEF EngineInv, UnsubscribeStream, StreamCall, ProxyUnsubscribe, engineVars, TypeOK
  <1>2. AllStreamed'
    <2>1. UNCHANGED <<engine, control, refs, client, requests>>
      BY DEF UnsubscribeStream, StreamCall, engineVars
    <2>2. \A r \in Symbols : r \in missed \/ <<r, "LTP">> \in subscriptions
             => r \in missed' \/ <<r, "LTP">> \in subscriptions'
      BY DEF UnsubscribeStream, ProxyUnsubscribe, Released, Message
    <2>3. \A r \in Symbols : Streamed(r) => Streamed(r)'
      BY <2>1, <2>2 DEF Streamed, Requested
    <2>4. QED
      BY <2>1, <2>3, AllStreamedStays DEF EngineInv
  <1>3. /\ Singleton' /\ FewOrders' /\ OneInHand' /\ TickDecided'
        /\ Placed' /\ AllKnown' /\ TickInIndex' /\ Counted'
    BY SameStays DEF UnsubscribeStream, StreamCall, engineVars, proxyVars, history
  <1>4. QED
    BY <1>1, <1>2, <1>3 DEF EngineInv

\* What is released in mode LTP counts as missed.
LEMMA UnsubscribeAllStreamsKeeps ==
    ASSUME EngineInv, UnsubscribeAllStreams
    PROVE  EngineInv'
  <1>1. TypeOK'
    BY MaxStreamCallsAssumption
       DEF EngineInv, UnsubscribeAllStreams, StreamCall, engineVars, TypeOK
  <1>2. AllStreamed'
    <2>1. UNCHANGED <<engine, control, refs, client, requests>>
      BY DEF UnsubscribeAllStreams, StreamCall, engineVars
    <2>2. \A r \in Symbols : r \in missed \/ <<r, "LTP">> \in subscriptions
             => r \in missed' \/ <<r, "LTP">> \in subscriptions'
      BY DEF UnsubscribeAllStreams
    <2>3. \A r \in Symbols : Streamed(r) => Streamed(r)'
      BY <2>1, <2>2 DEF Streamed, Requested
    <2>4. QED
      BY <2>1, <2>3, AllStreamedStays DEF EngineInv
  <1>3. /\ Singleton' /\ FewOrders' /\ OneInHand' /\ TickDecided'
        /\ Placed' /\ AllKnown' /\ TickInIndex' /\ Counted'
    BY SameStays DEF UnsubscribeAllStreams, StreamCall, engineVars, proxyVars, history
  <1>4. QED
    BY <1>1, <1>2, <1>3 DEF EngineInv

\* A message of the engine makes the subscription or misses it.
LEMMA HandleRequestKeeps ==
    ASSUME EngineInv, HandleRequest
    PROVE  EngineInv'
  <1>a. /\ requests \in Seq(Requests) /\ requests # <<>>
        /\ Head(requests) \in Requests /\ Tail(requests) \in Seq(Requests)
        /\ requests' = Tail(requests)
    BY DEF HandleRequest, EngineInv, TypeOK
  <1> DEFINE request == Head(requests)
  <1>b. request.symbols \subseteq Symbols /\ request.mode \in Modes
    BY <1>a DEF Requests
  <1>c. ProxySubscribe(request, streams) \/ ProxyUnsubscribe(request, streams)
    BY DEF HandleRequest
  <1>d. UNCHANGED <<status, client, tick, control, engine, created, running, index, refs,
                    registered, streamCalls, lost>>
    BY DEF HandleRequest, engineVars
  <1>1. TypeOK'
    <2>1. /\ subscriptions' \in SUBSET (Symbols \X Modes)
          /\ streams' \in SUBSET (Symbols \X Modes)
          /\ missed' \in SUBSET Symbols
      <3>1. CASE ProxySubscribe(request, streams)
        BY <1>b, <3>1 DEF ProxySubscribe, EngineInv, TypeOK
      <3>2. CASE ProxyUnsubscribe(request, streams)
        BY <1>b, <3>2 DEF ProxyUnsubscribe, Released, EngineInv, TypeOK
      <3>3. QED
        BY <1>c, <3>1, <3>2
    <2>2. QED
      BY <1>a, <1>d, <2>1 DEF EngineInv, TypeOK
  <1>2. AllStreamed'
    <2>1. \A s \in Symbols : Requested(s) => IsRequest(request, s) \/ Requested(s)'
      BY <1>a, HeadOrTail
    <2>2. \A s \in Symbols : \/ s \in missed
                            \/ <<s, "LTP">> \in subscriptions
                            \/ IsRequest(request, s)
             => s \in missed' \/ <<s, "LTP">> \in subscriptions'
      <3>1. CASE ProxySubscribe(request, streams)
        BY <1>b, <3>1 DEF ProxySubscribe, IsRequest
      <3>2. CASE ProxyUnsubscribe(request, streams)
        BY <3>2 DEF ProxyUnsubscribe, Released, IsRequest
      <3>3. QED
        BY <1>c, <3>1, <3>2
    <2>3. \A s \in Symbols : Streamed(s) => Streamed(s)'
      BY <1>d, <2>1, <2>2 DEF Streamed
    <2>4. QED
      BY <1>d, <2>3, AllStreamedStays DEF EngineInv
  <1>3. /\ Singleton' /\ FewOrders' /\ OneInHand' /\ TickDecided'
        /\ Placed' /\ AllKnown' /\ TickInIndex' /\ Counted'
    BY SameStays DEF HandleRequest, engineVars, proxyVars, history
  <1>4. QED
    BY <1>1, <1>2, <1>3 DEF EngineInv

-----------------------------------------------------------------------------
(* The invariant *)

LEMMA EngineInit == Init => EngineInv
  <1> SUFFICES ASSUME Init PROVE EngineInv
    OBVIOUS
  <1>1. TypeOK
    <2>1. created \in 0 .. MaxEngines /\ streamCalls \in 0 .. MaxStreamCalls
      BY MaxEnginesAssumption, MaxStreamCallsAssumption DEF Init
    <2>2. requests \in Seq(Requests)
      BY DEF Init
    <2>3. refs \in [Engines -> [Symbols -> Nat]] /\ index \in [Engines -> SUBSET OrderIds]
      BY DEF Init
    <2>4. QED
      BY <2>1, <2>2, <2>3 DEF Init, TypeOK, NoClient, NoTick, At, NoEngine
  <1>2. Singleton
    BY DEF Init, Singleton, NoClient, NoTick, At, NoEngine, RunningSteps, Engines
  <1>3. FewOrders
    <2>1. OpenOrders = {}
      BY DEF Init, OpenOrders
    <2>2. QED
      BY <2>1, FS_EmptySet DEF Init, FewOrders
  <1>4. OneInHand /\ Placed
    BY DEF Init, OneInHand, Placed, NoClient, NoTick
  <1>5. TickDecided /\ TickInIndex
    BY DEF Init, TickDecided, TickInIndex, Ticking, NoTick
  <1>6. AllKnown /\ Counted /\ AllStreamed
    BY DEF Init, AllKnown, Counted, AllStreamed, Indexed, IndexSteps, At
  <1>7. QED
    BY <1>1, <1>2, <1>3, <1>4, <1>5, <1>6 DEF EngineInv

LEMMA StutterKeeps ==
    ASSUME EngineInv, UNCHANGED vars
    PROVE  EngineInv'
  <1>1. TypeOK'
    BY DEF EngineInv, TypeOK, vars
  <1>2. QED
    BY <1>1, SameStays DEF EngineInv, vars, engineVars

LEMMA EngineStep == EngineInv /\ [Next]_vars => EngineInv'
  <1> SUFFICES ASSUME EngineInv, [Next]_vars
               PROVE  EngineInv'
    OBVIOUS
  <1>1. CASE \E c \in Clients, o \in OrderIds : PlaceOrder(c, o)
    BY <1>1, PlaceOrderKeeps
  <1>2. CASE \E c \in Clients : ClientStep(c)
    BY <1>2, FindEngineKeeps, GetEngineKeeps, NotifyOrderPlacedKeeps,
       SubscribeSymbolKeeps
       DEF ClientStep
  <1>3. CASE \E o \in OrderIds : CloseOrder(o)
    BY <1>3, CloseOrderKeeps
  <1>4. CASE \E s \in Symbols : OnMarketData(s)
    BY <1>4, OnMarketDataKeeps
  <1>5. CASE TickStep
    BY <1>5, ExecuteOrderKeeps, KeepOrderKeeps, DropOrderKeeps,
       NotifyOrderCompletedKeeps, UnsubscribeSymbolKeeps
       DEF TickStep
  <1>6. CASE Start \/ Stop \/ ControlStep
    BY <1>6, StartKeeps, StopKeeps, RebuildOrderIndexKeeps, SubscribeIndexedKeeps,
       RegisterKeeps, ClearRefsKeeps, ReleaseSymbolsKeeps
       DEF ControlStep
  <1>7. CASE \E s \in Symbols, m \in Modes :
                SubscribeStream(s, m) \/ UnsubscribeStream(s, m)
    BY <1>7, SubscribeStreamKeeps, UnsubscribeStreamKeeps
  <1>8. CASE UnsubscribeAllStreams \/ HandleRequest
    BY <1>8, UnsubscribeAllStreamsKeeps, HandleRequestKeeps
  <1>9. CASE UNCHANGED vars
    BY <1>9, StutterKeeps
  <1>10. QED
    BY <1>1, <1>2, <1>3, <1>4, <1>5, <1>6, <1>7, <1>8, <1>9 DEF Next

-----------------------------------------------------------------------------
(* The theorems *)

\* What request threads, ticks, the control thread and the proxy know of the orders
\* fits together.
THEOREM SpecEngineInv == Spec => []EngineInv
  BY EngineInit, EngineStep, PTL DEF Spec

\* Every variable has its type; no more instances are made than MaxEngines.
THEOREM TypeCorrect == Spec => []TypeOK
  <1>1. EngineInv => TypeOK
    BY DEF EngineInv
  <1>2. QED
    BY <1>1, SpecEngineInv, PTL

\* However placing an order interleaves with a start or a restart of the engine,
\* the one that runs knows every open order that no request thread is still
\* placing.
THEOREM OrdersAreKnown == Spec => []NoOrderForgotten
  <1>1. EngineInv => NoOrderForgotten
    BY DEF EngineInv, AllKnown, WillTell, NoOrderForgotten, InPlacement
  <1>2. QED
    BY <1>1, SpecEngineInv, PTL

\* The engine never counts fewer references to a symbol than it has orders on it.
THEOREM ReferencesSuffice == Spec => []RefsCoverIndex
  <1>1. EngineInv => RefsCoverIndex
    BY DEF EngineInv, Singleton, Counted, RefsCoverIndex, Running, RunningSteps
  <1>2. QED
    BY <1>1, SpecEngineInv, PTL

\* When all calls have come to their end, the proxy streams the price of every open
\* order, unless a subscription failed or Flow released all of them: the release of
\* a symbol does not reach a subscription in mode LTP.
THEOREM OpenOrdersStream == Spec => []OpenOrderIsStreamed
  <1>1. ASSUME EngineInv, Quiet, Indexed, NEW o \in OpenOrders
        PROVE  SymbolOf[o] \in missed \/ <<SymbolOf[o], "LTP">> \in subscriptions
    <2> DEFINE s == SymbolOf[o]
    <2>1. control.step = "started" /\ engine \in Engines /\ engine # NoEngine
      BY <1>1 DEF Quiet, Indexed, EngineInv, Singleton, TypeOK
    <2>2. o \in OrderIds /\ s \in Symbols
      BY SymbolAssumption DEF OpenOrders
    <2>3. \A c \in Clients : client[c].step = "idle"
      BY <1>1 DEF Quiet, NoClient
    <2>4. o \in index[engine] \cap OrdersOn(s)
      BY <1>1, <2>2, <2>3 DEF EngineInv, AllKnown, WillTell, OrdersOn
    <2>5. /\ IsFiniteSet(index[engine] \cap OrdersOn(s))
          /\ Cardinality(index[engine] \cap OrdersOn(s)) \in Nat
      BY <1>1, <2>1, <2>2, IndexPart DEF EngineInv, FewOrders
    <2>6. Cardinality(index[engine] \cap OrdersOn(s)) # 0
      BY <2>4, <2>5, FS_EmptySet
    <2>7. refs[engine][s] > 0
      <3>1. refs[engine][s] >= Cardinality(index[engine] \cap OrdersOn(s))
        BY <1>1, <2>1, <2>2 DEF EngineInv, Counted
      <3>2. refs[engine][s] \in Nat
        BY <1>1, <2>1, <2>2 DEF EngineInv, TypeOK
      <3>3. QED
        BY <2>5, <2>6, <3>1, <3>2
    <2>8. Streamed(s)
      BY <1>1, <2>1, <2>2, <2>7 DEF EngineInv, AllStreamed, IndexSteps
    <2>9. ~Requested(s)
      BY <1>1 DEF Quiet, Requested
    <2>10. QED
      BY <2>1, <2>3, <2>8, <2>9 DEF Streamed
  <1>2. EngineInv => OpenOrderIsStreamed
    BY <1>1 DEF OpenOrderIsStreamed
  <1>3. QED
    BY <1>2, SpecEngineInv, PTL
=============================================================================
