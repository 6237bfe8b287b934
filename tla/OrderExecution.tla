--------------------------- MODULE OrderExecution ---------------------------
(***************************************************************************)
(* The life of the orders of one instrument when several threads work on   *)
(* them, commit by commit: clients that place and cancel, the polling      *)
(* engine, which loads all open orders and then works through them, and    *)
(* the WebSocket engine, which loads one order for each tick.  The last    *)
(* two run together when the WebSocket engine falls back to polling or     *)
(* replaces the polling engine.                                            *)
(*                                                                         *)
(* Nothing locks an order or a position row.  Between a query and the      *)
(* commit that depends on it any other thread may commit, a statement may  *)
(* fail ("database is locked") and the process may die.  Every order that  *)
(* a thread has in hand is in its batch or is the order it is at.          *)
(***************************************************************************)
EXTENDS Integers, FiniteSets, Functions

CONSTANTS
    OrderIds,
    Clients,      \* request threads
    Pollers,      \* threads in check_and_execute_pending_orders
    Tickers,      \* threads in _on_market_data
    Quantity,     \* signed quantity of each order
    MaxCrashes    \* bound of the model: restarts, failures of two commits in a row

Threads == Clients \cup Pollers \cup Tickers

ASSUME QuantityAssumption == Quantity \in [OrderIds -> Int \ {0}]
ASSUME MaxCrashesAssumption == MaxCrashes \in Nat
ASSUME FinitenessAssumption == IsFiniteSet(Threads) /\ IsFiniteSet(OrderIds)

VARIABLES
    status,     \* order_status of each order
    trades,     \* number of rows of sandbox_trades for each order
    position,   \* the row of sandbox_positions: does it exist, its quantity
    reached,    \* the market satisfies the price condition of the order
    batch,      \* orders that a thread has loaded and still has to look at
    at,         \* the step a thread is at, and the order
    seen,       \* the position that a thread has read
    loaded,     \* those of the batch whose row, then open, is in its session
    crashes,    \* restarts and double failures so far
    overlapped, \* history: orders that two threads had in hand at once
    failed,     \* history: orders whose execution failed or was cut short
    raced       \* history: a position was written over another thread's

database == <<status, trades, position>>
history == <<overlapped, failed, raced>>
vars == <<status, trades, position, reached, batch, at, seen, loaded, crashes,
          overlapped, failed, raced>>

Statuses == {"absent", "open", "complete", "cancelled", "rejected"}
Idle == [step |-> "idle", orders |-> {}]
At(step, o) == [step |-> step, orders |-> {o}]
NoPosition == [row |-> FALSE, quantity |-> 0]

Init ==
    /\ status = [o \in OrderIds |-> "absent"]
    /\ trades = [o \in OrderIds |-> 0]
    /\ position = NoPosition
    /\ reached = [o \in OrderIds |-> FALSE]
    /\ batch = [t \in Threads |-> {}]
    /\ at = [t \in Threads |-> Idle]
    /\ seen = [t \in Threads |-> NoPosition]
    /\ loaded = [t \in Threads |-> {}]
    /\ crashes = 0
    /\ overlapped = {}
    /\ failed = {}
    /\ raced = FALSE

InHand(t) == batch[t] \cup at[t].orders
Free(t) == InHand(t) = {}

\* Thread t takes up the orders; those that another thread has are noted.
TakeUp(t, taken) ==
    overlapped' = overlapped
        \cup {o \in taken : \E u \in Threads \ {t} : o \in InHand(u)}

Goto(t, to) == at' = [at EXCEPT ![t] = to]

-----------------------------------------------------------------------------
(* Clients *)

\* place_order commits the open order.  A MARKET order then goes through
\* _process_order and another one whose condition holds straight to
\* _execute_order; without a quote, or with its condition unmet, it rests.
PlaceOrder(c, o) ==
    /\ Free(c)
    /\ status[o] = "absent"
    /\ status' = [status EXCEPT ![o] = "open"]
    /\ \/ /\ \E met \in BOOLEAN : reached' = [reached EXCEPT ![o] = met]
          /\ UNCHANGED <<batch, at, overlapped>>
       \/ /\ reached' = [reached EXCEPT ![o] = TRUE]
          /\ TakeUp(c, {o})
          /\ \/ batch' = [batch EXCEPT ![c] = {o}] /\ UNCHANGED at
             \/ Goto(c, At("execute", o)) /\ UNCHANGED batch
    /\ UNCHANGED <<trades, position, loaded, seen, crashes, failed, raced>>

\* cancel_order reads an open order ...
CancelOrder(c, o) ==
    /\ Free(c)
    /\ status[o] = "open"
    /\ Goto(c, At("cancel", o))
    /\ TakeUp(c, {o})
    /\ UNCHANGED <<database, reached, batch, seen, loaded, crashes, failed, raced>>

\* ... and commits the new status together with the release of the margin.
CommitCancel(c) ==
    /\ at[c].step = "cancel"
    /\ status' = [o \in OrderIds |->
                    IF o \in at[c].orders THEN "cancelled" ELSE status[o]]
    /\ Goto(c, Idle)
    /\ UNCHANGED <<trades, position, reached, batch, seen, loaded, crashes,
                   history>>

-----------------------------------------------------------------------------
(* Engines *)

\* Mutant: the query lacks its filter on order_status.
PendingOrRefused == {o \in OrderIds : status[o] \in {"open", "cancelled"}}

\* Mutant: only the first batch of the rate limit is worked on.
PendingFirst ==
    LET open == {o \in OrderIds : status[o] = "open"}
    IN  IF open = {} THEN {} ELSE {CHOOSE o \in open : TRUE}

Pending == {o \in OrderIds : status[o] = "open"}

LoadBatch(t, found) ==
    /\ Free(t)
    /\ batch' = [batch EXCEPT ![t] = found]
    /\ loaded' = [loaded EXCEPT ![t] = found]
    /\ TakeUp(t, found)
    /\ UNCHANGED <<database, reached, at, seen, crashes, failed, raced>>

\* check_and_execute_pending_orders: one query for the whole pass.
Poll(e) == Pending # {} /\ LoadBatch(e, Pending)

\* _check_and_execute_order: one query for each order.
Tick(w) == \E o \in Pending : LoadBatch(w, {o})

\* The order leaves the batch, and the session no longer matters for it.
Leave(t, o) ==
    /\ at[t] = Idle
    /\ o \in batch[t]
    /\ batch' = [batch EXCEPT ![t] = @ \ {o}]

Forget(t, orders) == loaded' = [loaded EXCEPT ![t] = @ \ orders]

\* A commit or a rollback expires every row of the session: the next access
\* reads the table again.
Expire(t) == Forget(t, OrderIds)

\* The status that the session of t has of an order of its batch.
SessionStatus(t, o) == IF o \in loaded[t] THEN "open" ELSE status[o]

\* _process_order finds a trade: it repairs the status and leaves the order.
SkipTraded(t, o) ==
    /\ Leave(t, o)
    /\ trades[o] > 0
    /\ \/ /\ SessionStatus(t, o) = "open"
          /\ status' = [status EXCEPT ![o] = "complete"]
          /\ Expire(t)
       \/ /\ SessionStatus(t, o) # "open"
          /\ Forget(t, {o})
          /\ UNCHANGED status
    /\ UNCHANGED <<trades, position, reached, at, seen, crashes, history>>

\* There is no quote for the order, or its condition does not hold at the quote.
SkipOrder(t, o) ==
    /\ Leave(t, o)
    /\ trades[o] = 0
    /\ Forget(t, {o})
    /\ UNCHANGED <<database, reached, at, seen, crashes, history>>

\* No trade was found and the condition holds; the status is not looked at.
ProcessOrder(t, o) ==
    /\ Leave(t, o)
    /\ trades[o] = 0
    /\ reached[o]
    /\ Forget(t, {o})
    /\ Goto(t, At("execute", o))
    /\ UNCHANGED <<database, reached, seen, crashes, history>>

-----------------------------------------------------------------------------
(* _execute_order and _update_position *)

\* The trade and the status are one commit.
ExecuteOrder(t, o) ==
    /\ at[t] = At("execute", o)
    /\ trades' = [trades EXCEPT ![o] = @ + 1]
    /\ status' = [status EXCEPT ![o] = "complete"]
    /\ Expire(t)
    /\ Goto(t, At("read", o))
    /\ UNCHANGED <<position, reached, batch, seen, crashes, history>>

ReadPosition(t, o) ==
    /\ at[t] = At("read", o)
    /\ seen' = [seen EXCEPT ![t] = position]
    /\ Goto(t, At("write", o))
    /\ UNCHANGED <<database, reached, batch, loaded, crashes, history>>

\* Mutant: the fill replaces the position.
WriteFillOnly(t, o) ==
    /\ at[t] = At("write", o)
    /\ seen[t].row = position.row
    /\ position' = [row |-> TRUE, quantity |-> Quantity[o]]
    /\ raced' = (raced \/ seen[t] # position)
    /\ seen' = [seen EXCEPT ![t] = NoPosition]
    /\ Goto(t, Idle)
    /\ UNCHANGED <<status, trades, reached, batch, loaded, crashes,
                   overlapped, failed>>

\* The new quantity is computed from the row that was read.
WritePosition(t, o) ==
    /\ at[t] = At("write", o)
    /\ seen[t].row = position.row
    /\ position' = [row |-> TRUE, quantity |-> seen[t].quantity + Quantity[o]]
    /\ raced' = (raced \/ seen[t] # position)
    /\ seen' = [seen EXCEPT ![t] = NoPosition]
    /\ Goto(t, Idle)
    /\ UNCHANGED <<status, trades, reached, batch, loaded, crashes,
                   overlapped, failed>>

\* A statement fails, among others the insertion of a row that another thread
\* has inserted (unique_position): what is not committed is rolled back and
\* the order is marked rejected, whether or not its trade was committed, unless
\* this fails as well.
FailExecution(t, o) ==
    /\ at[t] \in {At("execute", o), At("read", o), At("write", o)}
    /\ \/ /\ status' = [status EXCEPT ![o] = "rejected"]
          /\ UNCHANGED crashes
       \/ /\ crashes < MaxCrashes
          /\ crashes' = crashes + 1
          /\ UNCHANGED status
    /\ Expire(t)
    /\ seen' = [seen EXCEPT ![t] = NoPosition]
    /\ failed' = failed \cup {o}
    /\ Goto(t, Idle)
    /\ UNCHANGED <<trades, position, reached, batch, overlapped, raced>>

-----------------------------------------------------------------------------
(* The market and the process *)

\* The market moves to the price of a resting order and stays there.
PriceReaches(o) ==
    /\ status[o] = "open"
    /\ ~reached[o]
    /\ reached' = [reached EXCEPT ![o] = TRUE]
    /\ UNCHANGED <<database, batch, at, seen, loaded, crashes, history>>

\* The process dies and is started again: only the database survives.
Crash ==
    /\ crashes < MaxCrashes
    /\ crashes' = crashes + 1
    /\ failed' = failed
         \cup UNION {at[t].orders :
                        t \in {u \in Threads : at[u].step \in {"read", "write"}}}
    /\ batch' = [t \in Threads |-> {}]
    /\ at' = [t \in Threads |-> Idle]
    /\ seen' = [t \in Threads |-> NoPosition]
    /\ loaded' = [t \in Threads |-> {}]
    /\ UNCHANGED <<database, reached, overlapped, raced>>

\* What a thread does with an order that it has in hand.
Work(t, o) ==
    \/ SkipTraded(t, o) \/ SkipOrder(t, o) \/ ProcessOrder(t, o)
    \/ ExecuteOrder(t, o) \/ ReadPosition(t, o) \/ WritePosition(t, o)
    \/ FailExecution(t, o)

Next ==
    \/ \E c \in Clients :
          \/ \E o \in OrderIds : PlaceOrder(c, o) \/ CancelOrder(c, o)
          \/ CommitCancel(c)
    \/ \E e \in Pollers : Poll(e)
    \/ \E w \in Tickers : Tick(w)
    \/ \E t \in Threads, o \in OrderIds : Work(t, o)
    \/ \E o \in OrderIds : PriceReaches(o)
    \/ Crash

Spec == Init /\ [][Next]_vars

\* Every thread that can run does, the polling loop never ends, and the quote
\* service answers for an order again and again.
Fairness ==
    /\ \A t \in Threads : WF_vars(\E o \in OrderIds : Work(t, o))
    /\ \A c \in Clients : WF_vars(CommitCancel(c))
    /\ \A e \in Pollers :
          WF_vars(Poll(e)) /\ \A o \in OrderIds : SF_vars(ProcessOrder(e, o))

FairSpec == Spec /\ Fairness

-----------------------------------------------------------------------------
(* Properties *)

TypeOK ==
    /\ status \in [OrderIds -> Statuses]
    /\ trades \in [OrderIds -> Nat]
    /\ position \in [row: BOOLEAN, quantity: Int]
    /\ reached \in [OrderIds -> BOOLEAN]
    /\ batch \in [Threads -> SUBSET OrderIds]
    /\ at \in [Threads -> {Idle} \cup
                 {At(step, o) : step \in {"cancel", "execute", "read", "write"},
                                o \in OrderIds}]
    /\ seen \in [Threads -> [row: BOOLEAN, quantity: Int]]
    /\ loaded \in [Threads -> SUBSET OrderIds]
    /\ crashes \in 0 .. MaxCrashes
    /\ overlapped \subseteq OrderIds
    /\ failed \subseteq OrderIds
    /\ raced \in BOOLEAN

\* The signed quantity of all trades.
Traded == SumFunction([o \in OrderIds |-> trades[o] * Quantity[o]])

\* The part of it that threads have still to write to the position.
InFlight ==
    SumFunction([o \in OrderIds |->
           Quantity[o] * Cardinality({t \in Threads :
                             at[t] \in {At("read", o), At("write", o)}})])

\* The position row is behind the trades by exactly the fills in progress,
\* however threads interleave, until an execution fails half-way or a thread
\* writes over the position of another.
PositionCountsTrades ==
    ~raced /\ failed = {} => position.quantity = Traded - InFlight

Lifecycle(o) == INSTANCE OrderLifecycle
    WITH OrderIds <- {o},
         status <- [p \in {o} |-> status[p]],
         fills <- [p \in {o} |-> trades[p]]

\* An order that at most one thread has in hand at a time goes through the life
\* of OrderLifecycle whatever happens to the other orders, crashes included:
\* it is executed at most once, and never after it was cancelled.
SerialOrderKeepsLifecycle ==
    [][\A o \in OrderIds :
          o \notin overlapped' \cup failed' => Lifecycle(o)!Step]_vars

\* An order whose price is reached, and stays so, does not wait for ever.
ReachedOrderLeavesBook ==
    \A o \in OrderIds :
        status[o] = "open" /\ reached[o] ~> status[o] # "open"

-----------------------------------------------------------------------------
(* Statements of the repository that the code does not keep *)

\* _process_order: "Check if this order already has a trade (prevent
\* duplicates)".
AtMostOneTrade == \A o \in OrderIds : trades[o] <= 1
=============================================================================
