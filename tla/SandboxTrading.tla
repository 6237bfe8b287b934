--------------------------- MODULE SandboxTrading ---------------------------
(***************************************************************************)
(* The paper-trading engine of one user in one instrument and product:     *)
(* OrderManager (place, modify, cancel), ExecutionEngine (price conditions, *)
(* fills, netting), PositionManager.close_position and the funds row they  *)
(* share.  Each handler is one action, run to its end with every commit it *)
(* makes; OrderExecution splits the handlers at their commits and lets     *)
(* several threads interleave.                                             *)
(*                                                                         *)
(* A quote is what the data service returned to that one call, so every    *)
(* call may see other prices.  A handler that refuses a request and leaves *)
(* the database alone is a stuttering step and has no action.              *)
(***************************************************************************)
EXTENDS SandboxFunds, PositionNetting, FiniteSets

CONSTANTS
    OrderIds,        \* the ids that _generate_order_id hands out
    Quantities,      \* quantities that clients ask for
    Prices,          \* prices of quotes, limits and triggers
    PriceTypes,      \* subset of {"MARKET", "LIMIT", "SL", "SL-M"}
    Products,        \* the products to consider, of "MIS", "CNC", "NRML"
    MaxOpen,         \* bound of the model: orders in the book at one time
    InitialHoldings  \* settled shares the user owns at the start (CNC)

ASSUME QuantitiesAssumption == Quantities \subseteq Nat \ {0}
ASSUME PricesAssumption == Prices \subseteq Nat \ {0}
ASSUME PriceTypesAssumption ==
    PriceTypes \subseteq {"MARKET", "LIMIT", "SL", "SL-M"}
ASSUME ProductsAssumption == Products \subseteq {"MIS", "CNC", "NRML"}
ASSUME HoldingsAssumption == InitialHoldings \in Nat

VARIABLES
    product,    \* product of the instrument's orders, never changed
    funds,      \* the row of sandbox_funds
    position,   \* the row of sandbox_positions
    holdings,   \* quantity of the row of sandbox_holdings
    orders,     \* sandbox_orders, an id with status "absent" has no row yet
    trades,     \* number of rows of sandbox_trades for each order id
    blocked,    \* the clock is in the period in which MIS entries are refused
    traded      \* history: quantity and cash of the trades since the last reset

vars == <<product, funds, position, holdings, orders, trades, blocked,
          traded>>

Actions == {"BUY", "SELL"}
Statuses == {"absent", "open", "complete", "cancelled", "rejected"}
NoPrice == 0    \* a NULL price or trigger_price column

Order == [status: Statuses, action: Actions, quantity: Nat,
          type: {"MARKET", "LIMIT", "SL", "SL-M"}, price: Nat, trigger: Nat,
          margin: Nat]

AbsentOrder == [status |-> "absent", action |-> "BUY", quantity |-> 0,
                type |-> "MARKET", price |-> NoPrice, trigger |-> NoPrice,
                margin |-> 0]

\* Mutant: a status that no other code knows.
ClosedMisspelt(status) ==
    [AbsentOrder EXCEPT !.status =
        IF status = "cancelled" THEN "canceled" ELSE status]

\* A closed order is only displayed: its row keeps nothing but the status.
ClosedOrder(status) == [AbsentOrder EXCEPT !.status = status]

\* The last price, and the side of the book that the order at hand would take:
\* the ask for a purchase, the bid for a sale, the last price if it is missing.
Quote == [ltp: Prices, side: Prices]

NothingTraded == [quantity |-> 0, cash |-> 0]

\* Mutant: a completed order can still be modified and cancelled.
OpenOrComplete(o) == orders[o].status \in {"open", "complete"}

Open(o) == orders[o].status = "open"

\* _generate_order_id never repeats an id; which unused one it picks is
\* immaterial.
Unused(o) ==
    LET absent == {n \in OrderIds : orders[n].status = "absent"}
    IN  o \in absent /\ o = CHOOSE n \in absent : TRUE

Init ==
    /\ product \in Products
    /\ funds = InitialFunds
    /\ position = NoPosition
    /\ holdings = (IF product = "CNC" THEN InitialHoldings ELSE 0)
    /\ orders = [o \in OrderIds |-> AbsentOrder]
    /\ trades = [o \in OrderIds |-> 0]
    /\ blocked = FALSE
    /\ traded = NothingTraded

-----------------------------------------------------------------------------
(* Price conditions *)

\* The trigger of a stop order has been reached.
Triggered(order, ltp) ==
    \/ order.action = "BUY" /\ ltp >= order.trigger
    \/ order.action = "SELL" /\ ltp <= order.trigger

\* The market is at the order's limit or better.
WithinLimit(order, ltp) ==
    \/ order.action = "BUY" /\ ltp <= order.price
    \/ order.action = "SELL" /\ ltp >= order.price

\* _process_order: the execution prices of an order that waits in the book,
\* none when its condition does not hold at this quote.
BookFillPrices(order, q) ==
    {p \in {q.ltp, q.side, order.price} :
        CASE order.type = "MARKET" ->
                p = q.side
          [] order.type = "LIMIT" ->
                p = order.price /\ WithinLimit(order, q.ltp)
          [] order.type = "SL" ->
                p = q.ltp /\ Triggered(order, q.ltp) /\ WithinLimit(order, q.ltp)
          [] OTHER ->
                p = q.ltp /\ Triggered(order, q.ltp)}

\* place_order: a MARKET order goes through _process_order, any other order
\* whose condition already holds fills at the last price.
ImmediateFillPrices(order, q) ==
    CASE order.type = "MARKET" -> BookFillPrices(order, q)
      [] order.type = "LIMIT" -> {p \in {q.ltp} : WithinLimit(order, p)}
      [] order.type = "SL" ->
            {p \in {q.ltp} : Triggered(order, p) /\ WithinLimit(order, p)}
      [] OTHER -> {p \in {q.ltp} : Triggered(order, p)}

\* The sets of immediate prices, for every side of the book with this last price.
ImmediateFills(order, ltp) ==
    {ImmediateFillPrices(order, [ltp |-> ltp, side |-> s]) : s \in Prices}

-----------------------------------------------------------------------------
(* Margin of a new order *)

Opposite(action) ==
    \/ position.quantity > 0 /\ action = "SELL"
    \/ position.quantity < 0 /\ action = "BUY"

\* actual_margin_to_block: an order against the position pays for its excess.
MarginToBlock(action, quantity, price) ==
    LET held == Abs(position.quantity)
    IN  IF ~Opposite(action) THEN MarginRequired(quantity, price)
        ELSE IF quantity <= held THEN 0
        ELSE MarginRequired(quantity - held, price)

\* should_block_margin for an equity: a delivery sale needs none.
ShouldBlock(action) == action = "BUY" \/ product \in {"MIS", "NRML"}

\* The amount that place_order takes from the funds.
BlockedBy(order) == IF ShouldBlock(order.action) THEN order.margin ELSE 0

\* total_available of a CNC sale.
SellableCnc == (IF position.quantity > 0 THEN position.quantity ELSE 0)
                 + (IF holdings > 0 THEN holdings ELSE 0)

RejectedCncSale(action, quantity) ==
    product = "CNC" /\ action = "SELL" /\ quantity > SellableCnc

\* Outside trading hours an MIS order may only work against the position.
AcceptedNow(action) == product = "MIS" /\ blocked => Opposite(action)

-----------------------------------------------------------------------------
(* Filling an order *)

\* Mutant: no reconciliation after the position was written.
ReleaseOnly(f, net) ==
    IF net.called THEN ReleaseMargin(f, net.release, net.pnl) ELSE f

\* _update_position releases margin only when there is some, commits, and then
\* reconciles the funds with what the open position holds.
FundsAfterFill(f, net) ==
    ReconcileMargin(IF net.called
                       THEN ReleaseMargin(f, net.release, net.pnl) ELSE f,
                    CountedMargin(net.position))

\* _execute_order on the order record placed or read, with f the funds then.
Execute(o, order, price, f) ==
    LET net == Net(position, order, price)
    IN  /\ trades' = [trades EXCEPT ![o] = @ + 1]
        /\ traded' = [quantity |-> traded.quantity + Signed(order),
                      cash |-> traded.cash - Signed(order) * price]
        /\ orders' = [orders EXCEPT ![o] = ClosedOrder("complete")]
        /\ position' = net.position
        /\ funds' = FundsAfterFill(f, net)

-----------------------------------------------------------------------------
(* OrderManager *)

\* What _validate_order demands of a request: a limit price and a trigger price
\* for the types that have them.
Terms ==
    {t \in [type: PriceTypes, price: Prices \cup {NoPrice},
            trigger: Prices \cup {NoPrice}] :
        /\ t.price # NoPrice <=> t.type \in {"LIMIT", "SL"}
        /\ t.trigger # NoPrice <=> t.type \in {"SL", "SL-M"}}

\* The record that place_order stores.  Margin is computed from the limit of a
\* LIMIT order, the trigger of a stop and, for a MARKET order, from the last
\* price, which also becomes its price.
NewOrder(action, quantity, t, ltp) ==
    LET basis == CASE t.type = "MARKET" -> ltp
                   [] t.type = "LIMIT" -> t.price
                   [] OTHER -> t.trigger
    IN  [status |-> "open", action |-> action, quantity |-> quantity,
         type |-> t.type, trigger |-> t.trigger,
         price |-> IF t.type = "MARKET" THEN ltp ELSE t.price,
         margin |-> MarginToBlock(action, quantity, basis)]

AtMarket == [type |-> "MARKET", price |-> NoPrice, trigger |-> NoPrice]

\* A new id, and the bound on the book.
CanSubmit(o) ==
    /\ Unused(o)
    /\ Cardinality({n \in OrderIds : Open(n)}) < MaxOpen

\* Everything else that place_order checks before it writes.
Acceptable(order) ==
    /\ AcceptedNow(order.action)
    /\ ~RejectedCncSale(order.action, order.quantity)
    /\ BlockedBy(order) > 0 => CanBlock(funds, BlockedBy(order))

\* place_order with a quote at hand: the order fills at one of the prices, or
\* is left in the book when there is none.
Place(o, order, prices) ==
    LET paid == BlockMargin(funds, BlockedBy(order))
    IN  /\ Acceptable(order)
        /\ \/ \E p \in prices : Execute(o, order, p, paid)
           \/ /\ prices = {}
              /\ orders' = [orders EXCEPT ![o] = order]
              /\ funds' = paid
              /\ UNCHANGED <<position, trades, traded>>
        /\ UNCHANGED <<product, holdings, blocked>>

\* place_order when the quote service fails: a MARKET order is priced at the
\* last price of the position row, and every order is left in the book.
PlaceUnquoted(o, order) ==
    /\ order.type = "MARKET" => position.row
    /\ Acceptable(order)
    /\ orders' = [orders EXCEPT ![o] = order]
    /\ funds' = BlockMargin(funds, BlockedBy(order))
    /\ UNCHANGED <<product, position, holdings, trades, blocked, traded>>

PlaceOrder(o) ==
    /\ CanSubmit(o)
    /\ \E action \in Actions, quantity \in Quantities, t \in Terms, ltp \in Prices :
          LET order == NewOrder(action, quantity, t, ltp)
          IN  \E prices \in ImmediateFills(order, ltp) : Place(o, order, prices)

PlaceOrderWithoutQuote(o) ==
    /\ CanSubmit(o)
    /\ \E action \in Actions, quantity \in Quantities, t \in Terms, last \in Prices :
          PlaceUnquoted(o, NewOrder(action, quantity, t, last))

\* A CNC sale of shares the user does not own is recorded as rejected.
RejectCncSale(o) ==
    \E quantity \in Quantities :
        /\ Unused(o)
        /\ RejectedCncSale("SELL", quantity)
        /\ orders' = [orders EXCEPT ![o] = ClosedOrder("rejected")]
        /\ UNCHANGED <<product, funds, position, holdings, trades, blocked,
                       traded>>

\* The values that a request may leave in a price column of the order: those a
\* client sends when the type has the column, and the present one.
Amended(order, types, column) ==
    (IF order.type \in types THEN Prices ELSE {}) \cup {order[column]}

\* modify_order changes what the request names and the type allows; the margin
\* of the row and the funds stay as they were.
ModifyOrder(o) ==
    /\ Open(o)
    /\ \E quantity \in Quantities \cup {orders[o].quantity},
          price \in Amended(orders[o], {"LIMIT", "SL"}, "price"),
          trigger \in Amended(orders[o], {"SL", "SL-M"}, "trigger") :
        orders' = [orders EXCEPT ![o].quantity = quantity,
                                 ![o].price = price,
                                 ![o].trigger = trigger]
    /\ UNCHANGED <<product, funds, position, holdings, trades, blocked, traded>>

\* What cancel_order may give back.  A row without margin is taken for one of an
\* old release: its margin is computed from its price, or from the last price
\* (NoPrice when that cannot be fetched).
CancelReleases(order) ==
    IF order.margin > 0 THEN {order.margin}
    ELSE IF ~ShouldBlock(order.action) THEN {0}
    ELSE {MarginRequired(order.quantity, p) :
            p \in IF order.price # NoPrice THEN {order.price}
                                           ELSE Prices \cup {NoPrice}}

CancelOrder(o) ==
    /\ Open(o)
    /\ orders' = [orders EXCEPT ![o] = ClosedOrder("cancelled")]
    /\ \E amount \in CancelReleases(orders[o]) :
          funds' = ReleaseMargin(funds, amount, 0)
    /\ UNCHANGED <<product, position, holdings, trades, blocked, traded>>

-----------------------------------------------------------------------------
(* ExecutionEngine, PositionManager, FundManager and the clock *)

\* One order of a polling pass or of a tick.  The test for an existing trade
\* guards against other threads; here no open order has one.
ProcessOrder(o) ==
    /\ Open(o)
    /\ trades[o] = 0
    /\ \E p \in UNION {BookFillPrices(orders[o], q) : q \in Quote} :
          Execute(o, orders[o], p, funds)
    /\ UNCHANGED <<product, holdings, blocked>>

\* close_position: a MARKET order against the whole position.
CloseWholePosition(o) ==
    LET action == IF position.quantity > 0 THEN "SELL" ELSE "BUY"
        closing(last) == NewOrder(action, Abs(position.quantity), AtMarket, last)
    IN  /\ CanSubmit(o)
        /\ position.quantity # 0
        /\ \E last \in Prices :
              \/ \E prices \in ImmediateFills(closing(last), last) :
                    Place(o, closing(last), prices)
              \/ PlaceUnquoted(o, closing(last))

\* _reset_funds: fresh funds, positions and holdings deleted, orders kept.
ResetFunds ==
    /\ funds' = InitialFunds
    /\ position' = NoPosition
    /\ holdings' = 0
    /\ traded' = NothingTraded
    /\ UNCHANGED <<product, orders, trades, blocked>>

\* The clock passes the square-off time or the opening of the market.
SessionClock ==
    /\ product = "MIS"
    /\ blocked' = ~blocked
    /\ UNCHANGED <<product, funds, position, holdings, orders, trades, traded>>

Next ==
    \/ \E o \in OrderIds :
          \/ PlaceOrder(o)
          \/ PlaceOrderWithoutQuote(o)
          \/ RejectCncSale(o)
          \/ ModifyOrder(o)
          \/ CancelOrder(o)
          \/ ProcessOrder(o)
          \/ CloseWholePosition(o)
    \/ ResetFunds
    \/ SessionClock

Spec == Init /\ [][Next]_vars

-----------------------------------------------------------------------------
(* Properties *)

TypeOK ==
    /\ product \in Products
    /\ funds \in Funds
    /\ position \in Position
    /\ holdings \in Nat
    /\ orders \in [OrderIds -> Order]
    /\ trades \in [OrderIds -> Nat]
    /\ blocked \in BOOLEAN
    /\ traded \in [quantity: Int, cash: Int]

\* No handler creates or destroys money: whatever is blocked, released,
\* over-released on a cancellation or reconciled after a fill, the cash of the
\* user is the starting capital plus the profit and loss that was booked.  So says
\* the code, when it books and when the capital is configured anew; the equation in
\* its design document, docs/design/07-sandbox/README.md:263, has the profit and
\* loss on the other side.
MoneyConserved == Cash(funds) = StartingCapital + funds.realized

\* The position is the net of the trades since the row was created, whichever
\* of the five netting branches each of them went through.
QuantityMatchesTrades == position.quantity = traded.quantity

\* The P&L identity: what the position says it realised is the cash that its
\* trades brought in, plus its quantity at the average price.
RealizedMatchesCashFlow ==
    position.accumulated = traded.cash + position.quantity * position.average

\* What a position claims to have realised beyond the cash of its trades and its
\* quantity at the average price.
Residue(pos, cash) == pos.accumulated - (cash + pos.quantity * pos.average)

Drift == Residue(position, traded.cash)

\* A fill in the direction of the position.
Grows ==
    \/ position.quantity > 0 /\ position'.quantity > position.quantity
    \/ position.quantity < 0 /\ position'.quantity < position.quantity

\* Rounding enters the books in one place only: the average of a position that
\* grows, where it costs less than the smallest unit per share.  Opening,
\* reducing, closing and reversing book to the last unit what the trades paid,
\* and a reset forgets what had gathered.
RoundingIsBounded ==
    [][\/ Drift' = Drift
       \/ position' = NoPosition /\ Drift' = 0
       \/ Grows /\ Abs(Drift' - Drift) < Abs(position'.quantity)]_vars

\* A profit or loss that the position realises reaches the funds to the last unit
\* in the same step, whatever the netting branch, unless the position holds no
\* margin: only release_margin books, and without margin it is not called.
PnlReachesFunds ==
    [][LET gain == position'.accumulated - position.accumulated
           booked == funds'.realized - funds.realized
       IN  \/ booked = gain
           \/ booked = 0 /\ position.quantity # 0 /\ position.margin = 0
           \/ position' = NoPosition /\ funds' = InitialFunds]_vars

\* A fill leaves no margin behind: once it is done, the funds block exactly
\* what the open position holds (the check of validate_margin_consistency).
FillReconciles ==
    [][trades' # trades => funds'.used = CountedMargin(position')]_vars

\* Placing an order never takes the available balance below zero; only losses
\* and the reconciliation after a fill can.
PlacingNeverOverdraws ==
    [][trades' = trades /\ funds'.available < funds.available
            => funds'.available >= 0]_vars

\* The order book that clients see.
Lifecycle == INSTANCE OrderLifecycle
    WITH status <- [o \in OrderIds |-> orders[o].status], fills <- trades

\* Every order of the engine goes through the life that OrderLifecycle allows:
\* executed at most once and then entirely, never touched after a terminal
\* status, whether it fills at once, from the book or after modifications.
ImplementsLifecycle == Lifecycle!Spec

-----------------------------------------------------------------------------
(* Statements of the repository about the engine that its code does not keep *)

\* cancel_order: "Release blocked margin using the exact amount that was
\* blocked", the amount that place_order took for this order.
CancelReturnsWhatWasBlocked ==
    [][\A o \in OrderIds :
          Open(o) /\ orders'[o].status = "cancelled"
            => funds'.available = funds.available + BlockedBy(orders[o])]_vars

\* _update_position: the position that a reversal opens "gets fresh margin",
\* the margin of its quantity.  (Stated for a single price.)
ReversalIsMargined ==
    [][position.quantity * position'.quantity < 0
            => position'.margin = MarginRequired(Abs(position'.quantity),
                                                 position'.average)]_vars

\* place_order: "CNC (delivery) requires existing positions/holdings": the user
\* never sells more delivery shares than he owns.
NeverOversold == product = "CNC" => position.quantity + holdings >= 0
=============================================================================
