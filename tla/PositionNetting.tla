-------------------------- MODULE PositionNetting --------------------------
(***************************************************************************)
(* ExecutionEngine._update_position: how one fill changes the position of  *)
(* its instrument, what margin it releases and what P&L it realises.       *)
(*                                                                         *)
(* A fill is an order (action, quantity, the margin stored in its row) and *)
(* an execution price.  The result pairs the new position row with the     *)
(* arguments of the call to FundManager.release_margin, and says whether   *)
(* the call is made: only when there is margin to release, however little  *)
(* of it is left by rounding.  A missing row is a position with            *)
(* row = FALSE and zero amounts: creating it and reopening a closed row    *)
(* write the same values.                                                  *)
(*                                                                         *)
(* The contract value, by which the code multiplies a P&L and which is 1   *)
(* for all but crypto contracts, is 1 here: one instrument has one, so     *)
(* that it would scale every P&L alike.                                    *)
(***************************************************************************)
EXTENDS Integers

Abs(n) == IF n < 0 THEN -n ELSE n

Position == [row: BOOLEAN, quantity: Int, average: Int, margin: Nat,
             accumulated: Int]

NoPosition == [row |-> FALSE, quantity |-> 0, average |-> 0, margin |-> 0,
               accumulated |-> 0]

\* The signed quantity of an order, new_quantity in the code.
Signed(order) ==
    IF order.action = "BUY" THEN order.quantity ELSE -order.quantity

\* Long positions gain when they close above the average, short ones below.
RealizedPnl(oldQuantity, average, closed, price) ==
    IF oldQuantity > 0 THEN (price - average) * closed
                       ELSE (average - price) * closed

\* A fill releases no margin and realises nothing.
NothingReleased(pos) ==
    [position |-> pos, release |-> 0, pnl |-> 0, called |-> FALSE]

\* No row, or a row closed earlier: the order's margin becomes the position's.
OpenPosition(pos, order, price) ==
    NothingReleased([pos EXCEPT !.row = TRUE,
                                !.quantity = Signed(order),
                                !.average = price,
                                !.margin = order.margin])

\* Mutant: the funds get what the position has realised in all.
CloseBookingTotal(pos, order, price) ==
    LET pnl == RealizedPnl(pos.quantity, pos.average, order.quantity, price)
        total == pos.accumulated + pnl
    IN  [position |-> [pos EXCEPT !.quantity = 0, !.margin = 0,
                                  !.accumulated = total],
         release  |-> pos.margin,
         pnl      |-> total,
         called   |-> pos.margin > 0]

\* The fill takes the quantity to zero: all of the position's margin goes back.
ClosePosition(pos, order, price) ==
    LET pnl == RealizedPnl(pos.quantity, pos.average, order.quantity, price)
    IN  [position |-> [pos EXCEPT !.quantity = 0, !.margin = 0,
                                  !.accumulated = @ + pnl],
         release  |-> pos.margin,
         pnl      |-> pnl,
         called   |-> pos.margin > 0]

\* Mutant: the price of the last fill replaces the average.
AddAtLastPrice(pos, order, price) ==
    NothingReleased([pos EXCEPT !.quantity = @ + Signed(order),
                                !.average = price,
                                !.margin = @ + order.margin])

\* Same direction: weighted average price, margins add up.
AddToPosition(pos, order, price) ==
    LET held == Abs(pos.quantity)
    IN  NothingReleased(
            [pos EXCEPT !.quantity = @ + Signed(order),
                        !.average = (held * @ + order.quantity * price)
                                        \div (held + order.quantity),
                        !.margin = @ + order.margin])

\* Opposite direction, smaller: margin goes back in proportion.
ReducePosition(pos, order, price) ==
    LET pnl == RealizedPnl(pos.quantity, pos.average, order.quantity, price)
        freed == (pos.margin * order.quantity) \div Abs(pos.quantity)
    IN  [position |-> [pos EXCEPT !.quantity = @ + Signed(order),
                                  !.margin = @ - freed,
                                  !.accumulated = @ + pnl],
         release  |-> freed,
         pnl      |-> pnl,
         called   |-> pos.margin > 0]

\* Mutant: the whole order becomes the new position.
ReverseWithWholeOrder(pos, order, price) ==
    LET pnl == RealizedPnl(pos.quantity, pos.average, Abs(pos.quantity), price)
    IN  [position |-> [pos EXCEPT !.quantity = Signed(order),
                                  !.average = price,
                                  !.margin = order.margin,
                                  !.accumulated = @ + pnl],
         release  |-> pos.margin,
         pnl      |-> pnl,
         called   |-> pos.margin > 0]

\* Opposite direction, larger: the old position closes and the excess opens a
\* new one, with the excess's share of the margin stored in the order.
ReversePosition(pos, order, price) ==
    LET held == Abs(pos.quantity)
        excess == order.quantity - held
        pnl == RealizedPnl(pos.quantity, pos.average, held, price)
    IN  [position |-> [pos EXCEPT
                          !.quantity = IF order.action = "BUY" THEN excess
                                                               ELSE -excess,
                          !.average = price,
                          !.margin = (order.margin * excess) \div order.quantity,
                          !.accumulated = @ + pnl],
         release  |-> pos.margin,
         pnl      |-> pnl,
         called   |-> pos.margin > 0]

SameDirection(pos, order) ==
    \/ pos.quantity > 0 /\ order.action = "BUY"
    \/ pos.quantity < 0 /\ order.action = "SELL"

Net(pos, order, price) ==
    CASE pos.quantity = 0 -> OpenPosition(pos, order, price)
      [] pos.quantity # 0 /\ SameDirection(pos, order) ->
            AddToPosition(pos, order, price)
      [] pos.quantity # 0 /\ ~SameDirection(pos, order)
            /\ order.quantity = Abs(pos.quantity) ->
            ClosePosition(pos, order, price)
      [] pos.quantity # 0 /\ ~SameDirection(pos, order)
            /\ order.quantity < Abs(pos.quantity) ->
            ReducePosition(pos, order, price)
      [] OTHER -> ReversePosition(pos, order, price)

\* The part of the position margins that reconcile_margin counts: rows that
\* are still open.
CountedMargin(pos) == IF pos.quantity # 0 THEN pos.margin ELSE 0
=============================================================================
