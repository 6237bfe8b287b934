------------------------ MODULE SandboxTrading_proofs ------------------------
(***************************************************************************)
(* What SandboxTrading promises for every set of ids, quantities, prices,  *)
(* types and products, every capital and every leverage.                   *)
(***************************************************************************)
EXTENDS SandboxTrading, TLAPS

(***************************************************************************)
(* Facts about the operators of SandboxFunds and PositionNetting.          *)
(***************************************************************************)

\* Margin is a natural number: calculate_margin_required on a valid order.
LEMMA MarginRequiredNat ==
    ASSUME NEW q \in Nat, NEW p \in Nat
    PROVE  MarginRequired(q, p) \in Nat
  <1>1. q * p \in Nat
    OBVIOUS
  <1>2. QED
    BY <1>1, LeverageAssumption DEF MarginRequired

LEMMA AbsNat ==
    ASSUME NEW n \in Int
    PROVE  Abs(n) \in Nat /\ (n # 0 => Abs(n) > 0)
  BY DEF Abs

\* Integer division by a positive number stays an integer.
LEMMA DivInt ==
    ASSUME NEW a \in Int, NEW b \in Int, b > 0
    PROVE  a \div b \in Int
  OBVIOUS

\* Quotient and remainder of a division by a positive number.
LEMMA Division ==
    ASSUME NEW a \in Int, NEW b \in Int, b > 0
    PROVE  /\ a \div b \in Int /\ a % b \in Int
           /\ a = b * (a \div b) + (a % b) /\ 0 <= a % b /\ a % b < b
  OBVIOUS

\* A part of a margin is a natural number and at most the margin.
LEMMA ShareOfMargin ==
    ASSUME NEW m \in Nat, NEW part \in Nat, NEW whole \in Nat, whole > 0, part <= whole
    PROVE  (m * part) \div whole \in Nat /\ (m * part) \div whole <= m
  <1> DEFINE scaled == m * part
             d == scaled \div whole
             rest == scaled % whole
  <1>1. scaled \in Nat /\ scaled <= m * whole /\ m * whole \in Nat
    <2>1. whole - part \in Nat /\ m * (whole - part) \in Nat
      OBVIOUS
    <2>2. m * whole = m * part + m * (whole - part)
      OBVIOUS
    <2>3. m * part \in Nat
      OBVIOUS
    <2>4. QED
      BY <2>1, <2>2, <2>3
  <1>2. d \in Int /\ rest \in Int /\ scaled = whole * d + rest /\ 0 <= rest /\ rest < whole
    <2> HIDE DEF scaled
    <2>1. QED
      BY <1>1, Division
  <1> HIDE DEF scaled, d, rest
  <1>3. d >= 0
    <2> SUFFICES ASSUME d <= -1 PROVE FALSE
      BY <1>2
    <2>1. -1 - d \in Nat /\ whole * (-1 - d) \in Nat
      BY <1>2
    <2>2. whole * d = -whole - whole * (-1 - d)
      BY <1>2
    <2>3. QED
      BY <1>1, <1>2, <2>1, <2>2
  <1>4. d <= m
    <2> SUFFICES ASSUME d >= m + 1 PROVE FALSE
      BY <1>2
    <2>1. d - m - 1 \in Nat /\ whole * (d - m - 1) \in Nat
      BY <1>2
    <2>2. whole * d = whole * m + whole + whole * (d - m - 1)
      BY <1>2
    <2>3. whole * m = m * whole
      OBVIOUS
    <2>4. QED
      BY <1>1, <1>2, <2>1, <2>2, <2>3
  <1>5. QED
    BY <1>2, <1>3, <1>4 DEF d, scaled

\* What a fill of an order makes of a position row: well-typed amounts, and the
\* signed quantity of the order added.
NetsTo(net, pos, order) ==
    /\ net.position \in Position
    /\ net.release \in Int
    /\ net.pnl \in Int
    /\ net.position.quantity = pos.quantity + Signed(order)

LEMMA RealizedPnlType ==
    ASSUME NEW q \in Int, NEW a \in Int, NEW c \in Int, NEW p \in Int
    PROVE  RealizedPnl(q, a, c, p) \in Int
  BY DEF RealizedPnl

LEMMA OpenPositionNets ==
    ASSUME NEW pos \in Position, NEW order \in Order, NEW price \in Int,
           pos.quantity = 0
    PROVE  NetsTo(OpenPosition(pos, order, price), pos, order)
  <1> DEFINE new == [pos EXCEPT !.row = TRUE, !.quantity = Signed(order),
                                !.average = price, !.margin = order.margin]
  <1>c. /\ pos.quantity \in Int /\ pos.average \in Int /\ pos.margin \in Nat
        /\ pos.accumulated \in Int /\ order.quantity \in Int
        /\ order.quantity >= 0 /\ order.margin \in Nat
        /\ order.action \in {"BUY", "SELL"} /\ Signed(order) \in Int
    BY DEF Position, Order, Actions, Signed
  <1>1. new \in Position /\ new.quantity = Signed(order)
    BY <1>c DEF Position
  <1>2. OpenPosition(pos, order, price) = NothingReleased(new)
    BY DEF OpenPosition
  <1> HIDE DEF new
  <1>3. QED
    BY <1>c, <1>1, <1>2 DEF NetsTo, NothingReleased

LEMMA AddToPositionNets ==
    ASSUME NEW pos \in Position, NEW order \in Order, NEW price \in Int,
           pos.quantity # 0
    PROVE  NetsTo(AddToPosition(pos, order, price), pos, order)
  <1> DEFINE held == Abs(pos.quantity)
             total == held * pos.average + order.quantity * price
             quantity == pos.quantity + Signed(order)
             average == total \div (held + order.quantity)
             margin == pos.margin + order.margin
             new == [pos EXCEPT !.quantity = quantity, !.average = average,
                                !.margin = margin]
  <1>c. /\ pos.quantity \in Int /\ pos.average \in Int /\ pos.margin \in Nat
        /\ pos.accumulated \in Int /\ order.quantity \in Int
        /\ order.quantity >= 0 /\ order.margin \in Nat
        /\ order.action \in {"BUY", "SELL"} /\ Signed(order) \in Int
    BY DEF Position, Order, Actions, Signed
  <1>1. held \in Int /\ held > 0
    BY <1>c DEF Abs
  <1>2. total \in Int /\ held + order.quantity \in Int
        /\ held + order.quantity > 0
    BY <1>c, <1>1
  <1>3. quantity \in Int /\ margin \in Nat
    BY <1>c
  <1>4. average \in Int
    <2> HIDE DEF total, held
    <2>1. QED
      BY <1>2, DivInt
  <1>5. AddToPosition(pos, order, price) = NothingReleased(new)
    BY DEF AddToPosition
  <1>6. new \in Position /\ new.quantity = quantity
    <2> HIDE DEF quantity, average, margin
    <2>1. QED
      BY <1>3, <1>4 DEF Position
  <1> HIDE DEF new
  <1>7. QED
    BY <1>5, <1>6 DEF NetsTo, NothingReleased

LEMMA ClosePositionNets ==
    ASSUME NEW pos \in Position, NEW order \in Order, NEW price \in Int,
           pos.quantity # 0, ~SameDirection(pos, order),
           order.quantity = Abs(pos.quantity)
    PROVE  NetsTo(ClosePosition(pos, order, price), pos, order)
  <1> DEFINE pnl == RealizedPnl(pos.quantity, pos.average, order.quantity, price)
             accumulated == pos.accumulated + pnl
             new == [pos EXCEPT !.quantity = 0, !.margin = 0,
                                !.accumulated = accumulated]
  <1>c. /\ pos.quantity \in Int /\ pos.average \in Int /\ pos.margin \in Nat
        /\ pos.accumulated \in Int /\ order.quantity \in Int
        /\ order.quantity >= 0 /\ order.margin \in Nat
        /\ order.action \in {"BUY", "SELL"} /\ Signed(order) \in Int
    BY DEF Position, Order, Actions, Signed
  <1>1. pnl \in Int /\ accumulated \in Int
    <2>1. pnl \in Int
      BY <1>c, RealizedPnlType
    <2>2. QED
      BY <2>1, <1>c
  <1>2. pos.quantity + Signed(order) = 0
    BY <1>c DEF SameDirection, Signed, Abs
  <1>3. ClosePosition(pos, order, price)
          = [position |-> new, release |-> pos.margin, pnl |-> pnl,
             called |-> pos.margin > 0]
    BY DEF ClosePosition
  <1>4. new \in Position /\ new.quantity = 0
    <2> DEFINE none == 0
               row == [pos EXCEPT !.quantity = none, !.margin = none,
                                  !.accumulated = accumulated]
    <2>1. none \in Int /\ none \in Nat
      OBVIOUS
    <2>2. row \in Position /\ row.quantity = none
      <3> HIDE DEF none, accumulated
      <3>1. QED
        BY <1>1, <2>1 DEF Position
    <2>3. QED
      BY <2>2
  <1> HIDE DEF new, pnl
  <1>5. QED
    BY <1>c, <1>1, <1>2, <1>3, <1>4 DEF NetsTo

LEMMA ReducePositionNets ==
    ASSUME NEW pos \in Position, NEW order \in Order, NEW price \in Int,
           order.quantity < Abs(pos.quantity)
    PROVE  NetsTo(ReducePosition(pos, order, price), pos, order)
  <1> DEFINE pnl == RealizedPnl(pos.quantity, pos.average, order.quantity, price)
             scaled == pos.margin * order.quantity
             freed == scaled \div Abs(pos.quantity)
             quantity == pos.quantity + Signed(order)
             margin == pos.margin - freed
             accumulated == pos.accumulated + pnl
             new == [pos EXCEPT !.quantity = quantity, !.margin = margin,
                                !.accumulated = accumulated]
  <1>c. /\ pos.quantity \in Int /\ pos.average \in Int /\ pos.margin \in Nat
        /\ pos.accumulated \in Int /\ order.quantity \in Int
        /\ order.quantity >= 0 /\ order.margin \in Nat
        /\ order.action \in {"BUY", "SELL"} /\ Signed(order) \in Int
    BY DEF Position, Order, Actions, Signed
  <1>1. pnl \in Int /\ accumulated \in Int /\ quantity \in Int
    <2>1. pnl \in Int
      BY <1>c, RealizedPnlType
    <2>2. QED
      BY <2>1, <1>c
  <1>2. freed \in Nat /\ freed <= pos.margin
    <2>1. Abs(pos.quantity) \in Nat /\ Abs(pos.quantity) > 0 /\ order.quantity \in Nat
      BY <1>c, AbsNat
    <2>2. QED
      BY <1>c, <2>1, ShareOfMargin
  <1>3. margin \in Nat
    BY <1>c, <1>2
  <1>4. ReducePosition(pos, order, price)
          = [position |-> new, release |-> freed, pnl |-> pnl,
             called |-> pos.margin > 0]
    BY DEF ReducePosition
  <1>5. new \in Position /\ new.quantity = quantity
    <2> HIDE DEF quantity, margin, accumulated
    <2>1. QED
      BY <1>1, <1>3 DEF Position
  <1> HIDE DEF new, pnl, freed
  <1>6. QED
    BY <1>1, <1>2, <1>4, <1>5 DEF NetsTo

LEMMA ReversePositionNets ==
    ASSUME NEW pos \in Position, NEW order \in Order, NEW price \in Int,
           pos.quantity # 0, ~SameDirection(pos, order),
           order.quantity > Abs(pos.quantity)
    PROVE  NetsTo(ReversePosition(pos, order, price), pos, order)
  <1> DEFINE held == Abs(pos.quantity)
             excess == order.quantity - held
             pnl == RealizedPnl(pos.quantity, pos.average, held, price)
             scaled == order.margin * excess
             share == scaled \div order.quantity
             quantity == IF order.action = "BUY" THEN excess ELSE -excess
             accumulated == pos.accumulated + pnl
             new == [pos EXCEPT !.quantity = quantity, !.average = price,
                                !.margin = share,
                                !.accumulated = accumulated]
  <1>c. /\ pos.quantity \in Int /\ pos.average \in Int /\ pos.margin \in Nat
        /\ pos.accumulated \in Int /\ order.quantity \in Int
        /\ order.quantity >= 0 /\ order.margin \in Nat
        /\ order.action \in {"BUY", "SELL"} /\ Signed(order) \in Int
    BY DEF Position, Order, Actions, Signed
  <1>1. held \in Int /\ excess \in Int /\ quantity \in Int /\ order.quantity > 0
    BY <1>c DEF Abs
  <1>2. pnl \in Int /\ accumulated \in Int
    <2>1. pnl \in Int
      BY <1>1, <1>c, RealizedPnlType
    <2>2. QED
      BY <2>1, <1>c
  <1>3. share \in Nat
    <2>1. excess \in Nat /\ order.quantity \in Nat /\ excess <= order.quantity
      BY <1>1, <1>c DEF Abs
    <2> HIDE DEF excess
    <2>2. QED
      BY <1>1, <2>1, <1>c, ShareOfMargin
  <1>4. quantity = pos.quantity + Signed(order)
    BY <1>c DEF SameDirection, Signed, Abs
  <1>5. ReversePosition(pos, order, price)
          = [position |-> new, release |-> pos.margin, pnl |-> pnl,
             called |-> pos.margin > 0]
    BY DEF ReversePosition
  <1>6. new \in Position /\ new.quantity = quantity
    <2> HIDE DEF share, quantity, accumulated
    <2>1. QED
      BY <1>1, <1>2, <1>3 DEF Position
  <1> HIDE DEF new, pnl, quantity
  <1>7. QED
    BY <1>c, <1>2, <1>4, <1>5, <1>6 DEF NetsTo

\* Whatever the branch, the fill adds its signed quantity to the position: the
\* five ways of netting agree on what the user holds afterwards.
THEOREM NetAddsQuantity ==
    ASSUME NEW pos \in Position, NEW order \in Order, NEW price \in Int
    PROVE  NetsTo(Net(pos, order, price), pos, order)
  <1>1. pos.quantity \in Int /\ order.quantity \in Nat /\ Abs(pos.quantity) \in Nat
    BY AbsNat DEF Position, Order
  <1>2. CASE pos.quantity = 0
    <2>1. Net(pos, order, price) = OpenPosition(pos, order, price)
      BY <1>2 DEF Net
    <2>2. QED
      BY <1>2, <2>1, OpenPositionNets
  <1>3. CASE pos.quantity # 0 /\ SameDirection(pos, order)
    <2>1. Net(pos, order, price) = AddToPosition(pos, order, price)
      BY <1>3 DEF Net
    <2>2. QED
      BY <1>3, <2>1, AddToPositionNets
  <1>4. CASE pos.quantity # 0 /\ ~SameDirection(pos, order)
    <2>1. CASE order.quantity = Abs(pos.quantity)
      <3>1. Net(pos, order, price) = ClosePosition(pos, order, price)
        BY <1>1, <1>4, <2>1 DEF Net
      <3>2. QED
        BY <1>4, <2>1, <3>1, ClosePositionNets
    <2>2. CASE order.quantity < Abs(pos.quantity)
      <3>1. Net(pos, order, price) = ReducePosition(pos, order, price)
        BY <1>1, <1>4, <2>2 DEF Net
      <3>2. QED
        BY <2>2, <3>1, ReducePositionNets
    <2>3. CASE order.quantity > Abs(pos.quantity)
      <3>1. Net(pos, order, price) = ReversePosition(pos, order, price)
        BY <1>1, <1>4, <2>3 DEF Net
      <3>2. QED
        BY <1>4, <2>3, <3>1, ReversePositionNets
    <2>4. QED
      BY <1>1, <2>1, <2>2, <2>3
  <1>5. QED
    BY <1>2, <1>3, <1>4
-----------------------------------------------------------------------------
(***************************************************************************)
(* The funds row: each operation keeps it well typed, and none of them     *)
(* creates or destroys money.                                              *)
(***************************************************************************)
Balanced(f) == Cash(f) = StartingCapital + f.realized

LEMMA BlockMarginBalanced ==
    ASSUME NEW f \in Funds, NEW amount \in Int
    PROVE  /\ BlockMargin(f, amount) \in Funds
           /\ Balanced(f) => Balanced(BlockMargin(f, amount))
  <1> DEFINE available == f.available - amount
             used == f.used + amount
             new == [f EXCEPT !.available = available, !.used = used]
  <1>1. /\ f.available \in Int /\ f.used \in Int /\ f.realized \in Int
        /\ available \in Int /\ used \in Int
        /\ available + used = f.available + f.used
    BY DEF Funds
  <1>2. new = BlockMargin(f, amount)
    BY DEF BlockMargin
  <1>3. new \in Funds /\ new.available = available /\ new.used = used
        /\ new.realized = f.realized
    <2> HIDE DEF available, used
    <2>1. QED
      BY <1>1 DEF Funds
  <1> HIDE DEF new
  <1>4. QED
    BY <1>1, <1>2, <1>3 DEF Balanced, Cash

LEMMA ReleaseMarginBalanced ==
    ASSUME NEW f \in Funds, NEW amount \in Int, NEW pnl \in Int
    PROVE  /\ ReleaseMargin(f, amount, pnl) \in Funds
           /\ Balanced(f) => Balanced(ReleaseMargin(f, amount, pnl))
  <1>1. f.available \in Int /\ f.used \in Int /\ f.realized \in Int
    BY DEF Funds
  <1>2. ReleaseMargin(f, amount, pnl) \in Funds
    BY <1>1 DEF ReleaseMargin, Funds
  <1>3. Balanced(f) => Balanced(ReleaseMargin(f, amount, pnl))
    BY <1>1, StartingCapitalAssumption DEF ReleaseMargin, Balanced, Cash
  <1>4. QED
    BY <1>2, <1>3

LEMMA ReconcileMarginBalanced ==
    ASSUME NEW f \in Funds, NEW margin \in Int
    PROVE  /\ ReconcileMargin(f, margin) \in Funds
           /\ Balanced(f) => Balanced(ReconcileMargin(f, margin))
  <1> DEFINE available == f.available + (f.used - margin)
             new == [f EXCEPT !.used = margin, !.available = available]
  <1>1. /\ f.available \in Int /\ f.used \in Int /\ f.realized \in Int
        /\ available \in Int
        /\ available + margin = f.available + f.used
    BY DEF Funds
  <1>2. new = ReconcileMargin(f, margin)
    BY DEF ReconcileMargin
  <1>3. new \in Funds /\ new.available = available /\ new.used = margin
        /\ new.realized = f.realized
    <2> HIDE DEF available
    <2>1. QED
      BY <1>1 DEF Funds
  <1> HIDE DEF new
  <1>4. QED
    BY <1>1, <1>2, <1>3 DEF Balanced, Cash

LEMMA InitialFundsBalanced == InitialFunds \in Funds /\ Balanced(InitialFunds)
  BY StartingCapitalAssumption DEF InitialFunds, Funds, Balanced, Cash

\* The release of a fill, when there is one, and the reconciliation after it.
LEMMA FundsAfterFillBalanced ==
    ASSUME NEW f \in Funds, NEW net, NEW pos, NEW order, NetsTo(net, pos, order)
    PROVE  /\ FundsAfterFill(f, net) \in Funds
           /\ Balanced(f) => Balanced(FundsAfterFill(f, net))
  <1> DEFINE released == IF net.called
                           THEN ReleaseMargin(f, net.release, net.pnl) ELSE f
  <1>1. net.release \in Int /\ net.pnl \in Int
    BY DEF NetsTo
  <1>2. released \in Funds /\ (Balanced(f) => Balanced(released))
    BY <1>1, ReleaseMarginBalanced
  <1>3. CountedMargin(net.position) \in Int
    BY DEF NetsTo, Position, CountedMargin
  <1>4. FundsAfterFill(f, net) = ReconcileMargin(released, CountedMargin(net.position))
    BY DEF FundsAfterFill
  <1> HIDE DEF released
  <1>5. QED
    BY <1>2, <1>3, <1>4, ReconcileMarginBalanced
-----------------------------------------------------------------------------
(***************************************************************************)
(* The order records that the handlers write, and the prices of fills.     *)
(***************************************************************************)
LEMMA PricesInt == \A p \in Prices : p \in Nat /\ p \in Int
  BY PricesAssumption

LEMMA ClosedOrderType ==
    ASSUME NEW status \in Statuses
    PROVE  ClosedOrder(status) \in Order
  BY DEF ClosedOrder, AbsentOrder, Order, Statuses, Actions, NoPrice

LEMMA BookFillPricesInt ==
    ASSUME NEW order \in Order, NEW q \in Quote, NEW p \in BookFillPrices(order, q)
    PROVE  p \in Int
  <1>1. q.ltp \in Int /\ q.side \in Int
    BY PricesInt DEF Quote
  <1>2. order.price \in Int
    BY DEF Order
  <1>3. p \in {q.ltp, q.side, order.price}
    BY DEF BookFillPrices
  <1>4. QED
    BY <1>1, <1>2, <1>3

LEMMA ImmediateFillsInt ==
    ASSUME NEW order \in Order, NEW ltp \in Prices,
           NEW prices \in ImmediateFills(order, ltp)
    PROVE  \A p \in prices : p \in Int
  <1>1. PICK side \in Prices :
            prices = ImmediateFillPrices(order, [ltp |-> ltp, side |-> side])
    BY DEF ImmediateFills
  <1> DEFINE q == [ltp |-> ltp, side |-> side]
  <1>2. q \in Quote /\ q.ltp = ltp
    BY DEF Quote
  <1>3. ltp \in Int
    BY PricesInt
  <1>4. prices = ImmediateFillPrices(order, q)
    BY <1>1
  <1> HIDE DEF q
  <1>5. CASE order.type = "MARKET"
    BY <1>2, <1>4, <1>5, BookFillPricesInt DEF ImmediateFillPrices
  <1>6. CASE order.type = "LIMIT"
    BY <1>2, <1>3, <1>4, <1>6 DEF ImmediateFillPrices
  <1>7. CASE order.type = "SL"
    BY <1>2, <1>3, <1>4, <1>7 DEF ImmediateFillPrices
  <1>8. CASE order.type = "SL-M"
    BY <1>2, <1>3, <1>4, <1>8 DEF ImmediateFillPrices
  <1>9. QED
    BY <1>5, <1>6, <1>7, <1>8 DEF Order

\* The price fields of a request.
RequestTerms == [type: {"MARKET", "LIMIT", "SL", "SL-M"}, price: Nat, trigger: Nat]

LEMMA TermsType == (\A t \in Terms : t \in RequestTerms) /\ AtMarket \in RequestTerms
  <1>1. \A t \in Terms : t \in RequestTerms
    <2> TAKE t \in Terms
    <2>1. t \in [type: PriceTypes, price: Prices \cup {NoPrice},
                 trigger: Prices \cup {NoPrice}]
      BY DEF Terms
    <2>2. Prices \cup {NoPrice} \subseteq Nat
      BY PricesAssumption DEF NoPrice
    <2>3. QED
      BY <2>1, <2>2, PriceTypesAssumption DEF RequestTerms
  <1>2. AtMarket \in RequestTerms
    BY DEF AtMarket, RequestTerms, NoPrice
  <1>3. QED
    BY <1>1, <1>2

LEMMA MarginToBlockType ==
    ASSUME position \in Position, NEW action \in Actions, NEW quantity \in Nat,
           NEW price \in Nat
    PROVE  MarginToBlock(action, quantity, price) \in Nat
  <1> DEFINE held == Abs(position.quantity)
  <1>1. position.quantity \in Int
    BY DEF Position
  <1>2. held \in Nat
    BY <1>1, AbsNat
  <1>3. quantity > held => quantity - held \in Nat
    BY <1>2
  <1>4. MarginRequired(quantity, price) \in Nat
    BY MarginRequiredNat
  <1>5. quantity > held => MarginRequired(quantity - held, price) \in Nat
    BY <1>3, MarginRequiredNat
  <1>6. quantity <= held \/ quantity > held
    BY <1>2
  <1>7. QED
    BY <1>4, <1>5, <1>6 DEF MarginToBlock

LEMMA NewOrderType ==
    ASSUME position \in Position, NEW action \in Actions, NEW quantity \in Nat,
           NEW t \in RequestTerms, NEW ltp \in Prices
    PROVE  /\ NewOrder(action, quantity, t, ltp) \in Order
           /\ NewOrder(action, quantity, t, ltp).status = "open"
           /\ BlockedBy(NewOrder(action, quantity, t, ltp)) \in Nat
  <1> DEFINE basis == CASE t.type = "MARKET" -> ltp
                        [] t.type = "LIMIT" -> t.price
                        [] OTHER -> t.trigger
             margin == MarginToBlock(action, quantity, basis)
             price == IF t.type = "MARKET" THEN ltp ELSE t.price
  <1>1. ltp \in Nat /\ t.price \in Nat /\ t.trigger \in Nat
        /\ t.type \in {"MARKET", "LIMIT", "SL", "SL-M"}
    BY PricesInt DEF RequestTerms
  <1>2. basis \in Nat /\ price \in Nat
    BY <1>1
  <1>3. margin \in Nat
    <2> HIDE DEF basis
    <2>1. QED
      BY <1>2, MarginToBlockType
  <1>4. NewOrder(action, quantity, t, ltp)
          = [status |-> "open", action |-> action, quantity |-> quantity,
             type |-> t.type, trigger |-> t.trigger, price |-> price,
             margin |-> margin]
    BY DEF NewOrder
  <1> HIDE DEF margin, price
  <1>5. NewOrder(action, quantity, t, ltp) \in Order
    BY <1>1, <1>2, <1>3, <1>4 DEF Order, Statuses
  <1>6. QED
    BY <1>3, <1>4, <1>5 DEF BlockedBy
-----------------------------------------------------------------------------
(***************************************************************************)
(* The steps.  Each lemma says of one operation what the three invariants  *)
(* need: the type invariant, the balance of the funds and the quantity of  *)
(* the position.                                                           *)
(***************************************************************************)
Preserved ==
    /\ TypeOK'
    /\ MoneyConserved => MoneyConserved'
    /\ QuantityMatchesTrades => QuantityMatchesTrades'

LEMMA BalancedFunds ==
    /\ MoneyConserved <=> Balanced(funds)
    /\ MoneyConserved' <=> Balanced(funds')
  BY DEF MoneyConserved, Balanced, Cash

\* A fill, of an order of the book or of one just placed; f is what the funds
\* hold after the order's margin was taken.
LEMMA ExecutePreserves ==
    ASSUME TypeOK, NEW o \in OrderIds, NEW order \in Order, NEW price \in Int,
           NEW f \in Funds, Balanced(funds) => Balanced(f),
           Execute(o, order, price, f), UNCHANGED <<product, holdings, blocked>>
    PROVE  Preserved
  <1> DEFINE net == Net(position, order, price)
             cash == traded.cash - Signed(order) * price
             quantity == traded.quantity + Signed(order)
  <1>1. position \in Position /\ traded \in [quantity: Int, cash: Int]
        /\ trades \in [OrderIds -> Nat] /\ orders \in [OrderIds -> Order]
    BY DEF TypeOK
  <1>2. NetsTo(net, position, order)
    BY <1>1, NetAddsQuantity
  <1>3. /\ trades' = [trades EXCEPT ![o] = @ + 1]
        /\ traded' = [quantity |-> quantity, cash |-> cash]
        /\ orders' = [orders EXCEPT ![o] = ClosedOrder("complete")]
        /\ position' = net.position
        /\ funds' = FundsAfterFill(f, net)
    BY DEF Execute
  <1>4. Signed(order) \in Int
    BY DEF Signed, Order
  <1>5. cash \in Int /\ quantity \in Int
    BY <1>1, <1>4
  <1>6. funds' \in Funds /\ (Balanced(f) => Balanced(funds'))
    <2> HIDE DEF net
    <2>1. QED
      BY <1>2, <1>3, FundsAfterFillBalanced
  <1>7. TypeOK'
    <2>1. position' \in Position
      BY <1>2, <1>3 DEF NetsTo
    <2>2. traded' \in [quantity: Int, cash: Int]
      <3> HIDE DEF cash, quantity
      <3>1. QED
        BY <1>3, <1>5
    <2>3. trades' \in [OrderIds -> Nat]
      BY <1>1, <1>3
    <2>4. orders' \in [OrderIds -> Order]
      BY <1>1, <1>3, ClosedOrderType DEF Statuses
    <2>5. QED
      BY <1>6, <2>1, <2>2, <2>3, <2>4 DEF TypeOK
  <1>8. MoneyConserved => MoneyConserved'
    BY <1>6, BalancedFunds
  <1>9. QuantityMatchesTrades => QuantityMatchesTrades'
    <2>1. position'.quantity = position.quantity + Signed(order)
      BY <1>2, <1>3 DEF NetsTo
    <2>2. traded'.quantity = traded.quantity + Signed(order)
      BY <1>3
    <2>3. QED
      BY <2>1, <2>2 DEF QuantityMatchesTrades
  <1>10. QED
    BY <1>7, <1>8, <1>9 DEF Preserved

LEMMA PlacePreserves ==
    ASSUME TypeOK, NEW o \in OrderIds, NEW order \in Order,
           BlockedBy(order) \in Nat, NEW prices, \A p \in prices : p \in Int,
           Place(o, order, prices)
    PROVE  Preserved
  <1> DEFINE paid == BlockMargin(funds, BlockedBy(order))
  <1>1. BlockedBy(order) \in Int /\ funds \in Funds /\ orders \in [OrderIds -> Order]
    BY DEF TypeOK
  <1>2. paid \in Funds /\ (Balanced(funds) => Balanced(paid))
    BY <1>1, BlockMarginBalanced
  <1>3. UNCHANGED <<product, holdings, blocked>>
    BY DEF Place
  <1>4. CASE \E p \in prices : Execute(o, order, p, paid)
    <2> HIDE DEF paid
    <2>1. QED
      BY <1>2, <1>3, <1>4, ExecutePreserves
  <1>5. CASE /\ orders' = [orders EXCEPT ![o] = order]
             /\ funds' = paid
             /\ UNCHANGED <<position, trades, traded>>
    <2>1. orders' \in [OrderIds -> Order]
      BY <1>1, <1>5
    <2>2. TypeOK'
      BY <1>2, <1>3, <1>5, <2>1 DEF TypeOK
    <2>3. MoneyConserved => MoneyConserved'
      BY <1>2, <1>5, BalancedFunds
    <2>4. QED
      BY <1>5, <2>2, <2>3 DEF Preserved, QuantityMatchesTrades
  <1>6. QED
    BY <1>4, <1>5 DEF Place

LEMMA PlaceUnquotedPreserves ==
    ASSUME TypeOK, NEW o \in OrderIds, NEW order \in Order,
           BlockedBy(order) \in Nat, PlaceUnquoted(o, order)
    PROVE  Preserved
  <1> DEFINE paid == BlockMargin(funds, BlockedBy(order))
  <1>1. BlockedBy(order) \in Int /\ funds \in Funds /\ orders \in [OrderIds -> Order]
    BY DEF TypeOK
  <1>2. paid \in Funds /\ (Balanced(funds) => Balanced(paid))
    BY <1>1, BlockMarginBalanced
  <1>3. /\ orders' = [orders EXCEPT ![o] = order]
        /\ funds' = paid
        /\ UNCHANGED <<product, position, holdings, trades, blocked, traded>>
    BY DEF PlaceUnquoted
  <1>4. orders' \in [OrderIds -> Order]
    BY <1>1, <1>3
  <1>5. TypeOK'
    BY <1>2, <1>3, <1>4 DEF TypeOK
  <1>6. QED
    BY <1>2, <1>3, <1>5, BalancedFunds DEF Preserved, QuantityMatchesTrades
LEMMA QuantityNat == \A q \in Quantities : q \in Nat
  BY QuantitiesAssumption

LEMMA PlaceOrderPreserves ==
    ASSUME TypeOK, NEW o \in OrderIds, PlaceOrder(o)
    PROVE  Preserved
  <1>1. PICK action \in Actions, quantity \in Quantities, t \in Terms, ltp \in Prices :
          LET order == NewOrder(action, quantity, t, ltp)
          IN  \E prices \in ImmediateFills(order, ltp) : Place(o, order, prices)
    BY DEF PlaceOrder
  <1> DEFINE order == NewOrder(action, quantity, t, ltp)
  <1>2. position \in Position
    BY DEF TypeOK
  <1>3. order \in Order /\ BlockedBy(order) \in Nat
    BY <1>2, QuantityNat, TermsType, NewOrderType
  <1>4. PICK prices \in ImmediateFills(order, ltp) : Place(o, order, prices)
    BY <1>1
  <1> HIDE DEF order
  <1>5. \A p \in prices : p \in Int
    BY <1>3, ImmediateFillsInt
  <1>6. QED
    BY <1>3, <1>4, <1>5, PlacePreserves

LEMMA PlaceOrderWithoutQuotePreserves ==
    ASSUME TypeOK, NEW o \in OrderIds, PlaceOrderWithoutQuote(o)
    PROVE  Preserved
  <1>1. PICK action \in Actions, quantity \in Quantities, t \in Terms, last \in Prices :
          PlaceUnquoted(o, NewOrder(action, quantity, t, last))
    BY DEF PlaceOrderWithoutQuote
  <1>2. position \in Position
    BY DEF TypeOK
  <1>3. /\ NewOrder(action, quantity, t, last) \in Order
        /\ BlockedBy(NewOrder(action, quantity, t, last)) \in Nat
    BY <1>2, QuantityNat, TermsType, NewOrderType
  <1>4. QED
    BY <1>1, <1>3, PlaceUnquotedPreserves

LEMMA CloseWholePositionPreserves ==
    ASSUME TypeOK, NEW o \in OrderIds, CloseWholePosition(o)
    PROVE  Preserved
  <1> DEFINE action == IF position.quantity > 0 THEN "SELL" ELSE "BUY"
             closing(last) == NewOrder(action, Abs(position.quantity), AtMarket, last)
  <1>1. PICK last \in Prices :
          \/ \E prices \in ImmediateFills(closing(last), last) :
                Place(o, closing(last), prices)
          \/ PlaceUnquoted(o, closing(last))
    BY DEF CloseWholePosition
  <1>2. position \in Position /\ Abs(position.quantity) \in Nat /\ action \in Actions
    BY AbsNat DEF TypeOK, Position, Actions
  <1>3. closing(last) \in Order /\ BlockedBy(closing(last)) \in Nat
    <2> HIDE DEF action
    <2>1. QED
      BY <1>2, TermsType, NewOrderType
  <1> HIDE DEF closing
  <1>4. CASE PlaceUnquoted(o, closing(last))
    BY <1>3, <1>4, PlaceUnquotedPreserves
  <1>5. CASE \E prices \in ImmediateFills(closing(last), last) :
                Place(o, closing(last), prices)
    BY <1>3, <1>5, ImmediateFillsInt, PlacePreserves
  <1>6. QED
    BY <1>1, <1>4, <1>5

LEMMA RejectCncSalePreserves ==
    ASSUME TypeOK, NEW o \in OrderIds, RejectCncSale(o)
    PROVE  Preserved
  <1>1. /\ orders' = [orders EXCEPT ![o] = ClosedOrder("rejected")]
        /\ UNCHANGED <<product, funds, position, holdings, trades, blocked, traded>>
    BY DEF RejectCncSale
  <1>2. orders' \in [OrderIds -> Order]
    BY <1>1, ClosedOrderType DEF TypeOK, Statuses
  <1>3. TypeOK'
    BY <1>1, <1>2 DEF TypeOK
  <1>4. QED
    BY <1>1, <1>3 DEF Preserved, MoneyConserved, Cash, QuantityMatchesTrades

LEMMA ModifyOrderPreserves ==
    ASSUME TypeOK, NEW o \in OrderIds, ModifyOrder(o)
    PROVE  Preserved
  <1>1. PICK quantity \in Quantities \cup {orders[o].quantity},
             price \in Amended(orders[o], {"LIMIT", "SL"}, "price"),
             trigger \in Amended(orders[o], {"SL", "SL-M"}, "trigger") :
          orders' = [orders EXCEPT ![o].quantity = quantity,
                                   ![o].price = price,
                                   ![o].trigger = trigger]
    BY DEF ModifyOrder
  <1>2. orders \in [OrderIds -> Order] /\ orders[o] \in Order
    BY DEF TypeOK
  <1>3. /\ orders[o].quantity \in Nat
        /\ orders[o].price \in Nat /\ orders[o]["price"] = orders[o].price
        /\ orders[o].trigger \in Nat /\ orders[o]["trigger"] = orders[o].trigger
    BY <1>2 DEF Order
  <1>4. quantity \in Nat /\ price \in Nat /\ trigger \in Nat
    BY <1>3, QuantityNat, PricesInt DEF Amended
  <1>5. orders' \in [OrderIds -> Order]
    BY <1>1, <1>2, <1>4 DEF Order
  <1>6. UNCHANGED <<product, funds, position, holdings, trades, blocked, traded>>
    BY DEF ModifyOrder
  <1>7. TypeOK'
    BY <1>5, <1>6 DEF TypeOK
  <1>8. QED
    BY <1>6, <1>7 DEF Preserved, MoneyConserved, Cash, QuantityMatchesTrades

\* A cancellation never takes money: it releases nothing or a natural amount.
LEMMA CancelReleasesNat ==
    ASSUME NEW order \in Order, NEW amount \in CancelReleases(order)
    PROVE  amount \in Nat
  <1>1. order.margin \in Int /\ order.quantity \in Nat /\ order.price \in Nat
    BY DEF Order
  <1>2. CASE order.margin > 0
    BY <1>1, <1>2 DEF CancelReleases
  <1>3. CASE ~(order.margin > 0) /\ ~ShouldBlock(order.action)
    BY <1>3 DEF CancelReleases
  <1>4. CASE ~(order.margin > 0) /\ ShouldBlock(order.action)
    <2>1. PICK p \in {order.price} \cup Prices \cup {NoPrice} :
              amount = MarginRequired(order.quantity, p)
      BY <1>4 DEF CancelReleases
    <2>2. p \in Nat
      BY <1>1, PricesInt DEF NoPrice
    <2>3. QED
      BY <1>1, <2>1, <2>2, MarginRequiredNat
  <1>5. QED
    BY <1>2, <1>3, <1>4

LEMMA CancelOrderPreserves ==
    ASSUME TypeOK, NEW o \in OrderIds, CancelOrder(o)
    PROVE  Preserved
  <1>1. funds \in Funds /\ orders \in [OrderIds -> Order] /\ orders[o] \in Order
    BY DEF TypeOK
  <1>2. PICK amount \in CancelReleases(orders[o]) :
            funds' = ReleaseMargin(funds, amount, 0)
    BY DEF CancelOrder
  <1>3. amount \in Int
    BY <1>1, CancelReleasesNat
  <1>4. funds' \in Funds /\ (Balanced(funds) => Balanced(funds'))
    BY <1>1, <1>2, <1>3, ReleaseMarginBalanced
  <1>5. /\ orders' = [orders EXCEPT ![o] = ClosedOrder("cancelled")]
        /\ UNCHANGED <<product, position, holdings, trades, blocked, traded>>
    BY DEF CancelOrder
  <1>6. orders' \in [OrderIds -> Order]
    BY <1>1, <1>5, ClosedOrderType DEF Statuses
  <1>7. TypeOK'
    BY <1>4, <1>5, <1>6 DEF TypeOK
  <1>8. QED
    BY <1>4, <1>5, <1>7, BalancedFunds DEF Preserved, QuantityMatchesTrades

LEMMA ProcessOrderPreserves ==
    ASSUME TypeOK, NEW o \in OrderIds, ProcessOrder(o)
    PROVE  Preserved
  <1>1. funds \in Funds /\ orders[o] \in Order
    BY DEF TypeOK
  <1>2. PICK p \in UNION {BookFillPrices(orders[o], q) : q \in Quote} :
            Execute(o, orders[o], p, funds)
    BY DEF ProcessOrder
  <1>3. p \in Int
    BY <1>1, <1>2, BookFillPricesInt
  <1>4. UNCHANGED <<product, holdings, blocked>>
    BY DEF ProcessOrder
  <1>5. QED
    BY <1>1, <1>2, <1>3, <1>4, ExecutePreserves

LEMMA ResetFundsPreserves ==
    ASSUME TypeOK, ResetFunds
    PROVE  Preserved
  <1>1. NoPosition \in Position /\ NothingTraded \in [quantity: Int, cash: Int]
    BY DEF NoPosition, Position, NothingTraded
  <1>2. TypeOK'
    BY <1>1, InitialFundsBalanced DEF TypeOK, ResetFunds
  <1>3. MoneyConserved'
    BY InitialFundsBalanced, BalancedFunds DEF ResetFunds
  <1>4. QuantityMatchesTrades'
    BY DEF ResetFunds, QuantityMatchesTrades, NoPosition, NothingTraded
  <1>5. QED
    BY <1>2, <1>3, <1>4 DEF Preserved

LEMMA SessionClockPreserves ==
    ASSUME TypeOK, SessionClock
    PROVE  Preserved
  BY DEF SessionClock, TypeOK, Preserved, MoneyConserved, Cash, QuantityMatchesTrades

LEMMA NextPreserves ==
    ASSUME TypeOK, [Next]_vars
    PROVE  Preserved
  <1>1. CASE UNCHANGED vars
    BY <1>1 DEF vars, TypeOK, Preserved, MoneyConserved, Cash, QuantityMatchesTrades
  <1>2. ASSUME NEW o \in OrderIds,
               \/ PlaceOrder(o) \/ PlaceOrderWithoutQuote(o) \/ RejectCncSale(o)
               \/ ModifyOrder(o) \/ CancelOrder(o) \/ ProcessOrder(o)
               \/ CloseWholePosition(o)
        PROVE  Preserved
    BY <1>2, PlaceOrderPreserves, PlaceOrderWithoutQuotePreserves,
       RejectCncSalePreserves, ModifyOrderPreserves, CancelOrderPreserves,
       ProcessOrderPreserves, CloseWholePositionPreserves
  <1>3. CASE ResetFunds
    BY <1>3, ResetFundsPreserves
  <1>4. CASE SessionClock
    BY <1>4, SessionClockPreserves
  <1>5. QED
    BY <1>1, <1>2, <1>3, <1>4 DEF Next

LEMMA InitInvariants == Init => TypeOK /\ MoneyConserved /\ QuantityMatchesTrades
  <1> SUFFICES ASSUME Init PROVE TypeOK /\ MoneyConserved /\ QuantityMatchesTrades
    OBVIOUS
  <1>1. NoPosition \in Position /\ NothingTraded \in [quantity: Int, cash: Int]
    BY DEF NoPosition, Position, NothingTraded
  <1>2. AbsentOrder \in Order
    BY DEF AbsentOrder, Order, Statuses, Actions, NoPrice
  <1>3. holdings \in Nat
    BY HoldingsAssumption DEF Init
  <1>4. TypeOK
    BY <1>1, <1>2, <1>3, InitialFundsBalanced DEF Init, TypeOK
  <1>5. MoneyConserved
    BY InitialFundsBalanced, BalancedFunds DEF Init
  <1>6. QuantityMatchesTrades
    BY DEF Init, QuantityMatchesTrades, NoPosition, NothingTraded
  <1>7. QED
    BY <1>4, <1>5, <1>6

\* Every reachable state of the engine is well typed: in particular no price,
\* quantity or margin that netting computes leaves the integers.
THEOREM TypeCorrect == Spec => []TypeOK
  <1>1. Init => TypeOK
    BY InitInvariants
  <1>2. TypeOK /\ [Next]_vars => TypeOK'
    BY NextPreserves DEF Preserved
  <1>3. QED
    BY <1>1, <1>2, PTL DEF Spec

\* Whatever clients, quotes and the engine do, the cash of the user is the
\* starting capital plus the profit and loss that was booked.
THEOREM MoneyIsConserved == Spec => []MoneyConserved
  <1>1. Init => MoneyConserved
    BY InitInvariants
  <1>2. TypeOK /\ MoneyConserved /\ [Next]_vars => MoneyConserved'
    BY NextPreserves DEF Preserved
  <1>3. QED
    BY <1>1, <1>2, TypeCorrect, PTL DEF Spec

\* The position is always the net of the trades, on every path through the five
\* branches of netting.
THEOREM PositionIsNetOfTrades == Spec => []QuantityMatchesTrades
  <1>1. Init => QuantityMatchesTrades
    BY InitInvariants
  <1>2. TypeOK /\ QuantityMatchesTrades /\ [Next]_vars => QuantityMatchesTrades'
    BY NextPreserves DEF Preserved
  <1>3. QED
    BY <1>1, <1>2, TypeCorrect, PTL DEF Spec
-----------------------------------------------------------------------------
(***************************************************************************)
(* The order book implements OrderLifecycle.  An action of the engine does *)
(* one of four things to the book, and an order without a trade yet is     *)
(* what makes its execution the first.                                     *)
(***************************************************************************)
Untraded ==
    \A o \in OrderIds : orders[o].status \in {"absent", "open"} => trades[o] = 0

Executed(o) ==
    /\ orders[o].status \in {"absent", "open"}
    /\ orders' = [orders EXCEPT ![o] = ClosedOrder("complete")]
    /\ trades' = [trades EXCEPT ![o] = @ + 1]

Submitted(o) ==
    /\ orders[o].status = "absent"
    /\ \E order \in Order :
          /\ order.status \in {"open", "rejected"}
          /\ orders' = [orders EXCEPT ![o] = order]
    /\ UNCHANGED trades

Cancelled(o) ==
    /\ orders[o].status = "open"
    /\ orders' = [orders EXCEPT ![o] = ClosedOrder("cancelled")]
    /\ UNCHANGED trades

\* A modification, or nothing.
Kept ==
    /\ \A o \in OrderIds : orders'[o].status = orders[o].status
    /\ UNCHANGED trades

LEMMA ClosedStatus == \A status : ClosedOrder(status).status = status
  BY DEF ClosedOrder, AbsentOrder

LEMMA PlaceOnBook ==
    ASSUME NEW o \in OrderIds, NEW order \in Order, order.status = "open",
           Unused(o), NEW prices, Place(o, order, prices)
    PROVE  Executed(o) \/ Submitted(o)
  BY DEF Place, Unused, Execute, Executed, Submitted

LEMMA PlaceUnquotedOnBook ==
    ASSUME NEW o \in OrderIds, NEW order \in Order, order.status = "open",
           Unused(o), PlaceUnquoted(o, order)
    PROVE  Submitted(o)
  BY DEF PlaceUnquoted, Unused, Submitted

LEMMA OrderStepOnBook ==
    ASSUME TypeOK, NEW o \in OrderIds,
           \/ PlaceOrder(o) \/ PlaceOrderWithoutQuote(o) \/ RejectCncSale(o)
           \/ ModifyOrder(o) \/ CancelOrder(o) \/ ProcessOrder(o)
           \/ CloseWholePosition(o)
    PROVE  Executed(o) \/ Submitted(o) \/ Cancelled(o) \/ Kept
  <1>1. position \in Position /\ orders \in [OrderIds -> Order]
    BY DEF TypeOK
  <1>2. CASE PlaceOrder(o)
    <2>1. PICK action \in Actions, quantity \in Quantities, t \in Terms, ltp \in Prices :
            LET order == NewOrder(action, quantity, t, ltp)
            IN  \E prices \in ImmediateFills(order, ltp) : Place(o, order, prices)
      BY <1>2 DEF PlaceOrder
    <2>2. /\ NewOrder(action, quantity, t, ltp) \in Order
          /\ NewOrder(action, quantity, t, ltp).status = "open"
      BY <1>1, QuantityNat, TermsType, NewOrderType
    <2>3. Unused(o)
      BY <1>2 DEF PlaceOrder, CanSubmit
    <2>4. QED
      BY <2>1, <2>2, <2>3, PlaceOnBook
  <1>3. CASE PlaceOrderWithoutQuote(o)
    <2>1. PICK action \in Actions, quantity \in Quantities, t \in Terms, last \in Prices :
            PlaceUnquoted(o, NewOrder(action, quantity, t, last))
      BY <1>3 DEF PlaceOrderWithoutQuote
    <2>2. /\ NewOrder(action, quantity, t, last) \in Order
          /\ NewOrder(action, quantity, t, last).status = "open"
      BY <1>1, QuantityNat, TermsType, NewOrderType
    <2>3. Unused(o)
      BY <1>3 DEF PlaceOrderWithoutQuote, CanSubmit
    <2>4. QED
      BY <2>1, <2>2, <2>3, PlaceUnquotedOnBook
  <1>4. CASE RejectCncSale(o)
    <2>1. ClosedOrder("rejected") \in Order
      BY ClosedOrderType DEF Statuses
    <2>2. QED
      BY <1>4, <2>1, ClosedStatus DEF RejectCncSale, Unused, Submitted
  <1>5. CASE ModifyOrder(o)
    <2>1. PICK quantity, price, trigger :
            orders' = [orders EXCEPT ![o].quantity = quantity,
                                     ![o].price = price,
                                     ![o].trigger = trigger]
      BY <1>5 DEF ModifyOrder
    <2>2. orders'[o].status = orders[o].status
      BY <1>1, <2>1 DEF Order
    <2>3. \A n \in OrderIds : n # o => orders'[n] = orders[n]
      BY <1>1, <2>1
    <2>4. UNCHANGED trades
      BY <1>5 DEF ModifyOrder
    <2>5. QED
      BY <2>2, <2>3, <2>4 DEF Kept
  <1>6. CASE CancelOrder(o)
    BY <1>6 DEF CancelOrder, Open, Cancelled
  <1>7. CASE ProcessOrder(o)
    BY <1>7 DEF ProcessOrder, Open, Execute, Executed
  <1>8. CASE CloseWholePosition(o)
    <2> DEFINE action == IF position.quantity > 0 THEN "SELL" ELSE "BUY"
               closing(last) == NewOrder(action, Abs(position.quantity), AtMarket, last)
    <2>1. PICK last \in Prices :
            \/ \E prices \in ImmediateFills(closing(last), last) :
                  Place(o, closing(last), prices)
            \/ PlaceUnquoted(o, closing(last))
      BY <1>8 DEF CloseWholePosition
    <2>2. Abs(position.quantity) \in Nat /\ action \in Actions
      BY <1>1, AbsNat DEF Position, Actions
    <2>3. closing(last) \in Order /\ closing(last).status = "open"
      <3> HIDE DEF action
      <3>1. QED
        BY <1>1, <2>2, TermsType, NewOrderType
    <2>4. Unused(o)
      BY <1>8 DEF CloseWholePosition, CanSubmit
    <2> HIDE DEF closing
    <2>5. QED
      BY <2>1, <2>3, <2>4, PlaceOnBook, PlaceUnquotedOnBook
  <1>9. QED
    BY <1>2, <1>3, <1>4, <1>5, <1>6, <1>7, <1>8

LEMMA NextOnBook ==
    ASSUME TypeOK, [Next]_vars
    PROVE  (\E o \in OrderIds : Executed(o) \/ Submitted(o) \/ Cancelled(o)) \/ Kept
  <1>1. CASE \E o \in OrderIds :
               \/ PlaceOrder(o) \/ PlaceOrderWithoutQuote(o) \/ RejectCncSale(o)
               \/ ModifyOrder(o) \/ CancelOrder(o) \/ ProcessOrder(o)
               \/ CloseWholePosition(o)
    BY <1>1, OrderStepOnBook
  <1>2. CASE ResetFunds \/ SessionClock \/ UNCHANGED vars
    BY <1>2 DEF ResetFunds, SessionClock, vars, Kept
  <1>3. QED
    BY <1>1, <1>2 DEF Next

LEMMA BookImplementsStep ==
    ASSUME TypeOK, TypeOK', Untraded, [Next]_vars
    PROVE  Untraded' /\ [Lifecycle!Next]_(Lifecycle!vars)
  <1> DEFINE status == [o \in OrderIds |-> orders[o].status]
  <1>1. orders \in [OrderIds -> Order] /\ trades \in [OrderIds -> Nat]
        /\ orders' \in [OrderIds -> Order]
    BY DEF TypeOK
  <1>2. CASE Kept
    <2>1. Untraded'
      BY <1>2 DEF Kept, Untraded
    <2>2. status' = status /\ trades' = trades
      BY <1>2 DEF Kept
    <2>3. QED
      BY <2>1, <2>2 DEF Lifecycle!vars
  <1>3. ASSUME NEW o \in OrderIds, Executed(o)
        PROVE  Untraded' /\ Lifecycle!Fill(o)
    <2>1. trades[o] = 0
      BY <1>3 DEF Executed, Untraded
    <2>2. orders' = [orders EXCEPT ![o] = ClosedOrder("complete")]
          /\ trades' = [trades EXCEPT ![o] = 1]
      BY <1>1, <1>3, <2>1 DEF Executed
    <2>3. Untraded'
      BY <1>1, <2>2, ClosedStatus DEF Untraded
    <2>4. status' = [status EXCEPT ![o] = "complete"]
      BY <1>1, <2>2, ClosedStatus
    <2>5. status[o] = "open" \/ status[o] = "absent"
      BY <1>3 DEF Executed
    <2>6. QED
      BY <2>2, <2>3, <2>4, <2>5 DEF Lifecycle!Fill, Lifecycle!Move
  <1>4. ASSUME NEW o \in OrderIds, Submitted(o)
        PROVE  Untraded' /\ Lifecycle!Submit(o)
    <2>1. PICK order \in Order :
            /\ order.status \in {"open", "rejected"}
            /\ orders' = [orders EXCEPT ![o] = order]
      BY <1>4 DEF Submitted
    <2>2. status[o] = "absent" /\ trades' = trades
      BY <1>4 DEF Submitted
    <2>3. Untraded'
      BY <1>1, <2>1, <2>2 DEF Untraded
    <2>4. status' = [status EXCEPT ![o] = order.status]
      BY <1>1, <2>1
    <2>5. QED
      BY <2>1, <2>2, <2>3, <2>4 DEF Lifecycle!Submit, Lifecycle!Move
  <1>5. ASSUME NEW o \in OrderIds, Cancelled(o)
        PROVE  Untraded' /\ Lifecycle!Cancel(o)
    <2>1. orders' = [orders EXCEPT ![o] = ClosedOrder("cancelled")]
      BY <1>5 DEF Cancelled
    <2>2. status[o] = "open" /\ trades' = trades
      BY <1>5 DEF Cancelled
    <2>3. Untraded'
      BY <1>1, <2>1, <2>2, ClosedStatus DEF Untraded
    <2>4. status' = [status EXCEPT ![o] = "cancelled"]
      BY <1>1, <2>1, ClosedStatus
    <2>5. QED
      BY <2>2, <2>3, <2>4 DEF Lifecycle!Cancel, Lifecycle!Move
  <1>6. QED
    BY <1>2, <1>3, <1>4, <1>5, NextOnBook DEF Lifecycle!Next

\* An order of the engine is executed at most once, entirely, and never after it
\* was cancelled or rejected: the book refines OrderLifecycle.
THEOREM BookImplementsLifecycle == Spec => ImplementsLifecycle
  <1>1. Init => Untraded /\ Lifecycle!Init
    BY DEF Init, Untraded, AbsentOrder, Lifecycle!Init
  <1>2. TypeOK /\ TypeOK' /\ Untraded /\ [Next]_vars
          => Untraded' /\ [Lifecycle!Next]_(Lifecycle!vars)
    BY BookImplementsStep
  <1>3. QED
    BY <1>1, <1>2, TypeCorrect, PTL DEF Spec, ImplementsLifecycle, Lifecycle!Spec

-----------------------------------------------------------------------------
(***************************************************************************)
(* Action properties of the funds.                                         *)
(***************************************************************************)

\* After a fill the funds block exactly the margin of the open position: what
\* other orders had blocked, too, has gone back to the available balance.
THEOREM FillsReconcile == Spec => FillReconciles
  <1>1. ASSUME NEW o \in OrderIds, NEW order, NEW price, NEW f,
               Execute(o, order, price, f)
        PROVE  funds'.used = CountedMargin(position')
    <2> DEFINE g == IF Net(position, order, price).called
                      THEN ReleaseMargin(f, Net(position, order, price).release,
                                            Net(position, order, price).pnl)
                      ELSE f
    <2>1. funds' = ReconcileMargin(g, CountedMargin(position'))
      BY <1>1 DEF Execute, FundsAfterFill
    <2> HIDE DEF g
    <2>2. QED
      BY <2>1 DEF ReconcileMargin
  <1>2. ASSUME NEW o \in OrderIds, NEW order, NEW prices, Place(o, order, prices),
               trades' # trades
        PROVE  funds'.used = CountedMargin(position')
    BY <1>1, <1>2 DEF Place
  <1>3. ASSUME NEW o \in OrderIds, trades' # trades,
               \/ PlaceOrder(o) \/ PlaceOrderWithoutQuote(o) \/ RejectCncSale(o)
               \/ ModifyOrder(o) \/ CancelOrder(o) \/ ProcessOrder(o)
               \/ CloseWholePosition(o)
        PROVE  funds'.used = CountedMargin(position')
    <2>1. CASE PlaceOrder(o)
      BY <1>2, <1>3, <2>1 DEF PlaceOrder
    <2>2. CASE CloseWholePosition(o)
      BY <1>2, <1>3, <2>2 DEF CloseWholePosition, PlaceUnquoted
    <2>3. CASE ProcessOrder(o)
      BY <1>1, <2>3 DEF ProcessOrder
    <2>4. CASE PlaceOrderWithoutQuote(o) \/ RejectCncSale(o) \/ ModifyOrder(o)
                 \/ CancelOrder(o)
      BY <1>3, <2>4 DEF PlaceOrderWithoutQuote, PlaceUnquoted, RejectCncSale,
                        ModifyOrder, CancelOrder
    <2>5. QED
      BY <1>3, <2>1, <2>2, <2>3, <2>4
  <1>4. [Next]_vars => [trades' # trades => funds'.used = CountedMargin(position')]_vars
    BY <1>3 DEF Next, ResetFunds, SessionClock, vars
  <1>5. QED
    BY <1>4, PTL DEF Spec, FillReconciles

\* A new order that waits in the book never leaves the available balance below
\* zero, however low the balance was when it was placed.
THEOREM PlacingKeepsBalance == Spec => PlacingNeverOverdraws
  <1> DEFINE BalanceKept == trades' = trades /\ funds'.available < funds.available
                         => funds'.available >= 0
  <1>1. ASSUME TypeOK, NEW order, BlockedBy(order) \in Nat, Acceptable(order),
               funds' = BlockMargin(funds, BlockedBy(order))
        PROVE  BalanceKept
    <2>1. funds.available \in Int /\ funds.used \in Int
      BY <1>1 DEF TypeOK, Funds
    <2>2. funds'.available = funds.available - BlockedBy(order)
      BY <1>1 DEF TypeOK, Funds, BlockMargin
    <2>3. BlockedBy(order) > 0 => funds.available >= BlockedBy(order)
      BY <1>1 DEF Acceptable, CanBlock
    <2> HIDE DEF BalanceKept
    <2>4. QED
      BY <1>1, <2>1, <2>2, <2>3 DEF BalanceKept
  <1>2. ASSUME TypeOK, NEW o \in OrderIds, NEW order, BlockedBy(order) \in Nat,
               NEW prices, Place(o, order, prices)
        PROVE  BalanceKept
    <2>1. CASE funds' = BlockMargin(funds, BlockedBy(order))
      BY <1>1, <1>2, <2>1 DEF Place
    <2>2. CASE \E p, f : Execute(o, order, p, f)
      <3>1. trades \in [OrderIds -> Nat] /\ trades' = [trades EXCEPT ![o] = @ + 1]
        BY <1>2, <2>2 DEF TypeOK, Execute
      <3>2. trades'[o] # trades[o]
        BY <3>1
      <3>3. QED
        BY <3>2
    <2>3. QED
      BY <1>2, <2>1, <2>2 DEF Place
  <1>3. ASSUME TypeOK, NEW o \in OrderIds, NEW order, BlockedBy(order) \in Nat,
               PlaceUnquoted(o, order)
        PROVE  BalanceKept
    BY <1>1, <1>3 DEF PlaceUnquoted
  <1>4. ASSUME TypeOK, NEW o \in OrderIds, PlaceOrder(o)
        PROVE  BalanceKept
    <2>1. PICK action \in Actions, quantity \in Quantities, t \in Terms, ltp \in Prices :
            LET order == NewOrder(action, quantity, t, ltp)
            IN  \E prices \in ImmediateFills(order, ltp) : Place(o, order, prices)
      BY <1>4 DEF PlaceOrder
    <2>2. BlockedBy(NewOrder(action, quantity, t, ltp)) \in Nat
      BY <1>4, QuantityNat, TermsType, NewOrderType DEF TypeOK
    <2>3. QED
      BY <1>2, <1>4, <2>1, <2>2
  <1>5. ASSUME TypeOK, NEW o \in OrderIds, PlaceOrderWithoutQuote(o)
        PROVE  BalanceKept
    <2>1. PICK action \in Actions, quantity \in Quantities, t \in Terms, last \in Prices :
            PlaceUnquoted(o, NewOrder(action, quantity, t, last))
      BY <1>5 DEF PlaceOrderWithoutQuote
    <2>2. BlockedBy(NewOrder(action, quantity, t, last)) \in Nat
      BY <1>5, QuantityNat, TermsType, NewOrderType DEF TypeOK
    <2>3. QED
      BY <1>3, <1>5, <2>1, <2>2
  <1>6. ASSUME TypeOK, NEW o \in OrderIds, CloseWholePosition(o)
        PROVE  BalanceKept
    <2> DEFINE action == IF position.quantity > 0 THEN "SELL" ELSE "BUY"
               closing(last) == NewOrder(action, Abs(position.quantity), AtMarket, last)
    <2>1. PICK last \in Prices :
            \/ \E prices \in ImmediateFills(closing(last), last) :
                  Place(o, closing(last), prices)
            \/ PlaceUnquoted(o, closing(last))
      BY <1>6 DEF CloseWholePosition
    <2>2. position \in Position /\ Abs(position.quantity) \in Nat /\ action \in Actions
      BY <1>6, AbsNat DEF TypeOK, Position, Actions
    <2>3. BlockedBy(closing(last)) \in Nat
      <3> HIDE DEF action
      <3>1. QED
        BY <2>2, TermsType, NewOrderType
    <2> HIDE DEF closing
    <2>4. QED
      BY <1>2, <1>3, <1>6, <2>1, <2>3
  <1>7. ASSUME TypeOK, NEW o \in OrderIds, CancelOrder(o)
        PROVE  BalanceKept
    <2>1. PICK amount \in CancelReleases(orders[o]) :
            funds' = ReleaseMargin(funds, amount, 0)
      BY <1>7 DEF CancelOrder
    <2>2. amount \in Nat
      BY <1>7, CancelReleasesNat DEF TypeOK
    <2>3. funds.available \in Int
      BY <1>7 DEF TypeOK, Funds
    <2>4. funds'.available = funds.available + amount + 0
      BY <2>1 DEF ReleaseMargin
    <2>5. QED
      BY <2>2, <2>3, <2>4
  <1>8. ASSUME TypeOK, NEW o \in OrderIds, ProcessOrder(o)
        PROVE  BalanceKept
    <2>1. trades \in [OrderIds -> Nat] /\ trades' = [trades EXCEPT ![o] = @ + 1]
      BY <1>8 DEF TypeOK, ProcessOrder, Execute
    <2>2. trades'[o] # trades[o]
      BY <2>1
    <2>3. QED
      BY <2>2
  <1>9. ASSUME TypeOK, UNCHANGED funds
        PROVE  BalanceKept
    <2>1. funds.available \in Int
      BY <1>9 DEF TypeOK, Funds
    <2>2. QED
      BY <1>9, <2>1
  <1>10. ASSUME TypeOK, ResetFunds
         PROVE  BalanceKept
    BY <1>10, StartingCapitalAssumption DEF ResetFunds, InitialFunds
  <1>11. TypeOK /\ [Next]_vars => [BalanceKept]_vars
    <2> HIDE DEF BalanceKept
    <2> SUFFICES ASSUME TypeOK, Next PROVE BalanceKept
      OBVIOUS
    <2>1. ASSUME NEW o \in OrderIds, RejectCncSale(o) \/ ModifyOrder(o)
          PROVE  BalanceKept
      BY <1>9, <2>1 DEF RejectCncSale, ModifyOrder
    <2>2. CASE SessionClock
      BY <1>9, <2>2 DEF SessionClock
    <2>3. QED
      BY <1>4, <1>5, <1>6, <1>7, <1>8, <1>10, <2>1, <2>2 DEF Next
  <1>12. QED
    BY <1>11, TypeCorrect, PTL DEF Spec, PlacingNeverOverdraws
-----------------------------------------------------------------------------
(***************************************************************************)
(* Rounding.  What a fill does to the identity between realised P&L, cash   *)
(* of the trades and quantity at the average: four branches keep it to the *)
(* unit, the fifth loses what the division of the average drops.           *)
(***************************************************************************)

\* The fill moves no unit between the P&L and the cash.
KeepsResidue(net, pos, order, price) ==
    \A cash \in Int :
        Residue(net.position, cash - Signed(order) * price) = Residue(pos, cash)

\* The fill averages: it loses less than a unit per share, and nothing when the
\* cost of the shares divides by their number.
AveragesIn(net, pos, order, price) ==
    \A cash \in Int :
        LET kept == Residue(net.position, cash - Signed(order) * price)
                        - Residue(pos, cash)
            shares == Abs(pos.quantity) + order.quantity
        IN  /\ Abs(net.position.quantity) = shares
            /\ Abs(kept) < shares
            /\ (pos.quantity * pos.average + Signed(order) * price)
                    % shares = 0 => kept = 0

\* Quotient and remainder are the only ones.
LEMMA RemainderUnique ==
    ASSUME NEW a \in Int, NEW b \in Int, b > 0, NEW y \in Int, NEW r \in Int,
           a = b * y + r, 0 <= r, r < b
    PROVE  a % b = r
  <1> DEFINE x == a \div b
             t == a % b
             k == y - x
  <1>1. x \in Int /\ t \in Int /\ a = b * x + t /\ 0 <= t /\ t < b
    BY Division
  <1> HIDE DEF x, t
  <1>2. k \in Int /\ b * y = b * x + b * k
    BY <1>1
  <1>3. b * k \in Int /\ t - r = b * k
    BY <1>1, <1>2
  <1> HIDE DEF k
  <1>4. CASE k >= 1
    <2>1. b * k >= b
      BY <1>2, <1>4
    <2>2. QED
      BY <1>1, <1>3, <2>1
  <1>5. CASE k <= -1
    <2>1. b * k <= -b
      BY <1>2, <1>5
    <2>2. QED
      BY <1>1, <1>3, <2>1
  <1>6. CASE k = 0
    <2>1. b * k = 0
      BY <1>6
    <2>2. t = r
      BY <1>1, <1>3, <2>1
    <2>3. QED
      BY <2>2 DEF t
  <1>7. QED
    BY <1>2, <1>4, <1>5, <1>6

\* Divisibility does not see the sign.
LEMMA DividesNegated ==
    ASSUME NEW a \in Int, NEW b \in Int, b > 0, (-a) % b = 0
    PROVE  a % b = 0
  <1> DEFINE x == (-a) \div b
  <1>1. x \in Int /\ -a = b * x + 0
    BY Division
  <1> HIDE DEF x
  <1>2. a = b * (-x) + 0
    BY <1>1
  <1>3. QED
    BY <1>1, <1>2, RemainderUnique

\* The columns of a position row and of an order that netting computes with.
LEMMA RowColumns ==
    ASSUME NEW pos \in Position, NEW order \in Order
    PROVE  /\ pos.quantity \in Int /\ pos.average \in Int /\ pos.margin \in Int
           /\ pos.accumulated \in Int /\ order.quantity \in Nat
           /\ order.action \in {"BUY", "SELL"} /\ Signed(order) \in Int
           /\ Signed(order) = IF order.action = "BUY" THEN order.quantity
                                                      ELSE -order.quantity
  BY DEF Position, Order, Actions, Signed

LEMMA OpenKeepsResidue ==
    ASSUME NEW pos \in Position, NEW order \in Order, NEW price \in Int,
           pos.quantity = 0
    PROVE  KeepsResidue(OpenPosition(pos, order, price), pos, order, price)
  <1> DEFINE net == OpenPosition(pos, order, price)
  <1>1. /\ net.position.quantity = Signed(order)
        /\ net.position.average = price
        /\ net.position.accumulated = pos.accumulated
    BY DEF OpenPosition, NothingReleased, Position
  <1> HIDE DEF net
  <1>2. ASSUME NEW cash \in Int
        PROVE  Residue(net.position, cash - Signed(order) * price)
                 = Residue(pos, cash)
    <2> DEFINE s == Signed(order)
    <2>1. s \in Int /\ pos.accumulated \in Int /\ pos.average \in Int
      BY RowColumns
    <2> HIDE DEF s
    <2>2. pos.accumulated - ((cash - s * price) + s * price)
            = pos.accumulated - (cash + 0 * pos.average)
      BY <2>1
    <2>3. QED
      BY <1>1, <2>2 DEF Residue, s
  <1>3. QED
    BY <1>2 DEF KeepsResidue, net

LEMMA CloseKeepsResidue ==
    ASSUME NEW pos \in Position, NEW order \in Order, NEW price \in Int,
           pos.quantity # 0, ~SameDirection(pos, order),
           order.quantity = Abs(pos.quantity)
    PROVE  KeepsResidue(ClosePosition(pos, order, price), pos, order, price)
  <1> DEFINE net == ClosePosition(pos, order, price)
             q == pos.quantity
             a == pos.average
             pnl == RealizedPnl(q, a, order.quantity, price)
  <1>1. /\ q \in Int /\ a \in Int /\ pos.accumulated \in Int
        /\ Signed(order) = -q
    BY RowColumns DEF SameDirection, Abs
  <1>2. /\ net.position.quantity = 0
        /\ net.position.average = a
        /\ net.position.accumulated = pos.accumulated + pnl
    BY DEF ClosePosition, Position
  <1>3. pnl = (price - a) * q
    <2>1. CASE q > 0
      BY <1>1, <2>1 DEF RealizedPnl, Abs
    <2>2. CASE ~(q > 0)
      <3>1. pnl = (a - price) * (-q)
        BY <1>1, <2>2 DEF RealizedPnl, Abs
      <3> HIDE DEF pnl, q, a
      <3>2. QED
        BY <1>1, <3>1
    <2>3. QED
      BY <2>1, <2>2
  <1> HIDE DEF net, pnl
  <1>4. ASSUME NEW cash \in Int
        PROVE  Residue(net.position, cash - Signed(order) * price)
                 = Residue(pos, cash)
    <2>1. (pos.accumulated + pnl) - ((cash - (-q) * price) + 0 * a)
            = pos.accumulated - (cash + q * a)
      <3> HIDE DEF q, a
      <3>1. (-q) * price = -(q * price) /\ 0 * a = 0
        BY <1>1
      <3>2. pnl = q * price - q * a
        BY <1>1, <1>3
      <3>3. q * price \in Int /\ q * a \in Int
        BY <1>1
      <3>4. QED
        BY <1>1, <3>1, <3>2, <3>3
    <2>2. QED
      BY <1>1, <1>2, <2>1 DEF Residue
  <1>5. QED
    BY <1>4 DEF KeepsResidue, net

LEMMA ReduceKeepsResidue ==
    ASSUME NEW pos \in Position, NEW order \in Order, NEW price \in Int,
           pos.quantity # 0, ~SameDirection(pos, order)
    PROVE  KeepsResidue(ReducePosition(pos, order, price), pos, order, price)
  <1> DEFINE net == ReducePosition(pos, order, price)
             q == pos.quantity
             a == pos.average
             n == order.quantity
             s == Signed(order)
             pnl == RealizedPnl(q, a, n, price)
  <1>1. /\ q \in Int /\ a \in Int /\ pos.accumulated \in Int
        /\ n \in Int /\ s \in Int
        /\ s = IF q > 0 THEN -n ELSE n
    BY RowColumns DEF SameDirection
  <1>2. /\ net.position.quantity = q + s
        /\ net.position.average = a
        /\ net.position.accumulated = pos.accumulated + pnl
    BY DEF ReducePosition, Position
  <1>3. pnl = (a - price) * s
    <2>1. CASE q > 0
      <3>1. pnl = (price - a) * n /\ s = -n
        BY <1>1, <2>1 DEF RealizedPnl
      <3> HIDE DEF pnl, n, a, s
      <3>2. QED
        BY <1>1, <3>1
    <2>2. CASE ~(q > 0)
      BY <1>1, <2>2 DEF RealizedPnl
    <2>3. QED
      BY <2>1, <2>2
  <1> HIDE DEF net, pnl
  <1>4. ASSUME NEW cash \in Int
        PROVE  Residue(net.position, cash - Signed(order) * price)
                 = Residue(pos, cash)
    <2>1. (pos.accumulated + pnl) - ((cash - s * price) + (q + s) * a)
            = pos.accumulated - (cash + q * a)
      <3> HIDE DEF q, a, n, s
      <3>1. (q + s) * a = q * a + s * a
        BY <1>1
      <3>2. pnl = s * a - s * price
        BY <1>1, <1>3
      <3>3. q * a \in Int /\ s * a \in Int /\ s * price \in Int
        BY <1>1
      <3>4. QED
        BY <1>1, <3>1, <3>2, <3>3
    <2>2. QED
      BY <1>2, <2>1 DEF Residue
  <1>5. QED
    BY <1>4 DEF KeepsResidue, net

LEMMA ReverseKeepsResidue ==
    ASSUME NEW pos \in Position, NEW order \in Order, NEW price \in Int,
           pos.quantity # 0, ~SameDirection(pos, order),
           order.quantity > Abs(pos.quantity)
    PROVE  KeepsResidue(ReversePosition(pos, order, price), pos, order, price)
  <1> DEFINE net == ReversePosition(pos, order, price)
             q == pos.quantity
             a == pos.average
             s == Signed(order)
             pnl == RealizedPnl(q, a, Abs(q), price)
  <1>1. /\ q \in Int /\ a \in Int /\ pos.accumulated \in Int /\ s \in Int
    BY RowColumns
  <1>2. /\ net.position.quantity = q + s
        /\ net.position.average = price
        /\ net.position.accumulated = pos.accumulated + pnl
    <2>1. net.position.quantity = IF order.action = "BUY"
                                    THEN order.quantity - Abs(q)
                                    ELSE -(order.quantity - Abs(q))
      BY DEF ReversePosition, Position
    <2>2. net.position.quantity = q + s
      BY <2>1, RowColumns DEF SameDirection, Abs
    <2>3. QED
      BY <2>2 DEF ReversePosition, Position
  <1>3. pnl = (price - a) * q
    <2>1. CASE q > 0
      BY <1>1, <2>1 DEF RealizedPnl, Abs
    <2>2. CASE ~(q > 0)
      <3>1. pnl = (a - price) * (-q)
        BY <1>1, <2>2 DEF RealizedPnl, Abs
      <3> HIDE DEF pnl, q, a
      <3>2. QED
        BY <1>1, <3>1
    <2>3. QED
      BY <2>1, <2>2
  <1> HIDE DEF net, pnl
  <1>4. ASSUME NEW cash \in Int
        PROVE  Residue(net.position, cash - Signed(order) * price)
                 = Residue(pos, cash)
    <2>1. (pos.accumulated + pnl) - ((cash - s * price) + (q + s) * price)
            = pos.accumulated - (cash + q * a)
      <3> HIDE DEF q, a, s
      <3>1. (q + s) * price = q * price + s * price
        BY <1>1
      <3>2. pnl = q * price - q * a
        BY <1>1, <1>3
      <3>3. /\ q * price \in Int /\ s * price \in Int /\ q * a \in Int
        BY <1>1
      <3>4. QED
        BY <1>1, <3>1, <3>2, <3>3
    <2>2. QED
      BY <1>2, <2>1 DEF Residue
  <1>5. QED
    BY <1>4 DEF KeepsResidue, net

\* The residue of an average: what the division drops, for a long position with
\* one sign, for a short one with the other.
LEMMA AddAverages ==
    ASSUME NEW pos \in Position, NEW order \in Order, NEW price \in Int,
           pos.quantity # 0, SameDirection(pos, order)
    PROVE  AveragesIn(AddToPosition(pos, order, price), pos, order, price)
  <1> DEFINE net == AddToPosition(pos, order, price)
             q == pos.quantity
             a == pos.average
             n == order.quantity
             s == Signed(order)
             held == Abs(q)
             total == held * a + n * price
             shares == held + n
             average == total \div shares
             dropped == total % shares
  <1>1. /\ q \in Int /\ a \in Int /\ pos.accumulated \in Int
        /\ n \in Int /\ n >= 0 /\ s \in Int
    BY RowColumns
  <1>2. held \in Int /\ held > 0
    BY <1>1 DEF Abs
  <1>3. total \in Int /\ shares \in Int /\ shares > 0
    BY <1>1, <1>2
  <1>4. /\ average \in Int /\ dropped \in Int
        /\ total = shares * average + dropped
        /\ 0 <= dropped /\ dropped < shares
    <2> HIDE DEF total, shares
    <2>1. QED
      BY <1>3, Division
  <1>5. /\ net.position.quantity = q + s
        /\ net.position.average = average
        /\ net.position.accumulated = pos.accumulated
    BY DEF AddToPosition, NothingReleased, Position
  <1>6. \/ q = held /\ s = n
        \/ q = -held /\ s = -n
    BY RowColumns DEF SameDirection, Abs
  <1>7. Abs(q + s) = shares
    <2> HIDE DEF q, s, n, held
    <2>1. QED
      BY <1>1, <1>2, <1>6 DEF Abs
  <1> HIDE DEF net
  <1>8. ASSUME NEW cash \in Int
        PROVE  LET kept == Residue(net.position, cash - s * price)
                             - Residue(pos, cash)
               IN  kept = dropped \/ kept = -dropped
    <2> DEFINE kept == (pos.accumulated - ((cash - s * price) + (q + s) * average))
                         - (pos.accumulated - (cash + q * a))
    <2>1. kept = dropped \/ kept = -dropped
      <3> HIDE DEF average, dropped, q, a, n, s, held
      <3>0. /\ (q + s) * average = q * average + s * average
            /\ q * average \in Int /\ s * average \in Int
            /\ s * price \in Int /\ q * a \in Int
        BY <1>1, <1>4
      <3>1. kept = (q * a + s * price) - (q * average + s * average)
        BY <1>1, <3>0
      <3>2. (held + n) * average = held * average + n * average
        BY <1>1, <1>2, <1>4
      <3>3. CASE q = held /\ s = n
        BY <1>1, <1>2, <1>4, <3>1, <3>2, <3>3
      <3>4. CASE q = -held /\ s = -n
        <4>1. /\ q * a = -(held * a) /\ s * price = -(n * price)
              /\ q * average = -(held * average) /\ s * average = -(n * average)
              /\ held * a \in Int /\ n * price \in Int
              /\ held * average \in Int /\ n * average \in Int
          BY <1>1, <1>2, <1>4, <3>4
        <4>2. QED
          BY <1>4, <3>1, <3>2, <4>1
      <3>5. QED
        BY <1>6, <3>3, <3>4
    <2>2. QED
      BY <1>5, <2>1 DEF Residue
  <1>9. ASSUME NEW cash \in Int
        PROVE  LET kept == Residue(net.position, cash - s * price)
                             - Residue(pos, cash)
               IN  /\ Abs(net.position.quantity) = shares
                   /\ Abs(kept) < shares
                   /\ (q * a + s * price) % shares = 0 => kept = 0
    <2> DEFINE kept == Residue(net.position, cash - s * price) - Residue(pos, cash)
    <2>1. kept = dropped \/ kept = -dropped
      BY <1>8
    <2>2. Abs(kept) < shares /\ (dropped = 0 => kept = 0)
      <3> HIDE DEF kept, dropped, shares
      <3>1. QED
        BY <1>3, <1>4, <2>1 DEF Abs
    <2>3. q * a + s * price = total \/ q * a + s * price = -total
      <3> HIDE DEF q, a, n, s, held
      <3>1. QED
        BY <1>1, <1>2, <1>6
    <2>4. (q * a + s * price) % shares = 0 => dropped = 0
      <3> DEFINE cost == q * a + s * price
      <3>1. total \in Int /\ shares \in Int /\ shares > 0
            /\ (cost = total \/ cost = -total)
        BY <1>3, <2>3
      <3> HIDE DEF cost, total, shares
      <3>2. cost % shares = 0 => total % shares = 0
        BY <3>1, DividesNegated
      <3>3. QED
        BY <3>2 DEF cost
    <2> HIDE DEF kept, dropped, shares
    <2>5. QED
      BY <1>5, <1>7, <2>2, <2>4 DEF kept
  <1>10. QED
    BY <1>9 DEF AveragesIn, net

\* Every branch of netting: nothing is rounded, or the position grows.
LEMMA NetRounds ==
    ASSUME NEW pos \in Position, NEW order \in Order, NEW price \in Int
    PROVE  \/ KeepsResidue(Net(pos, order, price), pos, order, price)
           \/ /\ pos.quantity # 0 /\ SameDirection(pos, order)
              /\ AveragesIn(Net(pos, order, price), pos, order, price)
  <1>1. pos.quantity \in Int /\ order.quantity \in Nat /\ Abs(pos.quantity) \in Nat
    BY AbsNat DEF Position, Order
  <1>2. CASE pos.quantity = 0
    BY <1>2, OpenKeepsResidue DEF Net
  <1>3. CASE pos.quantity # 0 /\ SameDirection(pos, order)
    BY <1>3, AddAverages DEF Net
  <1>4. CASE pos.quantity # 0 /\ ~SameDirection(pos, order)
    <2>1. CASE order.quantity = Abs(pos.quantity)
      BY <1>1, <1>4, <2>1, CloseKeepsResidue DEF Net
    <2>2. CASE order.quantity < Abs(pos.quantity)
      BY <1>1, <1>4, <2>2, ReduceKeepsResidue DEF Net
    <2>3. CASE order.quantity > Abs(pos.quantity)
      BY <1>1, <1>4, <2>3, ReverseKeepsResidue DEF Net
    <2>4. QED
      BY <1>1, <2>1, <2>2, <2>3
  <1>5. QED
    BY <1>2, <1>3, <1>4

\* The cost of all the shares of a position that grew divides by their number.
CostDivides ==
    (position.quantity * position.average + (traded.cash - traded'.cash))
        % Abs(position'.quantity) = 0

AveragesDivide == [][Grows => CostDivides]_vars

\* What a step does to the drift.
Rounds ==
    \/ Drift' = Drift
    \/ position' = NoPosition /\ Drift' = 0
    \/ /\ Grows
       /\ Abs(Drift' - Drift) < Abs(position'.quantity)
       /\ CostDivides => Drift' = Drift

\* A step fills one order, resets the account, or leaves position and trades.
LEMMA StepFills ==
    ASSUME TypeOK, [Next]_vars
    PROVE  \/ \E o \in OrderIds, order \in Order, price \in Int :
                 \E f \in Funds : f.realized = funds.realized /\ Execute(o, order, price, f)
           \/ ResetFunds
           \/ UNCHANGED <<position, traded, funds.realized>>
  <1> DEFINE Fills == \E o \in OrderIds, order \in Order, price \in Int :
                         \E f \in Funds : /\ f.realized = funds.realized
                                           /\ Execute(o, order, price, f)
             Keeps == UNCHANGED <<position, traded, funds.realized>>
  <1>1. position \in Position /\ orders \in [OrderIds -> Order] /\ funds \in Funds
    BY DEF TypeOK
  <1>0. ASSUME NEW order \in Order
        PROVE  /\ BlockMargin(funds, BlockedBy(order)) \in Funds
               /\ BlockMargin(funds, BlockedBy(order)).realized = funds.realized
    <2>1. BlockedBy(order) \in Int
      BY DEF Order, BlockedBy
    <2>2. QED
      BY <1>1, <2>1, BlockMarginBalanced DEF BlockMargin, Funds
  <1>2. ASSUME NEW o \in OrderIds, NEW order \in Order, NEW prices,
               \A p \in prices : p \in Int, Place(o, order, prices)
        PROVE  Fills \/ Keeps
    BY <1>0, <1>2 DEF Place
  <1>3. ASSUME NEW o \in OrderIds, PlaceOrder(o)
        PROVE  Fills \/ Keeps
    <2>1. PICK action \in Actions, quantity \in Quantities, t \in Terms, ltp \in Prices :
            LET order == NewOrder(action, quantity, t, ltp)
            IN  \E prices \in ImmediateFills(order, ltp) : Place(o, order, prices)
      BY <1>3 DEF PlaceOrder
    <2> DEFINE order == NewOrder(action, quantity, t, ltp)
    <2>2. order \in Order
      BY <1>1, QuantityNat, TermsType, NewOrderType
    <2>3. PICK prices \in ImmediateFills(order, ltp) : Place(o, order, prices)
      BY <2>1
    <2> HIDE DEF order, Fills, Keeps
    <2>4. \A p \in prices : p \in Int
      BY <2>2, ImmediateFillsInt
    <2>5. QED
      BY <1>2, <2>2, <2>3, <2>4
  <1>4. ASSUME NEW o \in OrderIds, CloseWholePosition(o)
        PROVE  Fills \/ Keeps
    <2> DEFINE action == IF position.quantity > 0 THEN "SELL" ELSE "BUY"
               closing(last) == NewOrder(action, Abs(position.quantity), AtMarket, last)
    <2>1. PICK last \in Prices :
            \/ \E prices \in ImmediateFills(closing(last), last) :
                  Place(o, closing(last), prices)
            \/ PlaceUnquoted(o, closing(last))
      BY <1>4 DEF CloseWholePosition
    <2>2. Abs(position.quantity) \in Nat /\ action \in Actions
      BY <1>1, AbsNat DEF Position, Actions
    <2>3. closing(last) \in Order
      <3> HIDE DEF action
      <3>1. QED
        BY <1>1, <2>2, TermsType, NewOrderType
    <2> HIDE DEF closing
    <2>4. CASE PlaceUnquoted(o, closing(last))
      BY <1>0, <2>3, <2>4 DEF PlaceUnquoted
    <2> HIDE DEF Fills, Keeps
    <2>5. CASE \E prices \in ImmediateFills(closing(last), last) :
                  Place(o, closing(last), prices)
      BY <1>2, <2>3, <2>5, ImmediateFillsInt
    <2>6. QED
      BY <2>1, <2>4, <2>5
  <1>5. ASSUME NEW o \in OrderIds, ProcessOrder(o)
        PROVE  Fills
    <2>1. orders[o] \in Order
      BY <1>1
    <2>2. PICK p \in UNION {BookFillPrices(orders[o], q) : q \in Quote} :
            Execute(o, orders[o], p, funds)
      BY <1>5 DEF ProcessOrder
    <2>3. p \in Int
      BY <2>1, <2>2, BookFillPricesInt
    <2>4. QED
      BY <1>1, <2>1, <2>2, <2>3
  <1>6. ASSUME NEW o \in OrderIds,
               \/ PlaceOrderWithoutQuote(o) \/ RejectCncSale(o)
               \/ ModifyOrder(o) \/ CancelOrder(o)
        PROVE  Keeps
    <2>1. CASE PlaceOrderWithoutQuote(o)
      <3>1. PICK action \in Actions, quantity \in Quantities, t \in Terms, last \in Prices :
              PlaceUnquoted(o, NewOrder(action, quantity, t, last))
        BY <2>1 DEF PlaceOrderWithoutQuote
      <3>2. NewOrder(action, quantity, t, last) \in Order
        BY <1>1, QuantityNat, TermsType, NewOrderType
      <3>3. QED
        BY <1>0, <3>1, <3>2 DEF PlaceUnquoted
    <2>2. CASE CancelOrder(o)
      <3>1. PICK amount \in CancelReleases(orders[o]) : funds' = ReleaseMargin(funds, amount, 0)
        BY <2>2 DEF CancelOrder
      <3>2. funds'.realized = funds.realized
        BY <1>1, <3>1 DEF ReleaseMargin, Funds
      <3>3. QED
        BY <2>2, <3>2 DEF CancelOrder
    <2>3. CASE RejectCncSale(o) \/ ModifyOrder(o)
      BY <2>3 DEF RejectCncSale, ModifyOrder
    <2>4. QED
      BY <1>6, <2>1, <2>2, <2>3
  <1>7. ASSUME SessionClock \/ UNCHANGED vars
        PROVE  Keeps
    BY <1>7 DEF SessionClock, vars
  <1> HIDE DEF Fills, Keeps
  <1>8. ASSUME NEW o \in OrderIds,
               \/ PlaceOrder(o) \/ PlaceOrderWithoutQuote(o) \/ RejectCncSale(o)
               \/ ModifyOrder(o) \/ CancelOrder(o) \/ ProcessOrder(o)
               \/ CloseWholePosition(o)
        PROVE  Fills \/ Keeps
    BY <1>3, <1>4, <1>5, <1>6, <1>8
  <1>9. Fills \/ ResetFunds \/ Keeps
    BY <1>7, <1>8 DEF Next
  <1>10. QED
    BY <1>9 DEF Fills, Keeps

LEMMA FillRounds ==
    ASSUME TypeOK, NEW o \in OrderIds, NEW order \in Order, NEW price \in Int,
           NEW f, Execute(o, order, price, f)
    PROVE  Rounds
  <1> DEFINE net == Net(position, order, price)
             cost == Signed(order) * price
             before == Residue(position, traded.cash)
             after == Residue(net.position, traded.cash - cost)
             shares == Abs(position.quantity) + order.quantity
  <1>1. /\ position \in Position /\ traded.cash \in Int
        /\ position.quantity \in Int /\ position.average \in Int
        /\ order.quantity \in Nat /\ Signed(order) \in Int
    BY RowColumns DEF TypeOK
  <1>2. position' = net.position /\ traded'.cash = traded.cash - cost
    BY DEF Execute
  <1>3. Drift = before /\ Drift' = after
    BY <1>2 DEF Drift
  <1>4. CASE KeepsResidue(net, position, order, price)
    BY <1>1, <1>3, <1>4 DEF KeepsResidue, Rounds
  <1>5. CASE /\ position.quantity # 0 /\ SameDirection(position, order)
             /\ AveragesIn(net, position, order, price)
    <2>1. /\ Abs(net.position.quantity) = shares
          /\ Abs(after - before) < shares
          /\ (position.quantity * position.average + cost) % shares = 0
                => after - before = 0
      BY <1>1, <1>5 DEF AveragesIn
    <2>2. before \in Int /\ after \in Int /\ cost \in Int
      <3>1. net.position \in Position
        BY <1>1, NetAddsQuantity DEF NetsTo
      <3>2. /\ net.position.quantity \in Int /\ net.position.average \in Int
            /\ net.position.accumulated \in Int /\ position.accumulated \in Int
        BY <1>1, <3>1 DEF Position
      <3> HIDE DEF net
      <3>3. cost \in Int /\ traded.cash - cost \in Int
        BY <1>1
      <3>4. QED
        BY <1>1, <3>2, <3>3 DEF Residue
    <2>3. CostDivides => Drift' = Drift
      <3>1. traded.cash - traded'.cash = cost
        <4> HIDE DEF cost
        <4>1. QED
          BY <1>1, <1>2, <2>2
      <3> HIDE DEF before, after, cost, net
      <3>2. QED
        BY <1>2, <1>3, <2>1, <2>2, <3>1 DEF CostDivides
    <2>4. CASE order.quantity > 0
      <3>1. net.position.quantity = position.quantity + Signed(order)
        BY <1>1, NetAddsQuantity DEF NetsTo
      <3>2. Grows
        BY <1>1, <1>2, <1>5, <2>4, <3>1, RowColumns DEF Grows, SameDirection
      <3> HIDE DEF before, after, cost, net
      <3>3. Abs(Drift' - Drift) < Abs(position'.quantity)
        BY <1>2, <1>3, <2>1
      <3>4. QED
        BY <2>3, <3>2, <3>3 DEF Rounds
    <2>5. CASE order.quantity = 0
      <3>1. Signed(order) = 0 /\ cost = 0
        BY <1>1, <2>5, RowColumns
      <3>2. /\ shares \in Int /\ shares > 0
            /\ position.quantity = shares \/ position.quantity = -shares
        BY <1>1, <1>5, <2>5 DEF Abs
      <3>3. (position.quantity * position.average) % shares = 0
        <4> DEFINE q == position.quantity
                   a == position.average
        <4> HIDE DEF shares, q, a
        <4>1. q * a = shares * a + 0 \/ q * a = shares * (-a) + 0
          BY <1>1, <3>2 DEF q, a
        <4>2. q * a \in Int
          BY <1>1 DEF q, a
        <4>3. PICK m \in Int : q * a = shares * m + 0
          <5>1. a \in Int /\ -a \in Int
            BY <1>1 DEF a
          <5>2. QED
            BY <4>1, <5>1
        <4>4. (q * a) % shares = 0
          <5> DEFINE c == q * a
          <5>1. c \in Int /\ c = shares * m + 0
            BY <4>2, <4>3
          <5> HIDE DEF c
          <5>2. c % shares = 0
            BY <3>2, <4>3, <5>1, RemainderUnique
          <5>3. QED
            BY <5>2 DEF c
        <4>5. QED
          BY <4>4 DEF q, a
      <3>4. after - before = 0
        <4> HIDE DEF after, before, shares
        <4>1. QED
          BY <1>1, <2>1, <3>1, <3>3
      <3>5. QED
        <4> HIDE DEF after, before
        <4>1. QED
          BY <1>3, <2>2, <3>4 DEF Rounds
    <2>6. QED
      BY <1>1, <2>4, <2>5
  <1>6. QED
    BY <1>1, <1>4, <1>5, NetRounds

LEMMA NextRounds ==
    ASSUME TypeOK, [Next]_vars
    PROVE  Rounds
  <1>1. CASE UNCHANGED <<position, traded, funds.realized>>
    BY <1>1 DEF Rounds, Drift
  <1>2. CASE ResetFunds
    BY <1>2 DEF ResetFunds, Rounds, Drift, Residue, NoPosition, NothingTraded
  <1>3. QED
    BY <1>1, <1>2, StepFills, FillRounds

\* The division of the average is the only operation of the engine that loses
\* money of the P&L identity, on every path, and less than a unit per share.
THEOREM RoundingBounded == Spec => RoundingIsBounded
  <1>1. TypeOK /\ [Next]_vars
          => [\/ Drift' = Drift
              \/ position' = NoPosition /\ Drift' = 0
              \/ Grows /\ Abs(Drift' - Drift) < Abs(position'.quantity)]_vars
    BY NextRounds DEF Rounds
  <1>2. QED
    BY <1>1, TypeCorrect, PTL DEF Spec, RoundingIsBounded

\* As long as the cost of a growing position divides by its shares, whatever the
\* prices, the P&L that the position says it realised is to the last unit the
\* cash of its trades plus its quantity at the average.
THEOREM RealizedIsCashFlow ==
    Spec /\ AveragesDivide => []RealizedMatchesCashFlow
  <1> DEFINE Exact == Drift = 0
  <1>1. Init => Exact
    BY DEF Init, Drift, Residue, NoPosition, NothingTraded
  <1>2. TypeOK /\ [Next]_vars /\ [Grows => CostDivides]_vars /\ Exact => Exact'
    <2>1. CASE UNCHANGED vars
      BY <2>1 DEF vars, Drift
    <2>2. ASSUME TypeOK, [Next]_vars, Grows => CostDivides, Exact
          PROVE  Exact'
      BY <2>2, NextRounds DEF Rounds
    <2>3. QED
      BY <2>1, <2>2
  <1>3. TypeOK /\ Exact => RealizedMatchesCashFlow
    <2>1. SUFFICES ASSUME TypeOK, Exact PROVE RealizedMatchesCashFlow
      OBVIOUS
    <2> DEFINE q == position.quantity
               a == position.average
    <2>2. /\ q \in Int /\ a \in Int
          /\ position.accumulated \in Int /\ traded.cash \in Int
      BY <2>1 DEF TypeOK, Position
    <2>3. position.accumulated - (traded.cash + q * a) = 0
      BY <2>1 DEF Drift, Residue
    <2> HIDE DEF q, a
    <2>4. q * a \in Int
      BY <2>2
    <2>5. position.accumulated = traded.cash + q * a
      BY <2>2, <2>3, <2>4
    <2>6. QED
      BY <2>5 DEF RealizedMatchesCashFlow, q, a
  <1>4. QED
    <2>1. Spec /\ AveragesDivide => []Exact
      BY <1>1, <1>2, TypeCorrect, PTL DEF Spec, AveragesDivide
    <2>2. QED
      BY <1>3, <2>1, TypeCorrect, PTL

-----------------------------------------------------------------------------
(***************************************************************************)
(* What a position realises and what the funds book.                       *)
(***************************************************************************)

\* A fill hands over what it adds to the P&L of the position; release_margin is
\* called unless that is nothing or the position holds no margin.
HandsOver(net, pos) ==
    /\ net.pnl \in Int
    /\ net.position.accumulated = pos.accumulated + net.pnl
    /\ net.called \/ net.pnl = 0 \/ (pos.quantity # 0 /\ pos.margin = 0)

LEMMA NetHandsOver ==
    ASSUME NEW pos \in Position, NEW order \in Order, NEW price \in Int
    PROVE  HandsOver(Net(pos, order, price), pos)
  <1>1. /\ pos.quantity \in Int /\ pos.average \in Int /\ pos.margin \in Nat
        /\ pos.accumulated \in Int /\ order.quantity \in Int /\ order.quantity >= 0
        /\ Abs(pos.quantity) \in Int /\ Abs(pos.quantity) >= 0
    BY RowColumns, AbsNat DEF Position
  <1>2. ASSUME NEW new, new.accumulated = pos.accumulated
        PROVE  HandsOver(NothingReleased(new), pos)
    BY <1>1, <1>2 DEF HandsOver, NothingReleased
  <1>3. ASSUME NEW pnl \in Int, NEW net, pos.quantity # 0,
               net.pnl = pnl, net.called = (pos.margin > 0),
               net.position.accumulated = pos.accumulated + pnl
        PROVE  HandsOver(net, pos)
    <2>1. pos.margin > 0 \/ pos.margin = 0
      BY <1>1
    <2>2. QED
      BY <1>3, <2>1, Zenon DEF HandsOver
  <1>4. CASE pos.quantity = 0
    <2> DEFINE new == [pos EXCEPT !.row = TRUE, !.quantity = Signed(order),
                                  !.average = price, !.margin = order.margin]
    <2>1. new.accumulated = pos.accumulated
      BY DEF Position
    <2>2. Net(pos, order, price) = NothingReleased(new)
      BY <1>4 DEF Net, OpenPosition
    <2> HIDE DEF new
    <2>3. QED
      BY <1>2, <2>1, <2>2
  <1>5. CASE pos.quantity # 0 /\ SameDirection(pos, order)
    <2> DEFINE average == (Abs(pos.quantity) * pos.average + order.quantity * price)
                             \div (Abs(pos.quantity) + order.quantity)
               new == [pos EXCEPT !.quantity = pos.quantity + Signed(order),
                                  !.average = average,
                                  !.margin = pos.margin + order.margin]
    <2>1. new.accumulated = pos.accumulated
      <3> HIDE DEF average
      <3>1. QED
        BY DEF Position
    <2>2. Net(pos, order, price) = AddToPosition(pos, order, price)
      BY <1>5 DEF Net
    <2>3. AddToPosition(pos, order, price) = NothingReleased(new)
      BY DEF AddToPosition
    <2> HIDE DEF new
    <2>4. QED
      BY <1>2, <2>1, <2>2, <2>3
  <1>6. CASE pos.quantity # 0 /\ ~SameDirection(pos, order)
    <2>1. CASE order.quantity = Abs(pos.quantity)
      <3> DEFINE pnl == RealizedPnl(pos.quantity, pos.average, order.quantity, price)
                 net == ClosePosition(pos, order, price)
      <3>1. pnl \in Int
        BY <1>1, RealizedPnlType
      <3>2. /\ net.pnl = pnl /\ net.called = (pos.margin > 0)
            /\ net.position.accumulated = pos.accumulated + pnl
        BY DEF ClosePosition, Position
      <3>3. Net(pos, order, price) = net
        BY <1>1, <1>6, <2>1 DEF Net
      <3> HIDE DEF pnl, net
      <3>4. QED
        BY <1>3, <1>6, <3>1, <3>2, <3>3
    <2>2. CASE order.quantity < Abs(pos.quantity)
      <3> DEFINE pnl == RealizedPnl(pos.quantity, pos.average, order.quantity, price)
                 net == ReducePosition(pos, order, price)
      <3>1. pnl \in Int
        BY <1>1, RealizedPnlType
      <3>2. /\ net.pnl = pnl /\ net.called = (pos.margin > 0)
            /\ net.position.accumulated = pos.accumulated + pnl
        BY DEF ReducePosition, Position
      <3>3. Net(pos, order, price) = net
        BY <1>1, <1>6, <2>2 DEF Net
      <3> HIDE DEF pnl, net
      <3>4. QED
        BY <1>3, <1>6, <3>1, <3>2, <3>3
    <2>3. CASE order.quantity > Abs(pos.quantity)
      <3> DEFINE pnl == RealizedPnl(pos.quantity, pos.average, Abs(pos.quantity), price)
                 net == ReversePosition(pos, order, price)
      <3>1. pnl \in Int
        BY <1>1, RealizedPnlType
      <3>2. /\ net.pnl = pnl /\ net.called = (pos.margin > 0)
            /\ net.position.accumulated = pos.accumulated + pnl
        BY DEF ReversePosition, Position
      <3>3. Net(pos, order, price) = net
        BY <1>1, <1>6, <2>3 DEF Net
      <3> HIDE DEF pnl, net
      <3>4. QED
        BY <1>3, <1>6, <3>1, <3>2, <3>3
    <2>4. QED
      BY <1>1, <2>1, <2>2, <2>3
  <1>7. QED
    BY <1>4, <1>5, <1>6

\* The reconciliation after a fill moves money and books nothing.
LEMMA FillBooks ==
    ASSUME NEW f \in Funds, NEW net
    PROVE  FundsAfterFill(f, net).realized
               = IF net.called THEN f.realized + net.pnl ELSE f.realized
  <1> DEFINE g == IF net.called THEN ReleaseMargin(f, net.release, net.pnl) ELSE f
  <1>1. /\ g.realized = IF net.called THEN f.realized + net.pnl ELSE f.realized
        /\ DOMAIN g = {"available", "used", "realized"}
    BY DEF ReleaseMargin, Funds
  <1>2. FundsAfterFill(f, net) = ReconcileMargin(g, CountedMargin(net.position))
    BY DEF FundsAfterFill
  <1> HIDE DEF g
  <1>3. ReconcileMargin(g, CountedMargin(net.position)).realized = g.realized
    BY <1>1 DEF ReconcileMargin
  <1>4. QED
    BY <1>1, <1>2, <1>3

\* What the step adds to the P&L of the position is booked.
Books ==
    LET gain == position'.accumulated - position.accumulated
        booked == funds'.realized - funds.realized
    IN  \/ booked = gain
        \/ booked = 0 /\ position.quantity # 0 /\ position.margin = 0
        \/ position' = NoPosition /\ funds' = InitialFunds

LEMMA NextBooks ==
    ASSUME TypeOK, [Next]_vars
    PROVE  Books
  <1>1. /\ position \in Position /\ position.accumulated \in Int
        /\ funds.realized \in Int
    BY DEF TypeOK, Position, Funds
  <1>2. CASE UNCHANGED <<position, traded, funds.realized>>
    BY <1>1, <1>2 DEF Books
  <1>3. CASE ResetFunds
    BY <1>3 DEF ResetFunds, Books
  <1>4. ASSUME NEW o \in OrderIds, NEW order \in Order, NEW price \in Int,
               NEW f \in Funds, f.realized = funds.realized, Execute(o, order, price, f)
        PROVE  Books
    <2> DEFINE net == Net(position, order, price)
    <2>1. position' = net.position /\ funds' = FundsAfterFill(f, net)
      BY <1>4 DEF Execute
    <2>2. HandsOver(net, position)
      BY <1>1, NetHandsOver
    <2> HIDE DEF net
    <2>3. funds'.realized = IF net.called THEN funds.realized + net.pnl ELSE funds.realized
      BY <1>4, <2>1, FillBooks
    <2>4. position'.accumulated - position.accumulated = net.pnl
      BY <1>1, <2>1, <2>2 DEF HandsOver
    <2>5. CASE net.called
      BY <1>1, <2>2, <2>3, <2>4, <2>5 DEF HandsOver, Books
    <2>6. CASE ~net.called
      BY <1>1, <2>2, <2>3, <2>4, <2>6 DEF HandsOver, Books
    <2>7. QED
      BY <2>5, <2>6
  <1>5. QED
    BY <1>2, <1>3, <1>4, StepFills

\* Every P&L that a position realises is booked in the same step and to the last
\* unit, at any prices and by any netting branch, unless there is no margin.
THEOREM PnlIsBooked == Spec => PnlReachesFunds
  <1>1. TypeOK /\ [Next]_vars
          => [LET gain == position'.accumulated - position.accumulated
                  booked == funds'.realized - funds.realized
              IN  \/ booked = gain
                  \/ booked = 0 /\ position.quantity # 0 /\ position.margin = 0
                  \/ position' = NoPosition /\ funds' = InitialFunds]_vars
    BY NextBooks DEF Books
  <1>2. QED
    BY <1>1, TypeCorrect, PTL DEF Spec, PnlReachesFunds

\* An open position holds margin.  A closing order whose position is gone when it
\* fills, or that was enlarged beyond it, opens one without.
Margined == position.quantity # 0 => position.margin > 0

\* get_open_positions: "Closed position P&L is already in realized_pnl".
RealizedIsBooked == funds.realized = position.accumulated

\* As long as open positions hold margin, the funds have booked what the position
\* realised in all.
THEOREM MarginedPnlIsBooked == Spec /\ []Margined => []RealizedIsBooked
  <1>1. Init => RealizedIsBooked
    BY DEF Init, RealizedIsBooked, InitialFunds, NoPosition
  <1>2. TypeOK /\ TypeOK' /\ Margined /\ [Next]_vars /\ RealizedIsBooked
          => RealizedIsBooked'
    <2> SUFFICES ASSUME TypeOK, TypeOK', Margined, [Next]_vars, RealizedIsBooked
                 PROVE  RealizedIsBooked'
      OBVIOUS
    <2>1. /\ position.accumulated \in Int /\ funds.realized \in Int
          /\ position'.accumulated \in Int /\ funds'.realized \in Int
      BY DEF TypeOK, Position, Funds
    <2>2. CASE position' = NoPosition /\ funds' = InitialFunds
      BY <2>2 DEF RealizedIsBooked, InitialFunds, NoPosition
    <2>3. CASE funds'.realized - funds.realized
                 = position'.accumulated - position.accumulated
      BY <2>1, <2>3 DEF RealizedIsBooked
    <2>4. ~(position.quantity # 0 /\ position.margin = 0)
      BY DEF Margined
    <2>5. QED
      BY <2>2, <2>3, <2>4, NextBooks DEF Books
  <1>3. QED
    BY <1>1, <1>2, TypeCorrect, PTL DEF Spec
=============================================================================
