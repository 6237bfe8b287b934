--------------------------- MODULE AtomicSettlement ---------------------------
(***************************************************************************)
(* What the T+1 settlement of delivery positions comes to, row by row in   *)
(* any order: a position leaves, its holding and its money change.         *)
(*                                                                         *)
(* The tables themselves show a row in two commits.  Here a row has left   *)
(* when the settlement will not take it again, though it may still be in   *)
(* its table; what a reader of the tables sees is stated in Settlement.    *)
(***************************************************************************)
EXTENDS Integers, Functions

CONSTANTS
    Bought,  \* quantities of the position rows to settle, by symbol
    Held     \* quantities of the holdings at the start

VARIABLES
    rows,      \* positions that are not settled yet: symbol -> quantity
    holdings,  \* symbol -> quantity
    funds      \* money: margin used and cash available

vars == <<rows, holdings, funds>>

Init ==
    /\ rows = Bought
    /\ holdings = Held

Without(f, s) == Restrict(f, DOMAIN f \ {s})

\* The holding that the position of s makes.
Total(s) == rows[s] + (IF s \in DOMAIN holdings THEN holdings[s] ELSE 0)

Size(quantity) == IF quantity < 0 THEN -quantity ELSE quantity

\* A purchase moves its margin into the holding; the sale of what is held
\* brings cash.  A holding that comes to nothing is no holding.
Settle(s) ==
    /\ rows[s] # 0
    /\ rows' = Without(rows, s)
    /\ holdings' =
          IF Total(s) = 0 THEN Without(holdings, s)
          ELSE [h \in DOMAIN holdings \cup {s} |-> IF h = s THEN Total(s) ELSE holdings[h]]
    /\ funds' =
          IF rows[s] < 0 /\ s \in DOMAIN holdings
          THEN [funds EXCEPT !.available = @ + Size(rows[s])]
          ELSE [funds EXCEPT !.used = @ - Size(rows[s])]

\* A position that was closed before it was settled.
Drop(s) ==
    /\ rows[s] = 0
    /\ rows' = Without(rows, s)
    /\ UNCHANGED <<holdings, funds>>

\* A fill of the session: shares against margin, at a price of 1.
Trade(s, change) ==
    /\ rows' = [rows EXCEPT ![s] = @ + change]
    /\ funds' = [used |-> funds.used + change, available |-> funds.available - change]
    /\ UNCHANGED holdings

Next ==
    \E s \in DOMAIN rows :
        \/ Settle(s)
        \/ Drop(s)
        \/ \E change \in {1, -1} : Trade(s, change)

Step == [Next]_vars
=============================================================================
