--------------------------- MODULE OrderLifecycle ---------------------------
(***************************************************************************)
(* What a client of the order book may rely on, whatever engine works      *)
(* behind it: an order is submitted once, is executed at most once and     *)
(* then entirely, and never leaves a terminal status.  Statuses are those  *)
(* of the column order_status of database/sandbox_db.py.                   *)
(***************************************************************************)
EXTENDS Naturals

CONSTANT OrderIds

VARIABLES
    status,  \* order_status of each order, "absent" before it is submitted
    fills    \* number of trades of each order

vars == <<status, fills>>

Init ==
    /\ status = [o \in OrderIds |-> "absent"]
    /\ fills = [o \in OrderIds |-> 0]

Move(o, from, to) ==
    /\ status[o] = from
    /\ status' = [status EXCEPT ![o] = to]

\* The order waits in the book, or is refused on record.
Submit(o) ==
    /\ Move(o, "absent", "open") \/ Move(o, "absent", "rejected")
    /\ UNCHANGED fills

\* The order executes, from the book or as soon as it is submitted.
Fill(o) ==
    /\ Move(o, "open", "complete") \/ Move(o, "absent", "complete")
    /\ fills' = [fills EXCEPT ![o] = 1]

Cancel(o) ==
    /\ Move(o, "open", "cancelled")
    /\ UNCHANGED fills

Next == \E o \in OrderIds : Submit(o) \/ Fill(o) \/ Cancel(o)

Step == [Next]_vars

Spec == Init /\ [][Next]_vars

\* An order has a trade exactly when it is complete.
CompleteIffFilled ==
    \A o \in OrderIds : fills[o] = (IF status[o] = "complete" THEN 1 ELSE 0)
=============================================================================
