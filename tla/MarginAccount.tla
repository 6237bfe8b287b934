---------------------------- MODULE MarginAccount ----------------------------
(***************************************************************************)
(* What the fund manager promises to the orders of one user: each takes    *)
(* its margin from free cash once, all of it or nothing, and gets the same *)
(* margin back once, with one profit or loss, whatever others do meanwhile.*)
(***************************************************************************)
EXTENDS Integers

CONSTANTS
    Orders,
    Capital,  \* cash at the start
    Pnls      \* profit and loss of a closed position

VARIABLES
    free,    \* cash that no order holds
    booked,  \* profit and loss so far
    held,    \* the margin that each order holds
    taken    \* the orders that have had their margin

vars == <<free, booked, held, taken>>

Init ==
    /\ free = Capital
    /\ booked = 0
    /\ held = [o \in Orders |-> 0]
    /\ taken = {}

Take(o) ==
    /\ o \notin taken
    /\ \E margin \in 1 .. free :
          /\ held' = [held EXCEPT ![o] = margin]
          /\ free' = free - margin
    /\ taken' = taken \cup {o}
    /\ UNCHANGED booked

GiveBack(o) ==
    /\ held[o] > 0
    /\ \E pnl \in Pnls \cup {0} :
          /\ booked' = booked + pnl
          /\ free' = free + held[o] + pnl
    /\ held' = [held EXCEPT ![o] = 0]
    /\ UNCHANGED taken

Next == \E o \in Orders : Take(o) \/ GiveBack(o)

Step == [Next]_vars
=============================================================================
