----------------------------- MODULE SquareOff -----------------------------
(***************************************************************************)
(* The end of the intraday (MIS) session in one instrument: the scheduler  *)
(* cancels the open orders and closes the position once its square-off     *)
(* time has passed, with a job at that time and a backup job every minute, *)
(* while requests that are under way still place orders and the engine     *)
(* fills them.                                                             *)
(*                                                                         *)
(* check_and_square_off reads the position once; close_position and        *)
(* place_order, in the same session and before its next commit, see that   *)
(* quantity again, and only the filter "quantity != 0" of place_order is   *)
(* evaluated by the database.  Margins and prices are left out; the race   *)
(* of two threads for one order is the subject of OrderExecution.          *)
(***************************************************************************)
EXTENDS Integers, FiniteSets

CONSTANTS
    Clients,      \* request threads in place_order
    Jobs,         \* jobs of the scheduler that run check_and_square_off
    Backup,       \* the one that comes back every minute
    OrderIds,     \* ids of the orders that are open or on their way
    Quantities,   \* signed quantities that clients order
    MaxRequests   \* bound of the model: requests of the clients

Threads == Clients \cup Jobs

VARIABLES
    past,      \* the square-off time has passed
    position,  \* signed quantity of the MIS position
    book,      \* signed quantity of each open MIS order, 0 for a free id
    call,      \* each thread: its place in its call, its order, what it read
    requests

vars == <<past, position, book, call, requests>>

Idle == [step |-> "idle", orders |-> {}, quantity |-> 0]
Finished == [Idle EXCEPT !.step = "finished"]

Init ==
    /\ past = FALSE
    /\ position = 0
    /\ book = [o \in OrderIds |-> 0]
    /\ call = [t \in Threads |-> Idle]
    /\ requests = 0

OpenOrders == {o \in OrderIds : book[o] # 0}

Sign(n) == IF n < 0 THEN -1 ELSE IF n > 0 THEN 1 ELSE 0
Size(n) == n * Sign(n)

-----------------------------------------------------------------------------
(* place_order *)

\* After the square-off time an order must be against the position.
Allowed(quantity) == past => Sign(quantity) = -Sign(position)

\* The request passes the check ...
Accept(c, quantity) ==
    /\ call[c] = Idle
    /\ requests < MaxRequests
    /\ Allowed(quantity)
    /\ requests' = requests + 1
    /\ call' = [call EXCEPT ![c] = [step |-> "accepted", orders |-> {},
                                    quantity |-> quantity]]
    /\ UNCHANGED <<past, position, book>>

\* ... and the order is committed some time later.
Insert(t, o) ==
    /\ book[o] = 0
    /\ book' = [book EXCEPT ![o] = call[t].quantity]

InsertOrder(c, o) ==
    /\ call[c].step = "accepted"
    /\ Insert(c, o)
    /\ call' = [call EXCEPT ![c] = Idle]
    /\ UNCHANGED <<past, position, requests>>

\* The engine, or place_order itself, executes an open order.
Fill(o) ==
    /\ book[o] # 0
    /\ position' = position + book[o]
    /\ book' = [book EXCEPT ![o] = 0]

FillOrder(o) ==
    /\ Fill(o)
    /\ UNCHANGED <<past, call, requests>>

-----------------------------------------------------------------------------
(* check_and_square_off *)

SquareOffTime ==
    /\ ~past
    /\ past' = TRUE
    /\ UNCHANGED <<position, book, call, requests>>

\* _cancel_open_mis_orders queries the open orders.
StartPass(j) ==
    /\ j \in Jobs
    /\ past
    /\ call[j] = Idle
    /\ call' = [call EXCEPT ![j].step = "cancel", ![j].orders = OpenOrders]
    /\ UNCHANGED <<past, position, book, requests>>

\* cancel_order refuses an order that is no longer open.
CancelOrder(j, o) ==
    /\ call[j].step = "cancel"
    /\ o \in call[j].orders
    /\ book' = [book EXCEPT ![o] = 0]
    /\ call' = [call EXCEPT ![j].orders = @ \ {o}]
    /\ UNCHANGED <<past, position, requests>>

\* Mutant: no job comes back.
EndedForToday(j) == Finished

\* The jobs are done for the day, the backup comes back.
Ended(j) == IF j \in Backup THEN Idle ELSE Finished

\* close_position will order the opposite of the quantity that is read here.
ReadPosition(j) ==
    /\ call[j].step = "cancel" /\ call[j].orders = {}
    /\ call' = [call EXCEPT ![j] =
                  IF position = 0 THEN Ended(j)
                  ELSE [step |-> "close", orders |-> {},
                        quantity |-> -position]]
    /\ UNCHANGED <<past, position, book, requests>>

\* Mutant: place_order does not ask whether there is still a position.
AcceptWithoutPosition(j) ==
    /\ call[j].step = "close"
    /\ call' = [call EXCEPT ![j].step = "accepted"]
    /\ UNCHANGED <<past, position, book, requests>>

\* place_order takes the closing order as long as there is a position,
AcceptClosing(j) ==
    /\ call[j].step = "close"
    /\ position # 0
    /\ call' = [call EXCEPT ![j].step = "accepted"]
    /\ UNCHANGED <<past, position, book, requests>>

\* refuses it when there is none, or later when it finds no price,
RefuseClosing(j) ==
    /\ \/ call[j].step = "close" /\ position = 0
       \/ call[j].step = "accepted"
    /\ call' = [call EXCEPT ![j] = Ended(j)]
    /\ UNCHANGED <<past, position, book, requests>>

\* and commits it.
InsertClosing(j, o) ==
    /\ call[j].step = "accepted"
    /\ Insert(j, o)
    /\ call' = [call EXCEPT ![j].step = "fill", ![j].orders = {o}]
    /\ UNCHANGED <<past, position, requests>>

\* The market order is executed at once, unless the engine has been faster.
FillClosing(j, o) ==
    /\ call[j].step = "fill"
    /\ o \in call[j].orders
    /\ Fill(o)
    /\ call' = [call EXCEPT ![j] = Ended(j)]
    /\ UNCHANGED <<past, requests>>

\* Otherwise it stays in the book, where the next pass finds it.
LeaveClosing(j) ==
    /\ call[j].step = "fill"
    /\ call' = [call EXCEPT ![j] = Ended(j)]
    /\ UNCHANGED <<past, position, book, requests>>

JobStep(j) ==
    \/ \E o \in OrderIds :
          CancelOrder(j, o) \/ InsertClosing(j, o) \/ FillClosing(j, o)
    \/ ReadPosition(j) \/ AcceptClosing(j) \/ RefuseClosing(j) \/ LeaveClosing(j)

Next ==
    \/ SquareOffTime
    \/ \E c \in Clients :
          \/ \E q \in Quantities : Accept(c, q)
          \/ \E o \in OrderIds : InsertOrder(c, o)
    \/ \E o \in OrderIds : FillOrder(o)
    \/ \E j \in Jobs : StartPass(j) \/ JobStep(j)

Spec == Init /\ [][Next]_vars

\* The backup is scheduled again and again and goes on, and there is a price for
\* its closing order and its execution in the end.  Nothing is asked of the
\* other threads, which may stop anywhere.
Fairness ==
    /\ WF_vars(SquareOffTime)
    /\ \A j \in Backup :
          /\ WF_vars(StartPass(j) \/ JobStep(j))
          /\ SF_vars(\E o \in OrderIds : InsertClosing(j, o))
          /\ SF_vars(\E o \in OrderIds : FillClosing(j, o))

FairSpec == Spec /\ Fairness

-----------------------------------------------------------------------------
(* Properties *)

\* The session is over: no position, and no order that could open one, neither
\* in the book nor on its way.
Over ==
    /\ past
    /\ position = 0
    /\ OpenOrders = {}
    /\ \A t \in Threads : call[t].step # "accepted"

\* Once it is over it stays over: neither a request nor a pass that still acts
\* on a position that another pass has closed opens a new one.
OverStaysOver == [][Over => Over']_vars

\* However requests, passes and fills interleave around the square-off time, in
\* the end there is neither an intraday position nor an order that could open
\* one.
SessionEndsFlat == <>[](position = 0 /\ OpenOrders = {})
=============================================================================
