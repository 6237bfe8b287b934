----------------------------- MODULE SignalQueue -----------------------------
(***************************************************************************)
(* Webhook strategies: the signals of a trading platform become orders in  *)
(* two queues, which one thread sends to the order API, and the square-off *)
(* job of an intraday strategy queues an order of its own.                 *)
(*                                                                         *)
(* "Smart" orders, which name the position that is wanted, overtake        *)
(* regular ones, which buy or sell a quantity.  A strategy that is only    *)
(* LONG enters with regular orders and exits with smart ones; one that     *)
(* trades BOTH ways uses smart orders alone.  SHORT mirrors LONG.          *)
(*                                                                         *)
(* One strategy, one symbol; an order that is accepted is filled at once.  *)
(* The limits of ten regular orders and one smart order a second only      *)
(* delay, but a server that shuts down waits thirty seconds for the thread *)
(* and then ends with whatever the queues contain.                         *)
(***************************************************************************)
EXTENDS Integers, Sequences

CONSTANTS
    Modes,          \* trading modes: a subset of {"LONG", "BOTH"}
    Webhooks,       \* request threads
    EndTime,        \* the last minute for entries
    SquareOffTime,  \* the minute of the square-off, the last one for exits
    Patience,       \* orders that a thread without delays sends in the join
    MaxSignals      \* bound of the model: signals of the platform

VARIABLES
    mode,
    now,       \* the minute of the day
    regular,   \* regular_order_queue: orders of a quantity, and the pill
    smart,     \* smart_order_queue: orders of a position
    position,
    sender,    \* the thread of process_orders: its step, the order in hand
    webhook,   \* each request: the signal that has passed its checks
    squared,   \* the square-off job has run
    stopping,  \* the server is shutting down
    patience,  \* the orders for which the join will still wait
    signals,
    wanted,    \* history: the position after all signals in their order
    load,      \* history: orders that a shutdown has met or that came after it
    upset      \* history: what comes between a signal and the position

vars == <<mode, now, regular, smart, position, sender, webhook, squared,
          stopping, patience, signals, wanted, load, upset>>

Idle == [step |-> "idle", size |-> 0]

\* History: early is an order that the thread must see before a pill.
Order(size) == [size |-> size, pill |-> FALSE, early |-> ~stopping]
Unseen(size) == [Order(size) EXCEPT !.early = @ /\ sender.step # "look"]
Pill == [size |-> 0, pill |-> TRUE, early |-> FALSE]
NoSignal == [at |-> FALSE, size |-> 0]

Init ==
    /\ mode \in Modes
    /\ now = 0
    /\ regular = <<>>
    /\ smart = <<>>
    /\ position = 0
    /\ sender = Idle
    /\ webhook = [w \in Webhooks |-> NoSignal]
    /\ squared = FALSE
    /\ stopping = FALSE
    /\ patience = Patience
    /\ signals = 0
    /\ wanted = 0
    /\ load = 0
    /\ upset = {}

IsExit(size) == size = 0
Sizes == IF mode = "LONG" THEN {0, 1} ELSE {-1, 0, 1}

InTime(size) == now <= IF IsExit(size) THEN SquareOffTime ELSE EndTime

-----------------------------------------------------------------------------
(* webhook *)

\* The signal passes the checks of the strategy and of the time ...
Receive(w, size) ==
    /\ webhook[w] = NoSignal
    /\ signals < MaxSignals
    /\ size \in Sizes
    /\ InTime(size)
    /\ signals' = signals + 1
    /\ webhook' = [webhook EXCEPT ![w] = [at |-> TRUE, size |-> size]]
    /\ UNCHANGED <<mode, now, regular, smart, position, sender, squared,
                   stopping, patience, wanted, load, upset>>

\* Mutant: a BOTH strategy enters with regular orders too.
ExitIsSmart(size) == IsExit(size)
IsSmart(size) == mode = "BOTH" \/ IsExit(size)

\* Regular orders wait, or the thread looks for one that may come yet.
RegularMixes == sender.step = "look" \/ \E n \in DOMAIN regular : ~regular[n].pill

\* queue_order; history: an exit may be out of its order among regular ones.
QueueOrder(size) ==
    /\ IF IsSmart(size)
       THEN smart' = Append(smart, Unseen(size)) /\ UNCHANGED regular
       ELSE regular' = Append(regular, Order(size)) /\ UNCHANGED smart
    /\ wanted' = IF squared' \/ IsExit(size) THEN 0
                 ELSE IF mode = "BOTH" THEN size ELSE wanted + size
    /\ load' = IF stopping THEN load + 1 ELSE load
    /\ upset' = upset
          \cup {c \in {"overtaken"} : mode = "LONG" /\ IsExit(size) /\ RegularMixes}
          \cup {c \in {"late"} : squared /\ ~IsExit(size)}

\* ... and its order is queued.
Queue(w) ==
    /\ webhook[w].at
    /\ webhook' = [webhook EXCEPT ![w] = NoSignal]
    /\ UNCHANGED squared
    /\ QueueOrder(webhook[w].size)
    /\ UNCHANGED <<mode, now, position, sender, stopping, patience, signals>>

\* squareoff_positions
SquareOff ==
    /\ now = SquareOffTime
    /\ ~squared
    /\ squared' = TRUE
    /\ QueueOrder(0)
    /\ UNCHANGED <<mode, now, position, sender, webhook, stopping, patience, signals>>

-----------------------------------------------------------------------------
(* process_orders *)

\* The next order is in hand; at the pill the thread ends.
Take(queue, step) ==
    sender' = IF Head(queue).pill THEN [Idle EXCEPT !.step = "ended"]
              ELSE [step |-> step, size |-> Head(queue).size]

TakeSmart ==
    /\ sender = Idle
    /\ smart # <<>>
    /\ Take(smart, "smart")
    /\ smart' = Tail(smart)
    /\ UNCHANGED <<mode, now, regular, position, webhook, squared, stopping,
                   patience, signals, wanted, load, upset>>

\* The smart queue was found empty; what arrives there now waits a round, or
\* for ever if a pill arrives too.
LookAtRegular ==
    /\ sender = Idle
    /\ smart = <<>>
    /\ sender' = [sender EXCEPT !.step = "look"]
    /\ UNCHANGED <<mode, now, regular, smart, position, webhook, squared,
                   stopping, patience, signals, wanted, load, upset>>

TakeRegular ==
    /\ sender.step = "look"
    /\ regular # <<>>
    /\ Take(regular, "regular")
    /\ regular' = Tail(regular)
    /\ UNCHANGED <<mode, now, smart, position, webhook, squared, stopping,
                   patience, signals, wanted, load, upset>>

\* There is none, or ten were sent within the last second.
TakeNone ==
    /\ sender.step = "look"
    /\ sender' = Idle
    /\ UNCHANGED <<mode, now, regular, smart, position, webhook, squared,
                   stopping, patience, signals, wanted, load, upset>>

InHand == sender.step \in {"smart", "regular"}

\* A smart order orders the difference to the position that is wanted.
Filled == IF sender.step = "smart" THEN sender.size ELSE position + sender.size

\* The thread is done with the order in hand, the join has waited for one more.
Done ==
    /\ InHand
    /\ sender' = Idle
    /\ patience' = IF stopping /\ patience > 0 THEN patience - 1 ELSE patience

Send ==
    /\ Done
    /\ position' = Filled
    /\ UNCHANGED <<mode, now, regular, smart, webhook, squared, stopping,
                   signals, wanted, load, upset>>

\* An order that fails is logged and forgotten.
SendFails ==
    /\ Done
    /\ upset' = upset \cup {"failure"}
    /\ UNCHANGED <<mode, now, regular, smart, position, webhook, squared,
                   stopping, signals, wanted, load>>

-----------------------------------------------------------------------------
(* _shutdown_order_processor *)

Begin ==
    /\ ~stopping
    /\ stopping' = TRUE
    /\ load' = Len(smart) + Len(regular) + IF InHand THEN 1 ELSE 0
    /\ UNCHANGED <<mode, now, position, sender, webhook, squared, patience,
                   signals, wanted, upset>>

\* Mutant: the pill goes to the queue that is served first.
PoisonSmart ==
    /\ Begin
    /\ smart' = Append(smart, Pill)
    /\ UNCHANGED regular

\* The thread, which the server waits for, drains the queues up to the pill.
Shutdown ==
    /\ Begin
    /\ regular' = Append(regular, Pill)
    /\ UNCHANGED smart

\* The join gives up and the thread, a daemon, ends with the server; nobody knows
\* whether the order it has in hand arrives.
GiveUp ==
    /\ stopping
    /\ sender.step \notin {"ended", "dead", "lost"}
    /\ sender' = [Idle EXCEPT !.step = IF InHand THEN "lost" ELSE "dead"]
    /\ position' \in {position} \cup {f \in {Filled} : InHand}
    /\ upset' = upset \cup {IF patience > 0 THEN "slow" ELSE "given up"}
    /\ UNCHANGED <<mode, now, regular, smart, webhook, squared, stopping,
                   patience, signals, wanted, load>>

Tick ==
    /\ now <= SquareOffTime
    /\ now' = now + 1
    /\ UNCHANGED <<mode, regular, smart, position, sender, webhook, squared,
                   stopping, patience, signals, wanted, load, upset>>

Next ==
    \/ \E w \in Webhooks :
          \/ \E size \in {-1, 0, 1} : Receive(w, size)
          \/ Queue(w)
    \/ SquareOff
    \/ TakeSmart \/ LookAtRegular \/ TakeRegular \/ TakeNone \/ Send \/ SendFails
    \/ Shutdown \/ GiveUp
    \/ Tick

Spec == Init /\ [][Next]_vars

-----------------------------------------------------------------------------
(* Properties *)

Drained == sender.step = "idle" /\ smart = <<>> /\ regular = <<>>

\* Once the queues are empty the position is the one that the signals asked for
\* in the order in which they came, and none after the square-off, unless an
\* exit came while entries waited or the thread looked for them, an entry came
\* after the square-off or an order failed: the queues reorder in no other way.
SignalsKeepTheirOrder == Drained /\ upset = {} => position = wanted

NoneEarly ==
    \A queue \in {smart, regular} :
        \A n \in DOMAIN queue : ~queue[n].early

\* A shutdown sends every order that was queued before it, the smart ones ahead
\* of the pill, unless one came after the thread had found their queue empty, as
\* far as the join waits: a thread that ends leaves none of them, and one that is
\* given up does not either, or lose the one it has in hand, if there were no more
\* orders than thirty seconds are enough for and it sent as many.  What is beyond
\* is lost.
ShutdownDrains ==
    /\ sender.step = "ended" => NoneEarly
    /\ load <= Patience /\ "slow" \notin upset =>
          /\ sender.step # "lost"
          /\ sender.step = "dead" => NoneEarly
=============================================================================
