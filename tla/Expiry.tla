------------------------------- MODULE Expiry -------------------------------
(***************************************************************************)
(* How positions that should no longer be open are closed against the      *)
(* funds row.  Expired contracts are settled by whoever lists the          *)
(* positions and by the start of the server, in two commits: the funds     *)
(* under FundManager._lock, then the row.  Intraday positions of an        *)
(* earlier day are settled by the catch-up after a login, in one commit,   *)
(* but with funds that it read and writes without the lock.                *)
(*                                                                         *)
(* One user; every position has a margin of 1.  What the session has       *)
(* loaded with its query holds until its first commit or rollback.         *)
(***************************************************************************)
EXTENDS Integers, FiniteSetsExt, Functions

CONSTANTS
    Listers,    \* requests and starts that settle expired contracts
    CatchUps,   \* logins that settle stale intraday positions
    Expired,    \* positions in expired contracts: numbers, in the order of the
    Stale,      \* table; intraday positions of an earlier day, maybe the same
    Pnl,        \* profit or loss of the closing of each position
    MaxStops    \* bound of the model: stops of the server, failing commits

Threads == Listers \cup CatchUps
Positions == Expired \cup Stale

VARIABLES
    open,    \* the positions whose row has a quantity and a margin
    funds,   \* used_margin and realized_pnl
    job,     \* each thread: its place in the loop and what it has read
    stops,   \* stops and failures
    booked,  \* history: how often the closing of each position was booked
    upset    \* history: what has come between a settlement and its end

vars == <<open, funds, job, stops, booked, upset>>

Idle == [step |-> "idle", todo |-> {}, cached |-> FALSE, seen |-> {},
         position |-> {}, margin |-> 0, funds |-> {}]

\* The funds after so many bookings of each position.
FundsAfter(count) ==
    [used |-> SumFunction([p \in Positions |-> 1 - count[p]]),
     realized |-> SumFunction([p \in Positions |-> count[p] * Pnl[p]])]

\* Some positions have been closed by orders, which booked them.
Init ==
    /\ open \in SUBSET Positions
    /\ booked = [p \in Positions |-> IF p \in open THEN 0 ELSE 1]
    /\ funds = FundsAfter(booked)
    /\ job = [t \in Threads |-> Idle]
    /\ stops = 0
    /\ upset = {}

\* The server stops, or the database fails: a settlement is cut short.
Interrupted ==
    /\ stops < MaxStops
    /\ stops' = stops + 1
    /\ upset' = upset \cup {"cut"}

\* The open rows as the session of a thread sees them.
Seen(t) == IF job[t].cached THEN job[t].seen ELSE open

\* The loop goes on after a commit or a rollback.
Resume(t) == job' = [job EXCEPT ![t] = [Idle EXCEPT !.step = "loop",
                                                    !.todo = job[t].todo]]

\* The next row of the query's result.
Pick(t, p) ==
    /\ job[t].step = "loop" /\ job[t].todo # {}
    /\ p = Min(job[t].todo)

\* A login looks for open rows, a list of the positions holds them all.
Query(t, rows) ==
    /\ job[t] = Idle
    /\ rows \cap open # {}
    /\ job' = [job EXCEPT
                  ![t].step = "loop",
                  ![t].todo = IF t \in CatchUps THEN rows \cap open ELSE rows,
                  ![t].cached = TRUE, ![t].seen = open]
    /\ upset' = IF \E u \in Threads \ {t} : job[u] # Idle
                THEN upset \cup {"overlap"} ELSE upset
    /\ UNCHANGED <<open, funds, stops, booked>>

Done(t) ==
    /\ job[t].step = "loop" /\ job[t].todo = {}
    /\ job' = [job EXCEPT ![t] = Idle]
    /\ UNCHANGED <<open, funds, stops, booked, upset>>

\* A position with the margin and the closing P&L that are read from its row,
\* 0 when another thread has closed it.
Value(p, margin) == [used |-> margin, realized |-> margin * Pnl[p]]
Book(f, value) == [used |-> f.used - value.used,
                   realized |-> f.realized + value.realized]
Count(p, margin) == booked' = [booked EXCEPT ![p] = @ + margin]

-----------------------------------------------------------------------------
(* _settle_expired_position *)

\* Mutant: the row is trusted to be open.
LookTrusting(t, p) ==
    /\ t \in Listers
    /\ Pick(t, p)
    /\ job' = [job EXCEPT ![t].step = "release", ![t].todo = @ \ {p},
                          ![t].position = {p}, ![t].margin = 1]
    /\ UNCHANGED <<open, funds, stops, booked, upset>>

\* The loop looks at the quantity; a closed row has nothing to settle.
Look(t, p) ==
    /\ t \in Listers
    /\ Pick(t, p)
    /\ job' = IF p \in Seen(t)
              THEN [job EXCEPT ![t].step = "release", ![t].todo = @ \ {p},
                               ![t].position = {p}, ![t].margin = 1]
              ELSE [job EXCEPT ![t].todo = @ \ {p}]
    /\ UNCHANGED <<open, funds, stops, booked, upset>>

\* Mutant: the margin is released without the P&L.
ReleaseMarginOnly(t) ==
    /\ job[t].step = "release"
    /\ \A p \in job[t].position :
          /\ funds' = [funds EXCEPT !.used = @ - job[t].margin]
          /\ Count(p, job[t].margin)
    /\ job' = [job EXCEPT ![t].step = "clear", ![t].cached = FALSE,
                          ![t].seen = {}]
    /\ UNCHANGED <<open, stops, upset>>

\* release_margin, one commit under the lock ...
Release(t) ==
    /\ job[t].step = "release"
    /\ \A p \in job[t].position :
          /\ funds' = Book(funds, Value(p, job[t].margin))
          /\ Count(p, job[t].margin)
    /\ job' = [job EXCEPT ![t].step = "clear", ![t].cached = FALSE,
                          ![t].seen = {}]
    /\ UNCHANGED <<open, stops, upset>>

\* ... whose failure nobody notices.
ReleaseFails(t) ==
    /\ job[t].step = "release"
    /\ Interrupted
    /\ job' = [job EXCEPT ![t].step = "clear", ![t].cached = FALSE,
                          ![t].seen = {}]
    /\ UNCHANGED <<open, funds, booked>>

Clear(t) ==
    /\ job[t].step = "clear"
    /\ open' = open \ job[t].position
    /\ Resume(t)
    /\ UNCHANGED <<funds, stops, booked, upset>>

-----------------------------------------------------------------------------
(* catch_up_mis_squareoff *)

\* The loop does not look at the quantity: a row that is closed meanwhile is
\* settled again, with nothing to book.
Load(t, p) ==
    /\ t \in CatchUps
    /\ Pick(t, p)
    /\ job' = [job EXCEPT ![t].step = "settle", ![t].todo = @ \ {p},
                          ![t].position = {p},
                          ![t].margin = IF p \in Seen(t) THEN 1 ELSE 0,
                          ![t].funds = {funds}]
    /\ UNCHANGED <<open, funds, stops, booked, upset>>

Clamped(f) == IF f.used < 0 THEN [f EXCEPT !.used = 0] ELSE f

\* The columns that differ from what was read are written, whatever the row
\* contains by now.
Overwrite(read, new) ==
    [c \in DOMAIN funds |-> IF new[c] = read[c] THEN funds[c] ELSE new[c]]

Settle(t) ==
    /\ job[t].step = "settle"
    /\ \A p \in job[t].position, read \in job[t].funds :
          LET due == Book(read, Value(p, job[t].margin))
              new == Clamped(due)
          IN  /\ funds' = Overwrite(read, new)
              /\ Count(p, job[t].margin)
              /\ upset' = upset
                    \cup {c \in {"race"} : new # read /\ read # funds}
                    \cup {c \in {"clamp"} : new # due}
    /\ open' = open \ job[t].position
    /\ Resume(t)
    /\ UNCHANGED stops

SettleFails(t) ==
    /\ job[t].step = "settle"
    /\ Interrupted
    /\ Resume(t)
    /\ UNCHANGED <<open, funds, booked>>

-----------------------------------------------------------------------------
Quiet == \A t \in Threads : job[t] = Idle

\* The server stops; what was not committed is gone.
Stop ==
    /\ ~Quiet
    /\ Interrupted
    /\ job' = [t \in Threads |-> Idle]
    /\ UNCHANGED <<open, funds, booked>>

Step(t) ==
    \/ \E p \in Positions : Look(t, p) \/ Load(t, p)
    \/ Release(t) \/ ReleaseFails(t) \/ Clear(t)
    \/ Settle(t) \/ SettleFails(t)
    \/ Done(t)

Begin(t) == Query(t, IF t \in Listers THEN Expired ELSE Stale)

Next == Stop \/ \E t \in Threads : Begin(t) \/ Step(t)

Spec == Init /\ [][Next]_vars

\* Positions are listed and users log in again and again.
FairSpec == Spec /\ \A t \in Threads : WF_vars(Begin(t) \/ Step(t))

-----------------------------------------------------------------------------
(* Properties *)

ClosedIffBooked ==
    Quiet /\ upset \subseteq {"race", "clamp"} =>
        \A p \in Positions : booked[p] = IF p \in open THEN 0 ELSE 1

CatchUpMayStop ==
    "overlap" \notin upset =>
        \A p \in Stale \ Expired : booked[p] = IF p \in open THEN 0 ELSE 1

\* The closing of a position is booked once, and exactly when its row has been
\* closed, unless two settlements overlap or one is cut short.  The catch-up
\* books and closes in one commit, so that it may even stop anywhere and start
\* again, with what no expiry settlement takes.
BookedOnce == ClosedIffBooked /\ CatchUpMayStop

\* The funds contain everything that was booked, as long as the catch-up has
\* neither written from a row that another thread changed nor cut a negative
\* margin off: in what stops, fails or is booked twice, the margin released and
\* the P&L go together.
FundsContainBookings ==
    upset \cap {"race", "clamp"} = {} => funds = FundsAfter(booked)

Settled == open = {}

\* What should be closed is closed in the end and for good.
EveryPositionClosed == <>[]Settled
=============================================================================
