----------------------------- MODULE Settlement -----------------------------
(***************************************************************************)
(* T+1 settlement of delivery (CNC) positions: process_t1_settlement moves *)
(* each position row of an earlier day into the holdings.  The job of      *)
(* midnight, the catch-up after the download of the master contract and    *)
(* the one of analyzer mode run it in threads of their own; while one      *)
(* runs, orders fill and the server may stop.                              *)
(*                                                                         *)
(* The fund operation for a position commits the session of the whole loop *)
(* (a failing one rolls it back), so a position's holding and money are in *)
(* the database one commit before its row is deleted.  A commit also       *)
(* expires what the session has loaded: the quantities of the query hold   *)
(* until the first one, later reads go to the database.                    *)
(*                                                                         *)
(* One user; every share has the price 1.                                  *)
(***************************************************************************)
EXTENDS Integers, FiniteSetsExt, Functions

CONSTANTS
    Settlers,     \* threads that settle
    Bought,       \* quantities of the position rows of earlier days, by symbol;
                  \* symbols are numbers, in the order of the table
    Held,         \* quantities of the holdings at the start
    MaxFills,     \* bound of the model: orders that still fill
    MaxStops      \* bound of the model: stops of the server

VARIABLES
    positions,  \* the CNC rows of sandbox_positions: symbol -> quantity
    holdings,   \* sandbox_holdings: symbol -> quantity
    funds,      \* the columns that settlement writes
    job,        \* each settler: its place in the loop and its session
    fills,
    stops,
    owned,      \* history: shares of each symbol that trades have left
    upset       \* history: what has come between a settlement and its end

vars == <<positions, holdings, funds, job, fills, stops, owned, upset>>

Symbols == DOMAIN Bought
Nothing == [s \in {} |-> 0]
Without(f, S) == Restrict(f, DOMAIN f \ S)
Quantity(f, s) == IF s \in DOMAIN f THEN f[s] ELSE 0
Purchases == RestrictValues(Bought, LAMBDA q : q > 0)

Idle == [step |-> "idle", todo |-> {}, loaded |-> Nothing, symbol |-> {},
         quantity |-> 0, held |-> FALSE, result |-> 0, leaving |-> {},
         empty |-> {}]

Init ==
    /\ positions = Bought
    /\ holdings = Held
    /\ funds = [used |-> SumFunction(Purchases), available |-> 0]
    /\ job = [t \in Settlers |-> Idle]
    /\ fills = 0
    /\ stops = 0
    /\ owned = [s \in Symbols |-> Bought[s] + Quantity(Held, s)]
    /\ upset = {}

Quiet == \A t \in Settlers : job[t] = Idle

\* Something happens that a settlement under way is not prepared for.
Upset(cause) == upset' = IF Quiet THEN upset ELSE upset \cup {cause}

-----------------------------------------------------------------------------
(* process_t1_settlement *)

Query(t) ==
    /\ job[t] = Idle
    /\ positions # Nothing
    /\ job' = [job EXCEPT ![t].step = "loop", ![t].todo = DOMAIN positions,
                          ![t].loaded = positions]
    /\ Upset("overlap")
    /\ UNCHANGED <<positions, holdings, funds, fills, stops, owned>>

\* The next row of the query's result.
Pick(t, s) ==
    /\ job[t].step = "loop" /\ job[t].todo # {}
    /\ s = Min(job[t].todo)

\* What the session knows of the quantity of a position, none when it has to
\* load the row and finds it deleted (ObjectDeletedError).
Read(t, s) ==
    IF s \in DOMAIN job[t].loaded THEN {job[t].loaded[s]}
    ELSE {q \in {Quantity(positions, s)} : s \in DOMAIN positions}

\* Mutant: a position that was sold again is passed over and stays.
PassOver(t, s) ==
    /\ Pick(t, s)
    /\ 0 \in Read(t, s)
    /\ job' = [job EXCEPT ![t].todo = @ \ {s}]
    /\ UNCHANGED <<positions, holdings, funds, fills, stops, owned, upset>>

\* A position that was sold again is only deleted.
Skip(t, s) ==
    /\ Pick(t, s)
    /\ 0 \in Read(t, s)
    /\ job' = [job EXCEPT ![t].todo = @ \ {s}, ![t].leaving = @ \cup {s}]
    /\ UNCHANGED <<positions, holdings, funds, fills, stops, owned, upset>>

Take(t, s) ==
    /\ Pick(t, s)
    /\ \E q \in Read(t, s) \ {0} :
          job' = [job EXCEPT
                     ![t].step = "fund", ![t].todo = @ \ {s},
                     ![t].symbol = {s}, ![t].quantity = q,
                     ![t].held = s \in DOMAIN holdings,
                     ![t].result = Quantity(holdings, s) + q]
    /\ UNCHANGED <<positions, holdings, funds, fills, stops, owned, upset>>

Size(quantity) == IF quantity < 0 THEN -quantity ELSE quantity

\* Mutant: the sale of a holding is booked like a purchase.
TransferOnly(j) == [funds EXCEPT !.used = @ - Size(j.quantity)]

\* transfer_margin_to_holdings for a purchase and for a new holding,
\* credit_sale_proceeds for a sale of what is held.
Transfer(j) ==
    IF j.held /\ j.quantity < 0
    THEN [funds EXCEPT !.available = @ + Size(j.quantity)]
    ELSE [funds EXCEPT !.used = @ - Size(j.quantity)]

\* The rows that the session has marked go with its next commit.
Committed(j, rows) == Without(rows, j.leaving)

\* Mutant: the position of the loop goes with the commit of the funds, which
\* come before the holding.
FundBeforeHolding(t) ==
    LET j == job[t]
    IN  /\ j.step = "fund"
        /\ funds' = Transfer(j)
        /\ positions' = Without(positions, j.leaving \cup j.symbol)
        /\ holdings' = Without(holdings, j.empty)
        /\ job' = [job EXCEPT ![t].step = "mark", ![t].loaded = Nothing,
                              ![t].leaving = {}, ![t].empty = {}]
        /\ UNCHANGED <<fills, stops, owned, upset>>

\* The UPDATE of a holding needs the row that was read, the INSERT needs that
\* there is none.
CanCommit(j) == j.held <=> j.symbol \subseteq DOMAIN holdings

\* Mutant: the marks of the loop wait for its last commit.
FundKeepsMarks(t) ==
    LET j == job[t]
    IN  /\ j.step = "fund"
        /\ CanCommit(j)
        /\ funds' = Transfer(j)
        /\ holdings' =
              [s \in DOMAIN holdings \cup j.symbol |->
                  IF s \in j.symbol THEN j.result ELSE holdings[s]]
        /\ job' = [job EXCEPT ![t].step = "mark", ![t].loaded = Nothing]
        /\ UNCHANGED <<positions, fills, stops, owned, upset>>

\* The commit of the fund operation.
Fund(t) ==
    LET j == job[t]
    IN  /\ j.step = "fund"
        /\ CanCommit(j)
        /\ funds' = Transfer(j)
        /\ positions' = Committed(j, positions)
        /\ holdings' =
              [s \in (DOMAIN holdings \cup j.symbol) \ j.empty |->
                  IF s \in j.symbol THEN j.result ELSE holdings[s]]
        /\ job' = [job EXCEPT ![t].step = "mark", ![t].loaded = Nothing,
                              ![t].leaving = {}, ![t].empty = {}]
        /\ UNCHANGED <<fills, stops, owned, upset>>

\* It fails: the rollback takes along the deletions marked so far, and the loop
\* ignores the result.
FundFails(t) ==
    LET j == job[t]
    IN  /\ j.step = "fund"
        /\ CanCommit(j) => "failure" \notin upset
        /\ job' = [job EXCEPT ![t].step = "mark", ![t].loaded = Nothing,
                              ![t].leaving = {}, ![t].empty = {}]
        /\ Upset("failure")
        /\ UNCHANGED <<positions, holdings, funds, fills, stops, owned>>

\* Mutant: a row that was settled is left to another job.
KeepPosition(t) ==
    /\ job[t].step = "mark"
    /\ job' = [job EXCEPT ![t].step = "loop", ![t].symbol = {},
                          ![t].quantity = 0, ![t].held = FALSE, ![t].result = 0]
    /\ UNCHANGED <<positions, holdings, funds, fills, stops, owned, upset>>

\* Both rows are loaded again; the position is marked for deletion, and so is
\* a holding that has come to nothing.
Mark(t) ==
    LET j == job[t]
        spent == {s \in j.symbol : j.held /\ holdings[s] = 0}
    IN  /\ j.step = "mark"
        /\ j.symbol \subseteq DOMAIN positions
        /\ j.held => j.symbol \subseteq DOMAIN holdings
        /\ job' = [job EXCEPT ![t].step = "loop", ![t].symbol = {},
                              ![t].quantity = 0, ![t].held = FALSE,
                              ![t].result = 0,
                              ![t].leaving = @ \cup j.symbol,
                              ![t].empty = @ \cup spent]
        /\ UNCHANGED <<positions, holdings, funds, fills, stops, owned, upset>>

Finish(t) ==
    LET j == job[t]
    IN  /\ j.step = "loop" /\ j.todo = {}
        /\ positions' = Committed(j, positions)
        /\ holdings' = Without(holdings, j.empty)
        /\ job' = [job EXCEPT ![t] = Idle]
        /\ UNCHANGED <<funds, fills, stops, owned, upset>>

\* A row that the session needs is gone: the exception ends the settlement and
\* its marks are rolled back.
Abort(t) ==
    LET j == job[t]
    IN  /\ \/ j.step = "loop" /\ j.todo # {} /\ Read(t, Min(j.todo)) = {}
           \/ /\ j.step = "mark"
              /\ \/ ~(j.symbol \subseteq DOMAIN positions)
                 \/ j.held /\ ~(j.symbol \subseteq DOMAIN holdings)
        /\ job' = [job EXCEPT ![t] = Idle]
        /\ UNCHANGED <<positions, holdings, funds, fills, stops, owned, upset>>

-----------------------------------------------------------------------------
(* Around it *)

\* An order fills into a row that is to be settled.
Fill(s, change) ==
    /\ fills < MaxFills
    /\ Quantity(positions, s) > 0
    /\ fills' = fills + 1
    /\ positions' = [positions EXCEPT ![s] = @ + change]
    /\ funds' = [used |-> funds.used + change,
                 available |-> funds.available - change]
    /\ owned' = [owned EXCEPT ![s] = @ + change]
    /\ Upset("fill")
    /\ UNCHANGED <<holdings, job, stops>>

\* The server stops and starts; its sessions are rolled back.
Stop ==
    /\ stops < MaxStops
    /\ ~Quiet
    /\ stops' = stops + 1
    /\ job' = [t \in Settlers |-> Idle]
    /\ Upset("stop")
    /\ UNCHANGED <<positions, holdings, funds, fills, owned>>

Step(t) ==
    \/ \E s \in Symbols : Skip(t, s) \/ Take(t, s)
    \/ Fund(t) \/ FundFails(t) \/ Mark(t) \/ Finish(t) \/ Abort(t)

Next ==
    \/ \E t \in Settlers : Query(t) \/ Step(t)
    \/ \E s \in Symbols, change \in {1, -1} : Fill(s, change)
    \/ Stop

\* The jobs come back every day and at every start.
Daily(t) == Query(t) \/ Step(t)

Spec == Init /\ [][Next]_vars
FairSpec == Spec /\ \A t \in Settlers : WF_vars(Daily(t))

-----------------------------------------------------------------------------
(* Properties *)

Shares(s) == Quantity(holdings, s) + Quantity(positions, s)

\* A settlement that nothing disturbs neither makes nor loses a share: the
\* quantity of a row is in the holdings exactly when the row is gone.
SettlementKeepsShares ==
    Quiet /\ upset = {} => \A s \in Symbols : Shares(s) = owned[s]

\* Whatever the stops and overlaps of settlements, no bought share vanishes: a
\* row is deleted only after its shares have been committed to the holdings.
NoPurchaseVanishes ==
    upset \subseteq {"stop", "overlap"} =>
        \A s \in DOMAIN Purchases : Shares(s) >= owned[s]

\* Shares and money move in one commit: at a price of 1, what the user has in
\* cash, margin and holdings stays the same through fills and failures.
WorthKept ==
    upset \subseteq {"fill", "failure"} =>
        funds.used + funds.available + SumFunction(holdings)
            = SumFunction(Purchases) + SumFunction(Held)

\* What the session j has settled and not yet deleted: positions whose holding
\* is committed, and holdings that came to nothing.
GoneRows(j) == j.leaving \cup (IF j.step = "mark" THEN j.symbol ELSE {})
GoneHoldings(j) ==
    j.empty \cup {s \in j.symbol : /\ j.step = "mark" /\ j.held
                                   /\ Quantity(holdings, s) = 0}

Unsettled == Without(positions, UNION {GoneRows(job[t]) : t \in Settlers})
InHand == Without(holdings, UNION {GoneHoldings(job[t]) : t \in Settlers})

Atomic == INSTANCE AtomicSettlement WITH rows <- Unsettled, holdings <- InHand

\* Whoever reads both tables between two commits, like the check of a delivery
\* sale, may find a row counted twice, when it is in the holdings already and not
\* deleted yet; never two rows at once, and no row not at all.
AtMostOneTwice ==
    /\ \A s \in Symbols : Shares(s) \in {owned[s], owned[s] + Quantity(positions, s)}
    /\ \A r, s \in Symbols : Shares(r) # owned[r] /\ Shares(s) # owned[s] => r = s

\* A settlement that nothing disturbs settles row by row: each row has its share,
\* money and end in the commit of its fund operation, as far as the settlement
\* itself goes, and since the loop deletes the row with its next commit, the
\* tables show it twice until then, but no second one with it.
SettlesRowByRow ==
    /\ Atomic!Init /\ AtMostOneTwice
    /\ [][upset' = {} => Atomic!Step /\ AtMostOneTwice']_vars

Settled == positions = Nothing

\* Every delivery position is settled in the end and for good, also after stops.
EveryRowSettled == <>[]Settled
=============================================================================
