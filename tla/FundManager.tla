---------------------------- MODULE FundManager ----------------------------
(***************************************************************************)
(* The funds row of one user under concurrent callers, commit by commit.   *)
(*                                                                         *)
(* Each thread of Threads runs the fund side of one order in an instrument *)
(* of its own: place_order checks the balance without the lock and blocks  *)
(* the margin under it; the fill writes the position row and then, without *)
(* the lock, validates and reconciles; the closing fill releases first and *)
(* writes the position row in a later commit.  The threads of Resetters    *)
(* are get_funds calls and the scheduler's reset_all_user_funds, which     *)
(* meet when a weekly reset is due.                                        *)
(*                                                                         *)
(* FundManager._lock is an RLock that a method holds from its first read   *)
(* to its last commit.  Only a reset commits twice under it, so it is the  *)
(* only method that is split; the others are single steps that wait for    *)
(* the lock to be free.                                                    *)
(***************************************************************************)
EXTENDS SandboxFunds, FiniteSets, Functions

CONSTANTS
    Threads,    \* request and engine threads, each with one order
    Resetters,  \* threads that may find a reset due
    Amounts,    \* margins that orders require
    Pnls        \* profit and loss of a closing fill

ASSUME AmountsAssumption == Amounts \subseteq Nat \ {0}
ASSUME PnlsAssumption == Pnls \subseteq Int
ASSUME ThreadsAssumption == IsFiniteSet(Threads) /\ Threads \cap Resetters = {}

\* The margin of a position row of the model.
Margins == Amounts \cup {0}

VARIABLES
    funds,     \* the row of sandbox_funds
    rows,      \* margin_blocked of the position row of each thread's instrument
    stage,     \* where each thread is in its call
    amount,    \* the margin of each thread's order
    snapshot,  \* what a thread read and will act on: position margins, the row
    lock,      \* the holders of FundManager._lock, at most one
    due,       \* last_reset_date lies before the reset time of today
    resets,    \* history: resets since one became due
    raced,     \* history: a call wrote from a row that had changed meanwhile
    disturbed  \* history: a release failed, a reconciliation or reset moved margins

vars == <<funds, rows, stage, amount, snapshot, lock, due, resets, raced,
          disturbed>>

Stages ==
    {"idle", "checked", "refused", "open", "cancelled",
     "filled", "seenRows", "differs", "reread", "toFix", "position",
     "closing", "finished"}
ResetStages == {"idle", "decided", "deleting", "finished"}
NoSnapshot == [margins |-> 0, row |-> InitialFunds]

Init ==
    /\ funds = InitialFunds
    /\ rows = [t \in Threads |-> 0]
    /\ stage = [t \in Threads \cup Resetters |-> "idle"]
    /\ amount \in [Threads -> Amounts]
    /\ snapshot = [t \in Threads \cup Resetters |-> NoSnapshot]
    /\ lock = {}
    /\ due = FALSE
    /\ resets = 0
    /\ raced = FALSE
    /\ disturbed = FALSE

Goto(t, from, to) ==
    /\ stage[t] = from
    /\ stage' = [stage EXCEPT ![t] = to]

-----------------------------------------------------------------------------
(* Placing and cancelling *)

\* check_margin_available: reads the row without the lock.
CheckMargin(t) ==
    /\ \/ CanBlock(funds, amount[t]) /\ Goto(t, "idle", "checked")
       \/ ~CanBlock(funds, amount[t]) /\ Goto(t, "idle", "refused")
    /\ UNCHANGED <<funds, rows, amount, snapshot, lock, due, resets, raced,
                   disturbed>>

\* Mutant: block_margin trusts the check made before it got the lock.
BlockOnTrust(t) ==
    /\ lock = {}
    /\ Goto(t, "checked", "open")
    /\ funds' = BlockMargin(funds, amount[t])
    /\ UNCHANGED <<rows, amount, snapshot, lock, due, resets, raced, disturbed>>

\* block_margin tests the balance again under the lock.
Block(t) ==
    /\ lock = {}
    /\ \/ /\ CanBlock(funds, amount[t])
          /\ Goto(t, "checked", "open")
          /\ funds' = BlockMargin(funds, amount[t])
       \/ /\ ~CanBlock(funds, amount[t])
          /\ Goto(t, "checked", "refused")
          /\ UNCHANGED funds
    /\ UNCHANGED <<rows, amount, snapshot, lock, due, resets, raced, disturbed>>

\* Mutant: the status changes and the margin stays blocked.
CancelStatusOnly(t) ==
    /\ Goto(t, "open", "cancelled")
    /\ UNCHANGED <<funds, rows, amount, snapshot, lock, due, resets, raced,
                   disturbed>>

\* cancel_order: the status and the release are one commit, and a release that
\* fails takes the status back with it.
Cancel(t) ==
    /\ lock = {}
    /\ Goto(t, "open", "cancelled")
    /\ funds' = ReleaseMargin(funds, amount[t], 0)
    /\ UNCHANGED <<rows, amount, snapshot, lock, due, resets, raced, disturbed>>

-----------------------------------------------------------------------------
(* Filling and closing *)

\* Mutant: the position blocks its margin beside that of the order.
FillBlocksAgain(t) ==
    /\ Goto(t, "open", "filled")
    /\ rows' = [rows EXCEPT ![t] = amount[t]]
    /\ funds' = BlockMargin(funds, amount[t])
    /\ UNCHANGED <<amount, snapshot, lock, due, resets, raced, disturbed>>

\* _update_position commits the new row; the funds are not touched.
Fill(t) ==
    /\ Goto(t, "open", "filled")
    /\ rows' = [rows EXCEPT ![t] = amount[t]]
    /\ UNCHANGED <<funds, amount, snapshot, lock, due, resets, raced, disturbed>>

\* The closing fill releases the margin it read from the row ...
Release(t) ==
    /\ lock = {}
    /\ rows[t] > 0
    /\ Goto(t, "position", "closing")
    /\ \E pnl \in Pnls : funds' = ReleaseMargin(funds, rows[t], pnl)
    /\ UNCHANGED <<rows, amount, snapshot, lock, due, resets, raced, disturbed>>

\* ... or fails to, rolls back, and tells a caller that does not look ...
ReleaseFails(t) ==
    /\ lock = {}
    /\ rows[t] > 0
    /\ Goto(t, "position", "closing")
    /\ disturbed' = TRUE
    /\ UNCHANGED <<funds, rows, amount, snapshot, lock, due, resets, raced>>

\* ... and writes the row in the next commit, which fails when a reset has
\* deleted it meanwhile.
CloseRow(t) ==
    /\ \/ rows[t] > 0 /\ Goto(t, "closing", "filled")
       \/ rows[t] = 0 /\ Goto(t, "closing", "finished")
    /\ rows' = [rows EXCEPT ![t] = 0]
    /\ UNCHANGED <<funds, amount, snapshot, lock, due, resets, raced, disturbed>>

-----------------------------------------------------------------------------
(* validate_margin_consistency and reconcile_margin: no lock *)

ReadRows(t, from, to) ==
    /\ Goto(t, from, to)
    /\ snapshot' = [snapshot EXCEPT ![t].margins = SumFunction(rows)]
    /\ UNCHANGED <<funds, rows, amount, lock, due, resets, raced, disturbed>>

\* The thread ends where its order left the position.
Settled(t) == IF rows[t] > 0 THEN "position" ELSE "finished"

ValidateRows(t) == ReadRows(t, "filled", "seenRows")

\* The locals of a call are gone when it returns.
Forget(t) == snapshot' = [snapshot EXCEPT ![t] = NoSnapshot]

ValidateFunds(t) ==
    /\ \/ /\ funds.used = snapshot[t].margins
          /\ Goto(t, "seenRows", Settled(t))
       \/ /\ funds.used # snapshot[t].margins
          /\ Goto(t, "seenRows", "differs")
    /\ Forget(t)
    /\ UNCHANGED <<funds, rows, amount, lock, due, resets, raced, disturbed>>

ReconcileRows(t) == ReadRows(t, "differs", "reread")

ReconcileFunds(t) ==
    /\ \/ /\ funds.used = snapshot[t].margins
          /\ Goto(t, "reread", Settled(t))
          /\ Forget(t)
       \/ /\ funds.used # snapshot[t].margins
          /\ Goto(t, "reread", "toFix")
          /\ snapshot' = [snapshot EXCEPT ![t].row = funds]
    /\ UNCHANGED <<funds, rows, amount, lock, due, resets, raced, disturbed>>

\* The UPDATE writes the two columns that changed, computed from the row that
\* was read; realized_pnl keeps what is in the table.
Overwritten(read, margins) ==
    LET fixed == ReconcileMargin(read, margins)
    IN  [funds EXCEPT !.used = fixed.used, !.available = fixed.available]

ReconcileWrite(t) ==
    /\ Goto(t, "toFix", Settled(t))
    /\ funds' = Overwritten(snapshot[t].row, snapshot[t].margins)
    /\ raced' = (raced \/ funds # snapshot[t].row)
    /\ disturbed' = TRUE
    /\ Forget(t)
    /\ UNCHANGED <<rows, amount, lock, due, resets>>

-----------------------------------------------------------------------------
(* Reset *)

\* The reset time of the configured day passes, once in a behaviour.
ResetTimePasses ==
    /\ ~due
    /\ resets = 0
    /\ due' = TRUE
    /\ UNCHANGED <<funds, rows, stage, amount, snapshot, lock, resets, raced,
                   disturbed>>

\* _check_and_reset_funds decides on a row read without the lock.
DecideReset(r) ==
    /\ due
    /\ Goto(r, "idle", "decided")
    /\ snapshot' = [snapshot EXCEPT ![r].row = funds]
    /\ UNCHANGED <<funds, rows, amount, lock, due, resets, raced, disturbed>>

\* The ORM leaves a column out of the UPDATE when the value assigned is the one
\* that was read, so only the columns that differed then are reset.
Reset(read) ==
    [available |-> IF read.available = StartingCapital THEN funds.available
                                                      ELSE StartingCapital,
     used      |-> IF read.used = 0 THEN funds.used ELSE 0,
     realized  |-> IF read.realized = 0 THEN funds.realized ELSE 0]

\* _reset_funds commits the fresh row, of the object it was handed, and keeps
\* the lock ...
ResetFunds(r) ==
    /\ lock = {}
    /\ Goto(r, "decided", "deleting")
    /\ funds' = Reset(snapshot[r].row)
    /\ raced' = (raced \/ funds # snapshot[r].row)
    /\ lock' = {r}
    /\ due' = FALSE
    /\ resets' = resets + 1
    /\ disturbed' = TRUE
    /\ Forget(r)
    /\ UNCHANGED <<rows, amount>>

\* Mutant: the lock is not given back after the second commit.
DeleteAndKeepLock(r) ==
    /\ Goto(r, "deleting", "finished")
    /\ rows' = [t \in Threads |-> 0]
    /\ UNCHANGED <<funds, amount, snapshot, lock, due, resets, raced, disturbed>>

\* ... for the second commit, which deletes the positions.
DeletePositions(r) ==
    /\ Goto(r, "deleting", "finished")
    /\ rows' = [t \in Threads |-> 0]
    /\ lock' = lock \ {r}
    /\ UNCHANGED <<funds, amount, snapshot, due, resets, raced, disturbed>>

-----------------------------------------------------------------------------
\* Every step that the code takes by itself, once the call is under way.
Proceed(t) ==
    \/ Block(t) \/ CloseRow(t)
    \/ ValidateRows(t) \/ ValidateFunds(t)
    \/ ReconcileRows(t) \/ ReconcileFunds(t) \/ ReconcileWrite(t)

ProceedReset(r) == ResetFunds(r) \/ DeletePositions(r)

Next ==
    \/ \E t \in Threads :
          \/ CheckMargin(t) \/ Cancel(t) \/ Fill(t)
          \/ Release(t) \/ ReleaseFails(t) \/ Proceed(t)
    \/ \E r \in Resetters : DecideReset(r) \/ ProceedReset(r)
    \/ ResetTimePasses

Spec == Init /\ [][Next]_vars

\* The operating system runs every thread that can run.
Fairness ==
    /\ \A t \in Threads : WF_vars(Proceed(t))
    /\ \A r \in Resetters : WF_vars(ProceedReset(r))

FairSpec == Spec /\ Fairness

-----------------------------------------------------------------------------
(* Properties *)

TypeOK ==
    /\ funds \in Funds
    /\ rows \in [Threads -> Margins]
    /\ stage \in [Threads \cup Resetters -> Stages \cup ResetStages]
    /\ amount \in [Threads -> Amounts]
    /\ snapshot \in [Threads \cup Resetters -> [margins: Int, row: Funds]]
    /\ lock \in SUBSET Resetters
    /\ due \in BOOLEAN
    /\ resets \in Nat
    /\ raced \in BOOLEAN
    /\ disturbed \in BOOLEAN

\* The methods under the lock keep the books whatever the threads do: money
\* appears or vanishes only when a reconciliation, or a reset, writes from a
\* row that it read before another thread changed it.
Conserved == Cash(funds) = StartingCapital + funds.realized
ConservedUnlessRaced == ~raced => Conserved

\* The margin that the order or the position of a thread still holds: an order
\* in the book, or a position row that no closing fill has released.
Held(t) ==
    IF \/ stage[t] = "open"
       \/ stage[t] # "closing" /\ rows[t] > 0
    THEN amount[t] ELSE 0

HeldMap == [t \in Threads |-> Held(t)]

\* Until a release fails, or a reconciliation or a reset comes, used_margin is the
\* margin of the waiting orders and of the positions, in every interleaving of the
\* commits.
UsedIsHeld == ~disturbed => funds.used = SumFunction(HeldMap)

\* The threads whose order has had its margin blocked.
Taken == {t \in Threads : stage[t] \notin {"idle", "checked", "refused"}}

Account ==
    INSTANCE MarginAccount
    WITH Orders <- Threads, Capital <- StartingCapital,
         free <- funds.available, booked <- funds.realized,
         held <- HeldMap, taken <- Taken

\* To each order the fund manager is a margin account, in every interleaving:
\* the check without the lock, the fill, and the release in a commit before that
\* of the position row do not show.  A release that fails, reconciliations and
\* resets end this.
KeepsAccount == Account!Init /\ [][~disturbed' => Account!Step]_vars

\* Two orders that both passed check_margin_available never spend the same
\* money: when block_margin succeeds the balance stays non-negative.
BlockNeverOverdraws ==
    [][\A t \in Threads :
          stage[t] = "checked" /\ stage'[t] = "open" => funds'.available >= 0]_vars

\* A caller that passed the check gets its answer: no thread keeps the lock.
BlockReturns ==
    \A t \in Threads : stage[t] = "checked" ~> stage[t] # "checked"

-----------------------------------------------------------------------------
(* Statements of the repository that the code does not keep *)

\* _lock: "thread safety across all fund operations".
LockProtectsFunds == Conserved

\* _check_and_reset_funds: "we haven't reset today".
ResetOnce == resets <= 1
=============================================================================
