---------------------------- MODULE SandboxFunds ----------------------------
(***************************************************************************)
(* The row of sandbox_funds and what each method of sandbox/fund_manager.py *)
(* does to it, as operators on a record of three amounts:                  *)
(*                                                                         *)
(*   available   available_balance, cash that new orders may block         *)
(*   used        used_margin, cash blocked by orders and positions         *)
(*   realized    realized_pnl, all-time booked profit and loss             *)
(*                                                                         *)
(* Money is an integer number of the smallest unit.  total_capital never   *)
(* changes between resets and is the constant StartingCapital.  The        *)
(* today_realized_pnl, unrealized_pnl and total_pnl columns feed displays  *)
(* and no decision of the code, so they are left out.                      *)
(***************************************************************************)
EXTENDS Integers

CONSTANTS
    StartingCapital,  \* config starting_capital, what a new row and a reset hold
    Leverage          \* config leverage of the traded instrument (_get_leverage)

ASSUME StartingCapitalAssumption == StartingCapital \in Nat
ASSUME LeverageAssumption == Leverage \in Nat \ {0}

Funds == [available: Int, used: Int, realized: Int]

\* initialize_funds and _reset_funds write the same row.
InitialFunds == [available |-> StartingCapital, used |-> 0, realized |-> 0]

\* calculate_margin_required: trade value over leverage.
MarginRequired(quantity, price) == (quantity * price) \div Leverage

\* Mutant: the balance is never compared with the amount.
CanBlockUnchecked(f, amount) == TRUE

\* check_margin_available, and the same test again inside block_margin.
CanBlock(f, amount) == f.available >= amount

BlockMargin(f, amount) ==
    [f EXCEPT !.available = @ - amount, !.used = @ + amount]

\* Mutant: used_margin is left as it was.
ReleaseAvailableOnly(f, amount, pnl) ==
    [f EXCEPT !.available = @ + amount + pnl, !.realized = @ + pnl]

\* release_margin returns the margin and books the P&L; nothing keeps
\* used from falling below zero.
ReleaseMargin(f, amount, pnl) ==
    [available |-> f.available + amount + pnl,
     used      |-> f.used - amount,
     realized  |-> f.realized + pnl]

\* Mutant: the discrepancy is written off instead of returned.
ReconcileUsedOnly(f, positionMargin) == [f EXCEPT !.used = positionMargin]

\* reconcile_margin with auto_fix: used becomes the sum of the margins of the
\* open positions and the difference goes to the available balance.
ReconcileMargin(f, positionMargin) ==
    [f EXCEPT !.used = positionMargin,
              !.available = @ + (f.used - positionMargin)]

\* What the row says the user owns in cash, blocked or not.
Cash(f) == f.available + f.used
=============================================================================
