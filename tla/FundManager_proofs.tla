------------------------- MODULE FundManager_proofs -------------------------
(***************************************************************************)
(* What FundManager promises for every set of threads, every capital and   *)
(* every margin and profit.                                                *)
(***************************************************************************)
EXTENDS FundManager, Sums_proofs, TLAPS

\* The columns of a funds row.
LEMMA FundsColumns ==
    ASSUME NEW f \in Funds
    PROVE  f.available \in Int /\ f.used \in Int /\ f.realized \in Int
  BY DEF Funds

LEMMA BlockMarginType ==
    ASSUME NEW f \in Funds, NEW m \in Int
    PROVE  /\ BlockMargin(f, m) \in Funds
           /\ BlockMargin(f, m).available = f.available - m
           /\ BlockMargin(f, m).used = f.used + m
           /\ BlockMargin(f, m).realized = f.realized
  <1> DEFINE available == f.available - m
             used == f.used + m
             new == [f EXCEPT !.available = available, !.used = used]
  <1>1. available \in Int /\ used \in Int
    BY FundsColumns
  <1>2. BlockMargin(f, m) = new
    BY DEF BlockMargin
  <1>3. new \in Funds /\ new.available = available /\ new.used = used
        /\ new.realized = f.realized
    <2> HIDE DEF available, used
    <2>1. QED
      BY <1>1 DEF Funds
  <1> HIDE DEF new
  <1>4. QED
    BY <1>2, <1>3

LEMMA ReleaseMarginType ==
    ASSUME NEW f \in Funds, NEW m \in Int, NEW pnl \in Int
    PROVE  /\ ReleaseMargin(f, m, pnl) \in Funds
           /\ ReleaseMargin(f, m, pnl).available = f.available + m + pnl
           /\ ReleaseMargin(f, m, pnl).used = f.used - m
           /\ ReleaseMargin(f, m, pnl).realized = f.realized + pnl
  BY FundsColumns DEF ReleaseMargin, Funds

\* What a reconciliation that read the row and the margins leaves in the table.
LEMMA OverwrittenType ==
    ASSUME NEW read \in Funds, NEW margins \in Int, funds \in Funds
    PROVE  /\ Overwritten(read, margins) \in Funds
           /\ Overwritten(read, margins).available
                = read.available + (read.used - margins)
           /\ Overwritten(read, margins).used = margins
           /\ Overwritten(read, margins).realized = funds.realized
  <1> DEFINE available == read.available + (read.used - margins)
             fixed == ReconcileMargin(read, margins)
             new == [funds EXCEPT !.used = margins, !.available = available]
  <1>1. available \in Int
    BY FundsColumns
  <1>2. fixed.used = margins /\ fixed.available = available
    <2> HIDE DEF available
    <2>1. fixed = [read EXCEPT !.used = margins, !.available = available]
      BY DEF ReconcileMargin, available
    <2>2. QED
      BY <2>1, <1>1 DEF Funds
  <1>3. Overwritten(read, margins) = new
    BY <1>2 DEF Overwritten
  <1>4. new \in Funds /\ new.available = available /\ new.used = margins
        /\ new.realized = funds.realized
    <2> HIDE DEF available
    <2>1. QED
      BY <1>1 DEF Funds
  <1> HIDE DEF new
  <1>5. QED
    BY <1>3, <1>4

LEMMA ResetType ==
    ASSUME NEW read \in Funds, funds \in Funds
    PROVE  Reset(read) \in Funds
  BY StartingCapitalAssumption DEF Reset, Funds

LEMMA InitialFundsType == InitialFunds \in Funds
  BY StartingCapitalAssumption DEF InitialFunds, Funds

LEMMA MarginsInt == \A m \in Margins : m \in Int /\ m \in Nat
  BY AmountsAssumption DEF Margins

\* Margins can be summed up.
LEMMA MarginsAreIntegers ==
    ASSUME NEW f \in [Threads -> Margins] PROVE f \in [Threads -> Int]
  BY MarginsInt

\* The margins that the steps of a thread work with.
LEMMA ThreadMargins ==
    ASSUME TypeOK, NEW t \in Threads
    PROVE  amount[t] \in Int /\ amount[t] \in Margins /\ rows[t] \in Int
  <1>1. amount[t] \in Amounts /\ rows[t] \in Margins
    BY DEF TypeOK
  <1>2. amount[t] \in Margins
    BY <1>1 DEF Margins
  <1>3. QED
    BY <1>1, <1>2, MarginsInt
-----------------------------------------------------------------------------
(***************************************************************************)
(* Type correctness, one step per action.                                  *)
(***************************************************************************)
LEMMA GotoType ==
    ASSUME TypeOK, NEW t \in Threads \cup Resetters, NEW from,
           NEW to \in Stages \cup ResetStages, Goto(t, from, to)
    PROVE  stage' \in [Threads \cup Resetters -> Stages \cup ResetStages]
  BY DEF TypeOK, Goto

LEMMA ForgetType ==
    ASSUME TypeOK, NEW t \in Threads \cup Resetters, Forget(t)
    PROVE  snapshot' \in [Threads \cup Resetters -> [margins: Int, row: Funds]]
  <1>1. NoSnapshot \in [margins: Int, row: Funds]
    BY InitialFundsType DEF NoSnapshot
  <1>2. QED
    BY <1>1 DEF TypeOK, Forget
\* The steps of one thread.
ThreadStep(t) ==
    \/ CheckMargin(t) \/ Cancel(t) \/ Fill(t)
    \/ Release(t) \/ ReleaseFails(t) \/ Proceed(t)

LEMMA TypeStep ==
    ASSUME TypeOK, [Next]_vars
    PROVE  TypeOK'
  <1>1. /\ funds \in Funds
        /\ rows \in [Threads -> Margins]
        /\ stage \in [Threads \cup Resetters -> Stages \cup ResetStages]
        /\ amount \in [Threads -> Amounts]
        /\ snapshot \in [Threads \cup Resetters -> [margins: Int, row: Funds]]
        /\ lock \in SUBSET Resetters
        /\ resets \in Nat
    BY DEF TypeOK
  <1>2. \A t \in Threads : amount[t] \in Int /\ amount[t] \in Margins
    BY ThreadMargins
  <1>3. CASE UNCHANGED vars
    BY <1>3 DEF vars, TypeOK
  <1>4. ASSUME NEW t \in Threads, ThreadStep(t)
        PROVE  TypeOK'
    <2>1. CASE CheckMargin(t)
      <3>1. stage' \in [Threads \cup Resetters -> Stages \cup ResetStages]
        BY <2>1, GotoType DEF CheckMargin, Stages
      <3>2. QED
        BY <2>1, <3>1 DEF CheckMargin, TypeOK
    <2>2. CASE Block(t)
      <3>1. stage' \in [Threads \cup Resetters -> Stages \cup ResetStages]
        BY <2>2, GotoType DEF Block, Stages
      <3>2. funds' \in Funds
        BY <1>1, <1>2, <2>2, BlockMarginType DEF Block
      <3>3. QED
        BY <2>2, <3>1, <3>2 DEF Block, TypeOK
    <2>3. CASE Cancel(t)
      <3>1. stage' \in [Threads \cup Resetters -> Stages \cup ResetStages]
        BY <2>3, GotoType DEF Cancel, Stages
      <3>2. funds' \in Funds
        BY <1>1, <1>2, <2>3, ReleaseMarginType DEF Cancel
      <3>3. QED
        BY <2>3, <3>1, <3>2 DEF Cancel, TypeOK
    <2>4. CASE Fill(t)
      <3>1. stage' \in [Threads \cup Resetters -> Stages \cup ResetStages]
        BY <2>4, GotoType DEF Fill, Stages
      <3>2. rows' \in [Threads -> Margins]
        BY <1>1, <1>2, <2>4 DEF Fill
      <3>3. QED
        BY <2>4, <3>1, <3>2 DEF Fill, TypeOK
    <2>5. CASE Release(t)
      <3>1. stage' \in [Threads \cup Resetters -> Stages \cup ResetStages]
        BY <2>5, GotoType DEF Release, Stages
      <3>2. rows[t] \in Int
        BY <1>1, MarginsInt
      <3>3. funds' \in Funds
        BY <1>1, <2>5, <3>2, PnlsAssumption, ReleaseMarginType DEF Release
      <3>4. QED
        BY <2>5, <3>1, <3>3 DEF Release, TypeOK
    <2>0. CASE ReleaseFails(t)
      <3>1. stage' \in [Threads \cup Resetters -> Stages \cup ResetStages]
        BY <2>0, GotoType DEF ReleaseFails, Stages
      <3>2. QED
        BY <2>0, <3>1 DEF ReleaseFails, TypeOK
    <2>6. CASE CloseRow(t)
      <3>1. stage' \in [Threads \cup Resetters -> Stages \cup ResetStages]
        BY <2>6, GotoType DEF CloseRow, Stages
      <3>2. rows' \in [Threads -> Margins]
        BY <1>1, <2>6 DEF CloseRow, Margins
      <3>3. QED
        BY <2>6, <3>1, <3>2 DEF CloseRow, TypeOK
    <2>7. CASE ValidateRows(t) \/ ReconcileRows(t)
      <3>1. PICK from, to \in Stages : ReadRows(t, from, to)
        BY <2>7 DEF ValidateRows, ReconcileRows, Stages
      <3>2. stage' \in [Threads \cup Resetters -> Stages \cup ResetStages]
        BY <3>1, GotoType DEF ReadRows
      <3>3. SumFunction(rows) \in Int
        <4>1. rows \in [Threads -> Int]
          BY <1>1, MarginsAreIntegers
        <4>2. QED
          BY <4>1, ThreadsAssumption, SumType
      <3>4. snapshot' \in [Threads \cup Resetters -> [margins: Int, row: Funds]]
        BY <1>1, <3>1, <3>3 DEF ReadRows
      <3>5. QED
        BY <3>1, <3>2, <3>4 DEF ReadRows, TypeOK
    <2>8. CASE ValidateFunds(t)
      <3>1. stage' \in [Threads \cup Resetters -> Stages \cup ResetStages]
        BY <2>8, GotoType DEF ValidateFunds, Settled, Stages
      <3>2. snapshot' \in [Threads \cup Resetters -> [margins: Int, row: Funds]]
        BY <2>8, ForgetType DEF ValidateFunds
      <3>3. QED
        BY <2>8, <3>1, <3>2 DEF ValidateFunds, TypeOK
    <2>9. CASE ReconcileFunds(t)
      <3>1. stage' \in [Threads \cup Resetters -> Stages \cup ResetStages]
        BY <2>9, GotoType DEF ReconcileFunds, Settled, Stages
      <3>2. snapshot' \in [Threads \cup Resetters -> [margins: Int, row: Funds]]
        <4>1. CASE Forget(t)
          BY <4>1, ForgetType
        <4>2. CASE snapshot' = [snapshot EXCEPT ![t].row = funds]
          BY <1>1, <4>2
        <4>3. QED
          BY <2>9, <4>1, <4>2 DEF ReconcileFunds
      <3>3. QED
        BY <2>9, <3>1, <3>2 DEF ReconcileFunds, TypeOK
    <2>10. CASE ReconcileWrite(t)
      <3>1. stage' \in [Threads \cup Resetters -> Stages \cup ResetStages]
        BY <2>10, GotoType DEF ReconcileWrite, Settled, Stages
      <3>2. snapshot' \in [Threads \cup Resetters -> [margins: Int, row: Funds]]
        BY <2>10, ForgetType DEF ReconcileWrite
      <3>3. snapshot[t].row \in Funds /\ snapshot[t].margins \in Int
        BY <1>1
      <3>4. funds' \in Funds
        BY <1>1, <2>10, <3>3, OverwrittenType DEF ReconcileWrite
      <3>5. raced' \in BOOLEAN /\ disturbed' \in BOOLEAN
        BY <2>10 DEF ReconcileWrite, TypeOK
      <3>6. QED
        BY <2>10, <3>1, <3>2, <3>4, <3>5 DEF ReconcileWrite, TypeOK
    <2>11. QED
      BY <1>4, <2>0, <2>1, <2>2, <2>3, <2>4, <2>5, <2>6, <2>7, <2>8, <2>9, <2>10
         DEF ThreadStep, Proceed
  <1>5. ASSUME NEW r \in Resetters, DecideReset(r) \/ ProceedReset(r)
        PROVE  TypeOK'
    <2>1. CASE DecideReset(r)
      <3>1. stage' \in [Threads \cup Resetters -> Stages \cup ResetStages]
        BY <2>1, GotoType DEF DecideReset, ResetStages
      <3>2. snapshot' \in [Threads \cup Resetters -> [margins: Int, row: Funds]]
        BY <1>1, <2>1 DEF DecideReset
      <3>3. QED
        BY <2>1, <3>1, <3>2 DEF DecideReset, TypeOK
    <2>2. CASE ResetFunds(r)
      <3>1. stage' \in [Threads \cup Resetters -> Stages \cup ResetStages]
        BY <2>2, GotoType DEF ResetFunds, ResetStages
      <3>2. snapshot' \in [Threads \cup Resetters -> [margins: Int, row: Funds]]
        BY <2>2, ForgetType DEF ResetFunds
      <3>3. snapshot[r].row \in Funds
        BY <1>1
      <3>4. funds' \in Funds
        BY <1>1, <2>2, <3>3, ResetType DEF ResetFunds
      <3>5. lock' \in SUBSET Resetters
        BY <2>2 DEF ResetFunds
      <3>6. resets' \in Nat
        BY <1>1, <2>2 DEF ResetFunds
      <3>7. raced' \in BOOLEAN /\ disturbed' \in BOOLEAN /\ due' \in BOOLEAN
        BY <2>2 DEF ResetFunds, TypeOK
      <3>8. QED
        BY <2>2, <3>1, <3>2, <3>4, <3>5, <3>6, <3>7 DEF ResetFunds, TypeOK
    <2>3. CASE DeletePositions(r)
      <3>1. stage' \in [Threads \cup Resetters -> Stages \cup ResetStages]
        BY <2>3, GotoType DEF DeletePositions, ResetStages
      <3>2. rows' \in [Threads -> Margins] /\ lock' \in SUBSET Resetters
        BY <1>1, <2>3 DEF DeletePositions, Margins
      <3>3. QED
        BY <2>3, <3>1, <3>2 DEF DeletePositions, TypeOK
    <2>4. QED
      BY <1>5, <2>1, <2>2, <2>3 DEF ProceedReset
  <1>6. CASE ResetTimePasses
    BY <1>6 DEF ResetTimePasses, TypeOK
  <1>7. QED
    BY <1>3, <1>4, <1>5, <1>6 DEF Next, ThreadStep

LEMMA TypeInit == Init => TypeOK
  <1> SUFFICES ASSUME Init PROVE TypeOK
    OBVIOUS
  <1>1. NoSnapshot \in [margins: Int, row: Funds]
    BY InitialFundsType DEF NoSnapshot
  <1>2. rows \in [Threads -> Margins]
    BY DEF Init, Margins
  <1>3. QED
    BY <1>1, <1>2, InitialFundsType DEF Init, TypeOK, Stages

\* Every reachable state of the concurrent fund manager is well typed; the lock
\* is only ever kept across steps by a reset.
THEOREM TypeCorrect == Spec => []TypeOK
  <1>1. QED
    BY TypeInit, TypeStep, PTL DEF Spec

-----------------------------------------------------------------------------
(***************************************************************************)
(* Conservation.                                                           *)
(***************************************************************************)

LEMMA ConservedStep ==
    ASSUME TypeOK, ConservedUnlessRaced, [Next]_vars
    PROVE  ConservedUnlessRaced'
  <1>1. funds \in Funds /\ funds.available \in Int /\ funds.used \in Int
        /\ funds.realized \in Int
    BY FundsColumns DEF TypeOK
  <1>2. \A t \in Threads : amount[t] \in Int /\ rows[t] \in Int
    BY ThreadMargins
  <1>3. CASE UNCHANGED <<funds, raced>>
    BY <1>3 DEF ConservedUnlessRaced, Conserved, Cash
  <1>4. ASSUME NEW m \in Int, NEW pnl \in Int, UNCHANGED raced,
               \/ funds' = BlockMargin(funds, m)
               \/ funds' = ReleaseMargin(funds, m, pnl)
        PROVE  ConservedUnlessRaced'
    <2>1. ASSUME NEW a \in Int, NEW p \in Int,
                 funds'.available = funds.available + a + p,
                 funds'.used = funds.used - a,
                 funds'.realized = funds.realized + p
          PROVE  ConservedUnlessRaced'
      BY <1>1, <1>4, <2>1, StartingCapitalAssumption
         DEF ConservedUnlessRaced, Conserved, Cash
    <2>2. CASE funds' = BlockMargin(funds, m)
      <3> DEFINE a == 0 - m
      <3>1. a \in Int
        BY <1>4
      <3>2. /\ funds'.available = funds.available + a + 0
            /\ funds'.used = funds.used - a
            /\ funds'.realized = funds.realized + 0
        <4>1. /\ funds'.available = funds.available - m
              /\ funds'.used = funds.used + m
              /\ funds'.realized = funds.realized
          BY <1>1, <1>4, <2>2, BlockMarginType
        <4>2. QED
          BY <1>1, <1>4, <4>1
      <3> HIDE DEF a
      <3>3. QED
        BY <2>1, <3>1, <3>2
    <2>3. CASE funds' = ReleaseMargin(funds, m, pnl)
      BY <1>1, <2>1, <2>3, ReleaseMarginType
    <2>4. QED
      BY <1>4, <2>2, <2>3
  <1>5. ASSUME NEW t \in Threads, ThreadStep(t)
        PROVE  ConservedUnlessRaced'
    <2>1. CASE Block(t)
      BY <1>2, <1>3, <1>4, <2>1 DEF Block
    <2>2. CASE Cancel(t)
      BY <1>2, <1>4, <2>2 DEF Cancel
    <2>3. CASE Release(t)
      BY <1>2, <1>4, <2>3, PnlsAssumption DEF Release
    <2>4. CASE ReconcileWrite(t)
      <3> SUFFICES ASSUME ~raced' PROVE Conserved'
        BY DEF ConservedUnlessRaced
      <3>1. snapshot[t].row = funds /\ Conserved
        BY <2>4 DEF ReconcileWrite, ConservedUnlessRaced
      <3>2. snapshot[t].margins \in Int
        BY DEF TypeOK
      <3>3. /\ funds'.available = funds.available + (funds.used - snapshot[t].margins)
            /\ funds'.used = snapshot[t].margins
            /\ funds'.realized = funds.realized
        BY <1>1, <2>4, <3>1, <3>2, OverwrittenType DEF ReconcileWrite
      <3>4. QED
        BY <1>1, <3>1, <3>2, <3>3 DEF Conserved, Cash
    <2>5. CASE CheckMargin(t) \/ Fill(t) \/ ReleaseFails(t) \/ CloseRow(t)
                 \/ ValidateRows(t) \/ ValidateFunds(t)
                 \/ ReconcileRows(t) \/ ReconcileFunds(t)
      BY <1>3, <2>5 DEF CheckMargin, Fill, ReleaseFails, CloseRow, ValidateRows,
                        ValidateFunds, ReconcileRows, ReconcileFunds, ReadRows
    <2>6. QED
      BY <1>5, <2>1, <2>2, <2>3, <2>4, <2>5 DEF ThreadStep, Proceed
  <1>6. ASSUME NEW r \in Resetters, ResetFunds(r)
        PROVE  ConservedUnlessRaced'
    <2> SUFFICES ASSUME ~raced' PROVE Conserved'
      BY DEF ConservedUnlessRaced
    <2>1. snapshot[r].row = funds
      BY <1>6 DEF ResetFunds
    <2>2. funds' = Reset(funds)
      BY <1>6, <2>1 DEF ResetFunds
    <2>3. funds'.available = StartingCapital /\ funds'.used = 0 /\ funds'.realized = 0
      BY <1>1, <2>2 DEF Reset
    <2>4. QED
      BY <2>3, StartingCapitalAssumption DEF Conserved, Cash
  <1>7. ASSUME NEW r \in Resetters, DecideReset(r) \/ DeletePositions(r)
        PROVE  ConservedUnlessRaced'
    BY <1>3, <1>7 DEF DecideReset, DeletePositions
  <1>8. CASE ResetTimePasses
    BY <1>3, <1>8 DEF ResetTimePasses
  <1>9. QED
    BY <1>3, <1>5, <1>6, <1>7, <1>8 DEF Next, ThreadStep, ProceedReset, vars

\* However the threads interleave, the cash of the row is the starting capital
\* plus the booked profit and loss, until a call writes from a row that another
\* thread changed after it was read.
THEOREM MoneyConservedUnlessRaced == Spec => []ConservedUnlessRaced
  <1>1. Init => ConservedUnlessRaced
    BY StartingCapitalAssumption DEF Init, InitialFunds, ConservedUnlessRaced,
       Conserved, Cash
  <1>2. QED
    BY <1>1, ConservedStep, TypeCorrect, PTL DEF Spec

\* block_margin never spends money that is not there, although the check that
\* let the caller through was made before it had the lock.
THEOREM BlockIsSafe == Spec => BlockNeverOverdraws
  <1> DEFINE Safe == \A t \in Threads :
                        stage[t] = "checked" /\ stage'[t] = "open"
                          => funds'.available >= 0
  <1>1. ASSUME TypeOK, NEW t \in Threads, Block(t), stage'[t] = "open"
        PROVE  funds'.available >= 0
    <2>1. CanBlock(funds, amount[t]) /\ funds' = BlockMargin(funds, amount[t])
      BY <1>1 DEF Block, Goto, TypeOK
    <2>2. funds \in Funds /\ amount[t] \in Int /\ funds.available \in Int
      BY <1>1, ThreadMargins, FundsColumns DEF TypeOK
    <2>3. funds'.available = funds.available - amount[t]
      BY <2>1, <2>2, BlockMarginType
    <2>4. QED
      BY <2>1, <2>2, <2>3 DEF CanBlock
  <1>2. ASSUME TypeOK, [Next]_vars, NEW t \in Threads, stage[t] = "checked",
               stage'[t] = "open"
        PROVE  Block(t)
    <2>1. ASSUME NEW u \in Threads \cup Resetters, NEW from, NEW to, u # t,
                 Goto(u, from, to)
          PROVE  FALSE
      BY <1>2, <2>1 DEF Goto, TypeOK
    <2>2. ASSUME NEW from, NEW to, Goto(t, from, to)
          PROVE  from = "checked" /\ to = "open"
      BY <1>2, <2>2 DEF Goto, TypeOK
    <2>3. ASSUME NEW u \in Threads, ThreadStep(u), ~Block(u)
          PROVE  FALSE
      BY <2>1, <2>2, <2>3
         DEF ThreadStep, Proceed, CheckMargin, Cancel, Fill, Release, ReleaseFails, CloseRow,
             ValidateRows, ValidateFunds, ReconcileRows, ReconcileFunds, ReadRows,
             ReconcileWrite
    <2>4. ASSUME NEW r \in Resetters, DecideReset(r) \/ ProceedReset(r)
          PROVE  FALSE
      <3>1. r # t
        BY ThreadsAssumption
      <3>2. QED
        BY <2>1, <2>4, <3>1
           DEF DecideReset, ProceedReset, ResetFunds, DeletePositions
    <2>5. ~(ResetTimePasses \/ UNCHANGED vars)
      BY <1>2 DEF ResetTimePasses, vars
    <2>6. PICK u \in Threads : Block(u)
      BY <1>2, <2>3, <2>4, <2>5 DEF Next, ThreadStep
    <2>7. u = t
      BY <2>1, <2>6 DEF Block
    <2>8. QED
      BY <2>6, <2>7
  <1>3. TypeOK /\ [Next]_vars => [Safe]_vars
    BY <1>1, <1>2
  <1>4. QED
    BY <1>3, TypeCorrect, PTL DEF Spec, BlockNeverOverdraws
-----------------------------------------------------------------------------
(***************************************************************************)
(* used_margin is the margin that is held.  UsedIsHeld alone is not        *)
(* inductive: it needs that the position row of a thread holds nothing or  *)
(* the margin of its order, nothing before the fill, and that a reset      *)
(* which is about to delete the rows has been recorded.                    *)
(***************************************************************************)
BeforeFill == {"idle", "checked", "refused", "open", "cancelled"}

RowsInv ==
    \A t \in Threads :
        /\ rows[t] \in {0, amount[t]}
        /\ stage[t] \in BeforeFill => rows[t] = 0

DeletingInv == \A r \in Resetters : stage[r] = "deleting" => disturbed

HeldInv ==
    /\ DeletingInv
    /\ ~disturbed => RowsInv /\ funds.used = SumFunction(HeldMap)

LEMMA HeldMapType == TypeOK => HeldMap \in [Threads -> Margins]
  <1> SUFFICES ASSUME TypeOK PROVE HeldMap \in [Threads -> Margins]
    OBVIOUS
  <1>1. \A t \in Threads : Held(t) \in Margins
    BY ThreadMargins DEF Held, Margins
  <1>2. QED
    BY <1>1 DEF HeldMap

\* A step of one thread changes the sum by what changes for that thread.
LEMMA SumOfStep ==
    ASSUME TypeOK, TypeOK', NEW t \in Threads,
           \A u \in Threads \ {t} : Held(u)' = Held(u)
    PROVE  SumFunction(HeldMap)' = SumFunction(HeldMap) + (Held(t)' - Held(t))
  <1>0. HeldMap \in [Threads -> Margins] /\ (HeldMap \in [Threads -> Margins])'
    BY HeldMapType, PTL
  <1>1. HeldMap \in [Threads -> Margins] /\ HeldMap' \in [Threads -> Margins]
    BY <1>0
  <1>2. /\ HeldMap'[t] = Held(t)' /\ HeldMap[t] = Held(t)
        /\ \A u \in Threads \ {t} : HeldMap'[u] = HeldMap[u]
    BY DEF HeldMap
  <1>3. HeldMap \in [Threads -> Int] /\ HeldMap' \in [Threads -> Int]
    BY <1>1, MarginsAreIntegers
  <1>4. SumFunction(HeldMap') = SumFunction(HeldMap) + (HeldMap'[t] - HeldMap[t])
    BY <1>2, <1>3, ThreadsAssumption, SumOfOneChange
  <1>5. QED
    BY <1>2, <1>4

\* What a thread holds depends on its own stage, row and amount.
LEMMA OthersHold ==
    ASSUME TypeOK, NEW t \in Threads, NEW from, NEW to, Goto(t, from, to),
           UNCHANGED amount, \A u \in Threads \ {t} : rows'[u] = rows[u]
    PROVE  \A u \in Threads \ {t} : Held(u)' = Held(u) /\ stage'[u] = stage[u]
  <1>1. \A u \in Threads \ {t} : stage'[u] = stage[u]
    BY DEF Goto, TypeOK
  <1>2. QED
    BY <1>1 DEF Held

\* The invariant after a step of thread t on the row that it moved to "to".
LEMMA HeldStep ==
    ASSUME TypeOK, TypeOK', HeldInv, NEW t \in Threads,
           NEW from \in Stages, NEW to \in Stages, Goto(t, from, to),
           UNCHANGED <<amount, disturbed>>,
           \A u \in Threads \ {t} : rows'[u] = rows[u],
           ~disturbed => /\ rows'[t] \in {0, amount[t]}
                         /\ to \in BeforeFill => rows'[t] = 0
                         /\ funds'.used = funds.used + (Held(t)' - Held(t))
    PROVE  HeldInv'
  <1>1. \A u \in Threads \ {t} : Held(u)' = Held(u) /\ stage'[u] = stage[u]
    BY OthersHold
  <1>2. stage'[t] = to
    BY DEF Goto, TypeOK
  <1>3. DeletingInv'
    <2>1. \A r \in Resetters : stage'[r] = stage[r]
      BY ThreadsAssumption DEF Goto, TypeOK
    <2>2. QED
      BY <2>1 DEF DeletingInv, HeldInv
  <1>4. ASSUME ~disturbed
        PROVE  RowsInv'
    BY <1>1, <1>2, <1>4 DEF RowsInv, HeldInv
  <1>5. ASSUME ~disturbed
        PROVE  funds'.used = SumFunction(HeldMap)'
    <2>1. SumFunction(HeldMap)' = SumFunction(HeldMap) + (Held(t)' - Held(t))
      BY <1>1, SumOfStep
    <2>2. funds.used = SumFunction(HeldMap)
      BY <1>5 DEF HeldInv
    <2>3. QED
      BY <1>5, <2>1, <2>2
  <1>6. QED
    BY <1>3, <1>4, <1>5 DEF HeldInv

LEMMA HeldInit == Init => HeldInv
  <1> SUFFICES ASSUME Init PROVE HeldInv
    OBVIOUS
  <1>1. \A t \in Threads : Held(t) = 0 /\ rows[t] = 0
    BY DEF Init, Held
  <1>2. HeldMap = [t \in Threads |-> 0]
    BY <1>1 DEF HeldMap
  <1>3. funds.used = SumFunction(HeldMap)
    <2>1. SumFunction(HeldMap) = 0
      BY <1>2, ThreadsAssumption, SumOfZeros
    <2>2. QED
      BY <2>1 DEF Init, InitialFunds
  <1>4. DeletingInv
    BY DEF Init, DeletingInv
  <1>5. QED
    BY <1>1, <1>3, <1>4 DEF HeldInv, RowsInv

LEMMA HeldNext ==
    ASSUME TypeOK, TypeOK', HeldInv, [Next]_vars
    PROVE  HeldInv'
  <1>1. funds \in Funds /\ funds.used \in Int
    BY FundsColumns DEF TypeOK
  <1>2. \A t \in Threads : /\ amount[t] \in Int /\ amount[t] > 0
                           /\ amount[t] \in Margins /\ rows[t] \in Int
    BY ThreadMargins, AmountsAssumption DEF TypeOK
  <1>3. ASSUME UNCHANGED <<rows, amount, stage>>, UNCHANGED <<funds, disturbed>>
        PROVE  HeldInv'
    <2>1. SumFunction(HeldMap)' = SumFunction(HeldMap)
      BY <1>3 DEF HeldMap, Held
    <2>2. RowsInv' = RowsInv /\ DeletingInv' = DeletingInv
      BY <1>3 DEF RowsInv, DeletingInv
    <2>3. QED
      BY <1>3, <2>1, <2>2 DEF HeldInv
  <1>4. ASSUME NEW t \in Threads, ThreadStep(t)
        PROVE  HeldInv'
    <2>1. ~disturbed => /\ rows[t] \in {0, amount[t]}
                        /\ stage[t] \in BeforeFill => rows[t] = 0
      BY DEF HeldInv, RowsInv
    <2>2. ASSUME NEW from \in Stages \ {"open", "closing"},
                 NEW to \in Stages \ {"open", "closing"}, Goto(t, from, to),
                 to \in BeforeFill => from \in BeforeFill,
                 UNCHANGED <<rows, amount, funds, disturbed>>
          PROVE  HeldInv'
      <3>1. stage[t] = from /\ stage'[t] = to
        BY <2>2 DEF Goto, TypeOK
      <3>2. Held(t)' = Held(t)
        BY <2>2, <3>1 DEF Held
      <3>3. Held(t) \in Int
        BY <1>2 DEF Held
      <3>4. funds'.used = funds.used + (Held(t)' - Held(t))
        BY <1>1, <2>2, <3>2, <3>3
      <3>5. ~disturbed => (to \in BeforeFill => rows'[t] = 0)
        BY <2>1, <2>2, <3>1
      <3>6. QED
        BY <2>1, <2>2, <3>4, <3>5, HeldStep
    <2>3. CASE CheckMargin(t)
      BY <2>2, <2>3 DEF CheckMargin, Stages, BeforeFill
    <2>4. CASE ValidateRows(t) \/ ReconcileRows(t)
      BY <2>2, <2>4 DEF ValidateRows, ReconcileRows, ReadRows, Stages, BeforeFill
    <2>5. CASE ValidateFunds(t)
      BY <2>2, <2>5 DEF ValidateFunds, Settled, Stages, BeforeFill
    <2>6. CASE ReconcileFunds(t)
      BY <2>2, <2>6 DEF ReconcileFunds, Settled, Stages, BeforeFill
    <2>7. CASE Block(t)
      <3>1. CASE Goto(t, "checked", "refused") /\ UNCHANGED funds
        BY <2>2, <2>7, <3>1 DEF Block, Stages, BeforeFill
      <3>2. CASE /\ Goto(t, "checked", "open")
                 /\ funds' = BlockMargin(funds, amount[t])
        <4>1. stage[t] = "checked" /\ stage'[t] = "open"
              /\ UNCHANGED <<rows, amount, disturbed>>
          BY <2>7, <3>2 DEF Block, Goto, TypeOK
        <4>2. funds'.used = funds.used + amount[t]
          BY <1>1, <1>2, <3>2, BlockMarginType
        <4>3. ~disturbed => Held(t) = 0 /\ Held(t)' = amount[t]
          BY <2>1, <4>1 DEF Held, BeforeFill
        <4>4. ~disturbed => funds'.used = funds.used + (Held(t)' - Held(t))
          BY <1>1, <1>2, <4>2, <4>3
        <4>5. ~disturbed => rows'[t] \in {0, amount[t]} /\ rows'[t] = 0
          BY <2>1, <4>1 DEF BeforeFill
        <4>6. QED
          BY <3>2, <4>1, <4>4, <4>5, HeldStep DEF Stages
      <3>3. QED
        BY <2>7, <3>1, <3>2 DEF Block
    <2>8. CASE Cancel(t)
      <3>1. stage[t] = "open" /\ stage'[t] = "cancelled"
            /\ UNCHANGED <<rows, amount, disturbed>>
        BY <2>8 DEF Cancel, Goto, TypeOK
      <3>2. funds'.used = funds.used - amount[t]
        BY <1>1, <1>2, <2>8, ReleaseMarginType DEF Cancel
      <3>3. ~disturbed => Held(t) = amount[t] /\ Held(t)' = 0
        BY <2>1, <3>1 DEF Held, BeforeFill
      <3>4. ~disturbed => funds'.used = funds.used + (Held(t)' - Held(t))
        BY <1>1, <1>2, <3>2, <3>3
      <3>5. ~disturbed => rows'[t] \in {0, amount[t]} /\ rows'[t] = 0
        BY <2>1, <3>1 DEF BeforeFill
      <3>6. QED
        BY <2>8, <3>1, <3>4, <3>5, HeldStep DEF Cancel, Stages
    <2>9. CASE Fill(t)
      <3>1. stage[t] = "open" /\ stage'[t] = "filled"
            /\ UNCHANGED <<funds, amount, disturbed>>
        BY <2>9 DEF Fill, Goto, TypeOK
      <3>2. /\ rows'[t] = amount[t]
            /\ \A u \in Threads \ {t} : rows'[u] = rows[u]
        BY <2>9 DEF Fill, TypeOK
      <3>3. Held(t) = amount[t] /\ Held(t)' = amount[t]
        BY <1>2, <3>1, <3>2 DEF Held
      <3>4. funds'.used = funds.used + (Held(t)' - Held(t))
        BY <1>1, <1>2, <3>1, <3>3
      <3>5. QED
        BY <2>9, <3>1, <3>2, <3>4, HeldStep DEF Fill, Stages, BeforeFill
    <2>10. CASE Release(t)
      <3>1. stage[t] = "position" /\ stage'[t] = "closing" /\ rows[t] > 0
            /\ UNCHANGED <<rows, amount, disturbed>>
        BY <2>10 DEF Release, Goto, TypeOK
      <3>2. funds'.used = funds.used - rows[t]
        BY <1>1, <1>2, <2>10, PnlsAssumption, ReleaseMarginType DEF Release
      <3>3. ~disturbed => rows[t] = amount[t]
        BY <1>2, <2>1, <3>1
      <3>4. Held(t) = amount[t] /\ Held(t)' = 0
        BY <3>1 DEF Held
      <3>5. ~disturbed => funds'.used = funds.used + (Held(t)' - Held(t))
        BY <1>1, <1>2, <3>2, <3>3, <3>4
      <3>6. QED
        BY <2>1, <2>10, <3>1, <3>5, HeldStep DEF Release, Stages, BeforeFill
    <2>11. CASE CloseRow(t)
      <3>1. PICK to \in {"filled", "finished"} : Goto(t, "closing", to)
        BY <2>11 DEF CloseRow
      <3>2. stage[t] = "closing" /\ stage'[t] = to
            /\ UNCHANGED <<funds, amount, disturbed>>
        BY <2>11, <3>1 DEF CloseRow, Goto, TypeOK
      <3>3. /\ rows'[t] = 0
            /\ \A u \in Threads \ {t} : rows'[u] = rows[u]
        BY <2>11 DEF CloseRow, TypeOK
      <3>4. Held(t) = 0 /\ Held(t)' = 0
        BY <3>1, <3>2, <3>3 DEF Held
      <3>5. funds'.used = funds.used + (Held(t)' - Held(t))
        BY <1>1, <3>2, <3>4
      <3>6. QED
        BY <3>1, <3>2, <3>3, <3>5, HeldStep DEF Stages, BeforeFill
    <2>12. CASE ReleaseFails(t) \/ ReconcileWrite(t)
      <3>1. disturbed'
        BY <2>12 DEF ReleaseFails, ReconcileWrite
      <3>2. QED
        BY <3>1 DEF HeldInv, DeletingInv
    <2>13. QED
      BY <1>4, <2>3, <2>4, <2>5, <2>6, <2>7, <2>8, <2>9, <2>10, <2>11, <2>12
         DEF ThreadStep, Proceed
  <1>5. ASSUME NEW r \in Resetters, DecideReset(r)
        PROVE  HeldInv'
    <2>1. UNCHANGED <<rows, amount, funds, disturbed>>
      BY <1>5 DEF DecideReset
    <2>2. \A t \in Threads : stage'[t] = stage[t]
      BY <1>5, ThreadsAssumption DEF DecideReset, Goto, TypeOK
    <2>3. \A q \in Resetters : stage'[q] = "deleting" => stage[q] = "deleting"
      BY <1>5 DEF DecideReset, Goto, TypeOK
    <2>4. SumFunction(HeldMap)' = SumFunction(HeldMap)
      <3>1. \A t \in Threads : Held(t)' = Held(t)
        BY <2>1, <2>2 DEF Held
      <3>2. HeldMap' = HeldMap
        BY <3>1 DEF HeldMap
      <3>3. QED
        BY <3>2
    <2>5. QED
      BY <2>1, <2>2, <2>3, <2>4 DEF HeldInv, RowsInv, DeletingInv
  <1>6. ASSUME NEW r \in Resetters, ProceedReset(r)
        PROVE  HeldInv'
    <2>1. CASE ResetFunds(r)
      BY <2>1 DEF ResetFunds, HeldInv, DeletingInv
    <2>2. CASE DeletePositions(r)
      BY <2>2 DEF DeletePositions, Goto, HeldInv, DeletingInv
    <2>3. QED
      BY <1>6, <2>1, <2>2 DEF ProceedReset
  <1>7. CASE ResetTimePasses \/ UNCHANGED vars
    BY <1>3, <1>7 DEF ResetTimePasses, vars
  <1>8. QED
    BY <1>4, <1>5, <1>6, <1>7 DEF Next, ThreadStep

\* In every interleaving of the commits, used_margin is the margin of the orders
\* that wait and of the positions that are open, until a release fails or a
\* reconciliation or a reset moves margin.
THEOREM UsedMarginIsHeld == Spec => []UsedIsHeld
  <1>1. HeldInv => UsedIsHeld
    BY DEF HeldInv, UsedIsHeld, HeldMap
  <1>2. TypeOK /\ TypeOK' /\ HeldInv /\ [Next]_vars => HeldInv'
    BY HeldNext
  <1>3. QED
    BY <1>1, <1>2, HeldInit, TypeCorrect, PTL DEF Spec
-----------------------------------------------------------------------------
(***************************************************************************)
(* The refinement of MarginAccount.  Four steps are steps of the account:  *)
(* the block that succeeds takes, the cancellation and the release give    *)
(* back.  HeldInv says that a position row holds the margin of its order,  *)
(* so that the release, which reads the row, gives back what was taken.    *)
(***************************************************************************)
Untaken == {"idle", "checked", "refused"}

\* What a step of one thread leaves of the margins, in terms of the account.
LEMMA AccountOfStep ==
    ASSUME TypeOK, NEW t \in Threads, NEW from, NEW to, Goto(t, from, to),
           UNCHANGED amount, \A u \in Threads \ {t} : rows'[u] = rows[u]
    PROVE  /\ HeldMap' = [HeldMap EXCEPT ![t] = Held(t)']
           /\ to \notin Untaken => Taken' = Taken \cup {t}
           /\ from \in Untaken => t \notin Taken
           /\ (from \in Untaken <=> to \in Untaken) => Taken' = Taken
  <1>1. stage[t] = from /\ stage'[t] = to
    BY DEF Goto, TypeOK
  <1>2. \A u \in Threads \ {t} : Held(u)' = Held(u) /\ stage'[u] = stage[u]
    BY OthersHold
  <1>3. HeldMap' = [HeldMap EXCEPT ![t] = Held(t)']
    BY <1>2 DEF HeldMap
  <1>4. /\ to \notin Untaken => Taken' = Taken \cup {t}
        /\ from \in Untaken => t \notin Taken
        /\ (from \in Untaken <=> to \in Untaken) => Taken' = Taken
    BY <1>1, <1>2 DEF Taken, Untaken
  <1>5. QED
    BY <1>3, <1>4

\* A step that moves no margin is none of the account.
LEMMA AccountKept ==
    ASSUME TypeOK, NEW t \in Threads, NEW from, NEW to, Goto(t, from, to),
           from \in Untaken <=> to \in Untaken, UNCHANGED <<amount, funds>>,
           \A u \in Threads \ {t} : rows'[u] = rows[u], Held(t)' = Held(t)
    PROVE  UNCHANGED Account!vars
  <1>1. HeldMap' = [HeldMap EXCEPT ![t] = Held(t)'] /\ Taken' = Taken
    BY AccountOfStep
  <1>2. HeldMap[t] = Held(t) /\ HeldMap' = HeldMap
    BY <1>1 DEF HeldMap
  <1>3. QED
    BY <1>1, <1>2 DEF Account!vars

\* An order that gets its margin back.
LEMMA AccountGivesBack ==
    ASSUME TypeOK, NEW t \in Threads, NEW from, NEW to, Goto(t, from, to),
           from \notin Untaken, to \notin Untaken, UNCHANGED <<amount, rows>>,
           Held(t) = amount[t], Held(t)' = 0, NEW pnl \in Pnls \cup {0},
           funds' = ReleaseMargin(funds, amount[t], pnl)
    PROVE  Account!GiveBack(t)
  <1>1. /\ HeldMap' = [HeldMap EXCEPT ![t] = 0] /\ Taken' = Taken
        /\ HeldMap[t] = amount[t]
    BY AccountOfStep DEF HeldMap
  <1>2. amount[t] \in Int /\ amount[t] > 0 /\ pnl \in Int /\ funds \in Funds
    BY ThreadMargins, AmountsAssumption, PnlsAssumption DEF TypeOK
  <1>3. /\ funds'.available = funds.available + amount[t] + pnl
        /\ funds'.realized = funds.realized + pnl
    BY <1>2, ReleaseMarginType
  <1>4. QED
    BY <1>1, <1>2, <1>3 DEF Account!GiveBack

LEMMA AccountStep ==
    ASSUME TypeOK, HeldInv, [Next]_vars, ~disturbed'
    PROVE  Account!Step
  <1>1. \A t \in Threads : /\ amount[t] \in Int /\ amount[t] > 0
                           /\ rows[t] \in Int
    BY ThreadMargins, AmountsAssumption DEF TypeOK
  <1>2. ASSUME UNCHANGED <<funds, rows, amount>>,
               \A t \in Threads : stage'[t] = stage[t]
        PROVE  UNCHANGED Account!vars
    <2>1. \A t \in Threads : Held(t)' = Held(t)
      BY <1>2 DEF Held
    <2>2. HeldMap' = HeldMap /\ Taken' = Taken
      BY <1>2, <2>1 DEF HeldMap, Taken
    <2>3. QED
      BY <1>2, <2>2 DEF Account!vars
  <1>3. ASSUME NEW t \in Threads, ThreadStep(t)
        PROVE  Account!Take(t) \/ Account!GiveBack(t) \/ UNCHANGED Account!vars
    <2>1. CASE ReleaseFails(t) \/ ReconcileWrite(t)
      BY <2>1 DEF ReleaseFails, ReconcileWrite
    <2>2. ASSUME ~(ReleaseFails(t) \/ ReconcileWrite(t))
          PROVE  ~disturbed
      BY <1>3, <2>2 DEF ThreadStep, Proceed, CheckMargin, Cancel, Fill, Release,
         Block, CloseRow, ValidateRows, ReconcileRows, ReadRows, ValidateFunds,
         ReconcileFunds
    <2>3. ~(ReleaseFails(t) \/ ReconcileWrite(t)) =>
             /\ rows[t] \in {0, amount[t]}
             /\ stage[t] \in BeforeFill => rows[t] = 0
      BY <2>2 DEF HeldInv, RowsInv
    <2>4. ASSUME NEW from \in Stages \ {"open", "closing"},
                 NEW to \in Stages \ {"open", "closing"}, Goto(t, from, to),
                 from \in Untaken <=> to \in Untaken,
                 UNCHANGED <<rows, amount, funds>>
          PROVE  UNCHANGED Account!vars
      <3>1. stage[t] = from /\ stage'[t] = to
        BY <2>4 DEF Goto, TypeOK
      <3>2. Held(t)' = Held(t)
        BY <2>4, <3>1 DEF Held
      <3>3. QED
        BY <2>4, <3>2, AccountKept
    <2>5. CASE CheckMargin(t)
      BY <2>4, <2>5 DEF CheckMargin, Stages, Untaken
    <2>6. CASE ValidateRows(t) \/ ReconcileRows(t)
      BY <2>4, <2>6 DEF ValidateRows, ReconcileRows, ReadRows, Stages, Untaken
    <2>7. CASE ValidateFunds(t)
      BY <2>4, <2>7 DEF ValidateFunds, Settled, Stages, Untaken
    <2>8. CASE ReconcileFunds(t)
      BY <2>4, <2>8 DEF ReconcileFunds, Settled, Stages, Untaken
    <2>9. CASE Block(t)
      <3>1. CASE Goto(t, "checked", "refused") /\ UNCHANGED funds
        BY <2>4, <2>9, <3>1 DEF Block, Stages, Untaken
      <3>2. CASE /\ CanBlock(funds, amount[t])
                 /\ Goto(t, "checked", "open")
                 /\ funds' = BlockMargin(funds, amount[t])
        <4>1. UNCHANGED <<rows, amount>> /\ stage'[t] = "open"
          BY <2>9, <3>2 DEF Block, Goto, TypeOK
        <4>2. /\ HeldMap' = [HeldMap EXCEPT ![t] = amount[t]]
              /\ Taken' = Taken \cup {t} /\ t \notin Taken
          <5>1. Held(t)' = amount[t]
            BY <4>1 DEF Held
          <5>2. QED
            BY <3>2, <4>1, <5>1, AccountOfStep DEF Untaken
        <4>3. funds \in Funds /\ funds.available \in Int
          BY FundsColumns DEF TypeOK
        <4>4. /\ funds'.available = funds.available - amount[t]
              /\ funds'.realized = funds.realized
          BY <1>1, <3>2, <4>3, BlockMarginType
        <4>5. amount[t] \in 1 .. funds.available
          BY <1>1, <3>2, <4>3 DEF CanBlock
        <4>6. Account!Take(t)
          BY <4>2, <4>4, <4>5 DEF Account!Take
        <4>7. QED
          BY <4>6
      <3>3. QED
        BY <2>9, <3>1, <3>2 DEF Block
    <2>10. CASE Cancel(t)
      <3>1. stage[t] = "open" /\ stage'[t] = "cancelled"
            /\ UNCHANGED <<rows, amount, disturbed>>
        BY <2>10 DEF Cancel, Goto, TypeOK
      <3>2. Held(t) = amount[t] /\ Held(t)' = 0
        <4>1. rows[t] = 0
          BY <3>1 DEF HeldInv, RowsInv, BeforeFill
        <4>2. QED
          BY <3>1, <4>1 DEF Held
      <3>3. Account!GiveBack(t)
        BY <2>10, <3>1, <3>2, AccountGivesBack DEF Cancel, Untaken
      <3>4. QED
        BY <3>3
    <2>11. CASE Fill(t)
      <3>1. stage[t] = "open" /\ stage'[t] = "filled"
            /\ UNCHANGED <<funds, amount>>
        BY <2>11 DEF Fill, Goto, TypeOK
      <3>2. /\ rows'[t] = amount[t]
            /\ \A u \in Threads \ {t} : rows'[u] = rows[u]
        BY <2>11 DEF Fill, TypeOK
      <3>3. Held(t) = amount[t] /\ Held(t)' = amount[t]
        BY <1>1, <3>1, <3>2 DEF Held
      <3>4. UNCHANGED Account!vars
        BY <2>11, <3>1, <3>2, <3>3, AccountKept DEF Fill, Untaken
      <3>5. QED
        BY <3>4
    <2>12. CASE Release(t)
      <3>1. stage[t] = "position" /\ stage'[t] = "closing" /\ rows[t] > 0
            /\ UNCHANGED <<rows, amount, disturbed>>
        BY <2>12 DEF Release, Goto, TypeOK
      <3>2. rows[t] = amount[t]
        BY <1>1, <3>1 DEF HeldInv, RowsInv
      <3>3. Held(t) = amount[t] /\ Held(t)' = 0
        BY <3>1 DEF Held
      <3>4. PICK pnl \in Pnls : funds' = ReleaseMargin(funds, amount[t], pnl)
        BY <2>12, <3>2 DEF Release
      <3>5. Account!GiveBack(t)
        BY <2>12, <3>1, <3>3, <3>4, AccountGivesBack DEF Release, Untaken
      <3>6. QED
        BY <3>5
    <2>13. CASE CloseRow(t)
      <3>1. PICK to \in {"filled", "finished"} : Goto(t, "closing", to)
        BY <2>13 DEF CloseRow
      <3>2. stage[t] = "closing" /\ stage'[t] = to /\ UNCHANGED <<funds, amount>>
        BY <2>13, <3>1 DEF CloseRow, Goto, TypeOK
      <3>3. /\ rows'[t] = 0
            /\ \A u \in Threads \ {t} : rows'[u] = rows[u]
        BY <2>13 DEF CloseRow, TypeOK
      <3>4. Held(t)' = Held(t)
        BY <3>1, <3>2, <3>3 DEF Held
      <3>5. UNCHANGED Account!vars
        BY <3>1, <3>2, <3>3, <3>4, AccountKept DEF Untaken
      <3>6. QED
        BY <3>5
    <2>14. QED
      BY <1>3, <2>1, <2>5, <2>6, <2>7, <2>8, <2>9, <2>10, <2>11, <2>12, <2>13
         DEF ThreadStep, Proceed
  <1>4. ASSUME NEW r \in Resetters, DecideReset(r)
        PROVE  UNCHANGED Account!vars
    <2>1. \A t \in Threads : stage'[t] = stage[t]
      BY <1>4, ThreadsAssumption DEF DecideReset, Goto, TypeOK
    <2>2. QED
      BY <1>2, <1>4, <2>1 DEF DecideReset
  <1>5. ASSUME NEW r \in Resetters
        PROVE  ~ProceedReset(r)
    BY <1>5 DEF ProceedReset, ResetFunds, DeletePositions, HeldInv, DeletingInv, Goto
  <1>6. CASE ResetTimePasses \/ UNCHANGED vars
    <2>1. UNCHANGED <<funds, rows, amount, stage>>
      BY <1>6 DEF ResetTimePasses, vars
    <2>2. UNCHANGED Account!vars
      BY <1>2, <2>1
    <2>3. QED
      BY <2>2 DEF Account!Step
  <1>7. QED
    BY <1>3, <1>4, <1>5, <1>6
       DEF Next, ThreadStep, Account!Step, Account!Next

\* In every interleaving the fund manager is a margin account to each order, until
\* a release fails or a reconciliation or a reset moves margin: an order takes its margin from free
\* cash once, and gets it back once.
THEOREM AccountIsKept == Spec => KeepsAccount
  <1>1. Init => Account!Init
    <2> SUFFICES ASSUME Init PROVE Account!Init
      OBVIOUS
    <2>1. \A t \in Threads : Held(t) = 0
      BY DEF Init, Held
    <2>2. HeldMap = [t \in Threads |-> 0] /\ Taken = {}
      BY <2>1 DEF HeldMap, Taken, Init
    <2>3. QED
      BY <2>2 DEF Account!Init, Init, InitialFunds
  <1>2. TypeOK /\ TypeOK' /\ HeldInv /\ [Next]_vars => HeldInv'
    BY HeldNext
  <1>3. TypeOK /\ HeldInv /\ [Next]_vars => [~disturbed' => Account!Step]_vars
    BY AccountStep
  <1>4. QED
    BY <1>1, <1>2, <1>3, HeldInit, TypeCorrect, PTL DEF Spec, KeepsAccount
=============================================================================
