---------------------- MODULE Settlements_proofs ----------------------------
(*****************************************************************************)
(* The settlement of delivery positions (ST, Settlement.tla) and of expired  *)
(* and stale positions (EX, Expiry.tla), as theorems about the server.       *)
(* Both have one inductive invariant: what a thread has read, and what it has *)
(* committed so far, in relation to the tables.                              *)
(*****************************************************************************)
EXTENDS Server, Sums_proofs, WellFoundedInduction, TLAPS

-----------------------------------------------------------------------------
(* Expiry: a closing is booked once *)

SettleSteps == {"idle", "loop", "release", "clear", "settle"}
IsJob(x) ==
    x \in [step: SettleSteps, todo: SUBSET EX!Positions, cached: BOOLEAN,
           seen: SUBSET EX!Positions, position: SUBSET EX!Positions, margin: {0, 1},
           funds: {x.funds}]

\* What a thread may settle: a lister positions in expired contracts, a catch-up
\* stale ones.
Rows(t) == IF t \in Listers THEN Expired ELSE Stale

\* A job of thread t.  It settles one position at a time, out of its rows.
FitsThread(t, x) ==
    /\ IsJob(x)
    /\ x.step = "idle" => x = EX!Idle
    /\ x.step \in {"release", "clear"} => t \in Listers
    /\ x.step = "settle" => t \in CatchUps /\ \E f : x.funds = {f}
    /\ x.todo \subseteq Rows(t) /\ x.position \subseteq Rows(t)
    /\ IF x.step \in {"release", "clear", "settle"}
       THEN \E p \in EX!Positions : x.position = {p}
       ELSE x.position = {}

\* What the job has read is what the rows contain: the set of the open ones.
IsCurrent(x, rows) ==
    /\ x.cached => x.seen = rows
    /\ x.step = "release" => x.margin = 1
    /\ x.step \in {"release", "clear"} => x.position \subseteq rows
    /\ x.step = "settle" => \A p \in x.position : x.margin = IF p \in rows THEN 1 ELSE 0

SettlerType ==
    /\ exJob = [t \in EX!Threads |-> exJob[t]]
    /\ \A t \in EX!Threads : FitsThread(t, exJob[t])
    /\ exOpen \subseteq EX!Positions
    /\ exBooked \in [EX!Positions -> Int]

\* Without an overlap one thread settles, and what it has read is true.
OneSettler ==
    /\ \A t, u \in EX!Threads : exJob[t].step # "idle" /\ exJob[u].step # "idle" => t = u
    /\ \A t \in EX!Threads : IsCurrent(exJob[t], exOpen)

\* A position is between its two commits.
BetweenCommits(p) == \E t \in EX!Threads : exJob[t].step = "clear" /\ p \in exJob[t].position

\* The closing of a position is booked when its row is closed, or between the two
\* commits of the settlement of an expired contract.
ClosedIsBooked ==
    /\ \A p \in Stale \ Expired : exBooked[p] = IF p \in exOpen THEN 0 ELSE 1
    /\ exUpset \subseteq {"race", "clamp"} =>
          \A p \in Expired : exBooked[p] = IF p \in exOpen /\ ~BetweenCommits(p) THEN 0 ELSE 1

ExpiryInv == SettlerType /\ ("overlap" \notin exUpset => OneSettler /\ ClosedIsBooked)

LEMMA MinOfTodo ==
    ASSUME NEW S \in SUBSET Nat, S # {}
    PROVE  EX!Min(S) \in S
  <1>1. PICK x \in S : \A y \in S : ~(<<y, x>> \in OpToRel(<, Nat))
    BY WFMin, NatLessThanWellFounded
  <1>2. \A y \in S : <<y, x>> \in Nat \X Nat
    OBVIOUS
  <1>3. \A y \in S : ~(y < x)
    BY <1>1, <1>2 DEF OpToRel
  <1>4. \A y \in S : x =< y
    BY <1>3
  <1>5. QED
    BY <1>4 DEF EX!Min

\* The next row is one of those that are left.
LEMMA PickedIsLeft ==
    ASSUME SettlerType, NEW t \in EX!Threads, NEW p \in EX!Positions, EX!Pick(t, p)
    PROVE  p \in exJob[t].todo
  <1>1. exJob[t].todo \subseteq EX!Positions
    BY DEF SettlerType, FitsThread, IsJob
  <1>2. exJob[t].todo \in SUBSET Nat
    BY <1>1, ExpiryAssumption DEF EX!Positions
  <1>3. QED
    BY <1>2, MinOfTodo DEF EX!Pick

LEMMA IdleJob ==
    /\ \A t : FitsThread(t, EX!Idle)
    /\ \A rows : IsCurrent(EX!Idle, rows)
    /\ EX!Idle.step = "idle" /\ EX!Idle.todo = {} /\ EX!Idle.position = {}
  <1>1. IsJob(EX!Idle) /\ EX!Idle.step = "idle" /\ EX!Idle.todo = {}
        /\ EX!Idle.position = {} /\ ~EX!Idle.cached
    BY DEF IsJob, EX!Idle, SettleSteps
  <1>2. QED
    BY <1>1 DEF FitsThread, IsCurrent

LEMMA ExpiryInit == EX!Init => ExpiryInv
  <1> SUFFICES ASSUME EX!Init PROVE ExpiryInv
    OBVIOUS
  <1>1. \A t \in EX!Threads : exJob[t] = EX!Idle
    BY DEF EX!Init
  <1>2. SettlerType
    <2>1. exJob = [t \in EX!Threads |-> exJob[t]]
      BY <1>1 DEF EX!Init
    <2>2. exOpen \subseteq EX!Positions /\ exBooked \in [EX!Positions -> Int]
      BY DEF EX!Init
    <2>3. QED
      BY <1>1, <2>1, <2>2, IdleJob DEF SettlerType
  <1>3. OneSettler
    BY <1>1, IdleJob DEF OneSettler
  <1>4. ClosedIsBooked
    BY <1>1, IdleJob DEF EX!Init, ClosedIsBooked, EX!Positions, BetweenCommits
  <1>5. QED
    BY <1>2, <1>3, <1>4 DEF ExpiryInv

\* One thread goes on with its job, the others stay where they are.
JobOf(t, x) == exJob' = [u \in EX!Threads |-> IF u = t THEN x ELSE exJob[u]]

LEMMA JobKeepsType ==
    ASSUME SettlerType, NEW t \in EX!Threads, NEW x, JobOf(t, x), FitsThread(t, x),
           exOpen' \subseteq EX!Positions, exBooked' \in [EX!Positions -> Int]
    PROVE  SettlerType'
  BY DEF SettlerType, JobOf

\* The thread that goes on is the only one, when it is in its loop or all are idle.
LEMMA JobKeepsOneSettler ==
    ASSUME SettlerType, NEW t \in EX!Threads, NEW x, JobOf(t, x),
           \A u \in EX!Threads \ {t} : exJob[u].step = "idle", IsCurrent(x, exOpen')
    PROVE  OneSettler'
  <1>1. \A u \in EX!Threads \ {t} : exJob[u] = EX!Idle
    BY DEF SettlerType, FitsThread
  <1>2. \A u \in EX!Threads : IsCurrent(exJob'[u], exOpen')
    BY <1>1, IdleJob DEF JobOf
  <1>3. \A u \in EX!Threads \ {t} : exJob'[u].step = "idle"
    BY DEF JobOf
  <1>4. QED
    BY <1>2, <1>3 DEF OneSettler

\* The position between its commits is that of the thread.
LEMMA JobBetweenCommits ==
    ASSUME NEW t \in EX!Threads, NEW x, JobOf(t, x),
           \A u \in EX!Threads \ {t} : exJob[u].step = "idle", NEW p
    PROVE  /\ BetweenCommits(p)' <=> x.step = "clear" /\ p \in x.position
           /\ BetweenCommits(p) <=> exJob[t].step = "clear" /\ p \in exJob[t].position
  <1>1. BetweenCommits(p)' <=> x.step = "clear" /\ p \in x.position
    BY DEF JobOf, BetweenCommits
  <1>2. BetweenCommits(p) <=> exJob[t].step = "clear" /\ p \in exJob[t].position
    BY DEF BetweenCommits
  <1>3. QED
    BY <1>1, <1>2

\* Without an overlap, the others are idle while a thread is in its loop.
LEMMA OthersAreIdle ==
    ASSUME OneSettler, NEW t \in EX!Threads, exJob[t].step # "idle"
    PROVE  \A u \in EX!Threads \ {t} : exJob[u].step = "idle"
  BY DEF OneSettler

LEMMA QueryKeeps ==
    ASSUME ExpiryInv, NEW t \in EX!Threads, EX!Query(t, Rows(t))
    PROVE  ExpiryInv'
  <1> DEFINE x == [EX!Idle EXCEPT
                     !.step = "loop",
                     !.todo = IF t \in CatchUps THEN Rows(t) \cap exOpen ELSE Rows(t),
                     !.cached = TRUE, !.seen = exOpen]
  <1>1. exJob[t] = EX!Idle /\ SettlerType
    BY DEF EX!Query, ExpiryInv
  <1>2. JobOf(t, x)
    BY <1>1 DEF EX!Query, JobOf, SettlerType
  <1>3. FitsThread(t, x) /\ IsCurrent(x, exOpen) /\ x.step = "loop"
    BY <1>1, IdleJob
       DEF FitsThread, IsCurrent, IsJob, EX!Idle, SettleSteps, SettlerType, EX!Positions, Rows
  <1> HIDE DEF x
  <1>4. UNCHANGED <<exOpen, exBooked>>
    BY DEF EX!Query
  <1>5. SettlerType'
    BY <1>1, <1>2, <1>3, <1>4, JobKeepsType DEF SettlerType
  <1>6. ASSUME "overlap" \notin exUpset'
        PROVE  OneSettler' /\ ClosedIsBooked'
    <2>1. /\ exUpset' = exUpset /\ "overlap" \notin exUpset
          /\ \A u \in EX!Threads \ {t} : exJob[u].step = "idle"
      BY <1>6, IdleJob DEF EX!Query
    <2>2. ClosedIsBooked
      BY <2>1 DEF ExpiryInv
    <2>3. OneSettler'
      BY <1>1, <1>2, <1>3, <1>4, <2>1, JobKeepsOneSettler
    <2>4. \A p : BetweenCommits(p)' <=> BetweenCommits(p)
      BY <1>1, <1>2, <1>3, <2>1, IdleJob, JobBetweenCommits
    <2>5. QED
      BY <1>4, <2>1, <2>2, <2>3, <2>4 DEF ClosedIsBooked
  <1>7. QED
    BY <1>5, <1>6 DEF ExpiryInv

LEMMA DoneKeeps ==
    ASSUME ExpiryInv, NEW t \in EX!Threads, EX!Done(t)
    PROVE  ExpiryInv'
  <1> DEFINE x == EX!Idle
  <1>1. /\ SettlerType /\ FitsThread(t, exJob[t])
        /\ exJob[t].step \notin {"idle", "clear"}
    BY DEF EX!Done, EX!Pick, ExpiryInv, SettlerType
  <1>2. JobOf(t, x)
    BY <1>1 DEF EX!Done, JobOf, SettlerType
  <1>3. FitsThread(t, x) /\ x.step # "clear"
    BY <1>1, IdleJob
  <1>4. IsCurrent(exJob[t], exOpen) => IsCurrent(x, exOpen)
    BY <1>1, IdleJob
  <1> HIDE DEF x
  <1>5. UNCHANGED <<exOpen, exBooked, exUpset>>
    BY DEF EX!Done
  <1>6. SettlerType'
    BY <1>1, <1>2, <1>3, <1>5, JobKeepsType DEF SettlerType
  <1>7. ASSUME "overlap" \notin exUpset'
        PROVE  OneSettler' /\ ClosedIsBooked'
    <2>1. OneSettler /\ ClosedIsBooked
      BY <1>5, <1>7 DEF ExpiryInv
    <2>2. \A u \in EX!Threads \ {t} : exJob[u].step = "idle"
      BY <1>1, <2>1, OthersAreIdle
    <2>3. IsCurrent(x, exOpen)
      BY <1>4, <2>1 DEF OneSettler
    <2>4. OneSettler'
      BY <1>1, <1>2, <1>5, <2>2, <2>3, JobKeepsOneSettler
    <2>5. \A p : ~BetweenCommits(p)' /\ ~BetweenCommits(p)
      BY <1>1, <1>2, <1>3, <2>2, JobBetweenCommits
    <2>6. QED
      BY <1>5, <2>1, <2>4, <2>5 DEF ClosedIsBooked
  <1>8. QED
    BY <1>6, <1>7 DEF ExpiryInv

LEMMA LookKeeps ==
    ASSUME ExpiryInv, NEW t \in EX!Threads, NEW p \in EX!Positions, EX!Look(t, p)
    PROVE  ExpiryInv'
  <1> DEFINE x == IF p \in EX!Seen(t)
                  THEN [exJob[t] EXCEPT !.step = "release", !.todo = @ \ {p},
                                        !.position = {p}, !.margin = 1]
                  ELSE [exJob[t] EXCEPT !.todo = @ \ {p}]
  <1>1. /\ SettlerType /\ FitsThread(t, exJob[t])
        /\ exJob[t].step \notin {"idle", "clear"}
        /\ exJob[t].step = "loop" /\ p \in exJob[t].todo /\ t \in Listers
    BY PickedIsLeft DEF EX!Look, EX!Pick, ExpiryInv, SettlerType
  <1>2. JobOf(t, x)
    BY <1>1 DEF EX!Look, JobOf, SettlerType
  <1>9. /\ IsJob(x) /\ x.todo = exJob[t].todo \ {p}
        /\ x.cached = exJob[t].cached /\ x.seen = exJob[t].seen
        /\ IF p \in EX!Seen(t) THEN x.step = "release" /\ x.position = {p} /\ x.margin = 1
           ELSE x.step = "loop" /\ x.position = {}
    BY <1>1 DEF FitsThread, IsJob, SettleSteps
  <1>3. FitsThread(t, x) /\ x.step # "clear"
    BY <1>1, <1>9
       DEF FitsThread, IsCurrent, Rows, EX!Seen
  <1>4. IsCurrent(exJob[t], exOpen) => IsCurrent(x, exOpen)
    BY <1>1, <1>9
       DEF FitsThread, IsCurrent, Rows, EX!Seen
  <1> HIDE DEF x
  <1>5. UNCHANGED <<exOpen, exBooked, exUpset>>
    BY DEF EX!Look
  <1>6. SettlerType'
    BY <1>1, <1>2, <1>3, <1>5, JobKeepsType DEF SettlerType
  <1>7. ASSUME "overlap" \notin exUpset'
        PROVE  OneSettler' /\ ClosedIsBooked'
    <2>1. OneSettler /\ ClosedIsBooked
      BY <1>5, <1>7 DEF ExpiryInv
    <2>2. \A u \in EX!Threads \ {t} : exJob[u].step = "idle"
      BY <1>1, <2>1, OthersAreIdle
    <2>3. IsCurrent(x, exOpen)
      BY <1>4, <2>1 DEF OneSettler
    <2>4. OneSettler'
      BY <1>1, <1>2, <1>5, <2>2, <2>3, JobKeepsOneSettler
    <2>5. \A q : ~BetweenCommits(q)' /\ ~BetweenCommits(q)
      BY <1>1, <1>2, <1>3, <2>2, JobBetweenCommits
    <2>6. QED
      BY <1>5, <2>1, <2>4, <2>5 DEF ClosedIsBooked
  <1>8. QED
    BY <1>6, <1>7 DEF ExpiryInv

LEMMA LoadKeeps ==
    ASSUME ExpiryInv, NEW t \in EX!Threads, NEW p \in EX!Positions, EX!Load(t, p)
    PROVE  ExpiryInv'
  <1> DEFINE x == [exJob[t] EXCEPT !.step = "settle", !.todo = @ \ {p}, !.position = {p},
                                   !.margin = IF p \in EX!Seen(t) THEN 1 ELSE 0,
                                   !.funds = {exFunds}]
  <1>1. /\ SettlerType /\ FitsThread(t, exJob[t])
        /\ exJob[t].step \notin {"idle", "clear"}
        /\ exJob[t].step = "loop" /\ p \in exJob[t].todo /\ t \in CatchUps
    BY PickedIsLeft DEF EX!Load, EX!Pick, ExpiryInv, SettlerType
  <1>2. JobOf(t, x)
    BY <1>1 DEF EX!Load, JobOf, SettlerType
  <1>9. /\ IsJob(x) /\ x.todo = exJob[t].todo \ {p}
        /\ x.cached = exJob[t].cached /\ x.seen = exJob[t].seen
        /\ x.step = "settle" /\ x.position = {p} /\ x.funds = {exFunds}
        /\ x.margin = IF p \in EX!Seen(t) THEN 1 ELSE 0
    BY <1>1 DEF FitsThread, IsJob, SettleSteps
  <1>3. FitsThread(t, x) /\ x.step # "clear"
    BY <1>1, <1>9
       DEF FitsThread, IsCurrent, Rows, EX!Seen
  <1>4. IsCurrent(exJob[t], exOpen) => IsCurrent(x, exOpen)
    BY <1>1, <1>9
       DEF FitsThread, IsCurrent, Rows, EX!Seen
  <1> HIDE DEF x
  <1>5. UNCHANGED <<exOpen, exBooked, exUpset>>
    BY DEF EX!Load
  <1>6. SettlerType'
    BY <1>1, <1>2, <1>3, <1>5, JobKeepsType DEF SettlerType
  <1>7. ASSUME "overlap" \notin exUpset'
        PROVE  OneSettler' /\ ClosedIsBooked'
    <2>1. OneSettler /\ ClosedIsBooked
      BY <1>5, <1>7 DEF ExpiryInv
    <2>2. \A u \in EX!Threads \ {t} : exJob[u].step = "idle"
      BY <1>1, <2>1, OthersAreIdle
    <2>3. IsCurrent(x, exOpen)
      BY <1>4, <2>1 DEF OneSettler
    <2>4. OneSettler'
      BY <1>1, <1>2, <1>5, <2>2, <2>3, JobKeepsOneSettler
    <2>5. \A q : ~BetweenCommits(q)' /\ ~BetweenCommits(q)
      BY <1>1, <1>2, <1>3, <2>2, JobBetweenCommits
    <2>6. QED
      BY <1>5, <2>1, <2>4, <2>5 DEF ClosedIsBooked
  <1>8. QED
    BY <1>6, <1>7 DEF ExpiryInv

\* release_margin books the closing of a position whose row is still open.
LEMMA ReleaseKeeps ==
    ASSUME ExpiryInv, NEW t \in EX!Threads, EX!Release(t)
    PROVE  ExpiryInv'
  <1> DEFINE x == [exJob[t] EXCEPT !.step = "clear", !.cached = FALSE, !.seen = {}]
  <1>1. /\ SettlerType /\ FitsThread(t, exJob[t]) /\ exJob[t].step = "release"
        /\ UNCHANGED <<exOpen, exUpset>>
    BY DEF EX!Release, ExpiryInv, SettlerType
  <1>2. PICK p \in EX!Positions : exJob[t].position = {p}
    BY <1>1 DEF FitsThread
  <1>3. p \in Expired /\ t \in Listers /\ exJob[t].margin \in {0, 1}
    BY <1>1, <1>2 DEF FitsThread, Rows, IsJob
  <1>4. exBooked' = [exBooked EXCEPT ![p] = @ + exJob[t].margin]
    BY <1>2 DEF EX!Release, EX!Count
  <1>5. JobOf(t, x)
    BY <1>1 DEF EX!Release, JobOf, SettlerType
  <1>6. IsJob(x) /\ x.step = "clear" /\ x.position = {p} /\ x.todo = exJob[t].todo /\ ~x.cached
    BY <1>1, <1>2 DEF FitsThread, IsJob, SettleSteps
  <1>7. FitsThread(t, x)
    BY <1>1, <1>2, <1>3, <1>6 DEF FitsThread, Rows
  <1> HIDE DEF x
  <1>8. SettlerType'
    <2>1. exBooked' \in [EX!Positions -> Int]
      BY <1>1, <1>3, <1>4 DEF SettlerType
    <2>2. QED
      BY <1>1, <1>5, <1>7, <2>1, JobKeepsType DEF SettlerType
  <1>9. ASSUME "overlap" \notin exUpset'
        PROVE  OneSettler' /\ ClosedIsBooked'
    <2>1. OneSettler /\ ClosedIsBooked
      BY <1>1, <1>9 DEF ExpiryInv
    <2>2. \A u \in EX!Threads \ {t} : exJob[u].step = "idle"
      BY <1>1, <2>1, OthersAreIdle
    <2>3. p \in exOpen /\ exJob[t].margin = 1
      BY <1>1, <1>2, <2>1 DEF OneSettler, IsCurrent
    <2>4. IsCurrent(x, exOpen')
      BY <1>1, <1>6, <2>3 DEF IsCurrent
    <2>5. OneSettler'
      BY <1>1, <1>5, <2>2, <2>4, JobKeepsOneSettler
    <2>6. \A q : ~BetweenCommits(q) /\ (BetweenCommits(q)' <=> q = p)
      BY <1>1, <1>5, <1>6, <2>2, JobBetweenCommits
    <2>7. \A q \in EX!Positions : exBooked'[q] = IF q = p THEN exBooked[p] + 1 ELSE exBooked[q]
      BY <1>1, <1>4, <2>3 DEF SettlerType
    <2>8. \A q \in Stale \ Expired : q # p /\ q \in EX!Positions
      BY <1>3 DEF EX!Positions
    <2>9. \A q \in Expired : q \in EX!Positions
      BY DEF EX!Positions
    <2>10. ClosedIsBooked'
      BY <1>1, <1>3, <2>1, <2>3, <2>6, <2>7, <2>8, <2>9 DEF ClosedIsBooked
    <2>11. QED
      BY <2>5, <2>10
  <1>10. QED
    BY <1>8, <1>9 DEF ExpiryInv

LEMMA ReleaseFailsKeeps ==
    ASSUME ExpiryInv, NEW t \in EX!Threads, EX!ReleaseFails(t)
    PROVE  ExpiryInv'
  <1> DEFINE x == [exJob[t] EXCEPT !.step = "clear", !.cached = FALSE, !.seen = {}]
  <1>1. /\ SettlerType /\ FitsThread(t, exJob[t]) /\ exJob[t].step = "release"
        /\ UNCHANGED <<exOpen, exBooked>> /\ exUpset' = exUpset \cup {"cut"}
    BY DEF EX!ReleaseFails, EX!Interrupted, ExpiryInv, SettlerType
  <1>2. JobOf(t, x)
    BY <1>1 DEF EX!ReleaseFails, JobOf, SettlerType
  <1>3. /\ IsJob(x) /\ x.step = "clear" /\ x.position = exJob[t].position
        /\ x.todo = exJob[t].todo /\ ~x.cached
    BY <1>1 DEF FitsThread, IsJob, SettleSteps
  <1>4. FitsThread(t, x)
    BY <1>1, <1>3 DEF FitsThread
  <1> HIDE DEF x
  <1>5. SettlerType'
    BY <1>1, <1>2, <1>4, JobKeepsType DEF SettlerType
  <1>6. ASSUME "overlap" \notin exUpset'
        PROVE  OneSettler' /\ ClosedIsBooked'
    <2>1. OneSettler /\ ClosedIsBooked
      BY <1>1, <1>6 DEF ExpiryInv
    <2>2. \A u \in EX!Threads \ {t} : exJob[u].step = "idle"
      BY <1>1, <2>1, OthersAreIdle
    <2>3. IsCurrent(x, exOpen')
      BY <1>1, <1>3, <2>1 DEF OneSettler, IsCurrent
    <2>4. OneSettler'
      BY <1>1, <1>2, <2>2, <2>3, JobKeepsOneSettler
    <2>5. QED
      BY <1>1, <2>1, <2>4 DEF ClosedIsBooked
  <1>7. QED
    BY <1>5, <1>6 DEF ExpiryInv

\* The loop goes on with what is left.
LEMMA ResumeFits ==
    ASSUME SettlerType, NEW t \in EX!Threads, EX!Resume(t)
    PROVE  LET x == [EX!Idle EXCEPT !.step = "loop", !.todo = exJob[t].todo]
           IN  /\ JobOf(t, x) /\ FitsThread(t, x) /\ x.step = "loop"
               /\ \A rows : IsCurrent(x, rows)
  <1> DEFINE x == [EX!Idle EXCEPT !.step = "loop", !.todo = exJob[t].todo]
  <1>1. JobOf(t, x)
    BY DEF EX!Resume, JobOf, SettlerType
  <1>2. FitsThread(t, exJob[t])
    BY DEF SettlerType
  <1>3. "loop" \in SettleSteps /\ exJob[t].todo \subseteq EX!Positions
    BY <1>2 DEF FitsThread, IsJob, SettleSteps
  <1>4. IsJob(x) /\ x.step = "loop" /\ x.todo = exJob[t].todo /\ x.position = {} /\ ~x.cached
    BY <1>3 DEF EX!Idle, IsJob
  <1> HIDE DEF x
  <1>5. FitsThread(t, x) /\ \A rows : IsCurrent(x, rows)
    BY <1>2, <1>4 DEF FitsThread, IsCurrent
  <1>6. QED
    BY <1>1, <1>4, <1>5 DEF x

\* The row is closed after its closing was booked.
LEMMA ClearKeeps ==
    ASSUME ExpiryInv, NEW t \in EX!Threads, EX!Clear(t)
    PROVE  ExpiryInv'
  <1> DEFINE x == [EX!Idle EXCEPT !.step = "loop", !.todo = exJob[t].todo]
  <1>1. /\ SettlerType /\ FitsThread(t, exJob[t]) /\ exJob[t].step = "clear"
        /\ UNCHANGED <<exBooked, exUpset>>
    BY DEF EX!Clear, ExpiryInv, SettlerType
  <1>2. PICK p \in EX!Positions : exJob[t].position = {p}
    BY <1>1 DEF FitsThread
  <1>3. p \in Expired /\ exOpen' = exOpen \ {p}
    BY <1>1, <1>2, ExpiryAssumption DEF FitsThread, Rows, EX!Clear
  <1>4. JobOf(t, x) /\ FitsThread(t, x) /\ x.step = "loop" /\ \A rows : IsCurrent(x, rows)
    BY <1>1, ResumeFits DEF EX!Clear
  <1> HIDE DEF x
  <1>5. SettlerType'
    BY <1>1, <1>3, <1>4, JobKeepsType DEF SettlerType
  <1>6. ASSUME "overlap" \notin exUpset'
        PROVE  OneSettler' /\ ClosedIsBooked'
    <2>1. OneSettler /\ ClosedIsBooked
      BY <1>1, <1>6 DEF ExpiryInv
    <2>2. \A u \in EX!Threads \ {t} : exJob[u].step = "idle"
      BY <1>1, <2>1, OthersAreIdle
    <2>3. OneSettler'
      BY <1>1, <1>4, <2>2, JobKeepsOneSettler
    <2>4. \A q : ~BetweenCommits(q)' /\ (BetweenCommits(q) <=> q = p)
      BY <1>1, <1>2, <1>4, <2>2, JobBetweenCommits
    <2>5. ClosedIsBooked'
      BY <1>1, <1>3, <2>1, <2>4 DEF ClosedIsBooked
    <2>6. QED
      BY <2>3, <2>5
  <1>7. QED
    BY <1>5, <1>6 DEF ExpiryInv

\* A stale position is booked with what its row contains, 0 when it is closed.
LEMMA SettleKeeps ==
    ASSUME ExpiryInv, NEW t \in EX!Threads, EX!Settle(t)
    PROVE  ExpiryInv'
  <1> DEFINE x == [EX!Idle EXCEPT !.step = "loop", !.todo = exJob[t].todo]
  <1>1. SettlerType /\ FitsThread(t, exJob[t]) /\ exJob[t].step = "settle"
    BY DEF EX!Settle, ExpiryInv, SettlerType
  <1>2. PICK p \in EX!Positions : exJob[t].position = {p}
    BY <1>1 DEF FitsThread
  <1>3. PICK f : exJob[t].funds = {f}
    BY <1>1 DEF FitsThread
  <1>4. /\ p \in Stale /\ exOpen' = exOpen \ {p}
        /\ exJob[t].margin \in {0, 1}
    BY <1>1, <1>2, ExpiryAssumption DEF FitsThread, Rows, IsJob, EX!Settle
  <1>5. exBooked' = [exBooked EXCEPT ![p] = @ + exJob[t].margin] /\ exUpset \subseteq exUpset'
    BY <1>2, <1>3 DEF EX!Settle, EX!Count
  <1>6. JobOf(t, x) /\ FitsThread(t, x) /\ x.step = "loop" /\ \A rows : IsCurrent(x, rows)
    BY <1>1, ResumeFits DEF EX!Settle
  <1> HIDE DEF x
  <1>7. SettlerType'
    <2>1. exBooked' \in [EX!Positions -> Int]
      BY <1>1, <1>4, <1>5 DEF SettlerType
    <2>2. QED
      BY <1>1, <1>4, <1>6, <2>1, JobKeepsType DEF SettlerType
  <1>8. ASSUME "overlap" \notin exUpset'
        PROVE  OneSettler' /\ ClosedIsBooked'
    <2>1. OneSettler /\ ClosedIsBooked
      BY <1>5, <1>8 DEF ExpiryInv
    <2>2. \A u \in EX!Threads \ {t} : exJob[u].step = "idle"
      BY <1>1, <2>1, OthersAreIdle
    <2>3. exJob[t].margin = IF p \in exOpen THEN 1 ELSE 0
      BY <1>1, <1>2, <2>1 DEF OneSettler, IsCurrent
    <2>4. OneSettler'
      BY <1>1, <1>6, <2>2, JobKeepsOneSettler
    <2>5. \A q : ~BetweenCommits(q)' /\ ~BetweenCommits(q)
      BY <1>1, <1>6, <2>2, JobBetweenCommits
    <2>6. \A q \in EX!Positions \ {p} : exBooked'[q] = exBooked[q]
      BY <1>1, <1>5 DEF SettlerType
    <2>7. exBooked'[p] = exBooked[p] + exJob[t].margin
      BY <1>1, <1>5 DEF SettlerType
    <2>8. p \notin Expired \/ exUpset' \subseteq {"race", "clamp"} => exBooked'[p] = 1
      BY <1>4, <1>5, <2>1, <2>3, <2>5, <2>7 DEF ClosedIsBooked
    <2>9. \A q \in Stale \cup Expired : q \in EX!Positions
      BY DEF EX!Positions
    <2>10. ClosedIsBooked'
      BY <1>4, <1>5, <2>1, <2>5, <2>6, <2>8, <2>9 DEF ClosedIsBooked
    <2>11. QED
      BY <2>4, <2>10
  <1>9. QED
    BY <1>7, <1>8 DEF ExpiryInv

LEMMA SettleFailsKeeps ==
    ASSUME ExpiryInv, NEW t \in EX!Threads, EX!SettleFails(t)
    PROVE  ExpiryInv'
  <1> DEFINE x == [EX!Idle EXCEPT !.step = "loop", !.todo = exJob[t].todo]
  <1>1. /\ SettlerType /\ exJob[t].step = "settle"
        /\ UNCHANGED <<exOpen, exBooked>> /\ exUpset' = exUpset \cup {"cut"}
    BY DEF EX!SettleFails, EX!Interrupted, ExpiryInv
  <1>2. JobOf(t, x) /\ FitsThread(t, x) /\ x.step = "loop" /\ \A rows : IsCurrent(x, rows)
    BY <1>1, ResumeFits DEF EX!SettleFails
  <1> HIDE DEF x
  <1>3. SettlerType'
    BY <1>1, <1>2, JobKeepsType DEF SettlerType
  <1>4. ASSUME "overlap" \notin exUpset'
        PROVE  OneSettler' /\ ClosedIsBooked'
    <2>1. OneSettler /\ ClosedIsBooked
      BY <1>1, <1>4 DEF ExpiryInv
    <2>2. \A u \in EX!Threads \ {t} : exJob[u].step = "idle"
      BY <1>1, <2>1, OthersAreIdle
    <2>3. OneSettler'
      BY <1>1, <1>2, <2>2, JobKeepsOneSettler
    <2>4. QED
      BY <1>1, <2>1, <2>3 DEF ClosedIsBooked
  <1>5. QED
    BY <1>3, <1>4 DEF ExpiryInv

\* A stop between two commits leaves a booked position open.
LEMMA StopKeeps ==
    ASSUME ExpiryInv, EX!Stop
    PROVE  ExpiryInv'
  <1>1. /\ SettlerType /\ UNCHANGED <<exOpen, exBooked>>
        /\ exUpset' = exUpset \cup {"cut"} /\ exJob' = [t \in EX!Threads |-> EX!Idle]
    BY DEF EX!Stop, EX!Interrupted, ExpiryInv
  <1>2. SettlerType'
    BY <1>1, IdleJob DEF SettlerType
  <1>3. OneSettler'
    BY <1>1, IdleJob DEF OneSettler
  <1>4. "overlap" \notin exUpset' => ClosedIsBooked'
    BY <1>1 DEF ExpiryInv, ClosedIsBooked
  <1>5. QED
    BY <1>2, <1>3, <1>4 DEF ExpiryInv

LEMMA ExpiryStep == ExpiryInv /\ EX!Next => ExpiryInv'
  <1> SUFFICES ASSUME ExpiryInv, EX!Next PROVE ExpiryInv'
    OBVIOUS
  <1>1. CASE EX!Stop
    BY <1>1, StopKeeps
  <1>2. ASSUME NEW t \in EX!Threads, EX!Begin(t)
        PROVE  ExpiryInv'
    BY <1>2, QueryKeeps DEF EX!Begin, Rows
  <1>3. ASSUME NEW t \in EX!Threads, EX!Step(t)
        PROVE  ExpiryInv'
    <2>1. ASSUME NEW p \in EX!Positions, EX!Look(t, p) \/ EX!Load(t, p)
          PROVE  ExpiryInv'
      BY <2>1, LookKeeps, LoadKeeps
    <2>2. CASE EX!Release(t) \/ EX!ReleaseFails(t) \/ EX!Clear(t)
      BY <2>2, ReleaseKeeps, ReleaseFailsKeeps, ClearKeeps
    <2>3. CASE EX!Settle(t) \/ EX!SettleFails(t) \/ EX!Done(t)
      BY <2>3, SettleKeeps, SettleFailsKeeps, DoneKeeps
    <2>4. QED
      BY <1>3, <2>1, <2>2, <2>3 DEF EX!Step
  <1>4. QED
    BY <1>1, <1>2, <1>3 DEF EX!Next

\* The inductive invariant of the expiry settlements (lazy settlement of a listing and
\* the catch-up): without an overlap one thread settles, what it has read is true, and
\* a closing is booked when its row is closed or between the two commits.
THEOREM ServerSettlesOnce == Spec => []ExpiryInv
  <1>1. ExpiryInv /\ UNCHANGED exVars => ExpiryInv'
    BY DEF exVars, ExpiryInv, SettlerType, OneSettler, ClosedIsBooked, BetweenCommits
  <1>2. [Next]_vars => EX!Next \/ UNCHANGED exVars
    BY DEF Next, vars, Settle, Expire, SquareOff, Approve, DownloadData, Host,
           Signal, Subscribe, Switch
  <1>3. QED
    BY <1>1, <1>2, ExpiryInit, ExpiryStep, PTL DEF Spec, Init

\* The closing of a position is booked once, and exactly when its row was closed; for
\* the catch-up, which books and closes in one commit, even while it runs or was cut
\* short (_settle_expired_position, catchup_mis_squareoff).
THEOREM ServerBooksOnce == Spec => []BookedOnce
  <1>1. ASSUME ExpiryInv PROVE EX!ClosedIffBooked
    <2> SUFFICES ASSUME EX!Quiet, exUpset \subseteq {"race", "clamp"}, NEW p \in EX!Positions
                 PROVE  exBooked[p] = IF p \in exOpen THEN 0 ELSE 1
      BY DEF EX!ClosedIffBooked
    <2>1. ~BetweenCommits(p)
      BY IdleJob DEF EX!Quiet, BetweenCommits
    <2>2. ClosedIsBooked
      BY <1>1 DEF ExpiryInv
    <2>3. QED
      BY <2>1, <2>2 DEF ClosedIsBooked, EX!Positions
  <1>2. ExpiryInv => EX!CatchUpMayStop
    BY DEF ExpiryInv, ClosedIsBooked, EX!CatchUpMayStop
  <1>3. ExpiryInv => BookedOnce
    BY <1>1, <1>2 DEF BookedOnce, EX!BookedOnce
  <1>4. QED
    BY <1>3, ServerSettlesOnce, PTL

-----------------------------------------------------------------------------
(* Expiry: the funds contain what was booked *)

FundsRow == [used: Int, realized: Int]

\* The columns after so many bookings of each position.
MarginsLeft(count) == [p \in EX!Positions |-> 1 - count[p]]
GainsBooked(count) == [p \in EX!Positions |-> count[p] * Pnl[p]]
FundsOf(count) ==
    [used |-> SumFunction(MarginsLeft(count)), realized |-> SumFunction(GainsBooked(count))]

FundsInv ==
    /\ exFunds \in FundsRow
    /\ \A t \in EX!Threads : \A f \in exJob[t].funds : f \in FundsRow
    /\ exUpset \cap {"race", "clamp"} = {} => exFunds = FundsOf(exBooked)

LEMMA ExpirySum ==
    ASSUME NEW f PROVE EX!SumFunction(f) = SumFunction(f)
  BY DEF EX!SumFunction, EX!SumFunctionOnSet, EX!FoldFunctionOnSet, EX!MapThenFoldSet,
         SumFunction, SumFunctionOnSet, FoldFunctionOnSet, MapThenFoldSet

LEMMA FundsAfterIs ==
    ASSUME NEW count PROVE EX!FundsAfter(count) = FundsOf(count)
  BY ExpirySum DEF EX!FundsAfter, FundsOf, MarginsLeft, GainsBooked

LEMMA PositionsSummable ==
    ASSUME NEW count \in [EX!Positions -> Int]
    PROVE  /\ IsFiniteSet(EX!Positions) /\ \A p \in EX!Positions : Pnl[p] \in Int
           /\ MarginsLeft(count) \in [EX!Positions -> Int]
           /\ GainsBooked(count) \in [EX!Positions -> Int]
           /\ FundsOf(count) \in FundsRow
  <1>1. IsFiniteSet(EX!Positions) /\ \A p \in EX!Positions : Pnl[p] \in Int
    BY ExpiryAssumption DEF EX!Positions
  <1>2. MarginsLeft(count) \in [EX!Positions -> Int]
    BY DEF MarginsLeft
  <1>3. GainsBooked(count) \in [EX!Positions -> Int]
    <2>1. \A p \in EX!Positions : count[p] * Pnl[p] \in Int
      BY <1>1
    <2>2. QED
      BY <2>1 DEF GainsBooked
  <1>4. SumFunction(MarginsLeft(count)) \in Int /\ SumFunction(GainsBooked(count)) \in Int
    BY <1>1, <1>2, <1>3, SumType
  <1>5. QED
    BY <1>1, <1>2, <1>3, <1>4 DEF FundsOf, FundsRow

\* A booking releases the margin of a position and adds its P&L.
LEMMA FundsAfterBooking ==
    ASSUME NEW count \in [EX!Positions -> Int], NEW p \in EX!Positions, NEW m \in {0, 1},
           NEW next, next = [count EXCEPT ![p] = @ + m]
    PROVE  FundsOf(next) = EX!Book(FundsOf(count), EX!Value(p, m))
  <1>1. IsFiniteSet(EX!Positions) /\ \A q \in EX!Positions : Pnl[q] \in Int
    BY PositionsSummable
  <1>2. next \in [EX!Positions -> Int] /\ count[p] \in Int /\ Pnl[p] \in Int /\ m \in Int
    BY <1>1
  <1>3. PICK left, gains : left = MarginsLeft(count) /\ gains = GainsBooked(count)
    OBVIOUS
  <1>4. PICK left2, gains2 : left2 = MarginsLeft(next) /\ gains2 = GainsBooked(next)
    OBVIOUS
  <1>5. /\ left \in [EX!Positions -> Int] /\ gains \in [EX!Positions -> Int]
        /\ FundsOf(count) = [used |-> SumFunction(left), realized |-> SumFunction(gains)]
    BY <1>3, PositionsSummable DEF FundsOf
  <1>6. /\ left2 \in [EX!Positions -> Int] /\ gains2 \in [EX!Positions -> Int]
        /\ FundsOf(next) = [used |-> SumFunction(left2), realized |-> SumFunction(gains2)]
    BY <1>2, <1>4, PositionsSummable DEF FundsOf
  <1>7. /\ left2[p] = 1 - (count[p] + m) /\ left[p] = 1 - count[p]
        /\ \A q \in EX!Positions \ {p} : left2[q] = left[q]
    BY <1>3, <1>4 DEF MarginsLeft
  <1>8. \A q \in EX!Positions \ {p} : gains2[q] = gains[q]
    BY <1>3, <1>4 DEF GainsBooked
  <1>0. gains2[p] = (count[p] + m) * Pnl[p] /\ gains[p] = count[p] * Pnl[p]
    BY <1>3, <1>4 DEF GainsBooked
  <1>9. SumFunction(left2) = SumFunction(left) + (left2[p] - left[p])
    BY <1>1, <1>5, <1>6, <1>7, SumOfOneChange
  <1>10. SumFunction(gains2) = SumFunction(gains) + (gains2[p] - gains[p])
    BY <1>1, <1>5, <1>6, <1>8, SumOfOneChange
  <1>11. SumFunction(left) \in Int /\ SumFunction(gains) \in Int
    BY <1>1, <1>5, SumType
  <1>12. gains2[p] - gains[p] = m * Pnl[p]
    <2>1. CASE m = 0
      BY <1>0, <1>2, <2>1
    <2>2. CASE m = 1
      BY <1>0, <1>2, <2>2
    <2>3. QED
      BY <2>1, <2>2
  <1>13. left2[p] - left[p] = -m
    BY <1>2, <1>7
  <1>14. SumFunction(left2) = SumFunction(left) - m
    BY <1>2, <1>9, <1>11, <1>13
  <1>15. SumFunction(gains2) = SumFunction(gains) + m * Pnl[p]
    BY <1>10, <1>12
  <1>16. QED
    BY <1>5, <1>6, <1>14, <1>15 DEF EX!Book, EX!Value

LEMMA BookedRow ==
    ASSUME NEW f \in FundsRow, NEW p \in EX!Positions, NEW m \in {0, 1}
    PROVE  /\ EX!Book(f, EX!Value(p, m)) \in FundsRow
           /\ EX!Book(f, EX!Value(p, m)) = f => m = 0
           /\ m = 0 => EX!Book(f, EX!Value(p, m)) = f
           /\ EX!Clamped(f) \in FundsRow
  <1>1. Pnl[p] \in Int
    BY ExpiryAssumption DEF EX!Positions
  <1>2. m * Pnl[p] \in Int /\ (m = 0 => m * Pnl[p] = 0)
    BY <1>1
  <1>3. /\ f = [used |-> f.used, realized |-> f.realized] /\ f.used \in Int
        /\ f.realized \in Int
    BY DEF FundsRow
  <1>4. EX!Book(f, EX!Value(p, m)) =
           [used |-> f.used - m, realized |-> f.realized + m * Pnl[p]]
    BY DEF EX!Book, EX!Value
  <1>5. EX!Clamped(f) \in FundsRow
    BY <1>3 DEF EX!Clamped, FundsRow
  <1>6. QED
    BY <1>2, <1>3, <1>4, <1>5 DEF FundsRow

LEMMA OverwrittenRow ==
    ASSUME NEW f \in FundsRow, NEW g \in FundsRow, exFunds \in FundsRow
    PROVE  /\ EX!Overwrite(f, g) \in FundsRow
           /\ f = exFunds => EX!Overwrite(f, g) = g
           /\ f = g => EX!Overwrite(f, g) = exFunds
  BY DEF EX!Overwrite, FundsRow

LEMMA FundsInit == EX!Init => FundsInv
  <1> SUFFICES ASSUME EX!Init PROVE FundsInv
    OBVIOUS
  <1>1. exBooked \in [EX!Positions -> Int]
    BY DEF EX!Init
  <1>2. exFunds = FundsOf(exBooked)
    BY FundsAfterIs DEF EX!Init
  <1>3. \A t \in EX!Threads : exJob[t].funds = {}
    BY DEF EX!Init, EX!Idle
  <1>4. QED
    BY <1>1, <1>2, <1>3, PositionsSummable DEF FundsInv

\* A thread books the value of its position, or only goes on.
LEMMA ReleaseBooks ==
    ASSUME ExpiryInv, FundsInv, NEW t \in EX!Threads, EX!Release(t)
    PROVE  FundsInv'
  <1>1. /\ SettlerType /\ FitsThread(t, exJob[t]) /\ exJob[t].step = "release"
        /\ exUpset' = exUpset /\ exFunds \in FundsRow
    BY DEF EX!Release, ExpiryInv, SettlerType, FundsInv
  <1>2. PICK p \in EX!Positions : exJob[t].position = {p}
    BY <1>1 DEF FitsThread
  <1>3. PICK m \in {0, 1} : m = exJob[t].margin
    BY <1>1 DEF FitsThread, IsJob
  <1>4. /\ exFunds' = EX!Book(exFunds, EX!Value(p, m))
        /\ exBooked' = [exBooked EXCEPT ![p] = @ + m]
    BY <1>2, <1>3 DEF EX!Release, EX!Count
  <1>5. exFunds' \in FundsRow
    BY <1>1, <1>4, BookedRow
  <1>6. exUpset \cap {"race", "clamp"} = {} => exFunds' = FundsOf(exBooked')
    <2>1. exBooked \in [EX!Positions -> Int]
      BY <1>1 DEF SettlerType
    <2>2. PICK next : next = exBooked'
      OBVIOUS
    <2>3. FundsOf(next) = EX!Book(FundsOf(exBooked), EX!Value(p, m))
      BY <1>4, <2>1, <2>2, FundsAfterBooking
    <2>4. QED
      BY <1>1, <1>4, <2>2, <2>3 DEF FundsInv
  <1>7. \A u \in EX!Threads : exJob'[u].funds = exJob[u].funds
    BY <1>1 DEF EX!Release, SettlerType, FitsThread, IsJob
  <1>8. QED
    BY <1>1, <1>5, <1>6, <1>7 DEF FundsInv

LEMMA SettleBooks ==
    ASSUME ExpiryInv, FundsInv, NEW t \in EX!Threads, EX!Settle(t)
    PROVE  FundsInv'
  <1>1. /\ SettlerType /\ FitsThread(t, exJob[t]) /\ exJob[t].step = "settle"
        /\ exFunds \in FundsRow
    BY DEF EX!Settle, ExpiryInv, SettlerType, FundsInv
  <1>2. PICK p \in EX!Positions : exJob[t].position = {p}
    BY <1>1 DEF FitsThread
  <1>3. PICK m \in {0, 1} : m = exJob[t].margin
    BY <1>1 DEF FitsThread, IsJob
  <1>4. PICK read : exJob[t].funds = {read}
    BY <1>1 DEF FitsThread
  <1>5. read \in FundsRow
    BY <1>4 DEF FundsInv
  <1>6. PICK due \in FundsRow : due = EX!Book(read, EX!Value(p, m))
    BY <1>5, BookedRow
  <1>7. PICK new \in FundsRow : new = EX!Clamped(due)
    BY <1>6, BookedRow
  <1>8. /\ exFunds' = EX!Overwrite(read, new)
        /\ exBooked' = [exBooked EXCEPT ![p] = @ + m]
        /\ exUpset' = exUpset \cup {c \in {"race"} : new # read /\ read # exFunds}
                              \cup {c \in {"clamp"} : new # due}
    BY <1>2, <1>3, <1>4, <1>6, <1>7 DEF EX!Settle, EX!Count
  <1>9. exFunds' \in FundsRow
    BY <1>1, <1>5, <1>7, <1>8, OverwrittenRow
  <1>10. ASSUME exUpset' \cap {"race", "clamp"} = {}
         PROVE  exFunds' = FundsOf(exBooked')
    <2>1. /\ exUpset \cap {"race", "clamp"} = {} /\ new = due
          /\ new = read \/ read = exFunds
      BY <1>8, <1>10
    <2>2. exFunds = FundsOf(exBooked) /\ exBooked \in [EX!Positions -> Int]
      BY <1>1, <2>1 DEF FundsInv, SettlerType
    <2>3. FundsOf(exBooked') = EX!Book(exFunds, EX!Value(p, m))
      BY <1>8, <2>2, FundsAfterBooking
    <2>4. CASE read = exFunds
      <3>1. exFunds' = new
        BY <1>1, <1>5, <1>7, <1>8, <2>4, OverwrittenRow
      <3>2. QED
        BY <1>6, <2>1, <2>3, <2>4, <3>1
    <2>5. CASE new = read
      <3>1. exFunds' = exFunds
        BY <1>1, <1>5, <1>7, <1>8, <2>5, OverwrittenRow
      <3>2. m = 0
        BY <1>5, <1>6, <2>1, <2>5, BookedRow
      <3>3. QED
        BY <1>1, <2>3, <3>1, <3>2, BookedRow
    <2>6. QED
      BY <2>1, <2>4, <2>5
  <1>11. \A u \in EX!Threads : exJob'[u].funds \in {exJob[u].funds, {}}
    BY <1>1 DEF EX!Settle, EX!Resume, EX!Idle, SettlerType
  <1>12. QED
    BY <1>9, <1>10, <1>11 DEF FundsInv

LEMMA FundsStand ==
    ASSUME FundsInv, UNCHANGED <<exFunds, exBooked>>, exUpset \subseteq exUpset',
           \A u \in EX!Threads : exJob'[u].funds \in {exJob[u].funds, {}, {exFunds}}
    PROVE  FundsInv'
  BY DEF FundsInv

LEMMA FundsStep == ExpiryInv /\ FundsInv /\ EX!Next => FundsInv'
  <1> SUFFICES ASSUME ExpiryInv, FundsInv, EX!Next PROVE FundsInv'
    OBVIOUS
  <1>1. SettlerType
    BY DEF ExpiryInv
  <1>2. CASE EX!Stop
    BY <1>2, FundsStand DEF EX!Stop, EX!Interrupted, EX!Idle
  <1>3. ASSUME NEW t \in EX!Threads, NEW rows, EX!Query(t, rows)
        PROVE  FundsInv'
    BY <1>1, <1>3, FundsStand DEF EX!Query, SettlerType, EX!Idle
  <1>4. ASSUME NEW t \in EX!Threads, NEW p \in EX!Positions, EX!Look(t, p) \/ EX!Load(t, p)
        PROVE  FundsInv'
    <2>1. FitsThread(t, exJob[t])
      BY <1>1 DEF SettlerType
    <2>2. QED
      BY <1>1, <1>4, <2>1, FundsStand DEF EX!Look, EX!Load, SettlerType, FitsThread, IsJob
  <1>5. ASSUME NEW t \in EX!Threads,
               EX!ReleaseFails(t) \/ EX!Clear(t) \/ EX!SettleFails(t) \/ EX!Done(t)
        PROVE  FundsInv'
    <2>1. FitsThread(t, exJob[t])
      BY <1>1 DEF SettlerType
    <2>2. CASE EX!ReleaseFails(t)
      <3>1. /\ \A u \in EX!Threads : exJob'[u].funds = exJob[u].funds
            /\ UNCHANGED <<exFunds, exBooked>> /\ exUpset \subseteq exUpset'
        BY <1>1, <2>1, <2>2 DEF EX!ReleaseFails, EX!Interrupted, SettlerType, FitsThread, IsJob
      <3>2. QED
        BY <3>1, FundsStand
    <2>5. CASE EX!Clear(t)
      <3>1. /\ \A u \in EX!Threads : exJob'[u].funds \in {exJob[u].funds, {}}
            /\ UNCHANGED <<exFunds, exBooked>> /\ exUpset \subseteq exUpset'
        BY <1>1, <2>5 DEF EX!Clear, EX!Resume, EX!Idle, SettlerType
      <3>2. QED
        BY <3>1, FundsStand
    <2>3. CASE EX!SettleFails(t)
      <3>1. /\ \A u \in EX!Threads : exJob'[u].funds \in {exJob[u].funds, {}}
            /\ UNCHANGED <<exFunds, exBooked>> /\ exUpset \subseteq exUpset'
        BY <1>1, <2>3 DEF EX!SettleFails, EX!Interrupted, EX!Resume, EX!Idle, SettlerType
      <3>2. QED
        BY <3>1, FundsStand
    <2>4. CASE EX!Done(t)
      <3>1. /\ \A u \in EX!Threads : exJob'[u].funds \in {exJob[u].funds, {}}
            /\ UNCHANGED <<exFunds, exBooked>> /\ exUpset \subseteq exUpset'
        BY <1>1, <2>4 DEF EX!Done, EX!Idle, SettlerType
      <3>2. QED
        BY <3>1, FundsStand
    <2>6. QED
      BY <1>5, <2>2, <2>3, <2>4, <2>5
  <1>6. QED
    BY <1>2, <1>3, <1>4, <1>5, ReleaseBooks, SettleBooks DEF EX!Next, EX!Begin, EX!Step

\* The funds contain everything that was booked, as long as the catch-up has neither
\* written from a row that another thread changed nor cut a negative margin off.
THEOREM ServerFundsContainBookings == Spec => []FundsContainBookings
  <1>1. FundsInv /\ UNCHANGED exVars => FundsInv'
    BY DEF exVars, FundsInv
  <1>2. [Next]_vars => EX!Next \/ UNCHANGED exVars
    BY DEF Next, vars, Settle, Expire, SquareOff, Approve, DownloadData, Host,
           Signal, Subscribe, Switch
  <1>3. FundsInv => FundsContainBookings
    BY FundsAfterIs DEF FundsInv, FundsContainBookings, EX!FundsContainBookings
  <1>4. QED
    BY <1>1, <1>2, <1>3, FundsInit, FundsStep, ServerSettlesOnce, PTL DEF Spec, Init

-----------------------------------------------------------------------------
(* Settlement: shares stay *)

\* A session of process_t1_settlement at work: one row at a time, after a query.
SessionSteps == {"idle", "loop", "fund", "mark"}
IsSession(x) ==
    /\ x \in [step: SessionSteps, todo: SUBSET ST!Symbols, loaded: {x.loaded},
              symbol: SUBSET ST!Symbols, quantity: Int, held: BOOLEAN, result: Int,
              leaving: SUBSET ST!Symbols, empty: SUBSET ST!Symbols]
    /\ x.loaded = [s \in DOMAIN x.loaded |-> x.loaded[s]]
    /\ DOMAIN x.loaded \subseteq ST!Symbols
    /\ \A s \in DOMAIN x.loaded : x.loaded[s] \in Int
    /\ IF x.step \in {"fund", "mark"} THEN \E s \in ST!Symbols : x.symbol = {s}
       ELSE x.symbol = {}
    /\ x.step = "idle" => x = ST!Idle

TablesType ==
    /\ stPositions = [s \in DOMAIN stPositions |-> stPositions[s]]
    /\ DOMAIN stPositions \subseteq ST!Symbols
    /\ \A s \in DOMAIN stPositions : stPositions[s] \in Int
    /\ \A s \in DOMAIN stHoldings : stHoldings[s] \in Int
    /\ stOwned \in [ST!Symbols -> Int]

SettlementType ==
    /\ stJob = [t \in Settlers |-> stJob[t]]
    /\ \A t \in Settlers : IsSession(stJob[t])
    /\ TablesType

\* What the session x may do to a purchase: its shares are in the holdings before
\* the row is marked, and a holding that goes has none to lose.
CoversPurchase(x, s) ==
    /\ s \in DOMAIN x.loaded =>
          x.loaded[s] >= 0 /\ (s \in DOMAIN stPositions => stPositions[s] = x.loaded[s])
    /\ x.step = "fund" /\ s \in x.symbol => x.result >= stOwned[s]
    /\ (x.step = "mark" /\ s \in x.symbol) \/ s \in x.leaving =>
          ST!Quantity(stHoldings, s) >= stOwned[s]
    /\ s \in x.empty => stOwned[s] =< 0

PurchasesCovered ==
    \A s \in ST!Symbols : Bought[s] > 0 =>
        /\ s \in DOMAIN stPositions => stPositions[s] >= 0
        /\ ST!Shares(s) >= stOwned[s]
        /\ \A t \in Settlers : CoversPurchase(stJob[t], s)

\* The shares of s are in the holdings, and its row is still to go.
Moved(x, s) == (x.step = "mark" /\ s \in x.symbol) \/ s \in x.leaving

\* The session x has read what is in the tables.
InStep(x) ==
    /\ \A s \in DOMAIN x.loaded : s \in DOMAIN stPositions /\ stPositions[s] = x.loaded[s]
    /\ x.todo \cup x.symbol \cup x.leaving \subseteq DOMAIN stPositions
    /\ x.todo \cap x.symbol = {} /\ x.todo \cap x.leaving = {}
    /\ x.symbol \cap x.leaving = {} /\ x.empty \subseteq x.leaving
    /\ \A s \in x.empty : ST!Quantity(stHoldings, s) = 0
    /\ \A s \in x.symbol :
          /\ x.step = "fund" => /\ x.held <=> s \in DOMAIN stHoldings
                                /\ x.result = ST!Quantity(stHoldings, s) + stPositions[s]
          /\ x.step = "mark" => s \in DOMAIN stHoldings

\* A session that is alone: the shares of a row are where they belong.
AloneAndExact ==
    /\ \A t, u \in Settlers : stJob[t].step # "idle" /\ stJob[u].step # "idle" => t = u
    /\ \A t \in Settlers : InStep(stJob[t])
    /\ \A s \in ST!Symbols :
          IF \E t \in Settlers : Moved(stJob[t], s)
          THEN ST!Quantity(stHoldings, s) = stOwned[s]
          ELSE ST!Shares(s) = stOwned[s]

SettlementInv ==
    /\ SettlementType
    /\ stUpset \subseteq {"stop", "overlap"} => PurchasesCovered
    /\ stUpset = {} => AloneAndExact

LEMMA FirstRowIsLeft ==
    ASSUME NEW S \in SUBSET Nat, S # {}
    PROVE  ST!Min(S) \in S
  <1>1. PICK x \in S : \A y \in S : ~(<<y, x>> \in OpToRel(<, Nat))
    BY WFMin, NatLessThanWellFounded
  <1>2. \A y \in S : <<y, x>> \in Nat \X Nat
    OBVIOUS
  <1>3. \A y \in S : ~(y < x)
    BY <1>1, <1>2 DEF OpToRel
  <1>4. \A y \in S : x =< y
    BY <1>3
  <1>5. QED
    BY <1>4 DEF ST!Min

LEMMA IdleSession ==
    /\ IsSession(ST!Idle) /\ ST!Idle.step = "idle"
    /\ \A s : CoversPurchase(ST!Idle, s) /\ ~Moved(ST!Idle, s)
    /\ InStep(ST!Idle)
  <1>1. /\ IsSession(ST!Idle) /\ ST!Idle.step = "idle" /\ ST!Idle.loaded = [s \in {} |-> 0]
        /\ ST!Idle.todo = {} /\ ST!Idle.symbol = {} /\ ST!Idle.leaving = {}
        /\ ST!Idle.empty = {}
    BY DEF IsSession, ST!Idle, ST!Nothing, SessionSteps
  <1>2. QED
    BY <1>1 DEF CoversPurchase, Moved, InStep

LEMMA SettlementInit == ST!Init => SettlementInv
  <1> SUFFICES ASSUME ST!Init PROVE SettlementInv
    OBVIOUS
  <1>1. \A t \in Settlers : stJob[t] = ST!Idle
    BY DEF ST!Init
  <1>2. TablesType
    BY SettlementAssumption DEF ST!Init, TablesType, ST!Symbols, ST!Quantity
  <1>3. stJob = [t \in Settlers |-> stJob[t]]
    BY <1>1 DEF ST!Init
  <1>4. SettlementType
    BY <1>1, <1>2, <1>3, IdleSession DEF SettlementType
  <1>5. \A s \in ST!Symbols : ST!Shares(s) = stOwned[s]
    BY SettlementAssumption DEF ST!Init, ST!Symbols, ST!Shares, ST!Quantity
  <1>6. PurchasesCovered
    BY <1>1, <1>2, <1>5, IdleSession
       DEF ST!Init, TablesType, PurchasesCovered, ST!Shares, ST!Quantity
  <1>7. AloneAndExact
    BY <1>1, <1>5, IdleSession DEF AloneAndExact
  <1>8. QED
    BY <1>4, <1>6, <1>7 DEF SettlementInv

\* One session goes on, the others stay where they are.
SessionOf(t, x) == stJob' = [u \in Settlers |-> IF u = t THEN x ELSE stJob[u]]

\* A step that only reads the tables.
LEMMA SessionKeeps ==
    ASSUME SettlementInv, NEW t \in Settlers, NEW x, SessionOf(t, x), IsSession(x),
           UNCHANGED <<stPositions, stHoldings, stOwned>>, stUpset \subseteq stUpset',
           stUpset' \subseteq {"stop", "overlap"} /\ PurchasesCovered =>
              \A s \in ST!Symbols : Bought[s] > 0 => CoversPurchase(x, s),
           stUpset' = {} /\ AloneAndExact =>
              /\ \A u \in Settlers \ {t} : stJob[u].step = "idle"
              /\ InStep(x)
              /\ \A s \in ST!Symbols :
                    /\ Moved(x, s) => ST!Quantity(stHoldings, s) = stOwned[s]
                    /\ Moved(stJob[t], s) => Moved(x, s)
    PROVE  SettlementInv'
  <1>1. SettlementType'
    BY DEF SettlementInv, SettlementType, SessionOf, TablesType
  <1>2. ASSUME stUpset' \subseteq {"stop", "overlap"}
        PROVE  PurchasesCovered'
    <2>1. PurchasesCovered
      BY <1>2 DEF SettlementInv
    <2>2. \A s \in ST!Symbols, u \in Settlers : Bought[s] > 0 => CoversPurchase(stJob[u], s)'
      BY <1>2, <2>1 DEF PurchasesCovered, SessionOf, CoversPurchase
    <2>3. \A s : ST!Shares(s)' = ST!Shares(s)
      BY DEF ST!Shares
    <2>4. QED
      BY <2>1, <2>2, <2>3 DEF PurchasesCovered
  <1>3. ASSUME stUpset' = {}
        PROVE  AloneAndExact'
    <2>1. AloneAndExact
      BY <1>3 DEF SettlementInv
    <2>2. \A u \in Settlers \ {t} : stJob[u] = ST!Idle
      BY <1>3, <2>1 DEF SettlementInv, SettlementType, IsSession
    <2>3. \A u \in Settlers : stJob'[u] = IF u = t THEN x ELSE ST!Idle
      BY <2>2 DEF SessionOf
    <2>4. InStep(x)' /\ InStep(ST!Idle)'
      BY <1>3, <2>1, IdleSession DEF InStep
    <2>5. \A s : (\E u \in Settlers : Moved(stJob[u], s)') <=> Moved(x, s)
      BY <2>3, IdleSession DEF Moved
    <2>6. \A s : (\E u \in Settlers : Moved(stJob[u], s)) <=> Moved(stJob[t], s)
      BY <2>2, IdleSession DEF Moved
    <2>7. \A s : ST!Shares(s)' = ST!Shares(s)
      BY DEF ST!Shares
    <2>8. \A s \in ST!Symbols :
             IF \E u \in Settlers : Moved(stJob[u], s)'
             THEN ST!Quantity(stHoldings, s)' = stOwned'[s] ELSE ST!Shares(s)' = stOwned'[s]
      BY <1>3, <2>1, <2>5, <2>6, <2>7 DEF AloneAndExact, ST!Quantity
    <2>9. QED
      BY <2>3, <2>4, <2>8, IdleSession DEF AloneAndExact
  <1>4. QED
    BY <1>1, <1>2, <1>3 DEF SettlementInv

LEMMA StQueryKeeps ==
    ASSUME SettlementInv, NEW t \in Settlers, ST!Query(t)
    PROVE  SettlementInv'
  <1>1. PICK x : x = [ST!Idle EXCEPT !.step = "loop", !.todo = DOMAIN stPositions,
                                     !.loaded = stPositions]
    OBVIOUS
  <1>2. /\ SettlementType /\ TablesType /\ stJob[t] = ST!Idle
        /\ UNCHANGED <<stPositions, stHoldings, stOwned>>
    BY DEF ST!Query, SettlementInv, SettlementType
  <1>3. SessionOf(t, x)
    BY <1>1, <1>2 DEF ST!Query, SessionOf, SettlementType
  <1>4. /\ x \in [step: SessionSteps, todo: SUBSET ST!Symbols, loaded: {x.loaded},
                  symbol: SUBSET ST!Symbols, quantity: Int, held: BOOLEAN, result: Int,
                  leaving: SUBSET ST!Symbols, empty: SUBSET ST!Symbols]
        /\ x.step = "loop" /\ x.loaded = stPositions /\ x.todo = DOMAIN stPositions
        /\ x.symbol = {} /\ x.leaving = {} /\ x.empty = {}
    <2>1. x = [step |-> "loop", todo |-> DOMAIN stPositions, loaded |-> stPositions,
               symbol |-> {}, quantity |-> 0, held |-> FALSE, result |-> 0,
               leaving |-> {}, empty |-> {}]
      BY <1>1 DEF ST!Idle
    <2>2. DOMAIN stPositions \subseteq ST!Symbols
      BY <1>2 DEF TablesType
    <2>3. QED
      BY <2>1, <2>2 DEF SessionSteps
  <1>5. IsSession(x)
    BY <1>2, <1>4 DEF IsSession, TablesType
  <1>6. stUpset \subseteq stUpset' /\ (stUpset' = {} => ST!Quiet)
    BY DEF ST!Query, ST!Upset
  <1>7. PurchasesCovered => \A s \in ST!Symbols : Bought[s] > 0 => CoversPurchase(x, s)
    BY <1>4 DEF PurchasesCovered, CoversPurchase
  <1>8. InStep(x) /\ \A s : ~Moved(x, s) /\ ~Moved(stJob[t], s)
    BY <1>2, <1>4, IdleSession DEF InStep, Moved
  <1>9. stUpset' = {} => \A u \in Settlers \ {t} : stJob[u].step = "idle"
    BY <1>6, IdleSession DEF ST!Quiet
  <1>10. QED
    BY <1>2, <1>3, <1>5, <1>6, <1>7, <1>8, <1>9, SessionKeeps

\* What Pick and Read give: a row that is left, and what is known of it.
LEMMA RowIsLeft ==
    ASSUME SettlementType, NEW t \in Settlers, NEW s \in ST!Symbols, ST!Pick(t, s)
    PROVE  /\ s \in stJob[t].todo /\ stJob[t].step = "loop" /\ stJob[t].symbol = {}
           /\ IsSession(stJob[t])
           /\ \A q \in ST!Read(t, s) :
                 /\ q \in Int
                 /\ IF s \in DOMAIN stJob[t].loaded THEN q = stJob[t].loaded[s]
                    ELSE s \in DOMAIN stPositions /\ q = stPositions[s]
  <1>1. IsSession(stJob[t]) /\ TablesType
    BY DEF SettlementType
  <1>2. stJob[t].todo \in SUBSET Nat
    BY <1>1, SettlementAssumption DEF IsSession, ST!Symbols
  <1>3. s \in stJob[t].todo /\ stJob[t].step = "loop" /\ stJob[t].symbol = {}
    BY <1>1, <1>2, FirstRowIsLeft DEF ST!Pick, IsSession
  <1>4. ASSUME NEW q \in ST!Read(t, s)
        PROVE  /\ q \in Int
               /\ IF s \in DOMAIN stJob[t].loaded THEN q = stJob[t].loaded[s]
                  ELSE s \in DOMAIN stPositions /\ q = stPositions[s]
    BY <1>1, <1>4 DEF ST!Read, IsSession, TablesType, ST!Quantity
  <1>5. QED
    BY <1>1, <1>3, <1>4

\* A session in its loop is alone when nothing has disturbed it.
LEMMA OtherSessionsIdle ==
    ASSUME AloneAndExact, NEW t \in Settlers, stJob[t].step # "idle"
    PROVE  /\ \A u \in Settlers \ {t} : stJob[u].step = "idle"
           /\ InStep(stJob[t])
           /\ \A s \in ST!Symbols :
                 Moved(stJob[t], s) => ST!Quantity(stHoldings, s) = stOwned[s]
  BY DEF AloneAndExact

LEMMA StSkipKeeps ==
    ASSUME SettlementInv, NEW t \in Settlers, NEW s \in ST!Symbols, ST!Skip(t, s)
    PROVE  SettlementInv'
  <1> DEFINE j == stJob[t]
  <1>1. PICK x : x = [j EXCEPT !.todo = @ \ {s}, !.leaving = @ \cup {s}]
    OBVIOUS
  <1>2. /\ SettlementType /\ TablesType /\ IsSession(j)
        /\ s \in j.todo /\ j.step = "loop" /\ j.symbol = {} /\ stUpset' = stUpset
        /\ UNCHANGED <<stPositions, stHoldings, stOwned>>
        /\ IF s \in DOMAIN j.loaded THEN j.loaded[s] = 0
           ELSE s \in DOMAIN stPositions /\ stPositions[s] = 0
    BY RowIsLeft DEF ST!Skip, SettlementInv, SettlementType
  <1>3. SessionOf(t, x)
    BY <1>1, <1>2 DEF ST!Skip, SessionOf, SettlementType
  <1>4. /\ x \in [step: SessionSteps, todo: SUBSET ST!Symbols, loaded: {x.loaded},
                  symbol: SUBSET ST!Symbols, quantity: Int, held: BOOLEAN, result: Int,
                  leaving: SUBSET ST!Symbols, empty: SUBSET ST!Symbols]
        /\ x.step = "loop" /\ x.loaded = j.loaded /\ x.todo = j.todo \ {s}
        /\ x.symbol = {} /\ x.leaving = j.leaving \cup {s} /\ x.empty = j.empty
    BY <1>1, <1>2 DEF IsSession, SessionSteps
  <1>5. IsSession(x)
    BY <1>2, <1>4 DEF IsSession
  <1>6. ASSUME PurchasesCovered, NEW p \in ST!Symbols, Bought[p] > 0
        PROVE  CoversPurchase(x, p)
    <2>1. CoversPurchase(j, p) /\ ST!Shares(p) >= stOwned[p]
      BY <1>6 DEF PurchasesCovered
    <2>2. ST!Quantity(stPositions, s) = 0 \/ p # s
      BY <1>2, <2>1 DEF CoversPurchase, ST!Quantity
    <2>3. p = s => ST!Quantity(stHoldings, p) >= stOwned[p]
      BY <1>2, <2>1, <2>2 DEF ST!Shares, ST!Quantity, TablesType
    <2>4. QED
      BY <1>2, <1>4, <2>1, <2>3 DEF CoversPurchase
  <1>7. ASSUME AloneAndExact
        PROVE  /\ \A u \in Settlers \ {t} : stJob[u].step = "idle"
               /\ InStep(x)
               /\ \A p \in ST!Symbols :
                     /\ Moved(x, p) => ST!Quantity(stHoldings, p) = stOwned[p]
                     /\ Moved(j, p) => Moved(x, p)
    <2>1. /\ \A u \in Settlers \ {t} : stJob[u].step = "idle"
          /\ InStep(j)
          /\ \A p \in ST!Symbols : Moved(j, p) => ST!Quantity(stHoldings, p) = stOwned[p]
      BY <1>2, <1>7, OtherSessionsIdle
    <2>2. InStep(x)
      BY <1>2, <1>4, <2>1 DEF InStep
    <2>3. ST!Quantity(stPositions, s) = 0
      BY <1>2, <2>1 DEF InStep, ST!Quantity
    <2>4. ~Moved(j, s) /\ \A u \in Settlers \ {t} : stJob[u] = ST!Idle
      BY <1>2, <2>1 DEF Moved, InStep, SettlementType, IsSession
    <2>5. ST!Shares(s) = stOwned[s]
      BY <1>7, <2>4, IdleSession DEF AloneAndExact
    <2>6. ST!Quantity(stHoldings, s) = stOwned[s]
      BY <1>2, <2>3, <2>5 DEF ST!Shares, ST!Quantity, TablesType
    <2>7. QED
      BY <1>2, <1>4, <2>1, <2>2, <2>6 DEF Moved
  <1>8. QED
    BY <1>2, <1>3, <1>5, <1>6, <1>7, SessionKeeps

LEMMA StTakeKeeps ==
    ASSUME SettlementInv, NEW t \in Settlers, NEW s \in ST!Symbols, ST!Take(t, s)
    PROVE  SettlementInv'
  <1> DEFINE j == stJob[t]
  <1>1. PICK q \in ST!Read(t, s) \ {0} :
           stJob' = [stJob EXCEPT
                       ![t].step = "fund", ![t].todo = @ \ {s},
                       ![t].symbol = {s}, ![t].quantity = q,
                       ![t].held = s \in DOMAIN stHoldings,
                       ![t].result = ST!Quantity(stHoldings, s) + q]
    BY DEF ST!Take
  <1>2. PICK x : x = [j EXCEPT !.step = "fund", !.todo = @ \ {s}, !.symbol = {s},
                               !.quantity = q, !.held = s \in DOMAIN stHoldings,
                               !.result = ST!Quantity(stHoldings, s) + q]
    OBVIOUS
  <1>3. /\ SettlementType /\ TablesType /\ IsSession(j)
        /\ s \in j.todo /\ j.step = "loop" /\ j.symbol = {} /\ q \in Int
        /\ IF s \in DOMAIN j.loaded THEN q = j.loaded[s]
           ELSE s \in DOMAIN stPositions /\ q = stPositions[s]
    BY RowIsLeft DEF ST!Take, SettlementInv, SettlementType
  <1>4. UNCHANGED <<stPositions, stHoldings, stOwned, stUpset>>
    BY DEF ST!Take
  <1>5. SessionOf(t, x)
    BY <1>1, <1>2, <1>3 DEF SessionOf, SettlementType
  <1>6. ST!Quantity(stHoldings, s) \in Int
    BY <1>3 DEF TablesType, ST!Quantity
  <1>7. /\ x \in [step: SessionSteps, todo: SUBSET ST!Symbols, loaded: {x.loaded},
                  symbol: SUBSET ST!Symbols, quantity: Int, held: BOOLEAN, result: Int,
                  leaving: SUBSET ST!Symbols, empty: SUBSET ST!Symbols]
        /\ x.step = "fund" /\ x.loaded = j.loaded /\ x.todo = j.todo \ {s}
        /\ x.symbol = {s} /\ x.leaving = j.leaving /\ x.empty = j.empty
        /\ x.held = (s \in DOMAIN stHoldings)
        /\ x.result = ST!Quantity(stHoldings, s) + q
    <2>1. /\ j.todo \subseteq ST!Symbols /\ j.leaving \subseteq ST!Symbols
          /\ j.empty \subseteq ST!Symbols
          /\ j = [step |-> j.step, todo |-> j.todo, loaded |-> j.loaded,
                  symbol |-> j.symbol, quantity |-> j.quantity, held |-> j.held,
                  result |-> j.result, leaving |-> j.leaving, empty |-> j.empty]
      BY <1>3 DEF IsSession
    <2>2. x = [step |-> "fund", todo |-> j.todo \ {s}, loaded |-> j.loaded,
               symbol |-> {s}, quantity |-> q, held |-> (s \in DOMAIN stHoldings),
               result |-> ST!Quantity(stHoldings, s) + q, leaving |-> j.leaving,
               empty |-> j.empty]
      BY <1>2, <2>1
    <2>3. (s \in DOMAIN stHoldings) \in BOOLEAN /\ ST!Quantity(stHoldings, s) + q \in Int
      BY <1>3, <1>6
    <2>4. QED
      BY <1>3, <2>1, <2>2, <2>3 DEF SessionSteps
  <1>8. IsSession(x)
    BY <1>3, <1>7 DEF IsSession
  <1>9. ASSUME PurchasesCovered, NEW p \in ST!Symbols, Bought[p] > 0
        PROVE  CoversPurchase(x, p)
    <2>1. CoversPurchase(j, p) /\ ST!Shares(p) >= stOwned[p]
      BY <1>9 DEF PurchasesCovered
    <2>2. s = p => IF s \in DOMAIN stPositions THEN q = stPositions[s] ELSE q >= 0
      BY <1>3, <2>1 DEF CoversPurchase
    <2>3. stOwned[p] \in Int
      BY <1>3 DEF TablesType
    <2>4. p = s => x.result >= stOwned[p]
      BY <1>3, <1>6, <1>7, <2>1, <2>2, <2>3 DEF ST!Shares, ST!Quantity, TablesType
    <2>5. QED
      BY <1>3, <1>7, <2>1, <2>4 DEF CoversPurchase
  <1>10. ASSUME AloneAndExact
         PROVE  /\ \A u \in Settlers \ {t} : stJob[u].step = "idle"
                /\ InStep(x)
                /\ \A p \in ST!Symbols :
                      /\ Moved(x, p) => ST!Quantity(stHoldings, p) = stOwned[p]
                      /\ Moved(j, p) => Moved(x, p)
    <2>1. /\ \A u \in Settlers \ {t} : stJob[u].step = "idle"
          /\ InStep(j)
          /\ \A p \in ST!Symbols : Moved(j, p) => ST!Quantity(stHoldings, p) = stOwned[p]
      BY <1>3, <1>10, OtherSessionsIdle
    <2>2. s \in DOMAIN stPositions /\ q = stPositions[s]
      BY <1>3, <2>1 DEF InStep
    <2>3. InStep(x)
      BY <1>3, <1>7, <2>1, <2>2 DEF InStep
    <2>4. \A p : Moved(x, p) <=> Moved(j, p)
      BY <1>3, <1>7 DEF Moved
    <2>5. QED
      BY <2>1, <2>3, <2>4
  <1>11. QED
    BY <1>3, <1>4, <1>5, <1>8, <1>9, <1>10, SessionKeeps

LEMMA StFundFailsKeeps ==
    ASSUME SettlementInv, NEW t \in Settlers, ST!FundFails(t)
    PROVE  SettlementInv'
  <1> DEFINE j == stJob[t]
  <1>1. PICK x : x = [j EXCEPT !.step = "mark", !.loaded = ST!Nothing,
                               !.leaving = {}, !.empty = {}]
    OBVIOUS
  <1>2. /\ SettlementType /\ IsSession(j) /\ j.step = "fund"
        /\ UNCHANGED <<stPositions, stHoldings, stOwned>>
    BY DEF ST!FundFails, SettlementInv, SettlementType
  <1>3. SessionOf(t, x)
    BY <1>1, <1>2 DEF ST!FundFails, SessionOf, SettlementType
  <1>4. /\ x \in [step: SessionSteps, todo: SUBSET ST!Symbols, loaded: {x.loaded},
                  symbol: SUBSET ST!Symbols, quantity: Int, held: BOOLEAN, result: Int,
                  leaving: SUBSET ST!Symbols, empty: SUBSET ST!Symbols]
        /\ x.step = "mark" /\ x.loaded = [s \in {} |-> 0] /\ x.symbol = j.symbol
    BY <1>1, <1>2 DEF IsSession, SessionSteps, ST!Nothing
  <1>5. IsSession(x)
    BY <1>2, <1>4 DEF IsSession
  <1>6. ~ST!Quiet
    BY <1>2, IdleSession DEF ST!Quiet
  <1>7. stUpset' = stUpset \cup {"failure"}
    BY <1>6 DEF ST!FundFails, ST!Upset
  <1>8. QED
    BY <1>2, <1>3, <1>5, <1>7, SessionKeeps

LEMMA StMarkKeeps ==
    ASSUME SettlementInv, NEW t \in Settlers, ST!Mark(t)
    PROVE  SettlementInv'
  <1> DEFINE j == stJob[t]
             spent == {s \in j.symbol : j.held /\ stHoldings[s] = 0}
  <1>1. PICK x : x = [j EXCEPT !.step = "loop", !.symbol = {}, !.quantity = 0,
                               !.held = FALSE, !.result = 0,
                               !.leaving = @ \cup j.symbol, !.empty = @ \cup spent]
    OBVIOUS
  <1>2. /\ SettlementType /\ TablesType /\ IsSession(j) /\ j.step = "mark"
        /\ stUpset' = stUpset /\ UNCHANGED <<stPositions, stHoldings, stOwned>>
        /\ j.symbol \subseteq DOMAIN stPositions
        /\ j.held => j.symbol \subseteq DOMAIN stHoldings
    BY DEF ST!Mark, SettlementInv, SettlementType
  <1>3. SessionOf(t, x)
    BY <1>1, <1>2 DEF ST!Mark, SessionOf, SettlementType
  <1>4. /\ x \in [step: SessionSteps, todo: SUBSET ST!Symbols, loaded: {x.loaded},
                  symbol: SUBSET ST!Symbols, quantity: Int, held: BOOLEAN, result: Int,
                  leaving: SUBSET ST!Symbols, empty: SUBSET ST!Symbols]
        /\ x.step = "loop" /\ x.loaded = j.loaded /\ x.todo = j.todo
        /\ x.symbol = {} /\ x.leaving = j.leaving \cup j.symbol
        /\ x.empty = j.empty \cup spent
    <2>1. /\ j.todo \subseteq ST!Symbols /\ j.leaving \subseteq ST!Symbols
          /\ j.empty \subseteq ST!Symbols /\ j.symbol \subseteq ST!Symbols
          /\ j = [step |-> j.step, todo |-> j.todo, loaded |-> j.loaded,
                  symbol |-> j.symbol, quantity |-> j.quantity, held |-> j.held,
                  result |-> j.result, leaving |-> j.leaving, empty |-> j.empty]
      BY <1>2 DEF IsSession
    <2>2. x = [step |-> "loop", todo |-> j.todo, loaded |-> j.loaded, symbol |-> {},
               quantity |-> 0, held |-> FALSE, result |-> 0,
               leaving |-> j.leaving \cup j.symbol, empty |-> j.empty \cup spent]
      BY <1>1, <2>1
    <2>3. spent \subseteq ST!Symbols
      BY <2>1
    <2>4. QED
      BY <2>1, <2>2, <2>3 DEF SessionSteps
  <1>5. IsSession(x)
    BY <1>2, <1>4 DEF IsSession
  <1>6. \A s \in spent : s \in j.symbol /\ ST!Quantity(stHoldings, s) = 0
    BY <1>2 DEF ST!Quantity
  <1> HIDE DEF spent
  <1>7. ASSUME PurchasesCovered, NEW p \in ST!Symbols, Bought[p] > 0
        PROVE  CoversPurchase(x, p)
    <2>1. CoversPurchase(j, p) /\ stOwned[p] \in Int
      BY <1>2, <1>7 DEF PurchasesCovered, TablesType
    <2>2. p \in spent => stOwned[p] =< 0
      BY <1>2, <1>6, <2>1 DEF CoversPurchase
    <2>3. QED
      BY <1>2, <1>4, <2>1, <2>2 DEF CoversPurchase
  <1>8. ASSUME AloneAndExact
        PROVE  /\ \A u \in Settlers \ {t} : stJob[u].step = "idle"
               /\ InStep(x)
               /\ \A p \in ST!Symbols :
                     /\ Moved(x, p) => ST!Quantity(stHoldings, p) = stOwned[p]
                     /\ Moved(j, p) => Moved(x, p)
    <2>1. /\ \A u \in Settlers \ {t} : stJob[u].step = "idle"
          /\ InStep(j)
          /\ \A p \in ST!Symbols : Moved(j, p) => ST!Quantity(stHoldings, p) = stOwned[p]
      BY <1>2, <1>8, OtherSessionsIdle
    <2>2. InStep(x)
      BY <1>2, <1>4, <1>6, <2>1 DEF InStep
    <2>3. \A p : Moved(x, p) <=> Moved(j, p)
      BY <1>2, <1>4 DEF Moved
    <2>4. QED
      BY <2>1, <2>2, <2>3
  <1>9. QED
    BY <1>2, <1>3, <1>5, <1>7, <1>8, SessionKeeps

\* A settlement that nothing disturbs finds its rows.
LEMMA StAbortKeeps ==
    ASSUME SettlementInv, NEW t \in Settlers, ST!Abort(t)
    PROVE  SettlementInv'
  <1> DEFINE j == stJob[t]
  <1>1. /\ SettlementType /\ IsSession(j) /\ j.step \in {"loop", "mark"}
        /\ UNCHANGED <<stPositions, stHoldings, stOwned, stUpset>>
    BY DEF ST!Abort, SettlementInv, SettlementType
  <1>2. SessionOf(t, ST!Idle)
    BY <1>1 DEF ST!Abort, SessionOf, SettlementType
  <1>3. ~AloneAndExact
    <2> SUFFICES ASSUME AloneAndExact PROVE FALSE
      OBVIOUS
    <2>1. InStep(j)
      BY DEF AloneAndExact
    <2>2. CASE j.step = "loop"
      <3>1. j.todo # {} /\ ST!Read(t, ST!Min(j.todo)) = {}
        BY <2>2 DEF ST!Abort
      <3>2. j.todo \in SUBSET Nat
        BY <1>1, SettlementAssumption DEF IsSession, ST!Symbols
      <3>3. ST!Min(j.todo) \in j.todo
        BY <3>1, <3>2, FirstRowIsLeft
      <3>4. ST!Min(j.todo) \in DOMAIN stPositions
        BY <2>1, <3>3 DEF InStep
      <3>5. ST!Read(t, ST!Min(j.todo)) # {}
        BY <3>4 DEF ST!Read
      <3>6. QED
        BY <3>1, <3>5
    <2>3. CASE j.step = "mark"
      BY <2>1, <2>3 DEF ST!Abort, InStep
    <2>4. QED
      BY <1>1, <2>2, <2>3
  <1>4. QED
    BY <1>1, <1>2, <1>3, IdleSession, SessionKeeps

\* The commit of the fund operation: the rows marked so far go, and the holding of
\* the position comes.
LEMMA StFundKeeps ==
    ASSUME SettlementInv, NEW t \in Settlers, ST!Fund(t)
    PROVE  SettlementInv'
  <1> DEFINE j == stJob[t]
  <1>1. PICK x : x = [j EXCEPT !.step = "mark", !.loaded = ST!Nothing,
                               !.leaving = {}, !.empty = {}]
    OBVIOUS
  <1>2. /\ SettlementType /\ TablesType /\ IsSession(j) /\ j.step = "fund"
        /\ UNCHANGED <<stOwned, stUpset>>
        /\ j.held <=> j.symbol \subseteq DOMAIN stHoldings
    BY DEF ST!Fund, ST!CanCommit, SettlementInv, SettlementType
  <1>3. PICK p \in ST!Symbols : j.symbol = {p}
    BY <1>2 DEF IsSession
  <1>4. SessionOf(t, x)
    BY <1>1, <1>2 DEF ST!Fund, SessionOf, SettlementType
  <1>5. /\ x \in [step: SessionSteps, todo: SUBSET ST!Symbols, loaded: {x.loaded},
                  symbol: SUBSET ST!Symbols, quantity: Int, held: BOOLEAN, result: Int,
                  leaving: SUBSET ST!Symbols, empty: SUBSET ST!Symbols]
        /\ x.step = "mark" /\ x.loaded = [s \in {} |-> 0] /\ x.symbol = j.symbol
        /\ x.todo = j.todo /\ x.leaving = {} /\ x.empty = {} /\ x.held = j.held
    BY <1>1, <1>2 DEF IsSession, SessionSteps, ST!Nothing
  <1>6. IsSession(x)
    BY <1>2, <1>5 DEF IsSession
  <1>7. /\ stPositions' = [s \in DOMAIN stPositions \ j.leaving |-> stPositions[s]]
        /\ DOMAIN stPositions' = DOMAIN stPositions \ j.leaving
    BY DEF ST!Fund, ST!Committed, ST!Without, ST!Restrict
  <1>8. /\ DOMAIN stHoldings' = (DOMAIN stHoldings \cup {p}) \ j.empty
        /\ \A s \in DOMAIN stHoldings' :
              stHoldings'[s] = IF s = p THEN j.result ELSE stHoldings[s]
    BY <1>3 DEF ST!Fund
  <1>9. j.result \in Int
    BY <1>2 DEF IsSession
  <1>10. TablesType'
    BY <1>2, <1>7, <1>8, <1>9 DEF TablesType
  <1>11. SettlementType'
    BY <1>2, <1>4, <1>6, <1>10 DEF SettlementType, SessionOf
  <1>12. \A s : ST!Quantity(stPositions, s)' =
                   IF s \in j.leaving THEN 0 ELSE ST!Quantity(stPositions, s)
    BY <1>7 DEF ST!Quantity
  <1>13. \A s : ST!Quantity(stHoldings, s)' =
                   IF s \in j.empty THEN 0
                   ELSE IF s = p THEN j.result ELSE ST!Quantity(stHoldings, s)
    BY <1>8 DEF ST!Quantity
  <1>14. \A s \in ST!Symbols : /\ ST!Quantity(stHoldings, s) \in Int /\ stOwned[s] \in Int
                               /\ ST!Quantity(stPositions, s) \in Int
    BY <1>2 DEF TablesType, ST!Quantity
  <1>15. ASSUME stUpset' \subseteq {"stop", "overlap"}
         PROVE  PurchasesCovered'
    <2>1. PurchasesCovered
      BY <1>2, <1>15 DEF SettlementInv
    <2> SUFFICES ASSUME NEW s \in ST!Symbols, Bought[s] > 0
                 PROVE  /\ s \in DOMAIN stPositions' => stPositions'[s] >= 0
                        /\ ST!Shares(s)' >= stOwned'[s]
                        /\ \A u \in Settlers : CoversPurchase(stJob[u], s)'
      BY DEF PurchasesCovered
    <2>2. /\ s \in DOMAIN stPositions => stPositions[s] >= 0
          /\ ST!Quantity(stHoldings, s) + ST!Quantity(stPositions, s) >= stOwned[s]
          /\ \A u \in Settlers : CoversPurchase(stJob[u], s)
      BY <2>1 DEF PurchasesCovered, ST!Shares
    <2>3. ST!Quantity(stHoldings, s) >= stOwned[s] => ST!Quantity(stHoldings, s)' >= stOwned[s]
      BY <1>2, <1>3, <1>9, <1>13, <1>14, <2>2 DEF CoversPurchase
    <2>4. s \in j.leaving \/ s = p => ST!Quantity(stHoldings, s)' >= stOwned[s]
      BY <1>2, <1>3, <1>9, <1>13, <1>14, <2>2, <2>3 DEF CoversPurchase
    <2>5. ST!Quantity(stPositions, s)' >= 0 /\ (s \in j.empty => stOwned[s] =< 0)
      BY <1>12, <1>14, <2>2 DEF ST!Quantity, CoversPurchase
    <2>6. ST!Quantity(stHoldings, s)' + ST!Quantity(stPositions, s)' >= stOwned[s]
      BY <1>9, <1>12, <1>13, <1>14, <2>2, <2>4, <2>5
    <2>7. CoversPurchase(x, s)'
      BY <1>2, <1>3, <1>5, <2>4 DEF CoversPurchase
    <2>8. ASSUME NEW u \in Settlers \ {t}
          PROVE  CoversPurchase(stJob[u], s)'
      <3>1. stJob'[u] = stJob[u] /\ CoversPurchase(stJob[u], s)
        BY <1>4, <2>2 DEF SessionOf
      <3>2. s \in DOMAIN stPositions' =>
               s \in DOMAIN stPositions /\ stPositions'[s] = stPositions[s]
        BY <1>7
      <3>3. QED
        BY <1>2, <2>3, <3>1, <3>2 DEF CoversPurchase
    <2>9. s \in DOMAIN stPositions' => stPositions'[s] >= 0
      BY <1>7, <2>2
    <2>10. QED
      BY <1>2, <1>4, <2>6, <2>7, <2>8, <2>9 DEF SessionOf, ST!Shares
  <1>16. ASSUME stUpset' = {}
         PROVE  AloneAndExact'
    <2>1. AloneAndExact
      BY <1>2, <1>16 DEF SettlementInv
    <2>2. /\ \A u \in Settlers \ {t} : stJob[u].step = "idle"
          /\ InStep(j)
      BY <1>2, <2>1, OtherSessionsIdle
    <2>3. \A u \in Settlers \ {t} : stJob[u] = ST!Idle
      BY <1>2, <2>2 DEF SettlementType, IsSession
    <2>4. \A u \in Settlers : stJob'[u] = IF u = t THEN x ELSE ST!Idle
      BY <1>4, <2>3 DEF SessionOf
    <2>5. InStep(ST!Idle)'
      BY IdleSession DEF InStep, IsSession, ST!Idle, ST!Nothing
    <2>6. p \notin j.empty /\ p \notin j.leaving /\ p \in DOMAIN stHoldings'
      BY <1>3, <1>8, <2>2 DEF InStep
    <2>7. InStep(x)'
      BY <1>2, <1>3, <1>5, <1>7, <2>2, <2>6 DEF InStep
    <2>8. \A s \in ST!Symbols : (\E u \in Settlers : Moved(stJob[u], s)') <=> s = p
      BY <1>3, <1>5, <2>4, IdleSession DEF Moved
    <2>9. \A s \in ST!Symbols : (\E u \in Settlers : Moved(stJob[u], s)) <=> s \in j.leaving
      BY <1>2, <2>3, IdleSession DEF Moved
    <2>10. ST!Quantity(stHoldings, p)' = stOwned[p]
      <3>1. p \in DOMAIN stPositions /\ j.result = ST!Quantity(stHoldings, p) + stPositions[p]
        BY <1>2, <1>3, <2>2 DEF InStep
      <3>2. ST!Quantity(stHoldings, p) + stPositions[p] = stOwned[p]
        BY <2>1, <2>6, <2>9, <3>1 DEF AloneAndExact, ST!Shares, ST!Quantity
      <3>3. QED
        BY <1>13, <2>6, <3>1, <3>2
    <2>11. \A s \in j.empty : s \in j.leaving /\ ST!Quantity(stHoldings, s) = 0
      BY <2>2 DEF InStep
    <2>12. \A s \in ST!Symbols \ {p} :
              ST!Quantity(stHoldings, s)' + ST!Quantity(stPositions, s)' = stOwned[s]
      <3> SUFFICES ASSUME NEW s \in ST!Symbols, s # p
                   PROVE  ST!Quantity(stHoldings, s)' + ST!Quantity(stPositions, s)'
                             = stOwned[s]
        OBVIOUS
      <3>1. ST!Quantity(stHoldings, s)' = ST!Quantity(stHoldings, s)
        BY <1>13, <2>11
      <3>2. CASE s \in j.leaving
        <4>1. ST!Quantity(stHoldings, s) = stOwned[s]
          BY <2>1, <2>9, <3>2 DEF AloneAndExact
        <4>2. QED
          BY <1>12, <1>14, <3>1, <3>2, <4>1
      <3>3. CASE s \notin j.leaving
        BY <1>12, <2>1, <2>9, <3>1, <3>3 DEF AloneAndExact, ST!Shares
      <3>4. QED
        BY <3>2, <3>3
    <2>13. QED
      BY <1>2, <2>4, <2>5, <2>7, <2>8, <2>10, <2>12, IdleSession DEF AloneAndExact, ST!Shares
  <1>17. QED
    BY <1>11, <1>15, <1>16 DEF SettlementInv

\* The last commit takes the marked rows along.
LEMMA StFinishKeeps ==
    ASSUME SettlementInv, NEW t \in Settlers, ST!Finish(t)
    PROVE  SettlementInv'
  <1> DEFINE j == stJob[t]
  <1>1. /\ SettlementType /\ TablesType /\ IsSession(j) /\ j.step = "loop" /\ j.todo = {}
        /\ j.symbol = {} /\ UNCHANGED <<stOwned, stUpset>>
    BY DEF ST!Finish, SettlementInv, SettlementType, IsSession
  <1>2. SessionOf(t, ST!Idle)
    BY <1>1 DEF ST!Finish, SessionOf, SettlementType
  <1>3. /\ stPositions' = [s \in DOMAIN stPositions \ j.leaving |-> stPositions[s]]
        /\ DOMAIN stPositions' = DOMAIN stPositions \ j.leaving
        /\ stHoldings' = [s \in DOMAIN stHoldings \ j.empty |-> stHoldings[s]]
    BY DEF ST!Finish, ST!Committed, ST!Without, ST!Restrict
  <1>4. TablesType'
    BY <1>1, <1>3 DEF TablesType
  <1>5. SettlementType'
    BY <1>1, <1>2, <1>4, IdleSession DEF SettlementType, SessionOf
  <1>6. \A s : /\ ST!Quantity(stPositions, s)' =
                     IF s \in j.leaving THEN 0 ELSE ST!Quantity(stPositions, s)
               /\ ST!Quantity(stHoldings, s)' =
                     IF s \in j.empty THEN 0 ELSE ST!Quantity(stHoldings, s)
    BY <1>3 DEF ST!Quantity
  <1>7. \A s \in ST!Symbols : /\ ST!Quantity(stHoldings, s) \in Int /\ stOwned[s] \in Int
                              /\ ST!Quantity(stPositions, s) \in Int
    BY <1>1 DEF TablesType, ST!Quantity
  <1>8. ASSUME stUpset' \subseteq {"stop", "overlap"}
        PROVE  PurchasesCovered'
    <2>1. PurchasesCovered
      BY <1>1, <1>8 DEF SettlementInv
    <2> SUFFICES ASSUME NEW s \in ST!Symbols, Bought[s] > 0
                 PROVE  /\ s \in DOMAIN stPositions' => stPositions'[s] >= 0
                        /\ ST!Shares(s)' >= stOwned'[s]
                        /\ \A u \in Settlers : CoversPurchase(stJob[u], s)'
      BY DEF PurchasesCovered
    <2>2. /\ s \in DOMAIN stPositions => stPositions[s] >= 0
          /\ ST!Quantity(stHoldings, s) + ST!Quantity(stPositions, s) >= stOwned[s]
          /\ \A u \in Settlers : CoversPurchase(stJob[u], s)
      BY <2>1 DEF PurchasesCovered, ST!Shares
    <2>3. ST!Quantity(stHoldings, s) >= stOwned[s] => ST!Quantity(stHoldings, s)' >= stOwned[s]
      BY <1>6, <1>7, <2>2 DEF CoversPurchase
    <2>4. s \in j.leaving => ST!Quantity(stHoldings, s)' >= stOwned[s]
      BY <2>2, <2>3 DEF CoversPurchase
    <2>5. ST!Quantity(stPositions, s)' >= 0 /\ (s \in j.empty => stOwned[s] =< 0)
      BY <1>6, <1>7, <2>2 DEF ST!Quantity, CoversPurchase
    <2>6. ST!Quantity(stHoldings, s)' + ST!Quantity(stPositions, s)' >= stOwned[s]
      BY <1>6, <1>7, <2>2, <2>4, <2>5
    <2>7. CoversPurchase(ST!Idle, s)'
      BY IdleSession DEF CoversPurchase, ST!Idle, ST!Nothing
    <2>8. ASSUME NEW u \in Settlers \ {t}
          PROVE  CoversPurchase(stJob[u], s)'
      <3>1. stJob'[u] = stJob[u] /\ CoversPurchase(stJob[u], s)
        BY <1>2, <2>2 DEF SessionOf
      <3>2. s \in DOMAIN stPositions' =>
               s \in DOMAIN stPositions /\ stPositions'[s] = stPositions[s]
        BY <1>3
      <3>3. QED
        BY <1>1, <2>3, <3>1, <3>2 DEF CoversPurchase
    <2>9. s \in DOMAIN stPositions' => stPositions'[s] >= 0
      BY <1>3, <2>2
    <2>10. QED
      BY <1>1, <1>2, <2>6, <2>7, <2>8, <2>9 DEF SessionOf, ST!Shares
  <1>9. ASSUME stUpset' = {}
        PROVE  AloneAndExact'
    <2>1. AloneAndExact
      BY <1>1, <1>9 DEF SettlementInv
    <2>2. /\ \A u \in Settlers \ {t} : stJob[u].step = "idle"
          /\ InStep(j)
      BY <1>1, <2>1, OtherSessionsIdle
    <2>3. \A u \in Settlers \ {t} : stJob[u] = ST!Idle
      BY <1>1, <2>2 DEF SettlementType, IsSession
    <2>4. \A u \in Settlers : stJob'[u] = ST!Idle
      BY <1>2, <2>3 DEF SessionOf
    <2>5. InStep(ST!Idle)'
      BY IdleSession DEF InStep, IsSession, ST!Idle, ST!Nothing
    <2>6. \A s : (\E u \in Settlers : Moved(stJob[u], s)) <=> s \in j.leaving
      BY <1>1, <2>3, IdleSession DEF Moved
    <2>7. \A s \in j.empty : s \in j.leaving /\ ST!Quantity(stHoldings, s) = 0
      BY <2>2 DEF InStep
    <2>8. ASSUME NEW s \in ST!Symbols
          PROVE  ST!Shares(s)' = stOwned'[s]
      <3>1. ST!Quantity(stHoldings, s)' = ST!Quantity(stHoldings, s)
        BY <1>6, <2>7
      <3>2. CASE s \in j.leaving
        <4>1. ST!Quantity(stHoldings, s) = stOwned[s]
          BY <2>1, <2>6, <3>2 DEF AloneAndExact
        <4>2. QED
          BY <1>1, <1>6, <1>7, <3>1, <3>2, <4>1 DEF ST!Shares
      <3>3. CASE s \notin j.leaving
        BY <1>1, <1>6, <2>1, <2>6, <3>1, <3>3 DEF AloneAndExact, ST!Shares
      <3>4. QED
        BY <3>2, <3>3
    <2>9. QED
      BY <2>4, <2>5, <2>8, IdleSession DEF AloneAndExact, Moved
  <1>10. QED
    BY <1>5, <1>8, <1>9 DEF SettlementInv

\* An order that fills between two settlements changes a row and what is owned.
LEMMA StFillKeeps ==
    ASSUME SettlementInv, NEW s \in ST!Symbols, NEW change \in {1, -1}, ST!Fill(s, change)
    PROVE  SettlementInv'
  <1>1. SettlementType /\ TablesType /\ UNCHANGED <<stHoldings, stJob>>
    BY DEF ST!Fill, SettlementInv, SettlementType
  <1>2. s \in DOMAIN stPositions /\ stPositions[s] > 0
    BY DEF ST!Fill, ST!Quantity
  <1>3. /\ stPositions' = [stPositions EXCEPT ![s] = @ + change]
        /\ stOwned' = [stOwned EXCEPT ![s] = @ + change]
    BY DEF ST!Fill
  <1>4. TablesType'
    <2>1. stOwned' \in [ST!Symbols -> Int]
      BY <1>1, <1>3 DEF TablesType
    <2>2. DOMAIN stPositions' = DOMAIN stPositions
      BY <1>3
    <2>3. stPositions' = [p \in DOMAIN stPositions' |-> stPositions'[p]]
      BY <1>3
    <2>4. \A p \in DOMAIN stPositions' : stPositions'[p] \in Int
      BY <1>1, <1>2, <1>3 DEF TablesType
    <2>5. QED
      BY <1>1, <2>1, <2>2, <2>3, <2>4 DEF TablesType
  <1>5. SettlementType'
    BY <1>1, <1>4 DEF SettlementType
  <1>6. ST!Quiet \/ "fill" \in stUpset'
    BY DEF ST!Fill, ST!Upset
  <1>7. ASSUME ST!Quiet
        PROVE  (PurchasesCovered => PurchasesCovered') /\ (AloneAndExact => AloneAndExact')
    <2>1. \A t \in Settlers : stJob[t] = ST!Idle /\ stJob'[t] = ST!Idle
      BY <1>1, <1>7 DEF ST!Quiet
    <2>2. \A p \in ST!Symbols : ST!Shares(p)' = ST!Shares(p) + (IF p = s THEN change ELSE 0)
      <3>1. \A p \in ST!Symbols :
               ST!Quantity(stPositions, p)' =
                  ST!Quantity(stPositions, p) + (IF p = s THEN change ELSE 0)
        BY <1>1, <1>2, <1>3 DEF ST!Quantity, TablesType
      <3>2. \A p \in ST!Symbols :
               /\ ST!Quantity(stHoldings, p)' = ST!Quantity(stHoldings, p)
               /\ ST!Quantity(stHoldings, p) \in Int /\ ST!Quantity(stPositions, p) \in Int
        BY <1>1 DEF ST!Quantity, TablesType
      <3>3. QED
        BY <3>1, <3>2 DEF ST!Shares
    <2>3. \A p \in ST!Symbols : /\ stOwned'[p] = stOwned[p] + (IF p = s THEN change ELSE 0)
                                /\ stOwned[p] \in Int /\ ST!Shares(p) \in Int
      BY <1>1, <1>3 DEF TablesType, ST!Shares, ST!Quantity
    <2>4. /\ \A p : CoversPurchase(ST!Idle, p)' /\ ~Moved(ST!Idle, p)'
          /\ InStep(ST!Idle)'
      BY IdleSession DEF CoversPurchase, Moved, InStep, ST!Idle, ST!Nothing
    <2>5. \A p \in DOMAIN stPositions' :
             p \in DOMAIN stPositions /\ (stPositions[p] >= 0 => stPositions'[p] >= 0)
      BY <1>1, <1>2, <1>3 DEF TablesType
    <2>6. PurchasesCovered => PurchasesCovered'
      BY <2>1, <2>2, <2>3, <2>4, <2>5 DEF PurchasesCovered
    <2>7. AloneAndExact => AloneAndExact'
      BY <2>1, <2>2, <2>3, <2>4, IdleSession DEF AloneAndExact
    <2>8. QED
      BY <2>6, <2>7
  <1>8. stUpset \subseteq stUpset'
    BY DEF ST!Fill, ST!Upset
  <1>9. QED
    BY <1>5, <1>6, <1>7, <1>8 DEF SettlementInv

\* A stop rolls the sessions back.
LEMMA StStopKeeps ==
    ASSUME SettlementInv, ST!Stop
    PROVE  SettlementInv'
  <1>1. /\ SettlementType /\ UNCHANGED <<stPositions, stHoldings, stOwned>>
        /\ stUpset' = stUpset \cup {"stop"} /\ stJob' = [t \in Settlers |-> ST!Idle]
    BY DEF ST!Stop, ST!Upset, SettlementInv
  <1>2. SettlementType'
    BY <1>1, IdleSession DEF SettlementType, TablesType
  <1>3. \A s : CoversPurchase(ST!Idle, s)'
    BY IdleSession DEF CoversPurchase, ST!Idle, ST!Nothing
  <1>4. PurchasesCovered => PurchasesCovered'
    BY <1>1, <1>3 DEF PurchasesCovered, ST!Shares
  <1>5. QED
    BY <1>1, <1>2, <1>4 DEF SettlementInv

LEMMA SettlementStep == SettlementInv /\ ST!Next => SettlementInv'
  <1> SUFFICES ASSUME SettlementInv, ST!Next PROVE SettlementInv'
    OBVIOUS
  <1>1. ASSUME NEW t \in Settlers, ST!Query(t) \/ ST!Step(t)
        PROVE  SettlementInv'
    <2>1. ASSUME NEW s \in ST!Symbols, ST!Skip(t, s) \/ ST!Take(t, s)
          PROVE  SettlementInv'
      BY <2>1, StSkipKeeps, StTakeKeeps
    <2>2. CASE ST!Query(t) \/ ST!Fund(t) \/ ST!FundFails(t)
      BY <2>2, StQueryKeeps, StFundKeeps, StFundFailsKeeps
    <2>3. CASE ST!Mark(t) \/ ST!Finish(t) \/ ST!Abort(t)
      BY <2>3, StMarkKeeps, StFinishKeeps, StAbortKeeps
    <2>4. QED
      BY <1>1, <2>1, <2>2, <2>3 DEF ST!Step
  <1>2. ASSUME NEW s \in ST!Symbols, NEW change \in {1, -1}, ST!Fill(s, change)
        PROVE  SettlementInv'
    BY <1>2, StFillKeeps
  <1>3. CASE ST!Stop
    BY <1>3, StStopKeeps
  <1>4. QED
    BY <1>1, <1>2, <1>3 DEF ST!Next

\* The inductive invariant of the settlements, for any number of settlers, rows,
\* fills and stops.
THEOREM ServerSettlementInv == Spec => []SettlementInv
  <1>1. SettlementInv /\ UNCHANGED stVars => SettlementInv'
    <2> SUFFICES ASSUME SettlementInv, UNCHANGED stVars PROVE SettlementInv'
      OBVIOUS
    <2>1. UNCHANGED <<stPositions, stHoldings, stJob, stOwned, stUpset>>
      BY DEF stVars
    <2>2. SettlementType' /\ (PurchasesCovered => PurchasesCovered')
      BY <2>1 DEF SettlementInv, SettlementType, TablesType, PurchasesCovered,
                  CoversPurchase, ST!Shares
    <2>3. AloneAndExact => AloneAndExact'
      <3>1. \A s : (\E t \in Settlers : Moved(stJob[t], s)') <=>
                     \E t \in Settlers : Moved(stJob[t], s)
        BY <2>1 DEF Moved
      <3>2. \A t \in Settlers : InStep(stJob[t])' <=> InStep(stJob[t])
        BY <2>1 DEF InStep
      <3>3. QED
        BY <2>1, <3>1, <3>2 DEF AloneAndExact, ST!Shares, ST!Quantity
    <2>4. QED
      BY <2>1, <2>2, <2>3 DEF SettlementInv
  <1>2. [Next]_vars => ST!Next \/ UNCHANGED stVars
    BY DEF Next, vars, Settle, Expire, SquareOff, Approve, DownloadData, Host,
           Signal, Subscribe, Switch
  <1>3. QED
    BY <1>1, <1>2, SettlementInit, SettlementStep, PTL DEF Spec, Init

\* A settlement that nothing disturbs (one session from its query to its last commit)
\* leaves every symbol with the shares that trades gave it: each row is marked once
\* its quantity is in the holdings, and goes with a later commit of the loop.
THEOREM ServerKeepsShares == Spec => []SettlementKeepsShares
  <1>1. SettlementInv => SettlementKeepsShares
    <2> SUFFICES ASSUME SettlementInv, ST!Quiet, stUpset = {}, NEW s \in ST!Symbols
                 PROVE  ST!Shares(s) = stOwned[s]
      BY DEF SettlementKeepsShares, ST!SettlementKeepsShares
    <2>1. \A t \in Settlers : ~Moved(stJob[t], s)
      BY IdleSession DEF ST!Quiet
    <2>2. QED
      BY <2>1 DEF SettlementInv, AloneAndExact
  <1>2. QED
    BY <1>1, ServerSettlementInv, PTL

\* Stops and overlapping settlements never lose a bought share: whoever deletes a row
\* has committed the holding before, with at least what is owned.
THEOREM ServerKeepsPurchases == Spec => []NoPurchaseVanishes
  <1>1. \A s : s \in DOMAIN ST!Purchases => s \in ST!Symbols /\ Bought[s] > 0
    BY DEF ST!Purchases, ST!RestrictValues, ST!Restrict, ST!Symbols
  <1>2. SettlementInv => NoPurchaseVanishes
    BY <1>1 DEF SettlementInv, PurchasesCovered, NoPurchaseVanishes, ST!NoPurchaseVanishes
  <1>3. QED
    BY <1>2, ServerSettlementInv, PTL

-----------------------------------------------------------------------------
(* Settlement: the worth stays *)

\* A row with a negative quantity sells what is held: a delivery order to sell is
\* accepted up to the shares in the position and the holdings.
SalesAreCovered == \A s \in DOMAIN Bought : Bought[s] < 0 => s \in DOMAIN Held

WorthType ==
    /\ stFunds \in [used: Int, available: Int]
    /\ stHoldings = [s \in DOMAIN stHoldings |-> stHoldings[s]]
    /\ DOMAIN stHoldings \subseteq ST!Symbols \cup DOMAIN Held

\* What the session x has read and marked, in relation to the holdings.
KeepsWorth(x) ==
    /\ x.todo \cap x.leaving = {} /\ x.todo \cap x.symbol = {} /\ x.symbol \cap x.leaving = {}
    /\ x.empty \subseteq x.leaving
    /\ \A s \in x.empty : ST!Quantity(stHoldings, s) = 0
    /\ \A s \in DOMAIN x.loaded : x.loaded[s] < 0 => s \in DOMAIN stHoldings
    /\ x.step = "fund" => /\ \A s \in x.symbol :
                                x.result = ST!Quantity(stHoldings, s) + x.quantity
                          /\ x.quantity < 0 => x.held

OneSession ==
    \A t, u \in Settlers : stJob[t].step # "idle" /\ stJob[u].step # "idle" => t = u

WorthAtStart == SumFunction(ST!Purchases) + SumFunction(Held)
Worth == stFunds.used + stFunds.available + SumFunction(stHoldings)

NothingLost ==
    /\ OneSession
    /\ \A t \in Settlers : KeepsWorth(stJob[t])
    /\ \A s \in DOMAIN stPositions : stPositions[s] < 0 => s \in DOMAIN stHoldings
    /\ Worth = WorthAtStart

WorthInv == WorthType /\ (stUpset \subseteq {"fill", "failure"} => NothingLost)

LEMMA SettlementSum ==
    ASSUME NEW f PROVE ST!SumFunction(f) = SumFunction(f)
  BY DEF ST!SumFunction, ST!SumFunctionOnSet, ST!FoldFunctionOnSet, ST!MapThenFoldSet,
         SumFunction, SumFunctionOnSet, FoldFunctionOnSet, MapThenFoldSet

LEMMA HoldingsSummable ==
    ASSUME SettlementType, WorthType
    PROVE  /\ IsFiniteSet(DOMAIN stHoldings)
           /\ stHoldings \in [DOMAIN stHoldings -> Int]
           /\ SumFunction(stHoldings) \in Int
  <1>1. IsFiniteSet(DOMAIN stHoldings)
    <2>1. IsFiniteSet(ST!Symbols \cup DOMAIN Held)
      BY SettlementAssumption DEF ST!Symbols
    <2>2. QED
      BY <2>1, FS_Subset DEF WorthType
  <1>2. stHoldings \in [DOMAIN stHoldings -> Int]
    BY DEF WorthType, SettlementType, TablesType
  <1>3. PICK D, h : D = DOMAIN stHoldings /\ h = stHoldings
    OBVIOUS
  <1>4. IsFiniteSet(D) /\ h \in [D -> Int]
    BY <1>1, <1>2, <1>3
  <1>5. SumFunction(h) \in Int
    BY <1>4, SumType
  <1>6. QED
    BY <1>1, <1>2, <1>3, <1>5

LEMMA IdleKeepsWorth == KeepsWorth(ST!Idle) /\ KeepsWorth(ST!Idle)'
  <1>1. /\ ST!Idle.step = "idle" /\ ST!Idle.loaded = [s \in {} |-> 0]
        /\ ST!Idle.todo = {} /\ ST!Idle.symbol = {} /\ ST!Idle.leaving = {}
        /\ ST!Idle.empty = {}
    BY DEF ST!Idle, ST!Nothing
  <1>2. QED
    BY <1>1 DEF KeepsWorth

LEMMA WorthInit == ASSUME SalesAreCovered PROVE ST!Init => WorthInv
  <1> SUFFICES ASSUME ST!Init PROVE WorthInv
    OBVIOUS
  <1>1. PICK D, p : D = DOMAIN ST!Purchases /\ p = ST!Purchases
    OBVIOUS
  <1>2. IsFiniteSet(D) /\ p \in [D -> Int]
    <2>1. ST!Purchases = [s \in {z \in DOMAIN Bought : Bought[z] > 0} |-> Bought[s]]
      BY DEF ST!Purchases, ST!RestrictValues, ST!Restrict
    <2>2. D \subseteq DOMAIN Bought
      BY <1>1, <2>1
    <2>3. IsFiniteSet(D)
      BY <2>2, SettlementAssumption, FS_Subset
    <2>4. \A s \in DOMAIN Bought : Bought[s] \in Int
      BY SettlementAssumption
    <2>5. QED
      BY <1>1, <2>1, <2>3, <2>4
  <1>3. SumFunction(ST!Purchases) \in Int
    BY <1>1, <1>2, SumType
  <1>4. /\ stFunds = [used |-> SumFunction(ST!Purchases), available |-> 0]
        /\ stHoldings = Held /\ stPositions = Bought
        /\ \A t \in Settlers : stJob[t] = ST!Idle
    BY SettlementSum DEF ST!Init
  <1>5. WorthType
    BY <1>3, <1>4, SettlementAssumption DEF WorthType
  <1>6. NothingLost
    BY <1>3, <1>4, IdleKeepsWorth, IdleSession
       DEF NothingLost, OneSession, Worth, WorthAtStart, SalesAreCovered
  <1>7. QED
    BY <1>5, <1>6 DEF WorthInv

\* A step of one session that writes neither the funds nor the holdings.
LEMMA SessionKeepsWorth ==
    ASSUME SettlementInv, WorthInv, NEW t \in Settlers, NEW x, SessionOf(t, x),
           UNCHANGED <<stFunds, stHoldings>>, stUpset \subseteq stUpset',
           stUpset' \subseteq {"fill", "failure"} => stJob[t].step # "idle" \/ ST!Quiet,
           \A s \in DOMAIN stPositions' :
              s \in DOMAIN stPositions /\ stPositions'[s] = stPositions[s],
           NothingLost => KeepsWorth(x)
    PROVE  WorthInv'
  <1>1. WorthType'
    BY DEF WorthInv, WorthType
  <1>2. ASSUME stUpset' \subseteq {"fill", "failure"}
        PROVE  NothingLost'
    <2>1. NothingLost
      BY <1>2 DEF WorthInv
    <2>2. \A u \in Settlers \ {t} : stJob[u].step = "idle"
      BY <1>2, <2>1, IdleSession DEF NothingLost, OneSession, ST!Quiet
    <2>3. \A u \in Settlers : stJob'[u] = IF u = t THEN x ELSE stJob[u]
      BY DEF SessionOf
    <2>4. OneSession'
      BY <2>2, <2>3 DEF OneSession
    <2>5. \A u \in Settlers : KeepsWorth(stJob[u])'
      <3>1. ASSUME NEW u \in Settlers PROVE KeepsWorth(stJob'[u])
        BY <2>1, <2>3 DEF NothingLost
      <3>2. QED
        BY <3>1 DEF KeepsWorth, ST!Quantity
    <2>6. QED
      BY <2>1, <2>4, <2>5 DEF NothingLost, Worth
  <1>3. QED
    BY <1>1, <1>2 DEF WorthInv

LEMMA QueryKeepsWorth ==
    ASSUME SettlementInv, WorthInv, NEW t \in Settlers, ST!Query(t)
    PROVE  WorthInv'
  <1>1. PICK x : x = [ST!Idle EXCEPT !.step = "loop", !.todo = DOMAIN stPositions,
                                     !.loaded = stPositions]
    OBVIOUS
  <1>2. SessionOf(t, x)
    BY <1>1 DEF ST!Query, SessionOf, SettlementInv, SettlementType
  <1>3. /\ UNCHANGED <<stFunds, stHoldings, stPositions>> /\ stUpset \subseteq stUpset'
        /\ stUpset' \subseteq {"fill", "failure"} => ST!Quiet
    BY DEF ST!Query, ST!Upset
  <1>4. /\ x.step = "loop" /\ x.loaded = stPositions /\ x.symbol = {} /\ x.leaving = {}
        /\ x.empty = {}
    BY <1>1 DEF ST!Idle
  <1>5. NothingLost => KeepsWorth(x)
    BY <1>4 DEF NothingLost, KeepsWorth
  <1>6. QED
    BY <1>2, <1>3, <1>5, SessionKeepsWorth

LEMMA SkipKeepsWorth ==
    ASSUME SettlementInv, WorthInv, NEW t \in Settlers, NEW s \in ST!Symbols, ST!Skip(t, s)
    PROVE  WorthInv'
  <1> DEFINE j == stJob[t]
  <1>1. PICK x : x = [j EXCEPT !.todo = @ \ {s}, !.leaving = @ \cup {s}]
    OBVIOUS
  <1>2. /\ IsSession(j) /\ j.step = "loop" /\ s \in j.todo /\ j.symbol = {}
    BY RowIsLeft DEF ST!Skip, SettlementInv, SettlementType
  <1>3. SessionOf(t, x)
    BY <1>1 DEF ST!Skip, SessionOf, SettlementInv, SettlementType
  <1>4. UNCHANGED <<stFunds, stHoldings, stPositions, stUpset>>
    BY DEF ST!Skip
  <1>5. /\ x.step = "loop" /\ x.loaded = j.loaded /\ x.symbol = {} /\ x.empty = j.empty
        /\ x.todo = j.todo \ {s} /\ x.leaving = j.leaving \cup {s}
    BY <1>1, <1>2 DEF IsSession
  <1>6. NothingLost => KeepsWorth(x)
    <2> SUFFICES ASSUME KeepsWorth(j) PROVE KeepsWorth(x)
      BY DEF NothingLost
    <2>1. QED
      BY <1>5 DEF KeepsWorth
  <1>7. QED
    BY <1>2, <1>3, <1>4, <1>6, SessionKeepsWorth

LEMMA TakeKeepsWorth ==
    ASSUME SettlementInv, WorthInv, NEW t \in Settlers, NEW s \in ST!Symbols, ST!Take(t, s)
    PROVE  WorthInv'
  <1> DEFINE j == stJob[t]
  <1>1. PICK q \in ST!Read(t, s) \ {0} :
           stJob' = [stJob EXCEPT
                       ![t].step = "fund", ![t].todo = @ \ {s},
                       ![t].symbol = {s}, ![t].quantity = q,
                       ![t].held = s \in DOMAIN stHoldings,
                       ![t].result = ST!Quantity(stHoldings, s) + q]
    BY DEF ST!Take
  <1>2. PICK x : x = [j EXCEPT !.step = "fund", !.todo = @ \ {s}, !.symbol = {s},
                               !.quantity = q, !.held = s \in DOMAIN stHoldings,
                               !.result = ST!Quantity(stHoldings, s) + q]
    OBVIOUS
  <1>3. /\ IsSession(j) /\ j.step = "loop" /\ s \in j.todo /\ j.symbol = {}
        /\ IF s \in DOMAIN j.loaded THEN q = j.loaded[s]
           ELSE s \in DOMAIN stPositions /\ q = stPositions[s]
    BY RowIsLeft DEF ST!Take, SettlementInv, SettlementType
  <1>4. SessionOf(t, x)
    BY <1>1, <1>2 DEF SessionOf, SettlementInv, SettlementType
  <1>5. UNCHANGED <<stFunds, stHoldings, stPositions, stUpset>>
    BY DEF ST!Take
  <1>6. /\ x.step = "fund" /\ x.loaded = j.loaded /\ x.symbol = {s} /\ x.empty = j.empty
        /\ x.todo = j.todo \ {s} /\ x.leaving = j.leaving /\ x.quantity = q
        /\ x.held = (s \in DOMAIN stHoldings)
        /\ x.result = ST!Quantity(stHoldings, s) + q
    BY <1>2, <1>3 DEF IsSession
  <1>7. NothingLost => KeepsWorth(x)
    <2> SUFFICES ASSUME NothingLost PROVE KeepsWorth(x)
      OBVIOUS
    <2>1. KeepsWorth(j)
      BY DEF NothingLost
    <2>2. q < 0 => s \in DOMAIN stHoldings
      BY <1>3, <2>1 DEF NothingLost, KeepsWorth
    <2>3. QED
      BY <1>3, <1>6, <2>1, <2>2 DEF KeepsWorth
  <1>8. QED
    BY <1>3, <1>4, <1>5, <1>7, SessionKeepsWorth

LEMMA FundFailsKeepsWorth ==
    ASSUME SettlementInv, WorthInv, NEW t \in Settlers, ST!FundFails(t)
    PROVE  WorthInv'
  <1> DEFINE j == stJob[t]
  <1>1. PICK x : x = [j EXCEPT !.step = "mark", !.loaded = ST!Nothing,
                               !.leaving = {}, !.empty = {}]
    OBVIOUS
  <1>2. IsSession(j) /\ j.step = "fund"
    BY DEF ST!FundFails, SettlementInv, SettlementType
  <1>3. SessionOf(t, x)
    BY <1>1 DEF ST!FundFails, SessionOf, SettlementInv, SettlementType
  <1>4. UNCHANGED <<stFunds, stHoldings, stPositions>> /\ stUpset \subseteq stUpset'
    BY DEF ST!FundFails, ST!Upset
  <1>5. /\ x.step = "mark" /\ x.loaded = [s \in {} |-> 0] /\ x.symbol = j.symbol
        /\ x.empty = {} /\ x.todo = j.todo /\ x.leaving = {}
    BY <1>1, <1>2 DEF IsSession, ST!Nothing
  <1>6. NothingLost => KeepsWorth(x)
    BY <1>5 DEF NothingLost, KeepsWorth
  <1>7. QED
    BY <1>2, <1>3, <1>4, <1>6, SessionKeepsWorth

LEMMA MarkKeepsWorth ==
    ASSUME SettlementInv, WorthInv, NEW t \in Settlers, ST!Mark(t)
    PROVE  WorthInv'
  <1> DEFINE j == stJob[t]
             spent == {s \in j.symbol : j.held /\ stHoldings[s] = 0}
  <1>1. PICK x : x = [j EXCEPT !.step = "loop", !.symbol = {}, !.quantity = 0,
                               !.held = FALSE, !.result = 0,
                               !.leaving = @ \cup j.symbol, !.empty = @ \cup spent]
    OBVIOUS
  <1>2. /\ IsSession(j) /\ j.step = "mark" /\ (j.held => j.symbol \subseteq DOMAIN stHoldings)
    BY DEF ST!Mark, SettlementInv, SettlementType
  <1>3. SessionOf(t, x)
    BY <1>1 DEF ST!Mark, SessionOf, SettlementInv, SettlementType
  <1>4. UNCHANGED <<stFunds, stHoldings, stPositions, stUpset>>
    BY DEF ST!Mark
  <1>5. /\ x.step = "loop" /\ x.loaded = j.loaded /\ x.symbol = {} /\ x.todo = j.todo
        /\ x.leaving = j.leaving \cup j.symbol /\ x.empty = j.empty \cup spent
    BY <1>1, <1>2 DEF IsSession
  <1>6. \A s \in spent : s \in j.symbol /\ ST!Quantity(stHoldings, s) = 0
    BY <1>2 DEF ST!Quantity
  <1> HIDE DEF spent
  <1>7. NothingLost => KeepsWorth(x)
    <2> SUFFICES ASSUME KeepsWorth(j) PROVE KeepsWorth(x)
      BY DEF NothingLost
    <2>1. QED
      BY <1>5, <1>6 DEF KeepsWorth
  <1>8. QED
    BY <1>2, <1>3, <1>4, <1>7, SessionKeepsWorth

LEMMA AbortKeepsWorth ==
    ASSUME SettlementInv, WorthInv, NEW t \in Settlers, ST!Abort(t)
    PROVE  WorthInv'
  <1>1. SessionOf(t, ST!Idle)
    BY DEF ST!Abort, SessionOf, SettlementInv, SettlementType
  <1>2. /\ UNCHANGED <<stFunds, stHoldings, stPositions, stUpset>>
        /\ stJob[t].step # "idle"
    BY DEF ST!Abort
  <1>3. QED
    BY <1>1, <1>2, IdleKeepsWorth, SessionKeepsWorth

\* Of the holdings, those in S come to nothing and go.
LEMMA DroppedRows ==
    ASSUME SettlementType, WorthType, NEW S, NEW h,
           h = [s \in DOMAIN stHoldings \ S |-> stHoldings[s]],
           \A s \in S : ST!Quantity(stHoldings, s) = 0
    PROVE  SumFunction(h) = SumFunction(stHoldings)
  <1>1. PICK D, f : D = DOMAIN stHoldings /\ f = stHoldings
    OBVIOUS
  <1>2. IsFiniteSet(D) /\ f \in [D -> Int]
    BY <1>1, HoldingsSummable
  <1>3. PICK E : E = D \ S
    OBVIOUS
  <1>4. E \in SUBSET D /\ h \in [E -> Int] /\ \A s \in E : h[s] = f[s]
    BY <1>1, <1>2, <1>3
  <1>5. \A s \in D \ E : f[s] = 0
    BY <1>1, <1>3 DEF ST!Quantity
  <1>6. SumFunction(h) = SumFunction(f)
    BY <1>2, <1>4, <1>5, SumWithoutZeros
  <1>7. QED
    BY <1>1, <1>6

LEMMA FinishKeepsWorth ==
    ASSUME SettlementInv, WorthInv, NEW t \in Settlers, ST!Finish(t)
    PROVE  WorthInv'
  <1> DEFINE j == stJob[t]
  <1>1. /\ SettlementType /\ WorthType /\ j.step = "loop" /\ UNCHANGED <<stFunds, stUpset>>
    BY DEF ST!Finish, SettlementInv, WorthInv
  <1>2. SessionOf(t, ST!Idle)
    BY <1>1 DEF ST!Finish, SessionOf, SettlementType
  <1>3. /\ stPositions' = [s \in DOMAIN stPositions \ j.leaving |-> stPositions[s]]
        /\ stHoldings' = [s \in DOMAIN stHoldings \ j.empty |-> stHoldings[s]]
    BY DEF ST!Finish, ST!Committed, ST!Without, ST!Restrict
  <1>4. WorthType'
    BY <1>1, <1>3 DEF WorthType
  <1>5. ASSUME stUpset' \subseteq {"fill", "failure"}
        PROVE  NothingLost'
    <2>1. NothingLost /\ KeepsWorth(j)
      BY <1>1, <1>5 DEF WorthInv, NothingLost
    <2>2. \A u \in Settlers \ {t} : stJob[u] = ST!Idle
      BY <1>1, <2>1 DEF NothingLost, OneSession, SettlementType, IsSession
    <2>3. \A u \in Settlers : stJob'[u] = ST!Idle
      BY <1>2, <2>2 DEF SessionOf
    <2>4. \A s \in j.empty : s \in j.leaving /\ ST!Quantity(stHoldings, s) = 0
      BY <2>1 DEF KeepsWorth
    <2>5. SumFunction(stHoldings') = SumFunction(stHoldings)
      BY <1>1, <1>3, <2>4, DroppedRows
    <2>6. \A s \in DOMAIN stPositions' : stPositions'[s] < 0 => s \in DOMAIN stHoldings'
      BY <1>3, <2>1, <2>4 DEF NothingLost
    <2>7. OneSession' /\ \A u \in Settlers : KeepsWorth(stJob[u])'
      BY <2>3, IdleSession, IdleKeepsWorth DEF OneSession, KeepsWorth
    <2>8. QED
      BY <1>1, <2>1, <2>5, <2>6, <2>7 DEF NothingLost, Worth
  <1>6. QED
    BY <1>4, <1>5 DEF WorthInv

\* The holding of the committed row, and what the commit makes of the sum.
LEMMA HoldingAdded ==
    ASSUME SettlementType, WorthType, NEW p \in ST!Symbols, NEW q \in Int, NEW S,
           p \notin S, \A s \in S : ST!Quantity(stHoldings, s) = 0,
           DOMAIN stHoldings' = (DOMAIN stHoldings \cup {p}) \ S,
           stHoldings' = [s \in DOMAIN stHoldings' |-> stHoldings'[s]],
           \A s \in DOMAIN stHoldings' :
              stHoldings'[s] = IF s = p THEN ST!Quantity(stHoldings, p) + q
                               ELSE stHoldings[s]
    PROVE  SumFunction(stHoldings') = SumFunction(stHoldings) + q
  <1>1. PICK h : h = [s \in DOMAIN stHoldings \ S |-> stHoldings[s]]
    OBVIOUS
  <1>2. SumFunction(h) = SumFunction(stHoldings)
    BY <1>1, DroppedRows
  <1>3. PICK E, g : E = DOMAIN stHoldings' /\ g = stHoldings'
    OBVIOUS
  <1>4. /\ \A s \in DOMAIN stHoldings : stHoldings[s] \in Int
        /\ ST!Quantity(stHoldings, p) \in Int
    BY HoldingsSummable DEF ST!Quantity
  <1>5. g \in [E -> Int]
    BY <1>3, <1>4
  <1>6. IsFiniteSet(E)
    <2>1. IsFiniteSet(DOMAIN stHoldings \cup {p})
      BY HoldingsSummable, FS_AddElement
    <2>2. E \subseteq DOMAIN stHoldings \cup {p}
      BY <1>3
    <2>3. QED
      BY <2>1, <2>2, FS_Subset
  <1>7. p \in E /\ g[p] = ST!Quantity(stHoldings, p) + q
    BY <1>3
  <1>8. SumFunction(h) \in Int
    BY <1>2, HoldingsSummable
  <1>9. CASE p \in DOMAIN stHoldings
    <2>1. h \in [E -> Int] /\ (\A s \in E \ {p} : g[s] = h[s]) /\ h[p] = stHoldings[p]
      BY <1>1, <1>3, <1>4, <1>9
    <2>2. SumFunction(g) = SumFunction(h) + (g[p] - h[p])
      BY <1>5, <1>6, <1>7, <2>1, SumOfOneChange
    <2>3. g[p] - h[p] = q
      BY <1>4, <1>7, <1>9, <2>1 DEF ST!Quantity
    <2>4. QED
      BY <1>2, <1>3, <2>2, <2>3
  <1>10. CASE p \notin DOMAIN stHoldings
    <2>1. h \in [E \ {p} -> Int] /\ \A s \in E \ {p} : h[s] = g[s]
      BY <1>1, <1>3, <1>4, <1>10
    <2>2. SumFunction(g) = g[p] + SumFunction(h)
      <3>1. p \in E /\ h \in [E \ {p} -> Int]
        BY <1>7, <2>1
      <3>2. \A s \in E \ {p} : h[s] = g[s]
        BY <2>1
      <3>3. QED
        BY ONLY <1>5, <1>6, <3>1, <3>2, SumTakenApart
    <2>3. g[p] = q
      BY <1>7, <1>10 DEF ST!Quantity
    <2>4. QED
      BY <1>2, <1>3, <1>8, <2>2, <2>3
  <1>11. QED
    BY <1>9, <1>10

LEMMA FundKeepsWorth ==
    ASSUME SettlementInv, WorthInv, NEW t \in Settlers, ST!Fund(t)
    PROVE  WorthInv'
  <1> DEFINE j == stJob[t]
  <1>1. PICK x : x = [j EXCEPT !.step = "mark", !.loaded = ST!Nothing,
                               !.leaving = {}, !.empty = {}]
    OBVIOUS
  <1>2. /\ SettlementType /\ WorthType /\ IsSession(j) /\ j.step = "fund"
        /\ stUpset' = stUpset /\ (j.held <=> j.symbol \subseteq DOMAIN stHoldings)
    BY DEF ST!Fund, ST!CanCommit, SettlementInv, SettlementType, WorthInv
  <1>3. PICK p \in ST!Symbols : j.symbol = {p}
    BY <1>2 DEF IsSession
  <1>4. SessionOf(t, x)
    BY <1>1, <1>2 DEF ST!Fund, SessionOf, SettlementType
  <1>5. /\ x.step = "mark" /\ x.loaded = [s \in {} |-> 0] /\ x.symbol = j.symbol
        /\ x.todo = j.todo /\ x.leaving = {} /\ x.empty = {}
        /\ j.quantity \in Int
    BY <1>1, <1>2 DEF IsSession, ST!Nothing
  <1>6. stPositions' = [s \in DOMAIN stPositions \ j.leaving |-> stPositions[s]]
    BY DEF ST!Fund, ST!Committed, ST!Without, ST!Restrict
  <1>7. /\ DOMAIN stHoldings' = (DOMAIN stHoldings \cup {p}) \ j.empty
        /\ stHoldings' = [s \in DOMAIN stHoldings' |-> stHoldings'[s]]
        /\ \A s \in DOMAIN stHoldings' :
              stHoldings'[s] = IF s = p THEN j.result ELSE stHoldings[s]
    BY <1>3 DEF ST!Fund
  <1>8. /\ stFunds.used \in Int /\ stFunds.available \in Int
        /\ ST!Size(j.quantity) \in Int
    BY <1>2, <1>5 DEF WorthType, ST!Size
  <1>9. IF j.held /\ j.quantity < 0
        THEN /\ stFunds'.used = stFunds.used
             /\ stFunds'.available = stFunds.available + ST!Size(j.quantity)
        ELSE /\ stFunds'.used = stFunds.used - ST!Size(j.quantity)
             /\ stFunds'.available = stFunds.available
    BY <1>2 DEF ST!Fund, ST!Transfer, WorthType
  <1>10. stFunds' \in [used: Int, available: Int]
    BY <1>2, <1>8 DEF ST!Fund, ST!Transfer, WorthType
  <1>11. WorthType'
    BY <1>2, <1>7, <1>10 DEF WorthType
  <1>12. ASSUME stUpset' \subseteq {"fill", "failure"}
         PROVE  NothingLost'
    <2>1. NothingLost /\ KeepsWorth(j)
      BY <1>2, <1>12 DEF WorthInv, NothingLost
    <2>2. \A u \in Settlers \ {t} : stJob[u] = ST!Idle
      BY <1>2, <2>1 DEF NothingLost, OneSession, SettlementType, IsSession
    <2>3. \A u \in Settlers : stJob'[u] = IF u = t THEN x ELSE ST!Idle
      BY <1>4, <2>2 DEF SessionOf
    <2>4. /\ p \notin j.empty
          /\ \A s \in j.empty : s \in j.leaving /\ ST!Quantity(stHoldings, s) = 0
          /\ j.result = ST!Quantity(stHoldings, p) + j.quantity
          /\ j.quantity < 0 => j.held
      BY <1>2, <1>3, <2>1 DEF KeepsWorth
    <2>5. SumFunction(stHoldings') = SumFunction(stHoldings) + j.quantity
      BY <1>2, <1>5, <1>7, <2>4, HoldingAdded
    <2>6. stFunds'.used + stFunds'.available
             = stFunds.used + stFunds.available - j.quantity
      BY <1>5, <1>8, <1>9, <2>4 DEF ST!Size
    <2>7. SumFunction(stHoldings) \in Int
      BY <1>2, HoldingsSummable
    <2>8. Worth' = Worth
      BY <1>5, <1>8, <2>5, <2>6, <2>7 DEF Worth
    <2>9. OneSession'
      BY <2>3, IdleSession DEF OneSession
    <2>10. KeepsWorth(x)'
      BY <1>5, <2>1 DEF KeepsWorth
    <2>11. \A u \in Settlers : KeepsWorth(stJob[u])'
      BY <2>3, <2>10, IdleKeepsWorth DEF KeepsWorth
    <2>12. \A s \in DOMAIN stPositions' : stPositions'[s] < 0 => s \in DOMAIN stHoldings'
      BY <1>6, <1>7, <2>1, <2>4 DEF NothingLost
    <2>13. QED
      BY <2>1, <2>8, <2>9, <2>11, <2>12 DEF NothingLost, WorthAtStart
  <1>13. QED
    BY <1>11, <1>12 DEF WorthInv

LEMMA FillKeepsWorth ==
    ASSUME SettlementInv, WorthInv, NEW s \in ST!Symbols, NEW change \in {1, -1},
           ST!Fill(s, change)
    PROVE  WorthInv'
  <1>1. /\ WorthType /\ UNCHANGED <<stHoldings, stJob>> /\ stUpset \subseteq stUpset'
        /\ stFunds' = [used |-> stFunds.used + change,
                       available |-> stFunds.available - change]
    BY DEF ST!Fill, ST!Upset, WorthInv
  <1>2. stFunds.used \in Int /\ stFunds.available \in Int
    BY <1>1 DEF WorthType
  <1>3. /\ s \in DOMAIN stPositions /\ stPositions[s] > 0 /\ stPositions[s] \in Int
        /\ stPositions' = [stPositions EXCEPT ![s] = @ + change]
    BY DEF ST!Fill, ST!Quantity, SettlementInv, SettlementType, TablesType
  <1>4. WorthType'
    BY <1>1, <1>2 DEF WorthType
  <1>5. \A q \in DOMAIN stPositions' :
           q \in DOMAIN stPositions /\ (stPositions'[q] < 0 => stPositions[q] < 0)
    BY <1>3
  <1>6. stFunds'.used + stFunds'.available = stFunds.used + stFunds.available
    BY <1>1, <1>2
  <1>7. ASSUME NothingLost PROVE NothingLost'
    <2>1. OneSession' /\ Worth' = Worth
      BY <1>1, <1>6, <1>7 DEF NothingLost, OneSession, Worth
    <2>2. \A t \in Settlers : KeepsWorth(stJob[t])'
      BY <1>1, <1>7 DEF NothingLost, KeepsWorth, ST!Quantity
    <2>3. QED
      BY <1>1, <1>5, <1>7, <2>1, <2>2 DEF NothingLost, WorthAtStart
  <1>8. QED
    BY <1>1, <1>4, <1>7 DEF WorthInv

LEMMA StopKeepsWorth == ASSUME WorthInv, ST!Stop PROVE WorthInv'
  BY DEF ST!Stop, ST!Upset, WorthInv, WorthType

LEMMA WorthStep == SettlementInv /\ WorthInv /\ ST!Next => WorthInv'
  <1> SUFFICES ASSUME SettlementInv, WorthInv, ST!Next PROVE WorthInv'
    OBVIOUS
  <1>1. ASSUME NEW t \in Settlers, ST!Query(t) \/ ST!Step(t)
        PROVE  WorthInv'
    <2>1. ASSUME NEW s \in ST!Symbols, ST!Skip(t, s) \/ ST!Take(t, s)
          PROVE  WorthInv'
      BY <2>1, SkipKeepsWorth, TakeKeepsWorth
    <2>2. CASE ST!Query(t) \/ ST!Fund(t) \/ ST!FundFails(t)
      BY <2>2, QueryKeepsWorth, FundKeepsWorth, FundFailsKeepsWorth
    <2>3. CASE ST!Mark(t) \/ ST!Finish(t) \/ ST!Abort(t)
      BY <2>3, MarkKeepsWorth, FinishKeepsWorth, AbortKeepsWorth
    <2>4. QED
      BY <1>1, <2>1, <2>2, <2>3 DEF ST!Step
  <1>2. ASSUME NEW s \in ST!Symbols, NEW change \in {1, -1}, ST!Fill(s, change)
        PROVE  WorthInv'
    BY <1>2, FillKeepsWorth
  <1>3. CASE ST!Stop
    BY <1>3, StopKeepsWorth
  <1>4. QED
    BY <1>1, <1>2, <1>3 DEF ST!Next

\* Cash, margin and holdings together stay the same through fills and failures: the
\* funds and the holding of a row move in one commit.
THEOREM ServerKeepsWorth ==
    ASSUME SalesAreCovered
    PROVE  Spec => []WorthKept
  <1>1. ST!Init => WorthInv
    BY WorthInit
  <1>2. WorthInv /\ UNCHANGED stVars => WorthInv'
    <2> SUFFICES ASSUME WorthInv, UNCHANGED stVars PROVE WorthInv'
      OBVIOUS
    <2>1. UNCHANGED <<stPositions, stHoldings, stFunds, stJob, stUpset>>
      BY DEF stVars
    <2>2. \A t \in Settlers : KeepsWorth(stJob[t])' <=> KeepsWorth(stJob[t])
      BY <2>1 DEF KeepsWorth, ST!Quantity
    <2>3. QED
      BY <2>1, <2>2 DEF WorthInv, WorthType, NothingLost, OneSession, Worth, WorthAtStart
  <1>3. [Next]_vars => ST!Next \/ UNCHANGED stVars
    BY DEF Next, vars, Settle, Expire, SquareOff, Approve, DownloadData, Host,
           Signal, Subscribe, Switch
  <1>4. WorthInv => WorthKept
    BY SettlementSum DEF WorthInv, NothingLost, Worth, WorthAtStart, WorthKept, ST!WorthKept
  <1>5. QED
    BY <1>1, <1>2, <1>3, <1>4, WorthStep, ServerSettlementInv, PTL DEF Spec, Init

-----------------------------------------------------------------------------
(* Settlement: row by row *)

\* What the session of t has taken up is the row it is about to settle.
TakenInv ==
    stUpset = {} =>
        \A t \in Settlers : stJob[t].step = "fund" =>
            \A s \in stJob[t].symbol :
                stJob[t].quantity = stPositions[s] /\ stJob[t].quantity # 0

\* What one session has settled, when it is alone.
LEMMA SeenAlone ==
    ASSUME NEW t \in Settlers, \A u \in Settlers \ {t} : stJob[u] = ST!Idle
    PROVE  /\ ST!Unsettled = ST!Without(stPositions, ST!GoneRows(stJob[t]))
           /\ ST!InHand = ST!Without(stHoldings, ST!GoneHoldings(stJob[t]))
  <1>1. \A u \in Settlers \ {t} : ST!GoneRows(stJob[u]) = {} /\ ST!GoneHoldings(stJob[u]) = {}
    BY DEF ST!GoneRows, ST!GoneHoldings, ST!Idle
  <1>2. UNION {ST!GoneRows(stJob[u]) : u \in Settlers} = ST!GoneRows(stJob[t])
    BY <1>1
  <1>3. UNION {ST!GoneHoldings(stJob[u]) : u \in Settlers} = ST!GoneHoldings(stJob[t])
    BY <1>1
  <1>4. QED
    BY <1>2, <1>3 DEF ST!Unsettled, ST!InHand

LEMMA SeenAloneAfter ==
    ASSUME NEW t \in Settlers, \A u \in Settlers \ {t} : stJob'[u] = ST!Idle
    PROVE  /\ ST!Unsettled' = ST!Without(stPositions', ST!GoneRows(stJob'[t]))
           /\ ST!InHand' = ST!Without(stHoldings', ST!GoneHoldings(stJob[t])')
  <1>1. \A u \in Settlers \ {t} : ST!GoneRows(stJob'[u]) = {} /\ ST!GoneHoldings(stJob[u])' = {}
    BY DEF ST!GoneRows, ST!GoneHoldings, ST!Idle
  <1>2. UNION {ST!GoneRows(stJob'[u]) : u \in Settlers} = ST!GoneRows(stJob'[t])
    BY <1>1
  <1>3. UNION {ST!GoneHoldings(stJob[u])' : u \in Settlers} = ST!GoneHoldings(stJob[t])'
    BY <1>1
  <1>4. QED
    BY <1>2, <1>3 DEF ST!Unsettled, ST!InHand

\* When nobody settles, the tables are what is seen.
LEMMA SeenQuiet ==
    /\ ST!Quiet => /\ ST!Unsettled = ST!Without(stPositions, {})
                   /\ ST!InHand = ST!Without(stHoldings, {})
    /\ ST!Quiet' => /\ ST!Unsettled' = ST!Without(stPositions', {})
                    /\ ST!InHand' = ST!Without(stHoldings', {})
  <1>1. ASSUME ST!Quiet
        PROVE  /\ UNION {ST!GoneRows(stJob[u]) : u \in Settlers} = {}
               /\ UNION {ST!GoneHoldings(stJob[u]) : u \in Settlers} = {}
    BY <1>1 DEF ST!Quiet, ST!GoneRows, ST!GoneHoldings, ST!Idle
  <1>2. ASSUME ST!Quiet'
        PROVE  /\ UNION {ST!GoneRows(stJob'[u]) : u \in Settlers} = {}
               /\ UNION {ST!GoneHoldings(stJob[u])' : u \in Settlers} = {}
    BY <1>2 DEF ST!Quiet, ST!GoneRows, ST!GoneHoldings, ST!Idle
  <1>3. QED
    BY <1>1, <1>2 DEF ST!Unsettled, ST!InHand

LEMMA WithoutIs ==
    \A f, S : /\ ST!Without(f, S) = [s \in DOMAIN f \ S |-> f[s]]
              /\ DOMAIN ST!Without(f, S) = DOMAIN f \ S
  <1> TAKE f, S
  <1>1. ST!Without(f, S) = [s \in DOMAIN f \ S |-> f[s]]
    BY DEF ST!Without, ST!Restrict
  <1>2. QED
    BY <1>1

\* A session that nothing has disturbed is alone and has read what is there.
LEMMA Undisturbed ==
    ASSUME SettlementInv, stUpset = {}, NEW t \in Settlers, stJob[t].step # "idle"
    PROVE  /\ SettlementType /\ IsSession(stJob[t]) /\ InStep(stJob[t])
           /\ \A u \in Settlers \ {t} : stJob[u] = ST!Idle
  <1>1. SettlementType /\ IsSession(stJob[t]) /\ AloneAndExact
    BY DEF SettlementInv, SettlementType
  <1>2. InStep(stJob[t]) /\ \A u \in Settlers \ {t} : stJob[u].step = "idle"
    BY <1>1, OtherSessionsIdle
  <1>3. \A u \in Settlers \ {t} : stJob[u] = ST!Idle
    BY <1>1, <1>2 DEF SettlementType, IsSession
  <1>4. QED
    BY <1>1, <1>2, <1>3

\* A step that ends no row: what is seen stays.
SeenStays == UNCHANGED <<ST!Unsettled, ST!InHand, stFunds>>

LEMMA QuerySeen ==
    ASSUME SettlementInv, stUpset' = {}, NEW t \in Settlers, ST!Query(t)
    PROVE  SeenStays
  <1>1. ST!Quiet /\ SettlementType
    BY DEF ST!Query, ST!Upset, SettlementInv
  <1>2. /\ \A u \in Settlers \ {t} : stJob'[u] = ST!Idle
        /\ stJob'[t] = [stJob[t] EXCEPT !.step = "loop", !.todo = DOMAIN stPositions,
                                       !.loaded = stPositions]
        /\ stJob[t] = ST!Idle
        /\ UNCHANGED <<stPositions, stHoldings, stFunds>>
    <2>1. \A u \in Settlers : stJob[u] = ST!Idle
      BY <1>1 DEF ST!Quiet
    <2>2. t \in DOMAIN stJob /\ DOMAIN stJob = Settlers
      BY <1>1 DEF SettlementType
    <2>3. QED
      BY <2>1, <2>2 DEF ST!Query
  <1>3. /\ stJob'[t].step = "loop" /\ stJob'[t].symbol = {}
        /\ stJob'[t].leaving = {} /\ stJob'[t].empty = {}
    BY <1>2, IdleSession DEF ST!Idle
  <1>4. ST!GoneRows(stJob'[t]) = {} /\ ST!GoneHoldings(stJob[t])' = {}
    BY <1>3 DEF ST!GoneRows, ST!GoneHoldings
  <1>5. QED
    BY <1>1, <1>2, <1>4, SeenQuiet, SeenAloneAfter DEF SeenStays

LEMMA TakeSeen ==
    ASSUME SettlementInv, stUpset = {}, NEW t \in Settlers, NEW s \in ST!Symbols,
           ST!Take(t, s)
    PROVE  SeenStays
  <1>1. stJob[t].step = "loop"
    BY DEF ST!Take, ST!Pick
  <1>2. /\ SettlementType /\ IsSession(stJob[t])
        /\ \A u \in Settlers \ {t} : stJob[u] = ST!Idle
    BY <1>1, Undisturbed
  <1>3. /\ \A u \in Settlers \ {t} : stJob'[u] = ST!Idle
        /\ stJob'[t].step = "fund" /\ stJob'[t].leaving = stJob[t].leaving
        /\ stJob'[t].empty = stJob[t].empty
        /\ UNCHANGED <<stPositions, stHoldings, stFunds>>
    BY <1>2 DEF ST!Take, SettlementType, IsSession
  <1>4. /\ ST!GoneRows(stJob'[t]) = ST!GoneRows(stJob[t])
        /\ ST!GoneHoldings(stJob[t])' = ST!GoneHoldings(stJob[t])
    BY <1>1, <1>3 DEF ST!GoneRows, ST!GoneHoldings
  <1>5. QED
    BY <1>2, <1>3, <1>4, SeenAlone, SeenAloneAfter DEF SeenStays

LEMMA MarkSeen ==
    ASSUME SettlementInv, stUpset = {}, NEW t \in Settlers, ST!Mark(t)
    PROVE  SeenStays
  <1> DEFINE j == stJob[t]
             spent == {s \in j.symbol : j.held /\ stHoldings[s] = 0}
  <1>1. j.step = "mark" /\ (j.held => j.symbol \subseteq DOMAIN stHoldings)
    BY DEF ST!Mark
  <1>2. /\ SettlementType /\ IsSession(j)
        /\ \A u \in Settlers \ {t} : stJob[u] = ST!Idle
    BY <1>1, Undisturbed
  <1>3. /\ \A u \in Settlers \ {t} : stJob'[u] = ST!Idle
        /\ stJob'[t].step = "loop" /\ stJob'[t].symbol = {}
        /\ stJob'[t].leaving = j.leaving \cup j.symbol
        /\ stJob'[t].empty = j.empty \cup spent
        /\ UNCHANGED <<stPositions, stHoldings, stFunds>>
    BY <1>2 DEF ST!Mark, SettlementType, IsSession
  <1>4. ST!GoneRows(stJob'[t]) = ST!GoneRows(j)
    BY <1>1, <1>3 DEF ST!GoneRows
  <1>5. spent = {s \in j.symbol : /\ j.step = "mark" /\ j.held
                                  /\ ST!Quantity(stHoldings, s) = 0}
    BY <1>1 DEF ST!Quantity
  <1>6. ST!GoneHoldings(stJob[t])' = ST!GoneHoldings(j)
    BY <1>3, <1>5 DEF ST!GoneHoldings
  <1>7. QED
    BY <1>2, <1>3, <1>4, <1>6, SeenAlone, SeenAloneAfter DEF SeenStays

\* The last commit takes from the tables what was no longer seen.
LEMMA FinishSeen ==
    ASSUME SettlementInv, stUpset = {}, NEW t \in Settlers, ST!Finish(t)
    PROVE  SeenStays
  <1> DEFINE j == stJob[t]
  <1>1. j.step = "loop"
    BY DEF ST!Finish
  <1>2. /\ SettlementType /\ IsSession(j)
        /\ \A u \in Settlers \ {t} : stJob[u] = ST!Idle
    BY <1>1, Undisturbed
  <1>3. ST!Quiet'
    BY <1>2 DEF ST!Finish, ST!Quiet, SettlementType
  <1>4. /\ stPositions' = ST!Without(stPositions, j.leaving)
        /\ stHoldings' = ST!Without(stHoldings, j.empty)
        /\ stFunds' = stFunds
    BY DEF ST!Finish, ST!Committed
  <1>5. ST!GoneRows(j) = j.leaving /\ ST!GoneHoldings(j) = j.empty
    BY <1>1 DEF ST!GoneRows, ST!GoneHoldings
  <1>6. \A f, S : ST!Without(ST!Without(f, S), {}) = ST!Without(f, S)
    BY WithoutIs
  <1>7. QED
    BY <1>2, <1>3, <1>4, <1>5, <1>6, SeenQuiet, SeenAlone DEF SeenStays

LEMMA SkipSeen ==
    ASSUME SettlementInv, stUpset = {}, NEW t \in Settlers, NEW s \in ST!Symbols,
           ST!Skip(t, s)
    PROVE  s \in DOMAIN ST!Unsettled /\ ST!Atomic!Drop(s)
  <1> DEFINE j == stJob[t]
  <1>1. /\ j.step = "loop" /\ SettlementType /\ ST!Pick(t, s)
        /\ UNCHANGED <<stPositions, stHoldings, stFunds>>
    BY DEF ST!Skip, ST!Pick, SettlementInv
  <1>2. /\ IsSession(j) /\ InStep(j)
        /\ \A u \in Settlers \ {t} : stJob[u] = ST!Idle
    BY <1>1, Undisturbed
  <1>3. /\ s \in j.todo
        /\ \A q \in ST!Read(t, s) : IF s \in DOMAIN j.loaded THEN q = j.loaded[s]
                                    ELSE s \in DOMAIN stPositions /\ q = stPositions[s]
    BY <1>1, RowIsLeft
  <1>4. s \in DOMAIN stPositions /\ stPositions[s] = 0 /\ s \notin j.leaving
    BY <1>2, <1>3 DEF InStep, ST!Skip
  <1>5. /\ \A u \in Settlers \ {t} : stJob'[u] = ST!Idle
        /\ stJob'[t].step = "loop" /\ stJob'[t].leaving = j.leaving \cup {s}
        /\ stJob'[t].empty = j.empty
    BY <1>1, <1>2 DEF ST!Skip, SettlementType, IsSession
  <1>6. /\ ST!GoneRows(j) = j.leaving /\ ST!GoneRows(stJob'[t]) = j.leaving \cup {s}
        /\ ST!GoneHoldings(stJob[t])' = ST!GoneHoldings(j)
    BY <1>1, <1>5 DEF ST!GoneRows, ST!GoneHoldings
  <1>7. /\ ST!Unsettled = ST!Without(stPositions, j.leaving)
        /\ ST!Unsettled' = ST!Without(stPositions, j.leaving \cup {s})
        /\ ST!InHand' = ST!InHand
    BY <1>1, <1>2, <1>5, <1>6, SeenAlone, SeenAloneAfter
  <1>8. /\ s \in DOMAIN ST!Unsettled /\ ST!Unsettled[s] = 0
        /\ ST!Unsettled' = [p \in DOMAIN ST!Unsettled \ {s} |-> ST!Unsettled[p]]
    BY <1>4, <1>7, WithoutIs
  <1>9. QED
    BY <1>1, <1>7, <1>8 DEF ST!Atomic!Drop, ST!Atomic!Without, ST!Atomic!Restrict

\* The commit of the fund operation settles the row.
LEMMA FundSeen ==
    ASSUME SettlementInv, TakenInv, stUpset = {}, NEW t \in Settlers, ST!Fund(t)
    PROVE  \E p \in DOMAIN ST!Unsettled : ST!Atomic!Settle(p)
  <1> DEFINE j == stJob[t]
  <1>1. j.step = "fund" /\ (j.held <=> j.symbol \subseteq DOMAIN stHoldings)
    BY DEF ST!Fund, ST!CanCommit
  <1>2. /\ SettlementType /\ IsSession(j) /\ InStep(j)
        /\ \A u \in Settlers \ {t} : stJob[u] = ST!Idle
    BY <1>1, Undisturbed
  <1>3. PICK p \in ST!Symbols : j.symbol = {p}
    BY <1>1, <1>2 DEF IsSession
  <1>4. /\ p \in DOMAIN stPositions /\ p \notin j.leaving /\ j.empty \subseteq j.leaving
        /\ j.quantity = stPositions[p] /\ j.quantity # 0 /\ j.quantity \in Int
        /\ j.result = ST!Quantity(stHoldings, p) + j.quantity
        /\ j.held <=> p \in DOMAIN stHoldings
    BY <1>1, <1>2, <1>3 DEF InStep, TakenInv, IsSession
  <1>5. /\ \A u \in Settlers \ {t} : stJob'[u] = ST!Idle
        /\ stJob'[t].step = "mark" /\ stJob'[t].leaving = {} /\ stJob'[t].empty = {}
        /\ stJob'[t].symbol = {p} /\ stJob'[t].held = j.held
    BY <1>2, <1>3 DEF ST!Fund, SettlementType, IsSession
  <1>6. /\ stPositions' = ST!Without(stPositions, j.leaving)
        /\ stHoldings' = [s \in (DOMAIN stHoldings \cup {p}) \ j.empty |->
                             IF s = p THEN j.result ELSE stHoldings[s]]
        /\ stFunds' = ST!Transfer(j)
    BY <1>3 DEF ST!Fund, ST!Committed
  <1>7. /\ ST!GoneRows(j) = j.leaving /\ ST!GoneHoldings(j) = j.empty
        /\ ST!GoneRows(stJob'[t]) = {p}
    BY <1>1, <1>5 DEF ST!GoneRows, ST!GoneHoldings
  <1>8. /\ ST!Unsettled = ST!Without(stPositions, j.leaving)
        /\ ST!InHand = ST!Without(stHoldings, j.empty)
        /\ ST!Unsettled' = ST!Without(stPositions', {p})
        /\ ST!InHand' = ST!Without(stHoldings', ST!GoneHoldings(stJob[t])')
    BY <1>2, <1>5, <1>7, SeenAlone, SeenAloneAfter
  <1>9. /\ p \in DOMAIN ST!Unsettled /\ ST!Unsettled[p] = j.quantity
        /\ ST!Unsettled' = [s \in DOMAIN ST!Unsettled \ {p} |-> ST!Unsettled[s]]
    BY <1>4, <1>6, <1>8, WithoutIs
  <1>10. /\ ST!InHand = [s \in DOMAIN stHoldings \ j.empty |-> stHoldings[s]]
         /\ DOMAIN ST!InHand = DOMAIN stHoldings \ j.empty
         /\ p \in DOMAIN ST!InHand <=> p \in DOMAIN stHoldings
         /\ p \in DOMAIN stHoldings => ST!InHand[p] = stHoldings[p]
    BY <1>4, <1>8, WithoutIs
  <1>11. ST!Atomic!Total(p) = j.result
    <2>1. ST!Atomic!Total(p) = j.quantity + ST!Quantity(stHoldings, p)
      BY <1>9, <1>10 DEF ST!Atomic!Total, ST!Quantity
    <2>2. ST!Quantity(stHoldings, p) \in Int
      BY <1>2 DEF SettlementType, TablesType, ST!Quantity
    <2>3. QED
      BY <1>4, <2>1, <2>2
  <1>12. /\ DOMAIN stHoldings' = (DOMAIN stHoldings \cup {p}) \ j.empty
         /\ stHoldings'[p] = j.result /\ p \in DOMAIN stHoldings'
         /\ \A s \in DOMAIN stHoldings' \ {p} : stHoldings'[s] = stHoldings[s]
    BY <1>4, <1>6
  <1>13. ST!GoneHoldings(stJob[t])' = IF j.result = 0 THEN {p} ELSE {}
    <2>1. ST!Quantity(stHoldings, p)' = j.result
      BY <1>12 DEF ST!Quantity
    <2>2. ~j.held => j.result # 0
      BY <1>4 DEF ST!Quantity
    <2>3. ST!GoneHoldings(stJob[t])'
            = {s \in {p} : j.held /\ ST!Quantity(stHoldings, s)' = 0}
      BY <1>5 DEF ST!GoneHoldings
    <2>4. QED
      BY <1>2, <2>1, <2>2, <2>3 DEF IsSession
  <1>14. ST!InHand' = IF ST!Atomic!Total(p) = 0 THEN ST!Atomic!Without(ST!InHand, p)
                      ELSE [h \in DOMAIN ST!InHand \cup {p} |->
                               IF h = p THEN ST!Atomic!Total(p) ELSE ST!InHand[h]]
    <2>1. \A S : ST!Without(stHoldings', S) = [s \in DOMAIN stHoldings' \ S |-> stHoldings'[s]]
      BY WithoutIs
    <2>2. CASE j.result = 0
      <3>1. ST!InHand' = [s \in DOMAIN stHoldings' \ {p} |-> stHoldings'[s]]
        BY <1>8, <1>13, <2>1, <2>2
      <3>2. DOMAIN stHoldings' \ {p} = DOMAIN ST!InHand \ {p}
        BY <1>10, <1>12
      <3>3. \A s \in DOMAIN ST!InHand \ {p} : stHoldings'[s] = ST!InHand[s]
        BY <1>10, <1>12
      <3>4. ST!InHand' = [s \in DOMAIN ST!InHand \ {p} |-> ST!InHand[s]]
        BY <3>1, <3>2, <3>3
      <3>5. QED
        BY <1>11, <2>2, <3>4 DEF ST!Atomic!Without, ST!Atomic!Restrict
    <2>3. CASE j.result # 0
      <3>1. ST!InHand' = [s \in DOMAIN stHoldings' |-> stHoldings'[s]]
        BY <1>8, <1>13, <2>1, <2>3
      <3>2. DOMAIN stHoldings' = DOMAIN ST!InHand \cup {p}
        BY <1>4, <1>10, <1>12
      <3>3. \A s \in DOMAIN stHoldings' :
               stHoldings'[s] = IF s = p THEN j.result ELSE ST!InHand[s]
        BY <1>10, <1>12
      <3>4. QED
        BY <1>11, <2>3, <3>1, <3>2, <3>3
    <2>4. QED
      BY <2>2, <2>3
  <1>15. stFunds' = IF ST!Unsettled[p] < 0 /\ p \in DOMAIN ST!InHand
                    THEN [stFunds EXCEPT !.available = @ + ST!Atomic!Size(ST!Unsettled[p])]
                    ELSE [stFunds EXCEPT !.used = @ - ST!Atomic!Size(ST!Unsettled[p])]
    BY <1>4, <1>6, <1>9, <1>10 DEF ST!Transfer, ST!Size, ST!Atomic!Size
  <1>16. ST!Atomic!Settle(p)
    BY <1>4, <1>9, <1>14, <1>15 DEF ST!Atomic!Settle, ST!Atomic!Without, ST!Atomic!Restrict
  <1>17. QED
    BY <1>9, <1>16

LEMMA FillSeen ==
    ASSUME SettlementInv, stUpset' = {}, NEW s \in ST!Symbols, NEW change \in {1, -1},
           ST!Fill(s, change)
    PROVE  s \in DOMAIN ST!Unsettled /\ ST!Atomic!Trade(s, change)
  <1>1. ST!Quiet /\ ST!Quiet' /\ stHoldings' = stHoldings
    BY DEF ST!Fill, ST!Upset, ST!Quiet
  <1>2. /\ ST!Unsettled = ST!Without(stPositions, {})
        /\ ST!Unsettled' = ST!Without(stPositions', {})
        /\ ST!InHand' = ST!InHand
    BY <1>1, SeenQuiet
  <1>3. /\ s \in DOMAIN stPositions
        /\ stPositions' = [stPositions EXCEPT ![s] = @ + change]
    BY DEF ST!Fill, ST!Quantity
  <1>4. /\ s \in DOMAIN ST!Unsettled
        /\ ST!Unsettled' = [ST!Unsettled EXCEPT ![s] = @ + change]
    BY <1>2, <1>3, WithoutIs
  <1>5. QED
    BY <1>2, <1>4 DEF ST!Atomic!Trade, ST!Fill

\* An undisturbed session never finds a row gone.
LEMMA NoAbort ==
    ASSUME SettlementInv, stUpset = {}, NEW t \in Settlers, ST!Abort(t)
    PROVE  FALSE
  <1> DEFINE j == stJob[t]
  <1>1. j.step \in {"loop", "mark"}
    BY DEF ST!Abort
  <1>2. IsSession(j) /\ InStep(j)
    BY <1>1, Undisturbed
  <1>3. CASE j.step = "loop"
    <2>1. j.todo # {} /\ ST!Read(t, ST!Min(j.todo)) = {}
      BY <1>3 DEF ST!Abort
    <2>2. j.todo \in SUBSET Nat
      BY <1>2, SettlementAssumption DEF IsSession, ST!Symbols
    <2>3. ST!Min(j.todo) \in DOMAIN stPositions
      BY <1>2, <2>1, <2>2, FirstRowIsLeft DEF InStep
    <2>4. QED
      BY <2>1, <2>3 DEF ST!Read
  <1>4. CASE j.step = "mark"
    BY <1>2, <1>4 DEF ST!Abort, InStep
  <1>5. QED
    BY <1>1, <1>3, <1>4

LEMMA SettlementSeen ==
    ASSUME SettlementInv, TakenInv, stUpset' = {}, ST!Next
    PROVE  ST!Atomic!Step
  <1>1. SeenStays => ST!Atomic!Step
    BY DEF SeenStays, ST!Atomic!Step, ST!Atomic!vars
  <1>2. (\E s \in DOMAIN ST!Unsettled : ST!Atomic!Settle(s) \/ ST!Atomic!Drop(s))
           => ST!Atomic!Step
    BY DEF ST!Atomic!Step, ST!Atomic!Next
  <1>3. ASSUME NEW t \in Settlers, ST!Query(t) \/ ST!Step(t)
        PROVE  ST!Atomic!Step
    <2>1. CASE ST!Query(t)
      BY <1>1, <2>1, QuerySeen
    <2>2. CASE ST!FundFails(t)
      <3>1. ~ST!Quiet
        BY <2>2 DEF ST!FundFails, ST!Quiet, ST!Idle
      <3>2. QED
        BY <2>2, <3>1 DEF ST!FundFails, ST!Upset
    <2>3. CASE \E s \in ST!Symbols : ST!Skip(t, s) \/ ST!Take(t, s)
      <3>1. stUpset = {}
        BY <2>3 DEF ST!Skip, ST!Take
      <3>2. QED
        BY <1>1, <1>2, <2>3, <3>1, SkipSeen, TakeSeen
    <2>4. CASE ST!Fund(t) \/ ST!Mark(t) \/ ST!Finish(t) \/ ST!Abort(t)
      <3>1. stUpset = {}
        BY <2>4 DEF ST!Fund, ST!Mark, ST!Finish, ST!Abort
      <3>2. QED
        BY <1>1, <1>2, <2>4, <3>1, FundSeen, MarkSeen, FinishSeen, NoAbort
    <2>5. QED
      BY <1>3, <2>1, <2>2, <2>3, <2>4 DEF ST!Step
  <1>4. ASSUME NEW s \in ST!Symbols, NEW change \in {1, -1}, ST!Fill(s, change)
        PROVE  ST!Atomic!Step
    BY <1>4, FillSeen DEF ST!Atomic!Step, ST!Atomic!Next
  <1>5. ~ST!Stop
    BY DEF ST!Stop, ST!Upset
  <1>6. QED
    BY <1>3, <1>4, <1>5 DEF ST!Next

LEMMA TakenStep ==
    ASSUME SettlementInv, TakenInv, ST!Next
    PROVE  TakenInv'
  <1> SUFFICES ASSUME stUpset' = {}, NEW u \in Settlers, stJob'[u].step = "fund",
                      NEW p \in stJob'[u].symbol
               PROVE  stJob'[u].quantity = stPositions'[p] /\ stJob'[u].quantity # 0
    BY DEF TakenInv
  <1>1. ASSUME NEW t \in Settlers, ST!Query(t) \/ ST!Step(t)
        PROVE  stJob'[u].quantity = stPositions'[p] /\ stJob'[u].quantity # 0
    <2>1. SettlementType
      BY DEF SettlementInv
    <2>2. CASE ST!Query(t)
      <3>1. ST!Quiet /\ stJob'[u].step \in {"idle", "loop"}
        BY <2>1, <2>2 DEF ST!Query, ST!Upset, ST!Quiet, ST!Idle, SettlementType
      <3>2. QED
        BY <3>1
    <2>3. ASSUME ST!Step(t)
          PROVE  stUpset = {} /\ stJob[t].step # "idle"
      BY <2>3 DEF ST!Step, ST!Skip, ST!Take, ST!Pick, ST!Fund, ST!FundFails, ST!Mark,
                  ST!Finish, ST!Abort, ST!Upset
    <2>4. ASSUME ST!Step(t), u # t
          PROVE  FALSE
      <3>1. stJob[u] = ST!Idle
        BY <2>3, <2>4, Undisturbed
      <3>2. stJob'[u] = stJob[u]
        <4>1. DOMAIN stJob = Settlers
          BY <2>1 DEF SettlementType
        <4>2. CASE \E s \in ST!Symbols : ST!Skip(t, s) \/ ST!Take(t, s)
          BY <2>4, <4>1, <4>2 DEF ST!Skip, ST!Take
        <4>3. CASE ST!Fund(t) \/ ST!FundFails(t)
          BY <2>4, <4>1, <4>3 DEF ST!Fund, ST!FundFails
        <4>4. CASE ST!Mark(t)
          BY <2>4, <4>1, <4>4 DEF ST!Mark
        <4>5. CASE ST!Finish(t) \/ ST!Abort(t)
          BY <2>4, <4>1, <4>5 DEF ST!Finish, ST!Abort
        <4>6. QED
          BY <2>4, <4>2, <4>3, <4>4, <4>5 DEF ST!Step
      <3>3. QED
        BY <3>1, <3>2, IdleSession
    <2>5. ASSUME NEW s \in ST!Symbols, ST!Take(t, s), u = t
          PROVE  stJob'[u].quantity = stPositions'[p] /\ stJob'[u].quantity # 0
      <3>1. /\ ST!Pick(t, s) /\ stPositions' = stPositions /\ stUpset = {}
            /\ stJob[t].step # "idle"
        BY <2>5 DEF ST!Take, ST!Pick
      <3>2. PICK q \in ST!Read(t, s) \ {0} :
               stJob'[t].quantity = q /\ stJob'[t].symbol = {s}
        BY <2>1, <2>5 DEF ST!Take, SettlementType, IsSession
      <3>3. InStep(stJob[t])
        BY <3>1, Undisturbed
      <3>4. q = stPositions[s]
        BY <2>1, <3>1, <3>2, <3>3, RowIsLeft DEF InStep
      <3>5. QED
        BY <2>5, <3>1, <3>2, <3>4
    <2>6. ASSUME NEW s \in ST!Symbols, ST!Skip(t, s), u = t
          PROVE  FALSE
      BY <2>1, <2>6 DEF ST!Skip, ST!Pick, SettlementType, IsSession
    <2>7. ASSUME ST!Fund(t) \/ ST!FundFails(t) \/ ST!Mark(t) \/ ST!Finish(t) \/ ST!Abort(t),
                 u = t
          PROVE  FALSE
      <3>1. DOMAIN stJob = Settlers /\ DOMAIN stJob[t] = DOMAIN ST!Idle
        BY <2>1 DEF SettlementType, IsSession, ST!Idle
      <3>2. CASE ST!Fund(t) \/ ST!FundFails(t)
        BY <2>7, <3>1, <3>2 DEF ST!Fund, ST!FundFails, ST!Idle
      <3>3. CASE ST!Mark(t)
        BY <2>7, <3>1, <3>3 DEF ST!Mark, ST!Idle
      <3>4. CASE ST!Finish(t) \/ ST!Abort(t)
        BY <2>7, <3>1, <3>4, IdleSession DEF ST!Finish, ST!Abort
      <3>5. QED
        BY <2>7, <3>2, <3>3, <3>4
    <2>8. QED
      BY <1>1, <2>2, <2>4, <2>5, <2>6, <2>7 DEF ST!Step
  <1>2. ASSUME NEW s \in ST!Symbols, NEW change \in {1, -1}, ST!Fill(s, change)
        PROVE  FALSE
    BY <1>2, IdleSession DEF ST!Fill, ST!Upset, ST!Quiet
  <1>3. CASE ST!Stop
    BY <1>3, IdleSession DEF ST!Stop
  <1>4. QED
    BY <1>1, <1>2, <1>3 DEF ST!Next

\* What has been settled and is not deleted yet: rows without shares and one with.
OneLeft(x, rows) ==
    /\ x.step = "mark" => x.leaving = {}
    /\ \A p, q \in x.leaving : rows[p] # 0 /\ rows[q] # 0 => p = q

TwiceInv == stUpset = {} => \A t \in Settlers : OneLeft(stJob[t], stPositions)

LEMMA TwiceStep ==
    ASSUME SettlementInv, TwiceInv, ST!Next
    PROVE  TwiceInv'
  <1> SUFFICES ASSUME stUpset' = {}, NEW u \in Settlers
               PROVE  OneLeft(stJob'[u], stPositions')
    BY DEF TwiceInv
  <1>0. \A x, rows : x.leaving = {} => OneLeft(x, rows)
    BY DEF OneLeft
  <1>1. SettlementType /\ DOMAIN stJob = Settlers /\ ST!Idle.leaving = {}
    BY IdleSession DEF SettlementInv, SettlementType, ST!Idle
  <1>2. CASE ST!Quiet' \/ ST!Stop
    BY <1>0, <1>1, <1>2 DEF ST!Quiet, ST!Stop
  <1>3. ASSUME NEW t \in Settlers, ST!Query(t)
        PROVE  OneLeft(stJob'[u], stPositions')
    <2>1. stJob[u] = ST!Idle /\ stJob[t] = ST!Idle
      BY <1>3 DEF ST!Query, ST!Upset, ST!Quiet
    <2>2. stJob'[u].leaving = {}
      BY <1>1, <1>3, <2>1 DEF ST!Query, ST!Idle
    <2>3. QED
      BY <1>0, <2>2
  <1>4. ASSUME NEW s \in ST!Symbols, NEW change \in {1, -1}, ST!Fill(s, change)
        PROVE  OneLeft(stJob'[u], stPositions')
    <2>1. ST!Quiet'
      BY <1>4 DEF ST!Fill, ST!Upset, ST!Quiet
    <2>2. QED
      BY <1>2, <2>1
  <1>5. ASSUME NEW t \in Settlers, ST!Step(t)
        PROVE  OneLeft(stJob'[u], stPositions')
    <2>0. ~ST!FundFails(t)
      <3> SUFFICES ASSUME ST!FundFails(t) PROVE FALSE
        OBVIOUS
      <3>1. ~ST!Quiet
        BY DEF ST!FundFails, ST!Quiet, ST!Idle
      <3>2. QED
        BY <3>1 DEF ST!FundFails, ST!Upset
    <2>1. stUpset = {} /\ stJob[t].step # "idle" /\ ~ST!FundFails(t)
      BY <1>5, <2>0 DEF ST!Step, ST!Skip, ST!Take, ST!Pick, ST!Fund, ST!Mark,
                        ST!Finish, ST!Abort
    <2>2. /\ IsSession(stJob[t]) /\ InStep(stJob[t]) /\ OneLeft(stJob[t], stPositions)
          /\ \A v \in Settlers \ {t} : stJob[v] = ST!Idle
      BY <2>1, Undisturbed DEF TwiceInv
    <2>3. CASE u # t
      <3>1. stJob'[u] = stJob[u]
        <4>1. CASE \E s \in ST!Symbols : ST!Skip(t, s) \/ ST!Take(t, s)
          BY <1>1, <2>3, <4>1 DEF ST!Skip, ST!Take
        <4>2. CASE ST!Fund(t)
          BY <1>1, <2>3, <4>2 DEF ST!Fund
        <4>3. CASE ST!Mark(t)
          BY <1>1, <2>3, <4>3 DEF ST!Mark
        <4>4. CASE ST!Finish(t) \/ ST!Abort(t)
          BY <1>1, <2>3, <4>4 DEF ST!Finish, ST!Abort
        <4>5. QED
          BY <1>5, <2>1, <4>1, <4>2, <4>3, <4>4 DEF ST!Step
      <3>2. QED
        BY <1>0, <1>1, <2>2, <2>3, <3>1
    <2>4. ASSUME NEW s \in ST!Symbols, ST!Skip(t, s)
          PROVE  OneLeft(stJob'[t], stPositions')
      <3>1. /\ stJob[t].step = "loop" /\ ST!Pick(t, s) /\ stPositions' = stPositions
            /\ stJob'[t].step = "loop" /\ stJob'[t].leaving = stJob[t].leaving \cup {s}
        BY <1>1, <2>2, <2>4 DEF ST!Skip, ST!Pick, IsSession
      <3>2. /\ s \in stJob[t].todo
            /\ \A q \in ST!Read(t, s) :
                  IF s \in DOMAIN stJob[t].loaded THEN q = stJob[t].loaded[s]
                  ELSE s \in DOMAIN stPositions /\ q = stPositions[s]
        BY <1>1, <3>1, RowIsLeft
      <3>3. stPositions[s] = 0
        BY <2>2, <2>4, <3>2 DEF InStep, ST!Skip
      <3>4. QED
        BY <2>2, <3>1, <3>3 DEF OneLeft
    <2>5. ASSUME NEW s \in ST!Symbols, ST!Take(t, s)
          PROVE  OneLeft(stJob'[t], stPositions')
      <3>1. /\ stPositions' = stPositions /\ stJob'[t].step = "fund"
            /\ stJob'[t].leaving = stJob[t].leaving
        BY <1>1, <2>2, <2>5 DEF ST!Take, IsSession
      <3>2. QED
        BY <2>2, <3>1 DEF OneLeft
    <2>6. CASE ST!Fund(t) /\ u = t
      <3>1. stJob'[t].leaving = {}
        BY <1>1, <2>2, <2>6 DEF ST!Fund, IsSession
      <3>2. QED
        BY <1>0, <2>6, <3>1
    <2>7. CASE ST!Mark(t) /\ u = t
      <3>1. /\ stJob[t].step = "mark" /\ stJob'[t].step = "loop"
            /\ stJob'[t].leaving = stJob[t].leaving \cup stJob[t].symbol
        BY <1>1, <2>2, <2>7 DEF ST!Mark, IsSession
      <3>2. PICK p : stJob[t].symbol = {p}
        BY <2>2, <3>1 DEF IsSession
      <3>3. stJob'[t].leaving = {p}
        BY <2>2, <3>1, <3>2 DEF OneLeft
      <3>4. QED
        BY <2>7, <3>1, <3>3 DEF OneLeft
    <2>8. CASE (ST!Finish(t) \/ ST!Abort(t)) /\ u = t
      <3>1. stJob'[t] = ST!Idle
        BY <1>1, <2>8 DEF ST!Finish, ST!Abort
      <3>2. QED
        BY <1>0, <1>1, <2>8, <3>1
    <2>9. QED
      BY <1>5, <2>1, <2>3, <2>4, <2>5, <2>6, <2>7, <2>8 DEF ST!Step
  <1>6. QED
    BY <1>2, <1>3, <1>4, <1>5 DEF ST!Next

TablesShow == stUpset = {} => ST!AtMostOneTwice

\* A row is counted twice while it is settled and not deleted, and that is one row.
LEMMA OneTwice == SettlementInv /\ TwiceInv => TablesShow
  <1> SUFFICES ASSUME SettlementInv, TwiceInv, stUpset = {}
               PROVE  /\ \A s \in ST!Symbols :
                            ST!Shares(s) \in {stOwned[s], stOwned[s] + ST!Quantity(stPositions, s)}
                      /\ \A r, s \in ST!Symbols :
                            ST!Shares(r) # stOwned[r] /\ ST!Shares(s) # stOwned[s] => r = s
    BY DEF TablesShow, ST!AtMostOneTwice
  <1>1. SettlementType /\ AloneAndExact
    BY DEF SettlementInv
  <1>2. ASSUME NEW s \in ST!Symbols
        PROVE  /\ ST!Shares(s) \in {stOwned[s], stOwned[s] + ST!Quantity(stPositions, s)}
               /\ ST!Shares(s) # stOwned[s] =>
                     /\ \E t \in Settlers : Moved(stJob[t], s)
                     /\ s \in DOMAIN stPositions /\ stPositions[s] # 0
    <2>1. CASE \E t \in Settlers : Moved(stJob[t], s)
      <3>1. ST!Shares(s) = stOwned[s] + ST!Quantity(stPositions, s)
        BY <1>1, <2>1 DEF AloneAndExact, ST!Shares
      <3>2. stOwned[s] \in Int
        BY <1>1 DEF SettlementType, TablesType
      <3>3. QED
        BY <2>1, <3>1, <3>2 DEF ST!Quantity
    <2>2. CASE ~\E t \in Settlers : Moved(stJob[t], s)
      BY <1>1, <2>2 DEF AloneAndExact
    <2>3. QED
      BY <2>1, <2>2
  <1>3. ASSUME NEW r \in ST!Symbols, NEW s \in ST!Symbols,
               ST!Shares(r) # stOwned[r], ST!Shares(s) # stOwned[s]
        PROVE  r = s
    <2>1. /\ stPositions[r] # 0 /\ stPositions[s] # 0
          /\ \E t \in Settlers : Moved(stJob[t], r)
          /\ \E t \in Settlers : Moved(stJob[t], s)
      BY <1>2, <1>3
    <2>2. PICK t \in Settlers : Moved(stJob[t], r)
      BY <2>1
    <2>3. PICK u \in Settlers : Moved(stJob[u], s)
      BY <2>1
    <2>4. stJob[t].step # "idle" /\ stJob[u].step # "idle"
      <3>1. \A v \in Settlers : stJob[v].step = "idle" => stJob[v] = ST!Idle
        BY <1>1 DEF SettlementType, IsSession
      <3>2. QED
        BY <2>2, <2>3, <3>1, IdleSession
    <2>5. t = u
      BY <1>1, <2>4 DEF AloneAndExact
    <2>6. OneLeft(stJob[t], stPositions) /\ IsSession(stJob[t])
      BY <1>1 DEF TwiceInv, SettlementType
    <2>7. CASE stJob[t].step = "mark"
      <3>1. PICK p : stJob[t].symbol = {p}
        BY <2>6, <2>7 DEF IsSession
      <3>2. QED
        BY <2>2, <2>3, <2>5, <2>6, <2>7, <3>1 DEF Moved, OneLeft
    <2>8. CASE stJob[t].step # "mark"
      BY <2>1, <2>2, <2>3, <2>5, <2>6, <2>8 DEF Moved, OneLeft
    <2>9. QED
      BY <2>7, <2>8
  <1>4. QED
    BY <1>2, <1>3

\* The settlement implements AtomicSettlement as long as nothing disturbs it, a row
\* counting until its holding is committed; and the tables, where it stays for a
\* commit longer, never count two rows twice.
THEOREM ServerSettlesRowByRow == Spec => SettlesRowByRow
  <1>1. ST!Init => TakenInv /\ ST!Atomic!Init
    <2> SUFFICES ASSUME ST!Init PROVE TakenInv /\ ST!Atomic!Init
      OBVIOUS
    <2>1. ST!Quiet /\ TakenInv
      BY IdleSession DEF ST!Init, ST!Quiet, TakenInv
    <2>2. ST!Unsettled = ST!Without(Bought, {}) /\ ST!InHand = ST!Without(Held, {})
      BY <2>1, SeenQuiet DEF ST!Init
    <2>3. ST!Unsettled = Bought /\ ST!InHand = Held
      BY <2>2, WithoutIs, SettlementAssumption
    <2>4. QED
      BY <2>1, <2>3 DEF ST!Atomic!Init
  <1>2. [Next]_vars => ST!Next \/ UNCHANGED stVars
    BY DEF Next, vars, Settle, Expire, SquareOff, Approve, DownloadData, Host,
           Signal, Subscribe, Switch
  <1>3. TakenInv /\ UNCHANGED stVars => TakenInv'
    BY DEF stVars, TakenInv
  <1>4. SettlementInv /\ TakenInv /\ [Next]_vars => TakenInv'
    BY <1>2, <1>3, TakenStep
  <1>5. SettlementInv /\ TakenInv /\ SettlementInv' /\ TwiceInv' /\ [Next]_vars
           => [stUpset' = {} => ST!Atomic!Step /\ ST!AtMostOneTwice']_(ST!vars)
    <2>1. SettlementInv' /\ TwiceInv' => TablesShow'
      BY OneTwice, PTL
    <2>2. SettlementInv /\ TakenInv /\ [Next]_vars
             => [stUpset' = {} => ST!Atomic!Step]_(ST!vars)
      BY <1>2, SettlementSeen DEF stVars, ST!vars
    <2>3. QED
      BY <2>1, <2>2 DEF TablesShow
  <1>6. ST!Init => TwiceInv
    BY DEF ST!Init, TwiceInv, OneLeft, ST!Idle
  <1>7. SettlementInv /\ TwiceInv /\ [Next]_vars => TwiceInv'
    <2>1. TwiceInv /\ UNCHANGED stVars => TwiceInv'
      BY DEF stVars, TwiceInv, OneLeft
    <2>2. QED
      BY <1>2, <2>1, TwiceStep
  <1>8. ST!Init /\ TablesShow => ST!AtMostOneTwice
    BY DEF ST!Init, TablesShow
  <1>9. QED
    BY <1>1, <1>4, <1>5, <1>6, <1>7, <1>8, OneTwice, ServerSettlementInv, PTL
       DEF Spec, Init, SettlesRowByRow, ST!SettlesRowByRow
=============================================================================
