---------------------------- MODULE Server_proofs ----------------------------
(*****************************************************************************)
(* What the parts of the server promise, as theorems about the server.       *)
(* A behaviour of the server is one of the strategy host, whose proof module *)
(* has the theorems; the invariants of the action center, of the square-off, *)
(* of the downloads, of the signal queue, of the engine threads and of the   *)
(* subscriptions are proved here.                                            *)
(*****************************************************************************)
EXTENDS Server, FiniteSetTheorems, WellFoundedInduction, TLAPS

SHP == INSTANCE StrategyHost_proofs WITH
    MaxRestarts <- MaxStops,
    alive <- shAlive, spawned <- shSpawned, tracked <- shTracked,
    config <- shConfig, ready <- shReady, thread <- shThread,
    restarts <- shRestarts, upset <- shUpset
-----------------------------------------------------------------------------
(* Action center: the broker gets an order as it was decided, and the row says so *)

Deciding == {"approve", "reject"}
Answering == {"record", "refuse"}
OrderSteps == Deciding \cup Answering \cup {"execute", "send"}
ApprovalCalls == [step: {"idle", "next"} \cup OrderSteps,
                  order: SUBSET QueuedOrders, batch: SUBSET QueuedOrders]

ApprovalUpsets == {"race", "cut", "unnamed"}

ApprovalType ==
    /\ acRow \in [QueuedOrders -> {"none", "pending", "approved", "rejected", "deleted"}]
    /\ acBroker \in [QueuedOrders -> {"NULL", "recorded", "rejected"}]
    /\ acCall \in [Tabs -> ApprovalCalls]
    /\ acSent \in [QueuedOrders -> Nat]
    /\ acUpset \in [QueuedOrders -> SUBSET ApprovalUpsets]

\* A request has an order in hand only at the steps that work on one, and never
\* two of them.
OrderIsInHand ==
    \A r \in Tabs :
        /\ acCall[r].step \notin OrderSteps => acCall[r].order = {}
        /\ \A o, p \in acCall[r].order : o = p

HasOrder(r, o) == o \in acCall[r].order

\* An order whose decisions do not cross: one request has it; while it is decided
\* it is pending, then it is approved until it is deleted; and before the broker
\* is asked it has not been sent.
SerialOrder(o) ==
    /\ \A r, u \in Tabs : HasOrder(r, o) /\ HasOrder(u, o) => r = u
    /\ \A r \in Tabs : HasOrder(r, o) =>
          /\ acCall[r].step \in Deciding => acRow[o] = "pending"
          /\ acCall[r].step \notin Deciding => acRow[o] \in {"approved", "deleted"}
          /\ acCall[r].step \notin Answering => acSent[o] = 0
    /\ acRow[o] \in {"none", "pending", "rejected"} => acSent[o] = 0
    /\ acSent[o] <= 1

OrdersAreSerial == \A o \in QueuedOrders : "race" \notin acUpset[o] => SerialOrder(o)

SentInv == ApprovalType /\ OrderIsInHand /\ OrdersAreSerial

Unanswered(o) == acBroker[o] = "NULL" /\ "unnamed" \notin acUpset[o]

\* The row says what the broker has taken, or nothing when the answer had no id.
Tells(o) ==
    IF "unnamed" \in acUpset[o]
    THEN acBroker[o] = "NULL" /\ (o \notin MultiOrders => acSent[o] = 0)
    ELSE acBroker[o] = IF acSent[o] = 1 THEN "recorded" ELSE "rejected"

\* What the broker has taken, while the answer is on its way and after it.
Answered(o) ==
    /\ \A r \in Tabs :
          /\ AC!On(r, o, "record") => acSent[o] = 1
          /\ AC!On(r, o, "refuse") => acSent[o] = 0
          /\ HasOrder(r, o) => Unanswered(o)
    /\ acRow[o] \in {"none", "pending"} => Unanswered(o)
    /\ acRow[o] = "approved" /\ (\A r \in Tabs : ~HasOrder(r, o)) => Tells(o)

AnswersInv == \A o \in QueuedOrders : acUpset[o] \subseteq {"unnamed"} => Answered(o)

\* Request r is at a step with some orders in hand, the others stay.
CallMoves(r, step, orders) ==
    /\ acCall' \in [Tabs -> ApprovalCalls]
    /\ acCall'[r].step = step /\ acCall'[r].order = orders
    /\ \A u \in Tabs \ {r} : acCall'[u] = acCall[u]

LEMMA IdleCall == AC!Idle \in ApprovalCalls /\ AC!Idle.step = "idle" /\ AC!Idle.order = {}
  BY DEF AC!Idle, ApprovalCalls

LEMMA ReturnMoves ==
    ASSUME ApprovalType, NEW r \in Tabs, AC!Return(r)
    PROVE  \E step \in {"idle", "next"} : CallMoves(r, step, {})
  <1> DEFINE c == IF acCall[r].batch = {} THEN AC!Idle
                  ELSE [acCall[r] EXCEPT !.step = "next", !.order = {}]
  <1>1. acCall[r] \in ApprovalCalls /\ acCall \in [Tabs -> ApprovalCalls]
    BY DEF ApprovalType
  <1>2. c \in ApprovalCalls /\ c.step \in {"idle", "next"} /\ c.order = {}
    BY <1>1, IdleCall DEF ApprovalCalls
  <1>3. acCall' = [acCall EXCEPT ![r] = c]
    BY DEF AC!Return
  <1> HIDE DEF c
  <1>4. QED
    BY <1>1, <1>2, <1>3 DEF CallMoves

LEMMA GoMoves ==
    ASSUME ApprovalType, NEW r \in Tabs, NEW step \in OrderSteps, AC!Go(r, step)
    PROVE  CallMoves(r, step, acCall[r].order)
  <1> DEFINE c == [acCall[r] EXCEPT !.step = step]
  <1>1. acCall[r] \in ApprovalCalls /\ acCall \in [Tabs -> ApprovalCalls]
    BY DEF ApprovalType
  <1>2. c \in ApprovalCalls /\ c.step = step /\ c.order = acCall[r].order
    BY <1>1 DEF ApprovalCalls
  <1>3. acCall' = [acCall EXCEPT ![r] = c]
    BY DEF AC!Go
  <1> HIDE DEF c
  <1>4. QED
    BY <1>1, <1>2, <1>3 DEF CallMoves

LEMMA BeginMoves ==
    ASSUME ApprovalType, NEW r \in Tabs, NEW o \in QueuedOrders,
           NEW decision \in Deciding, AC!Begin(r, o, decision)
    PROVE  CallMoves(r, decision, {o})
  <1> DEFINE c == [acCall[r] EXCEPT !.step = decision, !.order = {o},
                                  !.batch = @ \ {o}]
  <1>1. acCall[r] \in ApprovalCalls /\ acCall \in [Tabs -> ApprovalCalls]
    BY DEF ApprovalType
  <1>2. c \in ApprovalCalls /\ c.step = decision /\ c.order = {o}
    BY <1>1 DEF ApprovalCalls, OrderSteps
  <1>3. acCall' = [acCall EXCEPT ![r] = c]
    BY <1>1 DEF AC!Begin
  <1> HIDE DEF c
  <1>4. QED
    BY <1>1, <1>2, <1>3 DEF CallMoves

\* A request without an order in hand that takes up a batch, or a part of one.
LEMMA BatchMoves ==
    ASSUME ApprovalType, OrderIsInHand, NEW r \in Tabs, NEW rest \in SUBSET QueuedOrders,
           acCall[r].step \in {"idle", "next"},
           \/ acCall' = [acCall EXCEPT ![r] = AC!Idle]
           \/ acCall' = [acCall EXCEPT ![r].step = "next", ![r].batch = rest]
           \/ acCall' = [acCall EXCEPT ![r] = [@ EXCEPT !.batch = rest]]
    PROVE  \E step \in {"idle", "next"} : CallMoves(r, step, {})
  <1> DEFINE c == [acCall[r] EXCEPT !.step = "next", !.batch = rest]
             d == [acCall[r] EXCEPT !.batch = rest]
  <1>1. acCall[r] \in ApprovalCalls /\ acCall \in [Tabs -> ApprovalCalls]
    BY DEF ApprovalType
  <1>2. acCall[r].order = {}
    BY DEF OrderIsInHand, OrderSteps, Deciding, Answering
  <1>3. c \in ApprovalCalls /\ c.step = "next" /\ c.order = {}
    BY <1>1, <1>2 DEF ApprovalCalls
  <1>4. d \in ApprovalCalls /\ d.step \in {"idle", "next"} /\ d.order = {}
    BY <1>1, <1>2 DEF ApprovalCalls
  <1>5. \/ acCall' = [acCall EXCEPT ![r] = AC!Idle] \/ acCall' = [acCall EXCEPT ![r] = c]
        \/ acCall' = [acCall EXCEPT ![r] = d]
    BY <1>1
  <1> HIDE DEF c, d
  <1>6. QED
    BY <1>1, <1>3, <1>4, <1>5, IdleCall DEF CallMoves
-----------------------------------------------------------------------------
(* Action center: type correctness, and the order in hand *)

\* A step of one request that leaves it between two orders, or with an order in
\* hand at a step that works on one.
LEMMA MovesKeepsHands ==
    ASSUME OrderIsInHand, NEW r \in Tabs, NEW step, NEW orders,
           CallMoves(r, step, orders), step \in OrderSteps \/ orders = {},
           \A o, p \in orders : o = p
    PROVE  acCall' \in [Tabs -> ApprovalCalls] /\ OrderIsInHand'
  BY DEF CallMoves, OrderIsInHand

LEMMA SelectType ==
    ASSUME ApprovalType, OrderIsInHand, NEW r \in Tabs, NEW o \in QueuedOrders,
           NEW decision \in Deciding, AC!Select(r, o, decision)
    PROVE  ApprovalType' /\ OrderIsInHand'
  <1>1. CallMoves(r, decision, {o})
    BY BeginMoves DEF AC!Select
  <1>2. acCall' \in [Tabs -> ApprovalCalls] /\ OrderIsInHand'
    BY <1>1, MovesKeepsHands DEF OrderSteps
  <1>3. acUpset' \in [QueuedOrders -> SUBSET ApprovalUpsets]
    <2> DEFINE crossed ==
                 {c \in {"race"} :
                     \E u \in Tabs : AC!On(u, o, "approve") \/ AC!On(u, o, "reject")}
    <2>1. acUpset' = [acUpset EXCEPT ![o] = @ \cup crossed] /\ crossed \subseteq {"race"}
      BY DEF AC!Select, AC!Begin
    <2> HIDE DEF crossed
    <2>2. QED
      BY <2>1 DEF ApprovalType, ApprovalUpsets
  <1>4. QED
    BY <1>2, <1>3 DEF ApprovalType, AC!Select, AC!Begin

\* The steps that take up or go on with a batch.
LEMMA BatchStepMoves ==
    ASSUME ApprovalType, OrderIsInHand, NEW r \in Tabs,
           \/ AC!ApproveAll(r)
           \/ \E o \in QueuedOrders : AC!NextOrder(r, o) /\ ~AC!Select(r, o, "approve")
           \/ AC!BatchFails(r)
    PROVE  /\ \E step \in {"idle", "next"} : CallMoves(r, step, {})
           /\ UNCHANGED <<acRow, acBroker, acStops, acSent, acUpset>>
  <1>1. acCall[r] \in ApprovalCalls /\ AC!Pending \subseteq QueuedOrders
    BY DEF ApprovalType, AC!Pending
  <1>2. CASE AC!ApproveAll(r)
    BY <1>1, <1>2, BatchMoves, IdleCall DEF AC!ApproveAll
  <1>3. ASSUME NEW o \in QueuedOrders, AC!NextOrder(r, o), ~AC!Select(r, o, "approve")
        PROVE  /\ \E step \in {"idle", "next"} : CallMoves(r, step, {})
               /\ UNCHANGED <<acRow, acBroker, acStops, acSent, acUpset>>
    <2> DEFINE rest == acCall[r].batch \ {o}
    <2>1. rest \in SUBSET QueuedOrders
      BY <1>1 DEF ApprovalCalls
    <2>2. \/ acCall' = [acCall EXCEPT ![r] = AC!Idle]
          \/ acCall' = [acCall EXCEPT ![r] = [@ EXCEPT !.batch = rest]]
      <3> DEFINE c == [acCall[r] EXCEPT !.batch = rest]
      <3>1. acCall' = [acCall EXCEPT ![r] = IF rest = {} THEN AC!Idle ELSE c]
        BY <1>3 DEF AC!NextOrder
      <3> HIDE DEF c
      <3>2. acCall' = [acCall EXCEPT ![r] = AC!Idle] \/ acCall' = [acCall EXCEPT ![r] = c]
        BY <3>1
      <3>3. QED
        BY <3>2 DEF c
    <2> HIDE DEF rest
    <2>3. acCall[r].step \in {"idle", "next"}
      BY <1>3 DEF AC!NextOrder
    <2>4. \E step \in {"idle", "next"} : CallMoves(r, step, {})
      BY <2>1, <2>2, <2>3, BatchMoves
    <2>5. QED
      BY <1>3, <2>4 DEF AC!NextOrder
  <1>4. CASE AC!BatchFails(r)
    <2>1. {} \in SUBSET QueuedOrders
      OBVIOUS
    <2>2. QED
      BY <1>4, <2>1, BatchMoves DEF AC!BatchFails
  <1>5. QED
    BY <1>2, <1>3, <1>4

LEMMA ApprovalTypeStep ==
    ASSUME ApprovalType, OrderIsInHand, [AC!Next]_acVars
    PROVE  ApprovalType' /\ OrderIsInHand'
  <1>1. CASE UNCHANGED acVars
    BY <1>1 DEF acVars, ApprovalType, OrderIsInHand
  <1>2. ASSUME NEW o \in QueuedOrders, AC!Queue(o)
        PROVE  ApprovalType' /\ OrderIsInHand'
    BY <1>2 DEF AC!Queue, ApprovalType, OrderIsInHand
  <1>3. ASSUME NEW r \in Tabs, NEW o \in QueuedOrders, AC!Decide(r, o)
        PROVE  ApprovalType' /\ OrderIsInHand'
    BY <1>3, SelectType DEF AC!Decide, Deciding
  <1>4. ASSUME NEW r \in Tabs, NEW o \in QueuedOrders, AC!Delete(r, o)
        PROVE  ApprovalType' /\ OrderIsInHand'
    BY <1>4 DEF AC!Delete, ApprovalType, OrderIsInHand
  <1>5. ASSUME NEW r \in Tabs,
               \/ AC!ApproveAll(r)
               \/ \E o \in QueuedOrders : AC!NextOrder(r, o)
               \/ AC!BatchFails(r)
        PROVE  ApprovalType' /\ OrderIsInHand'
    <2>1. CASE \E o \in QueuedOrders : AC!Select(r, o, "approve")
      BY <2>1, SelectType DEF Deciding
    <2>2. CASE ~ \E o \in QueuedOrders : AC!Select(r, o, "approve")
      <3>1. /\ \E step \in {"idle", "next"} : CallMoves(r, step, {})
            /\ UNCHANGED <<acRow, acBroker, acStops, acSent, acUpset>>
        BY <1>5, <2>2, BatchStepMoves
      <3>2. QED
        BY <3>1, MovesKeepsHands DEF ApprovalType
    <2>3. QED
      BY <2>1, <2>2
  <1>6. ASSUME NEW r \in Tabs, NEW o \in QueuedOrders, AC!Return(r),
               \/ AC!CommitFails(r, o) \/ AC!CommitReject(r, o) \/ AC!Execute(r, o)
               \/ AC!ExecuteFails(r, o) \/ AC!Unnamed(r, o)
               \/ AC!Record(r, o) \/ AC!Refuse(r, o) \/ AC!UpdateFails(r, o)
        PROVE  ApprovalType' /\ OrderIsInHand'
    <2>1. acCall' \in [Tabs -> ApprovalCalls] /\ OrderIsInHand'
      BY <1>6, ReturnMoves, MovesKeepsHands
    <2>2. CASE AC!Unnamed(r, o)
      BY <2>1, <2>2 DEF AC!Unnamed, ApprovalType, ApprovalUpsets
    <2>3. CASE ~AC!Unnamed(r, o)
      BY <1>6, <2>1, <2>3
         DEF AC!CommitFails, AC!CommitReject, AC!Execute, AC!ExecuteFails, AC!Record,
             AC!Refuse, AC!Update, AC!UpdateFails, ApprovalType, ApprovalUpsets,
             AC!Interrupted
    <2>4. QED
      BY <2>2, <2>3
  <1>7. ASSUME NEW r \in Tabs, NEW o \in QueuedOrders, NEW step \in OrderSteps,
               AC!Go(r, step),
               \/ AC!CommitApprove(r, o) \/ AC!Execute(r, o) \/ AC!NotTaken(r, o)
               \/ AC!Accepted(r, o) \/ AC!AnswerLost(r, o)
        PROVE  ApprovalType' /\ OrderIsInHand'
    <2>1. CallMoves(r, step, acCall[r].order)
      BY <1>7, GoMoves
    <2>2. \A q, u \in acCall[r].order : q = u
      BY DEF OrderIsInHand
    <2>3. acCall' \in [Tabs -> ApprovalCalls] /\ OrderIsInHand'
      BY <1>7, <2>1, <2>2, MovesKeepsHands
    <2>4. QED
      BY <1>7, <2>3
         DEF AC!CommitApprove, AC!Execute, AC!NotTaken, AC!Accepted, AC!AnswerLost,
             ApprovalType, ApprovalUpsets, AC!Interrupted
  <1>8. CASE AC!Stop
    <2>1. acCall' \in [Tabs -> ApprovalCalls] /\ OrderIsInHand'
      BY <1>8, IdleCall DEF AC!Stop, OrderIsInHand, AC!Interrupted
    <2>2. acUpset' \in [QueuedOrders -> SUBSET ApprovalUpsets]
      BY <1>8 DEF AC!Stop, ApprovalType, ApprovalUpsets, AC!Interrupted
    <2>3. QED
      BY <1>8, <2>1, <2>2 DEF AC!Stop, ApprovalType, AC!Interrupted
  <1>9. QED
    BY <1>1, <1>2, <1>3, <1>4, <1>5, <1>6, <1>7, <1>8
       DEF AC!Next, AC!Step, AC!CommitFails, AC!CommitReject, AC!CommitApprove, AC!Execute,
           AC!ExecuteFails, AC!NotTaken, AC!Accepted, AC!Unnamed, AC!AnswerLost,
           AC!Record, AC!Refuse, AC!Update, AC!UpdateFails, OrderSteps, Answering,
           AC!Interrupted
-----------------------------------------------------------------------------
(* Action center: orders whose decisions do not cross *)

\* A step that does nothing to the order but, perhaps, let go of it.
LEMMA KeepsSerial ==
    ASSUME NEW p \in QueuedOrders, SerialOrder(p),
           acRow'[p] = acRow[p], acSent'[p] = acSent[p],
           \A u \in Tabs : HasOrder(u, p)' =>
              /\ HasOrder(u, p)
              /\ acCall'[u].step \in Deciding <=> acCall[u].step \in Deciding
              /\ acCall'[u].step \in Answering <=> acCall[u].step \in Answering
    PROVE  SerialOrder(p)'
  BY DEF SerialOrder

LEMMA ReleaseKeepsSerial ==
    ASSUME NEW r \in Tabs, NEW step, CallMoves(r, step, {}),
           NEW p \in QueuedOrders, SerialOrder(p),
           acRow'[p] = acRow[p], acSent'[p] = acSent[p]
    PROVE  SerialOrder(p)'
  <1>1. \A u \in Tabs : HasOrder(u, p)' => HasOrder(u, p) /\ acCall'[u] = acCall[u]
    BY DEF CallMoves, HasOrder
  <1>2. QED
    BY <1>1, KeepsSerial

\* A decision about a pending order begins; while another one is under way it is
\* recorded as a race.
LEMMA SelectKeepsSerial ==
    ASSUME SentInv, NEW r \in Tabs, NEW o \in QueuedOrders, NEW decision \in Deciding,
           AC!Select(r, o, decision), acCall[r].order = {},
           NEW p \in QueuedOrders, "race" \notin acUpset'[p]
    PROVE  SerialOrder(p)'
  <1>1. /\ CallMoves(r, decision, {o}) /\ acRow[o] = "pending"
        /\ UNCHANGED <<acRow, acSent>>
    BY BeginMoves DEF SentInv, AC!Select, AC!Begin
  <1>2. "race" \notin acUpset[p]
    BY DEF SentInv, ApprovalType, AC!Select, AC!Begin
  <1>3. SerialOrder(p)
    BY <1>2 DEF SentInv, OrdersAreSerial
  <1>4. CASE p # o
    <2>1. \A u \in Tabs : HasOrder(u, p)' => HasOrder(u, p) /\ acCall'[u] = acCall[u]
      BY <1>1, <1>4 DEF CallMoves, HasOrder
    <2>2. QED
      BY <1>1, <1>3, <2>1, KeepsSerial
  <1>5. CASE p = o
    <2>1. \A u \in Tabs : ~AC!On(u, o, "approve") /\ ~AC!On(u, o, "reject")
      BY <1>5 DEF AC!Select, AC!Begin, SentInv, ApprovalType
    <2>2. \A u \in Tabs : ~HasOrder(u, o)
      <3> SUFFICES ASSUME NEW u \in Tabs, HasOrder(u, o) PROVE FALSE
        OBVIOUS
      <3>1. acCall[u].step \notin Deciding
        BY <2>1 DEF AC!On, HasOrder, Deciding
      <3>2. acRow[o] \in {"approved", "deleted"}
        BY <1>3, <1>5, <3>1 DEF SerialOrder
      <3>3. QED
        BY <1>1, <3>2
    <2>3. \A u \in Tabs : HasOrder(u, o)' => u = r
      BY <1>1, <2>2 DEF CallMoves, HasOrder
    <2>4. acCall'[r].step \in Deciding /\ acCall'[r].step \notin Answering
      BY <1>1 DEF CallMoves, Deciding, Answering
    <2>5. acSent[o] = 0
      BY <1>1, <1>3, <1>5 DEF SerialOrder
    <2>6. QED
      BY <1>1, <1>5, <2>3, <2>4, <2>5 DEF SerialOrder
  <1>6. QED
    BY <1>4, <1>5

\* The request that has the order in hand goes on with it.
LEMMA GoOnKeepsSerial ==
    ASSUME SentInv, NEW r \in Tabs, NEW o \in QueuedOrders, AC!On(r, o, acCall[r].step),
           NEW step, CallMoves(r, step, acCall[r].order),
           NEW p \in QueuedOrders, SerialOrder(p),
           acRow'[p] = acRow[p] \/ p = o, acSent'[p] = acSent[p] \/ p = o,
           p = o =>
              /\ step \in Deciding => acRow'[o] = "pending"
              /\ step \notin Deciding => acRow'[o] \in {"approved", "deleted"}
              /\ step \notin Answering => acSent'[o] = 0
              /\ acRow'[o] \in {"none", "pending", "rejected"} => acSent'[o] = 0
              /\ acSent'[o] <= 1
    PROVE  SerialOrder(p)'
  <1>1. \A u \in Tabs : HasOrder(u, p)' <=> HasOrder(u, p)
    BY DEF CallMoves, HasOrder
  <1>2. CASE p # o
    <2>1. ~HasOrder(r, p)
      BY <1>2 DEF AC!On, HasOrder, SentInv, OrderIsInHand
    <2>2. \A u \in Tabs : HasOrder(u, p)' => HasOrder(u, p) /\ acCall'[u] = acCall[u]
      BY <1>1, <2>1 DEF CallMoves
    <2>3. QED
      BY <1>2, <2>2, KeepsSerial
  <1>3. CASE p = o
    <2>1. \A u \in Tabs : HasOrder(u, o)' => u = r
      BY <1>1, <1>3 DEF SerialOrder, AC!On, HasOrder
    <2>2. acCall'[r].step = step
      BY DEF CallMoves
    <2>3. QED
      BY <1>3, <2>1, <2>2 DEF SerialOrder
  <1>4. QED
    BY <1>2, <1>3

LEMMA SerialStep ==
    ASSUME SentInv, [AC!Next]_acVars, NEW p \in QueuedOrders, "race" \notin acUpset'[p]
    PROVE  SerialOrder(p)'
  <1> USE DEF SentInv
  <1>0. "race" \notin acUpset[p] => SerialOrder(p)
    BY DEF OrdersAreSerial
  <1>1. CASE UNCHANGED acVars
    BY <1>0, <1>1 DEF acVars, SerialOrder, HasOrder
  <1>2. ASSUME NEW o \in QueuedOrders, AC!Queue(o)
        PROVE  SerialOrder(p)'
    <2>1. SerialOrder(p) /\ UNCHANGED <<acCall, acSent>>
      BY <1>0, <1>2 DEF AC!Queue
    <2>2. CASE p # o
      BY <1>2, <2>1, <2>2, KeepsSerial DEF AC!Queue, ApprovalType, HasOrder
    <2>3. CASE p = o
      <3>1. acRow[p] = "none" /\ acRow'[p] = "pending"
        BY <1>2, <2>3 DEF AC!Queue, ApprovalType
      <3>2. \A u \in Tabs : ~HasOrder(u, p)
        BY <2>1, <3>1 DEF SerialOrder
      <3>3. QED
        BY <2>1, <3>1, <3>2 DEF SerialOrder, HasOrder
    <2>4. QED
      BY <2>2, <2>3
  <1>3. ASSUME NEW r \in Tabs, NEW o \in QueuedOrders, AC!Decide(r, o)
        PROVE  SerialOrder(p)'
    BY <1>3, SelectKeepsSerial, IdleCall DEF AC!Decide, Deciding
  <1>4. ASSUME NEW r \in Tabs, NEW o \in QueuedOrders, AC!Delete(r, o)
        PROVE  SerialOrder(p)'
    <2>1. SerialOrder(p) /\ UNCHANGED <<acCall, acSent>>
      BY <1>0, <1>4 DEF AC!Delete
    <2>2. CASE p # o
      BY <1>4, <2>1, <2>2, KeepsSerial DEF AC!Delete, ApprovalType, HasOrder
    <2>3. CASE p = o
      <3>1. acRow[p] \in {"approved", "rejected"} /\ acRow'[p] = "deleted"
        BY <1>4, <2>3 DEF AC!Delete, ApprovalType
      <3>2. \A u \in Tabs : HasOrder(u, p) => acCall[u].step \notin Deciding
        BY <2>1, <3>1 DEF SerialOrder
      <3>3. QED
        BY <2>1, <3>1, <3>2 DEF SerialOrder, HasOrder
    <2>4. QED
      BY <2>2, <2>3
  <1>5. ASSUME NEW r \in Tabs,
               \/ AC!ApproveAll(r)
               \/ \E o \in QueuedOrders : AC!NextOrder(r, o)
               \/ AC!BatchFails(r)
        PROVE  SerialOrder(p)'
    <2>1. CASE \E o \in QueuedOrders : AC!NextOrder(r, o) /\ AC!Select(r, o, "approve")
      <3>1. acCall[r].order = {}
        BY <2>1 DEF AC!NextOrder, OrderIsInHand, OrderSteps, Deciding, Answering
      <3>2. QED
        BY <2>1, <3>1, SelectKeepsSerial DEF Deciding
    <2>2. CASE ~ \E o \in QueuedOrders : AC!NextOrder(r, o) /\ AC!Select(r, o, "approve")
      <3>1. /\ \E step \in {"idle", "next"} : CallMoves(r, step, {})
            /\ UNCHANGED <<acRow, acBroker, acStops, acSent, acUpset>>
        BY <1>5, <2>2, BatchStepMoves
      <3>2. QED
        BY <1>0, <3>1, ReleaseKeepsSerial
    <2>3. QED
      BY <2>1, <2>2
  <1>6. ASSUME NEW r \in Tabs, NEW o \in QueuedOrders, AC!Return(r),
               \/ AC!CommitFails(r, o) \/ AC!Execute(r, o) \/ AC!ExecuteFails(r, o)
               \/ AC!Record(r, o) \/ AC!Refuse(r, o) \/ AC!UpdateFails(r, o)
        PROVE  SerialOrder(p)'
    <2>1. UNCHANGED <<acRow, acSent>> /\ "race" \notin acUpset[p]
      BY <1>6
         DEF AC!CommitFails, AC!Execute, AC!ExecuteFails, AC!Record, AC!Refuse, AC!Update,
             AC!UpdateFails, ApprovalType, AC!Interrupted
    <2>2. QED
      BY <1>0, <1>6, <2>1, ReturnMoves, ReleaseKeepsSerial
  <1>7. ASSUME NEW r \in Tabs, NEW o \in QueuedOrders, AC!CommitReject(r, o)
        PROVE  SerialOrder(p)'
    <2>1. PICK step : CallMoves(r, step, {})
      BY <1>7, ReturnMoves DEF AC!CommitReject
    <2>2. SerialOrder(p) /\ acSent' = acSent
      BY <1>0, <1>7 DEF AC!CommitReject
    <2>3. CASE p # o
      <3>1. acRow'[p] = acRow[p]
        BY <1>7, <2>3 DEF AC!CommitReject, ApprovalType
      <3>2. QED
        BY <2>1, <2>2, <3>1, ReleaseKeepsSerial
    <2>4. CASE p = o
      <3>1. HasOrder(r, p) /\ acCall[r].step \in Deciding /\ acRow'[p] = "rejected"
        BY <1>7, <2>4 DEF AC!CommitReject, AC!On, HasOrder, Deciding, ApprovalType
      <3>2. \A u \in Tabs : ~HasOrder(u, p)'
        BY <2>1, <2>2, <3>1 DEF SerialOrder, CallMoves, HasOrder
      <3>3. acRow[p] = "pending" /\ acSent[p] = 0
        BY <2>2, <3>1 DEF SerialOrder
      <3>4. QED
        BY <2>2, <3>1, <3>2, <3>3 DEF SerialOrder
    <2>5. QED
      BY <2>3, <2>4
  <1>8. ASSUME NEW r \in Tabs, NEW o \in QueuedOrders, AC!CommitApprove(r, o)
        PROVE  SerialOrder(p)'
    <2>1. CallMoves(r, "execute", acCall[r].order)
      BY <1>8, GoMoves DEF AC!CommitApprove, OrderSteps
    <2>2. SerialOrder(p) /\ acSent' = acSent
      BY <1>0, <1>8 DEF AC!CommitApprove
    <2>3. AC!On(r, o, acCall[r].step) /\ (p # o => acRow'[p] = acRow[p])
      BY <1>8 DEF AC!CommitApprove, AC!On, ApprovalType
    <2>4. p = o => acRow'[o] = "approved" /\ acSent[o] = 0
      BY <1>8, <2>2
         DEF AC!CommitApprove, AC!On, HasOrder, SerialOrder, Deciding, Answering,
             ApprovalType
    <2>5. "execute" \notin Deciding
      BY DEF Deciding
    <2>6. QED
      BY <2>1, <2>2, <2>3, <2>4, <2>5, GoOnKeepsSerial
  <1>9. ASSUME NEW r \in Tabs, NEW o \in QueuedOrders, NEW step \in {"send", "refuse"},
               AC!Go(r, step), AC!Execute(r, o) \/ AC!NotTaken(r, o)
        PROVE  SerialOrder(p)'
    <2>1. CallMoves(r, step, acCall[r].order)
      BY <1>9, GoMoves DEF OrderSteps, Answering
    <2>2. SerialOrder(p) /\ UNCHANGED <<acRow, acSent>>
      BY <1>0, <1>9 DEF AC!Execute, AC!NotTaken
    <2>3. /\ AC!On(r, o, acCall[r].step) /\ HasOrder(r, o)
          /\ acCall[r].step \notin Deciding /\ acCall[r].step \notin Answering
      BY <1>9 DEF AC!Execute, AC!NotTaken, AC!On, HasOrder, Deciding, Answering
    <2>4. p = o => acRow[o] \in {"approved", "deleted"} /\ acSent[o] = 0
      BY <2>2, <2>3 DEF SerialOrder
    <2>5. step \notin Deciding
      BY DEF Deciding
    <2>6. QED
      BY <2>1, <2>2, <2>3, <2>4, <2>5, GoOnKeepsSerial
  <1>10. ASSUME NEW r \in Tabs, NEW o \in QueuedOrders,
                AC!Accepted(r, o) \/ AC!Unnamed(r, o) \/ AC!AnswerLost(r, o)
         PROVE  SerialOrder(p)'
    <2>1. /\ SerialOrder(p) /\ acRow' = acRow
          /\ acSent' = [acSent EXCEPT ![o] = @ + 1] \/ acSent' = acSent
      BY <1>0, <1>10 DEF AC!Accepted, AC!Unnamed, AC!AnswerLost, ApprovalType,
                         AC!Interrupted
    <2>2. /\ AC!On(r, o, acCall[r].step) /\ HasOrder(r, o)
          /\ acCall[r].step \notin Deciding /\ acCall[r].step \notin Answering
      BY <1>10
         DEF AC!Accepted, AC!Unnamed, AC!AnswerLost, AC!On, HasOrder, Deciding, Answering,
             AC!Interrupted
    <2>3. (p # o => acSent'[p] = acSent[p])
      BY <2>1 DEF ApprovalType
    <2>4. p = o => acRow[o] \in {"approved", "deleted"} /\ acSent'[o] \in {0, 1}
      BY <2>1, <2>2 DEF SerialOrder, ApprovalType
    <2>5. CASE AC!Return(r)
      <3>1. PICK step : CallMoves(r, step, {})
        BY <2>5, ReturnMoves
      <3>2. CASE p # o
        BY <2>1, <2>3, <3>1, <3>2, ReleaseKeepsSerial
      <3>3. CASE p = o
        <4>1. \A u \in Tabs : ~HasOrder(u, p)'
          BY <2>1, <2>2, <3>1, <3>3 DEF SerialOrder, CallMoves, HasOrder
        <4>2. QED
          BY <2>1, <2>4, <3>3, <4>1 DEF SerialOrder
      <3>4. QED
        BY <3>2, <3>3
    <2>6. ASSUME NEW step \in Answering, AC!Go(r, step)
          PROVE  SerialOrder(p)'
      <3>1. CallMoves(r, step, acCall[r].order)
        BY <2>6, GoMoves DEF OrderSteps
      <3>2. step \notin Deciding
        BY <2>6 DEF Answering, Deciding
      <3>3. QED
        BY <2>1, <2>2, <2>3, <2>4, <2>6, <3>1, <3>2, GoOnKeepsSerial
    <2>7. QED
      BY <1>10, <2>5, <2>6 DEF AC!Accepted, AC!Unnamed, AC!AnswerLost, Answering,
                               AC!Interrupted
  <1>11. CASE AC!Stop
    <2>1. SerialOrder(p) /\ UNCHANGED <<acRow, acSent>>
      BY <1>0, <1>11 DEF AC!Stop, ApprovalType, AC!Interrupted
    <2>2. \A u \in Tabs : ~HasOrder(u, p)'
      BY <1>11, IdleCall DEF AC!Stop, HasOrder, AC!Interrupted
    <2>3. QED
      BY <2>1, <2>2 DEF SerialOrder
  <1>12. QED
    BY <1>1, <1>2, <1>3, <1>4, <1>5, <1>6, <1>7, <1>8, <1>9, <1>10, <1>11
       DEF AC!Next, AC!Step, AC!CommitFails, AC!Execute, AC!ExecuteFails, AC!NotTaken,
           AC!Unnamed, AC!Record, AC!Refuse, AC!Update, AC!UpdateFails,
           AC!Interrupted

LEMMA SentStep == SentInv /\ [AC!Next]_acVars => SentInv'
  BY ApprovalTypeStep, SerialStep DEF SentInv, OrdersAreSerial

LEMMA SentInit == AC!Init => SentInv
  BY IdleCall
     DEF AC!Init, SentInv, ApprovalType, OrderIsInHand, OrdersAreSerial, SerialOrder,
         HasOrder
-----------------------------------------------------------------------------
(* Action center: orders that nothing came in between of *)

\* A step that leaves the order and those who have it alone.
LEMMA KeepsAnswered ==
    ASSUME NEW p \in QueuedOrders, Answered(p),
           acRow'[p] = acRow[p], acSent'[p] = acSent[p], acBroker'[p] = acBroker[p],
           acUpset'[p] = acUpset[p],
           \A u \in Tabs :
              /\ HasOrder(u, p)' <=> HasOrder(u, p)
              /\ HasOrder(u, p)' => acCall'[u].step = acCall[u].step
    PROVE  Answered(p)'
  <1>1. (Unanswered(p)' <=> Unanswered(p)) /\ (Tells(p)' <=> Tells(p))
    BY DEF Unanswered, Tells
  <1>2. QED
    BY <1>1 DEF Answered, AC!On, HasOrder

\* A request moves that has another order in hand, or none.
LEMMA OthersKeepAnswered ==
    ASSUME NEW r \in Tabs, NEW step, NEW orders, CallMoves(r, step, orders),
           NEW p \in QueuedOrders, Answered(p), ~HasOrder(r, p), p \notin orders,
           acRow'[p] = acRow[p], acSent'[p] = acSent[p], acBroker'[p] = acBroker[p],
           acUpset'[p] = acUpset[p]
    PROVE  Answered(p)'
  <1>1. \A u \in Tabs : /\ HasOrder(u, p)' <=> HasOrder(u, p)
                        /\ HasOrder(u, p)' => acCall'[u].step = acCall[u].step
    BY DEF CallMoves, HasOrder
  <1>2. QED
    BY <1>1, KeepsAnswered

\* The request that has the order in hand goes on; nobody else has it.
LEMMA GoOnKeepsAnswered ==
    ASSUME SentInv, NEW r \in Tabs, NEW p \in QueuedOrders, SerialOrder(p), HasOrder(r, p),
           NEW step, NEW orders, CallMoves(r, step, orders),
           step = "record" => acSent'[p] = 1,
           step = "refuse" => acSent'[p] = 0,
           orders = acCall[r].order \/ (orders = {} /\ step \notin Answering),
           orders # {} => Unanswered(p)',
           acRow'[p] \in {"none", "pending"} => Unanswered(p)',
           orders = {} /\ acRow'[p] = "approved" => Tells(p)'
    PROVE  Answered(p)'
  <1>1. \A u \in Tabs : HasOrder(u, p)' => u = r
    BY DEF CallMoves, HasOrder, SerialOrder
  <1>2. acCall'[r].step = step /\ (orders # {} => HasOrder(r, p)')
    BY DEF CallMoves, HasOrder
  <1>3. \A u \in Tabs :
           /\ AC!On(u, p, "record")' => acSent'[p] = 1
           /\ AC!On(u, p, "refuse")' => acSent'[p] = 0
           /\ HasOrder(u, p)' => Unanswered(p)'
    BY <1>1, <1>2 DEF AC!On, HasOrder, CallMoves
  <1>4. (\A u \in Tabs : ~HasOrder(u, p)') => orders = {}
    BY <1>2
  <1>5. QED
    BY <1>3, <1>4 DEF Answered

LEMMA AnswersStep ==
    ASSUME SentInv, AnswersInv, [AC!Next]_acVars, NEW p \in QueuedOrders,
           acUpset'[p] \subseteq {"unnamed"}
    PROVE  Answered(p)'
  <1>a. ApprovalType /\ OrderIsInHand
    BY DEF SentInv
  <1>0. acUpset[p] \subseteq {"unnamed"} => Answered(p) /\ SerialOrder(p)
    BY DEF AnswersInv, SentInv, OrdersAreSerial
  <1>1. CASE UNCHANGED acVars
    BY <1>0, <1>1, KeepsAnswered DEF acVars, HasOrder
  <1>2. ASSUME NEW o \in QueuedOrders, AC!Queue(o) \/ \E r \in Tabs : AC!Delete(r, o)
        PROVE  Answered(p)'
    <2>1. Answered(p) /\ UNCHANGED <<acCall, acSent, acBroker, acUpset>>
      BY <1>0, <1>2 DEF AC!Queue, AC!Delete
    <2>2. \/ acRow'[p] = acRow[p] \/ acRow'[p] = "deleted"
          \/ acRow[p] = "none" /\ acRow'[p] = "pending"
      BY <1>a, <1>2 DEF AC!Queue, AC!Delete, ApprovalType
    <2>3. Unanswered(p)' <=> Unanswered(p)
      BY <2>1 DEF Unanswered
    <2>4. Tells(p)' <=> Tells(p)
      BY <2>1 DEF Tells
    <2>5. QED
      BY <2>1, <2>2, <2>3, <2>4 DEF Answered, HasOrder, AC!On
  <1>3. ASSUME NEW r \in Tabs, NEW o \in QueuedOrders, NEW decision \in Deciding,
               AC!Select(r, o, decision), acCall[r].order = {}
        PROVE  Answered(p)'
    <2>1. /\ CallMoves(r, decision, {o}) /\ acRow[o] = "pending"
          /\ UNCHANGED <<acRow, acSent, acBroker>>
      BY <1>a, <1>3, BeginMoves DEF AC!Select, AC!Begin
    <2>2. acUpset[p] = acUpset'[p]
      BY <1>a, <1>3 DEF AC!Select, AC!Begin, ApprovalType
    <2>3. CASE p # o
      <3>1. ~HasOrder(r, p) /\ p \notin {o}
        BY <1>3, <2>3 DEF HasOrder
      <3>2. QED
        BY <1>0, <2>1, <2>2, <3>1, OthersKeepAnswered
    <2>4. CASE p = o
      <3>1. \A u \in Tabs :
               u # r => AC!On(u, p, "record")' = AC!On(u, p, "record")
                        /\ AC!On(u, p, "refuse")' = AC!On(u, p, "refuse")
        BY <2>1 DEF CallMoves, AC!On
      <3>2. ~AC!On(r, p, "record")' /\ ~AC!On(r, p, "refuse")'
        BY <2>1 DEF CallMoves, AC!On, Deciding
      <3>3. Unanswered(p)' <=> Unanswered(p)
        BY <2>1, <2>2 DEF Unanswered
      <3>4. acRow'[p] = "pending"
        BY <2>1, <2>4
      <3>5. QED
        BY <1>0, <2>1, <2>2, <2>4, <3>1, <3>2, <3>3, <3>4 DEF Answered
    <2>5. QED
      BY <2>3, <2>4
  <1>4. ASSUME NEW r \in Tabs, NEW o \in QueuedOrders, AC!Decide(r, o)
        PROVE  Answered(p)'
    BY <1>3, <1>4, IdleCall DEF AC!Decide, Deciding
  <1>5. ASSUME NEW r \in Tabs,
               \/ AC!ApproveAll(r)
               \/ \E o \in QueuedOrders : AC!NextOrder(r, o)
               \/ AC!BatchFails(r)
        PROVE  Answered(p)'
    <2>1. acCall[r].order = {}
      BY <1>a, <1>5, IdleCall
         DEF AC!ApproveAll, AC!NextOrder, AC!BatchFails, OrderIsInHand, OrderSteps,
             Deciding, Answering
    <2>2. CASE \E o \in QueuedOrders : AC!Select(r, o, "approve")
      BY <1>3, <2>1, <2>2 DEF Deciding
    <2>3. CASE ~ \E o \in QueuedOrders : AC!Select(r, o, "approve")
      <3>1. /\ \E step \in {"idle", "next"} : CallMoves(r, step, {})
            /\ UNCHANGED <<acRow, acBroker, acStops, acSent, acUpset>>
        BY <1>a, <1>5, <2>3, BatchStepMoves
      <3>2. ~HasOrder(r, p) /\ p \notin {}
        BY <2>1 DEF HasOrder
      <3>3. QED
        BY <1>0, <3>1, <3>2, OthersKeepAnswered
    <2>4. QED
      BY <2>2, <2>3
  <1>6. ASSUME NEW r \in Tabs, NEW o \in QueuedOrders, AC!Return(r),
               \/ AC!CommitFails(r, o) \/ AC!CommitReject(r, o) \/ AC!Execute(r, o)
               \/ AC!ExecuteFails(r, o) \/ AC!Unnamed(r, o)
               \/ AC!Record(r, o) \/ AC!Refuse(r, o) \/ AC!UpdateFails(r, o)
        PROVE  Answered(p)'
    <2>1. PICK step \in {"idle", "next"} : CallMoves(r, step, {})
      BY <1>a, <1>6, ReturnMoves
    <2>2. /\ acUpset[p] \subseteq {"unnamed"}
          /\ acUpset'[p] = acUpset[p] \/ AC!Unnamed(r, o)
          /\ AC!ExecuteFails(r, o) \/ AC!UpdateFails(r, o) => p # o
      <3>0. AC!ExecuteFails(r, o) \/ AC!UpdateFails(r, o) => "cut" \in acUpset'[o]
        BY <1>a DEF AC!ExecuteFails, AC!UpdateFails, ApprovalType, AC!Interrupted
      <3>1. CASE AC!Unnamed(r, o)
        <4>1. acUpset[p] \subseteq acUpset'[p]
          BY <1>a, <3>1 DEF AC!Unnamed, ApprovalType
        <4>2. QED
          BY <3>0, <3>1, <4>1
      <3>2. CASE AC!ExecuteFails(r, o) \/ AC!UpdateFails(r, o)
        <4>1. p # o
          BY <3>0, <3>2
        <4>2. acUpset'[p] = acUpset[p]
          BY <1>a, <3>2, <4>1 DEF AC!ExecuteFails, AC!UpdateFails, ApprovalType,
                                  AC!Interrupted
        <4>3. QED
          BY <4>1, <4>2
      <3>3. CASE \/ AC!CommitFails(r, o) \/ AC!CommitReject(r, o) \/ AC!Execute(r, o)
                 \/ AC!Record(r, o) \/ AC!Refuse(r, o)
        <4>1. acUpset' = acUpset
          BY <3>3
             DEF AC!CommitFails, AC!CommitReject, AC!Execute, AC!Record, AC!Refuse,
                 AC!Update
        <4>2. QED
          BY <3>0, <4>1
      <3>4. QED
        BY <1>6, <3>1, <3>2, <3>3
    <2>3. HasOrder(r, o)
      BY <1>6
         DEF AC!CommitFails, AC!CommitReject, AC!Execute, AC!ExecuteFails, AC!Unnamed,
             AC!Record, AC!Refuse, AC!UpdateFails, AC!On, HasOrder, AC!Interrupted
    <2>4. CASE p # o
      <3>1. ~HasOrder(r, p)
        BY <1>a, <2>3, <2>4 DEF OrderIsInHand, HasOrder
      <3>2. acRow'[p] = acRow[p] /\ acBroker'[p] = acBroker[p] /\ acUpset'[p] = acUpset[p]
        BY <1>a, <1>6, <2>4
           DEF AC!CommitFails, AC!CommitReject, AC!Execute, AC!ExecuteFails, AC!Unnamed,
               AC!Record, AC!Refuse, AC!Update, AC!UpdateFails, ApprovalType,
               AC!Interrupted
      <3>3. acSent'[p] = acSent[p]
        BY <1>a, <1>6, <2>4
           DEF AC!CommitFails, AC!CommitReject, AC!Execute, AC!ExecuteFails, AC!Unnamed,
               AC!Record, AC!Refuse, AC!Update, AC!UpdateFails, ApprovalType,
               AC!Interrupted
      <3>4. QED
        BY <1>0, <2>1, <2>2, <3>1, <3>2, <3>3, OthersKeepAnswered
    <2>5. CASE p = o
      <3>1. step \notin Answering
        BY DEF Answering
      <3>2. Unanswered(p) /\ SerialOrder(p) /\ Answered(p)
        BY <1>0, <2>2, <2>3, <2>5 DEF Answered
      <3>3. /\ acRow'[p] \in {"none", "pending"} => Unanswered(p)'
            /\ acRow'[p] = "approved" => Tells(p)'
        <4>1. CASE AC!CommitFails(r, o)
          <5>1. acRow'[p] = "pending" /\ UNCHANGED <<acBroker, acUpset>>
            BY <2>3, <2>5, <3>2, <4>1 DEF AC!CommitFails, AC!On, SerialOrder, Deciding
          <5>2. QED
            BY <3>2, <5>1 DEF Unanswered
        <4>2. CASE AC!CommitReject(r, o)
          <5>1. acRow'[p] = "rejected"
            BY <1>a, <2>5, <4>2 DEF AC!CommitReject, ApprovalType
          <5>2. QED
            BY <5>1
        <4>3. CASE AC!Execute(r, o)
          <5>1. acRow[o] # "approved" \/ AC!Go(r, "send")
            BY <4>3 DEF AC!Execute
          <5>2. ~AC!Go(r, "send")
            <6>1. ~CallMoves(r, "send", acCall[r].order)
              BY <2>1 DEF CallMoves
            <6>2. QED
              BY <1>a, <6>1, GoMoves DEF OrderSteps
          <5>3. acRow[o] \in {"approved", "deleted"} /\ acRow' = acRow
            BY <2>3, <2>5, <3>2, <4>3 DEF AC!Execute, AC!On, SerialOrder, Deciding
          <5>4. QED
            BY <2>5, <5>1, <5>2, <5>3
        <4>4. CASE AC!Unnamed(r, o)
          <5>1. /\ acSent[o] = 0 /\ acRow[o] \in {"approved", "deleted"}
                /\ UNCHANGED <<acRow, acBroker>>
            BY <2>3, <2>5, <3>2, <4>4
               DEF AC!Unnamed, AC!On, SerialOrder, Deciding, Answering
          <5>2. "unnamed" \in acUpset'[o] /\ (o \notin MultiOrders => acSent' = acSent)
            BY <1>a, <4>4 DEF AC!Unnamed, ApprovalType
          <5>3. QED
            BY <2>5, <3>2, <5>1, <5>2 DEF Tells, Unanswered
        <4>5. ASSUME NEW status, AC!Update(r, o, status), acRow[o] \in {"approved", "deleted"},
                     status = IF acSent[o] = 1 THEN "recorded" ELSE "rejected"
              PROVE  /\ acRow'[p] \notin {"none", "pending"}
                     /\ acRow'[p] = "approved" => Tells(p)'
          <5>1. UNCHANGED <<acRow, acSent, acUpset>>
            BY <4>5 DEF AC!Update
          <5>2. acRow[o] = "approved" => acBroker'[o] = status
            BY <1>a, <4>5 DEF AC!Update, AC!Exists, ApprovalType
          <5>3. QED
            BY <2>5, <3>2, <4>5, <5>1, <5>2 DEF Tells, Unanswered
        <4>6. CASE AC!Record(r, o)
          <5>1. acSent[o] = 1 /\ acRow[o] \in {"approved", "deleted"}
            BY <2>3, <2>5, <3>2, <4>6 DEF AC!Record, AC!On, Answered, SerialOrder, Deciding
          <5>2. QED
            BY <4>5, <4>6, <5>1 DEF AC!Record
        <4>7. CASE AC!Refuse(r, o)
          <5>1. acSent[o] = 0 /\ acRow[o] \in {"approved", "deleted"}
            BY <2>3, <2>5, <3>2, <4>7 DEF AC!Refuse, AC!On, Answered, SerialOrder, Deciding
          <5>2. QED
            BY <4>5, <4>7, <5>1 DEF AC!Refuse
        <4>8. QED
          BY <1>6, <2>2, <2>5, <4>1, <4>2, <4>3, <4>4, <4>6, <4>7
      <3>4. QED
        BY <1>a, <2>1, <2>3, <2>5, <3>1, <3>2, <3>3, GoOnKeepsAnswered DEF Answering
    <2>6. QED
      BY <2>4, <2>5
  <1>7. ASSUME NEW r \in Tabs, NEW o \in QueuedOrders, NEW step \in OrderSteps,
               AC!Go(r, step),
               \/ AC!CommitApprove(r, o) \/ AC!Execute(r, o) \/ AC!NotTaken(r, o)
               \/ AC!Accepted(r, o) \/ AC!AnswerLost(r, o)
        PROVE  Answered(p)'
    <2>1. CallMoves(r, step, acCall[r].order)
      BY <1>a, <1>7, GoMoves
    <2>2. /\ HasOrder(r, o) /\ acUpset[p] \subseteq {"unnamed"}
          /\ acUpset'[p] = acUpset[p] /\ acBroker' = acBroker
      BY <1>a, <1>7
         DEF AC!CommitApprove, AC!Execute, AC!NotTaken, AC!Accepted, AC!AnswerLost, AC!On,
             HasOrder, ApprovalType, AC!Interrupted
    <2>3. CASE p # o
      <3>1. ~HasOrder(r, p) /\ p \notin acCall[r].order
        BY <1>a, <2>2, <2>3 DEF OrderIsInHand, HasOrder
      <3>2. acRow'[p] = acRow[p] /\ acSent'[p] = acSent[p]
        BY <1>a, <1>7, <2>3
           DEF AC!CommitApprove, AC!Execute, AC!NotTaken, AC!Accepted, AC!AnswerLost,
               ApprovalType, AC!Interrupted
      <3>3. QED
        BY <1>0, <2>1, <2>2, <3>1, <3>2, OthersKeepAnswered
    <2>4. CASE p = o
      <3>0. SerialOrder(p) /\ Unanswered(p) /\ Unanswered(p)'
        BY <1>0, <2>2, <2>4 DEF Answered, Unanswered
      <3>1. /\ step = "record" => acSent'[p] = 1
            /\ step = "refuse" => acSent'[p] = 0
        <4>1. acCall'[r].step = step
          BY <2>1 DEF CallMoves
        <4>2. CASE AC!CommitApprove(r, o)
          <5>1. CallMoves(r, "execute", acCall[r].order)
            BY <1>a, <4>2, GoMoves DEF AC!CommitApprove, OrderSteps
          <5>2. QED
            BY <4>1, <5>1 DEF CallMoves
        <4>3. CASE AC!Execute(r, o) /\ ~AC!Return(r)
          <5>1. CallMoves(r, "send", acCall[r].order)
            BY <1>a, <4>3, GoMoves DEF AC!Execute, OrderSteps
          <5>2. QED
            BY <4>1, <5>1 DEF CallMoves
        <4>4. CASE AC!Return(r)
          <5>1. step \in {"idle", "next"}
            BY <1>a, <4>1, <4>4, ReturnMoves DEF CallMoves
          <5>2. QED
            BY <5>1
        <4>5. CASE AC!NotTaken(r, o)
          <5>1. CallMoves(r, "refuse", acCall[r].order)
            BY <1>a, <4>5, GoMoves DEF AC!NotTaken, OrderSteps, Answering
          <5>2. acSent[o] = 0 /\ acSent' = acSent
            BY <1>0, <2>2, <2>4, <4>5
               DEF AC!NotTaken, AC!On, SerialOrder, Answering, HasOrder
          <5>3. QED
            BY <2>4, <4>1, <5>1, <5>2 DEF CallMoves
        <4>6. CASE AC!Accepted(r, o)
          <5>1. CallMoves(r, "record", acCall[r].order)
            BY <1>a, <4>6, GoMoves DEF AC!Accepted, OrderSteps, Answering
          <5>2. acSent[o] = 0
            BY <1>0, <2>2, <2>4, <4>6
               DEF AC!Accepted, AC!On, SerialOrder, Answering, HasOrder
          <5>3. acSent'[o] = 1
            BY <1>a, <4>6, <5>2 DEF AC!Accepted, ApprovalType
          <5>4. QED
            BY <2>4, <4>1, <5>1, <5>3 DEF CallMoves
        <4>7. CASE AC!AnswerLost(r, o)
          BY <1>a, <2>4, <4>7 DEF AC!AnswerLost, ApprovalType, AC!Interrupted
        <4>8. QED
          BY <1>7, <4>2, <4>3, <4>4, <4>5, <4>6, <4>7
      <3>2. acCall[r].order # {}
        BY <2>2 DEF HasOrder
      <3>3. QED
        BY <1>0, <2>1, <2>2, <2>4, <3>0, <3>1, <3>2, GoOnKeepsAnswered
    <2>5. QED
      BY <2>3, <2>4
  <1>8. CASE AC!Stop
    <2>1. /\ \A u \in Tabs : ~HasOrder(u, p)
          /\ acUpset[p] = acUpset'[p] /\ UNCHANGED <<acRow, acBroker, acSent>>
      BY <1>8 DEF AC!Stop, HasOrder, AC!Interrupted
    <2>2. \A u \in Tabs : ~HasOrder(u, p)'
      BY <1>8, IdleCall DEF AC!Stop, HasOrder, AC!Interrupted
    <2>3. QED
      BY <1>0, <2>1, <2>2, KeepsAnswered
  <1>9. QED
    BY <1>1, <1>2, <1>4, <1>5, <1>6, <1>7, <1>8
       DEF AC!Next, AC!Step, AC!CommitFails, AC!CommitReject, AC!CommitApprove, AC!Execute,
           AC!ExecuteFails, AC!NotTaken, AC!Accepted, AC!Unnamed, AC!AnswerLost,
           AC!Record, AC!Refuse, AC!Update, AC!UpdateFails, OrderSteps, Answering,
           AC!Interrupted

LEMMA AnswersInit == AC!Init => AnswersInv
  BY IdleCall DEF AC!Init, AnswersInv, Answered, Unanswered, HasOrder, AC!On

\* Every request keeps to one order at a time and every row to its states.
THEOREM ServerSentInv == Spec => []SentInv
  <1>1. [Next]_vars => [AC!Next]_acVars
    BY DEF Next, vars, Settle, Expire, SquareOff, Approve, DownloadData, Host, Signal,
           Subscribe, Switch
  <1>2. QED
    BY <1>1, SentInit, SentStep, PTL DEF Spec, Init

\* The answer that a row carries is the one that the broker gave, and a row without
\* one is undecided, under way or was answered without an order id: for any number
\* of orders of each kind, of requests and of stops, where the database does not
\* fail.
THEOREM ServerAnswersInv == Spec => []AnswersInv
  <1>1. [Next]_vars => [AC!Next]_acVars
    BY DEF Next, vars, Settle, Expire, SquareOff, Approve, DownloadData, Host, Signal,
           Subscribe, Switch
  <1>2. SentInv /\ AnswersInv /\ [AC!Next]_acVars => AnswersInv'
    BY AnswersStep DEF AnswersInv
  <1>3. QED
    BY <1>1, <1>2, AnswersInit, ServerSentInv, PTL DEF Spec, Init

\* Unless two decisions about a queued order cross, the broker gets it at most
\* once, and never before its approval or after its rejection: for any number of
\* orders, of approving requests and of stops (execute_approved_order is reached
\* by the commit of an approval alone).
THEOREM ServerSendsAsDecided == Spec => []SentAsDecided
  <1>1. SentInv => SentAsDecided
    BY DEF SentInv, OrdersAreSerial, SerialOrder, SentAsDecided, AC!SentAsDecided
  <1>2. QED
    BY <1>1, ServerSentInv, PTL

\* When no request is under way, the row of an approved order tells whether the
\* broker has it, or tells nothing when the answer had no order id: for any number
\* of orders of each kind (update_broker_status is the last step of an execution
\* that it ends with).
THEOREM ServerRowTells == Spec => []RowTellsWhatWasSent
  <1>1. AnswersInv => RowTellsWhatWasSent
    BY IdleCall
       DEF AnswersInv, Answered, Tells, RowTellsWhatWasSent, AC!RowTellsWhatWasSent,
           AC!Quiet, HasOrder
  <1>2. QED
    BY <1>1, ServerAnswersInv, PTL

-----------------------------------------------------------------------------
(* Strategy host: what Server and StrategyHost_proofs instantiate is the same *)

LEMMA StrategyHostInit == SH!Init => SHP!Init
  BY DEF SH!Init, SHP!Init, SH!NotRunning, SHP!NotRunning, SH!Threads,
         SHP!Threads, SH!Idle, SHP!Idle

LEMMA StrategyHostStep == SH!Next => SHP!Next
  <1>1. \A t : SH!Spawn(t) => SHP!Spawn(t)
    BY DEF SH!Spawn, SHP!Spawn, SH!Starting, SHP!Starting, SH!LockFree,
           SHP!LockFree, SH!Threads, SHP!Threads, SH!MayStart, SHP!MayStart,
           SH!At, SHP!At, SH!Upset, SHP!Upset, SH!Live, SHP!Live
  <1>2. \A t : SH!Record(t) => SHP!Record(t)
    BY DEF SH!Record, SHP!Record, SH!At, SHP!At, SH!Return, SHP!Return,
           SH!Idle, SHP!Idle
  <1>3. \A t : SH!Refuse(t) => SHP!Refuse(t)
    BY DEF SH!Refuse, SHP!Refuse, SH!Starting, SHP!Starting, SH!LockFree,
           SHP!LockFree, SH!Threads, SHP!Threads, SH!MayStart, SHP!MayStart,
           SH!At, SHP!At, SH!Upset, SHP!Upset, SH!Live, SHP!Live, SH!Return,
           SHP!Return, SH!Idle, SHP!Idle
  <1>4. \A t : SH!Kill(t) => SHP!Kill(t)
    BY DEF SH!Kill, SHP!Kill, SH!Halting, SHP!Halting, SH!LockFree,
           SHP!LockFree, SH!Threads, SHP!Threads, SH!Target, SHP!Target,
           SH!At, SHP!At
  <1>5. \A t : SH!RecordStop(t) => SHP!RecordStop(t)
    BY DEF SH!RecordStop, SHP!RecordStop, SH!At, SHP!At
  <1>6. \A t : SH!NothingToStop(t) => SHP!NothingToStop(t)
    BY DEF SH!NothingToStop, SHP!NothingToStop, SH!Halting, SHP!Halting,
           SH!LockFree, SHP!LockFree, SH!Threads, SHP!Threads, SH!Target,
           SHP!Target, SH!Return, SHP!Return, SH!Idle, SHP!Idle
  <1>7. \A t : SH!Flag(t) => SHP!Flag(t)
    BY DEF SH!Flag, SHP!Flag, SH!At, SHP!At, SH!Upset, SHP!Upset, SH!Threads,
           SHP!Threads, SH!Return, SHP!Return, SH!Idle, SHP!Idle
  <1>8. \A t, within : SH!UserStart(t, within) => SHP!UserStart(t, within)
    BY DEF SH!UserStart, SHP!UserStart, SH!Goto, SHP!Goto, SH!Idle, SHP!Idle
  <1>9. \A t : SH!UserStop(t) => SHP!UserStop(t)
    BY DEF SH!UserStop, SHP!UserStop, SH!Goto, SHP!Goto, SH!Idle, SHP!Idle
  <1>10. \A t : SH!Delete(t) => SHP!Delete(t)
    BY DEF SH!Delete, SHP!Delete, SH!LockFree, SHP!LockFree, SH!Threads,
           SHP!Threads, SH!NotRunning, SHP!NotRunning, SH!Goto, SHP!Goto,
           SH!Idle, SHP!Idle
  <1>11. \A t : SH!TimedStart(t) => SHP!TimedStart(t)
    BY DEF SH!TimedStart, SHP!TimedStart, SH!Goto, SHP!Goto, SH!Idle,
           SHP!Idle
  <1>12. \A t : SH!TimedStop(t) => SHP!TimedStop(t)
    BY DEF SH!TimedStop, SHP!TimedStop, SH!Goto, SHP!Goto, SH!Idle, SHP!Idle
  <1>13. SH!Reap => SHP!Reap
    BY DEF SH!Reap, SHP!Reap, SH!LockFree, SHP!LockFree, SH!Threads,
           SHP!Threads, SH!Live, SHP!Live
  <1>14. \A t : SH!RestoreBegins(t) => SHP!RestoreBegins(t)
    BY DEF SH!RestoreBegins, SHP!RestoreBegins, SH!Goto, SHP!Goto, SH!Idle,
           SHP!Idle
  <1>15. \A t : SH!Postpone(t) => SHP!Postpone(t)
    BY DEF SH!Postpone, SHP!Postpone, SH!At, SHP!At, SH!Upset, SHP!Upset,
           SH!Goto, SHP!Goto
  <1>16. \A t : SH!Restore(t) => SHP!Restore(t)
    BY DEF SH!Restore, SHP!Restore, SH!At, SHP!At, SH!Found, SHP!Found,
           SH!Live, SHP!Live, SH!Upset, SHP!Upset, SH!Goto, SHP!Goto
  <1>17. \A t : SH!Adopt(t) => SHP!Adopt(t)
    BY DEF SH!Adopt, SHP!Adopt, SH!At, SHP!At, SH!Upset, SHP!Upset
  <1>18. \A t : SH!Pending(t) => SHP!Pending(t)
    BY DEF SH!Pending, SHP!Pending, SH!At, SHP!At, SH!Goto, SHP!Goto,
           SH!Return, SHP!Return, SH!Idle, SHP!Idle
  <1>19. SH!ReadyChanges => SHP!ReadyChanges
    BY DEF SH!ReadyChanges, SHP!ReadyChanges
  <1>20. \A p : SH!Die(p) => SHP!Die(p)
    BY DEF SH!Die, SHP!Die
  <1>21. SH!Restart => SHP!Restart
    BY DEF SH!Restart, SHP!Restart, SH!Threads, SHP!Threads, SH!Idle,
           SHP!Idle, SH!Upset, SHP!Upset
  <1>22. \A t : SH!Step(t) => SHP!Step(t)
    BY <1>1, <1>2, <1>3, <1>4, <1>5, <1>6, <1>7, <1>15, <1>16, <1>17, <1>18
       DEF SH!Step, SHP!Step
  <1>23. QED
    BY <1>8, <1>9, <1>10, <1>11, <1>12, <1>13, <1>14, <1>19, <1>20, <1>21, <1>22
       DEF SH!Next, SHP!Next, SH!Threads, SHP!Threads, SH!Processes,
           SHP!Processes

\* Only Host changes what the strategy host keeps.
LEMMA ServerIsStrategyHost == Spec => SHP!Spec
  <1>1. Init => SHP!Init
    BY StrategyHostInit DEF Init
  <1>2. [Next]_vars => [SHP!Next]_(SHP!vars)
    <2> SUFFICES ASSUME [Next]_vars PROVE SHP!Next \/ UNCHANGED SHP!vars
      OBVIOUS
    <2>1. CASE Host
      BY <2>1, StrategyHostStep DEF Host
    <2>2. CASE UNCHANGED shVars
      BY <2>2 DEF shVars, SHP!vars
    <2>3. QED
      BY <2>1, <2>2
         DEF Next, vars, Settle, Expire, SquareOff, Approve, DownloadData, Signal,
             Subscribe, Switch
  <1>3. QED
    BY <1>1, <1>2, PTL DEF Spec, SHP!Spec

\* Whatever users, timers and restorations do at the same time, and across
\* restarts that a process outlives, a strategy has one process, but for the
\* crossings that upset names.
THEOREM ServerHasOneProcess == Spec => []OneProcess
  <1>1. SHP!OneProcess => OneProcess
    BY DEF OneProcess, SH!OneProcess, SHP!OneProcess, SH!Cardinality,
           SHP!Cardinality
  <1>2. QED
    BY <1>1, ServerIsStrategyHost, SHP!SpecOneProcess, PTL

\* A strategy that its user has stopped (manually_stopped) stays without a process
\* until the user starts it, unless the stop has crossed a start or met a strategy
\* that waits for the master contract.
THEOREM ServerManualStopHolds == Spec => []ManualStopHolds
  <1>1. SHP!ManualStopHolds => ManualStopHolds
    BY DEF ManualStopHolds, SH!ManualStopHolds, SHP!ManualStopHolds
  <1>2. QED
    BY <1>1, ServerIsStrategyHost, SHP!SpecManualStopHolds, PTL

-----------------------------------------------------------------------------
(* SquareOff: a session that is over stays over *)

PassSteps == {"idle", "accepted", "cancel", "close", "fill", "finished"}
PassTypeInv ==
    /\ soPosition \in Int
    /\ soBook \in [OrderIds -> Int]
    /\ soCall \in [SO!Threads -> [step: PassSteps, orders: SUBSET OrderIds,
                                  quantity: Int]]

\* Positions and orders are quantities, and a thread is at one of its steps.
LEMMA PassTypes == Spec => []PassTypeInv
  <1> USE DEF PassSteps
  <1>1. SO!Init => PassTypeInv
    BY DEF SO!Init, SO!Idle, PassTypeInv
  <1>2. PassTypeInv /\ SO!Next => PassTypeInv'
    <2> SUFFICES ASSUME PassTypeInv, SO!Next PROVE PassTypeInv'
      OBVIOUS
    <2> USE DEF PassTypeInv
    <2>1. CASE SO!SquareOffTime
      BY <2>1 DEF SO!SquareOffTime
    <2>2. ASSUME NEW c \in Clients, NEW q \in Quantities, SO!Accept(c, q)
          PROVE  PassTypeInv'
      BY <2>2, QuantitiesAssumption DEF SO!Accept
    <2>3. ASSUME NEW c \in Clients, NEW o \in OrderIds, SO!InsertOrder(c, o)
          PROVE  PassTypeInv'
      BY <2>3 DEF SO!InsertOrder, SO!Insert, SO!Idle, SO!Threads
    <2>4. ASSUME NEW o \in OrderIds, SO!FillOrder(o)
          PROVE  PassTypeInv'
      BY <2>4 DEF SO!FillOrder, SO!Fill
    <2>5. ASSUME NEW j \in SquareOffJobs, SO!StartPass(j)
          PROVE  PassTypeInv'
      BY <2>5 DEF SO!StartPass, SO!OpenOrders
    <2>6. ASSUME NEW j \in SquareOffJobs, SO!JobStep(j)
          PROVE  PassTypeInv'
      <3>1. SO!Ended(j) \in [step: PassSteps, orders: SUBSET OrderIds, quantity: Int]
        BY DEF SO!Ended, SO!Idle, SO!Finished
      <3>2. j \in SO!Threads
        BY DEF SO!Threads
      <3>3. ASSUME NEW o \in OrderIds, SO!CancelOrder(j, o)
            PROVE  PassTypeInv'
        <4>1. soCall[j].orders \ {o} \in SUBSET OrderIds
          BY <3>2
        <4>2. QED
          BY <3>2, <3>3, <4>1 DEF SO!CancelOrder
      <3>4. ASSUME NEW o \in OrderIds, SO!InsertClosing(j, o)
            PROVE  PassTypeInv'
        BY <3>2, <3>4 DEF SO!InsertClosing, SO!Insert
      <3>5. ASSUME NEW o \in OrderIds, SO!FillClosing(j, o)
            PROVE  PassTypeInv'
        <4>1. soPosition' \in Int /\ soBook' \in [OrderIds -> Int]
          BY <3>5 DEF SO!FillClosing, SO!Fill
        <4>2. soCall' = [soCall EXCEPT ![j] = SO!Ended(j)]
          BY <3>5 DEF SO!FillClosing
        <4>3. QED
          BY <3>1, <4>1, <4>2
      <3>6. CASE SO!ReadPosition(j)
        <4>1. [step |-> "close", orders |-> {}, quantity |-> -soPosition]
                 \in [step: PassSteps, orders: SUBSET OrderIds, quantity: Int]
          OBVIOUS
        <4>2. QED
          BY <3>1, <3>6, <4>1 DEF SO!ReadPosition
      <3>7. CASE SO!AcceptClosing(j)
        BY <3>7 DEF SO!AcceptClosing
      <3>8. CASE SO!RefuseClosing(j) \/ SO!LeaveClosing(j)
        BY <3>1, <3>8 DEF SO!RefuseClosing, SO!LeaveClosing
      <3>9. QED
        BY <2>6, <3>3, <3>4, <3>5, <3>6, <3>7, <3>8 DEF SO!JobStep
    <2>7. QED
      BY <2>1, <2>2, <2>3, <2>4, <2>5, <2>6 DEF SO!Next
  <1>3. PassTypeInv /\ UNCHANGED soVars => PassTypeInv'
    BY DEF PassTypeInv, soVars
  <1>4. [Next]_vars => SO!Next \/ UNCHANGED soVars
    BY DEF Next, vars, Settle, Expire, SquareOff, Approve, DownloadData, Host,
           Signal, Subscribe, Switch
  <1>5. QED
    BY <1>1, <1>2, <1>3, <1>4, PTL DEF Spec, Init

\* An exit that a request is allowed after the square-off needs a position, and a pass
\* that acts on one it read before finds its quantity rejected or zero.
LEMMA OverStays == PassTypeInv /\ SO!Over /\ SO!Next => SO!Over'
  <1> SUFFICES ASSUME PassTypeInv, SO!Over, SO!Next PROVE SO!Over'
    OBVIOUS
  <1> USE DEF PassTypeInv, SO!Over, SO!OpenOrders
  <1>1. CASE SO!SquareOffTime
    BY <1>1 DEF SO!SquareOffTime
  <1>2. ASSUME NEW c \in Clients, NEW q \in Quantities, SO!Accept(c, q)
        PROVE  SO!Over'
    <2>1. SO!Sign(q) = -SO!Sign(soPosition)
      BY <1>2 DEF SO!Accept, SO!Allowed
    <2>2. SO!Sign(soPosition) = 0
      BY DEF SO!Sign
    <2>3. SO!Sign(q) = 0
      BY <2>1, <2>2
    <2>4. QED
      BY <2>3, QuantitiesAssumption DEF SO!Sign
  <1>3. ASSUME NEW c \in Clients, NEW o \in OrderIds, SO!InsertOrder(c, o)
        PROVE  SO!Over'
    BY <1>3 DEF SO!InsertOrder, SO!Threads
  <1>4. ASSUME NEW o \in OrderIds, SO!FillOrder(o)
        PROVE  SO!Over'
    BY <1>4 DEF SO!FillOrder, SO!Fill
  <1>5. ASSUME NEW j \in SquareOffJobs, SO!StartPass(j)
        PROVE  SO!Over'
    BY <1>5 DEF SO!StartPass
  <1>6. ASSUME NEW j \in SquareOffJobs, SO!JobStep(j)
        PROVE  SO!Over'
    <2>1. SO!Ended(j).step # "accepted" /\ j \in SO!Threads
      BY DEF SO!Ended, SO!Idle, SO!Finished, SO!Threads
    <2>2. ASSUME NEW o \in OrderIds, SO!CancelOrder(j, o)
          PROVE  SO!Over'
      BY <2>2 DEF SO!CancelOrder
    <2>3. ASSUME NEW o \in OrderIds, SO!InsertClosing(j, o) \/ SO!FillClosing(j, o)
          PROVE  SO!Over'
      BY <2>1, <2>3 DEF SO!InsertClosing, SO!FillClosing, SO!Fill
    <2>4. CASE SO!ReadPosition(j)
      BY <2>1, <2>4 DEF SO!ReadPosition
    <2>5. CASE SO!AcceptClosing(j)
      BY <2>5 DEF SO!AcceptClosing
    <2>6. CASE SO!RefuseClosing(j) \/ SO!LeaveClosing(j)
      BY <2>1, <2>6 DEF SO!RefuseClosing, SO!LeaveClosing
    <2>7. QED
      BY <1>6, <2>2, <2>3, <2>4, <2>5, <2>6 DEF SO!JobStep
  <1>7. QED
    BY <1>1, <1>2, <1>3, <1>4, <1>5, <1>6 DEF SO!Next

\* A session that is over, without position, open order or accepted request, stays so
\* whatever the passes and the clients do (every path into the order book after the
\* square-off time checks that the order reduces a position).
THEOREM ServerStaysOver == Spec => OverStaysOver
  <1>1. PassTypeInv /\ [Next]_vars => [SO!Over => SO!Over']_(SO!vars)
    <2> SUFFICES ASSUME PassTypeInv, [Next]_vars
                 PROVE  (SO!Over => SO!Over') \/ UNCHANGED SO!vars
      OBVIOUS
    <2>1. CASE SquareOff
      BY <2>1, OverStays DEF SquareOff
    <2>2. CASE UNCHANGED soVars
      BY <2>2 DEF soVars, SO!vars
    <2>3. QED
      BY <2>1, <2>2
         DEF Next, vars, Settle, Expire, Approve, DownloadData, Host, Signal,
             Subscribe, Switch
  <1>2. QED
    BY <1>1, PassTypes, PTL DEF Spec, OverStaysOver, SO!OverStaysOver

-----------------------------------------------------------------------------
(* DownloadJobs: a completed job has every symbol *)

ItemStates == {"pending", "downloading", "success", "error"}
WorkerSteps == {"idle", "list", "check", "look", "wait", "download", "cancelled", "cleanup"}
IsRequest(x) ==
    /\ x = [step |-> x.step, job |-> x.job, status |-> x.status, failed |-> x.failed]
    /\ x.job \subseteq DownloadJobIds /\ x.failed \subseteq Items
IsWorker(x) ==
    /\ x \in [step: WorkerSteps, job: SUBSET DownloadJobIds, todo: SUBSET Items,
              event: {x.event},
              failed: BOOLEAN]
    /\ IF x.step = "idle" THEN x = DJ!Unoccupied ELSE \E j \in DownloadJobIds : x.job = {j}
    /\ x.step \in {"look", "wait", "download"} => x.todo # {}

Requesting ==
    /\ djRequest = [r \in JobRequests |-> djRequest[r]]
    /\ \A r \in JobRequests : IsRequest(djRequest[r])

DownloadType ==
    /\ djWorker = [w \in Workers |-> djWorker[w]]
    /\ \A w \in Workers : IsWorker(djWorker[w])
    /\ Requesting
    /\ djStatus = [j \in DownloadJobIds |-> djStatus[j]]
    /\ djItems \in [DownloadJobIds -> [Items -> ItemStates]]
    /\ djQueue \in Seq(DownloadJobIds)
    /\ djUpset \in [DownloadJobIds -> SUBSET {"overlap", "crossed"}]

\* What a worker has still to do: every other item is downloaded or has failed.
DoesTheRest(x, j) ==
    /\ x.step \in {"check", "look", "wait", "download"} =>
          \A i \in Items \ x.todo : djItems[j][i] = "success"
                                 \/ (djItems[j][i] = "error" /\ x.failed)
    /\ x.step \in {"list", "check", "look", "wait", "download"} => djStatus[j] # "completed"

Queued(j) == \E n \in DOMAIN djQueue : djQueue[n] = j
QueuedOnce(j) == \A m, n \in DOMAIN djQueue : djQueue[m] = j /\ djQueue[n] = j => m = n

\* A job without an overlap is in one place.
OneWorker(j) ==
    /\ Queued(j) \/ (\E w \in Workers : DJ!WorksOn(w, j)) => djStatus[j] # "none"
    /\ QueuedOnce(j)
    /\ \A v, w \in Workers : DJ!WorksOn(v, j) /\ DJ!WorksOn(w, j) => v = w
    /\ \A w \in Workers : ~(Queued(j) /\ DJ!WorksOn(w, j))

\* A job that is called completed has downloaded every item, and what works on
\* another one does the rest.
LeavesNothing(j) ==
    /\ \A w \in Workers : DJ!WorksOn(w, j) /\ DJ!Exists(j) => DoesTheRest(djWorker[w], j)
    /\ djStatus[j] = "completed" => \A i \in Items : djItems[j][i] = "success"

JobInv(j) ==
    "overlap" \notin djUpset[j] =>
       /\ OneWorker(j)
       /\ LeavesNothing(j)

\* A request is about a job that was created.
RequestsExist == \A r \in JobRequests : \A j \in djRequest[r].job : djStatus[j] # "none"

DownloadInv == DownloadType /\ RequestsExist /\ \A j \in DownloadJobIds : JobInv(j)

\* A step asks for nothing new but for the job j, and leaves the others alone.
AsksFor(j) ==
    \A r \in JobRequests : \/ djRequest'[r].job \subseteq djRequest[r].job
                           \/ djRequest'[r].job = {j} /\ djStatus'[j] # "none"
LeavesOthers(j) ==
    \A k \in DownloadJobIds \ {j} :
       djUpset'[k] = djUpset[k] /\ djStatus'[k] = djStatus[k] /\ djItems'[k] = djItems[k]
StatusOf(j) == djStatus' \in {djStatus, [djStatus EXCEPT ![j] = djStatus'[j]]}


LEMMA FirstItemIsLeft ==
    ASSUME NEW S \in SUBSET Items, S # {}
    PROVE  DJ!Min(S) \in S
  <1>1. S \in SUBSET Nat
    BY DownloadAssumption
  <1>2. PICK x \in S : \A y \in S : ~(<<y, x>> \in OpToRel(<, Nat))
    BY <1>1, WFMin, NatLessThanWellFounded
  <1>3. \A y \in S : <<y, x>> \in Nat \X Nat
    BY <1>1
  <1>4. \A y \in S : ~(y < x)
    BY <1>2, <1>3 DEF OpToRel
  <1>5. \A y \in S : x =< y
    BY <1>1, <1>4
  <1>6. QED
    BY <1>5 DEF DJ!Min

LEMMA Unoccupied ==
    /\ IsWorker(DJ!Unoccupied) /\ DJ!Unoccupied.job = {} /\ DJ!Unoccupied.step = "idle"
  BY DEF IsWorker, DJ!Unoccupied, WorkerSteps

LEMMA DownloadInit == DJ!Init => DownloadInv
  <1> SUFFICES ASSUME DJ!Init PROVE DownloadInv
    OBVIOUS
  <1>1. \A w \in Workers : djWorker[w] = DJ!Unoccupied
    BY DEF DJ!Init
  <1>2. djWorker = [w \in Workers |-> djWorker[w]]
    BY <1>1 DEF DJ!Init
  <1>3. DownloadType
    BY <1>1, <1>2, Unoccupied
       DEF DJ!Init, DownloadType, DJ!Fresh, ItemStates, DJ!NoRequest, Requesting, IsRequest
  <1>4. ASSUME NEW j \in DownloadJobIds
        PROVE  JobInv(j)
    BY <1>1, Unoccupied
       DEF DJ!Init, JobInv, LeavesNothing, OneWorker, Queued, QueuedOnce, DJ!WorksOn
  <1>5. RequestsExist
    BY DEF DJ!Init, RequestsExist, DJ!NoRequest
  <1>6. QED
    BY <1>3, <1>4, <1>5 DEF DownloadInv

\* What a job needs of a step that does not give it to anybody.
LEMMA JobKeeps ==
    ASSUME NEW j \in DownloadJobIds, JobInv(j),
           "overlap" \notin djUpset'[j] => "overlap" \notin djUpset[j],
           djStatus'[j] = "none" => djStatus[j] = "none",
           Queued(j)' => Queued(j), QueuedOnce(j) => QueuedOnce(j)',
           \A w \in Workers : DJ!WorksOn(w, j)' => DJ!WorksOn(w, j),
           JobInv(j) /\ "overlap" \notin djUpset'[j] =>
              LeavesNothing(j)'
    PROVE  JobInv(j)'
  <1> SUFFICES ASSUME "overlap" \notin djUpset'[j]
               PROVE  OneWorker(j)' /\ LeavesNothing(j)'
    BY DEF JobInv
  <1>1. OneWorker(j)
    BY DEF JobInv
  <1>2. OneWorker(j)'
    BY <1>1 DEF OneWorker
  <1>3. QED
    BY <1>2

\* A job that a step has nothing to do with.
LEMMA OtherJobKeeps ==
    ASSUME NEW j \in DownloadJobIds, JobInv(j),
           djUpset'[j] = djUpset[j], djStatus'[j] = djStatus[j], djItems'[j] = djItems[j],
           Queued(j)' => Queued(j), QueuedOnce(j) => QueuedOnce(j)',
           \A w \in Workers : DJ!WorksOn(w, j)' =>
                                 DJ!WorksOn(w, j) /\ djWorker'[w] = djWorker[w]
    PROVE  JobInv(j)'
  <1>1. JobInv(j) /\ "overlap" \notin djUpset'[j] =>
           LeavesNothing(j)'
    BY DEF JobInv, LeavesNothing, DoesTheRest, DJ!Exists
  <1>2. QED
    BY <1>1, JobKeeps

LEMMA RequestsStay ==
    ASSUME RequestsExist, DownloadType', NEW j \in DownloadJobIds,
           AsksFor(j), LeavesOthers(j), djStatus'[j] = "none" => djStatus[j] = "none"
    PROVE  RequestsExist'
  <1>1. ASSUME NEW r \in JobRequests, NEW k \in djRequest[r].job
        PROVE  djStatus[k] # "none"
    BY <1>1 DEF RequestsExist
  <1>2. ASSUME NEW r \in JobRequests, NEW k \in djRequest'[r].job
        PROVE  djStatus'[k] # "none"
    <2>1. CASE k = j
      BY <1>1, <1>2, <2>1 DEF AsksFor
    <2>2. CASE k # j /\ k \in DownloadJobIds
      BY <1>1, <1>2, <2>2 DEF AsksFor, LeavesOthers
    <2>3. QED
      BY <1>2, <2>1, <2>2 DEF DownloadType, Requesting, IsRequest
  <1>3. QED
    BY <1>2 DEF RequestsExist

\* A step that leaves the queue alone and concerns the job j.
LEMMA StepOnJob ==
    ASSUME DownloadInv, DownloadType', NEW j \in DownloadJobIds,
           djQueue' = djQueue, djUpset[j] \subseteq djUpset'[j],
           AsksFor(j),
           LeavesOthers(j),
           \A w \in Workers : /\ djWorker'[w].job \subseteq djWorker[w].job
                              /\ djWorker'[w] = djWorker[w] \/ djWorker[w].job = {j},
           djStatus'[j] = "none" => djStatus[j] = "none",
           JobInv(j) /\ "overlap" \notin djUpset'[j] =>
              LeavesNothing(j)'
    PROVE  DownloadInv'
  <1>1. \A k : (Queued(k)' => Queued(k)) /\ (QueuedOnce(k) => QueuedOnce(k)')
    BY DEF Queued, QueuedOnce
  <1>2. JobInv(j)'
    BY <1>1, JobKeeps DEF DownloadInv, DJ!WorksOn
  <1>3. ASSUME NEW k \in DownloadJobIds \ {j}
        PROVE  JobInv(k)'
    <2>1. \A w \in Workers : DJ!WorksOn(w, k)' =>
                                DJ!WorksOn(w, k) /\ djWorker'[w] = djWorker[w]
      BY DEF DJ!WorksOn
    <2>2. QED
      BY <1>1, <2>1, OtherJobKeeps DEF DownloadInv, LeavesOthers
  <1>4. RequestsExist'
    BY RequestsStay DEF DownloadInv
  <1>5. QED
    BY <1>2, <1>3, <1>4 DEF DownloadInv

\* A worker goes on with its job.
LEMMA StepOfWorker ==
    ASSUME DownloadInv, NEW w \in Workers, NEW j \in DownloadJobIds, DJ!WorksOn(w, j),
           NEW x, IsWorker(x), x.job \subseteq {j},
           djWorker' = [v \in Workers |-> IF v = w THEN x ELSE djWorker[v]],
           UNCHANGED <<djQueue, djUpset, djRequest>>,
           StatusOf(j),
           \/ djItems' = djItems
           \/ /\ djItems' \in [DownloadJobIds -> [Items -> ItemStates]]
              /\ \A k \in DownloadJobIds \ {j} : djItems'[k] = djItems[k],
           djStatus'[j] = "none" => djStatus[j] = "none",
           JobInv(j) /\ "overlap" \notin djUpset[j] =>
              /\ x.job = {j} /\ DJ!Exists(j)' => DoesTheRest(x, j)'
              /\ djStatus'[j] = "completed" => \A i \in Items : djItems'[j][i] = "success"
    PROVE  DownloadInv'
  <1>1. djWorker[w].job = {j} /\ DownloadType
    BY Unoccupied DEF DownloadInv, DownloadType, IsWorker, DJ!WorksOn
  <1>2. DownloadType'
    <2>1. djStatus' = [k \in DownloadJobIds |-> djStatus'[k]]
      BY <1>1 DEF DownloadType, StatusOf
    <2>2. djItems' \in [DownloadJobIds -> [Items -> ItemStates]]
      BY <1>1 DEF DownloadType
    <2>3. /\ djWorker' = [v \in Workers |-> djWorker'[v]]
          /\ \A v \in Workers : IsWorker(djWorker'[v])
      BY <1>1 DEF DownloadType
    <2>4. QED
      BY <1>1, <2>1, <2>2, <2>3 DEF DownloadType, Requesting
  <1>3. \A v \in Workers : /\ djWorker'[v].job \subseteq djWorker[v].job
                           /\ djWorker'[v] = djWorker[v] \/ djWorker[v].job = {j}
    BY <1>1
  <1>4. ASSUME JobInv(j), "overlap" \notin djUpset'[j]
        PROVE  LeavesNothing(j)'
    <2>1. \A v \in Workers : DJ!WorksOn(v, j) => v = w
      BY <1>4 DEF JobInv, OneWorker
    <2>2. \A v \in Workers : DJ!WorksOn(v, j)' => v = w /\ x.job = {j}
      BY <1>3, <2>1 DEF DJ!WorksOn
    <2>3. QED
      BY <1>4, <2>2 DEF LeavesNothing
  <1>5. LeavesOthers(j)
    BY <1>1 DEF DownloadType, LeavesOthers, StatusOf
  <1>6. AsksFor(j)
    BY DEF AsksFor
  <1>7. djQueue' = djQueue /\ djUpset[j] \subseteq djUpset'[j]
    OBVIOUS
  <1>8. QED
    BY <1>2, <1>3, <1>4, <1>5, <1>6, <1>7, StepOnJob

IsJobRecord(x, j) ==
    /\ x = [step |-> x.step, job |-> {j}, todo |-> x.todo, event |-> x.event,
            failed |-> x.failed]
    /\ x.todo \subseteq Items /\ x.failed \in BOOLEAN

LEMMA WorkersJob ==
    ASSUME DownloadInv, NEW w \in Workers, NEW j \in DownloadJobIds, DJ!WorksOn(w, j)
    PROVE  /\ DownloadType /\ IsWorker(djWorker[w]) /\ djWorker[w].job = {j}
           /\ IsJobRecord(djWorker[w], j) /\ JobInv(j)
           /\ "overlap" \notin djUpset[j] /\ DJ!Exists(j) => DoesTheRest(djWorker[w], j)
  <1>1. DownloadType /\ IsWorker(djWorker[w]) /\ JobInv(j)
    BY DEF DownloadInv, DownloadType
  <1>2. djWorker[w].job = {j}
    BY <1>1, Unoccupied DEF IsWorker, DJ!WorksOn
  <1>3. IsJobRecord(djWorker[w], j)
    BY <1>1, <1>2 DEF IsWorker, IsJobRecord
  <1>4. QED
    BY <1>1, <1>2, <1>3 DEF JobInv, LeavesNothing

LEMMA ListKeeps ==
    ASSUME DownloadInv, NEW w \in Workers, NEW j \in DownloadJobIds, DJ!List(w, j)
    PROVE  DownloadInv'
  <1> DEFINE old == djWorker[w]
  <1>1. PICK x : x = IF DJ!Exists(j)
                     THEN [old EXCEPT !.step = "check", !.todo = DJ!Unfinished(j),
                                      !.failed = DJ!With(j, {"error"}) # {}]
                     ELSE DJ!Unoccupied
    OBVIOUS
  <1>2. /\ DJ!WorksOn(w, j) /\ old.step = "list"
        /\ UNCHANGED <<djStatus, djItems, djQueue, djUpset, djRequest>>
    BY DEF DJ!List
  <1>0. /\ DownloadType /\ IsWorker(old) /\ old.job = {j} /\ IsJobRecord(old, j) /\ JobInv(j)
        /\ "overlap" \notin djUpset[j] /\ DJ!Exists(j) => DoesTheRest(old, j)
    BY <1>2, WorkersJob
  <1>3. djWorker' = [v \in Workers |-> IF v = w THEN x ELSE djWorker[v]]
    BY <1>1, <1>0, <1>2 DEF DJ!List, DJ!Free, DownloadType
  <1>4. DJ!Unfinished(j) \subseteq Items
    BY DEF DJ!Unfinished, DJ!With
  <1>9. PICK bad \in BOOLEAN : bad = (DJ!With(j, {"error"}) # {})
    OBVIOUS
  <1>5. DJ!Exists(j) => x = [step |-> "check", job |-> {j}, todo |-> DJ!Unfinished(j),
                             event |-> old.event, failed |-> bad]
    BY <1>0, <1>1, <1>2, <1>9 DEF IsJobRecord
  <1>6. IsWorker(x) /\ x.job \subseteq {j}
    <2>1. CASE DJ!Exists(j)
      BY <1>4, <1>5, <2>1 DEF IsWorker, WorkerSteps
    <2>2. CASE ~DJ!Exists(j)
      BY <1>1, <2>2, Unoccupied
    <2>3. QED
      BY <2>1, <2>2
  <1>7. ASSUME JobInv(j), "overlap" \notin djUpset[j]
        PROVE  /\ x.job = {j} /\ DJ!Exists(j)' => DoesTheRest(x, j)'
               /\ djStatus'[j] = "completed" => \A i \in Items : djItems'[j][i] = "success"
    <2>1. djStatus'[j] = "completed" => \A i \in Items : djItems'[j][i] = "success"
      BY <1>2, <1>7 DEF JobInv, LeavesNothing
    <2>2. ASSUME DJ!Exists(j)
          PROVE  DoesTheRest(x, j)'
      <3>1. djStatus[j] # "completed"
        BY <1>2, <1>7, <2>2, <1>0 DEF DoesTheRest
      <3>2. ASSUME NEW i \in Items \ DJ!Unfinished(j)
            PROVE  djItems[j][i] = "success"
                                 \/ (djItems[j][i] = "error" /\ x.failed)
        <4>1. djItems[j][i] \in {"success", "error"}
          BY <1>0 DEF DJ!Unfinished, DJ!With, ItemStates, DownloadType
        <4>2. djItems[j][i] = "error" => DJ!With(j, {"error"}) # {}
          BY DEF DJ!With
        <4>3. x.failed = (DJ!With(j, {"error"}) # {})
          BY <1>5, <1>9, <2>2
        <4>4. QED
          BY <4>1, <4>2, <4>3
      <3>3. x.step = "check" /\ x.todo = DJ!Unfinished(j)
        BY <1>5, <2>2
      <3>4. QED
        BY <1>2, <3>1, <3>2, <3>3 DEF DoesTheRest
    <2>3. DJ!Exists(j)' <=> DJ!Exists(j)
      BY <1>2 DEF DJ!Exists
    <2>4. QED
      BY <2>1, <2>2, <2>3
  <1>8. QED
    BY <1>2, <1>3, <1>6, <1>7, <1>0, StepOfWorker DEF StatusOf

\* Steps that leave the rows alone: the lock of the loop, and the last one.
LEMMA CheckKeeps ==
    ASSUME DownloadInv, NEW w \in Workers, NEW j \in DownloadJobIds, DJ!Check(w, j)
    PROVE  DownloadInv'
  <1> DEFINE old == djWorker[w]
  <1>1. PICK x : x = [old EXCEPT !.step = IF djEvent[j] = 0 THEN "cancelled" ELSE "look",
                                 !.event = djEvent[j]]
    OBVIOUS
  <1>2. /\ DJ!WorksOn(w, j) /\ old.step = "check" /\ old.todo # {}
        /\ UNCHANGED <<djStatus, djItems, djQueue, djUpset, djRequest>>
    BY DEF DJ!Check
  <1>0. /\ DownloadType /\ IsWorker(old) /\ old.job = {j} /\ IsJobRecord(old, j) /\ JobInv(j)
        /\ "overlap" \notin djUpset[j] /\ DJ!Exists(j) => DoesTheRest(old, j)
    BY <1>2, WorkersJob
  <1>3. djWorker' = [v \in Workers |-> IF v = w THEN x ELSE djWorker[v]]
    BY <1>1, <1>0, <1>2 DEF DJ!Check, DownloadType
  <1>4. /\ x = [step |-> x.step, job |-> {j}, todo |-> old.todo, event |-> x.event,
                failed |-> old.failed]
        /\ x.step \in {"look", "cancelled"} /\ x.todo = old.todo /\ x.failed = old.failed
        /\ x.job = {j}
    BY <1>1, <1>0, <1>2 DEF IsJobRecord
  <1>5. IsWorker(x)
    BY <1>2, <1>4, <1>0 DEF IsWorker, WorkerSteps
  <1>6. JobInv(j) /\ "overlap" \notin djUpset[j] =>
           /\ x.job = {j} /\ DJ!Exists(j)' => DoesTheRest(x, j)'
           /\ djStatus'[j] = "completed" => \A i \in Items : djItems'[j][i] = "success"
    BY <1>2, <1>4, <1>0 DEF JobInv, LeavesNothing, DoesTheRest, DJ!Exists
  <1>7. QED
    BY <1>2, <1>3, <1>4, <1>5, <1>6, <1>0, StepOfWorker DEF StatusOf

LEMMA CleanupKeeps ==
    ASSUME DownloadInv, NEW w \in Workers, NEW j \in DownloadJobIds, DJ!Cleanup(w, j)
    PROVE  DownloadInv'
  <1>1. /\ DJ!WorksOn(w, j) /\ UNCHANGED <<djStatus, djItems, djQueue, djUpset, djRequest>>
    BY DEF DJ!Cleanup
  <1>2. djWorker' = [v \in Workers |-> IF v = w THEN DJ!Unoccupied ELSE djWorker[v]]
    BY <1>1, WorkersJob DEF DJ!Cleanup, DJ!Free, DownloadType
  <1>3. JobInv(j) /\ "overlap" \notin djUpset[j] =>
           /\ DJ!Unoccupied.job # {j}
           /\ djStatus'[j] = "completed" => \A i \in Items : djItems'[j][i] = "success"
    BY <1>1, Unoccupied DEF JobInv, LeavesNothing
  <1>4. PICK x : x = DJ!Unoccupied
    OBVIOUS
  <1>5. QED
    BY <1>1, <1>2, <1>3, <1>4, Unoccupied, WorkersJob, StepOfWorker DEF StatusOf

\* The next item is taken up, or the job was found cancelled.
LEMMA ItemStarts ==
    ASSUME DownloadInv, NEW w \in Workers, NEW j \in DownloadJobIds, DJ!WorksOn(w, j),
           NEW step \in {"wait", "download", "cancelled"},
           djWorker[w].step \in {"look", "wait"}, DJ!Goto(w, step),
           UNCHANGED <<djStatus, djQueue, djUpset, djRequest>>,
           djItems' = djItems \/ DJ!Download(w, j)
    PROVE  DownloadInv'
  <1> DEFINE old == djWorker[w]
  <1>1. PICK x : x = [old EXCEPT !.step = step]
    OBVIOUS
  <1>0. /\ DownloadType /\ IsWorker(old) /\ old.job = {j} /\ IsJobRecord(old, j) /\ JobInv(j)
        /\ "overlap" \notin djUpset[j] /\ DJ!Exists(j) => DoesTheRest(old, j)
    BY WorkersJob
  <1>2. djWorker' = [v \in Workers |-> IF v = w THEN x ELSE djWorker[v]]
    BY <1>1, <1>0 DEF DJ!Goto, DownloadType
  <1>3. /\ x = [step |-> step, job |-> {j}, todo |-> old.todo, event |-> old.event,
                failed |-> old.failed]
        /\ old.todo # {} /\ x.event = old.event
    BY <1>1, <1>0 DEF IsWorker, IsJobRecord
  <1>4. IsWorker(x) /\ x.job = {j}
    BY <1>3, <1>0 DEF IsWorker, WorkerSteps
  <1>5. PICK i \in old.todo : \/ djItems' = djItems
                              \/ djItems' = [djItems EXCEPT ![j][i] = "downloading"]
    <2>1. DJ!Min(old.todo) \in old.todo
      BY <1>0, <1>3, FirstItemIsLeft DEF IsJobRecord
    <2>2. QED
      BY <2>1 DEF DJ!Download
  <1>6. i \in Items
    BY <1>0 DEF IsJobRecord
  <1>7. /\ djItems' \in [DownloadJobIds -> [Items -> ItemStates]]
        /\ \A k \in DownloadJobIds \ {j} : djItems'[k] = djItems[k]
        /\ \A k \in Items \ {i} : djItems'[j][k] = djItems[j][k]
    <2>1. djItems \in [DownloadJobIds -> [Items -> ItemStates]]
      BY <1>0 DEF DownloadType
    <2>2. CASE djItems' = djItems
      BY <2>1, <2>2
    <2>3. CASE djItems' = [djItems EXCEPT ![j][i] = "downloading"]
      BY <1>6, <2>1, <2>3 DEF ItemStates
    <2>4. QED
      BY <1>5, <2>2, <2>3
  <1>8. ASSUME JobInv(j), "overlap" \notin djUpset[j]
        PROVE  /\ x.job = {j} /\ DJ!Exists(j)' => DoesTheRest(x, j)'
               /\ djStatus'[j] = "completed" => \A k \in Items : djItems'[j][k] = "success"
    <2>1. DJ!Exists(j) => DoesTheRest(old, j)
      BY <1>8, <1>0
    <2>2. DJ!Exists(j)' <=> DJ!Exists(j)
      BY DEF DJ!Exists
    <2>3. DJ!Exists(j) => DoesTheRest(x, j)'
      BY <1>3, <1>5, <1>7, <2>1 DEF DoesTheRest
    <2>4. djStatus[j] # "completed"
      BY <2>1 DEF DoesTheRest, DJ!Exists
    <2>5. QED
      BY <2>2, <2>3, <2>4
  <1>9. QED
    BY <1>2, <1>4, <1>7, <1>8, <1>0, StepOfWorker DEF StatusOf

LEMMA LookKeeps ==
    ASSUME DownloadInv, NEW w \in Workers, NEW j \in DownloadJobIds,
           DJ!Look(w, j) \/ DJ!Wait(w, j)
    PROVE  DownloadInv'
  <1>1. /\ DJ!WorksOn(w, j) /\ djWorker[w].step \in {"look", "wait"}
        /\ UNCHANGED <<djStatus, djQueue, djUpset, djRequest>>
        /\ \/ DJ!Goto(w, "wait") /\ djItems' = djItems
           \/ DJ!Goto(w, "cancelled") /\ djItems' = djItems
           \/ DJ!Download(w, j)
    BY DEF DJ!Look, DJ!Wait
  <1>2. DJ!Download(w, j) => DJ!Goto(w, "download")
    BY DEF DJ!Download
  <1>3. QED
    BY <1>1, <1>2, ItemStarts

LEMMA DownloadedKeeps ==
    ASSUME DownloadInv, NEW w \in Workers, NEW j \in DownloadJobIds,
           NEW result \in {"success", "error"}, DJ!Downloaded(w, j, result)
    PROVE  DownloadInv'
  <1> DEFINE old == djWorker[w]
             i == DJ!Min(old.todo)
  <1>1. PICK x : x = [old EXCEPT !.step = "check", !.todo = @ \ {i},
                                 !.failed = @ \/ result = "error"]
    OBVIOUS
  <1>2. /\ DJ!WorksOn(w, j) /\ old.step = "download"
        /\ UNCHANGED <<djStatus, djQueue, djUpset, djRequest>>
        /\ djItems' = IF DJ!Exists(j) THEN [djItems EXCEPT ![j][i] = result] ELSE djItems
    BY DEF DJ!Downloaded
  <1>0. /\ DownloadType /\ IsWorker(old) /\ old.job = {j} /\ IsJobRecord(old, j) /\ JobInv(j)
        /\ "overlap" \notin djUpset[j] /\ DJ!Exists(j) => DoesTheRest(old, j)
    BY <1>2, WorkersJob
  <1>3. djWorker' = [v \in Workers |-> IF v = w THEN x ELSE djWorker[v]]
    BY <1>1, <1>0, <1>2 DEF DJ!Downloaded, DownloadType
  <1>4. i \in old.todo /\ i \in Items
    BY <1>0, <1>2, FirstItemIsLeft DEF IsWorker
  <1> HIDE DEF i
  <1>5. x = [step |-> "check", job |-> {j}, todo |-> old.todo \ {i}, event |-> old.event,
             failed |-> (old.failed \/ result = "error")]
    BY <1>1, <1>0, <1>2 DEF IsJobRecord
  <1>6. IsWorker(x) /\ x.job = {j} /\ x.todo = old.todo \ {i} /\ x.step = "check"
    BY <1>2, <1>5, <1>0 DEF IsWorker, WorkerSteps
  <1>7. x.failed <=> old.failed \/ result = "error"
    BY <1>5
  <1>8. /\ djItems' \in [DownloadJobIds -> [Items -> ItemStates]]
        /\ \A k \in DownloadJobIds \ {j} : djItems'[k] = djItems[k]
        /\ \A k \in Items \ {i} : djItems'[j][k] = djItems[j][k]
        /\ DJ!Exists(j) => djItems'[j][i] = result
    BY <1>0, <1>2, <1>4 DEF ItemStates, DownloadType
  <1>9. ASSUME JobInv(j), "overlap" \notin djUpset[j]
        PROVE  /\ x.job = {j} /\ DJ!Exists(j)' => DoesTheRest(x, j)'
               /\ djStatus'[j] = "completed" => \A k \in Items : djItems'[j][k] = "success"
    <2>1. DJ!Exists(j) => DoesTheRest(old, j)
      BY <1>2, <1>9, <1>0
    <2>2. DJ!Exists(j)' <=> DJ!Exists(j)
      BY <1>2 DEF DJ!Exists
    <2>3. ASSUME DJ!Exists(j)
          PROVE  DoesTheRest(x, j)'
      BY <1>2, <1>6, <1>7, <1>8, <2>1, <2>3 DEF DoesTheRest
    <2>4. djStatus[j] # "completed"
      BY <1>2, <2>1 DEF DoesTheRest, DJ!Exists
    <2>5. QED
      BY <1>2, <2>2, <2>3, <2>4
  <1>10. QED
    BY <1>2, <1>3, <1>6, <1>8, <1>9, <1>0, StepOfWorker DEF StatusOf

\* A job is called completed when nothing is left to do and nothing has failed.
LEMMA FinishKeeps ==
    ASSUME DownloadInv, NEW w \in Workers, NEW j \in DownloadJobIds, DJ!Finish(w, j)
    PROVE  DownloadInv'
  <1> DEFINE old == djWorker[w]
  <1>1. PICK x : x = [old EXCEPT !.step = "cleanup"]
    OBVIOUS
  <1>2. DJ!WorksOn(w, j) /\ UNCHANGED <<djItems, djQueue, djUpset, djRequest>>
    BY DEF DJ!Finish
  <1>0. /\ DownloadType /\ IsWorker(old) /\ old.job = {j} /\ IsJobRecord(old, j) /\ JobInv(j)
        /\ "overlap" \notin djUpset[j] /\ DJ!Exists(j) => DoesTheRest(old, j)
    BY <1>2, WorkersJob
  <1>3. djWorker' = [v \in Workers |-> IF v = w THEN x ELSE djWorker[v]]
    BY <1>1, <1>0, <1>2 DEF DJ!Finish, DJ!Goto, DownloadType
  <1>4. x = [step |-> "cleanup", job |-> {j}, todo |-> old.todo, event |-> old.event,
             failed |-> old.failed]
    BY <1>1, <1>0, <1>2 DEF IsJobRecord
  <1>5. IsWorker(x) /\ x.job = {j} /\ x.step = "cleanup"
    BY <1>2, <1>4, <1>0 DEF IsWorker, WorkerSteps
  <1>6. PICK s \in {"completed", "completed_with_errors", "cancelled"} :
           /\ DJ!SetStatus(j, s)
           /\ s = "completed" => old.step = "check" /\ old.todo = {} /\ ~old.failed
    BY DEF DJ!Finish
  <1>7. /\ StatusOf(j)
        /\ djStatus'[j] = IF DJ!Exists(j) THEN s ELSE djStatus[j]
    BY <1>0, <1>6 DEF DJ!SetStatus, DownloadType, StatusOf
  <1>8. ASSUME JobInv(j), "overlap" \notin djUpset[j]
        PROVE  /\ x.job = {j} /\ DJ!Exists(j)' => DoesTheRest(x, j)'
               /\ djStatus'[j] = "completed" => \A i \in Items : djItems'[j][i] = "success"
    <2>1. DoesTheRest(x, j)'
      BY <1>5 DEF DoesTheRest
    <2>2. ASSUME djStatus'[j] = "completed"
          PROVE  \A i \in Items : djItems'[j][i] = "success"
      <3>1. DJ!Exists(j) /\ old.step = "check" /\ old.todo = {} /\ ~old.failed
        BY <1>6, <1>7, <2>2 DEF DJ!Exists
      <3>2. DoesTheRest(old, j)
        BY <1>2, <1>8, <3>1, <1>0
      <3>3. QED
        BY <1>2, <3>1, <3>2 DEF DoesTheRest
    <2>3. QED
      BY <2>1, <2>2
  <1>9. QED
    BY <1>2, <1>3, <1>5, <1>6, <1>7, <1>8, <1>0, StepOfWorker DEF DJ!Exists

\* A request leaves the workers and the queue alone.
LEMMA StepOfRequest ==
    ASSUME DownloadInv, NEW j \in DownloadJobIds, UNCHANGED <<djQueue, djWorker>>,
           Requesting',
           AsksFor(j),
           StatusOf(j),
           djStatus'[j] \in {"completed", "none"} => djStatus'[j] = djStatus[j],
           DJ!Exists(j)' => DJ!Exists(j),
           djUpset' = djUpset
              \/ \E c \in {"overlap", "crossed"} : djUpset' = [djUpset EXCEPT ![j] = @ \cup {c}],
           \/ djItems' = djItems
           \/ /\ djItems' \in [DownloadJobIds -> [Items -> ItemStates]]
              /\ \A k \in DownloadJobIds \ {j} : djItems'[k] = djItems[k]
              /\ "overlap" \notin djUpset'[j] => djStatus'[j] # "completed"
              /\ "overlap" \notin djUpset'[j] /\ DJ!Exists(j)' =>
                    \A w \in Workers : ~DJ!WorksOn(w, j)
    PROVE  DownloadInv'
  <1>1. DownloadType /\ JobInv(j)
    BY DEF DownloadInv
  <1>2. DownloadType'
    <2>1. djStatus' = [k \in DownloadJobIds |-> djStatus'[k]]
      BY <1>1 DEF DownloadType, StatusOf
    <2>2. djItems' \in [DownloadJobIds -> [Items -> ItemStates]]
      BY <1>1 DEF DownloadType
    <2>3. djUpset' \in [DownloadJobIds -> SUBSET {"overlap", "crossed"}]
      <3>1. CASE djUpset' = djUpset
        BY <1>1, <3>1 DEF DownloadType
      <3>2. ASSUME NEW c \in {"overlap", "crossed"}, djUpset' = [djUpset EXCEPT ![j] = @ \cup {c}]
            PROVE  djUpset' \in [DownloadJobIds -> SUBSET {"overlap", "crossed"}]
        <4>1. djUpset \in [DownloadJobIds -> SUBSET {"overlap", "crossed"}]
          BY <1>1 DEF DownloadType
        <4>2. djUpset[j] \cup {c} \in SUBSET {"overlap", "crossed"}
          BY <4>1
        <4>3. QED
          BY <4>1, <4>2, <3>2
      <3>3. QED
        BY <3>1, <3>2
    <2>4. QED
      BY <1>1, <2>1, <2>2, <2>3 DEF DownloadType
  <1>3. /\ djUpset[j] \subseteq djUpset'[j]
        /\ LeavesOthers(j)
    BY <1>1 DEF DownloadType, LeavesOthers, StatusOf
  <1>4. \A w \in Workers : djWorker'[w].job \subseteq djWorker[w].job /\ djWorker'[w] = djWorker[w]
    OBVIOUS
  <1>5. ASSUME "overlap" \notin djUpset'[j]
        PROVE  LeavesNothing(j)'
    <2>1. "overlap" \notin djUpset[j]
      BY <1>3, <1>5
    <2>2. ASSUME NEW w \in Workers, DJ!WorksOn(w, j)', DJ!Exists(j)'
          PROVE  DoesTheRest(djWorker[w], j)'
      <3>1. DJ!WorksOn(w, j) /\ djItems' = djItems
        BY <1>5, <2>2 DEF DJ!WorksOn
      <3>2. DoesTheRest(djWorker[w], j)
        BY <1>1, <2>1, <2>2, <3>1 DEF JobInv, LeavesNothing
      <3>3. QED
        BY <3>1, <3>2 DEF DoesTheRest
    <2>3. djStatus'[j] = "completed" => \A i \in Items : djItems'[j][i] = "success"
      BY <1>1, <1>5, <2>1 DEF JobInv, LeavesNothing
    <2>4. QED
      BY <2>2, <2>3 DEF LeavesNothing
  <1>6. QED
    BY <1>2, <1>3, <1>4, <1>5, StepOnJob

LEMMA RequestType ==
    ASSUME DownloadInv, NEW r \in JobRequests
    PROVE  /\ Requesting
           /\ djStatus = [k \in DownloadJobIds |-> djStatus[k]]
           /\ djUpset \in [DownloadJobIds -> SUBSET {"overlap", "crossed"}]
           /\ djItems \in [DownloadJobIds -> [Items -> ItemStates]]
           /\ \A k \in djRequest[r].job : djStatus[k] # "none"
  BY DEF DownloadInv, DownloadType, RequestsExist

LEMMA AskKeeps ==
    ASSUME DownloadInv, NEW r \in JobRequests, NEW j \in DownloadJobIds, NEW step,
           DJ!Ask(r, j, step)
    PROVE  DownloadInv'
  <1>1. /\ UNCHANGED <<djStatus, djItems, djQueue, djWorker, djUpset>>
        /\ djStatus[j] # "none"
        /\ djRequest' = [djRequest EXCEPT ![r] = [step |-> step, job |-> {j},
                                                  status |-> djStatus[j],
                                                  failed |-> DJ!With(j, {"error"})]]
    BY DEF DJ!Ask, DJ!Exists
  <1>2. /\ Requesting'
        /\ AsksFor(j)
    <2>1. DJ!With(j, {"error"}) \subseteq Items
      BY DEF DJ!With
    <2>2. QED
      BY <1>1, <2>1, RequestType DEF Requesting, IsRequest, AsksFor
  <1>3. DJ!Exists(j)' => DJ!Exists(j)
    BY <1>1 DEF DJ!Exists
  <1>4. QED
    BY <1>1, <1>2, <1>3, StepOfRequest DEF StatusOf

\* A request that has had its answer, or goes on to its second step.
LEMMA RequestGoesOn ==
    ASSUME DownloadInv, NEW r \in JobRequests, NEW j \in DownloadJobIds,
           NEW step \in {"signal", "submit"},
           DJ!Answer(r) \/ djRequest' = [djRequest EXCEPT ![r].step = step]
              \/ djRequest' = djRequest
    PROVE  /\ Requesting'
           /\ AsksFor(j)
  <1>1. CASE DJ!Answer(r)
    BY <1>1, RequestType DEF DJ!Answer, DJ!NoRequest, Requesting, IsRequest, AsksFor
  <1>2. CASE djRequest' = [djRequest EXCEPT ![r].step = step]
    <2>1. Requesting
      BY RequestType
    <2>2. PICK x : x = [djRequest[r] EXCEPT !.step = step]
      OBVIOUS
    <2>3. x = [step |-> step, job |-> djRequest[r].job, status |-> djRequest[r].status,
               failed |-> djRequest[r].failed]
      BY <2>1, <2>2 DEF Requesting, IsRequest
    <2>4. IsRequest(x) /\ x.job = djRequest[r].job
      BY <2>1, <2>3 DEF Requesting, IsRequest
    <2>5. djRequest' = [q \in JobRequests |-> IF q = r THEN x ELSE djRequest[q]]
      BY <1>2, <2>1, <2>2 DEF Requesting
    <2>6. QED
      BY <2>1, <2>4, <2>5 DEF Requesting, AsksFor
  <1>3. CASE djRequest' = djRequest
    BY <1>3, RequestType DEF Requesting, AsksFor
  <1>4. QED
    BY <1>1, <1>2, <1>3

\* pause_job, resume_job and cancel_job write a status of an existing job.
LEMMA StatusWritten ==
    ASSUME DownloadInv, NEW r \in JobRequests, NEW j \in DownloadJobIds,
           NEW step \in {"signal", "submit"},
           DJ!Answer(r) \/ djRequest' = [djRequest EXCEPT ![r].step = step]
              \/ djRequest' = djRequest,
           UNCHANGED <<djQueue, djWorker, djItems>>,
           djStatus' = djStatus
              \/ \E s \in {"paused", "running", "cancelled"} : DJ!SetStatus(j, s),
           djUpset' = djUpset
              \/ \E c \in {"overlap", "crossed"} : djUpset' = [djUpset EXCEPT ![j] = @ \cup {c}]
    PROVE  DownloadInv'
  <1>1. /\ Requesting'
        /\ AsksFor(j)
    BY RequestGoesOn
  <1>2. /\ StatusOf(j)
        /\ djStatus'[j] \in {"completed", "none"} => djStatus'[j] = djStatus[j]
        /\ DJ!Exists(j)' => DJ!Exists(j)
    BY RequestType DEF DJ!SetStatus, DJ!Exists, StatusOf
  <1>3. QED
    BY <1>1, <1>2, StepOfRequest

LEMMA PauseKeeps ==
    ASSUME DownloadInv, NEW r \in JobRequests, NEW j \in DownloadJobIds,
           DJ!Pause(r, j) \/ DJ!Resume(r, j) \/ DJ!Cancel(r, j) \/ DJ!Signal(r, j)
    PROVE  DownloadInv'
  <1>1. UNCHANGED <<djQueue, djWorker, djItems>>
    BY DEF DJ!Pause, DJ!Resume, DJ!Cancel, DJ!Signal
  <1>2. DJ!Answer(r) \/ djRequest' = [djRequest EXCEPT ![r].step = "signal"]
           \/ djRequest' = djRequest
    BY DEF DJ!Pause, DJ!Resume, DJ!Cancel, DJ!Signal
  <1>3. djStatus' = djStatus
           \/ \E s \in {"paused", "running", "cancelled"} : DJ!SetStatus(j, s)
    BY DEF DJ!Pause, DJ!Resume, DJ!Cancel, DJ!Signal
  <1>4. djUpset' = djUpset
           \/ \E c \in {"overlap", "crossed"} : djUpset' = [djUpset EXCEPT ![j] = @ \cup {c}]
    BY DEF DJ!Pause, DJ!Resume, DJ!Cancel, DJ!Signal, DJ!Outdated, DJ!Upset
  <1>5. QED
    BY <1>1, <1>2, <1>3, <1>4, StatusWritten

\* A job that is deleted has nothing to download any more.
LEMMA DeleteKeeps ==
    ASSUME DownloadInv, NEW r \in JobRequests, NEW j \in DownloadJobIds, DJ!Delete(r, j)
    PROVE  DownloadInv'
  <1>1. /\ UNCHANGED <<djQueue, djWorker, djUpset>> /\ DJ!Answer(r)
        /\ djStatus' = [djStatus EXCEPT ![j] = "deleted"]
        /\ djItems' = [djItems EXCEPT ![j] = DJ!Fresh] /\ j \in djRequest[r].job
    BY DEF DJ!Delete, DJ!Asked
  <1>2. /\ Requesting'
        /\ AsksFor(j)
    BY <1>1, RequestGoesOn
  <1>3. /\ djStatus' = [djStatus EXCEPT ![j] = djStatus'[j]]
        /\ djStatus'[j] = "deleted" /\ ~DJ!Exists(j)'
    BY <1>1, RequestType DEF DJ!Exists
  <1>4. /\ djItems' \in [DownloadJobIds -> [Items -> ItemStates]]
        /\ \A k \in DownloadJobIds \ {j} : djItems'[k] = djItems[k]
    <2>1. DJ!Fresh \in [Items -> ItemStates]
      BY DEF DJ!Fresh, ItemStates
    <2>2. QED
      BY <1>1, <2>1, RequestType
  <1>5. QED
    BY <1>1, <1>2, <1>3, <1>4, StepOfRequest DEF StatusOf

\* A retry touches the items of a job that nobody works on and that is not
\* completed, or marks the overlap.
LEMMA ResetItemKeeps ==
    ASSUME DownloadInv, NEW r \in JobRequests, NEW j \in DownloadJobIds, DJ!ResetItem(r, j)
    PROVE  DownloadInv'
  <1>1. PICK i : i = DJ!Min(djRequest[r].failed)
    OBVIOUS
  <1>2. /\ UNCHANGED <<djStatus, djQueue, djWorker>> /\ j \in djRequest[r].job
        /\ djRequest[r].failed # {}
        /\ djItems' = IF DJ!Exists(j) THEN [djItems EXCEPT ![j][i] = "pending"] ELSE djItems
        /\ djRequest' = [djRequest EXCEPT ![r].failed = @ \ {i}]
        /\ DJ!Upset(j, "overlap", DJ!Underway(j) \/ djStatus[j] = "completed")
    BY <1>1 DEF DJ!ResetItem, DJ!Asked
  <1>3. Requesting
    BY RequestType
  <1>4. djRequest[r].failed \subseteq Items
    BY <1>3 DEF Requesting, IsRequest
  <1>5. i \in Items
    BY <1>1, <1>2, <1>4, FirstItemIsLeft
  <1>6. Requesting' /\ AsksFor(j)
    <2>1. PICK old : old = djRequest[r]
      OBVIOUS
    <2>2. PICK x : x = [old EXCEPT !.failed = @ \ {i}]
      OBVIOUS
    <2>3. IsRequest(old)
      BY <1>3, <2>1 DEF Requesting
    <2>4. x = [step |-> old.step, job |-> old.job, status |-> old.status,
               failed |-> old.failed \ {i}]
      BY <2>2, <2>3 DEF IsRequest
    <2>5. x.step = old.step /\ x.job = old.job /\ x.status = old.status
          /\ x.failed = old.failed \ {i}
      BY <2>4
    <2>6. IsRequest(x) /\ x.job = djRequest[r].job
      BY <2>1, <2>3, <2>4, <2>5 DEF IsRequest
    <2>7. djRequest' = [q \in JobRequests |-> IF q = r THEN x ELSE djRequest[q]]
      BY <1>2, <1>3, <2>1, <2>2 DEF Requesting
    <2>8. QED
      BY <1>3, <2>6, <2>7 DEF Requesting, AsksFor
  <1>7. StatusOf(j) /\ (DJ!Exists(j)' => DJ!Exists(j))
    BY <1>2 DEF StatusOf, DJ!Exists
  <1>8. djUpset' = djUpset
           \/ \E c \in {"overlap", "crossed"} : djUpset' = [djUpset EXCEPT ![j] = @ \cup {c}]
    BY <1>2 DEF DJ!Upset
  <1>9. "overlap" \notin djUpset'[j] =>
           djStatus'[j] # "completed" /\ \A w \in Workers : ~DJ!WorksOn(w, j)
    BY <1>2, RequestType DEF DJ!Upset, DJ!Underway
  <1>10. \/ djItems' = djItems
         \/ /\ djItems' \in [DownloadJobIds -> [Items -> ItemStates]]
            /\ \A k \in DownloadJobIds \ {j} : djItems'[k] = djItems[k]
    <2>1. CASE djItems' = [djItems EXCEPT ![j][i] = "pending"]
      <3>1. [djItems[j] EXCEPT ![i] = "pending"] \in [Items -> ItemStates]
        BY <1>5, RequestType DEF ItemStates
      <3>2. djItems' = [djItems EXCEPT ![j] = [djItems[j] EXCEPT ![i] = "pending"]]
        BY <2>1
      <3>3. QED
        BY <3>1, <3>2, RequestType
    <2>2. QED
      BY <1>2, <2>1
  <1>11. QED
    BY <1>2, <1>6, <1>7, <1>8, <1>9, <1>10, StepOfRequest

LEMMA RetryKeeps ==
    ASSUME DownloadInv, NEW r \in JobRequests, NEW j \in DownloadJobIds, DJ!Retry(r, j)
    PROVE  DownloadInv'
  <1>1. /\ UNCHANGED <<djItems, djQueue, djWorker>>
        /\ djRequest' = [djRequest EXCEPT ![r].step = "submit"]
        /\ DJ!SetStatus(j, "pending")
        /\ DJ!Upset(j, "overlap", DJ!Underway(j))
    BY DEF DJ!Retry
  <1>2. /\ Requesting'
        /\ AsksFor(j)
    BY <1>1, RequestGoesOn
  <1>3. /\ StatusOf(j)
        /\ djStatus'[j] \in {"completed", "none"} => djStatus'[j] = djStatus[j]
        /\ (DJ!Exists(j)' => DJ!Exists(j))
    BY <1>1, RequestType DEF DJ!SetStatus, DJ!Exists, StatusOf
  <1>4. djUpset' = djUpset
           \/ \E c \in {"overlap", "crossed"} : djUpset' = [djUpset EXCEPT ![j] = @ \cup {c}]
    BY <1>1 DEF DJ!Upset
  <1>5. QED
    BY <1>1, <1>2, <1>3, <1>4, StepOfRequest

\* What the queue of the pool does to a job at its end and at its head.
LEMMA QueueGrows ==
    ASSUME djQueue \in Seq(DownloadJobIds), NEW j \in DownloadJobIds, NEW k \in DownloadJobIds,
           djQueue' = Append(djQueue, j)
    PROVE  /\ djQueue' \in Seq(DownloadJobIds)
           /\ k # j => (Queued(k)' => Queued(k)) /\ (QueuedOnce(k) => QueuedOnce(k)')
           /\ ~Queued(j) => QueuedOnce(j)'
  <1>1. /\ DOMAIN djQueue' = 1 .. (Len(djQueue) + 1) /\ DOMAIN djQueue = 1 .. Len(djQueue)
        /\ Len(djQueue) \in Nat
        /\ \A n \in DOMAIN djQueue : djQueue'[n] = djQueue[n]
        /\ djQueue'[Len(djQueue) + 1] = j /\ djQueue' \in Seq(DownloadJobIds)
    OBVIOUS
  <1>2. \A n \in DOMAIN djQueue' : n \in DOMAIN djQueue \/ n = Len(djQueue) + 1
    BY <1>1
  <1>3. QED
    BY <1>1, <1>2 DEF Queued, QueuedOnce

LEMMA QueueShrinks ==
    ASSUME djQueue \in Seq(DownloadJobIds), djQueue # <<>>, NEW k \in DownloadJobIds,
           djQueue' = Tail(djQueue)
    PROVE  /\ djQueue' \in Seq(DownloadJobIds) /\ Head(djQueue) \in DownloadJobIds
           /\ Queued(Head(djQueue))
           /\ (Queued(k)' => Queued(k)) /\ (QueuedOnce(k) => QueuedOnce(k)')
           /\ k = Head(djQueue) /\ QueuedOnce(k) => ~Queued(k)'
  <1>1. /\ \A n \in DOMAIN djQueue' : n \in Nat \ {0} /\ n + 1 \in DOMAIN djQueue
                                        /\ djQueue'[n] = djQueue[n + 1]
        /\ djQueue' \in Seq(DownloadJobIds) /\ 1 \in DOMAIN djQueue
        /\ Head(djQueue) = djQueue[1] /\ Head(djQueue) \in DownloadJobIds
    OBVIOUS
  <1>2. Queued(Head(djQueue)) /\ (Queued(k)' => Queued(k))
    BY <1>1 DEF Queued
  <1>3. ASSUME QueuedOnce(k), NEW m \in DOMAIN djQueue', NEW n \in DOMAIN djQueue',
               djQueue'[m] = k, djQueue'[n] = k
        PROVE  m = n
    <2>1. djQueue[m + 1] = k /\ djQueue[n + 1] = k
      BY <1>1, <1>3
    <2>2. m + 1 = n + 1
      BY <1>1, <1>3, <2>1 DEF QueuedOnce
    <2>3. QED
      BY <1>1, <2>2
  <1>4. ASSUME k = Head(djQueue), QueuedOnce(k), Queued(k)'
        PROVE  FALSE
    <2>1. PICK n \in DOMAIN djQueue' : djQueue'[n] = k
      BY <1>4 DEF Queued
    <2>2. n + 1 = 1
      BY <1>1, <1>4, <2>1 DEF QueuedOnce
    <2>3. QED
      BY <1>1, <2>1, <2>2
  <1>5. QED
    BY <1>1, <1>2, <1>3, <1>4 DEF QueuedOnce

\* A job that is submitted to the pool is in no other place, or it overlaps.
LEMMA JobSubmitted ==
    ASSUME DownloadInv, NEW j \in DownloadJobIds,
           djQueue' = Append(djQueue, j), UNCHANGED <<djWorker, djItems>>,
           "overlap" \notin djUpset'[j] =>
              /\ "overlap" \notin djUpset[j] /\ ~Queued(j)
              /\ \A w \in Workers : ~DJ!WorksOn(w, j),
           djStatus'[j] # "none", djStatus'[j] = "completed" => djStatus[j] = "completed",
           LeavesOthers(j), Requesting', AsksFor(j),
           djStatus' = [k \in DownloadJobIds |-> djStatus'[k]],
           djUpset' \in [DownloadJobIds -> SUBSET {"overlap", "crossed"}]
    PROVE  DownloadInv'
  <1>1. DownloadType /\ djQueue \in Seq(DownloadJobIds) /\ JobInv(j)
    BY DEF DownloadInv, DownloadType
  <1>2. \A k \in DownloadJobIds :
           /\ djQueue' \in Seq(DownloadJobIds)
           /\ k # j => (Queued(k)' => Queued(k)) /\ (QueuedOnce(k) => QueuedOnce(k)')
           /\ ~Queued(j) => QueuedOnce(j)'
    BY <1>1, QueueGrows
  <1>3. DownloadType'
    BY <1>1, <1>2 DEF DownloadType
  <1>4. \A w \in Workers : \A k : DJ!WorksOn(w, k)' <=> DJ!WorksOn(w, k)
    BY DEF DJ!WorksOn
  <1>5. ASSUME "overlap" \notin djUpset'[j]
        PROVE  OneWorker(j)' /\ LeavesNothing(j)'
    <2>1. OneWorker(j)'
      BY <1>2, <1>4, <1>5 DEF OneWorker
    <2>2. djStatus[j] = "completed" => \A i \in Items : djItems[j][i] = "success"
      BY <1>1, <1>5 DEF JobInv, LeavesNothing
    <2>3. QED
      BY <1>4, <1>5, <2>1, <2>2 DEF LeavesNothing
  <1>6. ASSUME NEW k \in DownloadJobIds, k # j
        PROVE  JobInv(k)'
    <2>1. \A w \in Workers : DJ!WorksOn(w, k)' =>
                                DJ!WorksOn(w, k) /\ djWorker'[w] = djWorker[w]
      BY <1>4
    <2>2. QED
      BY <1>2, <1>6, <2>1, OtherJobKeeps DEF DownloadInv, LeavesOthers
  <1>7. RequestsExist'
    BY <1>3, RequestsStay DEF DownloadInv
  <1>8. QED
    BY <1>3, <1>5, <1>6, <1>7 DEF DownloadInv, JobInv

\* create_and_start_job: nobody knows a job before it is created.
LEMMA CreateKeeps ==
    ASSUME DownloadInv, NEW j \in DownloadJobIds, DJ!Create(j)
    PROVE  DownloadInv'
  <1>1. /\ djStatus[j] = "none" /\ djStatus' = [djStatus EXCEPT ![j] = "pending"]
        /\ djQueue' = Append(djQueue, j)
        /\ UNCHANGED <<djItems, djWorker, djRequest, djUpset>>
    BY DEF DJ!Create, DJ!SetGoing
  <1>2. DownloadType /\ JobInv(j)
    BY DEF DownloadInv
  <1>3. /\ djStatus'[j] = "pending" /\ LeavesOthers(j)
        /\ djStatus' = [k \in DownloadJobIds |-> djStatus'[k]]
        /\ djUpset' \in [DownloadJobIds -> SUBSET {"overlap", "crossed"}]
    BY <1>1, <1>2 DEF DownloadType, LeavesOthers
  <1>4. Requesting' /\ AsksFor(j)
    BY <1>1, <1>2 DEF DownloadType, Requesting, AsksFor
  <1>5. "overlap" \notin djUpset'[j] =>
           /\ "overlap" \notin djUpset[j] /\ ~Queued(j)
           /\ \A w \in Workers : ~DJ!WorksOn(w, j)
    BY <1>1, <1>2 DEF JobInv, OneWorker
  <1>6. QED
    BY <1>1, <1>3, <1>4, <1>5, JobSubmitted

\* The second half of a retry notes the overlap with whoever has the job.
LEMMA SubmitKeeps ==
    ASSUME DownloadInv, NEW r \in JobRequests, NEW j \in DownloadJobIds, DJ!Submit(r, j)
    PROVE  DownloadInv'
  <1>1. /\ j \in djRequest[r].job /\ DJ!Answer(r) /\ djQueue' = Append(djQueue, j)
        /\ DJ!Upset(j, "overlap", DJ!Underway(j))
        /\ UNCHANGED <<djStatus, djItems, djWorker>>
    BY DEF DJ!Submit, DJ!SetGoing, DJ!Asked
  <1>2. DownloadType /\ JobInv(j)
    BY DEF DownloadInv
  <1>3. Requesting' /\ AsksFor(j)
    BY <1>1, RequestGoesOn
  <1>4. CASE DJ!Underway(j)
    <2>1. djUpset' = [djUpset EXCEPT ![j] = @ \cup {"overlap"}]
      BY <1>1, <1>4 DEF DJ!Upset
    <2>2. /\ djUpset' \in [DownloadJobIds -> SUBSET {"overlap", "crossed"}]
          /\ "overlap" \in djUpset'[j] /\ LeavesOthers(j)
      BY <1>1, <1>2, <2>1 DEF DownloadType, LeavesOthers
    <2>3. QED
      BY <1>1, <1>2, <1>3, <2>2, RequestType, JobSubmitted
  <1>5. CASE ~DJ!Underway(j)
    <2>1. djUpset' = djUpset
      BY <1>1, <1>5 DEF DJ!Upset
    <2>2. ~Queued(j) /\ \A w \in Workers : ~DJ!WorksOn(w, j)
      BY <1>5 DEF DJ!Underway, Queued
    <2>3. LeavesOthers(j)
      BY <1>1, <2>1 DEF LeavesOthers
    <2>4. QED
      BY <1>1, <1>2, <1>3, <2>1, <2>2, <2>3, RequestType, JobSubmitted
  <1>6. QED
    BY <1>4, <1>5

\* The job at the head of the queue goes to a worker that had none.
LEMMA BeginKeeps ==
    ASSUME DownloadInv, NEW w \in Workers, DJ!Begin(w)
    PROVE  DownloadInv'
  <1>1. DownloadType /\ djQueue \in Seq(DownloadJobIds) /\ RequestsExist /\ djQueue # <<>>
    BY DEF DownloadInv, DownloadType, DJ!Begin
  <1>2. PICK j \in DownloadJobIds : j = Head(djQueue)
    BY <1>1
  <1>3. /\ djWorker[w] = DJ!Unoccupied /\ djQueue' = Tail(djQueue)
        /\ DJ!SetStatus(j, "running")
        /\ djWorker' = IF DJ!Exists(j)
                       THEN [djWorker EXCEPT ![w].step = "list", ![w].job = {j}]
                       ELSE djWorker
        /\ UNCHANGED <<djItems, djRequest, djUpset>>
    BY <1>2 DEF DJ!Begin
  <1>4. /\ djQueue' \in Seq(DownloadJobIds) /\ Queued(j) /\ JobInv(j)
        /\ QueuedOnce(j) => ~Queued(j)'
        /\ \A k \in DownloadJobIds :
              (Queued(k)' => Queued(k)) /\ (QueuedOnce(k) => QueuedOnce(k)')
    BY <1>1, <1>2, <1>3, QueueShrinks DEF DownloadInv
  <1>5. CASE ~DJ!Exists(j)
    <2>1. UNCHANGED <<djStatus, djWorker, djItems, djRequest, djUpset>>
      BY <1>3, <1>5 DEF DJ!SetStatus
    <2>2. DownloadType'
      BY <1>1, <1>4, <2>1 DEF DownloadType, Requesting
    <2>3. \A k \in DownloadJobIds : JobInv(k)'
      <3>1. \A v \in Workers : \A k : DJ!WorksOn(v, k)' =>
                                     DJ!WorksOn(v, k) /\ djWorker'[v] = djWorker[v]
        BY <2>1 DEF DJ!WorksOn
      <3>2. QED
        BY <1>4, <2>1, <3>1, OtherJobKeeps DEF DownloadInv
    <2>4. RequestsExist'
      BY <1>1, <2>1 DEF RequestsExist
    <2>5. QED
      BY <2>2, <2>3, <2>4 DEF DownloadInv
  <1>6. CASE DJ!Exists(j)
    <2>1. PICK x : x = [djWorker[w] EXCEPT !.step = "list", !.job = {j}]
      OBVIOUS
    <2>2. x = [step |-> "list", job |-> {j}, todo |-> {}, event |-> 0, failed |-> FALSE]
      <3>1. x = [DJ!Unoccupied EXCEPT !.step = "list", !.job = {j}]
        BY <1>3, <2>1
      <3>2. QED
        BY <3>1 DEF DJ!Unoccupied
    <2>3. djWorker' = [v \in Workers |-> IF v = w THEN x ELSE djWorker[v]]
      BY <1>3, <1>1, <1>6, <2>1 DEF DownloadType
    <2>4. IsWorker(x) /\ x.job = {j} /\ x.step = "list"
      BY <1>4, <2>2 DEF IsWorker, WorkerSteps
    <2>5. djStatus' = [djStatus EXCEPT ![j] = "running"]
      BY <1>3, <1>6 DEF DJ!SetStatus
    <2>6. /\ djStatus'[j] = "running" /\ djStatus' = [k \in DownloadJobIds |-> djStatus'[k]]
          /\ \A k \in DownloadJobIds \ {j} : djStatus'[k] = djStatus[k]
      BY <1>1, <1>4, <2>5 DEF DownloadType
    <2>7. DownloadType'
      <3>1. djWorker' = [v \in Workers |-> djWorker'[v]]
            /\ \A v \in Workers : IsWorker(djWorker'[v])
        BY <1>1, <2>3, <2>4 DEF DownloadType
      <3>2. QED
        BY <1>3, <1>1, <1>4, <2>6, <3>1 DEF DownloadType, Requesting
    <2>8. ASSUME "overlap" \notin djUpset'[j]
          PROVE  OneWorker(j)' /\ LeavesNothing(j)'
      <3>1. OneWorker(j)
        BY <1>3, <1>4, <2>8 DEF JobInv
      <3>2. \A v \in Workers : ~DJ!WorksOn(v, j)
        BY <1>4, <1>4, <3>1 DEF OneWorker
      <3>3. \A v \in Workers : DJ!WorksOn(v, j)' => v = w
        BY <2>3, <3>2 DEF DJ!WorksOn
      <3>4. ~Queued(j)' /\ QueuedOnce(j)'
        BY <1>4, <1>4, <3>1 DEF OneWorker
      <3>5. OneWorker(j)'
        BY <2>6, <3>3, <3>4 DEF OneWorker
      <3>6. DoesTheRest(djWorker[w], j)'
        BY <2>3, <2>4, <2>6 DEF DoesTheRest
      <3>7. LeavesNothing(j)'
        BY <2>6, <3>3, <3>6 DEF LeavesNothing
      <3>8. QED
        BY <3>5, <3>7
    <2>9. ASSUME NEW k \in DownloadJobIds, k # j
          PROVE  JobInv(k)'
      <3>1. \A v \in Workers : DJ!WorksOn(v, k)' =>
                                  DJ!WorksOn(v, k) /\ djWorker'[v] = djWorker[v]
        BY <2>3, <2>4, <2>9 DEF DJ!WorksOn
      <3>2. QED
        BY <1>3, <1>4, <2>6, <2>9, <3>1, OtherJobKeeps DEF DownloadInv
    <2>10. RequestsExist'
      BY <1>3, <1>1, <2>6, <2>7 DEF RequestsExist, DownloadType, Requesting, IsRequest
    <2>11. QED
      BY <2>7, <2>8, <2>9, <2>10 DEF DownloadInv, JobInv
  <1>7. QED
    BY <1>5, <1>6

\* After a stop nobody works on a job, and none is completed that was not.
LEMMA StopKeeps ==
    ASSUME DownloadInv, DJ!Stop
    PROVE  DownloadInv'
  <1>1. /\ djStatus' = [j \in DownloadJobIds |-> IF djStatus[j] \in {"running", "paused"}
                                                 THEN "failed" ELSE djStatus[j]]
        /\ djQueue' = <<>> /\ djWorker' = [w \in Workers |-> DJ!Unoccupied]
        /\ djRequest' = [r \in JobRequests |-> DJ!NoRequest]
        /\ UNCHANGED <<djItems, djUpset>>
    BY DEF DJ!Stop
  <1>2. DownloadType
    BY DEF DownloadInv
  <1>3. DownloadType'
    <2>1. djQueue' \in Seq(DownloadJobIds)
      BY <1>1
    <2>2. Requesting'
      BY <1>1 DEF Requesting, IsRequest, DJ!NoRequest
    <2>3. /\ djWorker' = [w \in Workers |-> djWorker'[w]]
          /\ \A w \in Workers : IsWorker(djWorker'[w])
      BY <1>1, Unoccupied
    <2>4. QED
      BY <1>1, <1>2, <2>1, <2>2, <2>3 DEF DownloadType
  <1>4. ASSUME NEW j \in DownloadJobIds
        PROVE  JobInv(j)'
    <2>1. JobInv(j)
      BY DEF DownloadInv
    <2>2. ~Queued(j)' /\ QueuedOnce(j)' /\ \A w \in Workers : ~DJ!WorksOn(w, j)'
      BY <1>1, Unoccupied DEF Queued, QueuedOnce, DJ!WorksOn
    <2>3. OneWorker(j)'
      BY <2>2 DEF OneWorker
    <2>4. djStatus'[j] = "completed" => djStatus[j] = "completed"
      BY <1>1
    <2>5. QED
      BY <1>1, <2>1, <2>2, <2>3, <2>4 DEF JobInv, LeavesNothing
  <1>5. RequestsExist'
    BY <1>1 DEF RequestsExist, DJ!NoRequest
  <1>6. QED
    BY <1>3, <1>4, <1>5 DEF DownloadInv

LEMMA DownloadStep == DownloadInv /\ [DJ!Next]_djVars => DownloadInv'
  <1> SUFFICES ASSUME DownloadInv, [DJ!Next]_djVars PROVE DownloadInv'
    OBVIOUS
  <1>1. CASE UNCHANGED djVars
    <2>1. UNCHANGED <<djStatus, djItems, djQueue, djWorker, djRequest, djUpset>>
      BY <1>1 DEF djVars
    <2>2. DownloadType' /\ RequestsExist'
      BY <2>1 DEF DownloadInv, DownloadType, Requesting, RequestsExist
    <2>3. ASSUME NEW j \in DownloadJobIds
          PROVE  JobInv(j)'
      <3>1. \A w \in Workers : DJ!WorksOn(w, j)' =>
                                  DJ!WorksOn(w, j) /\ djWorker'[w] = djWorker[w]
        BY <2>1 DEF DJ!WorksOn
      <3>2. (Queued(j)' => Queued(j)) /\ (QueuedOnce(j) => QueuedOnce(j)')
        BY <2>1 DEF Queued, QueuedOnce
      <3>3. QED
        BY <2>1, <3>1, <3>2, OtherJobKeeps DEF DownloadInv
    <2>4. QED
      BY <2>2, <2>3 DEF DownloadInv
  <1>2. ASSUME NEW w \in Workers, DJ!Work(w)
        PROVE  DownloadInv'
    <2>1. CASE DJ!Begin(w)
      BY <2>1, BeginKeeps
    <2>2. ASSUME NEW j \in DownloadJobIds, DJ!List(w, j) \/ DJ!Check(w, j)
          PROVE  DownloadInv'
      BY <2>2, ListKeeps, CheckKeeps
    <2>3. ASSUME NEW j \in DownloadJobIds, DJ!Look(w, j) \/ DJ!Wait(w, j)
          PROVE  DownloadInv'
      BY <2>3, LookKeeps
    <2>4. ASSUME NEW j \in DownloadJobIds,
                 NEW result \in {"success", "error"}, DJ!Downloaded(w, j, result)
          PROVE  DownloadInv'
      BY <2>4, DownloadedKeeps
    <2>5. ASSUME NEW j \in DownloadJobIds, DJ!Finish(w, j) \/ DJ!Cleanup(w, j)
          PROVE  DownloadInv'
      BY <2>5, FinishKeeps, CleanupKeeps
    <2>6. QED
      BY <1>2, <2>1, <2>2, <2>3, <2>4, <2>5 DEF DJ!Work
  <1>3. ASSUME NEW j \in DownloadJobIds, NEW r \in JobRequests,
               NEW step \in {"pause", "resume", "cancel", "delete", "retry"},
               DJ!Ask(r, j, step)
        PROVE  DownloadInv'
    BY <1>3, AskKeeps
  <1>4. ASSUME NEW j \in DownloadJobIds, NEW r \in JobRequests, DJ!Act(r, j)
        PROVE  DownloadInv'
    BY <1>4, PauseKeeps, DeleteKeeps, ResetItemKeeps, RetryKeeps, SubmitKeeps
    DEF DJ!Act
  <1>5. ASSUME NEW j \in DownloadJobIds, DJ!Create(j)
        PROVE  DownloadInv'
    BY <1>5, CreateKeeps
  <1>6. CASE DJ!Stop
    BY <1>6, StopKeeps
  <1>7. QED
    BY <1>1, <1>2, <1>3, <1>4, <1>5, <1>6 DEF DJ!Next


\* A completed download job has downloaded every symbol, unless a retry overlapped.
THEOREM ServerCompletesDownloads == Spec => []CompletedMeansDownloaded
  <1>1. [Next]_vars => [DJ!Next]_djVars
    BY DEF Next, vars, Settle, Expire, SquareOff, Approve, DownloadData, Host,
           Signal, Subscribe, Switch
  <1>2. DownloadInv => CompletedMeansDownloaded
    BY DEF DownloadInv, JobInv, LeavesNothing, CompletedMeansDownloaded,
           DJ!CompletedMeansDownloaded, DJ!With
  <1>3. QED
    BY <1>1, <1>2, DownloadInit, DownloadStep, PTL DEF Spec, Init

-----------------------------------------------------------------------------
(* SignalQueue: what was queued before a shutdown is in front of the pill *)

SenderSteps == {"idle", "look", "smart", "regular", "ended", "dead", "lost"}
OrderSizes == {-1, 0, 1}
Entries ==
    {e \in [size: OrderSizes, pill: BOOLEAN, early: BOOLEAN] : e.pill => ~e.early}

QueueType ==
    /\ sqRegular \in Seq(Entries) /\ sqSmart \in Seq(Entries)
    /\ sqSender \in [step: SenderSteps, size: OrderSizes]
    /\ sqWebhook \in [Webhooks -> [at: BOOLEAN, size: OrderSizes]]
    /\ sqStopping \in BOOLEAN

NoneEarly(queue) == \A n \in DOMAIN queue : ~queue[n].early
NoPill(queue) == \A n \in DOMAIN queue : ~queue[n].pill
HasPill(queue) == \E n \in DOMAIN queue : queue[n].pill
EarlyBeforePill(queue) ==
    \A m, n \in DOMAIN queue : queue[n].pill /\ m > n => ~queue[m].early

QueueInv ==
    /\ QueueType
    /\ NoPill(sqSmart) /\ EarlyBeforePill(sqRegular)
    /\ ~sqStopping => NoPill(sqRegular)
    /\ sqSender.step \in {"look", "ended"} => NoneEarly(sqSmart)
    /\ sqSender.step = "ended" => sqStopping /\ NoneEarly(sqRegular)

\* What waits in the queues or is in hand, and what the join has waited for, are
\* no more than the load of the shutdown and the pill, which stays until the end;
\* only orders are in front of it.
Waiting == Len(sqSmart) + Len(sqRegular) + IF SQ!InHand THEN 1 ELSE 0

DrainInv ==
    /\ sqPatience \in 0 .. Patience /\ sqLoad \in Nat
    /\ ~sqStopping => sqPatience = Patience
    /\ sqStopping => Waiting + Patience - sqPatience <= sqLoad + 1
    /\ sqStopping /\ sqSender.step # "ended" => HasPill(sqRegular)
    /\ sqSender.step \in {"dead", "lost"} =>
          sqStopping /\ ("slow" \notin sqUpset => sqPatience = 0)
    /\ sqSender.step = "lost" /\ "slow" \notin sqUpset => sqLoad > Patience

\* What becomes of a queue at its end ...
LEMMA EntryAppended ==
    ASSUME NEW queue \in Seq(Entries), NEW e \in Entries
    PROVE  /\ Append(queue, e) \in Seq(Entries)
           /\ NoPill(queue) /\ ~e.pill => NoPill(Append(queue, e))
           /\ NoneEarly(queue) /\ ~e.early => NoneEarly(Append(queue, e))
           /\ EarlyBeforePill(queue) /\ (NoPill(queue) \/ ~e.early) =>
                 EarlyBeforePill(Append(queue, e))
           /\ HasPill(queue) \/ e.pill => HasPill(Append(queue, e))
           /\ Len(Append(queue, e)) = Len(queue) + 1
  <1> DEFINE longer == Append(queue, e)
  <1>1. /\ longer \in Seq(Entries) /\ Len(queue) \in Nat
        /\ DOMAIN queue = 1 .. Len(queue)
        /\ DOMAIN longer = 1 .. (Len(queue) + 1)
        /\ \A n \in DOMAIN queue : longer[n] = queue[n]
        /\ longer[Len(queue) + 1] = e
    OBVIOUS
  <1> HIDE DEF longer
  <1>2. \A n \in DOMAIN longer : n \in DOMAIN queue \/ n = Len(queue) + 1
    BY <1>1
  <1>3. NoPill(queue) /\ ~e.pill => NoPill(longer)
    BY <1>1, <1>2 DEF NoPill
  <1>4. NoneEarly(queue) /\ ~e.early => NoneEarly(longer)
    BY <1>1, <1>2 DEF NoneEarly
  <1>5. ASSUME EarlyBeforePill(queue), NoPill(queue) \/ ~e.early,
               NEW m \in DOMAIN longer, NEW n \in DOMAIN longer, longer[n].pill, m > n
        PROVE  ~longer[m].early
    <2>1. n \in DOMAIN queue
      BY <1>1, <1>2, <1>5
    <2>2. CASE m \in DOMAIN queue
      BY <1>1, <1>5, <2>1, <2>2 DEF EarlyBeforePill
    <2>3. CASE m = Len(queue) + 1
      BY <1>1, <1>5, <2>1, <2>3 DEF NoPill
    <2>4. QED
      BY <1>2, <1>5, <2>2, <2>3
  <1>6. HasPill(queue) \/ e.pill => HasPill(longer)
    BY <1>1 DEF HasPill
  <1>7. Len(longer) = Len(queue) + 1
    BY DEF longer
  <1>8. QED
    BY <1>1, <1>3, <1>4, <1>5, <1>6, <1>7 DEF EarlyBeforePill, longer

\* ... and at its head.
LEMMA EntryTaken ==
    ASSUME NEW queue \in Seq(Entries), queue # <<>>
    PROVE  /\ Head(queue) \in Entries /\ Tail(queue) \in Seq(Entries)
           /\ NoPill(queue) => NoPill(Tail(queue)) /\ ~Head(queue).pill
           /\ NoneEarly(queue) => NoneEarly(Tail(queue))
           /\ EarlyBeforePill(queue) => EarlyBeforePill(Tail(queue))
           /\ EarlyBeforePill(queue) /\ Head(queue).pill => NoneEarly(Tail(queue))
           /\ HasPill(queue) => HasPill(Tail(queue)) \/ Head(queue).pill
           /\ Len(queue) \in Nat /\ Len(Tail(queue)) = Len(queue) - 1
  <1> DEFINE rest == Tail(queue)
  <1>1. /\ rest \in Seq(Entries) /\ 1 \in DOMAIN queue
        /\ Head(queue) = queue[1] /\ Head(queue) \in Entries
        /\ \A n \in DOMAIN rest : n \in Nat \ {0} /\ n + 1 \in DOMAIN queue
                                     /\ rest[n] = queue[n + 1]
    OBVIOUS
  <1> HIDE DEF rest
  <1>2. NoPill(queue) => NoPill(rest) /\ ~Head(queue).pill
    BY <1>1 DEF NoPill
  <1>3. NoneEarly(queue) => NoneEarly(rest)
    BY <1>1 DEF NoneEarly
  <1>4. ASSUME EarlyBeforePill(queue), NEW m \in DOMAIN rest, NEW n \in DOMAIN rest,
               rest[n].pill, m > n
        PROVE  ~rest[m].early
    <2>1. m + 1 > n + 1 /\ queue[n + 1].pill
      BY <1>1, <1>4
    <2>2. QED
      BY <1>1, <1>4, <2>1 DEF EarlyBeforePill
  <1>5. ASSUME EarlyBeforePill(queue), Head(queue).pill, NEW m \in DOMAIN rest
        PROVE  ~rest[m].early
    <2>1. m + 1 > 1 /\ queue[1].pill
      BY <1>1, <1>5
    <2>2. QED
      BY <1>1, <1>5, <2>1 DEF EarlyBeforePill
  <1>6. ASSUME NEW n \in DOMAIN queue, queue[n].pill, ~Head(queue).pill
        PROVE  HasPill(rest)
    <2>1. n - 1 \in DOMAIN rest /\ (n - 1) + 1 = n
      BY <1>1, <1>6 DEF rest
    <2>2. QED
      BY <1>1, <1>6, <2>1 DEF HasPill
  <1>7. Len(queue) \in Nat /\ Len(rest) = Len(queue) - 1
    BY DEF rest
  <1>8. QED
    BY <1>1, <1>2, <1>3, <1>4, <1>5, <1>6, <1>7 DEF EarlyBeforePill, NoneEarly, HasPill, rest

\* A queue of one entry that has the pill holds nothing else.
LEMMA OnlyThePill ==
    ASSUME NEW queue \in Seq(Entries), HasPill(queue), Len(queue) <= 1
    PROVE  NoneEarly(queue)
  <1>1. /\ DOMAIN queue = 1 .. Len(queue) /\ Len(queue) \in Nat
        /\ \A n \in DOMAIN queue : queue[n] \in Entries
    OBVIOUS
  <1>2. PICK n \in DOMAIN queue : queue[n].pill
    BY DEF HasPill
  <1>3. \A m \in DOMAIN queue : m = n
    BY <1>1, <1>2
  <1>4. ~queue[n].early
    BY <1>1, <1>2 DEF Entries
  <1>5. QED
    BY <1>3, <1>4 DEF NoneEarly

LEMMA QueueInit == SQ!Init => QueueInv
  <1> SUFFICES ASSUME SQ!Init PROVE QueueInv
    OBVIOUS
  <1>1. /\ sqRegular = <<>> /\ sqSmart = <<>> /\ sqSender = SQ!Idle /\ sqStopping = FALSE
        /\ sqWebhook = [w \in Webhooks |-> SQ!NoSignal]
    BY DEF SQ!Init
  <1>2. QueueType
    <2>1. sqSender \in [step: SenderSteps, size: OrderSizes]
      BY <1>1 DEF SQ!Idle, SenderSteps, OrderSizes
    <2>2. sqWebhook \in [Webhooks -> [at: BOOLEAN, size: OrderSizes]]
      BY <1>1 DEF SQ!NoSignal, OrderSizes
    <2>3. sqRegular \in Seq(Entries) /\ sqSmart \in Seq(Entries)
      BY <1>1
    <2>4. sqStopping \in BOOLEAN
      BY <1>1
    <2>5. QED
      BY <2>1, <2>2, <2>3, <2>4 DEF QueueType
  <1>3. NoPill(sqSmart) /\ NoPill(sqRegular) /\ EarlyBeforePill(sqRegular)
    BY <1>1 DEF NoPill, EarlyBeforePill
  <1>4. sqSender.step = "idle"
    BY <1>1 DEF SQ!Idle
  <1>5. QED
    BY <1>2, <1>3, <1>4 DEF QueueInv

\* A signal or the square-off queues an order.
LEMMA OrderIsQueued ==
    ASSUME QueueInv, NEW size \in OrderSizes, SQ!QueueOrder(size),
           UNCHANGED <<sqSender, sqStopping>>,
           sqWebhook' \in [Webhooks -> [at: BOOLEAN, size: OrderSizes]]
    PROVE  QueueInv'
  <1>1. QueueType
    BY DEF QueueInv
  <1>2. CASE /\ sqSmart' = Append(sqSmart, SQ!Unseen(size)) /\ sqRegular' = sqRegular
    <2>1. PICK e : e = SQ!Unseen(size)
      OBVIOUS
    <2>2. /\ e \in Entries /\ ~e.pill
          /\ e.early => sqSender.step # "look" /\ ~sqStopping
      BY <1>1, <2>1 DEF SQ!Unseen, SQ!Order, Entries, QueueType
    <2>3. QED
      BY <1>1, <1>2, <2>1, <2>2, EntryAppended DEF QueueInv, QueueType
  <1>3. CASE sqRegular' = Append(sqRegular, SQ!Order(size)) /\ sqSmart' = sqSmart
    <2>1. PICK e : e = SQ!Order(size)
      OBVIOUS
    <2>2. e \in Entries /\ ~e.pill /\ (e.early => ~sqStopping)
      BY <1>1, <2>1 DEF SQ!Order, Entries, QueueType
    <2>3. QED
      BY <1>1, <1>3, <2>1, <2>2, EntryAppended DEF QueueInv, QueueType
  <1>4. QED
    BY <1>2, <1>3 DEF SQ!QueueOrder

LEMMA QueueStep == QueueInv /\ [SQ!Next]_sqVars => QueueInv'
  <1> SUFFICES ASSUME QueueInv, [SQ!Next]_sqVars PROVE QueueInv'
    OBVIOUS
  <1>0. QueueType
    BY DEF QueueInv
  <1>1. CASE UNCHANGED <<sqRegular, sqSmart, sqSender, sqStopping>>
                /\ sqWebhook' \in [Webhooks -> [at: BOOLEAN, size: OrderSizes]]
    BY <1>1 DEF QueueInv, QueueType
  <1>2. CASE UNCHANGED sqVars
    BY <1>0, <1>1, <1>2 DEF sqVars, QueueType
  <1>3. ASSUME NEW w \in Webhooks, NEW size \in {-1, 0, 1}, SQ!Receive(w, size)
        PROVE  QueueInv'
    BY <1>0, <1>1, <1>3 DEF SQ!Receive, QueueType, OrderSizes
  <1>4. ASSUME NEW w \in Webhooks, SQ!Queue(w)
        PROVE  QueueInv'
    <2>1. sqWebhook' \in [Webhooks -> [at: BOOLEAN, size: OrderSizes]]
      BY <1>0, <1>4 DEF SQ!Queue, SQ!NoSignal, QueueType, OrderSizes
    <2>2. PICK size \in OrderSizes : size = sqWebhook[w].size
      BY <1>0 DEF QueueType
    <2>3. SQ!QueueOrder(size) /\ UNCHANGED <<sqSender, sqStopping>>
      BY <1>4, <2>2 DEF SQ!Queue
    <2>4. QED
      BY <2>1, <2>3, OrderIsQueued
  <1>5. CASE SQ!SquareOff
    <2>1. SQ!QueueOrder(0) /\ UNCHANGED <<sqSender, sqStopping, sqWebhook>> /\ 0 \in OrderSizes
      BY <1>5 DEF SQ!SquareOff, OrderSizes
    <2>2. QED
      BY <1>0, <2>1, OrderIsQueued DEF QueueType
  <1>6. CASE SQ!TakeSmart
    <2>1. /\ sqSmart # <<>> /\ sqSmart' = Tail(sqSmart) /\ SQ!Take(sqSmart, "smart")
          /\ UNCHANGED <<sqRegular, sqStopping, sqWebhook>>
      BY <1>6 DEF SQ!TakeSmart
    <2>2. /\ Head(sqSmart) \in Entries /\ ~Head(sqSmart).pill
          /\ NoPill(sqSmart') /\ sqSmart' \in Seq(Entries)
      BY <1>0, <2>1, EntryTaken DEF QueueInv, QueueType
    <2>3. sqSender' \in [step: SenderSteps, size: OrderSizes] /\ sqSender'.step = "smart"
      BY <2>1, <2>2 DEF SQ!Take, Entries, SenderSteps
    <2>4. QED
      BY <1>0, <2>1, <2>2, <2>3 DEF QueueInv, QueueType
  <1>7. CASE SQ!LookAtRegular
    <2>1. /\ sqSmart = <<>> /\ sqSender' = [sqSender EXCEPT !.step = "look"]
          /\ UNCHANGED <<sqRegular, sqSmart, sqStopping, sqWebhook>>
      BY <1>7 DEF SQ!LookAtRegular
    <2>2. sqSender' \in [step: SenderSteps, size: OrderSizes] /\ sqSender'.step = "look"
      BY <1>0, <2>1 DEF QueueType, SenderSteps
    <2>3. NoneEarly(sqSmart')
      BY <2>1 DEF NoneEarly
    <2>4. QED
      BY <1>0, <2>1, <2>2, <2>3 DEF QueueInv, QueueType
  <1>8. CASE SQ!TakeRegular
    <2>1. /\ sqSender.step = "look" /\ sqRegular # <<>> /\ sqRegular' = Tail(sqRegular)
          /\ SQ!Take(sqRegular, "regular") /\ UNCHANGED <<sqSmart, sqStopping, sqWebhook>>
      BY <1>8 DEF SQ!TakeRegular
    <2>2. /\ Head(sqRegular) \in Entries /\ sqRegular' \in Seq(Entries)
          /\ EarlyBeforePill(sqRegular')
          /\ NoPill(sqRegular) => NoPill(sqRegular') /\ ~Head(sqRegular).pill
          /\ Head(sqRegular).pill => NoneEarly(sqRegular')
      BY <1>0, <2>1, EntryTaken DEF QueueInv, QueueType
    <2>3. /\ sqSender' \in [step: SenderSteps, size: OrderSizes]
          /\ sqSender'.step = IF Head(sqRegular).pill THEN "ended" ELSE "regular"
      BY <2>1, <2>2 DEF SQ!Take, SQ!Idle, Entries, SenderSteps, OrderSizes
    <2>4. QED
      BY <1>0, <2>1, <2>2, <2>3 DEF QueueInv, QueueType
  <1>9. CASE SQ!TakeNone \/ SQ!Send \/ SQ!SendFails
    <2>1. sqSender' = SQ!Idle /\ UNCHANGED <<sqRegular, sqSmart, sqStopping, sqWebhook>>
      BY <1>9 DEF SQ!TakeNone, SQ!Send, SQ!SendFails, SQ!Done
    <2>2. sqSender' \in [step: SenderSteps, size: OrderSizes] /\ sqSender'.step = "idle"
      BY <2>1 DEF SQ!Idle, SenderSteps, OrderSizes
    <2>3. QED
      BY <1>0, <2>1, <2>2 DEF QueueInv, QueueType
  <1>10. CASE SQ!Shutdown
    <2>1. /\ ~sqStopping /\ sqStopping' = TRUE /\ sqRegular' = Append(sqRegular, SQ!Pill)
          /\ UNCHANGED <<sqSmart, sqSender, sqWebhook>>
      BY <1>10 DEF SQ!Shutdown, SQ!Begin
    <2>2. PICK e : e = SQ!Pill
      OBVIOUS
    <2>3. e \in Entries /\ ~e.early
      BY <2>2 DEF SQ!Pill, Entries, OrderSizes
    <2>4. QED
      BY <1>0, <2>1, <2>2, <2>3, EntryAppended DEF QueueInv, QueueType
  <1>11. CASE SQ!Tick
    BY <1>0, <1>1, <1>11 DEF SQ!Tick, QueueType
  <1>12. CASE SQ!GiveUp
    <2>1. /\ UNCHANGED <<sqRegular, sqSmart, sqStopping, sqWebhook>>
          /\ sqSender' = [SQ!Idle EXCEPT !.step = IF SQ!InHand THEN "lost" ELSE "dead"]
      BY <1>12 DEF SQ!GiveUp
    <2>2. sqSender' \in [step: SenderSteps, size: OrderSizes] /\ sqSender'.step \in {"dead", "lost"}
      BY <2>1 DEF SQ!Idle, SenderSteps, OrderSizes
    <2>3. QED
      BY <1>0, <2>1, <2>2 DEF QueueInv, QueueType
  <1>13. QED
    BY <1>2, <1>3, <1>4, <1>5, <1>6, <1>7, <1>8, <1>9, <1>10, <1>11, <1>12 DEF SQ!Next

LEMMA DrainInit == SQ!Init => DrainInv
  <1> SUFFICES ASSUME SQ!Init PROVE DrainInv
    OBVIOUS
  <1>1. /\ sqSender = SQ!Idle /\ sqStopping = FALSE /\ sqPatience = Patience /\ sqLoad = 0
    BY DEF SQ!Init
  <1>2. sqSender.step = "idle"
    BY <1>1 DEF SQ!Idle
  <1>3. QED
    BY <1>1, <1>2, PatienceAssumption DEF DrainInv

\* An order that is queued adds one to both sides.
LEMMA OrderIsLoad ==
    ASSUME QueueInv, DrainInv, NEW size \in OrderSizes, SQ!QueueOrder(size),
           UNCHANGED <<sqSender, sqStopping, sqPatience>>
    PROVE  DrainInv'
  <1>1. /\ QueueType /\ sqLoad \in Nat /\ sqPatience \in 0 .. Patience
        /\ Len(sqSmart) \in Nat /\ Len(sqRegular) \in Nat
    BY DEF QueueInv, DrainInv, QueueType
  <1>2. /\ "slow" \in sqUpset => "slow" \in sqUpset'
        /\ sqLoad' = IF sqStopping THEN sqLoad + 1 ELSE sqLoad
    BY DEF SQ!QueueOrder
  <1>3. SQ!InHand' <=> SQ!InHand
    BY DEF SQ!InHand
  <1>4. /\ Len(sqSmart') + Len(sqRegular') = Len(sqSmart) + Len(sqRegular) + 1
        /\ Len(sqSmart') \in Nat /\ Len(sqRegular') \in Nat
        /\ HasPill(sqRegular) => HasPill(sqRegular')
    <2>1. PICK e, f : e = SQ!Unseen(size) /\ f = SQ!Order(size)
      OBVIOUS
    <2>2. e \in Entries /\ f \in Entries
      BY <1>1, <2>1 DEF SQ!Unseen, SQ!Order, Entries, QueueType
    <2>3. \/ sqSmart' = Append(sqSmart, e) /\ sqRegular' = sqRegular
          \/ sqRegular' = Append(sqRegular, f) /\ sqSmart' = sqSmart
      BY <2>1 DEF SQ!QueueOrder
    <2>4. /\ Len(Append(sqSmart, e)) = Len(sqSmart) + 1
          /\ Len(Append(sqRegular, f)) = Len(sqRegular) + 1
          /\ HasPill(sqRegular) => HasPill(Append(sqRegular, f))
      BY <1>1, <2>2, EntryAppended DEF QueueType
    <2>5. CASE sqSmart' = Append(sqSmart, e) /\ sqRegular' = sqRegular
      BY <1>1, <2>4, <2>5
    <2>6. CASE sqRegular' = Append(sqRegular, f) /\ sqSmart' = sqSmart
      BY <1>1, <2>4, <2>6
    <2>7. QED
      BY <2>3, <2>5, <2>6
  <1>5. Waiting' = Waiting + 1 /\ Waiting \in Nat
    BY <1>1, <1>3, <1>4 DEF Waiting
  <1>6. QED
    BY <1>1, <1>2, <1>4, <1>5, PatienceAssumption DEF DrainInv

\* The thread takes an entry: it is in hand, or was the pill and the end.
LEMMA TakeKeepsLoad ==
    ASSUME QueueInv, DrainInv, SQ!TakeSmart \/ SQ!TakeRegular
    PROVE  DrainInv'
  <1>1. /\ QueueType /\ sqLoad \in Nat /\ sqPatience \in 0 .. Patience
        /\ Len(sqSmart) \in Nat /\ Len(sqRegular) \in Nat
        /\ UNCHANGED <<sqStopping, sqPatience, sqLoad, sqUpset>>
    BY DEF QueueInv, DrainInv, QueueType, SQ!TakeSmart, SQ!TakeRegular
  <1>2. ~SQ!InHand /\ sqSender.step \in {"idle", "look"}
    BY DEF SQ!TakeSmart, SQ!TakeRegular, SQ!Idle, SQ!InHand
  <1>3. CASE SQ!TakeSmart
    <2>1. /\ sqSmart # <<>> /\ sqSmart' = Tail(sqSmart) /\ SQ!Take(sqSmart, "smart")
          /\ UNCHANGED sqRegular
      BY <1>3 DEF SQ!TakeSmart
    <2>2. ~Head(sqSmart).pill /\ Len(sqSmart') = Len(sqSmart) - 1
      BY <1>1, <2>1, EntryTaken DEF QueueInv, QueueType
    <2>3. sqSender'.step = "smart"
      BY <2>1, <2>2 DEF SQ!Take
    <2>4. Waiting' = Waiting
      BY <1>1, <1>2, <2>1, <2>2, <2>3 DEF Waiting, SQ!InHand
    <2>5. QED
      BY <1>1, <1>2, <2>1, <2>3, <2>4 DEF DrainInv
  <1>4. CASE SQ!TakeRegular
    <2>1. /\ sqRegular # <<>> /\ sqRegular' = Tail(sqRegular) /\ SQ!Take(sqRegular, "regular")
          /\ UNCHANGED sqSmart
      BY <1>4 DEF SQ!TakeRegular
    <2>2. /\ Len(sqRegular') = Len(sqRegular) - 1
          /\ HasPill(sqRegular) => HasPill(sqRegular') \/ Head(sqRegular).pill
      BY <1>1, <2>1, EntryTaken DEF QueueType
    <2>3. sqSender'.step = IF Head(sqRegular).pill THEN "ended" ELSE "regular"
      BY <2>1 DEF SQ!Take, SQ!Idle
    <2>4. Waiting' = Waiting - (IF Head(sqRegular).pill THEN 1 ELSE 0) /\ Waiting \in Nat
      BY <1>1, <1>2, <2>1, <2>2, <2>3 DEF Waiting, SQ!InHand
    <2>5. Waiting' <= Waiting /\ Waiting' \in Int
      BY <2>4
    <2>6. QED
      BY <1>1, <1>2, <2>2, <2>3, <2>4, <2>5, PatienceAssumption DEF DrainInv
  <1>5. QED
    BY <1>3, <1>4

\* The order in hand is done, or the thread is given up with what it holds.
LEMMA DoneKeepsLoad ==
    ASSUME QueueInv, DrainInv, SQ!Send \/ SQ!SendFails
    PROVE  DrainInv'
  <1>1. /\ sqLoad \in Nat /\ sqPatience \in 0 .. Patience
        /\ Len(sqSmart) \in Nat /\ Len(sqRegular) \in Nat
        /\ UNCHANGED <<sqStopping, sqSmart, sqRegular, sqLoad>>
    BY DEF QueueInv, DrainInv, QueueType, SQ!Send, SQ!SendFails
  <1>2. /\ SQ!InHand /\ sqSender' = SQ!Idle
        /\ sqPatience' = IF sqStopping /\ sqPatience > 0 THEN sqPatience - 1 ELSE sqPatience
    BY DEF SQ!Send, SQ!SendFails, SQ!Done
  <1>3. sqSender'.step = "idle" /\ sqSender.step # "ended"
    BY <1>2 DEF SQ!Idle, SQ!InHand
  <1>4. Waiting' = Waiting - 1 /\ Waiting \in Nat
    BY <1>1, <1>2, <1>3 DEF Waiting, SQ!InHand
  <1>5. QED
    BY <1>1, <1>2, <1>3, <1>4, PatienceAssumption DEF DrainInv

LEMMA GiveUpKeepsLoad ==
    ASSUME QueueInv, DrainInv, SQ!GiveUp
    PROVE  DrainInv'
  <1>1. /\ sqLoad \in Nat /\ sqPatience \in 0 .. Patience
        /\ sqSmart \in Seq(Entries) /\ sqRegular \in Seq(Entries)
        /\ Len(sqSmart) \in Nat /\ Len(sqRegular) \in Nat
    BY DEF QueueInv, DrainInv, QueueType
  <1>2. /\ sqStopping /\ sqSender.step \notin {"ended", "dead", "lost"}
        /\ sqSender'.step = IF SQ!InHand THEN "lost" ELSE "dead"
        /\ sqUpset' = sqUpset \cup {IF sqPatience > 0 THEN "slow" ELSE "given up"}
        /\ UNCHANGED <<sqStopping, sqSmart, sqRegular, sqLoad, sqPatience>>
    BY DEF SQ!GiveUp, SQ!Idle
  <1>3. "slow" \notin sqUpset' => sqPatience = 0 /\ "slow" \notin sqUpset
    <2>1. CASE sqPatience > 0
      BY <1>2, <2>1
    <2>2. CASE sqPatience = 0
      BY <1>2, <2>2
    <2>3. QED
      BY <1>1, <2>1, <2>2, PatienceAssumption
  <1>4. Waiting \in Nat /\ Waiting' <= Waiting /\ Waiting' \in Nat
    <2>1. sqSender'.step \notin {"smart", "regular"}
      BY <1>2
    <2>2. Waiting' = Len(sqSmart) + Len(sqRegular)
      <3>1. ~SQ!InHand'
        BY <2>1 DEF SQ!InHand
      <3>2. sqSmart' = sqSmart /\ sqRegular' = sqRegular
        BY <1>2
      <3>3. QED
        BY <1>1, <3>1, <3>2 DEF Waiting
    <2>3. Waiting = Len(sqSmart) + Len(sqRegular) + IF SQ!InHand THEN 1 ELSE 0
      BY DEF Waiting
    <2>4. QED
      BY <1>1, <2>2, <2>3
  <1>5. HasPill(sqRegular)
    BY <1>2 DEF DrainInv
  <1>6. Len(sqRegular) > 0
    BY <1>1, <1>5 DEF HasPill
  <1>7. SQ!InHand => Waiting >= 2
    BY <1>1, <1>6 DEF Waiting
  <1>8. Waiting + Patience - sqPatience <= sqLoad + 1
    BY <1>2 DEF DrainInv
  <1>9. ASSUME sqSender'.step = "lost", "slow" \notin sqUpset' PROVE sqLoad > Patience
    <2>1. SQ!InHand
      BY <1>2, <1>9
    <2>2. sqPatience = 0 /\ Waiting >= 2
      BY <1>3, <1>7, <1>9, <2>1
    <2>3. QED
      BY <1>1, <1>4, <1>8, <2>2, PatienceAssumption
  <1>10. Waiting' + Patience - sqPatience <= sqLoad + 1
    <2>1. /\ Waiting' \in Int /\ Waiting \in Int /\ Patience \in Int
          /\ sqPatience \in Int /\ sqLoad \in Int /\ Waiting' <= Waiting
      BY <1>1, <1>4, PatienceAssumption
    <2>2. \A a, b, c, d, e \in Int :
              a <= b /\ b + c - d <= e + 1 => a + c - d <= e + 1
      OBVIOUS
    <2>3. PICK w \in Int : w = Waiting'
      BY <2>1
    <2>4. PICK v \in Int : v = Waiting
      BY <2>1
    <2>5. w + Patience - sqPatience <= sqLoad + 1
      BY <1>8, <2>1, <2>2, <2>3, <2>4
    <2>6. QED
      BY <2>3, <2>5
  <1>11. QED
    BY <1>1, <1>2, <1>3, <1>5, <1>9, <1>10 DEF DrainInv

LEMMA ShutdownMeetsLoad ==
    ASSUME QueueInv, DrainInv, SQ!Shutdown
    PROVE  DrainInv'
  <1>1. /\ sqPatience \in 0 .. Patience /\ sqRegular \in Seq(Entries)
        /\ Len(sqSmart) \in Nat /\ Len(sqRegular) \in Nat
        /\ sqSender.step \notin {"dead", "lost"} /\ sqPatience = Patience
        /\ sqStopping' /\ UNCHANGED <<sqSmart, sqPatience, sqSender>>
        /\ sqRegular' = Append(sqRegular, SQ!Pill)
        /\ sqLoad' = Waiting
    BY DEF QueueInv, DrainInv, QueueType, SQ!Shutdown, SQ!Begin, Waiting
  <1>2. PICK e : e = SQ!Pill
    OBVIOUS
  <1>3. e \in Entries /\ e.pill
    BY <1>2 DEF SQ!Pill, Entries, OrderSizes
  <1>4. HasPill(sqRegular') /\ Len(sqRegular') = Len(sqRegular) + 1
    BY <1>1, <1>2, <1>3, EntryAppended
  <1>5. Waiting' = Waiting + 1 /\ Waiting \in Nat
    BY <1>1, <1>4 DEF Waiting, SQ!InHand
  <1>6. QED
    BY <1>1, <1>4, <1>5, PatienceAssumption DEF DrainInv

LEMMA DrainStep == QueueInv /\ DrainInv /\ [SQ!Next]_sqVars => DrainInv'
  <1> SUFFICES ASSUME QueueInv, DrainInv, [SQ!Next]_sqVars PROVE DrainInv'
    OBVIOUS
  <1>1. ASSUME UNCHANGED <<sqRegular, sqSmart, sqStopping, sqPatience, sqLoad, sqUpset>>,
               \/ UNCHANGED sqSender
               \/ {sqSender.step, sqSender'.step} \subseteq {"idle", "look"}
        PROVE  DrainInv'
    <2>1. Waiting' = Waiting
      BY <1>1 DEF Waiting, SQ!InHand
    <2>2. QED
      BY <1>1, <2>1 DEF DrainInv
  <1>2. CASE \/ UNCHANGED sqVars \/ SQ!Tick
             \/ \E w \in Webhooks, size \in {-1, 0, 1} : SQ!Receive(w, size)
    BY <1>1, <1>2 DEF sqVars, SQ!Tick, SQ!Receive
  <1>3. CASE SQ!LookAtRegular \/ SQ!TakeNone
    <2>1. {sqSender.step, sqSender'.step} \subseteq {"idle", "look"}
      BY <1>3 DEF SQ!LookAtRegular, SQ!TakeNone, SQ!Idle
    <2>2. QED
      BY <1>1, <1>3, <2>1 DEF SQ!LookAtRegular, SQ!TakeNone
  <1>4. ASSUME NEW w \in Webhooks, SQ!Queue(w)
        PROVE  DrainInv'
    <2>1. PICK size \in OrderSizes : size = sqWebhook[w].size
      BY DEF QueueInv, QueueType
    <2>2. QED
      BY <1>4, <2>1, OrderIsLoad DEF SQ!Queue
  <1>5. CASE SQ!SquareOff
    <2>1. SQ!QueueOrder(0) /\ 0 \in OrderSizes /\ UNCHANGED <<sqSender, sqStopping, sqPatience>>
      BY <1>5 DEF SQ!SquareOff, OrderSizes
    <2>2. QED
      BY <2>1, OrderIsLoad
  <1>6. QED
    BY <1>2, <1>3, <1>4, <1>5, TakeKeepsLoad, DoneKeepsLoad, GiveUpKeepsLoad, ShutdownMeetsLoad
    DEF SQ!Next

\* A shutdown sends every order that was queued before it as far as the join
\* waits: a thread that ends leaves none, and neither does one that is given up
\* if the join was long enough for all that waited, whatever its length.
THEOREM ServerDrainsQueues == Spec => []ShutdownDrains
  <1>1. [Next]_vars => [SQ!Next]_sqVars
    BY DEF Next, vars, Settle, Expire, SquareOff, Approve, DownloadData, Host,
           Signal, Subscribe, Switch
  <1>2. QueueInv /\ DrainInv => ShutdownDrains
    <2> SUFFICES ASSUME QueueInv, DrainInv PROVE ShutdownDrains
      OBVIOUS
    <2>1. SQ!NoneEarly <=> NoneEarly(sqSmart) /\ NoneEarly(sqRegular)
      BY DEF SQ!NoneEarly, NoneEarly
    <2>2. sqSender.step = "ended" => SQ!NoneEarly
      BY <2>1 DEF QueueInv
    <2>3. ASSUME sqLoad <= Patience, "slow" \notin sqUpset PROVE sqSender.step # "lost"
      BY <2>3, PatienceAssumption DEF DrainInv
    <2>4. ASSUME sqLoad <= Patience, "slow" \notin sqUpset, sqSender.step = "dead"
          PROVE  SQ!NoneEarly
      <3>1. /\ sqPatience = 0 /\ HasPill(sqRegular) /\ sqLoad \in Nat
            /\ Waiting + Patience - sqPatience <= sqLoad + 1
        BY <2>4 DEF DrainInv
      <3>2. /\ sqSmart \in Seq(Entries) /\ sqRegular \in Seq(Entries)
            /\ Len(sqSmart) \in Nat /\ Len(sqRegular) \in Nat
        BY DEF QueueInv, QueueType
      <3>3. Waiting = Len(sqSmart) + Len(sqRegular)
        BY <2>4, <3>2 DEF Waiting, SQ!InHand
      <3>4. Len(sqRegular) > 0
        BY <3>1, <3>2 DEF HasPill
      <3>5. Len(sqRegular) <= 1 /\ Len(sqSmart) = 0
        BY <2>4, <3>1, <3>2, <3>3, <3>4, PatienceAssumption
      <3>6. NoneEarly(sqSmart)
        BY <3>2, <3>5 DEF NoneEarly
      <3>7. QED
        BY <2>1, <3>1, <3>2, <3>5, <3>6, OnlyThePill
    <2>5. QED
      BY <2>2, <2>3, <2>4 DEF ShutdownDrains, SQ!ShutdownDrains
  <1>3. QED
    BY <1>1, <1>2, QueueInit, QueueStep, DrainInit, DrainStep, PTL DEF Spec, Init

-----------------------------------------------------------------------------
(* SignalQueue: two queues keep the meaning of the signals *)

OnlyPills(queue) == \A n \in DOMAIN queue : queue[n].pill
OrdersOf(size, queue) == \A n \in DOMAIN queue : queue[n].pill \/ queue[n].size = size
Orders(queue) == {n \in DOMAIN queue : ~queue[n].pill}

\* Where a BOTH strategy will stand: at the smart order that came last.
LastTarget ==
    IF sqSmart # <<>> THEN sqSmart[Len(sqSmart)].size
    ELSE IF sqSender.step = "smart" THEN sqSender.size ELSE sqPosition

BothInv ==
    /\ OnlyPills(sqRegular)
    /\ sqSender.step # "regular"
    /\ sqUpset = {} => sqWanted = LastTarget

\* Where a LONG strategy will stand before the entries that still wait.
Base ==
    IF sqSmart # <<>> \/ sqSender.step = "smart" THEN 0
    ELSE sqPosition + IF sqSender.step = "regular" THEN 1 ELSE 0

LongInv ==
    /\ OrdersOf(0, sqSmart) /\ OrdersOf(1, sqRegular)
    /\ sqSender.step = "smart" => sqSender.size = 0
    /\ sqSender.step = "regular" => sqSender.size = 1
    /\ \A w \in Webhooks : sqWebhook[w].size \in {0, 1}
    /\ sqUpset = {} => /\ sqSender.step = "look" => sqSmart = <<>>
                       /\ sqWanted = Base + Cardinality(Orders(sqRegular))

SignalInv ==
    /\ sqMode \in {"LONG", "BOTH"} /\ sqPosition \in Int /\ sqWanted \in Int
    /\ sqMode = "BOTH" => BothInv
    /\ sqMode = "LONG" => LongInv

LEMMA OrdersAppended ==
    ASSUME NEW queue \in Seq(Entries), NEW e \in Entries
    PROVE  /\ IsFiniteSet(Orders(queue)) /\ Cardinality(Orders(queue)) \in Nat
           /\ Cardinality(Orders(Append(queue, e))) =
                 Cardinality(Orders(queue)) + IF e.pill THEN 0 ELSE 1
  <1> DEFINE longer == Append(queue, e)
  <1>1. /\ Len(queue) \in Nat /\ DOMAIN queue = 1 .. Len(queue)
        /\ DOMAIN longer = 1 .. (Len(queue) + 1)
        /\ \A n \in DOMAIN queue : longer[n] = queue[n]
        /\ longer[Len(queue) + 1] = e
    OBVIOUS
  <1> HIDE DEF longer
  <1>2. IsFiniteSet(Orders(queue)) /\ Cardinality(Orders(queue)) \in Nat
    <2>1. IsFiniteSet(1 .. Len(queue))
      BY <1>1, FS_Interval
    <2>2. Orders(queue) \in SUBSET (1 .. Len(queue))
      BY <1>1 DEF Orders
    <2>3. QED
      BY <2>1, <2>2, FS_Subset, FS_CardinalityType
  <1>3. e.pill => Orders(longer) = Orders(queue)
    BY <1>1 DEF Orders
  <1>4. ~e.pill => Orders(longer) = Orders(queue) \cup {Len(queue) + 1}
    BY <1>1 DEF Orders
  <1>5. Len(queue) + 1 \notin Orders(queue)
    BY <1>1 DEF Orders
  <1>6. Cardinality(Orders(queue) \cup {Len(queue) + 1}) = Cardinality(Orders(queue)) + 1
    BY <1>2, <1>5, FS_AddElement
  <1>7. QED
    <2>1. Cardinality(Orders(longer)) =
             Cardinality(Orders(queue)) + IF e.pill THEN 0 ELSE 1
      <3>1. CASE e.pill
        BY <1>2, <1>3, <3>1
      <3>2. CASE ~e.pill
        BY <1>4, <1>6, <3>2
      <3>3. QED
        BY <3>1, <3>2
    <2>2. QED
      BY <1>2, <2>1 DEF longer

LEMMA OrdersTaken ==
    ASSUME NEW queue \in Seq(Entries), queue # <<>>
    PROVE  Cardinality(Orders(queue)) =
              Cardinality(Orders(Tail(queue))) + IF Head(queue).pill THEN 0 ELSE 1
  <1> DEFINE rest == Tail(queue)
             next == [n \in Orders(rest) |-> n + 1]
             others == Orders(queue) \ {1}
  <1>1. /\ Len(queue) \in Nat \ {0} /\ DOMAIN queue = 1 .. Len(queue)
        /\ rest \in Seq(Entries) /\ Head(queue) = queue[1] /\ Head(queue) \in Entries
        /\ DOMAIN rest = 1 .. (Len(queue) - 1)
        /\ \A n \in DOMAIN rest : rest[n] = queue[n + 1]
    OBVIOUS
  <1> HIDE DEF rest
  <1>2. /\ IsFiniteSet(Orders(queue)) /\ IsFiniteSet(Orders(rest))
        /\ Cardinality(Orders(queue)) \in Nat /\ Cardinality(Orders(rest)) \in Nat
    BY <1>1, OrdersAppended
  <1>3. ExistsBijection(Orders(rest), others)
    <2>1. next \in [Orders(rest) -> others]
      BY <1>1 DEF Orders
    <2>2. \A m, n \in Orders(rest) : m # n => next[m] # next[n]
      BY <1>1 DEF Orders
    <2>3. ASSUME NEW m \in others PROVE \E n \in Orders(rest) : next[n] = m
      <3>1. m - 1 \in Orders(rest) /\ (m - 1) + 1 = m
        BY <1>1 DEF Orders
      <3>2. QED
        BY <3>1
    <2>4. next \in Bijection(Orders(rest), others)
      BY <2>1, <2>2, <2>3, Zenon DEF Bijection, Injection, Surjection, IsInjective
    <2>5. QED
      BY <2>4, Zenon DEF ExistsBijection
  <1>4. Cardinality(others) = Cardinality(Orders(rest))
    BY <1>2, <1>3, FS_Bijection
  <1>5. Cardinality(others) =
           IF 1 \in Orders(queue) THEN Cardinality(Orders(queue)) - 1
           ELSE Cardinality(Orders(queue))
    BY <1>2, FS_RemoveElement
  <1>6. 1 \in Orders(queue) <=> ~Head(queue).pill
    BY <1>1 DEF Orders
  <1>7. QED
    BY <1>2, <1>4, <1>5, <1>6 DEF rest

\* What becomes of the orders in a queue at its end and at its head.
LEMMA SizesAppended ==
    ASSUME NEW queue \in Seq(Entries), NEW e \in Entries, NEW size
    PROVE  /\ OnlyPills(queue) /\ e.pill => OnlyPills(Append(queue, e))
           /\ OrdersOf(size, queue) /\ (e.pill \/ e.size = size) =>
                 OrdersOf(size, Append(queue, e))
           /\ Append(queue, e) # <<>>
           /\ Append(queue, e)[Len(Append(queue, e))] = e
  <1> DEFINE longer == Append(queue, e)
  <1>1. /\ Len(queue) \in Nat /\ Len(longer) = Len(queue) + 1
        /\ DOMAIN longer = (DOMAIN queue) \cup {Len(queue) + 1}
        /\ \A n \in DOMAIN queue : longer[n] = queue[n]
        /\ longer[Len(queue) + 1] = e
        /\ longer # <<>>
    OBVIOUS
  <1> HIDE DEF longer
  <1>2. QED
    BY <1>1 DEF OnlyPills, OrdersOf, longer

LEMMA SizesTaken ==
    ASSUME NEW queue \in Seq(Entries), queue # <<>>, NEW size
    PROVE  /\ OnlyPills(queue) => OnlyPills(Tail(queue)) /\ Head(queue).pill
           /\ OrdersOf(size, queue) =>
                 /\ OrdersOf(size, Tail(queue))
                 /\ Head(queue).pill \/ Head(queue).size = size
           /\ Tail(queue) # <<>> => Tail(queue)[Len(Tail(queue))] = queue[Len(queue)]
           /\ Tail(queue) = <<>> => Head(queue) = queue[Len(queue)]
  <1> DEFINE rest == Tail(queue)
  <1>1. /\ Len(queue) \in Nat \ {0} /\ Len(rest) = Len(queue) - 1
        /\ DOMAIN queue = 1 .. Len(queue)
        /\ DOMAIN rest = 1 .. (Len(queue) - 1)
        /\ Head(queue) = queue[1]
        /\ \A n \in DOMAIN rest : rest[n] = queue[n + 1]
        /\ rest \in Seq(Entries)
    OBVIOUS
  <1> HIDE DEF rest
  <1>2. rest = <<>> <=> Len(rest) = 0
    BY <1>1
  <1>3. 1 \in DOMAIN queue /\ \A n \in DOMAIN rest : n + 1 \in DOMAIN queue
    BY <1>1
  <1>4. OnlyPills(queue) => OnlyPills(rest) /\ Head(queue).pill
    BY <1>1, <1>3 DEF OnlyPills
  <1>5. OrdersOf(size, queue) =>
           OrdersOf(size, rest) /\ (Head(queue).pill \/ Head(queue).size = size)
    BY <1>1, <1>3 DEF OrdersOf
  <1>6. rest # <<>> => rest[Len(rest)] = queue[Len(queue)]
    BY <1>2, <1>1
  <1>7. rest = <<>> => Head(queue) = queue[Len(queue)]
    BY <1>2, <1>1
  <1>8. QED
    BY <1>4, <1>5, <1>6, <1>7 DEF rest

LEMMA SignalInit == SQ!Init => SignalInv
  <1> SUFFICES ASSUME SQ!Init PROVE SignalInv
    OBVIOUS
  <1>1. /\ sqMode \in Modes /\ sqRegular = <<>> /\ sqSmart = <<>> /\ sqPosition = 0
        /\ sqSender = SQ!Idle /\ sqWanted = 0 /\ sqUpset = {}
        /\ sqWebhook = [w \in Webhooks |-> SQ!NoSignal]
    BY DEF SQ!Init
  <1>2. sqSender.step = "idle" /\ \A w \in Webhooks : sqWebhook[w].size = 0
    BY <1>1 DEF SQ!Idle, SQ!NoSignal
  <1>3. Cardinality(Orders(sqRegular)) = 0
    <2>1. Orders(sqRegular) = {}
      BY <1>1 DEF Orders
    <2>2. QED
      BY <2>1, FS_EmptySet
  <1>4. OnlyPills(sqRegular) /\ OrdersOf(0, sqSmart) /\ OrdersOf(1, sqRegular)
    BY <1>1 DEF OnlyPills, OrdersOf
  <1>5. LastTarget = 0 /\ Base = 0
    BY <1>1, <1>2 DEF LastTarget, Base
  <1>6. BothInv
    BY <1>1, <1>2, <1>4, <1>5 DEF BothInv
  <1>7. LongInv
    BY <1>1, <1>2, <1>3, <1>4, <1>5 DEF LongInv
  <1>8. QED
    BY <1>1, <1>6, <1>7, ModesAssumption DEF SignalInv

\* A signal or the square-off queues an order: it is the last target of a BOTH
\* strategy; of a LONG one it is an entry more, or the exit of all.
LEMMA SignalIsQueued ==
    ASSUME QueueInv, SignalInv, NEW size \in OrderSizes, SQ!QueueOrder(size),
           sqMode = "LONG" => size \in {0, 1},
           sqSquared' = sqSquared \/ (sqSquared' = TRUE /\ size = 0),
           sqMode = "LONG" => \A w \in Webhooks : sqWebhook'[w].size \in {0, 1},
           UNCHANGED <<sqMode, sqSender, sqPosition>>
    PROVE  SignalInv'
  <1>1. QueueType /\ sqMode \in {"LONG", "BOTH"} /\ sqPosition \in Int /\ sqWanted \in Int
    BY DEF QueueInv, SignalInv
  <1>2. size \in Int
    BY DEF OrderSizes
  <1>3. /\ sqWanted' \in Int
        /\ sqUpset' = {} => sqUpset = {}
        /\ sqUpset' = {} /\ sqMode = "BOTH" => sqWanted' = size
        /\ sqUpset' = {} /\ sqMode = "LONG" /\ size = 0 => sqWanted' = 0 /\ ~SQ!RegularMixes
        /\ sqUpset' = {} /\ sqMode = "LONG" /\ size = 1 => sqWanted' = sqWanted + 1
    BY <1>1, <1>2 DEF SQ!QueueOrder, SQ!IsExit
  <1>4. CASE sqMode = "BOTH"
    <2>1. PICK e : e = SQ!Unseen(size)
      OBVIOUS
    <2>2. e \in Entries /\ e.size = size
      BY <1>1, <2>1 DEF SQ!Unseen, SQ!Order, Entries, QueueType
    <2>3. sqSmart' = Append(sqSmart, e) /\ sqRegular' = sqRegular
      BY <1>4, <2>1 DEF SQ!QueueOrder, SQ!IsSmart
    <2>4. sqSmart' # <<>> /\ sqSmart'[Len(sqSmart')].size = size
      BY <1>1, <2>2, <2>3, SizesAppended DEF QueueType
    <2>5. LastTarget' = size
      BY <2>4 DEF LastTarget
    <2>6. BothInv'
      BY <1>3, <1>4, <2>3, <2>5 DEF BothInv, SignalInv
    <2>7. QED
      BY <1>1, <1>3, <1>4, <2>6 DEF SignalInv
  <1>5. CASE sqMode = "LONG" /\ size = 0
    <2>1. PICK e : e = SQ!Unseen(0)
      OBVIOUS
    <2>2. e \in Entries /\ e.size = 0
      BY <1>1, <2>1 DEF SQ!Unseen, SQ!Order, Entries, QueueType, OrderSizes
    <2>3. sqSmart' = Append(sqSmart, e) /\ sqRegular' = sqRegular
      BY <1>5, <2>1 DEF SQ!QueueOrder, SQ!IsSmart, SQ!IsExit
    <2>4. sqSmart' # <<>> /\ OrdersOf(0, sqSmart')
      BY <1>1, <1>5, <2>2, <2>3, SizesAppended DEF QueueType, SignalInv, LongInv
    <2>5. Base' = 0
      BY <2>4 DEF Base
    <2>6. sqUpset' = {} => Cardinality(Orders(sqRegular')) = 0 /\ sqSender.step # "look"
      <3>1. SUFFICES ASSUME sqUpset' = {}
                     PROVE  Cardinality(Orders(sqRegular')) = 0 /\ sqSender.step # "look"
        OBVIOUS
      <3>2. Orders(sqRegular) = {} /\ sqSender.step # "look"
        BY <1>3, <1>5, <3>1 DEF SQ!RegularMixes, Orders
      <3>3. QED
        BY <2>3, <3>2, FS_EmptySet
    <2>7. LongInv'
      BY <1>3, <1>5, <2>3, <2>4, <2>5, <2>6 DEF LongInv, SignalInv
    <2>8. QED
      BY <1>1, <1>3, <1>5, <2>7 DEF SignalInv
  <1>6. CASE sqMode = "LONG" /\ size = 1
    <2>1. PICK e : e = SQ!Order(1)
      OBVIOUS
    <2>2. e \in Entries /\ e.size = 1 /\ ~e.pill
      BY <1>1, <2>1 DEF SQ!Order, Entries, QueueType, OrderSizes
    <2>3. sqRegular' = Append(sqRegular, e) /\ sqSmart' = sqSmart
      BY <1>6, <2>1 DEF SQ!QueueOrder, SQ!IsSmart, SQ!IsExit
    <2>4. OrdersOf(1, sqRegular')
      BY <1>1, <1>6, <2>2, <2>3, SizesAppended DEF QueueType, SignalInv, LongInv
    <2>5. /\ Cardinality(Orders(sqRegular)) \in Nat
          /\ Cardinality(Orders(sqRegular')) = Cardinality(Orders(sqRegular)) + 1
      BY <1>1, <2>2, <2>3, OrdersAppended DEF QueueType
    <2>6. Base' = Base /\ Base \in Int
      BY <1>1, <2>3 DEF Base
    <2>7. sqUpset' = {} => sqWanted' = Base' + Cardinality(Orders(sqRegular'))
      <3>1. sqUpset' = {} => sqWanted = Base + Cardinality(Orders(sqRegular))
        BY <1>3, <1>6 DEF SignalInv, LongInv
      <3>2. QED
        BY <1>3, <1>6, <2>5, <2>6, <3>1
    <2>8. LongInv'
      BY <1>3, <1>6, <2>3, <2>4, <2>7 DEF LongInv, SignalInv
    <2>9. QED
      BY <1>1, <1>3, <1>6, <2>8 DEF SignalInv
  <1>7. QED
    BY <1>1, <1>4, <1>5, <1>6

\* The thread takes an order or looks for one ...
LEMMA TakeSmartKeeps ==
    ASSUME QueueInv, SignalInv, SQ!TakeSmart PROVE SignalInv'
  <1> DEFINE first == Head(sqSmart)
  <1>1. /\ QueueType /\ sqMode \in {"LONG", "BOTH"} /\ sqPosition \in Int /\ sqWanted \in Int
        /\ sqSmart # <<>> /\ sqSmart' = Tail(sqSmart) /\ SQ!Take(sqSmart, "smart")
        /\ sqSender = SQ!Idle
        /\ UNCHANGED <<sqMode, sqRegular, sqPosition, sqWebhook, sqWanted, sqUpset>>
    BY DEF QueueInv, SignalInv, SQ!TakeSmart
  <1>2. first \in Entries /\ ~first.pill
    BY <1>1, EntryTaken DEF QueueInv, QueueType
  <1>3. sqSender'.step = "smart" /\ sqSender'.size = first.size /\ sqSender.step = "idle"
    BY <1>1, <1>2 DEF SQ!Take, SQ!Idle
  <1>4. CASE sqMode = "BOTH"
    <2>1. LastTarget = sqSmart[Len(sqSmart)].size
      BY <1>1 DEF LastTarget
    <2>2. LastTarget' = LastTarget
      <3>1. /\ Tail(sqSmart) # <<>> => Tail(sqSmart)[Len(Tail(sqSmart))] = sqSmart[Len(sqSmart)]
            /\ Tail(sqSmart) = <<>> => first = sqSmart[Len(sqSmart)]
        BY <1>1, SizesTaken DEF QueueType
      <3>2. QED
        BY <1>1, <1>3, <2>1, <3>1 DEF LastTarget
    <2>3. QED
      BY <1>1, <1>3, <1>4, <2>2 DEF SignalInv, BothInv
  <1>5. CASE sqMode = "LONG"
    <2>1. OrdersOf(0, sqSmart') /\ first.size = 0
      BY <1>1, <1>2, <1>5, SizesTaken DEF QueueType, SignalInv, LongInv
    <2>2. Base = 0 /\ Base' = 0
      BY <1>1, <1>3 DEF Base
    <2>3. LongInv'
      BY <1>1, <1>3, <1>5, <2>1, <2>2 DEF SignalInv, LongInv
    <2>4. QED
      BY <1>1, <1>5, <2>3 DEF SignalInv
  <1>6. QED
    BY <1>1, <1>4, <1>5

LEMMA TakeRegularKeeps ==
    ASSUME QueueInv, SignalInv, SQ!TakeRegular PROVE SignalInv'
  <1> DEFINE first == Head(sqRegular)
  <1>1. /\ QueueType /\ sqMode \in {"LONG", "BOTH"} /\ sqPosition \in Int /\ sqWanted \in Int
        /\ sqSender.step = "look"
        /\ sqRegular # <<>> /\ sqRegular' = Tail(sqRegular) /\ SQ!Take(sqRegular, "regular")
        /\ UNCHANGED <<sqMode, sqSmart, sqPosition, sqWebhook, sqWanted, sqUpset>>
    BY DEF QueueInv, SignalInv, SQ!TakeRegular
  <1>2. first \in Entries
    BY <1>1, EntryTaken DEF QueueType
  <1>3. /\ first.pill => sqSender'.step = "ended"
        /\ ~first.pill => sqSender'.step = "regular" /\ sqSender'.size = first.size
    BY <1>1, <1>2 DEF SQ!Take, SQ!Idle
  <1>4. CASE sqMode = "BOTH"
    <2>1. OnlyPills(sqRegular') /\ first.pill
      BY <1>1, <1>4, SizesTaken DEF QueueType, SignalInv, BothInv
    <2>2. LastTarget' = LastTarget
      BY <1>1, <1>3, <2>1 DEF LastTarget
    <2>3. QED
      BY <1>1, <1>3, <1>4, <2>1, <2>2 DEF SignalInv, BothInv
  <1>5. CASE sqMode = "LONG"
    <2>1. OrdersOf(1, sqRegular') /\ (first.pill \/ first.size = 1)
      BY <1>1, <1>5, SizesTaken DEF QueueType, SignalInv, LongInv
    <2>2. Cardinality(Orders(sqRegular)) =
             Cardinality(Orders(sqRegular')) + IF first.pill THEN 0 ELSE 1
      BY <1>1, OrdersTaken DEF QueueType
    <2>3. Cardinality(Orders(sqRegular')) \in Nat
      BY <1>1, <1>2, EntryTaken, OrdersAppended DEF QueueType
    <2>4. sqUpset = {} => /\ sqSmart = <<>>
                          /\ sqWanted = Base + Cardinality(Orders(sqRegular))
      BY <1>1, <1>5 DEF SignalInv, LongInv
    <2>5. sqSmart = <<>> => Base = sqPosition
                            /\ Base' = sqPosition + IF first.pill THEN 0 ELSE 1
      BY <1>1, <1>3 DEF Base
    <2>6. sqUpset = {} => sqWanted = Base' + Cardinality(Orders(sqRegular'))
      <3>1. CASE first.pill
        BY <1>1, <2>2, <2>3, <2>4, <2>5, <3>1
      <3>2. CASE ~first.pill
        BY <1>1, <2>2, <2>3, <2>4, <2>5, <3>2
      <3>3. QED
        BY <3>1, <3>2
    <2>7. LongInv'
      BY <1>1, <1>3, <1>5, <2>1, <2>6 DEF SignalInv, LongInv
    <2>8. QED
      BY <1>1, <1>5, <2>7 DEF SignalInv
  <1>6. QED
    BY <1>1, <1>4, <1>5

LEMMA LookKeepsSignals ==
    ASSUME QueueInv, SignalInv, SQ!LookAtRegular \/ SQ!TakeNone PROVE SignalInv'
  <1>1. /\ QueueType
        /\ \/ /\ sqSender = SQ!Idle /\ sqSmart = <<>>
              /\ sqSender' = [sqSender EXCEPT !.step = "look"]
           \/ sqSender.step = "look" /\ sqSender' = SQ!Idle
        /\ UNCHANGED <<sqMode, sqRegular, sqSmart, sqPosition, sqWebhook, sqWanted, sqUpset>>
    BY DEF QueueInv, SQ!LookAtRegular, SQ!TakeNone
  <1>2. /\ sqSender.step \in {"idle", "look"} /\ sqSender'.step \in {"idle", "look"}
        /\ sqSender'.step = "look" => sqSmart = <<>>
    BY <1>1 DEF SQ!Idle
  <1>3. LastTarget' = LastTarget /\ Base' = Base
    BY <1>1, <1>2 DEF LastTarget, Base
  <1>4. BothInv => BothInv'
    BY <1>1, <1>2, <1>3 DEF BothInv
  <1>5. LongInv => LongInv'
    BY <1>1, <1>2, <1>3 DEF LongInv
  <1>6. QED
    BY <1>1, <1>4, <1>5 DEF SignalInv

\* ... and sends it, or fails to.
LEMMA SendKeepsSignals ==
    ASSUME QueueInv, SignalInv, SQ!Send PROVE SignalInv'
  <1>1. /\ QueueType /\ sqMode \in {"LONG", "BOTH"} /\ sqPosition \in Int /\ sqWanted \in Int
        /\ sqSender.step \in {"smart", "regular"}
        /\ sqPosition' = IF sqSender.step = "smart" THEN sqSender.size
                         ELSE sqPosition + sqSender.size
        /\ sqSender' = SQ!Idle
        /\ UNCHANGED <<sqMode, sqRegular, sqSmart, sqWebhook, sqWanted, sqUpset>>
    BY DEF QueueInv, SignalInv, SQ!Send, SQ!Done, SQ!InHand, SQ!Filled
  <1>2. sqSender.size \in Int /\ sqSender'.step = "idle"
    BY <1>1 DEF QueueType, OrderSizes, SQ!Idle
  <1>3. sqPosition' \in Int
    BY <1>1, <1>2
  <1>4. BothInv => BothInv'
    BY <1>1, <1>2 DEF BothInv, LastTarget
  <1>5. LongInv => LongInv'
    BY <1>1, <1>2 DEF LongInv, Base
  <1>6. QED
    BY <1>1, <1>3, <1>4, <1>5 DEF SignalInv

LEMMA SendFailsKeeps ==
    ASSUME SignalInv, SQ!SendFails PROVE SignalInv'
  <1>1. /\ sqSender' = SQ!Idle /\ sqUpset' = sqUpset \cup {"failure"}
        /\ UNCHANGED <<sqMode, sqRegular, sqSmart, sqPosition, sqWebhook, sqWanted>>
    BY DEF SQ!SendFails, SQ!Done
  <1>2. sqSender'.step = "idle" /\ sqUpset' # {}
    BY <1>1 DEF SQ!Idle
  <1>3. QED
    BY <1>1, <1>2 DEF SignalInv, BothInv, LongInv

LEMMA GiveUpKeepsSignals ==
    ASSUME QueueInv, SignalInv, SQ!GiveUp PROVE SignalInv'
  <1>1. /\ sqPosition' \in {sqPosition} \cup {f \in {SQ!Filled} : SQ!InHand}
        /\ sqSender'.step \in {"dead", "lost"} /\ sqUpset' # {}
        /\ UNCHANGED <<sqMode, sqRegular, sqSmart, sqWebhook, sqWanted>>
    BY DEF SQ!GiveUp, SQ!Idle
  <1>2. sqPosition \in Int /\ sqSender.size \in Int
    BY DEF SignalInv, QueueInv, QueueType, OrderSizes
  <1>3. SQ!Filled \in Int
    BY <1>2 DEF SQ!Filled
  <1>4. sqPosition' \in Int
    BY <1>1, <1>2, <1>3
  <1>5. QED
    BY <1>1, <1>4 DEF SignalInv, BothInv, LongInv

LEMMA ShutdownKeepsSignals ==
    ASSUME QueueInv, SignalInv, SQ!Shutdown PROVE SignalInv'
  <1>1. /\ QueueType /\ sqRegular' = Append(sqRegular, SQ!Pill)
        /\ UNCHANGED <<sqMode, sqSmart, sqPosition, sqSender, sqWebhook, sqWanted, sqUpset>>
    BY DEF QueueInv, SQ!Shutdown, SQ!Begin
  <1>2. PICK e : e = SQ!Pill
    OBVIOUS
  <1>3. e \in Entries /\ e.pill
    BY <1>2 DEF SQ!Pill, Entries, OrderSizes
  <1>4. /\ OnlyPills(sqRegular) => OnlyPills(sqRegular')
        /\ OrdersOf(1, sqRegular) => OrdersOf(1, sqRegular')
    BY <1>1, <1>2, <1>3, SizesAppended DEF QueueType
  <1>5. Cardinality(Orders(sqRegular')) = Cardinality(Orders(sqRegular))
    BY <1>1, <1>2, <1>3, OrdersAppended DEF QueueType
  <1>6. LastTarget' = LastTarget /\ Base' = Base
    BY <1>1 DEF LastTarget, Base
  <1>7. QED
    BY <1>1, <1>4, <1>5, <1>6 DEF SignalInv, BothInv, LongInv

\* Nothing that matters changes.
LEMMA SignalsStutter ==
    ASSUME SignalInv,
           UNCHANGED <<sqMode, sqRegular, sqSmart, sqPosition, sqSender, sqWanted, sqUpset>>,
           sqMode = "LONG" => \A w \in Webhooks : sqWebhook'[w].size \in {0, 1}
    PROVE  SignalInv'
  <1>1. LastTarget' = LastTarget /\ Base' = Base
    BY DEF LastTarget, Base
  <1>2. QED
    BY <1>1 DEF SignalInv, BothInv, LongInv

LEMMA SignalStep == QueueInv /\ SignalInv /\ [SQ!Next]_sqVars => SignalInv'
  <1> SUFFICES ASSUME QueueInv, SignalInv, [SQ!Next]_sqVars PROVE SignalInv'
    OBVIOUS
  <1>1. QueueType /\ (sqMode = "LONG" => \A w \in Webhooks : sqWebhook[w].size \in {0, 1})
    BY DEF QueueInv, SignalInv, LongInv
  <1>2. CASE UNCHANGED sqVars \/ SQ!Tick
    BY <1>1, <1>2, SignalsStutter DEF sqVars, SQ!Tick
  <1>3. ASSUME NEW w \in Webhooks, NEW size \in {-1, 0, 1}, SQ!Receive(w, size)
        PROVE  SignalInv'
    <2>1. sqMode = "LONG" => \A v \in Webhooks : sqWebhook'[v].size \in {0, 1}
      BY <1>1, <1>3 DEF SQ!Receive, SQ!Sizes, QueueType
    <2>2. QED
      BY <1>3, <2>1, SignalsStutter DEF SQ!Receive
  <1>4. ASSUME NEW w \in Webhooks, SQ!Queue(w)
        PROVE  SignalInv'
    <2>1. PICK size \in OrderSizes : size = sqWebhook[w].size
      BY <1>1 DEF QueueType
    <2>2. SQ!QueueOrder(size) /\ UNCHANGED <<sqMode, sqSender, sqPosition, sqSquared>>
      BY <1>4, <2>1 DEF SQ!Queue
    <2>3. sqMode = "LONG" => \A v \in Webhooks : sqWebhook'[v].size \in {0, 1}
      BY <1>1, <1>4 DEF SQ!Queue, SQ!NoSignal, QueueType
    <2>4. QED
      BY <1>1, <2>1, <2>2, <2>3, SignalIsQueued
  <1>5. CASE SQ!SquareOff
    <2>1. /\ SQ!QueueOrder(0) /\ sqSquared' = TRUE /\ 0 \in OrderSizes
          /\ UNCHANGED <<sqMode, sqSender, sqPosition, sqWebhook>>
      BY <1>5 DEF SQ!SquareOff, OrderSizes
    <2>2. QED
      BY <1>1, <2>1, SignalIsQueued
  <1>6. CASE SQ!TakeSmart \/ SQ!LookAtRegular \/ SQ!TakeRegular \/ SQ!TakeNone
    BY <1>6, TakeSmartKeeps, TakeRegularKeeps, LookKeepsSignals
  <1>7. CASE SQ!Send \/ SQ!SendFails \/ SQ!Shutdown \/ SQ!GiveUp
    BY <1>7, SendKeepsSignals, SendFailsKeeps, ShutdownKeepsSignals, GiveUpKeepsSignals
  <1>8. QED
    BY <1>2, <1>3, <1>4, <1>5, <1>6, <1>7 DEF SQ!Next

\* Once the queues are empty the position is the one that the signals asked for in
\* their order, unless what upsets it happened.
THEOREM ServerKeepsSignalOrder == Spec => []SignalsKeepTheirOrder
  <1>1. [Next]_vars => [SQ!Next]_sqVars
    BY DEF Next, vars, Settle, Expire, SquareOff, Approve, DownloadData, Host,
           Signal, Subscribe, Switch
  <1>2. QueueInv /\ SignalInv => SignalsKeepTheirOrder
    <2> SUFFICES ASSUME SignalInv, SQ!Drained, sqUpset = {} PROVE sqPosition = sqWanted
      BY DEF SignalsKeepTheirOrder, SQ!SignalsKeepTheirOrder
    <2>1. /\ sqMode \in {"LONG", "BOTH"} /\ sqPosition \in Int /\ sqSender.step = "idle"
          /\ sqSmart = <<>> /\ sqRegular = <<>>
      BY DEF SignalInv, SQ!Drained
    <2>2. LastTarget = sqPosition /\ Base = sqPosition
      BY <2>1 DEF LastTarget, Base
    <2>3. Cardinality(Orders(sqRegular)) = 0
      <3>1. Orders(sqRegular) = {}
        BY <2>1 DEF Orders
      <3>2. QED
        BY <3>1, FS_EmptySet
    <2>4. QED
      BY <2>1, <2>2, <2>3 DEF SignalInv, BothInv, LongInv
  <1>3. QED
    BY <1>1, <1>2, QueueInit, QueueStep, SignalInit, SignalStep, PTL DEF Spec, Init

-----------------------------------------------------------------------------
(* EngineThreads: the engine that runs is the one that the mode asks for *)

StopSteps == {"join watcher", "join loop", "join poller"}
RequestSteps == {"idle", "start", "stop"} \cup StopSteps

EngineType ==
    /\ etMode \in BOOLEAN
    /\ etCall \in [Toggles -> RequestSteps]
    /\ etThread \in Pollers \cup {0}
    /\ etPoller \in [Pollers -> {"none", "working", "told"}]
    /\ etWatcher = [w \in Watchers |-> etWatcher[w]]
    /\ etWs \in BOOLEAN /\ etRunning \in BOOLEAN /\ etPolls \in BOOLEAN
    /\ etLoopThread \in Loops \cup {0}
    /\ etLoop \in [Loops -> {"none", "current", "old"}]
    /\ etMonitor \in {"idle", "joining"}
    /\ etFailed \in BOOLEAN /\ etCrossed \in BOOLEAN

Upgrading == \E w \in Watchers : etWatcher[w] = "joining"
At(step) == \E r \in Toggles : etCall[r] = step

\* Whoever stops or replaces an engine has the lock.
LockHeld ==
    /\ \A r \in Toggles : etCall[r] \in StopSteps <=> etLock = <<"request", r>>
    /\ \A w \in Watchers : etWatcher[w] = "joining" <=> etLock = <<"watcher", w>>

\* The handle names the poller that works, which is told to end before the engine
\* that replaces it is let go, and any other that is alive.
OnePoller ==
    /\ ET!Working \subseteq {etThread}
    /\ etThread # 0 /\ ~Upgrading /\ ~At("join poller") => etPoller[etThread] = "working"
    /\ Upgrading \/ At("join poller") => ET!Working = {}
    /\ etThread # 0 /\ etRunning => Upgrading
    /\ "poller" \notin etSlow => ET!Alive(etPoller) \subseteq {etThread}

\* An engine that runs is set; its fallback has a handle while it polls and until
\* the join, and the handle names any loop that is alive.
OneLoop ==
    /\ etRunning => etWs
    /\ At("join loop") \/ At("join poller") => ~etRunning
    /\ etPolls \/ etMonitor = "joining" => etRunning /\ etLoopThread # 0
    /\ etMonitor = "joining" => ~etPolls
    /\ etLoopThread # 0 => etPolls \/ etMonitor = "joining" \/ At("join loop")
    /\ "loop" \notin etSlow => ET!Alive(etLoop) \subseteq {etLoopThread}

\* Nothing runs after a failed start.  Of requests that do not cross one is under
\* way, and carries out the mode; after it, the engine follows the mode.
Obeyed ==
    /\ etFailed => ~etRunning /\ (etThread = 0 \/ etLock # ET!Free)
    /\ Upgrading /\ ~etFailed => etRunning
    /\ ~etCrossed =>
          /\ \A q, r \in Toggles : etCall[q] # "idle" /\ etCall[r] # "idle" => q = r
          /\ \A r \in Toggles : etCall[r] # "idle" => (etMode <=> etCall[r] = "start")
          /\ ~etFailed /\ (\A r \in Toggles : etCall[r] = "idle") =>
                (etMode <=> ET!Working # {} \/ etRunning)

EnginesInv == EngineType /\ LockHeld /\ OnePoller /\ OneLoop /\ Obeyed


\* What the lock names tells who has it.
LEMMA LockNames ==
    \A q, r :
        /\ <<"request", q>> = <<"request", r>> => q = r
        /\ <<"watcher", q>> = <<"watcher", r>> => q = r
        /\ <<"request", q>> # <<"watcher", r>>
        /\ <<"request", q>> # ET!Free /\ <<"watcher", q>> # ET!Free
  BY DEF ET!Free

\* With a free lock nobody stops or replaces an engine,
LEMMA NobodyHolds ==
    ASSUME LockHeld, etLock = ET!Free
    PROVE  ~Upgrading /\ \A step \in StopSteps : ~At(step)
  BY LockNames DEF LockHeld, Upgrading, At

\* and with the lock of a request or of a watcher nobody else does.
LEMMA RequestHolds ==
    ASSUME LockHeld, NEW r \in Toggles, etCall[r] \in StopSteps
    PROVE  /\ etLock = <<"request", r>> /\ etLock # ET!Free /\ ~Upgrading
           /\ \A q \in Toggles : etCall[q] \in StopSteps => q = r
  <1>1. etLock = <<"request", r>>
    BY DEF LockHeld
  <1>2. QED
    BY <1>1, LockNames DEF LockHeld, Upgrading

LEMMA WatcherHolds ==
    ASSUME LockHeld, NEW w \in Watchers, etWatcher[w] = "joining"
    PROVE  /\ etLock = <<"watcher", w>> /\ etLock # ET!Free /\ Upgrading
           /\ \A r \in Toggles : etCall[r] \notin StopSteps
           /\ \A v \in Watchers : etWatcher[v] = "joining" => v = w
  <1>1. etLock = <<"watcher", w>>
    BY DEF LockHeld
  <1>2. QED
    BY <1>1, LockNames DEF LockHeld, Upgrading

\* Steps that leave the pollers alone and neither begin nor end an upgrade or a stop
\* keep what is said about the pollers; if they leave the modes and the requests
\* alone, too, the engine still does what it was told.
LEMMA PollersStay ==
    ASSUME OnePoller, UNCHANGED <<etThread, etPoller, etRunning>>, Upgrading' = Upgrading,
           At("join poller")' = At("join poller"),
           "poller" \in etSlow => "poller" \in etSlow'
    PROVE  OnePoller'
  <1>1. ET!Working' = ET!Working /\ ET!Alive(etPoller)' = ET!Alive(etPoller)
    BY DEF ET!Working, ET!Alive
  <1>2. QED
    BY <1>1 DEF OnePoller

LEMMA ObeyedStays ==
    ASSUME Obeyed, Upgrading' = Upgrading, ET!Working' = ET!Working,
           UNCHANGED <<etFailed, etRunning, etThread, etLock, etMode, etCall, etCrossed>>
    PROVE  Obeyed'
  BY DEF Obeyed

\* set_analyze_mode changes what the next step should do, and nothing else.
LEMMA SetModeKeeps ==
    ASSUME EnginesInv, NEW r \in Toggles, NEW on \in BOOLEAN, ET!SetMode(r, on)
    PROVE  EnginesInv'
  <1> USE EnginesAssumption
          DEF EnginesInv, EngineType, StopSteps, ET!SetMode, ET!switch, ET!threads,
              ET!engine, ET!Goto
  <1>1. EngineType'
    BY DEF RequestSteps
  <1>2. LockHeld'
    BY DEF LockHeld, ET!Free
  <1>3. OnePoller'
    <2>1. \A step \in StopSteps : At(step)' <=> At(step)
      BY DEF At
    <2>2. ET!Working' = ET!Working /\ ET!Alive(etPoller)' = ET!Alive(etPoller)
      BY DEF ET!Working, ET!Alive
    <2>3. QED
      BY <2>1, <2>2 DEF OnePoller, Upgrading
  <1>4. OneLoop'
    BY DEF OneLoop, LockHeld, At, ET!Alive, OnePoller, ET!Free
  <1>5. Obeyed'
    <2>1. /\ UNCHANGED <<etFailed, etRunning, etThread, etLock>>
          /\ Upgrading' = Upgrading /\ ET!Working' = ET!Working
      BY DEF Upgrading, ET!Working
    <2>2. ASSUME ~etCrossed'
          PROVE  /\ etMode' = on
                 /\ \A q \in Toggles : etCall'[q] =
                        IF q = r THEN IF on THEN "start" ELSE "stop" ELSE "idle"
      BY <2>2
    <2>3. QED
      BY <2>1, <2>2 DEF Obeyed
  <1>6. QED
    BY <1>1, <1>2, <1>3, <1>4, <1>5

\* An engine is started where none runs, or the start fails.
LEMMA StartExecutionEngineKeeps ==
    ASSUME EnginesInv, NEW r \in Toggles, ET!StartExecutionEngine(r)
    PROVE  EnginesInv'
  <1> USE EnginesAssumption
          DEF EnginesInv, EngineType, StopSteps, ET!StartExecutionEngine, ET!switch,
              ET!threads, ET!engine, ET!Goto
  <1>1. EngineType'
    BY DEF RequestSteps, ET!EngineRuns, ET!StartWebSocket, ET!StartPolling, ET!StartWatcher
  <1>2. LockHeld'
    <2>1. etLock' = etLock
      BY DEF ET!StartPolling
    <2>2. \A w \in Watchers : (etWatcher[w] = "joining")' <=> etWatcher[w] = "joining"
      BY DEF ET!StartPolling, ET!StartWatcher
    <2>3. QED
      BY <2>1, <2>2 DEF LockHeld
  <1>3. OnePoller'
    <2>1. \A step \in StopSteps : At(step)' <=> At(step)
      BY DEF At
    <2>2. ~Upgrading /\ ~At("join poller")
      BY NobodyHolds
    <2>3. ~Upgrading'
      BY <2>2 DEF Upgrading, ET!StartPolling, ET!StartWatcher
    <2>4. CASE /\ UNCHANGED ET!threads /\ etSlow' = etSlow
               /\ etRunning' => etRunning \/ ~ET!EngineRuns
      <3>1. ET!Working' = ET!Working /\ ET!Alive(etPoller)' = ET!Alive(etPoller)
        BY <2>4 DEF ET!Working, ET!Alive
      <3>2. QED
        BY <2>1, <2>2, <2>3, <2>4, <3>1 DEF OnePoller, ET!EngineRuns
    <2>5. CASE ~ET!EngineRuns /\ ET!StartPolling
      <3>1. etThread = 0 /\ ~etRunning
        BY <2>5 DEF ET!EngineRuns, OneLoop
      <3>2. ET!Working = {} /\ ("poller" \notin etSlow => ET!Alive(etPoller) = {})
        BY <3>1 DEF OnePoller, ET!Working, ET!Alive
      <3>3. PICK p \in Pollers : etThread' = p /\ etPoller' = [etPoller EXCEPT ![p] = "working"]
        BY <2>5 DEF ET!StartPolling
      <3>4. ET!Working' = {p} /\ ("poller" \notin etSlow => ET!Alive(etPoller)' = {p})
        BY <3>2, <3>3 DEF ET!Working, ET!Alive
      <3>5. etRunning' = etRunning /\ etSlow' = etSlow
        BY <2>5 DEF ET!StartPolling
      <3>6. QED
        BY <2>1, <2>2, <2>3, <3>1, <3>3, <3>4, <3>5 DEF OnePoller
    <2>6. QED
      BY <2>4, <2>5 DEF ET!StartWebSocket
  <1>4. OneLoop'
    <2>1. \A step \in StopSteps : At(step)' <=> At(step)
      BY DEF At
    <2>2. ~At("join loop") /\ ~At("join poller")
      BY LockNames DEF LockHeld, At
    <2>3. etPolls' = etPolls /\ etLoopThread' = etLoopThread /\ etLoop' = etLoop
          /\ etMonitor' = etMonitor /\ etSlow' = etSlow
      BY DEF ET!StartWebSocket, ET!StartPolling
    <2>4. etRunning => etRunning'
      BY DEF ET!StartWebSocket, ET!StartPolling, ET!EngineRuns, OneLoop
    <2>5. etRunning' => etWs'
      BY DEF ET!StartWebSocket, ET!StartPolling, OneLoop
    <2>6. ET!Alive(etLoop)' = ET!Alive(etLoop)
      BY <2>3 DEF ET!Alive
    <2>7. QED
      BY <2>1, <2>2, <2>3, <2>4, <2>5, <2>6 DEF OneLoop
  <1>5. Obeyed'
    <2>1. ~Upgrading /\ \A step \in StopSteps : ~At(step)
      BY NobodyHolds
    <2>2. ~Upgrading' /\ etLock' = etLock
      BY <2>1 DEF Upgrading, ET!StartPolling, ET!StartWatcher
    <2>3. etThread # 0 => ET!Working # {}
      BY <2>1 DEF OnePoller, ET!Working
    <2>4. ~etFailed' => ET!Working' # {} \/ etRunning'
      <3>1. CASE ET!EngineRuns /\ UNCHANGED <<ET!threads, ET!engine, etFailed>>
        BY <2>3, <3>1 DEF ET!EngineRuns, ET!Working
      <3>2. CASE ET!StartPolling
        BY <3>2 DEF ET!StartPolling, ET!Working
      <3>3. QED
        BY <3>1, <3>2 DEF ET!StartWebSocket
    <2>5. etFailed' => ~etRunning' /\ etThread' = 0
      <3>1. CASE ET!EngineRuns /\ UNCHANGED <<ET!threads, ET!engine, etFailed>>
        BY <3>1 DEF Obeyed
      <3>2. CASE ~ET!EngineRuns
        <4>1. etThread = 0 /\ ~etRunning
          BY <3>2 DEF ET!EngineRuns, OneLoop
        <4>2. QED
          BY <4>1 DEF ET!StartWebSocket, ET!StartPolling
      <3>3. QED
        BY <3>1, <3>2
    <2>6. ~etCrossed => etMode /\ \A q \in Toggles : etCall'[q] = "idle"
      BY DEF Obeyed
    <2>7. QED
      BY <2>2, <2>4, <2>5, <2>6 DEF Obeyed
  <1>6. QED
    BY <1>1, <1>2, <1>3, <1>4, <1>5

\* A stop takes the lock, stops the WebSocket engine, gives its fallback up,
LEMMA StopWatcherKeeps ==
    ASSUME EnginesInv, NEW r \in Toggles, ET!StopWatcher(r)
    PROVE  EnginesInv'
  <1> USE EnginesAssumption
          DEF EnginesInv, EngineType, StopSteps, ET!StopWatcher, ET!switch, ET!threads,
              ET!engine, ET!Goto
  <1>1. EngineType'
    BY DEF RequestSteps
  <1>2. LockHeld'
    BY DEF LockHeld, ET!Free
  <1>3. OnePoller'
    BY DEF OnePoller, LockHeld, Upgrading, At, ET!Working, ET!Alive, ET!Free, OneLoop,
           Obeyed
  <1>4. OneLoop'
    BY DEF OneLoop, LockHeld, At, ET!Alive, OnePoller, ET!Free
  <1>5. Obeyed'
    BY DEF Obeyed, LockHeld, OnePoller, OneLoop, Upgrading, At, ET!Working, ET!Free
  <1>6. QED
    BY <1>1, <1>2, <1>3, <1>4, <1>5

LEMMA StopWebSocketKeeps ==
    ASSUME EnginesInv, NEW r \in Toggles, ET!StopWebSocket(r)
    PROVE  EnginesInv'
  <1> USE EnginesAssumption
          DEF EnginesInv, EngineType, StopSteps, ET!StopWebSocket, ET!switch, ET!threads,
              ET!engine, ET!Goto
  <1>1. EngineType'
    BY DEF RequestSteps
  <1>2. LockHeld'
    BY DEF LockHeld, ET!Free
  <1>3. OnePoller'
    BY DEF OnePoller, LockHeld, Upgrading, At, ET!Working, ET!Alive, ET!Free, OneLoop,
           Obeyed
  <1>4. OneLoop'
    BY DEF OneLoop, LockHeld, At, ET!Alive, OnePoller, ET!Free
  <1>5. Obeyed'
    <2>1. ~Upgrading
      BY RequestHolds
    <2>2. QED
      BY <2>1 DEF Obeyed, Upgrading
  <1>6. QED
    BY <1>1, <1>2, <1>3, <1>4, <1>5

LEMMA StopPollingKeeps ==
    ASSUME EnginesInv, NEW r \in Toggles, ET!StopPolling(r)
    PROVE  EnginesInv'
  <1> USE EnginesAssumption
          DEF EnginesInv, EngineType, StopSteps, ET!StopPolling, ET!Told, ET!Join,
              ET!switch, ET!threads, ET!engine, ET!Goto
  <1>1. EngineType'
    BY DEF RequestSteps
  <1>2. LockHeld'
    BY DEF LockHeld, ET!Free
  <1>3. OnePoller'
    <2>1. ~Upgrading /\ \A q \in Toggles : etCall[q] \in StopSteps => q = r
      BY RequestHolds
    <2>2. ET!Working' = {}
      BY DEF OnePoller, ET!Working
    <2>3. etThread # 0 => etPoller[etThread] = "working"
      BY <2>1 DEF OnePoller, At
    <2>4. ET!Alive(etPoller)' = ET!Alive(etPoller)
      <3>1. etPoller' = [q \in Pollers |-> IF q = etThread THEN "told" ELSE etPoller[q]]
        OBVIOUS
      <3>2. \A q \in Pollers : etPoller'[q] # "none" <=> etPoller[q] # "none"
        BY <2>3, <3>1
      <3>3. DOMAIN etPoller = Pollers /\ DOMAIN etPoller' = Pollers
        BY <3>1
      <3>4. QED
        BY <3>2, <3>3 DEF ET!Alive
    <2>5. At("join poller")' /\ ~Upgrading'
      BY <2>1 DEF At, Upgrading
    <2>6. "poller" \in etSlow => "poller" \in etSlow'
      OBVIOUS
    <2>7. ~etRunning'
      BY DEF OneLoop, At
    <2>8. QED
      BY <2>2, <2>4, <2>5, <2>6, <2>7 DEF OnePoller
  <1>4. OneLoop'
    BY DEF OneLoop, LockHeld, At, ET!Alive, OnePoller, ET!Free
  <1>5. Obeyed'
    <2>1. ~Upgrading /\ ~Upgrading' /\ etLock # ET!Free
      BY RequestHolds DEF Upgrading
    <2>2. ~etRunning /\ ~etRunning'
      BY DEF OneLoop, At
    <2>3. ~etCrossed => \A q \in Toggles : etCall[q] # "idle" => q = r
      BY DEF Obeyed
    <2>4. ~etCrossed => ~etMode
      BY DEF Obeyed
    <2>5. etCall'[r] = "join poller" /\ \A q \in Toggles \ {r} : etCall'[q] = etCall[q]
      OBVIOUS
    <2>6. QED
      BY <2>1, <2>2, <2>3, <2>4, <2>5 DEF Obeyed
  <1>6. QED
    BY <1>1, <1>2, <1>3, <1>4, <1>5

\* and forgets the poller, told to end before.
LEMMA StoppedKeeps ==
    ASSUME EnginesInv, NEW r \in Toggles, ET!Stopped(r)
    PROVE  EnginesInv'
  <1> USE EnginesAssumption
          DEF EnginesInv, EngineType, StopSteps, ET!Stopped, ET!Join, ET!switch,
              ET!threads, ET!engine, ET!Goto
  <1>1. EngineType'
    BY DEF RequestSteps
  <1>2. LockHeld'
    <2>1. ~Upgrading /\ \A q \in Toggles : etCall'[q] \notin StopSteps
      BY RequestHolds
    <2>2. QED
      BY <2>1, LockNames DEF LockHeld, Upgrading
  <1>3. OnePoller'
    <2>1. ~Upgrading /\ \A q \in Toggles : etCall[q] \in StopSteps => q = r
      BY RequestHolds
    <2>2. ~Upgrading' /\ ~At("join poller")' /\ ~etRunning
      BY <2>1 DEF Upgrading, At, OneLoop
    <2>3. ET!Working' = {}
      BY DEF OnePoller, At, ET!Working
    <2>4. "poller" \notin etSlow' => ET!Alive(etPoller)' = {}
      <3>1. ET!Alive(etPoller)' = ET!Alive(etPoller)
        BY DEF ET!Alive
      <3>2. ASSUME "poller" \notin etSlow'
            PROVE  "poller" \notin etSlow /\ ~(etThread # 0 /\ etPoller[etThread] # "none")
        BY <3>2
      <3>3. \A q \in ET!Alive(etPoller) : q \in Pollers /\ etPoller[q] # "none"
        BY DEF ET!Alive
      <3>4. QED
        BY <3>1, <3>2, <3>3 DEF OnePoller
    <2>5. QED
      BY <2>2, <2>3, <2>4 DEF OnePoller
  <1>4. OneLoop'
    BY DEF OneLoop, LockHeld, At, ET!Alive, OnePoller, ET!Free
  <1>5. Obeyed'
    <2>1. ~Upgrading
      BY RequestHolds
    <2>2. ET!Working' = {} /\ ~etRunning'
      BY DEF OnePoller, OneLoop, At, ET!Working
    <2>3. ~etCrossed => ~etMode /\ \A q \in Toggles : etCall[q] # "idle" => q = r
      BY DEF Obeyed
    <2>4. etCall'[r] = "idle" /\ \A q \in Toggles \ {r} : etCall'[q] = etCall[q]
      OBVIOUS
    <2>5. QED
      BY <2>1, <2>2, <2>3, <2>4 DEF Obeyed, Upgrading
  <1>6. QED
    BY <1>1, <1>2, <1>3, <1>4, <1>5

LEMMA WakeKeeps ==
    ASSUME EnginesInv, NEW w \in Watchers, ET!Wake(w)
    PROVE  EnginesInv'
  <1> USE EnginesAssumption
          DEF EnginesInv, EngineType, StopSteps, ET!Wake, ET!switch, ET!threads, ET!engine,
              ET!Goto
  <1>1. EngineType'
    BY DEF RequestSteps
  <1>2. LockHeld'
    BY DEF LockHeld, ET!Free
  <1>3. OnePoller'
    <2>1. Upgrading' = Upgrading /\ At("join poller")' = At("join poller")
      BY DEF Upgrading, At
    <2>2. QED
      BY <2>1, PollersStay
  <1>4. OneLoop'
    BY DEF OneLoop, LockHeld, At, ET!Alive, OnePoller, ET!Free
  <1>5. Obeyed'
    <2>1. Upgrading' = Upgrading /\ ET!Working' = ET!Working
      BY DEF Upgrading, ET!Working
    <2>2. QED
      BY <2>1, ObeyedStays
  <1>6. QED
    BY <1>1, <1>2, <1>3, <1>4, <1>5

\* An upgrade starts the WebSocket engine and tells the poller to end,
LEMMA UpgradeKeeps ==
    ASSUME EnginesInv, NEW w \in Watchers, ET!Upgrade(w)
    PROVE  EnginesInv'
  <1> USE EnginesAssumption
          DEF EnginesInv, EngineType, StopSteps, ET!Upgrade, ET!Upgradable,
              ET!StartWebSocket, ET!Told, ET!switch, ET!threads, ET!engine, ET!Goto
  <1>1. EngineType'
    BY DEF RequestSteps
  <1>2. LockHeld'
    BY DEF LockHeld, ET!Free
  <1>3. OnePoller'
    BY DEF OnePoller, LockHeld, Upgrading, At, ET!Working, ET!Alive, ET!Free, OneLoop,
           Obeyed
  <1>4. OneLoop'
    BY DEF OneLoop, LockHeld, At, ET!Alive, OnePoller, ET!Free
  <1>5. Obeyed'
    BY DEF Obeyed, LockHeld, OnePoller, OneLoop, Upgrading, At, ET!Working, ET!Free
  <1>6. QED
    BY <1>1, <1>2, <1>3, <1>4, <1>5

LEMMA NoUpgradeKeeps ==
    ASSUME EnginesInv, NEW w \in Watchers, ET!NoUpgrade(w)
    PROVE  EnginesInv'
  <1> USE EnginesAssumption
          DEF EnginesInv, EngineType, StopSteps, ET!NoUpgrade, ET!switch, ET!threads,
              ET!engine, ET!Goto
  <1>1. EngineType'
    BY DEF RequestSteps
  <1>2. LockHeld'
    BY DEF LockHeld, ET!Free
  <1>3. OnePoller'
    <2>1. Upgrading' = Upgrading /\ At("join poller")' = At("join poller")
      BY DEF Upgrading, At
    <2>2. QED
      BY <2>1, PollersStay
  <1>4. OneLoop'
    BY DEF OneLoop, LockHeld, At, ET!Alive, OnePoller, ET!Free
  <1>5. Obeyed'
    <2>1. Upgrading' = Upgrading /\ ET!Working' = ET!Working
      BY DEF Upgrading, ET!Working
    <2>2. QED
      BY <2>1, ObeyedStays
  <1>6. QED
    BY <1>1, <1>2, <1>3, <1>4, <1>5

\* and lets go when it has ended or for five seconds has not.
LEMMA UpgradedKeeps ==
    ASSUME EnginesInv, NEW w \in Watchers, ET!Upgraded(w)
    PROVE  EnginesInv'
  <1> USE EnginesAssumption
          DEF EnginesInv, EngineType, StopSteps, ET!Upgraded, ET!Join, ET!switch,
              ET!threads, ET!engine, ET!Goto
  <1>1. EngineType'
    BY DEF RequestSteps
  <1>2. LockHeld'
    <2>1. \A v \in Watchers : etWatcher'[v] # "joining"
      BY WatcherHolds
    <2>2. \A r \in Toggles : etCall'[r] \notin StopSteps
      BY WatcherHolds
    <2>3. QED
      BY <2>1, <2>2, LockNames DEF LockHeld
  <1>3. OnePoller'
    BY DEF OnePoller, LockHeld, Upgrading, At, ET!Working, ET!Alive, ET!Free, OneLoop,
           Obeyed
  <1>4. OneLoop'
    BY DEF OneLoop, LockHeld, At, ET!Alive, OnePoller, ET!Free
  <1>5. Obeyed'
    BY DEF Obeyed, LockHeld, OnePoller, OneLoop, Upgrading, At, ET!Working, ET!Free
  <1>6. QED
    BY <1>1, <1>2, <1>3, <1>4, <1>5

LEMMA PollerEndsKeeps ==
    ASSUME EnginesInv, NEW p \in Pollers, ET!PollerEnds(p)
    PROVE  EnginesInv'
  <1> USE EnginesAssumption
          DEF EnginesInv, EngineType, StopSteps, ET!PollerEnds, ET!switch, ET!threads,
              ET!engine, ET!Goto
  <1>1. EngineType'
    BY DEF RequestSteps
  <1>2. LockHeld'
    BY DEF LockHeld, ET!Free
  <1>3. OnePoller'
    <2>1. ET!Working' = ET!Working /\ ET!Alive(etPoller)' \subseteq ET!Alive(etPoller)
      BY DEF ET!Working, ET!Alive
    <2>2. etThread # 0 =>
              (etPoller[etThread] = "working" => etPoller'[etThread] = "working")
      OBVIOUS
    <2>3. Upgrading' = Upgrading /\ At("join poller")' = At("join poller")
      BY DEF Upgrading, At
    <2>4. QED
      BY <2>1, <2>2, <2>3 DEF OnePoller
  <1>4. OneLoop'
    BY DEF OneLoop, LockHeld, At, ET!Alive, OnePoller, ET!Free
  <1>5. Obeyed'
    <2>1. Upgrading' = Upgrading /\ ET!Working' = ET!Working
      BY DEF Upgrading, ET!Working
    <2>2. QED
      BY <2>1, ObeyedStays
  <1>6. QED
    BY <1>1, <1>2, <1>3, <1>4, <1>5

LEMMA LoopEndsKeeps ==
    ASSUME EnginesInv, NEW l \in Loops, ET!LoopEnds(l)
    PROVE  EnginesInv'
  <1> USE EnginesAssumption
          DEF EnginesInv, EngineType, StopSteps, ET!LoopEnds, ET!switch, ET!threads,
              ET!engine, ET!Goto
  <1>1. EngineType'
    BY DEF RequestSteps
  <1>2. LockHeld'
    BY DEF LockHeld, ET!Free
  <1>3. OnePoller'
    <2>1. Upgrading' = Upgrading /\ At("join poller")' = At("join poller")
      BY DEF Upgrading, At
    <2>2. QED
      BY <2>1, PollersStay
  <1>4. OneLoop'
    BY DEF OneLoop, LockHeld, At, ET!Alive, OnePoller, ET!Free
  <1>5. Obeyed'
    <2>1. Upgrading' = Upgrading /\ ET!Working' = ET!Working
      BY DEF Upgrading, ET!Working
    <2>2. QED
      BY <2>1, ObeyedStays
  <1>6. QED
    BY <1>1, <1>2, <1>3, <1>4, <1>5

\* The fallback gets a loop where there was none.
LEMMA StartFallbackKeeps ==
    ASSUME EnginesInv, NEW l \in Loops, ET!StartFallback(l)
    PROVE  EnginesInv'
  <1> USE EnginesAssumption
          DEF EnginesInv, EngineType, StopSteps, ET!StartFallback, ET!switch, ET!threads,
              ET!engine, ET!Goto
  <1>1. EngineType'
    BY DEF RequestSteps
  <1>2. LockHeld'
    BY DEF LockHeld, ET!Free
  <1>3. OnePoller'
    <2>1. ET!Working' = ET!Working /\ ET!Alive(etPoller)' = ET!Alive(etPoller)
      BY DEF ET!Working, ET!Alive
    <2>2. QED
      BY <2>1 DEF OnePoller, Upgrading, At
  <1>4. OneLoop'
    <2>1. ~At("join loop") /\ ~At("join poller")
      BY DEF OneLoop
    <2>2. etLoopThread = 0
      BY <2>1 DEF OneLoop
    <2>3. "loop" \notin etSlow => ET!Alive(etLoop) = {}
      BY <2>2 DEF OneLoop, ET!Alive
    <2>4. ET!Alive(etLoop)' = ET!Alive(etLoop) \cup {l}
      BY DEF ET!Alive
    <2>5. l # 0
      OBVIOUS
    <2>6. QED
      BY <2>1, <2>3, <2>4, <2>5 DEF OneLoop, At
  <1>5. Obeyed'
    <2>1. Upgrading' = Upgrading /\ ET!Working' = ET!Working
      BY DEF Upgrading, ET!Working
    <2>2. QED
      BY <2>1, ObeyedStays
  <1>6. QED
    BY <1>1, <1>2, <1>3, <1>4, <1>5

LEMMA StopFallbackKeeps ==
    ASSUME EnginesInv, ET!StopFallback
    PROVE  EnginesInv'
  <1> USE EnginesAssumption
          DEF EnginesInv, EngineType, StopSteps, ET!StopFallback, ET!switch, ET!threads,
              ET!engine, ET!Goto
  <1>1. EngineType'
    BY DEF RequestSteps
  <1>2. LockHeld'
    BY DEF LockHeld, ET!Free
  <1>3. OnePoller'
    <2>1. ET!Working' = ET!Working /\ ET!Alive(etPoller)' = ET!Alive(etPoller)
      BY DEF ET!Working, ET!Alive
    <2>2. QED
      BY <2>1 DEF OnePoller, Upgrading, At
  <1>4. OneLoop'
    BY DEF OneLoop, LockHeld, At, ET!Alive, OnePoller, ET!Free
  <1>5. Obeyed'
    <2>1. Upgrading' = Upgrading /\ ET!Working' = ET!Working
      BY DEF Upgrading, ET!Working
    <2>2. QED
      BY <2>1, ObeyedStays
  <1>6. QED
    BY <1>1, <1>2, <1>3, <1>4, <1>5

LEMMA FallbackStoppedKeeps ==
    ASSUME EnginesInv, ET!FallbackStopped
    PROVE  EnginesInv'
  <1> USE EnginesAssumption
          DEF EnginesInv, EngineType, StopSteps, ET!FallbackStopped, ET!Join, ET!switch,
              ET!threads, ET!engine, ET!Goto
  <1>1. EngineType'
    BY DEF RequestSteps
  <1>2. LockHeld'
    BY DEF LockHeld, ET!Free
  <1>3. OnePoller'
    <2>1. Upgrading' = Upgrading /\ At("join poller")' = At("join poller")
      BY DEF Upgrading, At
    <2>2. QED
      BY <2>1, PollersStay
  <1>4. OneLoop'
    BY DEF OneLoop, LockHeld, At, ET!Alive, OnePoller, ET!Free
  <1>5. Obeyed'
    <2>1. Upgrading' = Upgrading /\ ET!Working' = ET!Working
      BY DEF Upgrading, ET!Working
    <2>2. QED
      BY <2>1, ObeyedStays
  <1>6. QED
    BY <1>1, <1>2, <1>3, <1>4, <1>5

LEMMA EnginesStutterKeeps ==
    ASSUME EnginesInv, UNCHANGED etVars
    PROVE  EnginesInv'
  <1> USE EnginesAssumption DEF EnginesInv, EngineType, StopSteps, etVars
  <1>1. EngineType'
    BY DEF RequestSteps
  <1>2. LockHeld'
    BY DEF LockHeld, ET!Free
  <1>3. OnePoller'
    <2>1. Upgrading' = Upgrading /\ At("join poller")' = At("join poller")
      BY DEF Upgrading, At
    <2>2. QED
      BY <2>1, PollersStay
  <1>4. OneLoop'
    BY DEF OneLoop, LockHeld, At, ET!Alive, OnePoller, ET!Free
  <1>5. Obeyed'
    BY DEF Obeyed, Upgrading, ET!Working, ET!Free
  <1>6. QED
    BY <1>1, <1>2, <1>3, <1>4, <1>5

\* At a start nothing runs, and the first request starts what the mode asks for.
LEMMA EnginesInit == ET!Init => EnginesInv
  <1> SUFFICES ASSUME ET!Init PROVE EnginesInv
    OBVIOUS
  <1>1. EngineType
    BY DEF ET!Init, EngineType, RequestSteps
  <1>2. LockHeld
    BY DEF ET!Init, LockHeld, StopSteps, ET!Free
  <1>3. OnePoller
    BY DEF ET!Init, OnePoller, Upgrading, At, ET!Working, ET!Alive
  <1>4. OneLoop
    BY DEF ET!Init, OneLoop, At, ET!Alive
  <1>5. Obeyed
    BY EnginesAssumption DEF ET!Init, Obeyed, Upgrading, ET!Working, ET!Free
  <1>6. QED
    BY <1>1, <1>2, <1>3, <1>4, <1>5 DEF EnginesInv

LEMMA EnginesStep == EnginesInv /\ [ET!Next]_etVars => EnginesInv'
  <1> SUFFICES ASSUME EnginesInv, [ET!Next]_etVars PROVE EnginesInv'
    OBVIOUS
  <1>1. CASE UNCHANGED etVars
    BY <1>1, EnginesStutterKeeps
  <1>2. ASSUME NEW r \in Toggles, NEW on \in BOOLEAN, ET!SetMode(r, on)
        PROVE  EnginesInv'
    BY <1>2, SetModeKeeps
  <1>3. ASSUME NEW r \in Toggles,
               \/ ET!StartExecutionEngine(r)
               \/ ET!StopWatcher(r) \/ ET!StopWebSocket(r)
               \/ ET!StopPolling(r) \/ ET!Stopped(r)
        PROVE  EnginesInv'
    BY <1>3, StartExecutionEngineKeeps, StopWatcherKeeps, StopWebSocketKeeps,
       StopPollingKeeps, StoppedKeeps
  <1>4. ASSUME NEW w \in Watchers,
               ET!Wake(w) \/ ET!Upgrade(w) \/ ET!NoUpgrade(w) \/ ET!Upgraded(w)
        PROVE  EnginesInv'
    BY <1>4, WakeKeeps, UpgradeKeeps, NoUpgradeKeeps, UpgradedKeeps
  <1>5. ASSUME NEW p \in Pollers, ET!PollerEnds(p)
        PROVE  EnginesInv'
    BY <1>5, PollerEndsKeeps
  <1>6. ASSUME NEW l \in Loops, ET!LoopEnds(l) \/ ET!StartFallback(l)
        PROVE  EnginesInv'
    BY <1>6, LoopEndsKeeps, StartFallbackKeeps
  <1>7. CASE ET!StopFallback \/ ET!FallbackStopped
    BY <1>7, StopFallbackKeeps, FallbackStoppedKeeps
  <1>8. QED
    BY <1>1, <1>2, <1>3, <1>4, <1>5, <1>6, <1>7 DEF ET!Next

\* What is alive is the thread of one handle.
LEMMA AtMostOneAlive ==
    ASSUME NEW S, NEW t, S \subseteq {t}
    PROVE  ET!Cardinality(S) <= 1 /\ (t \notin S => ET!Cardinality(S) = 0)
  <1>1. IsFiniteSet({t}) /\ Cardinality({t}) = 1
    BY FS_Singleton
  <1>2. S = {} \/ S = {t}
    OBVIOUS
  <1>3. Cardinality(S) <= 1 /\ (t \notin S => Cardinality(S) = 0)
    BY <1>1, <1>2, FS_EmptySet
  <1>4. ET!Cardinality(S) = Cardinality(S)
    BY DEF ET!Cardinality, Cardinality
  <1>5. QED
    BY <1>3, <1>4

\* The engine that runs is the one that the mode asks for, it is the only one and a stop
\* finds it, for any number of requests, watchers, pollers and loops, unless requests
\* cross, a start fails or a thread outlives its join (start_execution_engine,
\* stop_execution_engine and _auto_upgrade_loop act under _thread_lock).
THEOREM ServerFollowsMode == Spec => []EngineFollowsMode
  <1>1. [Next]_vars => [ET!Next]_etVars
    BY DEF Next, vars, Settle, Expire, SquareOff, Approve, DownloadData, Host,
           Signal, Subscribe, Switch
  <1>2. EnginesInv => EngineFollowsMode
    <2> SUFFICES ASSUME EnginesInv PROVE EngineFollowsMode
      OBVIOUS
    <2> USE DEF EnginesInv
    <2>1. ET!ModeIsObeyed
      BY DEF Obeyed, ET!ModeIsObeyed
    <2>2. ET!AllAreKnown
      BY DEF OnePoller, OneLoop, ET!AllAreKnown
    <2>3. ASSUME etLock = ET!Free, "poller" \notin etSlow
          PROVE  ET!Cardinality(ET!Alive(etPoller)) <= IF etRunning THEN 0 ELSE 1
      <3>1. ET!Alive(etPoller) \subseteq {etThread}
        BY <2>3 DEF OnePoller
      <3>2. etRunning => etThread = 0
        BY <2>3, NobodyHolds DEF OnePoller
      <3>3. 0 \notin ET!Alive(etPoller)
        BY EnginesAssumption DEF EngineType, ET!Alive
      <3>4. QED
        BY <3>1, <3>2, <3>3, AtMostOneAlive
    <2>4. "loop" \notin etSlow => ET!Cardinality(ET!Alive(etLoop)) <= 1
      BY AtMostOneAlive DEF OneLoop
    <2>5. QED
      BY <2>1, <2>2, <2>3, <2>4 DEF EngineFollowsMode, ET!EngineFollowsMode, ET!OneEngine
  <1>3. QED
    BY <1>1, <1>2, EnginesInit, EnginesStep, PTL DEF Spec, Init

-----------------------------------------------------------------------------
(* SubscriptionProxy: clients, books of the pool and broker agree *)

FeedModes == 1 .. 3
Recovering == {"snapshot", "initialize", "connect", "restore"}

\* What a set of modes is streamed in.
LEMMA HighestMode ==
    /\ SP!Highest({}) = 0
    /\ \A S \in SUBSET FeedModes :
          /\ SP!Highest(S) \in 0 .. 3
          /\ S # {} => SP!Highest(S) \in S
          /\ \A m \in S : m <= SP!Highest(S)
  <1>1. ASSUME NEW S \in SUBSET FeedModes, S # {}
        PROVE  SP!Max(S) \in S /\ \A m \in S : m <= SP!Max(S)
    <2>1. \E x \in S : \A y \in S : x >= y
      <3>1. CASE 3 \in S
        BY <3>1 DEF FeedModes
      <3>2. CASE 3 \notin S /\ 2 \in S
        BY <3>2 DEF FeedModes
      <3>3. CASE 3 \notin S /\ 2 \notin S
        <4>1. \A m \in S : m = 1
          BY <3>3 DEF FeedModes
        <4>2. PICK m \in S : TRUE
          BY <1>1
        <4>3. QED
          BY <4>1, <4>2
      <3>4. QED
        BY <3>1, <3>2, <3>3
    <2>2. QED
      BY <2>1, <1>1 DEF SP!Max, FeedModes
  <1>2. SP!Highest({}) = 0 /\ \A S : S # {} => SP!Highest(S) = SP!Max(S)
    BY DEF SP!Highest
  <1>3. ASSUME NEW S \in SUBSET FeedModes
        PROVE  /\ SP!Highest(S) \in 0 .. 3
               /\ S # {} => SP!Highest(S) \in S
               /\ \A m \in S : m <= SP!Highest(S)
    <2>1. CASE S = {}
      BY <2>1, <1>2
    <2>2. CASE S # {}
      <3>1. SP!Max(S) \in S /\ \A m \in S : m <= SP!Max(S)
        BY <2>2, <1>1
      <3>2. SP!Highest(S) = SP!Max(S)
        BY <2>2, <1>2
      <3>3. \A m \in S : m \in 0 .. 3
        BY DEF FeedModes
      <3>4. QED
        BY <3>1, <3>2, <3>3
    <2>3. QED
      BY <2>1, <2>2
  <1>4. QED
    BY <1>2, <1>3

LEMMA HighestGrows ==
    ASSUME NEW S \in SUBSET FeedModes, NEW T \in SUBSET FeedModes, S \subseteq T
    PROVE  SP!Highest(S) <= SP!Highest(T)
  <1>1. SP!Highest(T) \in 0 .. 3 /\ \A m \in T : m <= SP!Highest(T)
    BY HighestMode
  <1>2. CASE S = {}
    BY <1>1, <1>2, HighestMode
  <1>3. CASE S # {}
    BY <1>1, <1>3, HighestMode
  <1>4. QED
    BY <1>2, <1>3

\* The books of a pool agree with each other: a tracked symbol has a connection, a
\* connection counts its symbols, and what streams is the highest mode or nothing.
CountsHome(counts, home) ==
    \A i \in DOMAIN counts :
        /\ counts[i] = Cardinality({s \in Instruments : home[s] = i})
        /\ counts[i] <= MaxSymbols
Books ==
    [counts: Seq(Nat), initialized: BOOLEAN, tracked: [Instruments -> SUBSET FeedModes],
     home: [Instruments -> Nat], streams: [Instruments -> 0 .. 3]]
GoodBooks(p) ==
    /\ p \in Books
    /\ \A s \in Instruments :
          /\ p.home[s] <= Len(p.counts)
          /\ p.tracked[s] = {} <=> p.home[s] = 0
          /\ p.streams[s] \in {0, SP!Highest(p.tracked[s])}
    /\ CountsHome(p.counts, p.home)

\* A connection has finitely many symbols.
LEMMA SymbolsOn ==
    ASSUME NEW home
    PROVE  \A i : /\ IsFiniteSet({s \in Instruments : home[s] = i})
                  /\ Cardinality({s \in Instruments : home[s] = i}) \in Nat
  <1>1. \A i : {s \in Instruments : home[s] = i} \subseteq Instruments
    OBVIOUS
  <1>2. QED
    BY <1>1, SymbolsAssumption, FS_Subset, FS_CardinalityType

\* A symbol gets its connection,
LEMMA SymbolPlaced ==
    ASSUME NEW counts \in Seq(Nat), NEW home \in [Instruments -> Nat],
           CountsHome(counts, home), NEW s \in Instruments, home[s] = 0,
           NEW i \in DOMAIN counts, counts[i] < MaxSymbols
    PROVE  CountsHome([counts EXCEPT ![i] = @ + 1], [home EXCEPT ![s] = i])
  <1> DEFINE On(j) == {t \in Instruments : home[t] = j}
             after == [home EXCEPT ![s] = i]
             On2(j) == {t \in Instruments : after[t] = j}
  <1>1. i \in Nat \ {0} /\ s \notin On(i)
    OBVIOUS
  <1>2. On2(i) = On(i) \cup {s}
    BY <1>1
  <1>3. \A j \in DOMAIN counts \ {i} : On2(j) = On(j)
    OBVIOUS
  <1>4. Cardinality(On2(i)) = Cardinality(On(i)) + 1
    <2>1. IsFiniteSet(On(i))
      BY SymbolsOn
    <2>2. QED
      BY <1>1, <1>2, <2>1, FS_AddElement
  <1>5. \A j \in DOMAIN counts : counts[j] = Cardinality(On(j)) /\ counts[j] <= MaxSymbols
    BY DEF CountsHome
  <1> DEFINE more == [counts EXCEPT ![i] = @ + 1]
  <1> HIDE DEF On, On2
  <1>6. /\ DOMAIN more = DOMAIN counts
        /\ more[i] = Cardinality(On2(i)) /\ more[i] <= MaxSymbols
    BY <1>4, <1>5, SymbolsAssumption
  <1>7. \A j \in DOMAIN counts \ {i} : more[j] = Cardinality(On2(j)) /\ more[j] <= MaxSymbols
    BY <1>3, <1>5
  <1>8. \A j \in DOMAIN more : more[j] = Cardinality(On2(j)) /\ more[j] <= MaxSymbols
    BY <1>6, <1>7
  <1>9. QED
    BY <1>8 DEF CountsHome, On2

\* and loses it.
LEMMA SymbolRemoved ==
    ASSUME NEW counts \in Seq(Nat), NEW home \in [Instruments -> Nat],
           CountsHome(counts, home), NEW s \in Instruments, home[s] # 0,
           home[s] <= Len(counts)
    PROVE  /\ CountsHome([counts EXCEPT ![home[s]] = @ - 1], [home EXCEPT ![s] = 0])
           /\ [counts EXCEPT ![home[s]] = @ - 1] \in Seq(Nat)
  <1> DEFINE On(j) == {t \in Instruments : home[t] = j}
             after == [home EXCEPT ![s] = 0]
             On2(j) == {t \in Instruments : after[t] = j}
             i == home[s]
  <1>1. i \in DOMAIN counts /\ s \in On(i)
    OBVIOUS
  <1>2. On2(i) = On(i) \ {s}
    BY <1>1
  <1>3. \A j \in DOMAIN counts \ {i} : On2(j) = On(j)
    OBVIOUS
  <1>4. Cardinality(On2(i)) = Cardinality(On(i)) - 1 /\ Cardinality(On2(i)) \in Nat
    <2>1. IsFiniteSet(On(i)) /\ Cardinality(On2(i)) \in Nat
      BY SymbolsOn
    <2>2. QED
      BY <1>1, <1>2, <2>1, FS_RemoveElement
  <1>5. counts[i] = Cardinality(On(i)) /\ counts[i] - 1 \in Nat /\ counts[i] <= MaxSymbols
    BY <1>1, <1>4 DEF CountsHome
  <1>6. [counts EXCEPT ![i] = @ - 1] \in Seq(Nat)
    BY <1>1, <1>5
  <1>7. \A j \in DOMAIN counts : counts[j] = Cardinality(On(j)) /\ counts[j] <= MaxSymbols
    BY DEF CountsHome
  <1> DEFINE less == [counts EXCEPT ![i] = @ - 1]
  <1> HIDE DEF On, On2, i
  <1>8. /\ DOMAIN less = DOMAIN counts
        /\ less[i] = Cardinality(On2(i)) /\ less[i] <= MaxSymbols
    BY <1>1, <1>4, <1>5, SymbolsAssumption
  <1>9. \A j \in DOMAIN counts \ {i} : less[j] = Cardinality(On2(j)) /\ less[j] <= MaxSymbols
    BY <1>3, <1>7
  <1>10. \A j \in DOMAIN less : less[j] = Cardinality(On2(j)) /\ less[j] <= MaxSymbols
    BY <1>8, <1>9
  <1>11. QED
    BY <1>6, <1>10 DEF CountsHome, On2, i

\* A new connection has no symbols.
LEMMA ConnectionAdded ==
    ASSUME NEW counts \in Seq(Nat), NEW home \in [Instruments -> Nat],
           CountsHome(counts, home), \A s \in Instruments : home[s] <= Len(counts)
    PROVE  /\ CountsHome(Append(counts, 0), home)
           /\ Append(counts, 0) \in Seq(Nat)
           /\ Len(Append(counts, 0)) = Len(counts) + 1
           /\ Append(counts, 0)[Len(counts) + 1] = 0
  <1> DEFINE longer == Append(counts, 0)
  <1>1. /\ longer \in Seq(Nat) /\ Len(longer) = Len(counts) + 1
        /\ DOMAIN longer = 1 .. (Len(counts) + 1) /\ DOMAIN counts = 1 .. Len(counts)
        /\ longer[Len(counts) + 1] = 0
        /\ \A i \in DOMAIN counts : longer[i] = counts[i]
        /\ Len(counts) \in Nat
    OBVIOUS
  <1>2. {s \in Instruments : home[s] = Len(counts) + 1} = {}
    BY <1>1
  <1>3. Cardinality({s \in Instruments : home[s] = Len(counts) + 1}) = 0
    BY <1>2, FS_EmptySet
  <1> HIDE DEF longer
  <1>4. \A i \in DOMAIN longer : i \in DOMAIN counts \/ i = Len(counts) + 1
    BY <1>1
  <1> DEFINE On(j) == {s \in Instruments : home[s] = j}
  <1>5. \A j \in DOMAIN counts : counts[j] = Cardinality(On(j)) /\ counts[j] <= MaxSymbols
    BY DEF CountsHome
  <1>6. Cardinality(On(Len(counts) + 1)) = 0
    BY <1>3
  <1> HIDE DEF On
  <1>7. \A j \in DOMAIN longer : longer[j] = Cardinality(On(j)) /\ longer[j] <= MaxSymbols
    BY <1>1, <1>4, <1>5, <1>6, SymbolsAssumption
  <1>8. CountsHome(longer, home)
    BY <1>7 DEF CountsHome, On
  <1>9. QED
    BY <1>1, <1>8 DEF longer

\* The books of a new pool, of one with its first connection and of a cleared one.
LEMMA EmptyBooks ==
    /\ GoodBooks(SP!EmptyPool)
    /\ \A s \in Instruments : SP!EmptyPool.tracked[s] = {} /\ SP!EmptyPool.streams[s] = 0
  BY HighestMode DEF GoodBooks, Books, SP!EmptyPool, CountsHome, FeedModes

LEMMA FirstAdapterBooks ==
    ASSUME NEW p, GoodBooks(p)
    PROVE  /\ GoodBooks(SP!FirstAdapter(p))
           /\ SP!FirstAdapter(p).tracked = p.tracked /\ SP!FirstAdapter(p).streams = p.streams
  <1>1. /\ CountsHome(Append(p.counts, 0), p.home) /\ Append(p.counts, 0) \in Seq(Nat)
        /\ Len(Append(p.counts, 0)) = Len(p.counts) + 1
    BY ConnectionAdded DEF GoodBooks, Books
  <1> DEFINE more == Append(p.counts, 0)
  <1> HIDE DEF more
  <1>2. SP!FirstAdapter(p) = [p EXCEPT !.counts = more, !.initialized = TRUE]
    BY DEF SP!FirstAdapter, Books, GoodBooks, more
  <1> DEFINE q == SP!FirstAdapter(p)
  <1>3. /\ q \in Books /\ q.counts = more
        /\ q.tracked = p.tracked /\ q.streams = p.streams /\ q.home = p.home
    BY <1>1, <1>2 DEF GoodBooks, Books, more
  <1> HIDE DEF q
  <1>4. GoodBooks(q)
    BY <1>1, <1>3 DEF GoodBooks, Books, more
  <1>5. QED
    BY <1>3, <1>4 DEF q

LEMMA UnsubscribedBooks ==
    ASSUME NEW p, GoodBooks(p)
    PROVE  /\ GoodBooks(SP!UnsubscribeAll(p))
           /\ \A s \in Instruments : /\ SP!UnsubscribeAll(p).tracked[s] = {}
                                     /\ SP!UnsubscribeAll(p).streams[s] = 0
  <1> DEFINE zeros == [i \in DOMAIN p.counts |-> 0]
             q == SP!UnsubscribeAll(p)
  <1>1. zeros \in Seq(Nat)
    <2>1. DOMAIN p.counts = 1 .. Len(p.counts) /\ Len(p.counts) \in Nat
      BY DEF GoodBooks, Books
    <2>2. QED
      BY <2>1
  <1>2. q = [SP!EmptyPool EXCEPT !.counts = zeros, !.initialized = p.initialized]
    BY DEF SP!UnsubscribeAll
  <1>3. q \in Books /\ q.counts = zeros
    BY <1>1, <1>2, EmptyBooks DEF GoodBooks, Books
  <1>4. /\ q.home = [s \in Instruments |-> 0]
        /\ \A s \in Instruments : q.tracked[s] = {} /\ q.streams[s] = 0
    BY <1>2 DEF SP!EmptyPool
  <1>5. \A i \in DOMAIN zeros : {s \in Instruments : q.home[s] = i} = {}
    BY <1>1, <1>4
  <1>6. CountsHome(q.counts, q.home)
    BY <1>3, <1>5, FS_EmptySet, SymbolsAssumption DEF CountsHome
  <1>7. QED
    BY <1>1, <1>3, <1>4, <1>6, HighestMode DEF GoodBooks

\* The connection that is taken has room.
LEMMA LeastConnection ==
    ASSUME NEW p, GoodBooks(p), SP!WithRoom(p) # {}
    PROVE  SP!Min(SP!WithRoom(p)) \in SP!WithRoom(p)
  <1> DEFINE S == SP!WithRoom(p)
  <1>1. S \subseteq Nat
    BY DEF GoodBooks, Books, SP!WithRoom
  <1> HIDE DEF S
  <1>2. PICK x \in S : \A y \in S : ~(<<y, x>> \in OpToRel(<, Nat))
    BY <1>1, WFMin, NatLessThanWellFounded DEF S
  <1>3. \A y \in S : <<y, x>> \in Nat \X Nat
    BY <1>1
  <1>4. \A y \in S : ~(y < x)
    BY <1>2, <1>3 DEF OpToRel
  <1>5. \A y \in S : x =< y
    BY <1>1, <1>4
  <1>6. QED
    BY <1>5 DEF SP!Min, S

\* A call changes what is tracked of its symbol, and streams its highest mode if it
\* streamed before.
Others(p, q, s) ==
    \A t \in Instruments \ {s} : q.tracked[t] = p.tracked[t] /\ q.streams[t] = p.streams[t]
Streams(p, s) == p.streams[s] = SP!Highest(p.tracked[s])
Subscribed(p, s, m, o) ==
    /\ GoodBooks(o.pool) /\ Others(p, o.pool, s)
    /\ o.answer = "success" =>
          /\ o.pool.tracked[s] = p.tracked[s] \cup {m}
          /\ Streams(p, s) => Streams(o.pool, s)
    /\ o.answer # "success" =>
          o.pool.tracked[s] = p.tracked[s] /\ o.pool.streams[s] = p.streams[s]

LEMMA Unchanged ==
    ASSUME NEW p, GoodBooks(p), NEW s \in Instruments, NEW m, NEW o \in SP!Refused(p)
    PROVE  Subscribed(p, s, m, o)
  <1>1. PICK a \in {"error", "auth error"} : o = SP!Outcome(p, a, {}, {})
    BY DEF SP!Refused
  <1>2. o.pool = p /\ o.answer # "success"
    BY <1>1 DEF SP!Outcome
  <1>3. QED
    BY <1>2 DEF Subscribed, Others

LEMMA AddedMode ==
    ASSUME NEW T \in SUBSET FeedModes, NEW m \in FeedModes
    PROVE  /\ T \cup {m} \in SUBSET FeedModes
           /\ m > SP!Highest(T) => SP!Highest(T \cup {m}) = m
           /\ m <= SP!Highest(T) => SP!Highest(T \cup {m}) = SP!Highest(T)
  <1> DEFINE h == SP!Highest(T)
             k == SP!Highest(T \cup {m})
  <1>1. T \cup {m} \in SUBSET FeedModes
    OBVIOUS
  <1>2. k \in T \cup {m} /\ (\A n \in T \cup {m} : n <= k) /\ k \in 0 .. 3
    BY <1>1, HighestMode
  <1>3. (\A n \in T : n <= h) /\ (T # {} => h \in T) /\ (T = {} => h = 0) /\ h \in 0 .. 3
    BY HighestMode
  <1> HIDE DEF h, k
  <1>4. m \in 1 .. 3
    BY DEF FeedModes
  <1>5. m > h => k = m
    BY <1>2, <1>3, <1>4
  <1>6. m <= h => k = h
    BY <1>2, <1>3, <1>4
  <1>7. QED
    BY <1>1, <1>5, <1>6 DEF h, k

Change(p, s, T, k, i, C) ==
    [p EXCEPT !.tracked = [p.tracked EXCEPT ![s] = T],
              !.streams = [p.streams EXCEPT ![s] = k],
              !.home = [p.home EXCEPT ![s] = i], !.counts = C]
Changed(p, s, T, k, q) ==
    GoodBooks(q) /\ Others(p, q, s) /\ q.tracked[s] = T /\ q.streams[s] = k

\* What a call does to its symbol leaves good books if it counts right.
LEMMA ChangedBooks ==
    ASSUME NEW p, GoodBooks(p), NEW s \in Instruments,
           NEW T \in SUBSET FeedModes, NEW k \in {0, SP!Highest(T)},
           NEW i \in 0 .. Len(p.counts), T = {} <=> i = 0,
           NEW C \in Seq(Nat), Len(C) = Len(p.counts),
           CountsHome(C, [p.home EXCEPT ![s] = i])
    PROVE  Changed(p, s, T, k, Change(p, s, T, k, i, C))
  <1> DEFINE q == Change(p, s, T, k, i, C)
             tracked == [p.tracked EXCEPT ![s] = T]
             streams == [p.streams EXCEPT ![s] = k]
             home == [p.home EXCEPT ![s] = i]
  <1>1. /\ p \in Books
        /\ \A t \in Instruments : /\ p.home[t] <= Len(p.counts)
                                  /\ p.tracked[t] = {} <=> p.home[t] = 0
                                  /\ p.streams[t] \in {0, SP!Highest(p.tracked[t])}
    BY DEF GoodBooks
  <1>2. k \in 0 .. 3
    BY HighestMode
  <1>3. i \in Nat /\ i <= Len(p.counts)
    BY <1>1 DEF Books
  <1>4. /\ tracked \in [Instruments -> SUBSET FeedModes]
        /\ streams \in [Instruments -> 0 .. 3] /\ home \in [Instruments -> Nat]
    BY <1>1, <1>2, <1>3 DEF Books
  <1>5. \A t \in Instruments \ {s} :
            tracked[t] = p.tracked[t] /\ streams[t] = p.streams[t] /\ home[t] = p.home[t]
    BY <1>1 DEF Books
  <1>6. tracked[s] = T /\ streams[s] = k /\ home[s] = i
    BY <1>1 DEF Books
  <1> HIDE DEF tracked, streams, home, q
  <1>7. q = [p EXCEPT !.tracked = tracked, !.streams = streams, !.home = home, !.counts = C]
    BY DEF tracked, streams, home, q, Change
  <1>8. q \in Books
    BY <1>1, <1>4, <1>7 DEF Books
  <1>9. q.tracked = tracked /\ q.streams = streams /\ q.home = home /\ q.counts = C
    BY <1>1, <1>7 DEF Books
  <1>10. \A t \in Instruments : /\ home[t] <= Len(C)
                                /\ tracked[t] = {} <=> home[t] = 0
                                /\ streams[t] \in {0, SP!Highest(tracked[t])}
    BY <1>1, <1>3, <1>5, <1>6
  <1>11. CountsHome(C, home)
    BY DEF home
  <1>12. GoodBooks(q)
    BY <1>8, <1>9, <1>10, <1>11 DEF GoodBooks
  <1>13. QED
    BY <1>5, <1>6, <1>9, <1>12 DEF Others, Changed, q

\* A symbol that stays tracked keeps its connection.
LEMMA SameHome ==
    ASSUME NEW p, GoodBooks(p), NEW s \in Instruments, p.tracked[s] # {}
    PROVE  /\ p.home[s] \in 1 .. Len(p.counts) /\ p.counts \in Seq(Nat)
           /\ CountsHome(p.counts, [p.home EXCEPT ![s] = p.home[s]])
  <1>1. [p.home EXCEPT ![s] = p.home[s]] = p.home
    BY DEF GoodBooks, Books
  <1>2. p.home[s] \in Nat /\ p.home[s] # 0 /\ p.home[s] <= Len(p.counts)
    BY DEF GoodBooks, Books
  <1>3. QED
    BY <1>1, <1>2 DEF GoodBooks, Books

LEMMA PlacedBooks ==
    ASSUME NEW p, GoodBooks(p), NEW s \in Instruments, NEW m \in FeedModes,
           p.tracked[s] = {}, NEW i \in DOMAIN p.counts, p.counts[i] < MaxSymbols,
           NEW o \in SP!AskOn(p, i, s, m)
    PROVE  Subscribed(p, s, m, o)
  <1> DEFINE q == [p EXCEPT !.tracked[s] = {m}, !.streams[s] = m, !.home[s] = i,
                            !.counts[i] = @ + 1]
             C == [p.counts EXCEPT ![i] = @ + 1]
  <1>0. p.tracked[s] \cup {m} = {m}
    OBVIOUS
  <1>1. CASE o = SP!Success(q)
    <2>1. p \in Books /\ p.home[s] = 0 /\ CountsHome(p.counts, p.home)
      BY DEF GoodBooks
    <2>2. CountsHome(C, [p.home EXCEPT ![s] = i])
      BY <2>1, SymbolPlaced DEF Books
    <2>3. i \in 0 .. Len(p.counts) /\ i # 0 /\ C \in Seq(Nat) /\ Len(C) = Len(p.counts)
      BY <2>1 DEF Books
    <2>4. q = Change(p, s, {m}, m, i, C)
      BY <2>1 DEF Books, Change
    <2>5. SP!Highest({m}) = m /\ {m} \in SUBSET FeedModes
      BY HighestMode
    <2>6. o.pool = q /\ o.answer = "success"
      BY <1>1 DEF SP!Success, SP!Outcome
    <2> DEFINE T == {m}
    <2>7. T \in SUBSET FeedModes /\ m \in {0, SP!Highest(T)} /\ T # {} /\ i # 0
      BY <2>3, <2>5
    <2>9. q = Change(p, s, T, m, i, C)
      BY <2>4
    <2> HIDE DEF q, C, T
    <2>10. GoodBooks(q) /\ Others(p, q, s) /\ q.tracked[s] = T /\ q.streams[s] = m
      <3>1. T = {} <=> i = 0
        BY <2>3, <2>7
      <3>2. Changed(p, s, T, m, q)
        BY ONLY GoodBooks(p), s \in Instruments, <2>2, <2>3, <2>7, <2>9, <3>1, ChangedBooks
      <3>3. QED
        BY <3>2 DEF Changed
    <2>8. QED
      BY <1>0, <2>5, <2>6, <2>10 DEF Subscribed, Streams, T
  <1>2. CASE o \in SP!Refused(p)
    BY <1>2, Unchanged
  <1>3. QED
    BY <1>1, <1>2 DEF SP!AskOn

LEMMA AskedBooks ==
    ASSUME NEW p, GoodBooks(p), NEW s \in Instruments, NEW m \in FeedModes,
           p.tracked[s] # {}, m > SP!Highest(p.tracked[s]), NEW o \in SP!Ask(p, s, m)
    PROVE  Subscribed(p, s, m, o)
  <1> DEFINE q == [p EXCEPT !.tracked[s] = @ \cup {m}, !.streams[s] = m]
             T == p.tracked[s] \cup {m}
  <1>1. CASE o = SP!Success(q)
    <2>1. p \in Books /\ p.tracked[s] \in SUBSET FeedModes
      BY DEF GoodBooks, Books
    <2>2. T \in SUBSET FeedModes /\ SP!Highest(T) = m /\ T # {}
      BY <2>1, AddedMode
    <2>3. q = Change(p, s, T, m, p.home[s], p.counts)
      BY <2>1 DEF Books, Change
    <2>4. /\ p.home[s] \in 1 .. Len(p.counts) /\ p.counts \in Seq(Nat)
          /\ CountsHome(p.counts, [p.home EXCEPT ![s] = p.home[s]])
      BY SameHome
    <2>5. o.pool = q /\ o.answer = "success"
      BY <1>1 DEF SP!Success, SP!Outcome
    <2> HIDE DEF q, T
    <2>6. GoodBooks(q) /\ Others(p, q, s) /\ q.tracked[s] = T /\ q.streams[s] = m
      <3>1. p.home[s] \in 0 .. Len(p.counts) /\ p.home[s] # 0 /\ m \in {0, SP!Highest(T)}
        BY <2>2, <2>4
      <3>2. QED
        BY ONLY GoodBooks(p), s \in Instruments, <2>2, <2>3, <2>4, <3>1, ChangedBooks
           DEF Changed
    <2>7. QED
      BY <2>2, <2>5, <2>6 DEF Subscribed, Streams, T
  <1>2. CASE o \in SP!Refused(p)
    BY <1>2, Unchanged
  <1>3. QED
    BY <1>1, <1>2 DEF SP!Ask

\* A subscription of any kind.
LEMMA SubscribedBooks ==
    ASSUME NEW p, GoodBooks(p), NEW s \in Instruments, NEW m \in FeedModes,
           NEW o \in SP!SubscribeInner(p, s, m)
    PROVE  Subscribed(p, s, m, o)
  <1>1. p \in Books /\ p.tracked[s] \in SUBSET FeedModes
    BY DEF GoodBooks, Books
  <1>2. SP!Highest(p.tracked[s]) \in 0 .. 3
    BY <1>1, HighestMode
  <1>3. CASE p.tracked[s] = {}
    <2>1. o \in SP!NewSymbol(p, s, m)
      BY <1>3 DEF SP!SubscribeInner
    <2>2. CASE SP!WithRoom(p) # {}
      <3> DEFINE i == SP!Min(SP!WithRoom(p))
      <3>1. i \in SP!WithRoom(p)
        BY <2>2, LeastConnection
      <3>2. o \in SP!AskOn(p, i, s, m)
        BY <2>1, <2>2 DEF SP!NewSymbol
      <3> HIDE DEF i
      <3>3. i \in DOMAIN p.counts /\ p.counts[i] < MaxSymbols
        BY <3>1 DEF SP!WithRoom
      <3>4. QED
        BY <1>3, <3>2, <3>3, PlacedBooks
    <2>3. CASE SP!WithRoom(p) = {} /\ Len(p.counts) < spScenario.limit
      <3> DEFINE C == Append(p.counts, 0)
                 q == [p EXCEPT !.counts = Append(@, 0)]
                 n == Len(p.counts) + 1
      <3>1. o \in SP!AskOn(q, n, s, m) \cup SP!Refused(p)
        BY <2>1, <2>3 DEF SP!NewSymbol, SP!AskOnNew
      <3>2. CountsHome(C, p.home) /\ C \in Seq(Nat) /\ Len(C) = n /\ C[n] = 0
        BY ConnectionAdded, <1>1 DEF GoodBooks, Books
      <3>3. /\ q.counts = C /\ q.home = p.home
            /\ q.tracked = p.tracked /\ q.streams = p.streams
        BY <1>1 DEF Books
      <3>4. q = [p EXCEPT !.counts = C]
        BY <1>1 DEF Books
      <3>5. Len(p.counts) \in Nat /\ n \in 1 .. n
        BY <1>1 DEF Books
      <3> HIDE DEF q, C
      <3>6. q \in Books
        BY <1>1, <3>2, <3>4 DEF Books
      <3>7. \A t \in Instruments : p.home[t] <= Len(C)
        BY <3>2, <3>5, <1>1 DEF GoodBooks, Books
      <3> HIDE DEF n
      <3>8. GoodBooks(q)
        BY <3>2, <3>3, <3>6, <3>7 DEF GoodBooks
      <3>9. n \in DOMAIN q.counts /\ q.counts[n] < MaxSymbols
        BY <3>2, <3>3, <3>5, SymbolsAssumption DEF n
      <3>10. CASE o \in SP!AskOn(q, n, s, m)
        <4>1. Subscribed(q, s, m, o)
          BY <1>3, <3>3, <3>8, <3>9, <3>10, PlacedBooks
        <4>2. QED
          BY <3>3, <4>1 DEF Subscribed, Others, Streams
      <3>11. CASE o \in SP!Refused(p)
        BY <3>11, Unchanged
      <3>12. QED
        BY <3>1, <3>10, <3>11
    <2>4. CASE o = SP!Outcome(p, "error", {}, {})
      BY <2>4, Unchanged DEF SP!Refused
    <2>5. QED
      BY <2>1, <2>2, <2>3, <2>4 DEF SP!NewSymbol
  <1>4. CASE m > SP!Highest(p.tracked[s]) /\ p.tracked[s] # {}
    BY <1>4, AskedBooks DEF SP!SubscribeInner
  <1>5. CASE p.tracked[s] # {} /\ m <= SP!Highest(p.tracked[s])
    <2> DEFINE q == [p EXCEPT !.tracked[s] = @ \cup {m}]
               T == p.tracked[s] \cup {m}
               k == p.streams[s]
    <2>1. o = SP!Success(q)
      BY <1>2, <1>5 DEF SP!SubscribeInner, FeedModes
    <2>2. T \in SUBSET FeedModes /\ SP!Highest(T) = SP!Highest(p.tracked[s]) /\ T # {}
      BY <1>1, <1>5, AddedMode
    <2>3. q = Change(p, s, T, k, p.home[s], p.counts)
      BY <1>1 DEF Books, Change
    <2>4. /\ p.home[s] \in 1 .. Len(p.counts) /\ p.counts \in Seq(Nat)
          /\ CountsHome(p.counts, [p.home EXCEPT ![s] = p.home[s]])
      BY <1>5, SameHome
    <2>5. o.pool = q /\ o.answer = "success"
      BY <2>1 DEF SP!Success, SP!Outcome
    <2>6. k \in {0, SP!Highest(T)}
      BY <2>2 DEF GoodBooks
    <2> HIDE DEF q, T, k
    <2>7. GoodBooks(q) /\ Others(p, q, s) /\ q.tracked[s] = T /\ q.streams[s] = k
      <3>1. p.home[s] \in 0 .. Len(p.counts) /\ p.home[s] # 0
        BY <2>4
      <3>2. QED
        BY ONLY GoodBooks(p), s \in Instruments, <2>2, <2>3, <2>4, <2>6, <3>1, ChangedBooks
           DEF Changed
    <2>8. QED
      BY <2>2, <2>5, <2>7 DEF Subscribed, Streams, T, k
  <1>6. QED
    BY <1>2, <1>3, <1>4, <1>5 DEF FeedModes

\* What an unsubscription does to its symbol: it is given up, except if the broker
\* refuses, which the outcome tells.
Unsubscribed(p, s, m, o) ==
    /\ GoodBooks(o.pool) /\ Others(p, o.pool, s)
    /\ o.lost \subseteq {s} /\ o.kept \subseteq {s}
    /\ o.pool.tracked[s] \in SUBSET p.tracked[s]
    /\ s \notin o.lost => /\ p.tracked[s] \ {m} \subseteq o.pool.tracked[s]
                          /\ Streams(p, s) => Streams(o.pool, s)
    /\ s \notin o.kept => m \notin o.pool.tracked[s]

LEMMA RemovedBooks ==
    ASSUME NEW p, GoodBooks(p), NEW s \in Instruments, NEW m, p.tracked[s] = {m},
           NEW o \in SP!Remove(p, s)
    PROVE  Unsubscribed(p, s, m, o)
  <1> DEFINE q == [p EXCEPT !.tracked[s] = {}, !.streams[s] = 0, !.home[s] = 0,
                            !.counts[p.home[s]] = @ - 1]
             C == [p.counts EXCEPT ![p.home[s]] = @ - 1]
  <1>1. CASE o = SP!Success(q)
    <2>1. p \in Books /\ CountsHome(p.counts, p.home)
      BY DEF GoodBooks
    <2>2. p.home[s] \in 1 .. Len(p.counts)
      BY SameHome
    <2>3. CountsHome(C, [p.home EXCEPT ![s] = 0]) /\ C \in Seq(Nat)
      <3>1. /\ p.counts \in Seq(Nat) /\ p.home \in [Instruments -> Nat]
            /\ p.home[s] # 0 /\ p.home[s] <= Len(p.counts)
        BY <2>1, <2>2 DEF Books
      <3>2. QED
        BY <2>1, <3>1, SymbolRemoved
    <2>4. Len(C) = Len(p.counts) /\ 0 \in 0 .. Len(p.counts)
      BY <2>1, <2>2 DEF Books
    <2>5. q = Change(p, s, {}, 0, 0, C)
      BY <2>1, <2>2 DEF Books, Change
    <2>6. o.pool = q /\ o.lost = {} /\ o.kept = {}
      BY <1>1 DEF SP!Success, SP!Outcome
    <2> DEFINE T == {}
    <2>9. T \in SUBSET FeedModes /\ 0 \in {0, SP!Highest(T)} /\ q = Change(p, s, T, 0, 0, C)
      BY <2>5
    <2> HIDE DEF q, C
    <2>7. GoodBooks(q) /\ Others(p, q, s) /\ q.tracked[s] = {} /\ q.streams[s] = 0
      <3>1. T = {}
        OBVIOUS
      <3> HIDE DEF T
      <3>2. Changed(p, s, T, 0, q)
        BY ONLY GoodBooks(p), s \in Instruments, <2>3, <2>4, <2>9, <3>1, ChangedBooks
      <3>3. QED
        BY <3>1, <3>2 DEF Changed
    <2>8. QED
      BY <2>6, <2>7, HighestMode DEF Unsubscribed, Streams
  <1>2. CASE o = SP!Outcome(p, "error", {}, {s})
    BY <1>2 DEF SP!Outcome, Unsubscribed, Others
  <1>3. QED
    BY <1>1, <1>2 DEF SP!Remove

LEMMA DowngradedBooks ==
    ASSUME NEW p, GoodBooks(p), NEW s \in Instruments, NEW m \in p.tracked[s],
           m = SP!Highest(p.tracked[s]), p.tracked[s] # {m},
           NEW o \in SP!Downgrade(p, s, m)
    PROVE  Unsubscribed(p, s, m, o)
  <1> DEFINE T == p.tracked[s]
             rest == T \ {m}
             success == [p EXCEPT !.tracked[s] = rest, !.streams[s] = SP!Highest(rest)]
             again == [p EXCEPT !.streams[s] = m]
             silent == [p EXCEPT !.streams[s] = 0]
             h == p.home[s]
  <1>1. p \in Books /\ T \in SUBSET FeedModes
    BY DEF GoodBooks, Books
  <1>2. /\ h \in 0 .. Len(p.counts) /\ h # 0 /\ p.counts \in Seq(Nat)
        /\ CountsHome(p.counts, [p.home EXCEPT ![s] = h])
    <2>1. p.tracked[s] # {}
      OBVIOUS
    <2>2. /\ p.home[s] \in 1 .. Len(p.counts) /\ p.counts \in Seq(Nat)
          /\ CountsHome(p.counts, [p.home EXCEPT ![s] = p.home[s]])
      BY ONLY GoodBooks(p), s \in Instruments, <2>1, SameHome
    <2>3. QED
      BY <2>2
  <1>3. rest \in SUBSET FeedModes /\ rest # {} /\ T # {}
    BY <1>1
  <1>4. /\ success = Change(p, s, rest, SP!Highest(rest), h, p.counts)
        /\ again = Change(p, s, T, m, h, p.counts)
        /\ silent = Change(p, s, T, 0, h, p.counts)
    <2>1. success = Change(p, s, rest, SP!Highest(rest), h, p.counts)
      BY <1>1 DEF Books, Change
    <2>2. again = Change(p, s, T, m, h, p.counts)
      BY <1>1 DEF Books, Change
    <2>3. silent = Change(p, s, T, 0, h, p.counts)
      BY <1>1 DEF Books, Change
    <2>4. QED
      BY <2>1, <2>2, <2>3
  <1>5. \/ o = SP!Success(success)
        \/ o = SP!Outcome(again, "error", {}, {s})
        \/ o = SP!Outcome(silent, "error", {s}, {s})
        \/ o = SP!Outcome(p, "error", {}, {s})
    BY DEF SP!Downgrade
  <1> HIDE DEF success, again, silent, rest, h
  <1>6. CASE o = SP!Success(success)
    <2>1. /\ GoodBooks(success) /\ Others(p, success, s)
          /\ success.tracked[s] = rest /\ success.streams[s] = SP!Highest(rest)
      BY <1>2, <1>3, <1>4, ChangedBooks DEF Changed
    <2>2. o.pool = success /\ o.lost = {} /\ o.kept = {}
      BY <1>6 DEF SP!Success, SP!Outcome
    <2>3. QED
      BY <2>1, <2>2 DEF Unsubscribed, Streams, rest
  <1>7. CASE o = SP!Outcome(again, "error", {}, {s})
    <2>1. /\ GoodBooks(again) /\ Others(p, again, s)
          /\ again.tracked[s] = T /\ again.streams[s] = m
      BY <1>1, <1>2, <1>3, <1>4, ChangedBooks DEF Changed
    <2>2. o.pool = again /\ o.lost = {} /\ o.kept = {s}
      BY <1>7 DEF SP!Outcome
    <2>3. QED
      BY <2>1, <2>2 DEF Unsubscribed, Streams
  <1>8. CASE o = SP!Outcome(silent, "error", {s}, {s})
    <2>1. GoodBooks(silent) /\ Others(p, silent, s) /\ silent.tracked[s] = T
      BY <1>1, <1>2, <1>3, <1>4, ChangedBooks DEF Changed
    <2>2. o.pool = silent /\ o.lost = {s} /\ o.kept = {s}
      BY <1>8 DEF SP!Outcome
    <2>3. QED
      BY <2>1, <2>2 DEF Unsubscribed, Streams
  <1>9. CASE o = SP!Outcome(p, "error", {}, {s})
    BY <1>9 DEF SP!Outcome, Unsubscribed, Others
  <1>10. QED
    BY <1>5, <1>6, <1>7, <1>8, <1>9

\* An unsubscription of any kind.
LEMMA UnsubscribedMode ==
    ASSUME NEW p, GoodBooks(p), NEW s \in Instruments, NEW m \in FeedModes,
           NEW o \in SP!Unsubscribe(p, s, m)
    PROVE  Unsubscribed(p, s, m, o)
  <1> DEFINE T == p.tracked[s]
             rest == T \ {m}
             k == p.streams[s]
             h == p.home[s]
             q == [p EXCEPT !.tracked[s] = @ \ {m}]
  <1>1. p \in Books /\ T \in SUBSET FeedModes
    BY DEF GoodBooks, Books
  <1>2. CASE m \notin T
    <2>1. o = SP!Outcome(p, "not subscribed", {}, {})
      <3>1. p.tracked[s] # {m} /\ m # SP!Highest(p.tracked[s])
        BY <1>1, <1>2, HighestMode DEF FeedModes
      <3>2. SP!Unsubscribe(p, s, m) = {SP!Outcome(p, "not subscribed", {}, {})}
        BY <1>2, <3>1 DEF SP!Unsubscribe
      <3>3. QED
        BY <3>2
    <2>2. QED
      BY <1>2, <2>1 DEF SP!Outcome, Unsubscribed, Others
  <1>3. CASE T = {m}
    BY <1>3, RemovedBooks DEF SP!Unsubscribe
  <1>4. CASE m \in T /\ T # {m} /\ m = SP!Highest(T)
    BY <1>4, DowngradedBooks DEF SP!Unsubscribe
  <1>5. CASE m \in T /\ T # {m} /\ m # SP!Highest(T)
    <2>1. o = SP!Success(q)
      BY <1>5 DEF SP!Unsubscribe
    <2>2. /\ h \in 0 .. Len(p.counts) /\ h # 0 /\ p.counts \in Seq(Nat)
          /\ CountsHome(p.counts, [p.home EXCEPT ![s] = h])
      <3>1. p.tracked[s] # {}
        BY <1>5
      <3>2. /\ p.home[s] \in 1 .. Len(p.counts) /\ p.counts \in Seq(Nat)
            /\ CountsHome(p.counts, [p.home EXCEPT ![s] = p.home[s]])
        BY <3>1, SameHome
      <3>3. QED
        BY <3>2
    <2>3. rest \in SUBSET FeedModes /\ rest # {} /\ T # {} /\ SP!Highest(rest) = SP!Highest(T)
      <3>1. rest \in SUBSET FeedModes /\ rest # {} /\ T # {}
        BY <1>1, <1>5
      <3>2. /\ SP!Highest(rest) \in rest /\ SP!Highest(T) \in T
            /\ \A n \in rest : n <= SP!Highest(rest)
            /\ \A n \in T : n <= SP!Highest(T)
        BY <1>1, <3>1, HighestMode
      <3>3. SP!Highest(T) \in rest /\ SP!Highest(rest) \in T
        BY <1>5, <3>2
      <3>4. SP!Highest(rest) \in 1 .. 3 /\ SP!Highest(T) \in 1 .. 3
        BY <1>1, <3>3 DEF FeedModes
      <3>5. QED
        BY <3>1, <3>2, <3>3, <3>4
    <2>4. q = Change(p, s, rest, k, h, p.counts)
      BY <1>1 DEF Books, Change
    <2>5. k \in {0, SP!Highest(rest)}
      BY <2>3 DEF GoodBooks
    <2>6. o.pool = q /\ o.lost = {} /\ o.kept = {}
      BY <2>1 DEF SP!Success, SP!Outcome
    <2> HIDE DEF q, k, h, rest
    <2>7. GoodBooks(q) /\ Others(p, q, s) /\ q.tracked[s] = rest /\ q.streams[s] = k
      BY <2>2, <2>3, <2>4, <2>5, ChangedBooks DEF Changed
    <2>8. QED
      BY <2>3, <2>6, <2>7 DEF Unsubscribed, Streams, k, rest
  <1>6. QED
    BY <1>2, <1>3, <1>4, <1>5

\* Who wants a mode of a symbol, and whether the pool has it or is about to.
Wants(s, m) == \E c \in Subscribers : m \in spWants[c][s]
Has(s, m) == m \in spPool.tracked[s] \/ <<s, m>> \in spCall.pending
IsServed(s) ==
    /\ \A m \in FeedModes : Wants(s, m) => Has(s, m)
    /\ Streams(spPool, s)
IsWanted(s) == \A m \in FeedModes : Has(s, m) => Wants(s, m)
Agrees(s) == (s \notin spLost => IsServed(s)) /\ (s \notin spKept => IsWanted(s))

ProxyType ==
    /\ spScenario \in Scenarios
    /\ spAdapter \in BOOLEAN
    /\ spWants \in [Subscribers -> [Instruments -> SUBSET FeedModes]]
    /\ spCall \in [step: Recovering \cup {"none", "leave"}, client: Subscribers \cup {0},
                   symbol: Instruments \cup {0}, mode: FeedModes \cup {0},
                   pending: SUBSET SP!Feeds]
    /\ GoodBooks(spPool)

\* A call is of a client that is there, a recovery of one with an adapter.  Until the
\* books are cleared, what they contain is to be put back.
CallInHand ==
    /\ spCall.step # "none" => spCall.client \in Subscribers \cap spAuthenticated
    /\ spCall.step \in Recovering =>
          spAdapter /\ <<spCall.symbol, spCall.mode>> \in SP!Feeds
    /\ spCall.pending # {} => spCall.step \in {"initialize", "connect", "restore"}
    /\ spCall.step = "initialize" =>
          \A s \in Instruments : \A m \in spPool.tracked[s] : <<s, m>> \in spCall.pending

\* Only who is there subscribes, only with an adapter, and only to feeds.
InUse ==
    /\ \A c \in Subscribers, s \in Instruments :
          spWants[c][s] # {} => c \in spAuthenticated
    /\ \A s \in Instruments : /\ \A m \in spPool.tracked[s] : <<s, m>> \in SP!Feeds
                              /\ ~spAdapter => spPool.tracked[s] = {}

ProxyInv == ProxyType /\ CallInHand /\ InUse /\ \A s \in Instruments : Agrees(s)

LEMMA FeedsKnown ==
    ASSUME spScenario \in Scenarios
    PROVE  /\ SP!Feeds \subseteq Instruments \X FeedModes
           /\ \A c \in Subscribers : spScenario.feeds[c] \subseteq SP!Feeds
           /\ \A f \in SP!Feeds : /\ f[1] \in Instruments /\ f[2] \in FeedModes
                                  /\ f = <<f[1], f[2]>>
  <1>1. \A c \in Subscribers : spScenario.feeds[c] \subseteq Instruments \X FeedModes
    BY SymbolsAssumption DEF FeedModes
  <1>2. SP!Feeds \subseteq Instruments \X FeedModes
    BY <1>1 DEF SP!Feeds
  <1>3. \A c \in Subscribers : spScenario.feeds[c] \subseteq SP!Feeds
    BY DEF SP!Feeds
  <1>4. QED
    BY <1>2, <1>3

\* What is forgotten of the failures is forgotten with its symbol.
LEMMA Marked ==
    ASSUME NEW dropped, NEW held, SP!Mark(dropped, held), GoodBooks(spPool)',
           NEW s \in Instruments, s \notin spLost \cup dropped => IsServed(s)',
           s \notin spKept \cup held => IsWanted(s)'
    PROVE  Agrees(s)'
  <1>1. ASSUME s \notin spLost', s \in spLost \cup dropped
        PROVE  IsServed(s)'
    <2>1. spPool'.tracked[s] = {} /\ \A c \in Subscribers : spWants'[c][s] = {}
      BY <1>1 DEF SP!Mark
    <2>2. spPool'.streams[s] = 0 /\ SP!Highest({}) = 0
      BY <2>1, HighestMode DEF GoodBooks
    <2>3. QED
      BY <2>1, <2>2 DEF IsServed, Wants, Streams
  <1>2. ASSUME s \notin spKept', s \in spKept \cup held
        PROVE  IsWanted(s)'
    <2>1. spPool'.tracked[s] = {} /\ \A f \in spCall'.pending : f[1] # s
      BY <1>2 DEF SP!Mark
    <2>2. \A m : <<s, m>> \notin spCall'.pending
      BY <2>1
    <2>3. QED
      BY <2>1, <2>2 DEF IsWanted, Has
  <1>3. QED
    BY <1>1, <1>2 DEF Agrees

LEMMA ProxyInit ==
    ASSUME SP!Init
    PROVE  ProxyInv
  <1> USE DEF SP!Init
  <1>1. ProxyType
    BY EmptyBooks DEF ProxyType, SP!NoCall
  <1>2. CallInHand
    BY DEF CallInHand, SP!NoCall, Recovering
  <1>3. InUse
    BY EmptyBooks DEF InUse
  <1>4. \A s \in Instruments : Agrees(s)
    BY EmptyBooks, HighestMode
    DEF Agrees, IsServed, IsWanted, Wants, Has, Streams, SP!NoCall
  <1>5. QED
    BY <1>1, <1>2, <1>3, <1>4 DEF ProxyInv

LEMMA AuthenticateKeeps ==
    ASSUME ProxyInv, NEW c \in Subscribers, SP!Authenticate(c)
    PROVE  ProxyInv'
  <1> USE DEF ProxyInv, SP!Authenticate
  <1> DEFINE fresh == SP!FirstAdapter(SP!EmptyPool)
  <1>1. GoodBooks(fresh) /\ \A s \in Instruments : fresh.tracked[s] = {} /\ Streams(fresh, s)
    BY EmptyBooks, FirstAdapterBooks, HighestMode DEF Streams
  <1> HIDE DEF fresh
  <1>2. \/ UNCHANGED <<spAdapter, spPool, spLost, spKept>>
        \/ /\ ~spAdapter /\ spAdapter' = TRUE /\ spPool' = fresh /\ SP!Mark({}, {})
           /\ \A s \in Instruments : spPool.tracked[s] = {}
    BY DEF fresh, InUse
  <1>3. SP!Feeds' = SP!Feeds
    BY DEF SP!Feeds
  <1>4. ProxyType'
    BY <1>1, <1>2, <1>3 DEF ProxyType
  <1>5. CallInHand'
    BY <1>1, <1>2, <1>3 DEF CallInHand, SP!Idle, Recovering
  <1>6. InUse'
    BY <1>1, <1>2, <1>3 DEF InUse
  <1>7. ASSUME NEW s \in Instruments PROVE Agrees(s)'
    <2>1. CASE UNCHANGED <<spPool, spLost, spKept>>
      BY <2>1 DEF Agrees, IsServed, IsWanted, Wants, Has
    <2>2. CASE spPool' = fresh /\ SP!Mark({}, {}) /\ spPool.tracked[s] = {}
      <3>1. /\ s \notin spLost => IsServed(s)'
            /\ s \notin spKept => IsWanted(s)'
        BY <1>1, <2>2 DEF Agrees, IsServed, IsWanted, Wants, Has
      <3>2. QED
        BY <1>4, <2>2, <3>1, Marked DEF ProxyType
    <2>3. QED
      BY <1>2, <2>1, <2>2
  <1>8. QED
    BY <1>4, <1>5, <1>6, <1>7

\* The end of a subscription.
LEMMA AnswerKeeps ==
    ASSUME ProxyInv, NEW c \in Subscribers, c \in spAuthenticated, spAdapter,
           NEW s \in Instruments, NEW m \in FeedModes, <<s, m>> \in SP!Feeds,
           spCall.pending = {}, NEW o, Subscribed(spPool, s, m, o), SP!Answer(c, s, m, o)
    PROVE  ProxyInv'
  <1> USE DEF ProxyInv
  <1>1. /\ spPool' = o.pool /\ spCall' = SP!NoCall /\ SP!Mark({}, {})
        /\ UNCHANGED <<spScenario, spAuthenticated, spAdapter>>
        /\ spWants' = IF o.answer = "success"
                      THEN [spWants EXCEPT ![c][s] = @ \cup {m}] ELSE spWants
    BY DEF SP!Answer
  <1>2. /\ GoodBooks(spPool')
        /\ \A t \in Instruments \ {s} : /\ spPool'.tracked[t] = spPool.tracked[t]
                                        /\ Streams(spPool, t) => Streams(spPool', t)
        /\ spPool'.tracked[s] = IF o.answer = "success"
                                THEN spPool.tracked[s] \cup {m} ELSE spPool.tracked[s]
        /\ Streams(spPool, s) => Streams(spPool', s)
    BY <1>1 DEF Subscribed, Others, Streams
  <1>3. SP!Feeds' = SP!Feeds
    BY <1>1 DEF SP!Feeds
  <1>4. /\ spWants' \in [Subscribers -> [Instruments -> SUBSET FeedModes]]
        /\ \A d \in Subscribers, t \in Instruments :
              spWants'[d][t] = IF d = c /\ t = s /\ o.answer = "success"
                               THEN spWants[d][t] \cup {m} ELSE spWants[d][t]
    BY <1>1 DEF ProxyType
  <1>5. ProxyType'
    BY <1>1, <1>2, <1>3, <1>4 DEF ProxyType, SP!NoCall
  <1>6. CallInHand'
    BY <1>1 DEF CallInHand, SP!NoCall, Recovering
  <1>7. InUse'
    BY <1>1, <1>2, <1>3, <1>4 DEF InUse
  <1>8. ASSUME NEW t \in Instruments PROVE Agrees(t)'
    <2>1. \A n \in FeedModes :
             /\ Wants(t, n)' => Wants(t, n) \/ (t = s /\ n = m /\ o.answer = "success")
             /\ Wants(t, n) => Wants(t, n)'
             /\ t = s /\ n = m /\ o.answer = "success" => Wants(t, n)'
      BY <1>4 DEF Wants
    <2>2. \A n \in FeedModes :
             /\ Has(t, n) => Has(t, n)'
             /\ t = s /\ n = m /\ o.answer = "success" => Has(t, n)'
             /\ Has(t, n)' => Has(t, n) \/ (t = s /\ n = m /\ o.answer = "success")
      BY <1>1, <1>2 DEF Has, SP!NoCall
    <2>3. Streams(spPool, t) => Streams(spPool', t)
      BY <1>2
    <2>4. t \notin spLost => IsServed(t)'
      BY <2>1, <2>2, <2>3 DEF Agrees, IsServed
    <2>5. t \notin spKept => IsWanted(t)'
      BY <2>1, <2>2 DEF Agrees, IsWanted
    <2>6. QED
      BY <1>1, <1>2, <2>4, <2>5, Marked
  <1>9. QED
    BY <1>5, <1>6, <1>7, <1>8

LEMMA SubscribeClientKeeps ==
    ASSUME ProxyInv, NEW c \in Subscribers, NEW f \in spScenario.feeds[c],
           SP!SubscribeClient(c, f[1], f[2])
    PROVE  ProxyInv'
  <1>1. f \in SP!Feeds /\ f[1] \in Instruments /\ f[2] \in FeedModes /\ f = <<f[1], f[2]>>
    BY FeedsKnown DEF ProxyInv, ProxyType
  <1>2. PICK o \in SP!SubscribeInner(spPool, f[1], f[2]) : SP!Answer(c, f[1], f[2], o)
    BY DEF SP!SubscribeClient
  <1>3. Subscribed(spPool, f[1], f[2], o)
    BY <1>1, <1>2, SubscribedBooks DEF ProxyInv, ProxyType
  <1>4. c \in spAuthenticated /\ spAdapter /\ spCall.pending = {}
    BY DEF SP!SubscribeClient, SP!Served, SP!Idle, ProxyInv, CallInHand
  <1>5. QED
    BY <1>1, <1>2, <1>3, <1>4, AnswerKeeps

LEMMA RetrySubscriptionKeeps ==
    ASSUME ProxyInv, SP!Retry
    PROVE  ProxyInv'
  <1> DEFINE s == spCall.symbol
             m == spCall.mode
  <1>1. /\ spCall.client \in Subscribers /\ spCall.client \in spAuthenticated /\ spAdapter
        /\ <<s, m>> \in SP!Feeds /\ spCall.pending = {}
    BY DEF SP!Retry, ProxyInv, CallInHand, Recovering
  <1>2. s \in Instruments /\ m \in FeedModes
    BY <1>1, FeedsKnown DEF ProxyInv, ProxyType
  <1>3. PICK o \in SP!SubscribeInner(spPool, s, m) : SP!Answer(spCall.client, s, m, o)
    BY DEF SP!Retry
  <1>4. Subscribed(spPool, s, m, o)
    BY <1>2, <1>3, SubscribedBooks DEF ProxyInv, ProxyType
  <1>5. QED
    BY <1>1, <1>2, <1>3, <1>4, AnswerKeeps

LEMMA TokenRefusedKeeps ==
    ASSUME ProxyInv, NEW c \in Subscribers, NEW f \in spScenario.feeds[c],
           SP!TokenRefused(c, f[1], f[2])
    PROVE  ProxyInv'
  <1> USE DEF ProxyInv
  <1>1. f \in SP!Feeds /\ f[1] \in Instruments /\ f[2] \in FeedModes /\ f = <<f[1], f[2]>>
    BY FeedsKnown DEF ProxyType
  <1>2. PICK o \in SP!SubscribeInner(spPool, f[1], f[2]) :
            o.answer = "auth error" /\ spPool' = o.pool
    BY DEF SP!TokenRefused
  <1>3. Subscribed(spPool, f[1], f[2], o)
    BY <1>1, <1>2, SubscribedBooks DEF ProxyType
  <1>4. /\ GoodBooks(spPool')
        /\ \A t \in Instruments : /\ spPool'.tracked[t] = spPool.tracked[t]
                                  /\ Streams(spPool, t) => Streams(spPool', t)
    BY <1>2, <1>3 DEF Subscribed, Others, Streams
  <1>5. spCall.pending = {} /\ SP!Feeds' = SP!Feeds
    BY DEF SP!TokenRefused, CallInHand, SP!Idle, SP!Feeds
  <1>6. spCall' = [step |-> "snapshot", client |-> c, symbol |-> f[1], mode |-> f[2],
                   pending |-> {}]
    BY DEF SP!TokenRefused, SP!NoCall
  <1>12. /\ spScenario' = spScenario /\ spWants' = spWants /\ spAdapter' = spAdapter
         /\ spAuthenticated' = spAuthenticated /\ spLost' = spLost /\ spKept' = spKept
         /\ c \in spAuthenticated /\ spAdapter
    BY DEF SP!TokenRefused, SP!Served
  <1>7. ProxyType'
    BY <1>1, <1>4, <1>5, <1>6, <1>12 DEF ProxyType, Recovering
  <1>8. CallInHand'
    BY <1>1, <1>5, <1>6, <1>12 DEF CallInHand
  <1>9. InUse'
    BY <1>4, <1>5, <1>12 DEF InUse
  <1>10. \A s \in Instruments : Agrees(s)'
    BY <1>4, <1>5, <1>6, <1>12 DEF Agrees, IsServed, IsWanted, Wants, Has
  <1>11. QED
    BY <1>7, <1>8, <1>9, <1>10

LEMMA SnapshotKeeps ==
    ASSUME ProxyInv, SP!Snapshot
    PROVE  ProxyInv'
  <1> USE DEF ProxyInv, SP!Snapshot
  <1>1. spCall.pending = {} /\ SP!Feeds' = SP!Feeds
    BY DEF CallInHand, SP!Feeds
  <1>2. /\ spCall'.step = "initialize" /\ spCall'.client = spCall.client
        /\ spCall'.symbol = spCall.symbol /\ spCall'.mode = spCall.mode
        /\ spCall'.pending = {f \in SP!Feeds : f[2] \in spPool.tracked[f[1]]}
    BY DEF ProxyType
  <1>3. ProxyType'
    BY <1>1, <1>2 DEF ProxyType, Recovering
  <1>4. CallInHand'
    BY <1>1, <1>2 DEF CallInHand, InUse, Recovering
  <1>5. InUse'
    BY <1>1 DEF InUse
  <1>6. \A s \in Instruments : Agrees(s)'
    <2>1. \A s \in Instruments : \A m : Has(s, m)' <=> Has(s, m)
      BY <1>1, <1>2 DEF Has
    <2>2. QED
      BY <2>1 DEF Agrees, IsServed, IsWanted, Wants
  <1>7. QED
    BY <1>3, <1>4, <1>5, <1>6

\* A recovery that gives up loses what it has not put back.
LEMMA GiveUpKeeps ==
    ASSUME ProxyInv, spCall.step \in Recovering, SP!GiveUp(spPool'), GoodBooks(spPool'),
           UNCHANGED <<spScenario, spAuthenticated, spWants, spAdapter>>,
           \A s \in Instruments :
              /\ spPool'.tracked[s] \subseteq spPool.tracked[s]
              /\ \A m \in spPool.tracked[s] :
                    m \in spPool'.tracked[s] \/ <<s, m>> \in spCall.pending
              /\ Streams(spPool, s) => Streams(spPool', s)
    PROVE  ProxyInv'
  <1> USE DEF ProxyInv
  <1> DEFINE away == {f[1] : f \in {g \in spCall.pending : g[2] \notin spPool'.tracked[g[1]]}}
  <1>1. spCall' = SP!NoCall /\ SP!Mark(away, {})
    BY DEF SP!GiveUp
  <1>2. \A s, m : <<s, m>> \in spCall.pending /\ m \notin spPool'.tracked[s] => s \in away
    <2> SUFFICES ASSUME NEW s, NEW m, <<s, m>> \in spCall.pending, m \notin spPool'.tracked[s]
                 PROVE  s \in away
      OBVIOUS
    <2> DEFINE f == <<s, m>>
    <2>1. f \in {g \in spCall.pending : g[2] \notin spPool'.tracked[g[1]]} /\ f[1] = s
      OBVIOUS
    <2> HIDE DEF f
    <2>2. QED
      BY <2>1
  <1> HIDE DEF away
  <1>3. SP!Feeds' = SP!Feeds
    BY DEF SP!Feeds
  <1>4. ProxyType'
    BY <1>1, <1>3 DEF ProxyType, SP!NoCall
  <1>5. CallInHand'
    BY <1>1 DEF CallInHand, SP!NoCall, Recovering
  <1>6. InUse'
    BY <1>3 DEF InUse
  <1>7. ASSUME NEW s \in Instruments PROVE Agrees(s)'
    <2>1. \A m : /\ Has(s, m)' => Has(s, m)
                 /\ s \notin away /\ Has(s, m) => Has(s, m)'
      BY <1>1, <1>2 DEF Has, SP!NoCall
    <2>2. \A m : Wants(s, m)' <=> Wants(s, m)
      BY DEF Wants
    <2>3. s \notin spLost \cup away => IsServed(s)'
      BY <2>1, <2>2 DEF Agrees, IsServed
    <2>4. s \notin spKept => IsWanted(s)'
      BY <2>1, <2>2 DEF Agrees, IsWanted
    <2>5. QED
      BY <1>1, <2>3, <2>4, Marked
  <1>8. QED
    BY <1>4, <1>5, <1>6, <1>7

LEMMA InitializeKeeps ==
    ASSUME ProxyInv, SP!Initialize
    PROVE  ProxyInv'
  <1> USE DEF ProxyInv, SP!Initialize
  <1> DEFINE cleared == IF spPool.initialized THEN SP!EmptyPool ELSE spPool
             fresh == SP!FirstAdapter(cleared)
  <1>1. GoodBooks(spPool)
    BY DEF ProxyType
  <1>2. GoodBooks(cleared)
    BY <1>1, EmptyBooks
  <1>3. GoodBooks(fresh) /\ fresh.tracked = cleared.tracked /\ fresh.streams = cleared.streams
    BY <1>2, FirstAdapterBooks
  <1>4. \A s \in Instruments :
           /\ cleared.tracked[s] \subseteq spPool.tracked[s]
           /\ \A m \in spPool.tracked[s] : <<s, m>> \in spCall.pending
           /\ Streams(spPool, s) => Streams(cleared, s)
    BY EmptyBooks, HighestMode DEF CallInHand, Streams
  <1>5. spCall.step = "initialize" /\ SP!Feeds' = SP!Feeds
    BY DEF SP!Feeds
  <1>6. \/ spPool' = fresh /\ spCall' = [spCall EXCEPT !.step = "connect"] /\ SP!Mark({}, {})
        \/ spPool' = cleared /\ SP!GiveUp(spPool')
    OBVIOUS
  <1>7. UNCHANGED <<spScenario, spAuthenticated, spWants, spAdapter>>
    OBVIOUS
  <1> HIDE DEF cleared, fresh, SP!Initialize
  <1>8. CASE spPool' = fresh /\ spCall' = [spCall EXCEPT !.step = "connect"] /\ SP!Mark({}, {})
    <2>1. /\ spCall'.step = "connect" /\ spCall'.client = spCall.client
          /\ spCall'.symbol = spCall.symbol /\ spCall'.mode = spCall.mode
          /\ spCall'.pending = spCall.pending
      BY <1>8 DEF ProxyType
    <2>2. ProxyType'
      BY <1>3, <1>5, <1>7, <1>8 DEF ProxyType, Recovering
    <2>3. CallInHand'
      BY <1>5, <1>7, <2>1 DEF CallInHand, Recovering
    <2>4. InUse'
      BY <1>3, <1>4, <1>5, <1>7, <1>8 DEF InUse
    <2>5. ASSUME NEW s \in Instruments PROVE Agrees(s)'
      <3>1. \A m : Has(s, m)' <=> Has(s, m)
        BY <1>3, <1>4, <1>8, <2>1 DEF Has
      <3>2. \A m : Wants(s, m)' <=> Wants(s, m)
        BY <1>7 DEF Wants
      <3>3. Streams(spPool, s) => Streams(spPool', s)
        BY <1>3, <1>4, <1>8 DEF Streams
      <3>4. s \notin spLost => IsServed(s)'
        BY <3>1, <3>2, <3>3 DEF Agrees, IsServed
      <3>5. s \notin spKept => IsWanted(s)'
        BY <3>1, <3>2 DEF Agrees, IsWanted
      <3>6. QED
        BY <1>3, <1>8, <3>4, <3>5, Marked
    <2>6. QED
      BY <2>2, <2>3, <2>4, <2>5
  <1>9. CASE spPool' = cleared /\ SP!GiveUp(spPool')
    BY <1>2, <1>4, <1>5, <1>7, <1>9, GiveUpKeeps DEF Recovering
  <1>10. QED
    BY <1>6, <1>8, <1>9

LEMMA ConnectKeeps ==
    ASSUME ProxyInv, SP!Connect
    PROVE  ProxyInv'
  <1> USE DEF ProxyInv, SP!Connect
  <1>1. GoodBooks(spPool) /\ spCall.step = "connect" /\ SP!Feeds' = SP!Feeds
    BY DEF ProxyType, SP!Feeds
  <1>2. CASE spCall' = [spCall EXCEPT !.step = "restore"] /\ UNCHANGED <<spLost, spKept>>
    <2>1. /\ spCall'.step = "restore" /\ spCall'.client = spCall.client
          /\ spCall'.symbol = spCall.symbol /\ spCall'.mode = spCall.mode
          /\ spCall'.pending = spCall.pending
      BY <1>2 DEF ProxyType
    <2>2. ProxyType'
      BY <1>1, <1>2 DEF ProxyType, Recovering
    <2>3. CallInHand'
      BY <1>1, <2>1 DEF CallInHand, Recovering
    <2>4. InUse'
      BY <1>1 DEF InUse
    <2>5. \A s \in Instruments : Agrees(s)'
      BY <1>2, <2>1 DEF Agrees, IsServed, IsWanted, Wants, Has
    <2>6. QED
      BY <2>2, <2>3, <2>4, <2>5
  <1>3. CASE SP!GiveUp(spPool)
    <2>1. spPool' = spPool
      OBVIOUS
    <2>2. SP!GiveUp(spPool') /\ GoodBooks(spPool')
      BY <1>1, <1>3, <2>1
    <2>3. QED
      BY <1>1, <2>1, <2>2, GiveUpKeeps DEF Recovering
  <1>4. QED
    BY <1>2, <1>3

LEMMA RestoreKeeps ==
    ASSUME ProxyInv, NEW f \in SP!Feeds, SP!Restore(f[1], f[2])
    PROVE  ProxyInv'
  <1> USE DEF ProxyInv
  <1> DEFINE s == f[1]
             m == f[2]
  <1>1. s \in Instruments /\ m \in FeedModes
    BY FeedsKnown DEF ProxyType
  <1>2. PICK o \in SP!SubscribeInner(spPool, s, m) :
           spPool' = o.pool /\ SP!Mark(IF o.answer = "success" THEN {} ELSE {s}, {})
    BY DEF SP!Restore
  <1>3. Subscribed(spPool, s, m, o)
    BY <1>1, <1>2, SubscribedBooks DEF ProxyType
  <1> HIDE DEF s, m
  <1>4. /\ GoodBooks(spPool')
        /\ \A t \in Instruments \ {s} : spPool'.tracked[t] = spPool.tracked[t]
        /\ spPool'.tracked[s] = IF o.answer = "success"
                                THEN spPool.tracked[s] \cup {m} ELSE spPool.tracked[s]
        /\ \A t \in Instruments : Streams(spPool, t) => Streams(spPool', t)
    BY <1>2, <1>3 DEF Subscribed, Others, Streams
  <1>5. /\ UNCHANGED <<spScenario, spAuthenticated, spWants, spAdapter>>
        /\ spCall.step = "restore" /\ <<s, m>> \in spCall.pending
        /\ spCall' = [spCall EXCEPT !.pending = @ \ {<<s, m>>}]
    BY DEF SP!Restore, s, m
  <1>6. SP!Feeds' = SP!Feeds
    BY <1>5 DEF SP!Feeds
  <1>7. /\ spCall'.step = "restore" /\ spCall'.client = spCall.client
        /\ spCall'.symbol = spCall.symbol /\ spCall'.mode = spCall.mode
        /\ spCall'.pending = spCall.pending \ {<<s, m>>}
    BY <1>5 DEF ProxyType
  <1>8. ProxyType'
    BY <1>4, <1>5, <1>6 DEF ProxyType
  <1>9. CallInHand'
    BY <1>5, <1>6, <1>7 DEF CallInHand, Recovering
  <1>10. InUse'
    <2>1. <<s, m>> \in SP!Feeds
      BY <1>5 DEF ProxyType
    <2>2. spAdapter
      BY <1>5 DEF CallInHand, Recovering
    <2>3. QED
      BY <1>4, <1>5, <1>6, <2>1, <2>2 DEF InUse
  <1>11. ASSUME NEW t \in Instruments PROVE Agrees(t)'
    <2>1. \A n : /\ Has(t, n)' => Has(t, n)
                 /\ (o.answer = "success" \/ t # s) /\ Has(t, n) => Has(t, n)'
      BY <1>4, <1>5, <1>7 DEF Has
    <2>2. \A n : Wants(t, n)' <=> Wants(t, n)
      BY <1>5 DEF Wants
    <2>3. t \notin spLost /\ (o.answer = "success" \/ t # s) => IsServed(t)'
      BY <1>4, <2>1, <2>2 DEF Agrees, IsServed
    <2>4. t \notin spKept => IsWanted(t)'
      BY <2>1, <2>2 DEF Agrees, IsWanted
    <2>5. QED
      BY <1>2, <1>4, <2>3, <2>4, Marked
  <1>12. QED
    BY <1>8, <1>9, <1>10, <1>11

\* What one client gives up is given up by the pool if no other one wants it.
LEMMA DropKeeps ==
    ASSUME ProxyInv, NEW c \in Subscribers, NEW f \in SP!Feeds, SP!Drop(c, f[1], f[2]),
           spCall.step \in {"none", "leave"}
    PROVE  ProxyInv'
  <1> USE DEF ProxyInv
  <1> DEFINE s == f[1]
             m == f[2]
             others == \E d \in Subscribers \ {c} : m \in spWants[d][s]
  <1>1. s \in Instruments /\ m \in FeedModes
    BY FeedsKnown DEF ProxyType
  <1>2. PICK o \in IF others \/ ~spAdapter THEN {SP!Success(spPool)}
                   ELSE SP!Unsubscribe(spPool, s, m) :
           spPool' = o.pool /\ SP!Mark(o.lost, o.kept)
    BY DEF SP!Drop
  <1>3. /\ UNCHANGED <<spScenario, spAuthenticated, spAdapter, spCall>>
        /\ spWants' = [spWants EXCEPT ![c][s] = @ \ {m}]
    BY DEF SP!Drop
  <1>4. spCall.pending = {} /\ SP!Feeds' = SP!Feeds
    BY <1>3 DEF CallInHand, SP!Feeds
  <1> HIDE DEF s, m
  <1>5. /\ spWants' \in [Subscribers -> [Instruments -> SUBSET FeedModes]]
        /\ \A d \in Subscribers, t \in Instruments :
              spWants'[d][t] = IF d = c /\ t = s THEN spWants[d][t] \ {m} ELSE spWants[d][t]
    BY <1>1, <1>3 DEF ProxyType
  <1>6. \A t \in Instruments, n \in FeedModes :
           Wants(t, n)' <=> Wants(t, n) /\ (t = s /\ n = m => others)
    <2> SUFFICES ASSUME NEW t \in Instruments, NEW n \in FeedModes
                 PROVE  Wants(t, n)' <=> Wants(t, n) /\ (t = s /\ n = m => others)
      OBVIOUS
    <2>1. CASE t = s /\ n = m
      <3>1. \A d \in Subscribers : m \in spWants'[d][s] <=> m \in spWants[d][s] /\ d # c
        BY <1>1, <1>5
      <3>2. QED
        BY <2>1, <3>1 DEF Wants
    <2>2. CASE ~(t = s /\ n = m)
      <3>1. \A d \in Subscribers : n \in spWants'[d][t] <=> n \in spWants[d][t]
        BY <1>5, <2>2
      <3>2. QED
        BY <2>2, <3>1 DEF Wants
    <2>3. QED
      BY <2>1, <2>2
  <1> HIDE DEF others
  <1>7. /\ GoodBooks(spPool')
        /\ \A t \in Instruments :
              /\ spPool'.tracked[t] \subseteq spPool.tracked[t]
              /\ t \notin o.lost =>
                    /\ Streams(spPool, t) => Streams(spPool', t)
                    /\ \A n \in spPool.tracked[t] :
                          n \in spPool'.tracked[t] \/ (t = s /\ n = m /\ ~others)
        /\ s \notin o.kept /\ ~others => m \notin spPool'.tracked[s]
    <2>1. CASE others \/ ~spAdapter
      <3>1. spPool' = spPool
        BY <1>2, <2>1 DEF SP!Success, SP!Outcome
      <3>2. ~others => m \notin spPool.tracked[s]
        BY <1>1, <2>1 DEF InUse
      <3>3. QED
        BY <3>1, <3>2 DEF ProxyType
    <2>2. CASE ~others /\ spAdapter
      <3>1. Unsubscribed(spPool, s, m, o)
        BY <1>1, <1>2, <2>2, UnsubscribedMode DEF ProxyType
      <3>2. QED
        BY <1>1, <1>2, <2>2, <3>1 DEF Unsubscribed, Others, Streams
    <2>3. QED
      BY <2>1, <2>2
  <1>8. ProxyType'
    BY <1>3, <1>4, <1>5, <1>7 DEF ProxyType
  <1>9. CallInHand'
    BY <1>3, <1>4 DEF CallInHand, Recovering
  <1>10. InUse'
    BY <1>3, <1>4, <1>5, <1>7 DEF InUse
  <1>11. ASSUME NEW t \in Instruments PROVE Agrees(t)'
    <2>1. \A n : Has(t, n)' <=> n \in spPool'.tracked[t]
      BY <1>3, <1>4 DEF Has
    <2>2. \A n : Has(t, n) <=> n \in spPool.tracked[t]
      BY <1>4 DEF Has
    <2>3. t \notin spLost \cup o.lost => IsServed(t)'
      BY <1>6, <1>7, <2>1, <2>2 DEF Agrees, IsServed
    <2>4. t \notin spKept \cup o.kept => IsWanted(t)'
      BY <1>6, <1>7, <2>1, <2>2 DEF Agrees, IsWanted
    <2>5. QED
      BY <1>2, <1>7, <2>3, <2>4, Marked
  <1>12. QED
    BY <1>8, <1>9, <1>10, <1>11

LEMMA LeaveKeeps ==
    ASSUME ProxyInv, NEW c \in Subscribers, SP!Leave(c)
    PROVE  ProxyInv'
  <1> USE DEF ProxyInv
  <1>1. /\ spCall' = [step |-> "leave", client |-> c, symbol |-> 0, mode |-> 0, pending |-> {}]
        /\ UNCHANGED <<spScenario, spAuthenticated, spWants, spAdapter, spPool, spLost,
                       spKept>>
        /\ c \in spAuthenticated /\ spCall.step = "none"
    BY DEF SP!Leave, SP!NoCall, SP!Idle
  <1>2. spCall.pending = {} /\ SP!Feeds' = SP!Feeds
    BY <1>1 DEF CallInHand, SP!Feeds
  <1>3. ProxyType'
    BY <1>1, <1>2 DEF ProxyType
  <1>4. CallInHand'
    BY <1>1 DEF CallInHand, Recovering
  <1>5. InUse'
    BY <1>1, <1>2 DEF InUse
  <1>6. \A s \in Instruments : Agrees(s)'
    BY <1>1, <1>2 DEF Agrees, IsServed, IsWanted, Wants, Has
  <1>7. QED
    BY <1>3, <1>4, <1>5, <1>6

\* A pool that is emptied while nobody wants anything, or whose symbols are lost.
LEMMA EmptiedKeeps ==
    ASSUME ProxyInv, spCall' = spCall \/ (spCall' = SP!NoCall /\ spCall.pending = {}),
           NEW dropped, SP!Mark(dropped, {}), GoodBooks(spPool'),
           UNCHANGED <<spScenario, spWants>>,
           \A c \in Subscribers, s \in Instruments :
              spWants[c][s] # {} => c \in spAuthenticated',
           spCall'.step # "none" => spAuthenticated' = spAuthenticated,
           spCall'.step \in Recovering => spAdapter' = spAdapter, spAdapter' \in BOOLEAN,
           \A s \in Instruments : spPool'.tracked[s] = {} /\ spPool'.streams[s] = 0,
           \A s \in Instruments :
              (\E m : Wants(s, m)) => s \in dropped \/ spPool.tracked[s] = {}
    PROVE  ProxyInv'
  <1> USE DEF ProxyInv
  <1>1. SP!Feeds' = SP!Feeds
    BY DEF SP!Feeds
  <1>2. ProxyType'
    BY <1>1 DEF ProxyType, SP!NoCall
  <1>3. CallInHand'
    <2>1. CASE spCall' = spCall
      BY <1>1, <2>1 DEF CallInHand
    <2>2. CASE spCall' = SP!NoCall
      BY <2>2 DEF CallInHand, SP!NoCall, Recovering
    <2>3. QED
      BY <2>1, <2>2
  <1>4. InUse'
    BY <1>1 DEF InUse
  <1>5. ASSUME NEW s \in Instruments PROVE Agrees(s)'
    <2>1. spCall'.pending = spCall.pending
      <3>1. SP!NoCall.pending = {}
        BY DEF SP!NoCall
      <3>2. QED
        BY <3>1
    <2>2. \A m : /\ Has(s, m)' => Has(s, m)
                 /\ spPool.tracked[s] = {} => (Has(s, m)' <=> Has(s, m))
      BY <2>1 DEF Has
    <2>3. \A m : Wants(s, m)' <=> Wants(s, m)
      BY DEF Wants
    <2>4. s \notin spLost \cup dropped => IsServed(s)'
      BY <2>2, <2>3, HighestMode DEF Agrees, IsServed, Streams
    <2>5. s \notin spKept => IsWanted(s)'
      BY <2>2, <2>3 DEF Agrees, IsWanted
    <2>6. QED
      BY <2>4, <2>5, Marked
  <1>6. QED
    BY <1>2, <1>3, <1>4, <1>5

LEMMA LeftKeeps ==
    ASSUME ProxyInv, SP!Left
    PROVE  ProxyInv'
  <1> USE DEF ProxyInv
  <1> DEFINE last == spAuthenticated = {spCall.client} /\ spAdapter
             closes == last /\ ~spScenario.keepAlive
  <1>1. /\ spCall.step = "leave" /\ \A s \in Instruments : spWants[spCall.client][s] = {}
        /\ spAuthenticated' = spAuthenticated \ {spCall.client}
        /\ spCall' = SP!NoCall /\ spAdapter' = (spAdapter /\ ~closes)
        /\ spPool' = CASE closes -> SP!EmptyPool
                       [] last /\ ~closes -> SP!UnsubscribeAll(spPool)
                       [] OTHER -> spPool
        /\ UNCHANGED <<spScenario, spWants>> /\ SP!Mark({}, {})
    BY DEF SP!Left
  <1>2. spCall.pending = {} /\ GoodBooks(spPool)
    BY <1>1 DEF CallInHand, ProxyType
  <1>3. \A c \in Subscribers, s \in Instruments :
           spWants[c][s] # {} => c \in spAuthenticated'
    BY <1>1 DEF InUse
  <1>4. CASE last
    <2>1. spPool' = SP!EmptyPool \/ spPool' = SP!UnsubscribeAll(spPool)
      BY <1>1, <1>4
    <2>2. GoodBooks(spPool') /\ \A s \in Instruments : /\ spPool'.tracked[s] = {}
                                                       /\ spPool'.streams[s] = 0
      BY <1>2, <2>1, EmptyBooks, UnsubscribedBooks
    <2>3. \A s \in Instruments : ~\E m : Wants(s, m)
      BY <1>1, <1>3, <1>4 DEF Wants
    <2>4. spCall'.step = "none"
      BY <1>1 DEF SP!NoCall
    <2>5. QED
      BY <1>1, <1>2, <1>3, <2>2, <2>3, <2>4, EmptiedKeeps DEF Recovering
  <1>5. CASE ~last
    <2>1. spPool' = spPool /\ spAdapter' = spAdapter
      BY <1>1, <1>5 DEF ProxyType
    <2>2. SP!Feeds' = SP!Feeds
      BY <1>1 DEF SP!Feeds
    <2>3. ProxyType'
      BY <1>1, <2>1, <2>2 DEF ProxyType, SP!NoCall
    <2>4. CallInHand'
      BY <1>1 DEF CallInHand, SP!NoCall, Recovering
    <2>5. InUse'
      BY <1>1, <1>3, <2>1, <2>2 DEF InUse
    <2>6. ASSUME NEW s \in Instruments PROVE Agrees(s)'
      <3>1. (s \notin spLost => IsServed(s)') /\ (s \notin spKept => IsWanted(s)')
        BY <1>1, <1>2, <2>1 DEF Agrees, IsServed, IsWanted, Wants, Has, SP!NoCall
      <3>2. QED
        BY <1>1, <2>3, <3>1, Marked DEF ProxyType
    <2>7. QED
      BY <2>3, <2>4, <2>5, <2>6
  <1>6. QED
    BY <1>4, <1>5

LEMMA PublishKeeps ==
    ASSUME ProxyInv,
           UNCHANGED <<spScenario, spAuthenticated, spWants, spAdapter, spPool, spCall,
                       spLost, spKept>>
    PROVE  ProxyInv'
  <1> USE DEF ProxyInv
  <1>1. SP!Feeds' = SP!Feeds
    BY DEF SP!Feeds
  <1>2. ProxyType' /\ CallInHand' /\ InUse'
    BY <1>1 DEF ProxyType, CallInHand, InUse
  <1>3. \A s \in Instruments : Agrees(s)'
    BY DEF Agrees, IsServed, IsWanted, Wants, Has
  <1>4. QED
    BY <1>2, <1>3

LEMMA WantedKnown ==
    ASSUME NEW s \in Instruments, \E m : Wants(s, m)
    PROVE  s \in SP!WantedSymbols
  BY DEF Wants, SP!WantedSymbols, SP!Wanted

\* A login takes the pool away: what is wanted is lost.
LEMMA DiscardKeeps ==
    ASSUME ProxyInv, SP!Discard
    PROVE  ProxyInv'
  <1> USE DEF ProxyInv
  <1>1. CASE spRegistered
    <2>1. /\ spPool' = SP!EmptyPool /\ SP!Mark(SP!WantedSymbols, {})
          /\ UNCHANGED <<spScenario, spAuthenticated, spWants, spAdapter, spCall>>
      BY <1>1 DEF SP!Discard
    <2>2. GoodBooks(spPool') /\ \A s \in Instruments : /\ spPool'.tracked[s] = {}
                                                       /\ spPool'.streams[s] = 0
      BY <2>1, EmptyBooks
    <2>3. QED
      BY <2>1, <2>2, WantedKnown, EmptiedKeeps DEF InUse, ProxyType
  <1>2. CASE ~spRegistered
    <2>1. /\ spPool' = spPool /\ SP!Mark({}, {}) /\ GoodBooks(spPool')
          /\ UNCHANGED <<spScenario, spAuthenticated, spWants, spAdapter, spCall>>
      BY <1>2 DEF SP!Discard, ProxyType
    <2>2. SP!Feeds' = SP!Feeds
      BY <2>1 DEF SP!Feeds
    <2>3. ProxyType' /\ CallInHand' /\ InUse'
      BY <2>1, <2>2 DEF ProxyType, CallInHand, InUse
    <2>4. ASSUME NEW s \in Instruments PROVE Agrees(s)'
      <3>1. (s \notin spLost => IsServed(s)') /\ (s \notin spKept => IsWanted(s)')
        BY <2>1 DEF Agrees, IsServed, IsWanted, Wants, Has
      <3>2. QED
        BY <2>1, <3>1, Marked
    <2>5. QED
      BY <2>3, <2>4
  <1>3. QED
    BY <1>1, <1>2

LEMMA HandleInvalidationKeeps ==
    ASSUME ProxyInv, SP!HandleInvalidation
    PROVE  ProxyInv'
  <1> USE DEF ProxyInv
  <1> DEFINE dropped == IF spAdapter THEN SP!WantedSymbols ELSE {}
  <1>1. /\ UNCHANGED <<spScenario, spAuthenticated, spWants, spCall>>
        /\ spCall.step = "none" /\ spAdapter' = FALSE /\ SP!Mark(dropped, {})
        /\ spPool' = IF spAdapter THEN SP!EmptyPool ELSE spPool
    BY DEF SP!HandleInvalidation, SP!Idle
  <1>2. CASE spAdapter
    <2>1. GoodBooks(spPool') /\ \A s \in Instruments : /\ spPool'.tracked[s] = {}
                                                       /\ spPool'.streams[s] = 0
      BY <1>1, <1>2, EmptyBooks
    <2>2. spCall'.step = "none" /\ \A s \in Instruments : (\E m : Wants(s, m)) => s \in dropped
      BY <1>1, <1>2, WantedKnown
    <2> HIDE DEF dropped
    <2>3. QED
      BY <1>1, <2>1, <2>2, EmptiedKeeps DEF InUse, Recovering
  <1>3. CASE ~spAdapter
    <2>1. /\ spPool' = spPool /\ spAdapter' = spAdapter /\ SP!Mark({}, {})
          /\ GoodBooks(spPool') /\ spCall' = spCall
      BY <1>1, <1>3 DEF ProxyType, SP!HandleInvalidation
    <2>2. SP!Feeds' = SP!Feeds
      BY <1>1 DEF SP!Feeds
    <2>3. ProxyType' /\ CallInHand' /\ InUse'
      BY <1>1, <2>1, <2>2 DEF ProxyType, CallInHand, InUse, Recovering
    <2>4. ASSUME NEW s \in Instruments PROVE Agrees(s)'
      <3>1. (s \notin spLost => IsServed(s)') /\ (s \notin spKept => IsWanted(s)')
        BY <1>1, <2>1 DEF Agrees, IsServed, IsWanted, Wants, Has
      <3>2. QED
        BY <2>1, <3>1, Marked
    <2>5. QED
      BY <2>3, <2>4
  <1>4. QED
    BY <1>2, <1>3

LEMMA ProxyStep ==
    ASSUME ProxyInv, [SP!Next]_spVars
    PROVE  ProxyInv'
  <1>1. CASE UNCHANGED spVars
    BY <1>1, PublishKeeps DEF spVars
  <1>2. CASE \E c \in Subscribers : SP!Authenticate(c) \/ SP!Leave(c)
    BY <1>2, AuthenticateKeeps, LeaveKeeps
  <1>3. CASE \E c \in Subscribers : \E f \in spScenario.feeds[c] :
                 \/ SP!SubscribeClient(c, f[1], f[2])
                 \/ SP!TokenRefused(c, f[1], f[2])
                 \/ SP!UnsubscribeClient(c, f[1], f[2])
    <2>0. PICK c \in Subscribers : \E f \in spScenario.feeds[c] :
                 \/ SP!SubscribeClient(c, f[1], f[2])
                 \/ SP!TokenRefused(c, f[1], f[2])
                 \/ SP!UnsubscribeClient(c, f[1], f[2])
      BY <1>3
    <2>1. PICK f \in spScenario.feeds[c] :
                 \/ SP!SubscribeClient(c, f[1], f[2])
                 \/ SP!TokenRefused(c, f[1], f[2])
                 \/ SP!UnsubscribeClient(c, f[1], f[2])
      BY <2>0
    <2>2. f \in SP!Feeds
      BY FeedsKnown DEF ProxyInv, ProxyType
    <2>3. CASE SP!UnsubscribeClient(c, f[1], f[2])
      BY <2>2, <2>3, DropKeeps DEF SP!UnsubscribeClient, SP!Idle
    <2>4. QED
      BY <2>1, <2>3, SubscribeClientKeeps, TokenRefusedKeeps
  <1>4. CASE \E f \in SP!Feeds : SP!Restore(f[1], f[2]) \/ SP!DropNext(f[1], f[2])
    <2>1. PICK f \in SP!Feeds : SP!Restore(f[1], f[2]) \/ SP!DropNext(f[1], f[2])
      BY <1>4
    <2>2. CASE SP!DropNext(f[1], f[2])
      <3>1. spCall.step = "leave" /\ SP!Drop(spCall.client, f[1], f[2])
        BY <2>2 DEF SP!DropNext
      <3>2. spCall.client \in Subscribers
        BY <3>1 DEF ProxyInv, CallInHand
      <3>3. QED
        BY <3>1, <3>2, DropKeeps
    <2>3. QED
      BY <2>1, <2>2, RestoreKeeps
  <1>5. CASE SP!Publish
    BY <1>5, PublishKeeps DEF SP!Publish
  <1>6. CASE SP!Snapshot \/ SP!Initialize \/ SP!Connect \/ SP!Retry
    BY <1>6, SnapshotKeeps, InitializeKeeps, ConnectKeeps, RetrySubscriptionKeeps
  <1>7. CASE SP!Left \/ SP!Discard \/ SP!HandleInvalidation
    BY <1>7, LeftKeeps, DiscardKeeps, HandleInvalidationKeeps
  <1>8. QED
    BY <1>1, <1>2, <1>3, <1>4, <1>5, <1>6, <1>7 DEF SP!Next

\* What the broker streams is what some client wants, in the highest mode that one
\* wants, and the connections count their symbols, for any clients, symbols, limits,
\* logins and failures (subscribe_client, unsubscribe_client, cleanup_client,
\* _attempt_auth_recovery, _handle_cache_invalidation, cleanup_pools_for_user).
THEOREM ServerStreamsMatch == Spec => []StreamsMatchSubscriptions
  <1>1. [Next]_vars => [SP!Next]_spVars
    BY DEF Next, vars, Settle, Expire, SquareOff, Approve, DownloadData, Host,
           Signal, Subscribe, Switch
  <1>2. ProxyInv => StreamsMatchSubscriptions
    <2> SUFFICES ASSUME ProxyInv PROVE StreamsMatchSubscriptions
      OBVIOUS
    <2>1. GoodBooks(spPool) /\ spWants \in [Subscribers -> [Instruments -> SUBSET FeedModes]]
      BY DEF ProxyInv, ProxyType
    <2>2. \A s \in Instruments : Agrees(s) /\ spPool.tracked[s] \in SUBSET FeedModes
      BY <2>1 DEF ProxyInv, GoodBooks, Books
    <2>3. ASSUME NEW c \in Subscribers, NEW s \in Instruments \ spLost, SP!Pending(s) = {}
          PROVE  spPool.streams[s] >= SP!Highest(spWants[c][s])
      <3>1. \A m : <<s, m>> \notin spCall.pending
        <4> SUFFICES ASSUME NEW m, <<s, m>> \in spCall.pending PROVE FALSE
          OBVIOUS
        <4> DEFINE f == <<s, m>>
        <4>1. f[1] = s /\ f \in spCall.pending
          OBVIOUS
        <4> HIDE DEF f
        <4>2. QED
          BY <2>3, <4>1 DEF SP!Pending
      <3>2. spWants[c][s] \in SUBSET FeedModes
        BY <2>1
      <3>3. spWants[c][s] \subseteq spPool.tracked[s]
        BY <2>2, <3>1, <3>2 DEF Agrees, IsServed, Wants, Has
      <3>4. spPool.streams[s] = SP!Highest(spPool.tracked[s])
        BY <2>2 DEF Agrees, IsServed, Streams
      <3>5. SP!Highest(spWants[c][s]) <= SP!Highest(spPool.tracked[s])
        BY <2>2, <3>2, <3>3, HighestGrows
      <3>6. SP!Highest(spWants[c][s]) \in 0 .. 3 /\ SP!Highest(spPool.tracked[s]) \in 0 .. 3
        BY <2>2, <3>2, HighestMode
      <3>7. QED
        BY <3>4, <3>5, <3>6
    <2>4. ASSUME NEW s \in Instruments \ spKept
          PROVE  spPool.streams[s] <= SP!Highest(SP!Wanted(s))
      <3>1. SP!Wanted(s) \in SUBSET FeedModes
        BY <2>1 DEF SP!Wanted
      <3>2. spPool.tracked[s] \subseteq SP!Wanted(s)
        BY <2>2 DEF Agrees, IsWanted, Has, Wants, SP!Wanted
      <3>3. spPool.streams[s] \in {0, SP!Highest(spPool.tracked[s])}
        BY <2>1 DEF GoodBooks
      <3>4. SP!Highest(spPool.tracked[s]) <= SP!Highest(SP!Wanted(s))
        BY <2>2, <3>1, <3>2, HighestGrows
      <3>5. SP!Highest(SP!Wanted(s)) \in 0 .. 3
        BY <3>1, HighestMode
      <3>6. QED
        BY <3>3, <3>4, <3>5
    <2>5. \A i \in DOMAIN spPool.counts :
             /\ spPool.counts[i] = Cardinality({s \in Instruments : spPool.home[s] = i})
             /\ spPool.counts[i] <= MaxSymbols
      BY <2>1 DEF GoodBooks, CountsHome
    <2>6. \A S : SP!Cardinality(S) = Cardinality(S)
      BY DEF SP!Cardinality, Cardinality
    <2>7. SP!CountsAreRight
      BY <2>5, <2>6 DEF SP!CountsAreRight
    <2>8. QED
      BY <2>3, <2>4, <2>7
      DEF StreamsMatchSubscriptions, SP!StreamsMatchSubscriptions, SP!SubscribersGetTicks,
          SP!NothingStreamsForNobody
  <1>3. QED
    BY <1>1, <1>2, ProxyInit, ProxyStep, PTL DEF Spec, Init
=============================================================================
