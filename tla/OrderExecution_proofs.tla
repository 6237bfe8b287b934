------------------------ MODULE OrderExecution_proofs ------------------------
(***************************************************************************)
(* What OrderExecution promises for any number of orders, threads and      *)
(* restarts: an order that one thread at a time has in hand goes through   *)
(* the life of OrderLifecycle, and the position counts the trades.         *)
(***************************************************************************)
EXTENDS OrderExecution, Sums_proofs, FiniteSetTheorems, TLAPS

Steps == {"cancel", "execute", "read", "write"}
Places == {Idle} \cup {At(step, o) : step \in Steps, o \in OrderIds}

\* Where a thread is tells its step and its order.
LEMMA PlaceFacts ==
    /\ Idle \in Places /\ Idle.orders = {} /\ Idle.step = "idle"
    /\ \A step \in Steps, o \in OrderIds :
          /\ At(step, o) \in Places
          /\ At(step, o).step = step /\ At(step, o).orders = {o}
    /\ \A place \in Places :
          \/ place = Idle
          \/ \E step \in Steps, o \in OrderIds : place = At(step, o)
  <1>1. \A step \in Steps, o \in OrderIds : At(step, o) \in Places
    BY DEF Places
  <1>2. \A step, o : At(step, o).step = step /\ At(step, o).orders = {o}
    BY DEF At
  <1>3. Idle \in Places /\ Idle.orders = {} /\ Idle.step = "idle"
    BY DEF Places, Idle
  <1>4. \A place \in Places :
          place = Idle \/ \E step \in Steps, o \in OrderIds : place = At(step, o)
    BY DEF Places
  <1>5. QED
    BY <1>1, <1>2, <1>3, <1>4

LEMMA DifferentPlaces ==
    ASSUME NEW step \in Steps, NEW o \in OrderIds, NEW other \in Steps, NEW p \in OrderIds
    PROVE  /\ At(step, o) # Idle
           /\ At(step, o) = At(other, p) <=> step = other /\ o = p
  <1>1. At(step, o).step = step /\ At(step, o).orders = {o}
    BY PlaceFacts
  <1>2. At(other, p).step = other /\ At(other, p).orders = {p}
    BY PlaceFacts
  <1>3. At(step, o) # Idle
    BY <1>1, PlaceFacts
  <1>4. QED
    BY <1>1, <1>2, <1>3
LEMMA NoOrderIsIdle ==
    ASSUME NEW place \in Places, place.orders = {}
    PROVE  place = Idle
  <1>1. \A o \in OrderIds : place.orders # {o}
    OBVIOUS
  <1>2. \A step \in Steps, o \in OrderIds : place # At(step, o)
    BY <1>1, PlaceFacts
  <1>3. QED
    BY <1>2, PlaceFacts
-----------------------------------------------------------------------------
(***************************************************************************)
(* Type correctness.                                                       *)
(***************************************************************************)

TypeInv ==
    /\ status \in [OrderIds -> Statuses]
    /\ trades \in [OrderIds -> Nat]
    /\ position \in [row: BOOLEAN, quantity: Int]
    /\ reached \in [OrderIds -> BOOLEAN]
    /\ batch \in [Threads -> SUBSET OrderIds]
    /\ at \in [Threads -> Places]
    /\ seen \in [Threads -> [row: BOOLEAN, quantity: Int]]
    /\ loaded \in [Threads -> SUBSET OrderIds]
    /\ crashes \in 0 .. MaxCrashes
    /\ overlapped \subseteq OrderIds
    /\ failed \subseteq OrderIds
    /\ raced \in BOOLEAN

\* TypeOK with the places by their name.
LEMMA PlacesOfTypeOK == (TypeOK <=> TypeInv) /\ (TypeOK' <=> TypeInv')
  <1>1. TypeOK <=> TypeInv
    BY DEF TypeOK, TypeInv, Places, Steps
  <1>2. TypeOK' <=> TypeInv'
    BY DEF TypeOK, TypeInv, Places, Steps
  <1>3. QED
    BY <1>1, <1>2

\* A thread goes to another place, and the other threads stay where they are.
LEMMA GotoMoves ==
    ASSUME TypeOK, NEW t \in Threads, NEW place \in Places, Goto(t, place)
    PROVE  /\ at' \in [Threads -> Places] /\ at'[t] = place
           /\ \A u \in Threads \ {t} : at'[u] = at[u]
  BY PlacesOfTypeOK DEF TypeInv, Goto

LEMMA TakeUpType ==
    ASSUME TypeOK, NEW t \in Threads, NEW taken \in SUBSET OrderIds, TakeUp(t, taken)
    PROVE  overlapped \subseteq overlapped' /\ overlapped' \subseteq OrderIds
  BY DEF TypeOK, TakeUp

LEMMA ForgetType ==
    ASSUME TypeOK, NEW t \in Threads, NEW orders, Forget(t, orders)
    PROVE  loaded' \in [Threads -> SUBSET OrderIds]
  BY DEF TypeOK, Forget

LEMMA TypeInit == Init => TypeOK
  <1> SUFFICES ASSUME Init PROVE TypeOK
    OBVIOUS
  <1>1. at \in [Threads -> Places]
    BY PlaceFacts DEF Init
  <1>2. crashes \in 0 .. MaxCrashes
    BY MaxCrashesAssumption DEF Init
  <1>3. position \in [row: BOOLEAN, quantity: Int]
    BY DEF Init, NoPosition
  <1>4. seen \in [Threads -> [row: BOOLEAN, quantity: Int]]
    BY DEF Init, NoPosition
  <1>5. QED
    BY <1>1, <1>2, <1>3, <1>4, PlacesOfTypeOK DEF TypeInv, Init, Statuses

LEMMA TypeStep ==
    ASSUME TypeOK, [Next]_vars
    PROVE  TypeOK'
  <1> USE DEF Statuses, NoPosition, TypeInv
  <1> SUFFICES TypeInv'
    BY PlacesOfTypeOK
  <1>a. TypeInv
    BY PlacesOfTypeOK DEF TypeInv
  <1>c. Clients \subseteq Threads /\ Pollers \subseteq Threads /\ Tickers \subseteq Threads
    BY DEF Threads
  <1>1. CASE UNCHANGED vars
    BY <1>1, <1>a DEF vars
  <1>2. ASSUME NEW c \in Clients, NEW o \in OrderIds, PlaceOrder(c, o)
        PROVE  TypeInv'
    <2>1. /\ overlapped' \subseteq OrderIds
          /\ at' \in [Threads -> Places]
          /\ batch' \in [Threads -> SUBSET OrderIds]
      <3>1. overlapped' \subseteq OrderIds
        BY <1>2, <1>a, <1>c, TakeUpType DEF PlaceOrder
      <3>2. at' \in [Threads -> Places]
        BY <1>2, <1>a, <1>c, GotoMoves, PlaceFacts DEF PlaceOrder, Steps
      <3>3. batch' \in [Threads -> SUBSET OrderIds]
        BY <1>2, <1>a DEF PlaceOrder
      <3>4. QED
        BY <3>1, <3>2, <3>3
    <2>2. reached' \in [OrderIds -> BOOLEAN] /\ status' \in [OrderIds -> Statuses]
      BY <1>2, <1>a DEF PlaceOrder
    <2>3. QED
      BY <1>2, <1>a, <2>1, <2>2 DEF PlaceOrder
  <1>3. ASSUME NEW c \in Clients, NEW o \in OrderIds, CancelOrder(c, o)
        PROVE  TypeInv'
    <2>1. overlapped' \subseteq OrderIds /\ at' \in [Threads -> Places]
      BY <1>3, <1>c, TakeUpType, GotoMoves, PlaceFacts DEF CancelOrder, Steps
    <2>2. QED
      BY <1>3, <1>a, <2>1 DEF CancelOrder, database
  <1>4. ASSUME NEW c \in Clients, CommitCancel(c)
        PROVE  TypeInv'
    <2>1. at' \in [Threads -> Places]
      BY <1>4, <1>c, GotoMoves, PlaceFacts DEF CommitCancel
    <2>2. status' \in [OrderIds -> Statuses]
      BY <1>4, <1>a DEF CommitCancel
    <2>3. QED
      BY <1>4, <1>a, <2>1, <2>2 DEF CommitCancel, history
  <1>5. ASSUME NEW t \in Threads, NEW found \in SUBSET OrderIds, LoadBatch(t, found)
        PROVE  TypeInv'
    <2>1. overlapped' \subseteq OrderIds
      BY <1>5, TakeUpType DEF LoadBatch
    <2>2. QED
      BY <1>5, <1>a, <2>1 DEF LoadBatch, database
  <1>6. ASSUME NEW t \in Threads, NEW o \in OrderIds, Work(t, o)
        PROVE  TypeInv'
    <2>1. CASE SkipTraded(t, o) \/ SkipOrder(t, o)
      <3>1. loaded' \in [Threads -> SUBSET OrderIds]
        BY <2>1, ForgetType DEF SkipTraded, SkipOrder, Expire
      <3>2. batch' \in [Threads -> SUBSET OrderIds]
        <4>1. Leave(t, o)
          BY <2>1 DEF SkipTraded, SkipOrder
        <4>2. QED
          BY <1>a, <4>1 DEF Leave
      <3>3. status' \in [OrderIds -> Statuses]
        BY <2>1, <1>a DEF SkipTraded, SkipOrder, database
      <3>4. QED
        BY <2>1, <1>a, <3>1, <3>2, <3>3 DEF SkipTraded, SkipOrder, database, history
    <2>2. CASE ProcessOrder(t, o)
      <3>1. loaded' \in [Threads -> SUBSET OrderIds] /\ at' \in [Threads -> Places]
        BY <2>2, ForgetType, GotoMoves, PlaceFacts DEF ProcessOrder, Steps
      <3>2. batch' \in [Threads -> SUBSET OrderIds]
        BY <2>2, <1>a DEF ProcessOrder, Leave
      <3>3. QED
        BY <2>2, <1>a, <3>1, <3>2 DEF ProcessOrder, database, history
    <2>3. CASE ExecuteOrder(t, o)
      <3>1. loaded' \in [Threads -> SUBSET OrderIds] /\ at' \in [Threads -> Places]
        BY <2>3, ForgetType, GotoMoves, PlaceFacts DEF ExecuteOrder, Expire, Steps
      <3>2. status' \in [OrderIds -> Statuses] /\ trades' \in [OrderIds -> Nat]
        BY <2>3, <1>a DEF ExecuteOrder
      <3>3. QED
        BY <2>3, <1>a, <3>1, <3>2 DEF ExecuteOrder, history
    <2>4. CASE ReadPosition(t, o)
      <3>1. at' \in [Threads -> Places]
        BY <2>4, GotoMoves, PlaceFacts DEF ReadPosition, Steps
      <3>2. seen' \in [Threads -> [row: BOOLEAN, quantity: Int]]
        BY <2>4, <1>a DEF ReadPosition
      <3>3. QED
        BY <2>4, <1>a, <3>1, <3>2 DEF ReadPosition, database, history
    <2>5. CASE WritePosition(t, o)
      <3>1. at' \in [Threads -> Places]
        BY <2>5, GotoMoves, PlaceFacts DEF WritePosition
      <3>2. /\ position' \in [row: BOOLEAN, quantity: Int] /\ raced' \in BOOLEAN
            /\ seen' \in [Threads -> [row: BOOLEAN, quantity: Int]]
        BY <2>5, <1>a, QuantityAssumption DEF WritePosition
      <3>3. QED
        BY <2>5, <1>a, <3>1, <3>2 DEF WritePosition
    <2>6. CASE FailExecution(t, o)
      <3>1. loaded' \in [Threads -> SUBSET OrderIds] /\ at' \in [Threads -> Places]
        BY <2>6, ForgetType, GotoMoves, PlaceFacts DEF FailExecution, Expire
      <3>2. /\ status' \in [OrderIds -> Statuses] /\ failed' \subseteq OrderIds
            /\ seen' \in [Threads -> [row: BOOLEAN, quantity: Int]]
        BY <2>6, <1>a DEF FailExecution, Statuses
      <3>3. crashes' \in 0 .. MaxCrashes
        BY <2>6, <1>a, MaxCrashesAssumption DEF FailExecution
      <3>4. QED
        BY <2>6, <1>a, <3>1, <3>2, <3>3 DEF FailExecution
    <2>7. QED
      BY <1>6, <2>1, <2>2, <2>3, <2>4, <2>5, <2>6 DEF Work
  <1>7. ASSUME NEW o \in OrderIds, PriceReaches(o)
        PROVE  TypeInv'
    BY <1>7, <1>a DEF PriceReaches, database, history
  <1>8. CASE Crash
    <2>1. crashes' \in 0 .. MaxCrashes
      BY <1>8, <1>a, MaxCrashesAssumption DEF Crash
    <2>2. failed' \subseteq OrderIds
      <3>1. \A t \in Threads : at[t].orders \subseteq OrderIds
        BY <1>a, PlaceFacts
      <3>2. QED
        BY <1>8, <1>a, <3>1 DEF Crash
    <2>3. QED
      BY <1>8, <1>a, <2>1, <2>2, PlaceFacts DEF Crash, database
  <1>9. Pending \subseteq OrderIds /\ \A o \in Pending : {o} \subseteq OrderIds
    BY DEF Pending
  <1>10. QED
    BY <1>1, <1>2, <1>3, <1>4, <1>5, <1>6, <1>7, <1>8, <1>9, <1>c DEF Next, Poll, Tick

\* The rows of the tables and what the threads have in hand keep to their types.
THEOREM TypeCorrect == Spec => []TypeOK
  <1>1. TypeOK /\ [Next]_vars => TypeOK'
    BY TypeStep
  <1>2. QED
    BY <1>1, TypeInit, PTL DEF Spec
-----------------------------------------------------------------------------
(***************************************************************************)
(* Orders that one thread at a time has in hand.  The status says where    *)
(* such an order is: open while it waits, is cancelled or is executed, and *)
(* complete from the commit of its trade on.                               *)
(***************************************************************************)

Serial(o) ==
    /\ \A t, u \in Threads : o \in InHand(t) /\ o \in InHand(u) => t = u
    /\ \A t \in Threads :
          /\ o \in batch[t] => o \notin at[t].orders /\ status[o] = "open"
          /\ o \in at[t].orders =>
                status[o] = IF at[t].step \in {"read", "write"} THEN "complete" ELSE "open"
    /\ status[o] # "rejected"
    /\ trades[o] = IF status[o] = "complete" THEN 1 ELSE 0

OrdersAreSerial == \A o \in OrderIds : o \notin overlapped \cup failed => Serial(o)

\* What a step may do to the row of an order and to its trades.
Moved(o, from, to) == status[o] = from /\ status'[o] = to

Lives(o) ==
    \/ status'[o] = status[o] /\ trades'[o] = trades[o]
    \/ Moved(o, "absent", "open") /\ trades'[o] = trades[o]
    \/ Moved(o, "open", "cancelled") /\ trades'[o] = trades[o]
    \/ Moved(o, "open", "complete") /\ trades'[o] = 1

\* A step that leaves the row of the order alone; whoever has the order had it,
\* and at a step that the same status goes with.
LEMMA KeepsSerial ==
    ASSUME NEW p \in OrderIds, Serial(p),
           status'[p] = status[p], trades'[p] = trades[p],
           \A u \in Threads :
              /\ p \in batch'[u] => p \in batch[u] /\ p \notin at'[u].orders
              /\ p \in at'[u].orders =>
                    \/ /\ p \in at[u].orders
                       /\ at'[u].step \in {"read", "write"} <=> at[u].step \in {"read", "write"}
                    \/ p \in batch[u] /\ at'[u].step \notin {"read", "write"}
    PROVE  Serial(p)' /\ Lives(p)
  <1>1. \A u \in Threads : p \in InHand(u)' => p \in InHand(u)
    BY DEF InHand
  <1>2. \A t, u \in Threads : p \in InHand(t)' /\ p \in InHand(u)' => t = u
    BY <1>1 DEF Serial
  <1>3. \A t \in Threads :
          /\ p \in batch'[t] => p \notin at'[t].orders /\ status'[p] = "open"
          /\ p \in at'[t].orders =>
                status'[p] = IF at'[t].step \in {"read", "write"} THEN "complete" ELSE "open"
    BY DEF Serial
  <1>4. QED
    BY <1>2, <1>3 DEF Serial, Lives

\* A thread without orders takes up an open order, in its batch or to work on it.
LEMMA TakeUpKeepsSerial ==
    ASSUME NEW p \in OrderIds, Serial(p), NEW t \in Threads, Free(t),
           NEW taken, TakeUp(t, taken), p \in taken, p \notin overlapped',
           status'[p] = "open", trades'[p] = 0,
           \A u \in Threads \ {t} : batch'[u] = batch[u] /\ at'[u] = at[u],
           p \in batch'[t] => p \notin at'[t].orders,
           at'[t].step \notin {"read", "write"}
    PROVE  Serial(p)'
  <1>1. \A u \in Threads \ {t} : p \notin InHand(u)
    BY DEF TakeUp
  <1>2. \A u \in Threads \ {t} : p \notin InHand(u)'
    BY <1>1 DEF InHand
  <1>3. \A u \in Threads \ {t} : p \notin batch'[u] /\ p \notin at'[u].orders
    BY <1>1 DEF InHand
  <1>4. QED
    BY <1>2, <1>3 DEF Serial

LEMMA SerialStep ==
    ASSUME TypeOK, OrdersAreSerial, [Next]_vars,
           NEW p \in OrderIds, p \notin overlapped' \cup failed'
    PROVE  Serial(p)' /\ Lives(p)
  <1>a. /\ status \in [OrderIds -> Statuses] /\ trades \in [OrderIds -> Nat]
        /\ batch \in [Threads -> SUBSET OrderIds] /\ at \in [Threads -> Places]
    BY PlacesOfTypeOK DEF TypeInv
  <1>c. Clients \subseteq Threads /\ Pollers \subseteq Threads /\ Tickers \subseteq Threads
    BY DEF Threads
  <1>0. overlapped \subseteq overlapped' /\ failed \subseteq failed' => Serial(p)
    BY DEF OrdersAreSerial
  <1>1. CASE UNCHANGED vars
    <2>1. Serial(p)
      BY <1>0, <1>1 DEF vars
    <2>2. QED
      BY <1>1, <2>1 DEF vars, Serial, Lives, InHand
  <1>2. ASSUME NEW c \in Clients, NEW o \in OrderIds, PlaceOrder(c, o)
        PROVE  Serial(p)' /\ Lives(p)
    <2>1. /\ c \in Threads /\ batch[c] = {} /\ at[c].orders = {}
          /\ \A u \in Threads \ {c} : batch'[u] = batch[u] /\ at'[u] = at[u]
          /\ trades' = trades /\ Serial(p)
      BY <1>2, <1>0, <1>a, <1>c DEF PlaceOrder, Free, InHand, TakeUp, Goto
    <2>2. CASE p # o
      <3>1. status'[p] = status[p]
        BY <1>2, <1>a, <2>2 DEF PlaceOrder
      <3>2. p \notin batch'[c] /\ p \notin at'[c].orders
        BY <1>2, <1>a, <2>1, <2>2, PlaceFacts DEF PlaceOrder, Goto, Steps
      <3>3. \A u \in Threads : p \in batch[u] => p \notin at[u].orders
        BY <2>1 DEF Serial
      <3>4. QED
        BY <2>1, <3>1, <3>2, <3>3, KeepsSerial
    <2>3. CASE p = o
      <3>1. /\ status[p] = "absent" /\ status'[p] = "open"
            /\ trades[p] = 0 /\ trades'[p] = 0
        BY <1>2, <1>a, <2>1, <2>3 DEF PlaceOrder, Serial
      <3>2. \A u \in Threads : p \notin InHand(u)
        BY <2>1, <3>1 DEF Serial, InHand
      <3>3. \A u \in Threads \ {c} : p \notin InHand(u)'
        BY <2>1, <3>2 DEF InHand
      <3>4. /\ p \in batch'[c] => p \notin at'[c].orders
            /\ p \in at'[c].orders => at'[c].step \notin {"read", "write"}
        BY <1>2, <1>a, <2>1, <2>3, PlaceFacts DEF PlaceOrder, Goto, Steps
      <3>5. QED
        BY <2>1, <3>1, <3>3, <3>4 DEF Serial, Lives, InHand, Moved
    <2>4. QED
      BY <2>2, <2>3
  <1>3. ASSUME NEW c \in Clients, NEW o \in OrderIds, CancelOrder(c, o)
        PROVE  Serial(p)' /\ Lives(p)
    <2>1. /\ c \in Threads /\ batch[c] = {} /\ batch' = batch
          /\ \A u \in Threads \ {c} : at'[u] = at[u]
          /\ at'[c].step = "cancel" /\ at'[c].orders = {o}
          /\ UNCHANGED <<status, trades>> /\ Serial(p)
      BY <1>3, <1>0, <1>a, <1>c, PlaceFacts
         DEF CancelOrder, Free, InHand, TakeUp, Goto, database, Steps
    <2>2. CASE p # o
      <3>1. \A u \in Threads : p \in batch[u] => p \notin at[u].orders
        BY <2>1 DEF Serial
      <3>2. QED
        BY <2>1, <2>2, <3>1, KeepsSerial
    <2>3. CASE p = o
      <3>1. status[p] = "open" /\ trades[p] = 0 /\ p \in {o}
        BY <1>3, <2>1, <2>3 DEF CancelOrder, Serial
      <3>2. Free(c) /\ TakeUp(c, {o})
        BY <1>3 DEF CancelOrder
      <3>3. Serial(p)'
        BY <2>1, <3>1, <3>2, TakeUpKeepsSerial
      <3>4. QED
        BY <2>1, <3>3 DEF Lives
    <2>4. QED
      BY <2>2, <2>3
  <1>4. ASSUME NEW c \in Clients, CommitCancel(c)
        PROVE  Serial(p)' /\ Lives(p)
    <2>1. /\ c \in Threads /\ batch' = batch /\ at[c].step = "cancel"
          /\ \A u \in Threads \ {c} : at'[u] = at[u]
          /\ at'[c].orders = {}
          /\ trades' = trades /\ Serial(p)
      BY <1>4, <1>0, <1>a, <1>c, PlaceFacts DEF CommitCancel, Goto, history
    <2>2. CASE p \notin at[c].orders
      <3>1. status'[p] = status[p]
        BY <1>4, <1>a, <2>2 DEF CommitCancel
      <3>2. \A u \in Threads : p \in batch[u] => p \notin at[u].orders
        BY <2>1 DEF Serial
      <3>3. QED
        BY <2>1, <3>1, <3>2, KeepsSerial
    <2>3. CASE p \in at[c].orders
      <3>1. status[p] = "open" /\ status'[p] = "cancelled"
        BY <1>4, <1>a, <2>1, <2>3 DEF CommitCancel, Serial
      <3>2. \A u \in Threads : p \notin InHand(u)'
        BY <2>1, <2>3 DEF Serial, InHand
      <3>3. QED
        BY <2>1, <3>1, <3>2 DEF Serial, Lives, Moved, InHand
    <2>4. QED
      BY <2>2, <2>3
  <1>5. ASSUME NEW t \in Threads, NEW found \in SUBSET Pending, LoadBatch(t, found)
        PROVE  Serial(p)' /\ Lives(p)
    <2>1. /\ at' = at /\ at[t].orders = {} /\ batch'[t] = found
          /\ \A u \in Threads \ {t} : batch'[u] = batch[u]
          /\ UNCHANGED <<status, trades>> /\ Serial(p)
      BY <1>5, <1>0, <1>a DEF LoadBatch, Free, InHand, TakeUp, database
    <2>2. at[t].step \notin {"read", "write"}
      <3>1. at[t] = Idle
        BY <1>a, <2>1, NoOrderIsIdle
      <3>2. QED
        BY <3>1, PlaceFacts
    <2>3. CASE p \notin found
      <3>1. \A u \in Threads : p \in batch[u] => p \notin at[u].orders
        BY <2>1 DEF Serial
      <3>2. QED
        BY <2>1, <2>3, <3>1, KeepsSerial
    <2>4. CASE p \in found
      <3>1. status[p] = "open" /\ trades[p] = 0
        BY <2>1, <2>4 DEF Pending, Serial
      <3>2. Free(t) /\ TakeUp(t, found)
        BY <1>5 DEF LoadBatch
      <3>3. Serial(p)'
        BY <2>1, <2>2, <2>4, <3>1, <3>2, TakeUpKeepsSerial
      <3>4. QED
        BY <2>1, <3>3 DEF Lives
    <2>5. QED
      BY <2>3, <2>4
  <1>6. ASSUME NEW t \in Threads, NEW o \in OrderIds, SkipTraded(t, o) \/ SkipOrder(t, o)
        PROVE  Serial(p)' /\ Lives(p)
    <2>1. /\ at' = at /\ o \in batch[t] /\ batch'[t] = batch[t] \ {o}
          /\ \A u \in Threads \ {t} : batch'[u] = batch[u]
          /\ trades' = trades /\ Serial(p)
      BY <1>6, <1>0, <1>a DEF SkipTraded, SkipOrder, Leave, database, history
    <2>2. status'[p] = status[p]
      <3>1. CASE SkipTraded(t, o)
        <4>1. p # o
          BY <2>1, <3>1 DEF SkipTraded, Serial
        <4>2. QED
          BY <1>a, <3>1, <4>1 DEF SkipTraded
      <3>2. CASE SkipOrder(t, o)
        BY <3>2 DEF SkipOrder, database
      <3>3. QED
        BY <1>6, <3>1, <3>2
    <2>3. \A u \in Threads : p \in batch[u] => p \notin at[u].orders
      BY <2>1 DEF Serial
    <2>4. QED
      BY <2>1, <2>2, <2>3, KeepsSerial
  <1>7. ASSUME NEW t \in Threads, NEW o \in OrderIds, ProcessOrder(t, o)
        PROVE  Serial(p)' /\ Lives(p)
    <2>1. /\ o \in batch[t] /\ batch'[t] = batch[t] \ {o}
          /\ \A u \in Threads \ {t} : batch'[u] = batch[u] /\ at'[u] = at[u]
          /\ at'[t].orders = {o} /\ at'[t].step = "execute"
          /\ UNCHANGED <<status, trades>> /\ Serial(p)
      BY <1>7, <1>0, <1>a, PlaceFacts
         DEF ProcessOrder, Leave, Goto, database, history, Steps
    <2>2. \A u \in Threads : p \in batch[u] => p \notin at[u].orders
      BY <2>1 DEF Serial
    <2>3. QED
      BY <2>1, <2>2, KeepsSerial
  <1>8. ASSUME NEW t \in Threads, NEW o \in OrderIds, ExecuteOrder(t, o)
        PROVE  Serial(p)' /\ Lives(p)
    <2>1. /\ batch' = batch /\ at[t].orders = {o} /\ at[t].step = "execute"
          /\ \A u \in Threads \ {t} : at'[u] = at[u]
          /\ at'[t].orders = {o} /\ at'[t].step = "read"
          /\ Serial(p)
      BY <1>8, <1>0, <1>a, PlaceFacts DEF ExecuteOrder, Goto, history, Steps
    <2>2. CASE p # o
      <3>1. status'[p] = status[p] /\ trades'[p] = trades[p]
        BY <1>8, <1>a, <2>2 DEF ExecuteOrder
      <3>2. \A u \in Threads : p \in batch[u] => p \notin at[u].orders
        BY <2>1 DEF Serial
      <3>3. QED
        BY <2>1, <2>2, <3>1, <3>2, KeepsSerial
    <2>3. CASE p = o
      <3>1. /\ status[p] = "open" /\ status'[p] = "complete"
            /\ trades[p] = 0 /\ trades'[p] = 1
        BY <1>8, <1>a, <2>1, <2>3 DEF ExecuteOrder, Serial
      <3>2. \A u \in Threads : p \in InHand(u)' => u = t
        BY <2>1, <2>3 DEF Serial, InHand
      <3>3. p \notin batch[t]
        BY <2>1, <2>3 DEF Serial
      <3>4. \A u \in Threads : p \notin batch'[u] /\ (p \in at'[u].orders => u = t)
        BY <2>1, <3>2, <3>3 DEF InHand
      <3>5. QED
        BY <2>1, <3>1, <3>2, <3>4 DEF Serial, Lives, Moved
    <2>4. QED
      BY <2>2, <2>3
  <1>9. ASSUME NEW t \in Threads, NEW o \in OrderIds,
               ReadPosition(t, o) \/ WritePosition(t, o)
        PROVE  Serial(p)' /\ Lives(p)
    <2>1. /\ batch' = batch /\ at[t].orders = {o} /\ at[t].step \in {"read", "write"}
          /\ \A u \in Threads \ {t} : at'[u] = at[u]
          /\ at'[t].orders \subseteq {o}
          /\ at'[t].orders # {} => at'[t].step \in {"read", "write"}
          /\ UNCHANGED <<status, trades>> /\ Serial(p)
      BY <1>9, <1>0, <1>a, PlaceFacts
         DEF ReadPosition, WritePosition, Goto, database, history, Steps
    <2>2. \A u \in Threads : p \in batch[u] => p \notin at[u].orders
      BY <2>1 DEF Serial
    <2>3. QED
      BY <2>1, <2>2, KeepsSerial
  <1>10. ASSUME NEW t \in Threads, NEW o \in OrderIds, FailExecution(t, o)
         PROVE  Serial(p)' /\ Lives(p)
    <2>1. /\ batch' = batch /\ p # o
          /\ \A u \in Threads \ {t} : at'[u] = at[u]
          /\ at'[t].orders = {}
          /\ trades' = trades /\ Serial(p)
      BY <1>10, <1>0, <1>a, PlaceFacts DEF FailExecution, Goto
    <2>2. status'[p] = status[p]
      BY <1>10, <1>a, <2>1 DEF FailExecution
    <2>3. \A u \in Threads : p \in batch[u] => p \notin at[u].orders
      BY <2>1 DEF Serial
    <2>4. QED
      BY <2>1, <2>2, <2>3, KeepsSerial
  <1>11. ASSUME NEW o \in OrderIds, PriceReaches(o)
         PROVE  Serial(p)' /\ Lives(p)
    <2>1. UNCHANGED <<status, trades, batch, at>> /\ Serial(p)
      BY <1>11, <1>0 DEF PriceReaches, database, history
    <2>2. QED
      BY <2>1 DEF Serial, Lives, InHand
  <1>12. CASE Crash
    <2>1. UNCHANGED <<status, trades>> /\ Serial(p)
      BY <1>12, <1>0 DEF Crash, database
    <2>2. \A u \in Threads : batch'[u] = {} /\ at'[u].orders = {}
      BY <1>12, PlaceFacts DEF Crash
    <2>3. QED
      BY <2>1, <2>2, KeepsSerial
  <1>13. \A o \in Pending : {o} \subseteq Pending
    OBVIOUS
  <1>14. QED
    BY <1>1, <1>2, <1>3, <1>4, <1>5, <1>6, <1>7, <1>8, <1>9, <1>10, <1>11, <1>12,
       <1>13, <1>c
       DEF Next, Poll, Tick, Work

LEMMA SerialInit == Init => OrdersAreSerial
  BY PlaceFacts DEF Init, OrdersAreSerial, Serial, InHand

\* The inductive invariant: an order that no two passes overlapped on and no step failed
\* for is in one hand, and its row says how far that hand has come.
THEOREM SpecSerial == Spec => []OrdersAreSerial
  <1>1. TypeOK /\ OrdersAreSerial /\ [Next]_vars => OrdersAreSerial'
    BY SerialStep DEF OrdersAreSerial
  <1>2. QED
    BY <1>1, SerialInit, TypeCorrect, PTL DEF Spec

LEMMA LivesIsLifecycle ==
    ASSUME NEW o \in OrderIds, Lives(o)
    PROVE  Lifecycle(o)!Step
  BY DEF Lives, Moved, Lifecycle!Step, Lifecycle!Next, Lifecycle!Submit, Lifecycle!Fill,
         Lifecycle!Cancel, Lifecycle!Move, Lifecycle!vars

\* An order that one thread at a time has in hand lives as OrderLifecycle says,
\* whatever the others do: it is executed once at most, never after its
\* cancellation.
THEOREM SerialOrdersLive == Spec => SerialOrderKeepsLifecycle
  <1>1. TypeOK /\ OrdersAreSerial /\ [Next]_vars =>
          [\A o \in OrderIds :
             o \notin overlapped' \cup failed' => Lifecycle(o)!Step]_vars
    BY SerialStep, LivesIsLifecycle
  <1>2. QED
    BY <1>1, SpecSerial, TypeCorrect, PTL DEF Spec, SerialOrderKeepsLifecycle
-----------------------------------------------------------------------------
(***************************************************************************)
(* The position and the trades.  The difference are the fills in progress: *)
(* a trade is committed with one more of them, a written position is one   *)
(* fewer.                                                                  *)
(***************************************************************************)

\* The threads that have still to write the fill of an order.
Filling(o) == {t \in Threads : at[t] \in {At("read", o), At("write", o)}}

TradedOf == [o \in OrderIds |-> trades[o] * Quantity[o]]
FlightOf == [o \in OrderIds |-> Quantity[o] * Cardinality(Filling(o))]

PositionInv ==
    ~raced /\ failed = {} =>
        position.quantity = SumFunction(TradedOf) - SumFunction(FlightOf)

LEMMA FillingFinite ==
    ASSUME NEW o PROVE IsFiniteSet(Filling(o)) /\ Cardinality(Filling(o)) \in Nat
  <1>1. Filling(o) \subseteq Threads
    BY DEF Filling
  <1>2. QED
    BY <1>1, FinitenessAssumption, FS_Subset, FS_CardinalityType

LEMMA SumTypes ==
    ASSUME TypeOK
    PROVE  /\ TradedOf \in [OrderIds -> Int] /\ FlightOf \in [OrderIds -> Int]
           /\ SumFunction(TradedOf) \in Int /\ SumFunction(FlightOf) \in Int
  <1>1. TradedOf \in [OrderIds -> Int]
    BY QuantityAssumption DEF TypeOK, TradedOf
  <1>2. FlightOf \in [OrderIds -> Int]
    <2>1. \A o \in OrderIds : Quantity[o] \in Int /\ Cardinality(Filling(o)) \in Int
      BY QuantityAssumption, FillingFinite
    <2>2. \A o \in OrderIds : Quantity[o] * Cardinality(Filling(o)) \in Int
      BY <2>1
    <2>3. QED
      BY <2>2 DEF FlightOf
  <1>3. QED
    BY <1>1, <1>2, FinitenessAssumption, SumType

\* Only reading and writing the position is a fill in progress.
LEMMA FillingFacts ==
    ASSUME TypeOK, NEW t \in Threads, NEW o \in OrderIds
    PROVE  /\ t \in Filling(o) <=> at[t].step \in {"read", "write"} /\ at[t].orders = {o}
           /\ TypeOK' => (t \in Filling(o)' <=>
                 at'[t].step \in {"read", "write"} /\ at'[t].orders = {o})
  <1>1. ASSUME NEW place \in Places
        PROVE  place \in {At("read", o), At("write", o)} <=>
                  place.step \in {"read", "write"} /\ place.orders = {o}
    <2>1. At("read", o).step = "read" /\ At("read", o).orders = {o}
      BY PlaceFacts DEF Steps
    <2>2. At("write", o).step = "write" /\ At("write", o).orders = {o}
      BY PlaceFacts DEF Steps
    <2>3. CASE place = Idle
      BY <2>1, <2>2, <2>3, PlaceFacts
    <2>4. CASE \E step \in Steps, p \in OrderIds : place = At(step, p)
      <3>1. PICK step \in Steps, p \in OrderIds : place = At(step, p)
        BY <2>4
      <3>2. place.step = step /\ place.orders = {p}
        BY <3>1, PlaceFacts
      <3>3. QED
        BY <2>1, <2>2, <3>1, <3>2
    <2>5. QED
      BY <2>3, <2>4, PlaceFacts
  <1>2. at[t] \in Places
    BY PlacesOfTypeOK DEF TypeInv
  <1>3. TypeOK' => at'[t] \in Places
    BY PlacesOfTypeOK DEF TypeInv
  <1>4. QED
    BY <1>1, <1>2, <1>3 DEF Filling

\* A thread that neither had nor gets a fill in progress, and a thread that goes
\* on with one.
LEMMA FlightUnchanged ==
    ASSUME TypeOK, TypeOK',
           \A t \in Threads, o \in OrderIds : t \in Filling(o)' <=> t \in Filling(o)
    PROVE  FlightOf' = FlightOf
  <1>1. \A o \in OrderIds : Filling(o)' = Filling(o)
    BY DEF Filling
  <1>2. QED
    BY <1>1 DEF FlightOf

\* One fill more, or one fewer, of one order.
LEMMA FlightChanges ==
    ASSUME TypeOK, TypeOK', NEW t \in Threads, NEW o \in OrderIds,
           \A u \in Threads, p \in OrderIds : u # t =>
              (u \in Filling(p)' <=> u \in Filling(p)),
           \A p \in OrderIds : p # o => t \notin Filling(p) /\ t \notin Filling(p)'
    PROVE  /\ t \notin Filling(o) /\ t \in Filling(o)' =>
                SumFunction(FlightOf)' = SumFunction(FlightOf) + Quantity[o]
           /\ t \in Filling(o) /\ t \notin Filling(o)' =>
                SumFunction(FlightOf)' = SumFunction(FlightOf) - Quantity[o]
  <1>1. \A p \in OrderIds \ {o} : Filling(p)' = Filling(p)
    BY DEF Filling
  <1>2. \A p \in OrderIds \ {o} : FlightOf'[p] = FlightOf[p]
    BY <1>1 DEF FlightOf
  <1>3. FlightOf \in [OrderIds -> Int] /\ FlightOf' \in [OrderIds -> Int]
    <2>1. FlightOf \in [OrderIds -> Int]
      BY SumTypes
    <2>2. \A p \in OrderIds : Quantity[p] * Cardinality(Filling(p)') \in Int
      <3>1. \A p \in OrderIds : Filling(p)' \subseteq Threads
        BY DEF Filling
      <3>2. \A p \in OrderIds : Cardinality(Filling(p)') \in Int /\ Quantity[p] \in Int
        BY <3>1, FinitenessAssumption, QuantityAssumption, FS_Subset, FS_CardinalityType
      <3>3. QED
        BY <3>2
    <2>3. QED
      BY <2>1, <2>2 DEF FlightOf
  <1>4. SumFunction(FlightOf') = SumFunction(FlightOf) + (FlightOf'[o] - FlightOf[o])
    BY <1>2, <1>3, FinitenessAssumption, SumOfOneChange
  <1>5. /\ FlightOf[o] = Quantity[o] * Cardinality(Filling(o))
        /\ FlightOf'[o] = Quantity[o] * Cardinality(Filling(o)')
        /\ Quantity[o] \in Int /\ SumFunction(FlightOf) \in Int
    BY QuantityAssumption, SumTypes DEF FlightOf
  <1>6. IsFiniteSet(Filling(o)) /\ Cardinality(Filling(o)) \in Nat
    BY FillingFinite
  <1>7. ASSUME t \notin Filling(o), t \in Filling(o)'
        PROVE  SumFunction(FlightOf)' = SumFunction(FlightOf) + Quantity[o]
    <2>1. Filling(o)' = Filling(o) \cup {t}
      BY <1>7 DEF Filling
    <2>2. Cardinality(Filling(o)') = Cardinality(Filling(o)) + 1
      BY <1>6, <1>7, <2>1, FS_AddElement
    <2>3. FlightOf'[o] = FlightOf[o] + Quantity[o]
      BY <1>5, <1>6, <2>2
    <2>4. FlightOf[o] \in Int
      BY <1>3
    <2>5. QED
      BY <1>4, <1>5, <2>3, <2>4
  <1>8. ASSUME t \in Filling(o), t \notin Filling(o)'
        PROVE  SumFunction(FlightOf)' = SumFunction(FlightOf) - Quantity[o]
    <2>1. Filling(o)' = Filling(o) \ {t}
      BY <1>8 DEF Filling
    <2>2. Cardinality(Filling(o)') = Cardinality(Filling(o)) - 1
      BY <1>6, <1>8, <2>1, FS_RemoveElement
    <2>3. FlightOf'[o] = FlightOf[o] - Quantity[o]
      BY <1>5, <1>6, <2>2
    <2>4. FlightOf[o] \in Int
      BY <1>3
    <2>5. QED
      BY <1>4, <1>5, <2>3, <2>4
  <1>9. QED
    BY <1>7, <1>8

LEMMA PositionStep ==
    ASSUME TypeOK, TypeOK', PositionInv, [Next]_vars, ~raced', failed' = {}
    PROVE  position'.quantity = SumFunction(TradedOf)' - SumFunction(FlightOf)'
  <1>a. /\ at \in [Threads -> Places] /\ trades \in [OrderIds -> Nat]
        /\ position \in [row: BOOLEAN, quantity: Int]
    BY PlacesOfTypeOK DEF TypeInv
  <1>b. SumFunction(TradedOf) \in Int /\ SumFunction(FlightOf) \in Int
    BY SumTypes
  <1>c. Clients \subseteq Threads /\ Pollers \subseteq Threads /\ Tickers \subseteq Threads
    BY DEF Threads
  <1>0. ~raced /\ failed = {} =>
           position.quantity = SumFunction(TradedOf) - SumFunction(FlightOf)
    BY DEF PositionInv
  <1>1. ASSUME UNCHANGED <<raced, failed, position, trades>>,
               \A t \in Threads, o \in OrderIds : t \in Filling(o)' <=> t \in Filling(o)
        PROVE  position'.quantity = SumFunction(TradedOf)' - SumFunction(FlightOf)'
    <2>1. FlightOf' = FlightOf
      BY <1>1, FlightUnchanged
    <2>2. TradedOf' = TradedOf
      BY <1>1 DEF TradedOf
    <2>3. QED
      BY <1>0, <1>1, <2>1, <2>2
  \* A thread goes to another place and is not on the way to the position.
  <1>2. ASSUME UNCHANGED <<raced, failed, position, trades>>,
               NEW t \in Threads, \A u \in Threads \ {t} : at'[u] = at[u],
               /\ at[t].step \in {"read", "write"} <=> at'[t].step \in {"read", "write"}
               /\ at[t].step \in {"read", "write"} => at'[t].orders = at[t].orders
        PROVE  position'.quantity = SumFunction(TradedOf)' - SumFunction(FlightOf)'
    <2>1. \A u \in Threads, o \in OrderIds : u \in Filling(o)' <=> u \in Filling(o)
      BY <1>2, FillingFacts
    <2>2. QED
      BY <1>1, <1>2, <2>1
  <1>3. CASE UNCHANGED vars
    <2>1. \A u \in Threads, o \in OrderIds : u \in Filling(o)' <=> u \in Filling(o)
      BY <1>3 DEF vars, Filling
    <2>2. QED
      BY <1>1, <1>3, <2>1 DEF vars
  <1>4. ASSUME NEW c \in Threads, NEW o \in OrderIds, PlaceOrder(c, o) \/ CancelOrder(c, o)
        PROVE  position'.quantity = SumFunction(TradedOf)' - SumFunction(FlightOf)'
    <2>1. at[c] = Idle
      <3>1. at[c] \in Places /\ at[c].orders = {}
        BY <1>4, <1>a DEF PlaceOrder, CancelOrder, Free, InHand
      <3>2. QED
        BY <3>1, NoOrderIsIdle
    <2>2. /\ \A u \in Threads \ {c} : at'[u] = at[u]
          /\ at[c].step \notin {"read", "write"} /\ at'[c].step \notin {"read", "write"}
      BY <1>4, <1>a, <2>1, PlaceFacts DEF PlaceOrder, CancelOrder, Goto, Steps
    <2>3. UNCHANGED <<raced, failed, position, trades>>
      BY <1>4 DEF PlaceOrder, CancelOrder, database
    <2>4. QED
      BY <1>2, <2>2, <2>3
  <1>5. ASSUME NEW c \in Threads, CommitCancel(c)
        PROVE  position'.quantity = SumFunction(TradedOf)' - SumFunction(FlightOf)'
    <2>1. /\ \A u \in Threads \ {c} : at'[u] = at[u]
          /\ at[c].step \notin {"read", "write"} /\ at'[c].step \notin {"read", "write"}
      BY <1>5, <1>a, PlaceFacts DEF CommitCancel, Goto
    <2>2. UNCHANGED <<raced, failed, position, trades>>
      BY <1>5 DEF CommitCancel, history
    <2>3. QED
      BY <1>2, <2>1, <2>2
  <1>6. ASSUME UNCHANGED <<raced, failed, position, trades, at>>
        PROVE  position'.quantity = SumFunction(TradedOf)' - SumFunction(FlightOf)'
    <2>1. \A u \in Threads, o \in OrderIds : u \in Filling(o)' <=> u \in Filling(o)
      BY <1>6 DEF Filling
    <2>2. QED
      BY <1>1, <1>6, <2>1
  <1>7. ASSUME NEW t \in Threads, NEW o \in OrderIds, ProcessOrder(t, o) \/ ReadPosition(t, o)
        PROVE  position'.quantity = SumFunction(TradedOf)' - SumFunction(FlightOf)'
    <2>1. \A u \in Threads \ {t} : at'[u] = at[u]
      BY <1>7, <1>a DEF ProcessOrder, ReadPosition, Goto
    <2>2. /\ at[t].step \in {"read", "write"} <=> at'[t].step \in {"read", "write"}
          /\ at[t].step \in {"read", "write"} => at'[t].orders = at[t].orders
      <3>1. CASE ProcessOrder(t, o)
        <4>1. at[t].step = "idle" /\ at'[t].step = "execute"
          BY <1>a, <3>1, PlaceFacts DEF ProcessOrder, Leave, Goto, Steps
        <4>2. QED
          BY <4>1
      <3>2. CASE ReadPosition(t, o)
        <4>1. /\ at[t].step = "read" /\ at'[t].step = "write"
              /\ at[t].orders = {o} /\ at'[t].orders = {o}
          BY <1>a, <3>2, PlaceFacts DEF ReadPosition, Goto, Steps
        <4>2. QED
          BY <4>1
      <3>3. QED
        BY <1>7, <3>1, <3>2
    <2>3. UNCHANGED <<raced, failed, position, trades>>
      BY <1>7 DEF ProcessOrder, ReadPosition, database, history
    <2>4. QED
      BY <1>2, <2>1, <2>2, <2>3
  <1>8. ASSUME NEW t \in Threads, NEW o \in OrderIds, ExecuteOrder(t, o)
        PROVE  position'.quantity = SumFunction(TradedOf)' - SumFunction(FlightOf)'
    <2>1. /\ UNCHANGED <<raced, failed, position>> /\ \A u \in Threads \ {t} : at'[u] = at[u]
          /\ at[t].step = "execute" /\ at'[t].step = "read" /\ at'[t].orders = {o}
      BY <1>8, <1>a, PlaceFacts DEF ExecuteOrder, Goto, history, Steps
    <2>2. \A u \in Threads, p \in OrderIds : u # t =>
             (u \in Filling(p)' <=> u \in Filling(p))
      BY <2>1, FillingFacts
    <2>3. \A p \in OrderIds : p # o => t \notin Filling(p) /\ t \notin Filling(p)'
      BY <2>1, FillingFacts
    <2>4. t \notin Filling(o) /\ t \in Filling(o)'
      BY <2>1, FillingFacts
    <2>5. SumFunction(FlightOf)' = SumFunction(FlightOf) + Quantity[o]
      BY <2>2, <2>3, <2>4, FlightChanges
    <2>6. SumFunction(TradedOf)' = SumFunction(TradedOf) + Quantity[o]
      <3>1. trades'[o] = trades[o] + 1 /\ \A p \in OrderIds \ {o} : trades'[p] = trades[p]
        BY <1>8, <1>a DEF ExecuteOrder
      <3>2. TradedOf \in [OrderIds -> Int] /\ TradedOf' \in [OrderIds -> Int]
        BY QuantityAssumption DEF TypeOK, TradedOf
      <3>3. \A p \in OrderIds \ {o} : TradedOf'[p] = TradedOf[p]
        BY <3>1 DEF TradedOf
      <3>4. SumFunction(TradedOf') = SumFunction(TradedOf) + (TradedOf'[o] - TradedOf[o])
        BY <3>2, <3>3, FinitenessAssumption, SumOfOneChange
      <3>5. /\ TradedOf[o] = trades[o] * Quantity[o]
            /\ TradedOf'[o] = (trades[o] + 1) * Quantity[o]
            /\ trades[o] \in Int /\ Quantity[o] \in Int
        BY <1>a, <3>1, QuantityAssumption DEF TradedOf
      <3>6. (trades[o] + 1) * Quantity[o] = trades[o] * Quantity[o] + Quantity[o]
        BY <3>5
      <3>7. TradedOf[o] \in Int
        BY <3>2
      <3>8. QED
        BY <1>b, <3>4, <3>5, <3>6, <3>7
    <2>7. Quantity[o] \in Int
      BY QuantityAssumption
    <2>8. QED
      BY <1>0, <1>b, <2>1, <2>5, <2>6, <2>7
  <1>9. ASSUME NEW t \in Threads, NEW o \in OrderIds, WritePosition(t, o)
        PROVE  position'.quantity = SumFunction(TradedOf)' - SumFunction(FlightOf)'
    <2>1. /\ UNCHANGED <<failed, trades>> /\ \A u \in Threads \ {t} : at'[u] = at[u]
          /\ at[t].step = "write" /\ at[t].orders = {o} /\ at'[t].step = "idle"
      BY <1>9, <1>a, PlaceFacts DEF WritePosition, Goto, Steps
    <2>2. \A u \in Threads, p \in OrderIds : u # t =>
             (u \in Filling(p)' <=> u \in Filling(p))
      BY <2>1, FillingFacts
    <2>3. \A p \in OrderIds : p # o => t \notin Filling(p) /\ t \notin Filling(p)'
      BY <2>1, FillingFacts
    <2>4. t \in Filling(o) /\ t \notin Filling(o)'
      BY <2>1, FillingFacts
    <2>5. SumFunction(FlightOf)' = SumFunction(FlightOf) - Quantity[o]
      BY <2>2, <2>3, <2>4, FlightChanges
    <2>6. TradedOf' = TradedOf
      BY <2>1 DEF TradedOf
    <2>7. ~raced /\ position'.quantity = position.quantity + Quantity[o]
      BY <1>9, <1>a DEF WritePosition
    <2>8. Quantity[o] \in Int
      BY QuantityAssumption
    <2>9. QED
      BY <1>0, <1>b, <2>1, <2>5, <2>6, <2>7, <2>8
  <1>10. ASSUME NEW t \in Threads, NEW o \in OrderIds, FailExecution(t, o)
         PROVE  FALSE
    BY <1>10 DEF FailExecution
  <1>11. CASE Crash
    <2>1. UNCHANGED <<raced, position, trades>>
      BY <1>11 DEF Crash, database
    <2>2. \A t \in Threads : at[t].step \in {"read", "write"} => at[t].orders = {}
      BY <1>11 DEF Crash
    <2>3. \A t \in Threads : at'[t].step = "idle"
      BY <1>11, PlaceFacts DEF Crash
    <2>4. \A t \in Threads, o \in OrderIds : t \notin Filling(o) /\ t \notin Filling(o)'
      BY <2>2, <2>3, FillingFacts
    <2>5. failed = {} /\ failed' = failed
      BY <1>11 DEF Crash
    <2>6. QED
      BY <1>1, <2>1, <2>4, <2>5
  <1>12. ASSUME NEW t \in Threads, NEW o \in OrderIds, Work(t, o)
         PROVE  position'.quantity = SumFunction(TradedOf)' - SumFunction(FlightOf)'
    <2>1. CASE SkipTraded(t, o) \/ SkipOrder(t, o)
      BY <1>6, <2>1 DEF SkipTraded, SkipOrder, database, history
    <2>2. QED
      BY <1>7, <1>8, <1>9, <1>10, <1>12, <2>1 DEF Work
  <1>13. ASSUME NEW t, NEW found, LoadBatch(t, found)
         PROVE  position'.quantity = SumFunction(TradedOf)' - SumFunction(FlightOf)'
    BY <1>6, <1>13 DEF LoadBatch, database
  <1>14. ASSUME NEW o \in OrderIds, PriceReaches(o)
         PROVE  position'.quantity = SumFunction(TradedOf)' - SumFunction(FlightOf)'
    BY <1>6, <1>14 DEF PriceReaches, database, history
  <1>15. QED
    BY <1>3, <1>4, <1>5, <1>11, <1>12, <1>13, <1>14, <1>c DEF Next, Poll, Tick

LEMMA PositionInit == Init => PositionInv
  <1> SUFFICES ASSUME Init PROVE PositionInv
    OBVIOUS
  <1>1. TypeOK
    BY TypeInit
  <1>2. TradedOf \in [OrderIds -> Int] /\ FlightOf \in [OrderIds -> Int]
    BY <1>1, SumTypes
  <1>3. \A o \in OrderIds : TradedOf[o] = 0
    BY QuantityAssumption DEF Init, TradedOf
  <1>4. \A o \in OrderIds : FlightOf[o] = 0
    <2>1. \A t \in Threads, o \in OrderIds : t \notin Filling(o)
      BY <1>1, FillingFacts, PlaceFacts DEF Init
    <2>2. \A o \in OrderIds : Filling(o) = {}
      BY <2>1 DEF Filling
    <2>3. \A o \in OrderIds : Cardinality(Filling(o)) = 0
      BY <2>2, FS_EmptySet
    <2>4. QED
      BY <2>3, QuantityAssumption DEF FlightOf
  <1>5. SumFunction(TradedOf) = 0 /\ SumFunction(FlightOf) = 0
    BY <1>2, <1>3, <1>4, FinitenessAssumption, SumOfZeros
  <1>6. position.quantity = 0
    BY DEF Init, NoPosition
  <1>7. QED
    BY <1>5, <1>6 DEF PositionInv

\* The position is behind the trades by exactly the fills in progress.
THEOREM PositionCounts == Spec => []PositionCountsTrades
  <1>1. Init => PositionInv
    BY PositionInit
  <1>2. TypeOK /\ TypeOK' /\ PositionInv /\ [Next]_vars => PositionInv'
    BY PositionStep DEF PositionInv
  <1>3. PositionInv => PositionCountsTrades
    BY DEF PositionInv, PositionCountsTrades, Traded, InFlight, TradedOf, FlightOf, Filling
  <1>4. QED
    BY <1>1, <1>2, <1>3, TypeCorrect, PTL DEF Spec
================================================================================
