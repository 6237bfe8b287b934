---------------------------- MODULE ActionCenter ----------------------------
(***************************************************************************)
(* Orders that wait for the approval of their owner (semi-automatic mode). *)
(* Requests of several browser tabs approve, reject and delete them; the   *)
(* request that approves an order also sends it to the broker and records  *)
(* the answer, and nobody does so later.  An answer may name no order, and *)
(* each access to the database may fail.                                   *)
(*                                                                         *)
(* A decision SELECTs the row with the status "pending" and commits an     *)
(* UPDATE that finds the row by its id alone, so that the row may have     *)
(* another status, or be gone, by then.                                    *)
(***************************************************************************)
EXTENDS Integers, FiniteSetsExt

CONSTANTS
    Orders,    \* numbers, in the order in which the orders were queued
    Multi,     \* basket and split orders, options orders that are split
    Smart,     \* smart orders, which compare themselves with a position
    Requests,  \* request threads
    MaxStops   \* bound of the model: stops of the server, failures, lost answers

VARIABLES
    row,     \* status of each row of pending_orders
    broker,  \* broker_status with broker_order_id: NULL, "rejected", "recorded"
    call,    \* each request: its step, its order, the rest of its batch
    stops,   \* stops, failures and lost answers
    sent,    \* history: how often the broker accepted the order
    upset    \* history: per order, what its row cannot tell

vars == <<row, broker, call, stops, sent, upset>>

Idle == [step |-> "idle", order |-> {}, batch |-> {}]

Init ==
    /\ row = [o \in Orders |-> "none"]
    /\ broker = [o \in Orders |-> "NULL"]
    /\ call = [r \in Requests |-> Idle]
    /\ stops = 0
    /\ sent = [o \in Orders |-> 0]
    /\ upset = [o \in Orders |-> {}]

Pending == {o \in Orders : row[o] = "pending"}
Exists(o) == row[o] \notin {"none", "deleted"}

\* The request of one order ends, a batch goes on with its next order.
Return(r) ==
    call' = [call EXCEPT ![r] = IF @.batch = {} THEN Idle
                                ELSE [@ EXCEPT !.step = "next", !.order = {}]]

\* Something keeps the outcome of these orders from their rows.
Interrupted(orders) ==
    /\ stops < MaxStops
    /\ stops' = stops + 1
    /\ upset' = [o \in Orders |-> IF o \in orders THEN upset[o] \cup {"cut"} ELSE upset[o]]

Go(r, step) == call' = [call EXCEPT ![r].step = step]
On(r, o, step) == call[r].step = step /\ o \in call[r].order

-----------------------------------------------------------------------------
(* Decisions *)

\* create_pending_order
Queue(o) ==
    /\ row[o] = "none"
    /\ row' = [row EXCEPT ![o] = "pending"]
    /\ UNCHANGED <<broker, call, stops, sent, upset>>

\* Begin with a decision; history: it may cross another one.
Begin(r, o, decision) ==
    /\ call' = [call EXCEPT ![r].step = decision, ![r].order = {o},
                            ![r].batch = @ \ {o}]
    /\ upset' = [upset EXCEPT ![o] = @ \cup {c \in {"race"} :
                    \E u \in Requests : On(u, o, "approve") \/ On(u, o, "reject")}]
    /\ UNCHANGED <<row, broker, stops, sent>>

\* Mutant: the row is found by its id alone.
SelectById(r, o, decision) == Exists(o) /\ Begin(r, o, decision)

Select(r, o, decision) == row[o] = "pending" /\ Begin(r, o, decision)

Decide(r, o) ==
    /\ call[r] = Idle
    /\ \E decision \in {"approve", "reject"} : Select(r, o, decision)

\* approve_all_pending_orders lists what is pending ...
ApproveAll(r) ==
    /\ call[r] = Idle
    /\ Pending # {}
    /\ call' = [call EXCEPT ![r].step = "next", ![r].batch = Pending]
    /\ UNCHANGED <<row, broker, stops, sent, upset>>

\* ... and takes one after the other, the latest first, if still pending.
NextOrder(r, o) ==
    /\ call[r].step = "next"
    /\ o = Max(call[r].batch)
    /\ \/ Select(r, o, "approve")
       \/ /\ row[o] \in {"approved", "rejected"}
          /\ LET rest == call[r].batch \ {o}
             IN  call' = [call EXCEPT ![r] = IF rest = {} THEN Idle
                                             ELSE [@ EXCEPT !.batch = rest]]
          /\ UNCHANGED <<row, broker, stops, sent, upset>>

\* The loop fails at a row that was deleted meanwhile.
BatchFails(r) ==
    /\ call[r].step = "next"
    /\ row[Max(call[r].batch)] = "deleted"
    /\ call' = [call EXCEPT ![r] = Idle]
    /\ UNCHANGED <<row, broker, stops, sent, upset>>

\* The database fails, as it must when the UPDATE finds no row any more.
CommitFails(r, o) ==
    /\ On(r, o, "approve") \/ On(r, o, "reject")
    /\ Return(r)
    /\ UNCHANGED <<row, broker, stops, sent, upset>>

CommitApprove(r, o) ==
    /\ On(r, o, "approve")
    /\ Exists(o)
    /\ row' = [row EXCEPT ![o] = "approved"]
    /\ Go(r, "execute")
    /\ UNCHANGED <<broker, stops, sent, upset>>

CommitReject(r, o) ==
    /\ On(r, o, "reject")
    /\ Exists(o)
    /\ row' = [row EXCEPT ![o] = "rejected"]
    /\ Return(r)
    /\ UNCHANGED <<broker, stops, sent, upset>>

\* delete_pending_order takes any order that was decided, also while it is
\* being executed.
Delete(r, o) ==
    /\ call[r] = Idle
    /\ row[o] \in {"approved", "rejected"}
    /\ row' = [row EXCEPT ![o] = "deleted"]
    /\ UNCHANGED <<broker, call, stops, sent, upset>>

-----------------------------------------------------------------------------
(* execute_approved_order *)

\* The row is read once more.
Execute(r, o) ==
    /\ On(r, o, "execute")
    /\ IF row[o] = "approved" THEN Go(r, "send") ELSE Return(r)
    /\ UNCHANGED <<row, broker, stops, sent, upset>>

\* Reading the row, the key or the token fails: nothing is sent nor recorded.
ExecuteFails(r, o) ==
    /\ On(r, o, "execute") \/ On(r, o, "send")
    /\ Return(r)
    /\ Interrupted({o})
    /\ UNCHANGED <<row, broker, sent>>

\* No API key, token or broker, or an order that the broker does not take.
NotTaken(r, o) ==
    /\ On(r, o, "send")
    /\ Go(r, "refuse")
    /\ UNCHANGED <<row, broker, stops, sent, upset>>

\* The broker takes the order and names it.
Accepted(r, o) ==
    /\ On(r, o, "send")
    /\ o \notin Multi
    /\ sent' = [sent EXCEPT ![o] = @ + 1]
    /\ Go(r, "record")
    /\ UNCHANGED <<row, broker, stops, upset>>

\* A success without an "orderid", of which nothing is recorded: that of several
\* orders, whether the broker takes some or none of them, and that of a smart
\* order whose position already matches, which sends nothing.
Unnamed(r, o) ==
    /\ On(r, o, "send")
    /\ \/ o \in Multi /\ sent' = [sent EXCEPT ![o] = @ + 1]
       \/ o \in Multi \cup Smart /\ UNCHANGED sent
    /\ Return(r)
    /\ upset' = [upset EXCEPT ![o] = @ \cup {"unnamed"}]
    /\ UNCHANGED <<row, broker, stops>>

\* It takes it, and the answer is lost or cannot be read.
AnswerLost(r, o) ==
    /\ On(r, o, "send")
    /\ sent' = [sent EXCEPT ![o] = @ + 1]
    /\ Interrupted({o})
    /\ Go(r, "refuse")
    /\ UNCHANGED <<row, broker>>

\* update_broker_status: nothing is left of the order when the row is gone.
Update(r, o, status) ==
    /\ broker' = IF Exists(o) THEN [broker EXCEPT ![o] = status] ELSE broker
    /\ Return(r)
    /\ UNCHANGED <<row, stops, sent, upset>>

\* Mutant: a status query that fails passes for a failure of the order.
RecordByStatus(r, o) ==
    On(r, o, "record") /\ \E status \in {"recorded", "rejected"} :
                             Update(r, o, status)

\* The status that the broker reports, or "open" if it does not answer.
Record(r, o) == On(r, o, "record") /\ Update(r, o, "recorded")

Refuse(r, o) == On(r, o, "refuse") /\ Update(r, o, "rejected")

\* update_broker_status fails, and its callers do not look.
UpdateFails(r, o) ==
    /\ On(r, o, "record") \/ On(r, o, "refuse")
    /\ Return(r)
    /\ Interrupted({o})
    /\ UNCHANGED <<row, broker, sent>>

-----------------------------------------------------------------------------
Quiet == \A r \in Requests : call[r] = Idle

\* The server stops; a request that was cut short is not taken up again.
Stop ==
    /\ ~Quiet
    /\ Interrupted(UNION {call[r].order : r \in Requests})
    /\ call' = [r \in Requests |-> Idle]
    /\ UNCHANGED <<row, broker, sent>>

\* Mutant: the request returns once the order is approved.
StepUntilApproved(r) ==
    \/ \E o \in Orders :
          \/ NextOrder(r, o) \/ CommitFails(r, o)
          \/ CommitApprove(r, o) \/ CommitReject(r, o)
    \/ BatchFails(r)

Step(r) ==
    \/ \E o \in Orders :
          \/ NextOrder(r, o) \/ CommitFails(r, o)
          \/ CommitApprove(r, o) \/ CommitReject(r, o)
          \/ Execute(r, o) \/ ExecuteFails(r, o)
          \/ NotTaken(r, o) \/ Accepted(r, o) \/ Unnamed(r, o) \/ AnswerLost(r, o)
          \/ Record(r, o) \/ Refuse(r, o) \/ UpdateFails(r, o)
    \/ BatchFails(r)

Next ==
    \/ \E o \in Orders : Queue(o)
    \/ \E r \in Requests :
          \/ \E o \in Orders : Decide(r, o) \/ Delete(r, o)
          \/ ApproveAll(r)
          \/ Step(r)
    \/ Stop

Spec == Init /\ [][Next]_vars

\* A request that was begun goes on.
FairSpec == Spec /\ \A r \in Requests : WF_vars(Step(r))

-----------------------------------------------------------------------------
(* Properties *)

\* Unless two decisions about an order cross, the broker gets it at most once,
\* and never if it was rejected; not even a batch and the deletion of decided
\* orders, or a stop, change that.
SentAsDecided ==
    \A o \in Orders :
        "race" \notin upset[o] =>
            /\ sent[o] <= 1
            /\ row[o] \in {"pending", "rejected"} => sent[o] = 0

\* When no request is under way, the row of an approved order tells whether the
\* broker has it: "recorded" if and only if it was sent.  An order that was answered
\* without an id is the exception: its row says nothing, whatever was sent, and
\* nothing was if it is one order.  Crossing decisions, a stop, a lost answer and a
\* failing database are left out.
RowTellsWhatWasSent ==
    Quiet => \A o \in Orders :
        row[o] = "approved" /\ upset[o] \subseteq {"unnamed"} =>
            IF "unnamed" \in upset[o]
            THEN broker[o] = "NULL" /\ (o \notin Multi => sent[o] = 0)
            ELSE broker[o] = IF sent[o] = 1 THEN "recorded" ELSE "rejected"

\* In the end every order that is approved has an answer, also in a batch and where
\* decisions cross, unless the server stopped, the database failed or the answer
\* names no order.
ApprovedIsAnswered ==
    <>[](\A o \in Orders :
            row[o] = "approved" => \/ broker[o] # "NULL"
                                   \/ upset[o] \cap {"cut", "unnamed"} # {})
=============================================================================
