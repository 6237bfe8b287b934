---------------------------- MODULE StrategyHost ----------------------------
(***************************************************************************)
(* The host of Python strategies: one strategy, its operating system       *)
(* processes, what the server remembers of them (RUNNING_STRATEGIES) and   *)
(* what it keeps in its file (STRATEGY_CONFIGS, saved after each change).  *)
(*                                                                         *)
(* Requests start, stop and delete the strategy, timers start and stop it, *)
(* the start of the server and the hook after a download of the master     *)
(* contract take up what the last server has left.  start_ and             *)
(* stop_strategy_process hold PROCESS_LOCK; the flags that decide whether  *)
(* to call them are read, and some are written, without it.                *)
(*                                                                         *)
(* A process is a session of its own, which may outlive the server.        *)
(***************************************************************************)
EXTENDS Integers, FiniteSets

CONSTANTS
    Users,         \* request threads
    Timers,        \* threads of the scheduler
    Restorers,     \* threads that restore the strategy
    MaxProcesses,  \* bound of the model: processes that are ever started
    MaxRestarts    \* bound of the model: stops of the server

Threads == Users \cup Timers \cup Restorers
Processes == 1 .. MaxProcesses

VARIABLES
    alive,      \* the processes that run
    spawned,    \* how many have been started
    tracked,    \* the process in RUNNING_STRATEGIES
    config,     \* is_running, pid, manually_stopped and the error state
    ready,      \* there is a broker, and its master contract is there
    thread,     \* each thread: its step, and a process it has in hand
    restarts,
    upset       \* history: the first thing that this code does not provide for

vars == <<alive, spawned, tracked, config, ready, thread, restarts, upset>>

Idle == [step |-> "idle", process |-> {}]
NotRunning == [exists |-> TRUE, running |-> FALSE, pid |-> {}, stopped |-> FALSE,
               error |-> "none"]

Init ==
    /\ alive = {}
    /\ spawned = 0
    /\ tracked = {}
    /\ config = NotRunning
    /\ ready = TRUE
    /\ thread = [t \in Threads |-> Idle]
    /\ restarts = 0
    /\ upset = {}

At(t, step) == thread[t].step = step
Goto(t, step) == thread' = [thread EXCEPT ![t].step = step]
Return(t) == thread' = [thread EXCEPT ![t] = Idle]

\* PROCESS_LOCK; a deletion of a running strategy calls stop_strategy_process,
\* which waits for the lock that the deletion holds, for good.
LockFree == \A t \in Threads :
    thread[t].step \notin {"record", "stopping", "deleting"}

Upset(cause, condition) ==
    upset' = IF condition /\ upset = {} THEN {cause} ELSE upset

Live(pid) == pid \cap alive # {}

-----------------------------------------------------------------------------
(* start_strategy_process: the steps "start" and, for a strategy that is      *)
(* being restored, "restart" *)

\* Mutant: a process that is tracked already is not looked for.
MayStartAgain == config.exists /\ ready
MayStart == tracked = {} /\ config.exists /\ ready

Starting(t) == thread[t].step \in {"start", "restart"} /\ LockFree

Spawn(t) ==
    /\ Starting(t)
    /\ MayStart
    /\ spawned < MaxProcesses
    /\ spawned' = spawned + 1
    /\ alive' = alive \cup {spawned + 1}
    /\ thread' = [thread EXCEPT ![t] = [step |-> "record",
                                        process |-> {spawned + 1}]]
    /\ Upset("early", At(t, "start") /\ tracked = {} /\ Live(config.pid))
    /\ UNCHANGED <<tracked, config, ready, restarts>>

\* The strategy is remembered and saved under the same lock.
Record(t) ==
    /\ At(t, "record")
    /\ tracked' = thread[t].process
    /\ config' = [config EXCEPT !.running = TRUE, !.pid = thread[t].process,
                                !.error = "none"]
    /\ Return(t)
    /\ UNCHANGED <<alive, spawned, ready, restarts, upset>>

\* A restoration that may not start the process, another thread has done so for
\* instance, leaves the reason as an error: the text of one that is the missing
\* master contract makes the strategy wait for it.
Refuse(t) ==
    /\ Starting(t)
    /\ ~MayStart \/ spawned = MaxProcesses
    /\ IF At(t, "restart") /\ config.exists
       THEN /\ config' = [config EXCEPT
                  !.running = FALSE, !.pid = {},
                  !.error = IF tracked = {} /\ ~ready THEN "waiting" ELSE "failed"]
            /\ Upset("crossed", Live(tracked \cup config.pid))
       ELSE UNCHANGED <<config, upset>>
    /\ Return(t)
    /\ UNCHANGED <<alive, spawned, tracked, ready, restarts>>

-----------------------------------------------------------------------------
(* stop_strategy_process: the step "stop", and "halt" for a user's request *)

Halting(t) == thread[t].step \in {"stop", "halt"} /\ LockFree

\* The process that is tracked, or else the one that the file names.
Target == IF tracked # {} THEN tracked ELSE config.pid \cap alive

Kill(t) ==
    /\ Halting(t)
    /\ Target # {}
    /\ alive' = alive \ Target
    /\ thread' = [thread EXCEPT ![t] =
                     [step |-> "stopping",
                      process |-> IF At(t, "halt") THEN Target ELSE {}]]
    /\ UNCHANGED <<spawned, tracked, config, ready, restarts, upset>>

\* After it, a user's request goes on to set manually_stopped.
RecordStop(t) ==
    /\ At(t, "stopping")
    /\ tracked' = {}
    /\ config' = [config EXCEPT !.running = FALSE, !.pid = {}]
    /\ thread' = [thread EXCEPT ![t] =
                     [step |-> IF thread[t].process = {} THEN "idle" ELSE "flag",
                      process |-> {}]]
    /\ UNCHANGED <<alive, spawned, ready, restarts, upset>>

\* There is nothing to stop: the request fails and sets no flag.
NothingToStop(t) ==
    /\ Halting(t)
    /\ Target = {}
    /\ Return(t)
    /\ UNCHANGED <<alive, spawned, tracked, config, ready, restarts, upset>>

-----------------------------------------------------------------------------
(* Requests *)

\* start_strategy clears the flag first; outside the schedule that is all.
UserStart(t, within) ==
    /\ t \in Users
    /\ thread[t] = Idle
    /\ config.exists
    /\ config' = [config EXCEPT !.stopped = FALSE]
    /\ IF within THEN Goto(t, "start") ELSE UNCHANGED thread
    /\ UNCHANGED <<alive, spawned, tracked, ready, restarts, upset>>

\* stop_strategy looks at is_running ...
UserStop(t) ==
    /\ t \in Users
    /\ thread[t] = Idle
    /\ config.exists
    /\ Goto(t, IF config.running THEN "halt" ELSE "flag")
    /\ UNCHANGED <<alive, spawned, tracked, config, ready, restarts, upset>>

\* ... and sets manually_stopped without the lock, when a start may be under way
\* or the strategy may wait for the master contract.
Flag(t) ==
    /\ At(t, "flag")
    /\ config' = [config EXCEPT !.stopped = config.exists]
    /\ Upset(IF config.error = "waiting" THEN "waiting" ELSE "crossed",
             \/ alive # {} \/ config.running \/ config.error = "waiting"
             \/ \E u \in Threads :
                   thread[u].step \in {"start", "restart", "pending", "record"})
    /\ Return(t)
    /\ UNCHANGED <<alive, spawned, tracked, ready, restarts>>

\* delete_strategy
Delete(t) ==
    /\ t \in Users
    /\ thread[t] = Idle
    /\ config.exists
    /\ LockFree
    /\ IF tracked # {} \/ config.running
       THEN /\ Goto(t, "deleting")
            /\ UNCHANGED config
       ELSE /\ config' = [NotRunning EXCEPT !.exists = FALSE]
            /\ UNCHANGED thread
    /\ UNCHANGED <<alive, spawned, tracked, ready, restarts, upset>>

-----------------------------------------------------------------------------
(* Timers *)

\* Mutant: the flag is not looked at.
TimedStartAnyway(t) ==
    /\ t \in Timers
    /\ thread[t] = Idle
    /\ config.exists
    /\ Goto(t, "start")
    /\ UNCHANGED <<alive, spawned, tracked, config, ready, restarts, upset>>

\* scheduled_start_strategy, and market_hours_enforcer when the exchange opens.
TimedStart(t) ==
    /\ t \in Timers
    /\ thread[t] = Idle
    /\ config.exists
    /\ ~config.stopped
    /\ Goto(t, "start")
    /\ UNCHANGED <<alive, spawned, tracked, config, ready, restarts, upset>>

\* scheduled_stop_strategy; the enforcer and the daily check do so when the
\* exchange has no session.
TimedStop(t) ==
    /\ t \in Timers
    /\ thread[t] = Idle
    /\ config.exists
    /\ Goto(t, "stop")
    /\ UNCHANGED <<alive, spawned, tracked, config, ready, restarts, upset>>

\* cleanup_dead_processes
Reap ==
    /\ LockFree
    /\ config.running \/ tracked # {}
    /\ IF tracked # {} THEN ~Live(tracked) ELSE ~Live(config.pid)
    /\ tracked' = {}
    /\ config' = [config EXCEPT !.running = FALSE, !.pid = {}]
    /\ UNCHANGED <<alive, spawned, ready, thread, restarts, upset>>

-----------------------------------------------------------------------------
(* restore_strategy_states and check_and_start_pending_strategies *)

Found == Live(config.pid)

RestoreBegins(t) ==
    /\ t \in Restorers
    /\ thread[t] = Idle
    /\ config.running \/ config.error = "waiting"
    /\ Goto(t, "restore")
    /\ UNCHANGED <<alive, spawned, tracked, config, ready, restarts, upset>>

\* Without a master contract the strategy becomes an error, running or not;
\* without a broker nothing happens at all.
Postpone(t) ==
    /\ At(t, "restore")
    /\ ~ready
    /\ config' = IF config.running
                 THEN [config EXCEPT !.running = FALSE, !.pid = {},
                                     !.error = "waiting"]
                 ELSE config
    /\ Upset("blind", config.running /\ alive # {})
    /\ Goto(t, "pending")
    /\ UNCHANGED <<alive, spawned, tracked, ready, restarts>>

\* A process that still runs is tracked again, one that does not, or that cannot
\* be looked at, is restarted.
Restore(t) ==
    /\ At(t, "restore")
    /\ ready
    /\ IF config.running /\ config.pid # {}
       THEN \E found \in {FALSE, Found} :
               /\ thread' = [thread EXCEPT ![t] =
                     IF found THEN [step |-> "adopt", process |-> config.pid]
                     ELSE [step |-> "restart", process |-> {}]]
               /\ Upset("blind", Found /\ ~found)
       ELSE Goto(t, "pending") /\ UNCHANGED upset
    /\ UNCHANGED <<alive, spawned, tracked, config, ready, restarts>>

\* The lock is not taken for it.
Adopt(t) ==
    /\ At(t, "adopt")
    /\ tracked' = thread[t].process
    /\ Upset("crossed", config.pid # thread[t].process)
    /\ thread' = [thread EXCEPT ![t] = [step |-> "pending", process |-> {}]]
    /\ UNCHANGED <<alive, spawned, config, ready, restarts>>

\* What has waited for the master contract is started, without a look at
\* manually_stopped.
Pending(t) ==
    /\ At(t, "pending")
    /\ IF ready /\ config.error = "waiting"
       THEN /\ config' = [config EXCEPT !.error = "none"]
            /\ Goto(t, "start")
       ELSE /\ UNCHANGED config
            /\ Return(t)
    /\ UNCHANGED <<alive, spawned, tracked, ready, restarts, upset>>

-----------------------------------------------------------------------------
(* Around it *)

\* A broker logs in or out, its master contract is downloaded again.
ReadyChanges ==
    /\ ready' = ~ready
    /\ UNCHANGED <<alive, spawned, tracked, config, thread, restarts, upset>>

\* A process ends by itself.
Die(p) ==
    /\ p \in alive
    /\ alive' = alive \ {p}
    /\ UNCHANGED <<spawned, tracked, config, ready, thread, restarts, upset>>

\* The server stops and starts; its processes live on, or die with it.
Restart ==
    /\ restarts < MaxRestarts
    /\ restarts' = restarts + 1
    /\ alive' \in {{}, alive}
    /\ tracked' = {}
    /\ thread' = [t \in Threads |-> Idle]
    /\ Upset("cut", \E t \in Threads : thread[t].step = "record")
    /\ UNCHANGED <<spawned, config, ready>>

Step(t) ==
    \/ Spawn(t) \/ Record(t) \/ Refuse(t)
    \/ Kill(t) \/ RecordStop(t) \/ NothingToStop(t) \/ Flag(t)
    \/ Postpone(t) \/ Restore(t) \/ Adopt(t) \/ Pending(t)

Next ==
    \/ \E t \in Threads :
          \/ \E within \in BOOLEAN : UserStart(t, within)
          \/ UserStop(t) \/ Delete(t)
          \/ TimedStart(t) \/ TimedStop(t)
          \/ RestoreBegins(t)
          \/ Step(t)
    \/ Reap
    \/ ReadyChanges
    \/ \E p \in Processes : Die(p)
    \/ Restart

Spec == Init /\ [][Next]_vars

-----------------------------------------------------------------------------
(* Properties *)

\* Whatever users, timers and restorations do at the same time, and across
\* restarts that a process outlives, the strategy never trades twice, unless a
\* restoration did not look for the process or could not, it or a stop crossed a
\* start, a stop met a strategy that waits for the master contract, a start came
\* before the restoration or the server stopped between a start and its record.
OneProcess == upset = {} => Cardinality(alive) <= 1

\* A strategy that its user has stopped stays without a process until the user
\* starts it, through timers, restarts and restorations, in the same cases: of the
\* strategies that wait for the master contract, also those that a restoration has
\* left so, check_and_start_pending_strategies starts the stopped ones too.
ManualStopHolds == upset = {} /\ config.stopped => alive = {}
=============================================================================
