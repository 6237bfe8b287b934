---------------------------- MODULE DownloadJobs ----------------------------
(***************************************************************************)
(* The download jobs of Historify: rows of DuckDB, the memory of the       *)
(* service (_running_jobs and _paused_jobs, which come and go together),   *)
(* the threads of its pool and the requests that create, pause, resume,    *)
(* cancel, delete and retry jobs.                                          *)
(*                                                                         *)
(* A request looks at the status of the job first and acts on it later.    *)
(* What is done under _job_state_lock is one step, for nothing but the     *)
(* cancellation waits there: it calls _cleanup_job, which takes the lock   *)
(* that the caller holds.  The lock is not reentrant, so that neither the  *)
(* call nor the lock ever comes back.  The counters of the progress, and    *)
(* exceptions of the bookkeeping itself, are left out.                     *)
(***************************************************************************)
EXTENDS Integers, Sequences, FiniteSetsExt

CONSTANTS
    Jobs,
    Items,      \* numbers: the symbols of every job, in their order
    Workers,    \* threads of the pool
    Requests,   \* request threads
    MaxEvents,  \* bound of the model: times that jobs are set going
    MaxStops    \* bound of the model: stops of the server

VARIABLES
    status,   \* download_jobs.status; "none" before it is created
    items,    \* job_items.status of each job
    event,    \* the Event object of a job in the memory, 0 for none
    cleared,  \* the Event objects that tell a worker to pause
    queue,    \* jobs submitted to the pool
    worker,   \* each worker: its step, its job and what it keeps of it
    request,  \* each request: its step, its job and what it saw of it
    freezing, \* a cancellation holds the lock, for good
    events,
    stops,
    upset     \* history: what has crossed a job

vars == <<status, items, event, cleared, queue, worker, request, freezing,
          events, stops, upset>>

Fresh == [i \in Items |-> "pending"]
Unoccupied == [step |-> "idle", job |-> {}, todo |-> {}, event |-> 0,
               failed |-> FALSE]
NoRequest == [step |-> "none", job |-> {}, status |-> "none", failed |-> {}]

Init ==
    /\ status = [j \in Jobs |-> "none"]
    /\ items = [j \in Jobs |-> Fresh]
    /\ event = [j \in Jobs |-> 0]
    /\ cleared = {}
    /\ queue = <<>>
    /\ worker = [w \in Workers |-> Unoccupied]
    /\ request = [r \in Requests |-> NoRequest]
    /\ freezing = FALSE
    /\ events = 0
    /\ stops = 0
    /\ upset = [j \in Jobs |-> {}]

Exists(j) == status[j] \notin {"none", "deleted"}
With(j, s) == {i \in Items : items[j][i] \in s}
WorksOn(w, j) == j \in worker[w].job
Underway(j) == j \in {queue[n] : n \in DOMAIN queue}
                  \/ \E w \in Workers : WorksOn(w, j)

\* An UPDATE of a row that was deleted does nothing.
SetStatus(j, s) ==
    status' = IF Exists(j) THEN [status EXCEPT ![j] = s] ELSE status

Upset(j, cause, condition) ==
    upset' = IF condition THEN [upset EXCEPT ![j] = @ \cup {cause}] ELSE upset

Goto(w, step) == worker' = [worker EXCEPT ![w].step = step]
Free(w) == worker' = [worker EXCEPT ![w] = Unoccupied]

\* _running_jobs, a new Event in _paused_jobs, and the pool.
SetGoing(j) ==
    /\ events < MaxEvents
    /\ events' = events + 1
    /\ event' = [event EXCEPT ![j] = events + 1]
    /\ queue' = Append(queue, j)

-----------------------------------------------------------------------------
(* _process_download_job *)

\* A job that was deleted is dropped.
Begin(w) ==
    /\ worker[w] = Unoccupied
    /\ queue # <<>>
    /\ LET j == Head(queue)
       IN  /\ SetStatus(j, "running")
           /\ worker' = IF Exists(j)
                        THEN [worker EXCEPT ![w].step = "list", ![w].job = {j}]
                        ELSE worker
    /\ queue' = Tail(queue)
    /\ UNCHANGED <<items, event, cleared, request, freezing, events, stops, upset>>

\* Mutant: what was being downloaded is not taken up again.
UnfinishedPending(j) == With(j, {"pending"})

\* An item that was skipped, for its data is there, counts as a success.
Unfinished(j) == With(j, {"pending", "downloading"})

List(w, j) ==
    /\ worker[w].step = "list" /\ WorksOn(w, j)
    /\ IF Exists(j)
       THEN worker' = [worker EXCEPT
                          ![w].step = "check", ![w].todo = Unfinished(j),
                          ![w].failed = With(j, {"error"}) # {}]
       ELSE Free(w)
    /\ UNCHANGED <<status, items, event, cleared, queue, request, freezing,
                   events, stops, upset>>

\* The loop takes the lock and sees whether the job is still in the memory.
Check(w, j) ==
    /\ worker[w].step = "check" /\ WorksOn(w, j)
    /\ worker[w].todo # {}
    /\ ~freezing
    /\ worker' = [worker EXCEPT
                     ![w].step = IF event[j] = 0 THEN "cancelled" ELSE "look",
                     ![w].event = event[j]]
    /\ UNCHANGED <<status, items, event, cleared, queue, request, freezing,
                   events, stops, upset>>

\* The next item, unless the Event that was found is cleared.
Download(w, j) ==
    LET i == Min(worker[w].todo)
    IN  /\ items' = IF Exists(j) THEN [items EXCEPT ![j][i] = "downloading"]
                    ELSE items
        /\ Goto(w, "download")

Look(w, j) ==
    /\ worker[w].step = "look" /\ WorksOn(w, j)
    /\ IF worker[w].event \in cleared
       THEN Goto(w, "wait") /\ UNCHANGED items
       ELSE Download(w, j)
    /\ UNCHANGED <<status, event, cleared, queue, request, freezing, events,
                   stops, upset>>

\* Paused: each second, under the lock, until the Event is set or the job gone.
Wait(w, j) ==
    /\ worker[w].step = "wait" /\ WorksOn(w, j)
    /\ ~freezing
    /\ \/ event[j] = 0 /\ Goto(w, "cancelled") /\ UNCHANGED items
       \/ event[j] # 0 /\ worker[w].event \notin cleared /\ Download(w, j)
    /\ UNCHANGED <<status, event, cleared, queue, request, freezing, events,
                   stops, upset>>

Downloaded(w, j, result) ==
    LET i == Min(worker[w].todo)
    IN  /\ worker[w].step = "download" /\ WorksOn(w, j)
        /\ items' = IF Exists(j) THEN [items EXCEPT ![j][i] = result] ELSE items
        /\ worker' = [worker EXCEPT
                         ![w].step = "check", ![w].todo = @ \ {i},
                         ![w].failed = @ \/ result = "error"]
        /\ UNCHANGED <<status, event, cleared, queue, request, freezing, events,
                       stops, upset>>

\* The job has ended or was found cancelled ...
Finish(w, j) ==
    /\ WorksOn(w, j)
    /\ \/ /\ worker[w].step = "check" /\ worker[w].todo = {}
          /\ SetStatus(j, IF worker[w].failed THEN "completed_with_errors"
                          ELSE "completed")
       \/ /\ worker[w].step = "cancelled"
          /\ SetStatus(j, "cancelled")
    /\ Goto(w, "cleanup")
    /\ UNCHANGED <<items, event, cleared, queue, request, freezing, events,
                   stops, upset>>

\* ... and _cleanup_job takes it out of the memory.
Cleanup(w, j) ==
    /\ worker[w].step = "cleanup" /\ WorksOn(w, j)
    /\ ~freezing
    /\ event' = [event EXCEPT ![j] = 0]
    /\ Free(w)
    /\ UNCHANGED <<status, items, cleared, queue, request, freezing, events,
                   stops, upset>>

-----------------------------------------------------------------------------
(* Requests *)

\* create_and_start_job
Create(j) ==
    /\ status[j] = "none"
    /\ ~freezing
    /\ status' = [status EXCEPT ![j] = "pending"]
    /\ SetGoing(j)
    /\ UNCHANGED <<items, cleared, worker, request, freezing, stops, upset>>

\* What each request wants of the status.
Admits(step, j) ==
    \/ step = "pause" /\ status[j] = "running"
    \/ step = "resume" /\ status[j] = "paused"
    \/ step = "cancel" /\ status[j] \in {"running", "paused"}
    \/ step = "delete" /\ status[j] # "running"
    \/ step = "retry" /\ status[j] # "running" /\ With(j, {"error"}) # {}

Ask(r, j, step) ==
    /\ request[r] = NoRequest
    /\ Exists(j)
    /\ Admits(step, j)
    /\ request' = [request EXCEPT ![r] = [step |-> step, job |-> {j},
                                          status |-> status[j],
                                          failed |-> With(j, {"error"})]]
    /\ UNCHANGED <<status, items, event, cleared, queue, worker, freezing,
                   events, stops, upset>>

Asked(r, j, step) == request[r].step = step /\ j \in request[r].job
Answer(r) == request' = [request EXCEPT ![r] = NoRequest]
Outdated(r, j) == Upset(j, "crossed", status[j] # request[r].status)

Pause(r, j) ==
    /\ Asked(r, j, "pause")
    /\ ~freezing
    /\ Answer(r)
    /\ IF event[j] \in {0} \cup cleared
       THEN UNCHANGED <<status, cleared, upset>>
       ELSE /\ cleared' = cleared \cup {event[j]}
            /\ SetStatus(j, "paused")
            /\ Outdated(r, j)
    /\ UNCHANGED <<items, event, queue, worker, freezing, events, stops>>

\* Mutant: only the row says that the job goes on.
ResumeRow(r, j) ==
    /\ Asked(r, j, "resume")
    /\ ~freezing
    /\ Answer(r)
    /\ SetStatus(j, "running")
    /\ Outdated(r, j)
    /\ UNCHANGED <<items, event, cleared, queue, worker, freezing, events, stops>>

Resume(r, j) ==
    /\ Asked(r, j, "resume")
    /\ ~freezing
    /\ Answer(r)
    /\ IF event[j] = 0
       THEN UNCHANGED <<status, cleared, upset>>
       ELSE /\ cleared' = cleared \ {event[j]}
            /\ SetStatus(j, "running")
            /\ Outdated(r, j)
    /\ UNCHANGED <<items, event, queue, worker, freezing, events, stops>>

\* cancel_job: the row first,
Cancel(r, j) ==
    /\ Asked(r, j, "cancel")
    /\ SetStatus(j, "cancelled")
    /\ request' = [request EXCEPT ![r].step = "signal"]
    /\ Upset(j, "crossed", TRUE)
    /\ UNCHANGED <<items, event, cleared, queue, worker, freezing, events, stops>>

\* then the Event, under the lock that _cleanup_job waits for.
Signal(r, j) ==
    /\ Asked(r, j, "signal")
    /\ ~freezing
    /\ freezing' = TRUE
    /\ cleared' = cleared \ {event[j]}
    /\ UNCHANGED <<status, items, event, queue, worker, request, events, stops,
                   upset>>

\* A worker that is paused in it stays with the job.
Delete(r, j) ==
    /\ Asked(r, j, "delete")
    /\ status' = [status EXCEPT ![j] = "deleted"]
    /\ items' = [items EXCEPT ![j] = Fresh]
    /\ Answer(r)
    /\ UNCHANGED <<event, cleared, queue, worker, freezing, events, stops, upset>>

\* retry_failed_items resets, one by one, the items that it saw failed, ...
ResetItem(r, j) ==
    LET i == Min(request[r].failed)
    IN  /\ Asked(r, j, "retry")
        /\ request[r].failed # {}
        /\ items' = IF Exists(j) THEN [items EXCEPT ![j][i] = "pending"] ELSE items
        /\ request' = [request EXCEPT ![r].failed = @ \ {i}]
        /\ Upset(j, "overlap", Underway(j) \/ status[j] = "completed")
        /\ UNCHANGED <<status, event, cleared, queue, worker, freezing, events,
                       stops>>

\* ... then the job ...
Retry(r, j) ==
    /\ Asked(r, j, "retry")
    /\ request[r].failed = {}
    /\ SetStatus(j, "pending")
    /\ request' = [request EXCEPT ![r].step = "submit"]
    /\ Upset(j, "overlap", Underway(j))
    /\ UNCHANGED <<items, event, cleared, queue, worker, freezing, events, stops>>

\* ... and sets the job going again.
Submit(r, j) ==
    /\ Asked(r, j, "submit")
    /\ ~freezing
    /\ SetGoing(j)
    /\ Answer(r)
    /\ Upset(j, "overlap", Underway(j))
    /\ UNCHANGED <<status, items, cleared, worker, freezing, stops>>

-----------------------------------------------------------------------------
\* The server stops.  When it starts again, cleanup_zombie_jobs marks the jobs
\* that seem to be in the hands of a worker; one that still waited in the queue
\* stays pending.
Stop ==
    /\ stops < MaxStops
    /\ stops' = stops + 1
    /\ status' = [j \in Jobs |-> IF status[j] \in {"running", "paused"}
                                 THEN "failed" ELSE status[j]]
    /\ event' = [j \in Jobs |-> 0]
    /\ cleared' = {}
    /\ queue' = <<>>
    /\ worker' = [w \in Workers |-> Unoccupied]
    /\ request' = [r \in Requests |-> NoRequest]
    /\ freezing' = FALSE
    /\ UNCHANGED <<items, events, upset>>

Act(r, j) ==
    \/ Pause(r, j) \/ Resume(r, j) \/ Cancel(r, j) \/ Signal(r, j)
    \/ Delete(r, j) \/ ResetItem(r, j) \/ Retry(r, j) \/ Submit(r, j)

Work(w) ==
    \/ Begin(w)
    \/ \E j \in Jobs :
          \/ List(w, j) \/ Check(w, j) \/ Look(w, j) \/ Wait(w, j)
          \/ \E result \in {"success", "error"} : Downloaded(w, j, result)
          \/ Finish(w, j) \/ Cleanup(w, j)

Next ==
    \/ \E w \in Workers : Work(w)
    \/ \E j \in Jobs :
          \/ Create(j)
          \/ \E r \in Requests :
                \/ \E step \in {"pause", "resume", "cancel", "delete", "retry"} :
                      Ask(r, j, step)
                \/ Act(r, j)
    \/ Stop

Spec == Init /\ [][Next]_vars

\* The threads of the pool go on, and a download comes to an end.
FairSpec == Spec /\ \A w \in Workers : WF_vars(Work(w))

-----------------------------------------------------------------------------
(* Properties *)

\* A job is called completed only if every symbol was downloaded, whatever was
\* paused, retried or cut short by a stop, unless a retry has set a second
\* worker on it or came behind another one.
CompletedMeansDownloaded ==
    \A j \in Jobs :
        status[j] = "completed" /\ "overlap" \notin upset[j] =>
            With(j, {"success"}) = Items

\* A job that runs does not hang: again and again it is not running, because it ends
\* or is paused, unless a cancellation has frozen the service, two workers had it, or
\* a request acted on a status that was no longer true.
RunningJobMovesOn ==
    \A j \in Jobs :
        []<>(status[j] # "running" \/ freezing \/ upset[j] # {})
=============================================================================
