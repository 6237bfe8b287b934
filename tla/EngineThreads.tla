----------------------------- MODULE EngineThreads -----------------------------
(***************************************************************************)
(* Which execution engine runs.  Requests switch analyze mode on and off   *)
(* and start or stop an engine; where the proxy is down they start a       *)
(* polling thread, and a watcher that replaces it by the WebSocket engine  *)
(* when it can.  That engine polls as well while its data is stale.  A     *)
(* thread that is stopped is waited for, for some seconds, and then        *)
(* forgotten.                                                              *)
(*                                                                         *)
(* A stop of the server leaves the mode and nothing else: it is the        *)
(* initial state.  What an engine does to orders is in OrderExecution.     *)
(***************************************************************************)
EXTENDS Naturals, FiniteSets

CONSTANTS
    Requests,                  \* threads of requests; 1 is also the start's
    Pollers, Watchers, Loops,  \* bounds of the model: threads alive at once,
                               \* named by numbers from 1
    Settings                   \* [fallback, requests, watchers], explored one by
                               \* one: SANDBOX_ENGINE_FALLBACK, and the requests
                               \* and watchers that take part

VARIABLES
    setting,      \* one of Settings, fixed
    mode,         \* analyze_mode in the database
    call,         \* what each request is at
    lock,         \* _thread_lock: free, or held by a request or a watcher
    stopEvent,    \* _auto_upgrade_stop_event
    thread,       \* _execution_thread: a poller or 0
    poller,       \* the polling threads: "none", "working" or "told" to stop
    watching,     \* _auto_upgrade_thread: a watcher or 0
    watcher,      \* "none", "asleep", "waiting" for the lock or "joining"
    ws,           \* is _websocket_engine set?
    running,      \* _running of that engine
    polls,        \* its _fallback_running
    loopThread,   \* its _fallback_thread: a loop or 0
    loop,         \* "none", "current" or "old", of an engine that was stopped
    monitor,      \* "idle", or "joining" the loop
    failed,       \* history: the last start of an engine failed
    crossed,      \* history: a request has come while another was under way
    slow          \* history: threads that were forgotten before they ended

switch == <<mode, call, crossed>>
threads == <<lock, stopEvent, thread, poller, watching, watcher>>
engine == <<ws, running, polls, loopThread, loop, monitor>>
vars == <<setting, switch, threads, engine, failed, slow>>

Free == <<"free", 0>>

Init ==
    /\ setting \in Settings
    /\ mode \in BOOLEAN
    /\ call = [r \in Requests |-> IF mode /\ r = 1 THEN "start" ELSE "idle"]
    /\ lock = Free
    /\ stopEvent = FALSE
    /\ thread = 0
    /\ poller = [p \in Pollers |-> "none"]
    /\ watching = 0
    /\ watcher = [w \in Watchers |-> "none"]
    /\ ws = FALSE
    /\ running = FALSE
    /\ polls = FALSE
    /\ loopThread = 0
    /\ loop = [l \in Loops |-> "none"]
    /\ monitor = "idle"
    /\ failed = FALSE
    /\ crossed = FALSE
    /\ slow = {}

Goto(r, step) == call' = [call EXCEPT ![r] = step]

\* A join ends with the thread, or it times out and the thread is forgotten.
Join(alive, kind) ==
    \/ ~alive /\ UNCHANGED slow
    \/ alive /\ slow' = slow \cup {kind}

-----------------------------------------------------------------------------
(* Requests *)

\* set_analyze_mode is committed before the engine is started or stopped.
SetMode(r, on) ==
    /\ r \in setting.requests
    /\ call[r] = "idle"
    /\ call[1] = "start" => r # 1
    /\ mode' = on
    /\ Goto(r, IF on THEN "start" ELSE "stop")
    /\ crossed' = \E q \in Requests : call[q] # "idle"
    /\ UNCHANGED <<setting, threads, engine, failed, slow>>

EngineRuns == thread # 0 \/ (ws /\ running)

\* start of the WebSocket engine.  It reports success even if it could not
\* register for ticks and does not run.
StartWebSocket ==
    /\ ws' = TRUE
    /\ running' \in BOOLEAN
    /\ failed' = ~running'
    /\ UNCHANGED <<polls, loopThread, loop, monitor>>

\* The watcher of an earlier start goes on if it has not looked at the event.
StartWatcher ==
    IF watching # 0 /\ watcher[watching] # "none"
    THEN UNCHANGED <<stopEvent, watching, watcher>>
    ELSE \E w \in setting.watchers :
            /\ watcher[w] = "none"
            /\ stopEvent' = FALSE
            /\ watching' = w
            /\ watcher' = [watcher EXCEPT ![w] = "asleep"]

StartPolling ==
    /\ \E p \in Pollers :
          /\ poller[p] = "none"
          /\ thread' = p
          /\ poller' = [poller EXCEPT ![p] = "working"]
    /\ StartWatcher
    /\ failed' = FALSE
    /\ UNCHANGED <<lock, engine>>

StartExecutionEngine(r) ==
    /\ call[r] = "start"
    /\ lock = Free
    /\ Goto(r, "idle")
    /\ UNCHANGED <<setting, mode, crossed, slow>>
    /\ \/ EngineRuns /\ UNCHANGED <<threads, engine, failed>>
       \/ ~EngineRuns /\ StartWebSocket /\ UNCHANGED threads
       \/ ~EngineRuns /\ StartPolling
       \/ ~EngineRuns /\ failed' = TRUE /\ UNCHANGED <<threads, engine>>

\* stop: the watcher first.  It may be waiting for the lock that the request
\* holds, and is given up after five seconds.
StopWatcher(r) ==
    /\ call[r] = "stop"
    /\ lock = Free
    /\ lock' = <<"request", r>>
    /\ stopEvent' = TRUE
    /\ Goto(r, "join watcher")
    /\ UNCHANGED <<setting, mode, crossed, thread, poller, watching, watcher,
                   engine, failed, slow>>

StopWebSocket(r) ==
    /\ call[r] = "join watcher"
    /\ watching' = 0
    /\ running' = FALSE
    /\ polls' = FALSE
    /\ loop' = [l \in Loops |-> IF loop[l] = "current" THEN "old" ELSE loop[l]]
    /\ monitor' = "idle"
    /\ Goto(r, "join loop")
    /\ UNCHANGED <<setting, mode, crossed, lock, stopEvent, thread, poller, watcher,
                   ws, loopThread, failed, slow>>

Told(p) == [q \in Pollers |-> IF q = p THEN "told" ELSE poller[q]]

StopPolling(r) ==
    /\ call[r] = "join loop"
    /\ Join(loopThread # 0 /\ loop[loopThread] # "none", "loop")
    /\ ws' = FALSE
    /\ loopThread' = 0
    /\ poller' = Told(thread)
    /\ Goto(r, "join poller")
    /\ UNCHANGED <<setting, mode, crossed, lock, stopEvent, thread, watching,
                   watcher, running, polls, loop, monitor, failed>>

Stopped(r) ==
    /\ call[r] = "join poller"
    /\ Join(thread # 0 /\ poller[thread] # "none", "poller")
    /\ thread' = 0
    /\ lock' = Free
    /\ failed' = FALSE
    /\ Goto(r, "idle")
    /\ UNCHANGED <<setting, mode, crossed, stopEvent, poller, watching, watcher,
                   engine>>

-----------------------------------------------------------------------------
(* Watchers *)

\* Every five seconds: told to end, or the proxy is up.
Wake(w) ==
    /\ watcher[w] = "asleep"
    /\ watcher' = [watcher EXCEPT ![w] = IF stopEvent THEN "none" ELSE "waiting"]
    /\ UNCHANGED <<setting, switch, lock, stopEvent, thread, poller, watching, engine,
                   failed, slow>>

\* Mutant: the watcher does not look for the poller again with the lock held.
NotUpgraded == ~ws

\* An engine may have been stopped or started while the watcher waited.
Upgradable == thread # 0 /\ ~ws

Upgrade(w) ==
    /\ watcher[w] = "waiting"
    /\ lock = Free
    /\ Upgradable
    /\ StartWebSocket
    /\ lock' = <<"watcher", w>>
    /\ watcher' = [watcher EXCEPT ![w] = "joining"]
    /\ poller' = Told(thread)
    /\ UNCHANGED <<setting, switch, stopEvent, thread, watching, slow>>

\* There is nothing to replace, or starting the engine raises an exception.
NoUpgrade(w) ==
    /\ watcher[w] = "waiting"
    /\ lock = Free
    /\ watcher' = [watcher EXCEPT ![w] = "asleep"]
    /\ UNCHANGED <<setting, switch, lock, stopEvent, thread, poller, watching, engine,
                   failed, slow>>

Upgraded(w) ==
    /\ watcher[w] = "joining"
    /\ Join(thread # 0 /\ poller[thread] # "none", "poller")
    /\ thread' = 0
    /\ lock' = Free
    /\ watcher' = [watcher EXCEPT ![w] = "none"]
    /\ UNCHANGED <<setting, switch, stopEvent, poller, watching, engine, failed>>

-----------------------------------------------------------------------------
(* The loops that execute orders *)

PollerEnds(p) ==
    /\ poller[p] = "told"
    /\ poller' = [poller EXCEPT ![p] = "none"]
    /\ UNCHANGED <<setting, switch, lock, stopEvent, thread, watching, watcher, engine,
                   failed, slow>>

\* A loop looks at _fallback_running after each pass: one that was stopped and
\* forgotten goes on if the flag has been set again by then.
LoopEnds(l) ==
    /\ loop[l] = "old" \/ (loop[l] = "current" /\ ~polls)
    /\ loop' = [loop EXCEPT ![l] = "none"]
    /\ UNCHANGED <<setting, switch, threads, ws, running, polls, loopThread, monitor,
                   failed, slow>>

\* The health monitor of the WebSocket engine: the data is stale,
StartFallback(l) ==
    /\ running /\ setting.fallback /\ ~polls
    /\ monitor = "idle"
    /\ loop[l] = "none"
    /\ polls' = TRUE
    /\ loop' = [loop EXCEPT ![l] = "current"]
    /\ loopThread' = l
    /\ UNCHANGED <<setting, switch, threads, ws, running, monitor, failed, slow>>

\* or is fresh again.
StopFallback ==
    /\ running /\ polls
    /\ monitor = "idle"
    /\ polls' = FALSE
    /\ monitor' = "joining"
    /\ UNCHANGED <<setting, switch, threads, ws, running, loopThread, loop, failed,
                   slow>>

FallbackStopped ==
    /\ monitor = "joining"
    /\ Join(loop[loopThread] # "none", "loop")
    /\ loopThread' = 0
    /\ monitor' = "idle"
    /\ UNCHANGED <<setting, switch, threads, ws, running, polls, loop, failed>>

-----------------------------------------------------------------------------
Next ==
    \/ \E r \in Requests :
          \/ \E on \in BOOLEAN : SetMode(r, on)
          \/ StartExecutionEngine(r)
          \/ StopWatcher(r) \/ StopWebSocket(r) \/ StopPolling(r) \/ Stopped(r)
    \/ \E w \in Watchers : Wake(w) \/ Upgrade(w) \/ NoUpgrade(w) \/ Upgraded(w)
    \/ \E p \in Pollers : PollerEnds(p)
    \/ \E l \in Loops : LoopEnds(l) \/ StartFallback(l)
    \/ StopFallback \/ FallbackStopped

Spec == Init /\ [][Next]_vars

-----------------------------------------------------------------------------
(* Properties *)

Working == {p \in Pollers : poller[p] = "working"}
Alive(state) == {t \in DOMAIN state : state[t] # "none"}

\* When nobody is about to change it, an engine runs in analyze mode and none in
\* live mode, unless two requests crossed or a start failed: an upgrade that
\* waits while the engine is stopped does not start one again.
ModeIsObeyed ==
    /\ lock = Free /\ ~failed /\ ~crossed
    /\ \A r \in Requests : call[r] = "idle"
    => (mode <=> Working # {} \/ running)

\* A thread or engine that has not been told to stop is one that the next stop
\* will find.
AllAreKnown ==
    lock = Free => Working \subseteq {thread} /\ (running => ws)

\* No two pollers, or a poller and the WebSocket engine, execute orders at once,
\* nor two loops of its fallback, unless a stopped thread did not end in time.
OneEngine ==
    /\ lock = Free /\ "poller" \notin slow =>
          Cardinality(Alive(poller)) <= IF running THEN 0 ELSE 1
    /\ "loop" \notin slow => Cardinality(Alive(loop)) <= 1

\* The engine that runs is the one that the mode asks for, it is the only one,
\* and a stop finds it, through requests, upgrades and fallbacks that overlap.
EngineFollowsMode == ModeIsObeyed /\ AllAreKnown /\ OneEngine
=============================================================================
