------------------------- MODULE StrategyHost_proofs -------------------------
(***************************************************************************)
(* What StrategyHost promises for any number of requests, timers,          *)
(* restorations, processes and restarts: the strategy has one process, and *)
(* none after its user has stopped it.                                     *)
(***************************************************************************)
EXTENDS StrategyHost, FiniteSetTheorems, TLAPS

\* The steps of a thread that has PROCESS_LOCK.
LockSteps == {"record", "stopping", "deleting"}
Steps == LockSteps \cup {"idle", "start", "restart", "stop", "halt", "flag", "restore",
                         "adopt", "pending"}

TypeInv ==
    /\ spawned \in Nat
    /\ alive \subseteq 1 .. spawned
    /\ tracked \subseteq 1 .. spawned
    /\ config \in [exists: BOOLEAN, running: BOOLEAN, pid: SUBSET (1 .. spawned),
                   stopped: BOOLEAN, error: {"none", "failed", "waiting"}]
    /\ thread \in [Threads -> [step: Steps, process: SUBSET (1 .. spawned)]]
    /\ upset \subseteq {"early", "crossed", "waiting", "blind", "cut"}

AtMostOne(S) == \A p, q \in S : p = q

\* One thread has the lock; it and the one that takes up a process have one in
\* hand, and the file names one, but not of a strategy that does not run.
Holders ==
    /\ \A t, u \in Threads :
          thread[t].step \in LockSteps /\ thread[u].step \in LockSteps => t = u
    /\ \A t \in Threads :
          /\ AtMostOne(thread[t].process)
          /\ thread[t].step \in {"record", "adopt"} => thread[t].process # {}
    /\ AtMostOne(config.pid) /\ AtMostOne(tracked)
    /\ config.pid # {} => config.running

\* Whoever could start a process knows of the one that runs: it is the one that
\* is about to be recorded, and otherwise the file names it, and the server has no
\* other one.
Known ==
    /\ \A t \in Threads :
          /\ At(t, "record") => alive \subseteq thread[t].process
          /\ At(t, "stopping") => alive = {}
          /\ At(t, "restart") /\ tracked = {} => alive \cap config.pid = {}
    /\ (\A t \in Threads : ~At(t, "record")) =>
          /\ alive \subseteq config.pid
          /\ tracked # {} => alive \subseteq tracked

\* Nobody is about to start a strategy that its user has stopped.
StopHolds ==
    config.stopped =>
        /\ alive = {}
        /\ ~config.running /\ config.error # "waiting"
        /\ \A t \in Threads : thread[t].step \notin {"start", "restart", "record"}

HostInv == TypeInv /\ Holders /\ (upset = {} => Known /\ StopHolds)
-----------------------------------------------------------------------------
LEMMA IdleType ==
    /\ Idle.step = "idle" /\ Idle.process = {}
    /\ \A n \in Nat : Idle \in [step: Steps, process: SUBSET (1 .. n)]
  BY DEF Idle, Steps

LEMMA HostInit == Init => HostInv
  <1> SUFFICES ASSUME Init PROVE HostInv
    OBVIOUS
  <1>1. TypeInv
    BY IdleType DEF Init, TypeInv, NotRunning
  <1>2. Holders
    BY IdleType DEF Init, Holders, AtMostOne, NotRunning, LockSteps
  <1>3. Known
    BY IdleType DEF Init, Known, At
  <1>4. StopHolds
    BY DEF Init, StopHolds, NotRunning
  <1>5. QED
    BY <1>1, <1>2, <1>3, <1>4 DEF HostInv

\* A thread goes to another step, the others stay where they are.
Moves(t, step, process) ==
    /\ thread'[t].step = step /\ thread'[t].process = process
    /\ \A u \in Threads \ {t} : thread'[u] = thread[u]

LEMMA ThreadMoves ==
    ASSUME TypeInv, NEW t \in Threads
    PROVE  /\ \A step \in Steps : Goto(t, step) =>
                 /\ Moves(t, step, thread[t].process)
                 /\ thread' \in [Threads -> [step: Steps, process: SUBSET (1 .. spawned)]]
           /\ Return(t) =>
                 /\ Moves(t, "idle", {})
                 /\ thread' \in [Threads -> [step: Steps, process: SUBSET (1 .. spawned)]]
           /\ \A step \in Steps, n \in Nat : \A process \in SUBSET (1 .. n) :
                 n >= spawned /\ thread' = [thread EXCEPT ![t] = [step |-> step,
                                                                  process |-> process]] =>
                 /\ Moves(t, step, process)
                 /\ thread' \in [Threads -> [step: Steps, process: SUBSET (1 .. n)]]
  <1>1. /\ thread \in [Threads -> [step: Steps, process: SUBSET (1 .. spawned)]]
        /\ spawned \in Nat
    BY DEF TypeInv
  <1>2. ASSUME NEW step \in Steps, Goto(t, step)
        PROVE  /\ Moves(t, step, thread[t].process)
               /\ thread' \in [Threads -> [step: Steps, process: SUBSET (1 .. spawned)]]
    BY <1>1, <1>2 DEF Goto, Moves
  <1>3. ASSUME Return(t)
        PROVE  /\ Moves(t, "idle", {})
               /\ thread' \in [Threads -> [step: Steps, process: SUBSET (1 .. spawned)]]
    BY <1>1, <1>3, IdleType DEF Return, Moves
  <1>4. ASSUME NEW step \in Steps, NEW n \in Nat, NEW process \in SUBSET (1 .. n),
               n >= spawned,
               thread' = [thread EXCEPT ![t] = [step |-> step, process |-> process]]
        PROVE  /\ Moves(t, step, process)
               /\ thread' \in [Threads -> [step: Steps, process: SUBSET (1 .. n)]]
    <2>1. 1 .. spawned \subseteq 1 .. n
      BY <1>1, <1>4
    <2>2. \A u \in Threads : thread[u] \in [step: Steps, process: SUBSET (1 .. n)]
      BY <1>1, <2>1
    <2>3. QED
      BY <1>1, <1>4, <2>2 DEF Moves
  <1>5. QED
    BY <1>2, <1>3, <1>4
-----------------------------------------------------------------------------
(* Each step keeps what the file, the memory and the threads say of each other *)

\* The thread that has the lock has seen no other process.
LEMMA SpawnKeepsInv ==
    ASSUME HostInv, NEW t \in Threads, Spawn(t)
    PROVE  HostInv'
  <1>0. TypeInv /\ Holders
    BY DEF HostInv
  <1>a. /\ {spawned + 1} \in SUBSET (1 .. spawned + 1)
        /\ spawned + 1 \in Nat /\ spawned + 1 >= spawned
        /\ 1 .. spawned \subseteq 1 .. spawned + 1
    BY <1>0 DEF TypeInv
  <1>b. "record" \in Steps
    BY DEF Steps, LockSteps
  <1>2. thread' \in [Threads -> [step: Steps, process: SUBSET (1 .. spawned + 1)]]
    BY <1>0, <1>a, <1>b, ThreadMoves DEF Spawn
  <1>3. TypeInv'
    <2>1. /\ spawned' = spawned + 1 /\ alive' = alive \cup {spawned + 1}
          /\ UNCHANGED <<tracked, config>>
      BY DEF Spawn
    <2>2. upset' \subseteq {"early", "crossed", "waiting", "blind", "cut"}
      BY <1>0 DEF Spawn, Upset, TypeInv
    <2>4. QED
      BY <1>0, <1>2, <2>1, <2>2 DEF TypeInv
  <1>4. Holders'
    BY <1>0 DEF Spawn, Holders, LockFree, LockSteps, AtMostOne, Starting
  <1>5. ASSUME upset' = {}
        PROVE  Known' /\ StopHolds'
    <2>1. Known /\ StopHolds /\ upset = {}
      BY <1>5 DEF Spawn, HostInv, Upset
    <2>2. Known'
      BY <1>0, <1>5, <2>1
         DEF Spawn, TypeInv, Known, At, LockFree, Upset, Live, Starting, MayStart
    <2>3. StopHolds'
      BY <2>1 DEF Spawn, StopHolds, Starting
    <2>4. QED
      BY <2>2, <2>3
  <1>6. QED
    BY <1>3, <1>4, <1>5 DEF HostInv

\* The file takes over the process that the thread has in hand.
LEMMA RecordKeepsInv ==
    ASSUME HostInv, NEW t \in Threads, Record(t)
    PROVE  HostInv'
  <1>0. TypeInv /\ Holders
    BY DEF HostInv
  <1>1. Moves(t, "idle", {})
    BY <1>0, ThreadMoves DEF Record
  <1>2. thread' \in [Threads -> [step: Steps, process: SUBSET (1 .. spawned)]]
    BY <1>0, ThreadMoves DEF Record
  <1>3. TypeInv'
    BY <1>0, <1>2 DEF Record, TypeInv
  <1>4. Holders'
    BY <1>0, <1>1 DEF Record, Holders, Moves, LockSteps, AtMostOne
  <1>5. ASSUME upset' = {}
        PROVE  Known' /\ StopHolds'
    <2>1. Known /\ StopHolds /\ upset = {}
      BY <1>5 DEF Record, HostInv
    <2>2. Known'
      BY <1>1, <2>1 DEF Record, Known, Moves, At
    <2>3. StopHolds'
      BY <2>1 DEF Record, StopHolds, At
    <2>4. QED
      BY <2>2, <2>3
  <1>6. QED
    BY <1>3, <1>4, <1>5 DEF HostInv

\* A start that is not admitted changes nothing that others rely on.
LEMMA RefuseKeepsInv ==
    ASSUME HostInv, NEW t \in Threads, Refuse(t)
    PROVE  HostInv'
  <1>0. TypeInv /\ Holders
    BY DEF HostInv
  <1>1. Moves(t, "idle", {})
    BY <1>0, ThreadMoves DEF Refuse
  <1>2. thread' \in [Threads -> [step: Steps, process: SUBSET (1 .. spawned)]]
    BY <1>0, ThreadMoves DEF Refuse
  <1>3. TypeInv'
    BY <1>0, <1>2 DEF Refuse, TypeInv, Upset
  <1>a. \/ UNCHANGED <<config, upset>>
        \/ /\ At(t, "restart") /\ config'.pid = {} /\ ~config'.running
           /\ config'.stopped = config.stopped
           /\ Upset("crossed", Live(tracked \cup config.pid))
    BY <1>0 DEF Refuse, TypeInv
  <1>b. UNCHANGED <<alive, tracked>> /\ thread[t].step \in {"start", "restart"} /\ LockFree
    BY DEF Refuse, Starting
  <1>4. Holders'
    <2>1. AtMostOne(config'.pid) /\ (config'.pid # {} => config'.running)
      BY <1>0, <1>a DEF Holders, AtMostOne
    <2>2. QED
      BY <1>0, <1>1, <1>b, <2>1 DEF Holders, Moves, LockSteps, AtMostOne
  <1>5. ASSUME upset' = {}
        PROVE  Known' /\ StopHolds'
    <2>1. Known /\ StopHolds /\ upset = {}
      BY <1>5 DEF Refuse, HostInv, Upset
    <2>2. Known'
      BY <1>1, <1>5, <2>1 DEF Refuse, Known, Moves, At, LockFree, Upset, Live, Starting
    <2>3. StopHolds'
      BY <1>a, <1>b, <2>1 DEF StopHolds
    <2>4. QED
      BY <2>2, <2>3
  <1>6. QED
    BY <1>3, <1>4, <1>5 DEF HostInv

\* The process goes before the file says so; the lock keeps others from a start.
LEMMA KillKeepsInv ==
    ASSUME HostInv, NEW t \in Threads, Kill(t)
    PROVE  HostInv'
  <1>0. TypeInv /\ Holders
    BY DEF HostInv
  <1>2. thread' \in [Threads -> [step: Steps, process: SUBSET (1 .. spawned)]]
    BY <1>0 DEF Kill, TypeInv, Steps, LockSteps, Target
  <1>3. TypeInv'
    BY <1>0, <1>2 DEF Kill, TypeInv
  <1>4. Holders'
    BY <1>0 DEF Kill, Holders, LockFree, LockSteps, AtMostOne, Halting, Target
  <1>5. ASSUME upset' = {}
        PROVE  Known' /\ StopHolds'
    <2>1. Known /\ StopHolds /\ upset = {}
      BY <1>5 DEF Kill, HostInv
    <2>2. Known'
      BY <2>1 DEF Kill, Known, At, LockFree, Halting, Target
    <2>3. StopHolds'
      BY <2>1 DEF Kill, StopHolds
    <2>4. QED
      BY <2>2, <2>3
  <1>6. QED
    BY <1>3, <1>4, <1>5 DEF HostInv

\* The file forgets the process that is gone.
LEMMA RecordStopKeepsInv ==
    ASSUME HostInv, NEW t \in Threads, RecordStop(t)
    PROVE  HostInv'
  <1>0. TypeInv /\ Holders
    BY DEF HostInv
  <1>2. thread' \in [Threads -> [step: Steps, process: SUBSET (1 .. spawned)]]
    BY <1>0 DEF RecordStop, TypeInv, Steps
  <1>3. TypeInv'
    BY <1>0, <1>2 DEF RecordStop, TypeInv
  <1>4. Holders'
    BY <1>0 DEF RecordStop, Holders, LockSteps, AtMostOne
  <1>5. ASSUME upset' = {}
        PROVE  Known' /\ StopHolds'
    <2>1. Known /\ StopHolds /\ upset = {}
      BY <1>5 DEF RecordStop, HostInv
    <2>2. Known'
      BY <2>1 DEF RecordStop, Known
    <2>3. StopHolds'
      BY <2>1 DEF RecordStop, StopHolds
    <2>4. QED
      BY <2>2, <2>3
  <1>6. QED
    BY <1>3, <1>4, <1>5 DEF HostInv

\* There was none.
LEMMA NothingToStopKeepsInv ==
    ASSUME HostInv, NEW t \in Threads, NothingToStop(t)
    PROVE  HostInv'
  <1>0. TypeInv /\ Holders
    BY DEF HostInv
  <1>1. Moves(t, "idle", {})
    BY <1>0, ThreadMoves DEF NothingToStop
  <1>2. thread' \in [Threads -> [step: Steps, process: SUBSET (1 .. spawned)]]
    BY <1>0, ThreadMoves DEF NothingToStop
  <1>3. TypeInv'
    BY <1>0, <1>2 DEF NothingToStop, TypeInv
  <1>4. Holders'
    BY <1>0, <1>1 DEF NothingToStop, Holders, Moves, LockSteps, Target
  <1>5. ASSUME upset' = {}
        PROVE  Known' /\ StopHolds'
    <2>1. Known /\ StopHolds /\ upset = {}
      BY <1>5 DEF NothingToStop, HostInv
    <2>2. Known'
      BY <2>1 DEF NothingToStop, Known, At, LockFree, Halting, Target
    <2>3. StopHolds'
      BY <1>1, <2>1 DEF NothingToStop, StopHolds, Moves
    <2>4. QED
      BY <2>2, <2>3
  <1>6. QED
    BY <1>3, <1>4, <1>5 DEF HostInv

\* Users and timers only come to the lock.
LEMMA UserStartKeepsInv ==
    ASSUME HostInv, NEW t \in Threads, NEW within \in BOOLEAN, UserStart(t, within)
    PROVE  HostInv'
  <1>0. TypeInv /\ Holders
    BY DEF HostInv
  <1>1. \/ Moves(t, "start", thread[t].process)
        \/ UNCHANGED thread
    BY <1>0, ThreadMoves DEF UserStart, Steps
  <1>2. thread' \in [Threads -> [step: Steps, process: SUBSET (1 .. spawned)]]
    BY <1>0, ThreadMoves DEF UserStart, TypeInv, Steps
  <1>3. TypeInv'
    BY <1>0, <1>2 DEF UserStart, TypeInv
  <1>4. Holders'
    BY <1>0, <1>1 DEF UserStart, Holders, Moves, LockSteps
  <1>5. ASSUME upset' = {}
        PROVE  Known' /\ StopHolds'
    <2>1. Known /\ StopHolds /\ upset = {}
      BY <1>5 DEF UserStart, HostInv
    <2>2. Known'
      BY <1>1, <2>1, IdleType DEF UserStart, Known, Moves, At
    <2>3. StopHolds'
      BY DEF UserStart, StopHolds
    <2>4. QED
      BY <2>2, <2>3
  <1>6. QED
    BY <1>3, <1>4, <1>5 DEF HostInv

LEMMA UserStopKeepsInv ==
    ASSUME HostInv, NEW t \in Threads, UserStop(t)
    PROVE  HostInv'
  <1>0. TypeInv /\ Holders
    BY DEF HostInv
  <1>1. \/ Moves(t, "halt", thread[t].process)
        \/ Moves(t, "flag", thread[t].process)
    BY <1>0, ThreadMoves DEF UserStop, Steps
  <1>2. thread' \in [Threads -> [step: Steps, process: SUBSET (1 .. spawned)]]
    BY <1>0, ThreadMoves DEF UserStop, Steps
  <1>3. TypeInv'
    BY <1>0, <1>2 DEF UserStop, TypeInv
  <1>4. Holders'
    BY <1>0, <1>1 DEF UserStop, Holders, Moves, LockSteps
  <1>5. ASSUME upset' = {}
        PROVE  Known' /\ StopHolds'
    <2>1. Known /\ StopHolds /\ upset = {}
      BY <1>5 DEF UserStop, HostInv
    <2>2. Known'
      BY <1>1, <2>1, IdleType DEF UserStop, Known, Moves, At
    <2>3. StopHolds'
      BY <1>1, <2>1 DEF UserStop, StopHolds, Moves
    <2>4. QED
      BY <2>2, <2>3
  <1>6. QED
    BY <1>3, <1>4, <1>5 DEF HostInv

\* A stop by hand is noted after the process is gone, without the lock.
LEMMA FlagKeepsInv ==
    ASSUME HostInv, NEW t \in Threads, Flag(t)
    PROVE  HostInv'
  <1>0. TypeInv /\ Holders
    BY DEF HostInv
  <1>1. Moves(t, "idle", {})
    BY <1>0, ThreadMoves DEF Flag
  <1>2. thread' \in [Threads -> [step: Steps, process: SUBSET (1 .. spawned)]]
    BY <1>0, ThreadMoves DEF Flag
  <1>3. TypeInv'
    BY <1>0, <1>2 DEF Flag, TypeInv, Upset
  <1>4. Holders'
    BY <1>0, <1>1 DEF Flag, Holders, Moves, LockSteps, AtMostOne
  <1>5. ASSUME upset' = {}
        PROVE  Known' /\ StopHolds'
    <2>2. Known'
      BY <1>5 DEF Flag, Known, Upset
    <2>3. StopHolds'
      <3>1. /\ alive = {} /\ ~config.running /\ config.error # "waiting"
            /\ \A u \in Threads : thread[u].step \notin {"start", "restart", "record"}
        BY <1>5 DEF Flag, Upset
      <3>2. UNCHANGED alive /\ config'.running = config.running /\ config'.error = config.error
        BY DEF Flag
      <3>3. QED
        BY <1>1, <3>1, <3>2 DEF StopHolds, Moves
    <2>4. QED
      BY <2>2, <2>3
  <1>6. QED
    BY <1>3, <1>4, <1>5 DEF HostInv

LEMMA DeleteKeepsInv ==
    ASSUME HostInv, NEW t \in Threads, Delete(t)
    PROVE  HostInv'
  <1>0. TypeInv /\ Holders
    BY DEF HostInv
  <1>1. \/ Moves(t, "deleting", thread[t].process)
        \/ UNCHANGED thread
    BY <1>0, ThreadMoves DEF Delete, Steps, LockSteps
  <1>2. thread' \in [Threads -> [step: Steps, process: SUBSET (1 .. spawned)]]
    BY <1>0, ThreadMoves DEF Delete, TypeInv, Steps, LockSteps
  <1>3. TypeInv'
    BY <1>0, <1>2 DEF Delete, TypeInv, NotRunning
  <1>4. Holders'
    BY <1>0, <1>1 DEF Delete, Holders, Moves, LockFree, LockSteps, AtMostOne, NotRunning
  <1>5. ASSUME upset' = {}
        PROVE  Known' /\ StopHolds'
    <2>1. Known /\ StopHolds /\ upset = {}
      BY <1>5 DEF Delete, HostInv
    <2>2. Known'
      BY <1>0, <1>1, <2>1 DEF Delete, Holders, Known, Moves, At, LockFree
    <2>3. StopHolds'
      BY <1>1, <2>1 DEF Delete, StopHolds, Moves, NotRunning
    <2>4. QED
      BY <2>2, <2>3
  <1>6. QED
    BY <1>3, <1>4, <1>5 DEF HostInv

LEMMA TimedStartKeepsInv ==
    ASSUME HostInv, NEW t \in Threads, TimedStart(t)
    PROVE  HostInv'
  <1>0. TypeInv /\ Holders
    BY DEF HostInv
  <1>1. Moves(t, "start", thread[t].process)
    BY <1>0, ThreadMoves DEF TimedStart, Steps
  <1>2. thread' \in [Threads -> [step: Steps, process: SUBSET (1 .. spawned)]]
    BY <1>0, ThreadMoves DEF TimedStart, Steps
  <1>3. TypeInv'
    BY <1>0, <1>2 DEF TimedStart, TypeInv
  <1>4. Holders'
    BY <1>0, <1>1 DEF TimedStart, Holders, Moves, LockSteps
  <1>5. ASSUME upset' = {}
        PROVE  Known' /\ StopHolds'
    <2>1. Known /\ StopHolds /\ upset = {}
      BY <1>5 DEF TimedStart, HostInv
    <2>2. Known'
      BY <1>1, <2>1, IdleType DEF TimedStart, Known, Moves, At
    <2>3. StopHolds'
      BY DEF TimedStart, StopHolds
    <2>4. QED
      BY <2>2, <2>3
  <1>6. QED
    BY <1>3, <1>4, <1>5 DEF HostInv

LEMMA TimedStopKeepsInv ==
    ASSUME HostInv, NEW t \in Threads, TimedStop(t)
    PROVE  HostInv'
  <1>0. TypeInv /\ Holders
    BY DEF HostInv
  <1>1. Moves(t, "stop", thread[t].process)
    BY <1>0, ThreadMoves DEF TimedStop, Steps
  <1>2. thread' \in [Threads -> [step: Steps, process: SUBSET (1 .. spawned)]]
    BY <1>0, ThreadMoves DEF TimedStop, Steps
  <1>3. TypeInv'
    BY <1>0, <1>2 DEF TimedStop, TypeInv
  <1>4. Holders'
    BY <1>0, <1>1 DEF TimedStop, Holders, Moves, LockSteps
  <1>5. ASSUME upset' = {}
        PROVE  Known' /\ StopHolds'
    <2>1. Known /\ StopHolds /\ upset = {}
      BY <1>5 DEF TimedStop, HostInv
    <2>2. Known'
      BY <1>1, <2>1, IdleType DEF TimedStop, Known, Moves, At
    <2>3. StopHolds'
      BY <1>1, <2>1 DEF TimedStop, StopHolds, Moves
    <2>4. QED
      BY <2>2, <2>3
  <1>6. QED
    BY <1>3, <1>4, <1>5 DEF HostInv

\* A server that starts again takes up what the file names.
LEMMA RestoreBeginsKeepsInv ==
    ASSUME HostInv, NEW t \in Threads, RestoreBegins(t)
    PROVE  HostInv'
  <1>0. TypeInv /\ Holders
    BY DEF HostInv
  <1>1. Moves(t, "restore", thread[t].process)
    BY <1>0, ThreadMoves DEF RestoreBegins, Steps
  <1>2. thread' \in [Threads -> [step: Steps, process: SUBSET (1 .. spawned)]]
    BY <1>0, ThreadMoves DEF RestoreBegins, Steps
  <1>3. TypeInv'
    BY <1>0, <1>2 DEF RestoreBegins, TypeInv
  <1>4. Holders'
    BY <1>0, <1>1 DEF RestoreBegins, Holders, Moves, LockSteps
  <1>5. ASSUME upset' = {}
        PROVE  Known' /\ StopHolds'
    <2>1. Known /\ StopHolds /\ upset = {}
      BY <1>5 DEF RestoreBegins, HostInv
    <2>2. Known'
      BY <1>1, <2>1, IdleType DEF RestoreBegins, Known, Moves, At
    <2>3. StopHolds'
      BY <2>1 DEF RestoreBegins, StopHolds
    <2>4. QED
      BY <2>2, <2>3
  <1>6. QED
    BY <1>3, <1>4, <1>5 DEF HostInv

LEMMA PostponeKeepsInv ==
    ASSUME HostInv, NEW t \in Threads, Postpone(t)
    PROVE  HostInv'
  <1>0. TypeInv /\ Holders
    BY DEF HostInv
  <1>1. Moves(t, "pending", thread[t].process)
    BY <1>0, ThreadMoves DEF Postpone, Steps
  <1>2. thread' \in [Threads -> [step: Steps, process: SUBSET (1 .. spawned)]]
    BY <1>0, ThreadMoves DEF Postpone, Steps
  <1>3. TypeInv'
    BY <1>0, <1>2 DEF Postpone, TypeInv, Upset
  <1>4. Holders'
    BY <1>0, <1>1 DEF Postpone, Holders, Moves, LockSteps, AtMostOne
  <1>5. ASSUME upset' = {}
        PROVE  Known' /\ StopHolds'
    <2>1. Known /\ StopHolds /\ upset = {}
      BY <1>5 DEF Postpone, HostInv, Upset
    <2>2. Known'
      <3>1. UNCHANGED <<alive, tracked>> /\ (config' = config \/ alive = {})
        BY <1>5 DEF Postpone, Upset
      <3>2. thread[t].step = "restore"
        BY DEF Postpone, At
      <3>3. CASE config' = config
        BY <1>1, <2>1, <3>1, <3>2 DEF Known, Moves, At
      <3>4. CASE alive = {}
        BY <3>1, <3>4 DEF Known
      <3>5. QED
        BY <3>1, <3>3, <3>4
    <2>3. StopHolds'
      BY <1>1, <2>1 DEF Postpone, StopHolds, Moves
    <2>4. QED
      BY <2>2, <2>3
  <1>6. QED
    BY <1>3, <1>4, <1>5 DEF HostInv

LEMMA RestoreKeepsInv ==
    ASSUME HostInv, NEW t \in Threads, Restore(t)
    PROVE  HostInv'
  <1>0. TypeInv /\ Holders
    BY DEF HostInv
  <1>a. /\ {} \in SUBSET (1 .. spawned) /\ config.pid \in SUBSET (1 .. spawned)
        /\ spawned \in Nat /\ spawned >= spawned
        /\ {"pending", "adopt", "restart"} \subseteq Steps
    BY <1>0 DEF TypeInv, Steps
  <1>1. /\ \/ Found /\ Moves(t, "adopt", config.pid)
           \/ config.running /\ Moves(t, "restart", {}) /\ (~Found \/ upset' # {})
           \/ Moves(t, "pending", thread[t].process)
        /\ thread' \in [Threads -> [step: Steps, process: SUBSET (1 .. spawned)]]
        /\ upset' = upset \/ upset' = upset \cup {"blind"}
    <2>1. CASE config.running /\ config.pid # {}
      <3>1. PICK found \in {FALSE, Found} :
               /\ thread' = [thread EXCEPT ![t] =
                     IF found THEN [step |-> "adopt", process |-> config.pid]
                     ELSE [step |-> "restart", process |-> {}]]
               /\ Upset("blind", Found /\ ~found)
        BY <2>1 DEF Restore
      <3>2. CASE found
        <4>1. thread' = [thread EXCEPT ![t] = [step |-> "adopt", process |-> config.pid]]
          BY <3>1, <3>2
        <4>2. /\ Moves(t, "adopt", config.pid)
              /\ thread' \in [Threads -> [step: Steps, process: SUBSET (1 .. spawned)]]
          BY <1>0, <1>a, <4>1, ThreadMoves
        <4>3. QED
          BY <3>1, <3>2, <4>2 DEF Upset
      <3>3. CASE ~found
        <4>1. thread' = [thread EXCEPT ![t] = [step |-> "restart", process |-> {}]]
          BY <3>1, <3>3
        <4>2. /\ Moves(t, "restart", {})
              /\ thread' \in [Threads -> [step: Steps, process: SUBSET (1 .. spawned)]]
          BY <1>0, <1>a, <4>1, ThreadMoves
        <4>3. QED
          BY <2>1, <3>1, <3>3, <4>2 DEF Upset
      <3>4. QED
        BY <3>2, <3>3
    <2>2. CASE ~(config.running /\ config.pid # {})
      BY <1>0, <1>a, <2>2, ThreadMoves DEF Restore
    <2>3. QED
      BY <2>1, <2>2
  <1>3. TypeInv'
    BY <1>0, <1>1 DEF Restore, TypeInv
  <1>4. Holders'
    BY <1>0, <1>1 DEF Restore, Holders, Moves, LockSteps, AtMostOne, Found, Live
  <1>5. ASSUME upset' = {}
        PROVE  Known' /\ StopHolds'
    <2>1. Known /\ StopHolds /\ upset = {}
      BY <1>1, <1>5 DEF HostInv
    <2>2. Known'
      BY <1>1, <1>5, <2>1 DEF Restore, Known, Moves, At, Live, Found
    <2>3. StopHolds'
      BY <1>1, <2>1 DEF Restore, StopHolds, Moves
    <2>4. QED
      BY <2>2, <2>3
  <1>6. QED
    BY <1>3, <1>4, <1>5 DEF HostInv

\* A process that outlived the server is tracked again.
LEMMA AdoptKeepsInv ==
    ASSUME HostInv, NEW t \in Threads, Adopt(t)
    PROVE  HostInv'
  <1>0. TypeInv /\ Holders
    BY DEF HostInv
  <1>2. thread' \in [Threads -> [step: Steps, process: SUBSET (1 .. spawned)]]
    BY <1>0 DEF Adopt, TypeInv, Steps
  <1>3. TypeInv'
    BY <1>0, <1>2 DEF Adopt, TypeInv, Upset
  <1>4. Holders'
    BY <1>0 DEF Adopt, Holders, LockSteps, AtMostOne
  <1>5. ASSUME upset' = {}
        PROVE  Known' /\ StopHolds'
    <2>1. Known /\ StopHolds /\ upset = {}
      BY <1>5 DEF Adopt, HostInv, Upset
    <2>2. Known'
      BY <1>5, <2>1 DEF Adopt, Known, At, Upset
    <2>3. StopHolds'
      BY <2>1 DEF Adopt, StopHolds
    <2>4. QED
      BY <2>2, <2>3
  <1>6. QED
    BY <1>3, <1>4, <1>5 DEF HostInv

LEMMA PendingKeepsInv ==
    ASSUME HostInv, NEW t \in Threads, Pending(t)
    PROVE  HostInv'
  <1>0. TypeInv /\ Holders
    BY DEF HostInv
  <1>1. \/ config.error = "waiting" /\ Moves(t, "start", thread[t].process)
        \/ Moves(t, "idle", {})
    BY <1>0, ThreadMoves DEF Pending, Steps
  <1>2. thread' \in [Threads -> [step: Steps, process: SUBSET (1 .. spawned)]]
    BY <1>0, ThreadMoves DEF Pending, Steps
  <1>3. TypeInv'
    BY <1>0, <1>2 DEF Pending, TypeInv
  <1>4. Holders'
    BY <1>0, <1>1 DEF Pending, TypeInv, Holders, Moves, LockSteps, AtMostOne
  <1>5. ASSUME upset' = {}
        PROVE  Known' /\ StopHolds'
    <2>1. Known /\ StopHolds /\ upset = {}
      BY <1>5 DEF Pending, HostInv
    <2>2. Known'
      BY <1>1, <1>3, <2>1 DEF Pending, TypeInv, Known, Moves, At
    <2>3. StopHolds'
      BY <1>1, <1>3, <2>1 DEF Pending, TypeInv, StopHolds, Moves
    <2>4. QED
      BY <2>2, <2>3
  <1>6. QED
    BY <1>3, <1>4, <1>5 DEF HostInv

\* The steps in which no thread of the server takes part.
LEMMA OthersKeepInv ==
    ASSUME HostInv, Reap \/ ReadyChanges \/ \E p \in Processes : Die(p)
    PROVE  HostInv'
  <1>0. TypeInv /\ Holders
    BY DEF HostInv
  <1>1. CASE Reap
    <2>1. /\ tracked' = {} /\ config'.pid = {} /\ ~config'.running
          /\ config'.error = config.error /\ config'.stopped = config.stopped
          /\ config' \in [exists: BOOLEAN, running: BOOLEAN, pid: SUBSET (1 .. spawned),
                          stopped: BOOLEAN, error: {"none", "failed", "waiting"}]
          /\ UNCHANGED <<alive, spawned, thread, upset>>
      BY <1>0, <1>1 DEF Reap, TypeInv
    <2>2. TypeInv'
      BY <1>0, <2>1 DEF TypeInv
    <2>3. Holders'
      BY <1>0, <2>1 DEF Holders, AtMostOne
    <2>4. ASSUME upset' = {}
          PROVE  Known' /\ StopHolds'
      <3>1. Known /\ StopHolds
        BY <2>1, <2>4 DEF HostInv
      <3>2. \A t \in Threads : ~At(t, "record")
        BY <1>1 DEF Reap, LockFree, At
      <3>3. alive = {}
        BY <1>1, <3>1, <3>2 DEF Reap, Live, Known
      <3>4. QED
        BY <2>1, <3>1, <3>3 DEF Known, StopHolds
    <2>5. QED
      BY <2>2, <2>3, <2>4 DEF HostInv
  <1>2. CASE ReadyChanges
    BY <1>0, <1>2
       DEF ReadyChanges, HostInv, TypeInv, Holders, AtMostOne, Known, StopHolds, At
  <1>3. ASSUME NEW p \in Processes, Die(p)
        PROVE  HostInv'
    <2>1. /\ alive' \subseteq alive
          /\ UNCHANGED <<spawned, tracked, config, thread, upset>>
      BY <1>3 DEF Die
    <2>2. QED
      BY <2>1 DEF HostInv, TypeInv, Holders, Known, StopHolds, At
  <1>4. QED
    BY <1>1, <1>2, <1>3

\* The server forgets its threads and what it tracks, the file stays.
LEMMA RestartKeepsInv ==
    ASSUME HostInv, Restart
    PROVE  HostInv'
  <1>0. TypeInv /\ Holders
    BY DEF HostInv
  <1>1. /\ alive' \subseteq alive /\ tracked' = {} /\ UNCHANGED <<spawned, config>>
        /\ \A t \in Threads : thread'[t] = Idle
        /\ thread' \in [Threads -> [step: Steps, process: SUBSET (1 .. spawned)]]
    BY IdleType DEF Restart
  <1>2. TypeInv'
    BY <1>0, <1>1 DEF TypeInv, Restart, Upset
  <1>3. Holders'
    BY <1>0, <1>1, IdleType DEF Holders, AtMostOne, LockSteps
  <1>4. ASSUME upset' = {}
        PROVE  Known' /\ StopHolds'
    <2>1. Known /\ StopHolds /\ \A t \in Threads : ~At(t, "record")
      BY <1>4 DEF HostInv, Restart, Upset, At
    <2>2. QED
      BY <1>1, <2>1, IdleType DEF Known, StopHolds, At
  <1>5. QED
    BY <1>2, <1>3, <1>4 DEF HostInv

LEMMA HostStep == HostInv /\ [Next]_vars => HostInv'
  <1> SUFFICES ASSUME HostInv, [Next]_vars PROVE HostInv'
    OBVIOUS
  <1>1. CASE UNCHANGED vars
    BY <1>1
       DEF vars, HostInv, TypeInv, Holders, AtMostOne, Known, StopHolds, At
  <1>2. ASSUME NEW t \in Threads, Step(t)
        PROVE  HostInv'
    BY <1>2, SpawnKeepsInv, RecordKeepsInv, RefuseKeepsInv, KillKeepsInv,
       RecordStopKeepsInv, NothingToStopKeepsInv, FlagKeepsInv, PostponeKeepsInv,
       RestoreKeepsInv, AdoptKeepsInv, PendingKeepsInv
       DEF Step
  <1>3. QED
    BY <1>1, <1>2, UserStartKeepsInv, UserStopKeepsInv, DeleteKeepsInv,
       TimedStartKeepsInv, TimedStopKeepsInv, RestoreBeginsKeepsInv, OthersKeepInv,
       RestartKeepsInv
       DEF Next

\* What the server knows of the strategy is true, unless one of the causes that
\* upset names has come between.
THEOREM SpecHostInv == Spec => []HostInv
  BY HostInit, HostStep, PTL DEF Spec

\* A process that the file or the thread in hand names is the only one.
THEOREM SpecOneProcess == Spec => []OneProcess
  <1>1. HostInv => OneProcess
    <2> SUFFICES ASSUME HostInv, upset = {} PROVE Cardinality(alive) <= 1
      BY DEF OneProcess
    <2>1. \E S : AtMostOne(S) /\ alive \subseteq S
      BY DEF HostInv, Holders, Known
    <2>2. \A p \in alive : alive = {p}
      BY <2>1 DEF AtMostOne
    <2>3. CASE alive = {}
      BY <2>3, FS_EmptySet
    <2>4. ASSUME NEW p \in alive
          PROVE  Cardinality(alive) <= 1
      BY <2>2, FS_Singleton
    <2>5. QED
      BY <2>3, <2>4
  <1>2. QED
    BY <1>1, SpecHostInv, PTL

\* A strategy that its user has stopped stays without a process.
THEOREM SpecManualStopHolds == Spec => []ManualStopHolds
  <1>1. HostInv => ManualStopHolds
    BY DEF HostInv, StopHolds, ManualStopHolds
  <1>2. QED
    BY <1>1, SpecHostInv, PTL
================================================================================
