---------------------------- MODULE WorkerSystem ----------------------------
(***************************************************************************)
(* WorkerSystemService (services/infrastructure/worker_system_svc.py):     *)
(* starting and stopping the pool of discovery workers, and replacing the  *)
(* ones that die.                                                          *)
(*                                                                         *)
(* Threads.  Nothing in the service is locked.                             *)
(*  - control: pause, resume and shutdown run on the event loop of the web *)
(*    server, so never two at once, but each takes many seconds (ctl);     *)
(*  - the health monitor's thread calls on_status_change (hearing);        *)
(*  - every pending restart is a threading.Timer, which runs               *)
(*    _restart_worker on a thread of its own (thread).                     *)
(* Worker processes crash, hang, and leave when the stop event is set.     *)
(*                                                                         *)
(* The health monitor is what HealthStatus promises, and no more: of its   *)
(* statuses the service acts on "dead", and a worker may be judged dead    *)
(* that is not.  Claims and VRAM promises released by a death belong to    *)
(* DiscoveryFleet.                                                         *)
(***************************************************************************)
EXTENDS RestartPolicy, Sequences, FiniteSets

CONSTANTS
    Workers,     \* worker_count, the most workers there may be
    Copies,      \* bound: processes of one worker somebody still refers to
    Timers       \* bound: restarts pending or running at the same time

ASSUME WorkersAssumption == Workers \in Nat \ {0}

ASSUME BoundsAssumption == Copies \in Nat /\ Timers \in Nat

\* Worker indexes, counted from 1 like the positions of the list.
Worker   == 1..Workers
NoWorker == 0

\* A process is created for one worker_index, and keeps it.
Proc   == [worker : Worker, copy : 1..Copies]
NoProc == [worker |-> NoWorker, copy |-> 0]

Timer   == 1..Timers
NoTimer == 0

VARIABLES
    enabled,    \* worker_enabled in the meta collection
    started,    \* _started
    stopEvent,  \* _stop_event, shared with the worker processes
    workers,    \* _workers
    pending,    \* _pending_restart_timers
    thread,     \* the timers, and the _restart_worker calls they run
    ctl,        \* where the control thread is
    next,       \* the worker start_all_workers comes to next
    admitted,   \* the number of workers admission control allows
    hearing,    \* the worker whose death on_status_change is deciding about
    undelivered, \* deaths the monitor has not called on_status_change for yet
    status,     \* HealthMonitorService: status of each worker id
    monitored,  \* HealthMonitorService: the process at the other end of the pipe
    alive,      \* worker processes that run
    count,      \* restart_count in worker_restart_policy
    givenUp,    \* workers with failed_at_wall_ms set in worker_restart_policy
    spawned,    \* history: processes _restart_worker started for each worker
    abandoned,  \* history: workers whose last death or restart came to nothing
    torn        \* history: a stop overlapped a restart, or a start broke off

pool    == <<enabled, started, stopEvent, workers>>
control == <<ctl, next, admitted>>
monitor == <<undelivered, status, monitored>>
history == <<spawned, abandoned, torn>>
vars    == <<enabled, started, stopEvent, workers, pending, thread, ctl, next, admitted,
             hearing, undelivered, status, monitored, alive, count, givenUp,
             spawned, abandoned, torn>>

HS == INSTANCE HealthStatus WITH Component <- Worker

-----------------------------------------------------------------------------
Stage == {"free", "armed", "fired", "enabled", "started", "registered", "replaced"}

Idle == [at |-> "free", worker |-> NoWorker, new |-> NoProc]

Listed(p) == \E k \in 1..Len(workers) : workers[k] = p

\* A process nothing refers to any more stands for one that does not exist yet.
Fresh(p) == /\ p \notin alive
            /\ ~Listed(p)
            /\ \A t \in Timer : thread[t].new # p
            /\ \A w \in Worker : monitored[w] # p

At(t, stage) == thread[t].at = stage

\* A restart that is waiting, or has not yet started its process.
Owed(t) == thread[t].at \in {"armed", "fired", "enabled"}

\* _restart_worker is under way.
Running(t) == thread[t].at \notin {"free", "armed"}

\* DiscoveryWorker.start() for worker w; the first of the fresh copies will do.
Launch(p, w) ==
    /\ p.worker = w /\ Fresh(p)
    /\ \A q \in Proc : q.worker = w /\ Fresh(q) => p.copy <= q.copy
    /\ alive' = alive \cup {p}

\* join, terminate, kill: none of them is alive afterwards.
Kill(doomed) == alive' = alive \ doomed

\* register_component, which a failed entry rejects.
RegisterComponent(w, p) ==
    /\ abandoned' = abandoned \ {w}
    /\ \/ /\ HS!Register(w)
          /\ monitored' = [monitored EXCEPT ![w] = p]
       \/ /\ status[w] = "failed"
          /\ UNCHANGED <<status, monitored>>

-----------------------------------------------------------------------------
(* Worker processes and the monitor's judgement of them.                   *)

\* A process crashes, or ends because the stop event is set.
Exit(p) ==
    /\ p \in alive
    /\ alive' = alive \ {p}
    /\ UNCHANGED <<pool, control, pending, thread, hearing, monitor, count, givenUp, history>>

\* The monitor thread finds a worker dead and will say so.  Its process may be
\* gone, hung, only slow, or not meant at all by the end of file that was read.
Judge(w) ==
    /\ hearing = NoWorker /\ w \notin undelivered
    /\ HS!Closed(w)
    /\ undelivered' = undelivered \cup {w}
    /\ torn' = (torn \/ ctl \in {"cancelled", "signalled"})
    /\ UNCHANGED <<pool, control, pending, thread, hearing, monitored, alive, count, givenUp,
                   spawned, abandoned>>

-----------------------------------------------------------------------------
(* on_status_change(dead), on the monitor's thread.                        *)

\* The claims are released; with the stop event set that is all.
Hear(w) ==
    /\ hearing = NoWorker /\ w \in undelivered
    /\ undelivered' = undelivered \ {w}
    /\ hearing' = IF stopEvent THEN NoWorker ELSE w
    /\ UNCHANGED <<pool, control, pending, thread, status, monitored, alive, count, givenUp, history>>

\* The query that releases them raises; the monitor logs it and goes on.
HearFails(w) ==
    /\ hearing = NoWorker /\ w \in undelivered
    /\ undelivered' = undelivered \ {w}
    /\ abandoned' = abandoned \cup {w}
    /\ UNCHANGED <<pool, control, pending, thread, hearing, status, monitored, alive, count,
                   givenUp, spawned, torn>>

\* cancel() of the timer a dict entry refers to: too late once it runs.
Cancelled(t) == t # NoTimer /\ At(t, "armed")

\* Mutant of Schedule: the counter is not incremented.
MutSchedule(w, t) ==
    /\ count' = count
    /\ thread' = [u \in Timer |->
                    IF u = t THEN [at |-> "armed", worker |-> w, new |-> NoProc]
                    ELSE IF u = pending[w] /\ Cancelled(u) THEN Idle
                    ELSE thread[u]]
    /\ pending' = [pending EXCEPT ![w] = t]
    /\ abandoned' = abandoned \ {w}
    /\ UNCHANGED <<status, givenUp>>

\* An older timer is cancelled, the count incremented, a new timer started.
Schedule(w, t) ==
    /\ count' = [count EXCEPT ![w] = @ + 1]
    /\ thread' = [u \in Timer |->
                    IF u = t THEN [at |-> "armed", worker |-> w, new |-> NoProc]
                    ELSE IF u = pending[w] /\ Cancelled(u) THEN Idle
                    ELSE thread[u]]
    /\ pending' = [pending EXCEPT ![w] = t]
    /\ abandoned' = abandoned \ {w}
    /\ UNCHANGED <<status, givenUp>>

\* Mutant of GiveUp: only the database is told.
MutGiveUp(w) ==
    /\ thread' = [u \in Timer |-> IF u = pending[w] /\ Cancelled(u) THEN Idle ELSE thread[u]]
    /\ pending' = [pending EXCEPT ![w] = NoTimer]
    /\ givenUp' = givenUp \cup {w} \/ UNCHANGED givenUp
    /\ UNCHANGED <<count, abandoned, status>>

\* An older timer is cancelled, the worker is set failed in the registry and then
\* in the database, where the write may raise.
GiveUp(w) ==
    /\ thread' = [u \in Timer |-> IF u = pending[w] /\ Cancelled(u) THEN Idle ELSE thread[u]]
    /\ pending' = [pending EXCEPT ![w] = NoTimer]
    /\ \/ HS!Fail(w)
       \/ status[w] = "absent" /\ UNCHANGED status
    /\ givenUp' = givenUp \cup {w} \/ UNCHANGED givenUp
    /\ UNCHANGED <<count, abandoned>>

\* The restart policy decides.  The last restart is within the window or not;
\* there is none before the first.
Decide(w) ==
    /\ hearing = w
    /\ hearing' = NoWorker
    /\ \E inWindow \in BOOLEAN :
          /\ count[w] = 0 => ~inWindow
          /\ \/ /\ ShouldRestart(count[w], inWindow)
                /\ \E t \in Timer :
                      /\ At(t, "free") /\ \A u \in Timer : At(u, "free") => t <= u
                      /\ Schedule(w, t)
             \/ /\ ~ShouldRestart(count[w], inWindow)
                /\ GiveUp(w)
    /\ UNCHANGED <<pool, control, undelivered, monitored, alive, spawned, torn>>

\* Reading or incrementing the counter raises, with the older timer cancelled.
DecideFails(w) ==
    /\ hearing = w
    /\ hearing' = NoWorker
    /\ thread' = [u \in Timer |-> IF u = pending[w] /\ Cancelled(u) THEN Idle ELSE thread[u]]
    /\ pending' = [pending EXCEPT ![w] = NoTimer]
    /\ abandoned' = abandoned \cup {w}
    /\ UNCHANGED <<pool, control, monitor, alive, count, givenUp, spawned, torn>>

-----------------------------------------------------------------------------
(* _restart_worker, on the thread of timer t.                              *)

\* The backoff is over.
Fire(t) ==
    /\ At(t, "armed")
    /\ thread' = [thread EXCEPT ![t].at = "fired"]
    /\ UNCHANGED <<pool, control, pending, hearing, monitor, alive, count, givenUp, history>>

\* The entry of the dict goes, whichever timer it is; then the system must be enabled.
CheckEnabled(t) ==
    /\ At(t, "fired")
    /\ pending' = [pending EXCEPT ![thread[t].worker] = NoTimer]
    /\ thread' = [thread EXCEPT ![t] = IF enabled THEN [@ EXCEPT !.at = "enabled"] ELSE Idle]
    /\ abandoned' = IF enabled THEN abandoned ELSE abandoned \cup {thread[t].worker}
    /\ UNCHANGED <<pool, control, hearing, monitor, alive, count, givenUp, spawned, torn>>

\* The replacement process is created and started.
Spawn(t) ==
    /\ At(t, "enabled")
    /\ \E p \in Proc :
          /\ Launch(p, thread[t].worker)
          /\ thread' = [thread EXCEPT ![t].at = "started", ![t].new = p]
    /\ spawned' = [spawned EXCEPT ![thread[t].worker] = @ + 1]
    /\ UNCHANGED <<pool, control, pending, hearing, monitor, count, givenUp, abandoned, torn>>

\* Creating it raises: the handler of the exception logs, and nobody tries again.
SpawnFails(t) ==
    /\ At(t, "enabled")
    /\ thread' = [thread EXCEPT ![t] = Idle]
    /\ abandoned' = abandoned \cup {thread[t].worker}
    /\ UNCHANGED <<pool, control, pending, hearing, monitor, alive, count, givenUp, spawned, torn>>

RegisterNew(t) ==
    /\ At(t, "started")
    /\ RegisterComponent(thread[t].worker, thread[t].new)
    /\ thread' = [thread EXCEPT ![t].at = "registered"]
    /\ UNCHANGED <<pool, control, pending, hearing, undelivered, alive, count, givenUp, spawned, torn>>

\* The list has the position: the process there is killed, its place kept in
\* mind.  It has not: the new process is appended.
Replace(t) ==
    LET w == thread[t].worker IN
    /\ At(t, "registered")
    /\ \/ /\ w <= Len(workers)
          /\ Kill({workers[w]})
          /\ thread' = [thread EXCEPT ![t].at = "replaced"]
          /\ UNCHANGED workers
       \/ /\ w > Len(workers)
          /\ workers' = Append(workers, thread[t].new)
          /\ thread' = [thread EXCEPT ![t] = Idle]
          /\ UNCHANGED alive
    /\ UNCHANGED <<enabled, started, stopEvent, control, pending, hearing, monitor,
                   count, givenUp, history>>

\* The position is assigned, an IndexError if the list was emptied meanwhile.
Assign(t) ==
    LET w == thread[t].worker IN
    /\ At(t, "replaced")
    /\ workers' = IF w <= Len(workers) THEN [workers EXCEPT ![w] = thread[t].new] ELSE workers
    /\ thread' = [thread EXCEPT ![t] = Idle]
    /\ UNCHANGED <<enabled, started, stopEvent, control, pending, hearing, monitor, alive,
                   count, givenUp, history>>

-----------------------------------------------------------------------------
(* pause_worker_system, resume_worker_system and shutdown.                 *)

Pause ==
    /\ ctl = "idle"
    /\ enabled' = FALSE
    /\ ctl' = "stop"
    /\ UNCHANGED <<started, stopEvent, workers, next, admitted, pending, thread, hearing,
                   monitor, alive, count, givenUp, history>>

Resume ==
    /\ ctl = "idle"
    /\ enabled' = TRUE
    /\ ctl' = "start"
    /\ UNCHANGED <<started, stopEvent, workers, next, admitted, pending, thread, hearing,
                   monitor, alive, count, givenUp, history>>

\* The stop meets a death not yet decided, or a restart it can no longer cancel.
Overlap == hearing # NoWorker \/ undelivered # {} \/ \E t \in Timer : Running(t)

\* Mutant of StopBegin: pending restarts are left to the stop event.
MutStopBegin ==
    /\ ctl = "stop"
    /\ \/ workers = <<>> /\ ctl' = "idle" /\ UNCHANGED torn
       \/ workers # <<>> /\ ctl' = "cancelled" /\ torn' = (torn \/ Overlap)
    /\ UNCHANGED <<pool, next, admitted, pending, thread, hearing, monitor, alive, count,
                   givenUp, spawned, abandoned>>

\* stop_all_workers: nothing to do without workers, else cancel every tracked timer.
StopBegin ==
    /\ ctl = "stop"
    /\ \/ workers = <<>> /\ ctl' = "idle" /\ UNCHANGED <<thread, torn>>
       \/ /\ workers # <<>>
          /\ ctl' = "cancelled"
          /\ torn' = (torn \/ Overlap)
          /\ thread' = [t \in Timer |->
                          IF At(t, "armed") /\ \E w \in Worker : pending[w] = t
                          THEN Idle ELSE thread[t]]
    /\ UNCHANGED <<pool, next, admitted, pending, hearing, monitor, alive, count, givenUp,
                   spawned, abandoned>>

\* Forget the timers, set the stop event.
StopSignal ==
    /\ ctl = "cancelled"
    /\ ctl' = "signalled"
    /\ pending' = [w \in Worker |-> NoTimer]
    /\ stopEvent' = TRUE
    /\ UNCHANGED <<enabled, started, workers, next, admitted, thread, hearing, monitor,
                   alive, count, givenUp, history>>

\* unregister_component for every process of the list.
StopUnregister ==
    LET ids == {workers[k].worker : k \in 1..Len(workers)} IN
    /\ ctl = "signalled"
    /\ ctl' = "unregistered"
    /\ status' = [w \in Worker |-> IF w \in ids THEN "absent" ELSE status[w]]
    /\ monitored' = [w \in Worker |-> IF w \in ids THEN NoProc ELSE monitored[w]]
    /\ UNCHANGED <<pool, next, admitted, pending, thread, hearing, undelivered, alive,
                   count, givenUp, history>>

\* Join every process of the list, kill the ones that do not leave.
StopJoin ==
    /\ ctl = "unregistered"
    /\ ctl' = "joined"
    /\ Kill({workers[k] : k \in 1..Len(workers)})
    /\ UNCHANGED <<pool, next, admitted, pending, thread, hearing, monitor, count,
                   givenUp, history>>

StopEnd ==
    /\ ctl = "joined"
    /\ ctl' = "idle"
    /\ workers' = <<>>
    /\ started' = FALSE
    /\ UNCHANGED <<enabled, stopEvent, next, admitted, pending, thread, hearing, monitor,
                   alive, count, givenUp, history>>

\* start_all_workers: already started, disabled, or refused by admission
\* control (no worker, yet started); else the stop event is cleared.
StartBegin ==
    /\ ctl = "start"
    /\ \/ /\ started \/ ~enabled
          /\ ctl' = "idle"
          /\ UNCHANGED <<started, stopEvent, next, admitted>>
       \/ /\ ~started /\ enabled
          /\ ctl' = "idle"
          /\ started' = TRUE
          /\ UNCHANGED <<stopEvent, next, admitted>>
       \/ /\ ~started /\ enabled
          /\ ctl' = "launch"
          /\ stopEvent' = FALSE
          /\ next' = 1
          /\ admitted' \in Worker
          /\ UNCHANGED started
    /\ UNCHANGED <<enabled, workers, pending, thread, hearing, monitor, alive, count,
                   givenUp, history>>

\* Create, start and append the next worker.
StartWorker ==
    /\ ctl = "launch"
    /\ ctl' = "register"
    /\ \E p \in Proc :
          /\ Launch(p, next)
          /\ workers' = Append(workers, p)
    /\ UNCHANGED <<enabled, started, stopEvent, next, admitted, pending, thread, hearing,
                   monitor, count, givenUp, history>>

\* Creating it raises: the workers started so far stay, _started is not set.
StartFails ==
    /\ ctl = "launch"
    /\ ctl' = "idle" /\ next' = 1 /\ admitted' = 1
    /\ torn' = TRUE
    /\ UNCHANGED <<pool, pending, thread, hearing, monitor, alive, count,
                   givenUp, spawned, abandoned>>

\* Register it, and go on with the next one.
StartRegister ==
    /\ ctl = "register"
    /\ RegisterComponent(next, workers[Len(workers)])
    /\ \/ /\ next < admitted
          /\ ctl' = "launch" /\ next' = next + 1
          /\ UNCHANGED started
       \/ /\ next = admitted
          /\ ctl' = "idle" /\ started' = TRUE /\ next' = 1
    /\ admitted' = IF next = admitted THEN 1 ELSE admitted
    /\ UNCHANGED <<enabled, stopEvent, workers, pending, thread, hearing,
                   undelivered, alive, count, givenUp, spawned, torn>>

-----------------------------------------------------------------------------
\* The application starts with the flag it finds in the database, and starts
\* the workers if it allows.
Init ==
    /\ enabled \in BOOLEAN
    /\ started = FALSE
    /\ stopEvent = FALSE
    /\ workers = <<>>
    /\ pending = [w \in Worker |-> NoTimer]
    /\ thread = [t \in Timer |-> Idle]
    /\ ctl = "start"
    /\ next = 1
    /\ admitted = 1
    /\ hearing = NoWorker
    /\ undelivered = {}
    /\ status = [w \in Worker |-> "absent"]
    /\ monitored = [w \in Worker |-> NoProc]
    /\ alive = {}
    /\ count = [w \in Worker |-> 0]
    /\ givenUp = {}
    /\ spawned = [w \in Worker |-> 0]
    /\ abandoned = {}
    /\ torn = FALSE

Callback == \E w \in Worker : \/ Hear(w)
                              \/ HearFails(w)
                              \/ Decide(w)
                              \/ DecideFails(w)

RestartWorker(t) == \/ CheckEnabled(t)
                    \/ Spawn(t)
                    \/ SpawnFails(t)
                    \/ RegisterNew(t)
                    \/ Replace(t)
                    \/ Assign(t)

StopAllWorkers  == StopBegin \/ StopSignal \/ StopUnregister \/ StopJoin \/ StopEnd
StartAllWorkers == StartBegin \/ StartWorker \/ StartFails \/ StartRegister

Next == \/ \E p \in Proc : Exit(p)
        \/ \E w \in Worker : Judge(w)
        \/ Callback
        \/ \E t \in Timer : Fire(t) \/ RestartWorker(t)
        \/ Pause
        \/ Resume
        \/ StopAllWorkers
        \/ StartAllWorkers

Spec == Init /\ [][Next]_vars

\* Threads that can run do, and timers fire.  That the monitor calls back is
\* DeathIsReported of HealthMonitor.
FairSpec == /\ Spec
            /\ WF_vars(Callback)
            /\ \A t \in Timer : WF_vars(Fire(t)) /\ WF_vars(RestartWorker(t))
            /\ WF_vars(StopAllWorkers)
            /\ WF_vars(StartAllWorkers)

-----------------------------------------------------------------------------
TypeOK ==
    /\ enabled \in BOOLEAN
    /\ started \in BOOLEAN
    /\ stopEvent \in BOOLEAN
    /\ workers \in Seq(Proc)
    /\ pending \in [Worker -> Timer \cup {NoTimer}]
    /\ thread \in [Timer -> [at : Stage, worker : Worker \cup {NoWorker}, new : Proc \cup {NoProc}]]
    /\ ctl \in {"idle", "stop", "cancelled", "signalled", "unregistered", "joined",
                "start", "launch", "register"}
    /\ next \in Worker
    /\ admitted \in Worker
    /\ hearing \in Worker \cup {NoWorker}
    /\ undelivered \subseteq Worker
    /\ status \in [Worker -> HS!Status]
    /\ monitored \in [Worker -> Proc \cup {NoProc}]
    /\ alive \subseteq Proc
    /\ count \in [Worker -> 0..MaxLifetime]
    /\ givenUp \subseteq Worker
    /\ spawned \in [Worker -> Nat]
    /\ abandoned \subseteq Worker
    /\ torn \in BOOLEAN

\* No interleaving of deaths, timers, pauses and resumes starts more
\* replacements than the policy paid for: what was spawned and what is still
\* owed is covered by the persisted count, which never passes the lifetime
\* limit, and a worker is given up only once its rapid budget is spent
\* (should_restart_worker, and lines 282-305).
RestartBudget ==
    \A w \in Worker :
        /\ spawned[w] + Cardinality({t \in Timer : Owed(t) /\ thread[t].worker = w}) <= count[w]
        /\ count[w] <= MaxLifetime
        /\ w \in givenUp => count[w] >= MaxInWindow \/ count[w] >= MaxLifetime

\* Idempotent scheduling (lines 132 and 275-301): unless a stop overlapped a
\* restart, a worker owed a restart is owed only one, is dead in the registry,
\* and a timer still waiting is the one the dict would cancel.
OneRestartOwed ==
    ~torn => \A t \in Timer : Owed(t) =>
        /\ status[thread[t].worker] = "dead"
        /\ \A u \in Timer : Owed(u) /\ thread[u].worker = thread[t].worker => u = t
        /\ At(t, "armed") => pending[thread[t].worker] = t

\* "Only replaces worker if system is still enabled" (line 327): no process is
\* started while worker_enabled is false.
StartsOnlyWhenEnabled ==
    [][~enabled => alive' \subseteq alive]_vars

\* A death the monitor finds is answered: the worker comes back or is given up,
\* unless the system is being stopped, or the one attempt to answer it comes to
\* nothing (the callback and _restart_worker give up at the first exception).
DeathIsAnswered ==
    \A w \in Worker :
        w \in undelivered ~> status[w] # "dead" \/ stopEvent \/ w \in abandoned
=============================================================================
