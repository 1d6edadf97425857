---------------------------- MODULE VramPromises ----------------------------
(***************************************************************************)
(* How worker processes share the memory of the GPU: before a model is     *)
(* loaded there, its worker registers a promise, if what is free, less what *)
(* is promised, is enough (persistence/database/vram_promises_aql.py,      *)
(* components/ml/resources/ml_vram_coordinator_comp.py); if not the model  *)
(* runs on the CPU (components/ml/onnx/ml_base.py, ml_cache.py).  What a    *)
(* model needs is measured by the first worker that warms its models and   *)
(* finds no measurement (ml_vram_probe_comp.py).                           *)
(*                                                                         *)
(* Memory is counted in some unit, the reserve of 256 MB is taken off      *)
(* Total.  A session takes memory as it runs, up to its limit, and there are *)
(* other programs: nvidia-smi may show anything.                           *)
(***************************************************************************)
EXTENDS Naturals, FiniteSetsExt

CONSTANTS
    Worker, Model,
    Total,      \* memory of the GPU
    MaxFaults   \* bound: deaths, failed queries, sessions that cannot be created

ASSUME VramAssumption ==
    /\ IsFiniteSet(Worker) /\ IsFiniteSet(Model)
    /\ Total \in Nat /\ MaxFaults \in Nat

VARIABLES
    limit,      \* meta["ml_model_vram:..."] of each model, or NoLimit
    promise,    \* vram_promises: what is promised to a model of a worker, or 0
    proc,       \* the processes: "up", "exiting" or "down"
    cache,      \* what each does with its ONNXModelCache
    todo,       \* the models each has yet to probe
    device,     \* where the session of each model is
    cap,        \* its limit, if on the GPU, or NoLimit
    load,       \* where BaseONNXModel.load or unload of each model is
    owed,       \* workers that died, and whose promises are to be released
    faults,     \* what is left of the bound
    overlapped, \* history: two promises were checked before either was inserted
    misjudged,  \* history: workers declared dead that were not, since they started
    leaked,     \* history: promises that a failure left without a session
    broken      \* history: models whose new session failed, in the file at hand

meta    == <<limit, promise>>
process == <<proc, cache, todo, owed>>
models  == <<device, cap, load>>
history == <<overlapped, misjudged, leaked, broken>>
vars    == <<limit, promise, proc, cache, todo, device, cap, load, owed, faults,
             overlapped, misjudged, leaked, broken>>

-----------------------------------------------------------------------------
\* sys.maxsize, and any limit the GPU has no room for: they are all alike.
TooLarge == Total + 1

\* No measurement: the session gets no limit.
NoLimit == Total + 2

\* What is promised for a limit: 0.0 without one.
Need(l) == IF l = NoLimit THEN 0 ELSE l

Key == Worker \X Model

KeysOf(w) == {w} \X Model

NotLoading == [at |-> "none", amount |-> 0, again |-> FALSE]

Quiet(w) == \A key \in KeysOf(w) : load[key] = NotLoading

HasSessions(w) == \A key \in KeysOf(w) : device[key] # "none"

HasNone(w) == \A key \in KeysOf(w) : device[key] = "none"

Sum(f, keys) == MapThenSumSet(LAMBDA key : f[key], keys)

\* release_all_for_worker.
Without(w) == [key \in Key |-> IF key[1] = w THEN 0 ELSE promise[key]]

Promised(w) == {key \in KeysOf(w) : promise[key] > 0}

Fault == faults > 0 /\ faults' = faults - 1

-----------------------------------------------------------------------------
(* BaseONNXModel.load("gpu") of one model of one worker.                   *)

\* ONNXModelCache.warm = True: one model after the other that has no session.
Warm(key) ==
    /\ proc[key[1]] = "up" /\ cache[key[1]] = "warming" /\ Quiet(key[1])
    /\ device[key] = "none"
    /\ load' = [load EXCEPT ![key].at = "read"]
    /\ UNCHANGED <<meta, process, device, cap, faults, history>>

\* _probe_single_model, one model after the other.
ProbeLoad(key) ==
    /\ proc[key[1]] = "up" /\ cache[key[1]] = "probing" /\ Quiet(key[1])
    /\ HasNone(key[1]) /\ key[2] \in todo[key[1]]
    /\ load' = [load EXCEPT ![key].at = "read"]
    /\ UNCHANGED <<meta, process, device, cap, faults, history>>

\* The limit of the model.
Read(key) ==
    /\ load[key].at = "read"
    /\ load' = [load EXCEPT ![key].at = "check", ![key].amount = limit[key[2]]]
    /\ UNCHANGED <<meta, process, device, cap, faults, history>>

\* What load leaves when it raises: the probe goes on with what it has seen.
Failed(key) ==
    [NotLoading EXCEPT !.at = IF cache[key[1]] # "probing" THEN "none"
                              ELSE IF load[key].again THEN "measured" ELSE "failed"]

\* VramFitError: caught by load("cpu"), or by the probe.
Rejected(key) ==
    IF cache[key[1]] = "probing" /\ ~load[key].again
    THEN load' = [load EXCEPT ![key] = Failed(key)] /\ UNCHANGED device
    ELSE load' = [load EXCEPT ![key] = NotLoading] /\ device' = [device EXCEPT ![key] = "cpu"]

\* Mutant of Fits: what is promised and what is used are taken for the same.
MutFits(key, used) == Total >= used + Need(load[key].amount)

\* try_register, what it reads: the sum of the promises.
Fits(key, used) == Total >= used + Sum(promise, Key) + Need(load[key].amount)

\* nvidia-smi, whose error is a rejection, and the check.
Check(key) ==
    /\ load[key].at = "check"
    /\ \E used \in 0 .. Total + 1 :
          IF Fits(key, used) THEN load' = [load EXCEPT ![key].at = "insert"] /\ UNCHANGED device
          ELSE Rejected(key)
    /\ UNCHANGED <<meta, process, cap, faults, history>>

\* try_register, what it writes.
Insert(key) ==
    /\ load[key].at = "insert"
    /\ promise' = [promise EXCEPT ![key] = Need(load[key].amount)]
    /\ load' = [load EXCEPT ![key].at = "create"]
    /\ overlapped' = (overlapped \/ \E other \in Key \ {key} : load[other].at = "insert")
    /\ UNCHANGED <<limit, process, device, cap, faults, misjudged, leaked, broken>>

\* Mutant of Create: the limit is read again, for the session.
MutCreate(key) ==
    /\ load[key].at = "create"
    /\ device' = [device EXCEPT ![key] = "gpu"]
    /\ cap' = [cap EXCEPT ![key] = limit[key[2]]]
    /\ load' = [load EXCEPT ![key] = NotLoading]
    /\ leaked' = leaked \ {key}
    /\ UNCHANGED <<meta, process, faults, overlapped, misjudged, broken>>

\* The session, with the limit that was promised.
Create(key) ==
    /\ load[key].at = "create"
    /\ device' = [device EXCEPT ![key] = "gpu"]
    /\ cap' = [cap EXCEPT ![key] = load[key].amount]
    /\ load' = [load EXCEPT ![key] = NotLoading]
    /\ leaked' = leaked \ {key}
    /\ UNCHANGED <<meta, process, faults, overlapped, misjudged, broken>>

\* A query fails, or a session, on the GPU or the CPU, cannot be created.  Who warms
\* the cache stops there, until the next file; a file whose model was to be loaded
\* anew fails; the probe goes on.  A promise made stays.
LoadFails(key) ==
    /\ load[key].at \in {"read", "check", "insert", "create"}
    /\ Fault
    /\ load' = [load EXCEPT ![key] = Failed(key)]
    /\ cache' = [cache EXCEPT ![key[1]] = IF @ = "warming" THEN "ready" ELSE @]
    /\ leaked' = leaked \cup (IF load[key].at = "create" THEN {key} ELSE {})
    /\ broken' = broken \cup (IF cache[key[1]] = "use" THEN {key} ELSE {})
    /\ UNCHANGED <<meta, proc, todo, owed, device, cap, overlapped, misjudged>>

-----------------------------------------------------------------------------
(* BaseONNXModel.unload, run.                                              *)

\* Mutant of Release: the promise is released under another name than it has.
MutRelease(key) == promise

Release(key) == [promise EXCEPT ![key] = 0]

\* unload: the promise is released, then the session is dropped.
Unload(key, again) ==
    /\ promise' = IF device[key] = "gpu" THEN Release(key) ELSE promise
    /\ load' = [load EXCEPT ![key].at = "drop", ![key].again = again]

\* What comes when the session is dropped: the model is loaded anew, or is measured.
Dropped(key) ==
    [NotLoading EXCEPT !.at = IF load[key].again THEN "read"
                              ELSE IF cache[key[1]] = "probing" THEN "measured" ELSE "none",
                       !.again = load[key].again]

\* Mutant of Drop: the limit of the last session is still there without one.
MutDrop(key) ==
    /\ load[key].at = "drop"
    /\ device' = [device EXCEPT ![key] = "none"]
    /\ load' = [load EXCEPT ![key] = Dropped(key)]
    /\ UNCHANGED <<meta, process, cap, faults, history>>

Drop(key) ==
    /\ load[key].at = "drop"
    /\ device' = [device EXCEPT ![key] = "none"]
    /\ cap' = [cap EXCEPT ![key] = 0]
    /\ load' = [load EXCEPT ![key] = Dropped(key)]
    /\ UNCHANGED <<meta, process, faults, history>>

\* update_model_vram_from_oom: a quarter more, or what the model asked for.
Raised(l) == IF l = NoLimit THEN 1 .. TooLarge ELSE IF l = 0 THEN {0} ELSE l .. TooLarge

\* run: its limit is not enough for a model, it is raised for all workers, and the
\* model is loaded again.  The heads of a worker run in a pool of threads, more than
\* one can be at this.
RaiseLimit(key) ==
    /\ proc[key[1]] = "up" /\ cache[key[1]] \in {"use", "probing"}
    /\ device[key] = "gpu" /\ load[key] = NotLoading
    /\ \E l \in Raised(limit[key[2]]) : limit' = [limit EXCEPT ![key[2]] = l]
    /\ load' = [load EXCEPT ![key].at = "heal"]
    /\ UNCHANGED <<promise, process, device, cap, faults, history>>

Heal(key) ==
    /\ load[key].at = "heal"
    /\ Unload(key, TRUE)
    /\ UNCHANGED <<limit, process, device, cap, faults, history>>

\* The promise cannot be released: run raises, and the session is what it was.
HealFails(key) ==
    /\ load[key].at = "heal"
    /\ Fault
    /\ load' = [load EXCEPT ![key] = NotLoading]
    /\ UNCHANGED <<meta, process, device, cap, history>>

\* _probe_single_model, when the model has run, or its run failed.
ProbeUnload(key) ==
    /\ proc[key[1]] = "up" /\ cache[key[1]] = "probing" /\ load[key] = NotLoading
    /\ device[key] # "none"
    /\ Unload(key, FALSE)
    /\ UNCHANGED <<limit, process, device, cap, faults, history>>

\* probe_all_models: the measurement, whatever nvidia-smi showed, or sys.maxsize.
Store(key) ==
    /\ load[key].at \in {"measured", "failed"}
    /\ \E l \in IF load[key].at = "failed" THEN {TooLarge} ELSE 0 .. TooLarge :
          limit' = [limit EXCEPT ![key[2]] = l]
    /\ todo' = [todo EXCEPT ![key[1]] = @ \ {key[2]}]
    /\ load' = [load EXCEPT ![key] = NotLoading]
    /\ UNCHANGED <<promise, proc, cache, owed, device, cap, faults, history>>

EvictModel(key) ==
    /\ proc[key[1]] = "up" /\ cache[key[1]] = "evicting" /\ Quiet(key[1])
    /\ device[key] # "none"
    /\ Unload(key, FALSE)
    /\ UNCHANGED <<limit, process, device, cap, faults, history>>

-----------------------------------------------------------------------------
(* The cache of a worker: DiscoveryWorker.run.                             *)

Becomes(w, was, is) ==
    /\ proc[w] = "up" /\ cache[w] = was
    /\ cache' = [cache EXCEPT ![w] = is]

\* A first file was claimed.  On a GPU of which nothing is measured the worker probes.
Wake(w) ==
    /\ IF \A m \in Model : limit[m] = NoLimit
       THEN Becomes(w, "none", "probing") /\ todo' = [todo EXCEPT ![w] = Model]
       ELSE Becomes(w, "none", "warming") /\ UNCHANGED todo
    /\ UNCHANGED <<meta, proc, owed, models, faults, history>>

Probed(w) ==
    /\ Becomes(w, "probing", "warming") /\ Quiet(w) /\ todo[w] = {}
    /\ UNCHANGED <<meta, proc, todo, owed, models, faults, history>>

\* Whatever else fails before there is a cache: the worker has none, every file it
\* claims fails, and what it probed last may keep its promise.
Lose(w) ==
    /\ Fault
    /\ \/ Becomes(w, "none", "lost")
       \/ Becomes(w, "probing", "lost") /\ \A key \in KeysOf(w) : load[key].at \in {"none", "measured", "failed"}
    /\ todo' = [todo EXCEPT ![w] = {}]
    /\ device' = [key \in Key |-> IF key[1] = w THEN "none" ELSE device[key]]
    /\ cap' = [key \in Key |-> IF key[1] = w THEN 0 ELSE cap[key]]
    /\ load' = [key \in Key |-> IF key[1] = w THEN NotLoading ELSE load[key]]
    /\ leaked' = leaked \cup Promised(w)
    /\ UNCHANGED <<meta, proc, owed, overlapped, misjudged, broken>>

Warmed(w) ==
    /\ Becomes(w, "warming", "ready") /\ Quiet(w) /\ HasSessions(w)
    /\ UNCHANGED <<meta, proc, todo, owed, models, faults, history>>

\* Mutant of TakeFile: a cache that was warmed once is not looked at again.
MutTakeFile(w) ==
    /\ Becomes(w, "ready", "use")
    /\ UNCHANGED <<meta, proc, todo, owed, models, faults, history>>

\* process_file_workflow: what has no session is loaded first.
TakeFile(w) ==
    /\ Becomes(w, "ready", IF HasSessions(w) THEN "use" ELSE "warming")
    /\ UNCHANGED <<meta, proc, todo, owed, models, faults, history>>

\* The file is processed, or failed.
Done(w) ==
    /\ Becomes(w, "use", "ready") /\ Quiet(w)
    /\ broken' = broken \ KeysOf(w)
    /\ UNCHANGED <<meta, proc, todo, owed, models, faults, overlapped, misjudged, leaked>>

\* ONNXModelCache.warm = False, when there was no work for a while.
Evict(w) ==
    /\ Becomes(w, "ready", "evicting")
    /\ UNCHANGED <<meta, proc, todo, owed, models, faults, history>>

Evicted(w) ==
    /\ Becomes(w, "evicting", "none") /\ Quiet(w) /\ HasNone(w)
    /\ UNCHANGED <<meta, proc, todo, owed, models, faults, history>>

-----------------------------------------------------------------------------
(* Processes, and WorkerSystemService.                                     *)

\* DiscoveryWorker.run: a new process, never while the death of the last one is
\* not dealt with; it clears the promises of its name, or only logs that it could
\* not.
Start(w) ==
    /\ proc[w] = "down" /\ w \notin owed
    /\ proc' = [proc EXCEPT ![w] = "up"]
    /\ \/ promise' = Without(w) /\ leaked' = leaked \ KeysOf(w) /\ UNCHANGED faults
       \/ Fault /\ UNCHANGED <<promise, leaked>>
    /\ misjudged' = misjudged \ {w}
    /\ UNCHANGED <<limit, cache, todo, owed, models, overlapped, broken>>

\* The end of run: the promises are released while the sessions are there, or not.
\* At an eviction a promise that cannot be released ends it.
Exit(w) ==
    /\ proc[w] = "up" /\ Quiet(w)
    /\ proc' = [proc EXCEPT ![w] = "exiting"]
    /\ \/ cache[w] \in {"none", "ready", "lost"} /\ promise' = Without(w) /\ UNCHANGED faults
       \/ cache[w] \in {"none", "ready", "lost", "evicting"} /\ Fault /\ promise' \in {Without(w), promise}
    /\ UNCHANGED <<limit, cache, todo, owed, models, history>>

\* The memory of a process that is no more is free.
End(ws) ==
    /\ proc' = [w \in Worker |-> IF w \in ws THEN "down" ELSE proc[w]]
    /\ cache' = [w \in Worker |-> IF w \in ws THEN "none" ELSE cache[w]]
    /\ todo' = [w \in Worker |-> IF w \in ws THEN {} ELSE todo[w]]
    /\ device' = [key \in Key |-> IF key[1] \in ws THEN "none" ELSE device[key]]
    /\ cap' = [key \in Key |-> IF key[1] \in ws THEN 0 ELSE cap[key]]
    /\ load' = [key \in Key |-> IF key[1] \in ws THEN NotLoading ELSE load[key]]
    /\ broken' = broken \ (ws \X Model)

Exited(w) ==
    /\ proc[w] = "exiting"
    /\ End({w})
    /\ owed' = owed \cup {w}
    /\ UNCHANGED <<meta, faults, overlapped, misjudged, leaked>>

\* A process dies, or the service ends it.
Die(w) ==
    /\ proc[w] = "up"
    /\ Fault
    /\ End({w})
    /\ owed' = owed \cup {w}
    /\ UNCHANGED <<meta, overlapped, misjudged, leaked>>

\* on_status_change to "dead", and the end of stop_all_workers.
Reap(w) ==
    /\ w \in owed
    /\ owed' = owed \ {w}
    /\ \/ promise' = Without(w) /\ leaked' = leaked \ KeysOf(w) /\ UNCHANGED faults
       \/ Fault /\ leaked' = leaked \cup Promised(w) /\ UNCHANGED promise
    /\ UNCHANGED <<limit, proc, cache, todo, models, overlapped, misjudged, broken>>

\* on_status_change to "dead" of a worker that lives, but whose heartbeats are late.
Misjudge(w) ==
    /\ proc[w] = "up" /\ w \notin misjudged
    /\ Fault
    /\ promise' = Without(w)
    /\ misjudged' = misjudged \cup {w}
    /\ UNCHANGED <<limit, process, models, overlapped, leaked, broken>>

\* The server goes down with all processes; nobody hears of their deaths.
Crash ==
    /\ Fault
    /\ End(Worker)
    /\ owed' = {}
    /\ leaked' = leaked \cup UNION {Promised(w) : w \in Worker}
    /\ UNCHANGED <<meta, overlapped, misjudged>>

\* clear_model_vram_measurements, one key after the other; bounded as faults are.
Forget(m) ==
    /\ limit[m] # NoLimit
    /\ Fault
    /\ limit' = [limit EXCEPT ![m] = NoLimit]
    /\ UNCHANGED <<promise, process, models, history>>

-----------------------------------------------------------------------------
\* Measurements of earlier runs may be there, of some models or all.
Init ==
    /\ limit \in [Model -> 0 .. NoLimit]
    /\ promise = [key \in Key |-> 0]
    /\ proc = [w \in Worker |-> "down"]
    /\ cache = [w \in Worker |-> "none"]
    /\ todo = [w \in Worker |-> {}]
    /\ device = [key \in Key |-> "none"]
    /\ cap = [key \in Key |-> 0]
    /\ load = [key \in Key |-> NotLoading]
    /\ owed = {}
    /\ faults = MaxFaults
    /\ overlapped = FALSE
    /\ misjudged = {} /\ leaked = {} /\ broken = {}

Load(key) ==
    \/ Warm(key) \/ ProbeLoad(key) \/ Read(key) \/ Check(key) \/ Insert(key) \/ Create(key)
    \/ LoadFails(key) \/ RaiseLimit(key) \/ Heal(key) \/ HealFails(key) \/ Drop(key)
    \/ ProbeUnload(key) \/ Store(key) \/ EvictModel(key)

Work(w) ==
    \/ Wake(w) \/ Probed(w) \/ Lose(w) \/ Warmed(w) \/ TakeFile(w) \/ Done(w) \/ Evict(w) \/ Evicted(w)

Life(w) == Start(w) \/ Exit(w) \/ Exited(w) \/ Die(w) \/ Reap(w) \/ Misjudge(w)

Next ==
    \/ \E key \in Key : Load(key)
    \/ \E w \in Worker : Work(w) \/ Life(w)
    \/ Crash
    \/ \E m \in Model : Forget(m)

Spec == Init /\ [][Next]_vars

-----------------------------------------------------------------------------
(* Properties.                                                             *)

\* Every variable has its type, and what is not on the GPU has no limit there.
TypeOK ==
    /\ limit \in [Model -> 0 .. NoLimit]
    /\ promise \in [Key -> 0 .. TooLarge]
    /\ proc \in [Worker -> {"up", "exiting", "down"}]
    /\ cache \in [Worker -> {"none", "probing", "warming", "ready", "use", "evicting", "lost"}]
    /\ todo \in [Worker -> SUBSET Model]
    /\ device \in [Key -> {"none", "cpu", "gpu"}]
    /\ \A key \in Key : cap[key] \in 0 .. NoLimit /\ (device[key] # "gpu" => cap[key] = 0)
    /\ \A key \in Key : load[key].at \in {"none", "read", "check", "insert", "create",
                                          "heal", "drop", "measured", "failed"}
    /\ overlapped \in BOOLEAN /\ owed \subseteq Worker
    /\ misjudged \subseteq Worker /\ leaked \subseteq Key /\ broken \subseteq Key

\* A session that is not about to go.
Stays(key) == device[key] = "gpu" /\ load[key].at # "drop" /\ proc[key[1]] = "up"

\* The sessions on the GPU that have a limit fit together, up to their limits, unless
\* two workers checked at the same time, as try_register allows, or a live one was
\* taken for dead: measurements that come, change and go and sessions without one do
\* not break that.  It bounds no session of a model that was not measured when it was
\* loaded: that has no limit, and promises nothing (ml_base.py:115).  A promise is
\* released before its session goes: what is on its way out does not count.
NoOvercommit ==
    (~overlapped /\ misjudged = {}) =>
        Sum([key \in Key |-> Need(cap[key])], {key \in Key : Stays(key)}) <= Total

\* Nobody takes the promise of a live session away, or changes it, unless its
\* worker was declared dead: others see the limit it runs with, also when limits are
\* raised, measured or cleared meanwhile, and nothing for one that has none.
SessionPromised ==
    \A key \in Key : (Stays(key) /\ key[1] \notin misjudged) => promise[key] = Need(cap[key])

\* Each promise is that of a session or one about to be, or of a process that ended
\* and whose death the service has yet to deal with: else it was left by one of the
\* failures that leave some, and nothing else does.
PromiseUsed ==
    \A key \in Key :
        (promise[key] > 0 /\ key \notin leaked) =>
            device[key] = "gpu" \/ load[key].at = "create" \/ key[1] \in owed

\* A model without a session raises ("call load() first", ml_backbone.py:112).  While
\* a file is processed each model has one, or is being loaded anew: one that was
\* refused on the GPU, evicted, or given up by an earlier failure was loaded before,
\* and only a query or a session that fails in that very file leaves one without.
ModelsLoaded ==
    \A key \in Key :
        (cache[key[1]] = "use" /\ key \notin broken) =>
            device[key] # "none" \/ load[key].at \in {"read", "check", "insert", "create"}

\* "Models are probed sequentially -- only one session live at a time"
\* (ml_vram_probe_comp.py:9): what is measured is that session and no other.
ProbesAlone ==
    \A key, other \in Key :
        (cache[key[1]] = "probing" /\ device[key] = "gpu" /\ device[other] = "gpu") => key = other
=============================================================================
