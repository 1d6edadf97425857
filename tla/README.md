# A TLA+ specification of nomarr

nomarr tags a music library: worker processes decode audio files, run neural
networks over them and store what they find in ArangoDB; from there tags are
written back to the files. This directory specifies the machinery that makes it
do so once, completely, and in spite of crashes: the monitoring of workers, the
pool that starts and replaces them, the claims by which they share files and the
promises by which they share a GPU, the scans that keep the library in step with
the disk, the promotion of vectors to the searchable collection, and the migration
of old databases.

Paths are relative to `src/nomarr/` unless they begin with `docs/`. `PROJECT.json`
maps every definition to the lines it stands for.

## The system

One server process runs the HTTP API (an asyncio event loop), the services, the
health monitor's thread, timers and background tasks. Each discovery worker is a
process of its own. Processes share the database and one event; a worker talks to
the server through one pipe, in one direction.

| Component | State | Operations | What makes it hard | What makes it correct |
|---|---|---|---|---|
| **HealthMonitorService** `services/infrastructure/health_monitor_svc.py` | registry of components (status, pipe, deadlines, strikes), one thread | register, unregister, set_failed, stop; loop: copy pipes, wait, read, check | registry changes between any two steps of the loop; callbacks run outside the lock | no status change lost; dead and failed do not come back by themselves; silence ends in dead |
| **WorkerSystemService** `services/infrastructure/worker_system_svc.py`, policy in `components/workers/worker_crash_comp.py` and `persistence/database/worker_restart_policy_aql.py` | list of processes, stop event, restart timers, enabled flag and counters in the database | start_all, stop_all, pause, resume, on_status_change, _restart_worker | three kinds of threads and no lock | no more restarts than the policy allows, one at a time; each death is answered |
| **DiscoveryWorker, claims** `services/infrastructure/workers/discovery_worker.py`, `persistence/database/worker_claims_aql.py` | claim documents; loop and one write thread per process | discover, claim, process, deferred writes, release; clean-up | two threads, several processes, the parent, crashes anywhere; claims are released by file key | a file is worked on by one process; is not taken for done without results; is not forgotten |
| **File states** `persistence/database/file_states_aql.py`, `library_files_aql/crud.py` | an edge to one of the two vertices of each of 8 axes, for each file | transition, initialisation, bulk setters and clears | a transition is one query, but a document and its initial edges are two, and initialisation does not look at what is there | one pole per axis; no axis lost |
| **Tag write reconciliation** `library_files_aql/reconciliation.py`, `workflows/processing/write_file_tags_wf.py`, `components/tagging/safe_write_comp.py` | leases in `worker_claims`, files on disk | claim a batch, copy, write, verify, replace, release | nothing of it runs today (see *Not modelled*) | an audio file is never left half written |
| **BackgroundTaskService** `services/infrastructure/background_tasks_svc.py` | a thread and an event per task id, the last results | start, cancel, list | the callers change state before they start a task that may be refused | one thread per task id |
| **Locks** `persistence/database/locks_aql.py` | lock documents with holder and expiry | acquire, complete, release, force release, list stale ones | expiry, or a reaper, while the holder works | one holder while nobody is slow |
| **VRAM coordination** `components/ml/resources/` | promised megabytes by worker and model, measured limits, capacity estimates | register, release, release of a worker, probe, raise and clear limits | check and insert do not exclude each other; dead workers; limits that come, change and go under sessions; models without one | sessions fit together; a live session has its promise; promises do not outlive their cause |
| **Library scans** `components/library/scan_lifecycle_comp.py`, `workflows/library/`, `services/domain/library_svc/scan.py` | documents, folder records, status of the library, one thread | set up, quick scan, full scan, finish, reset | many queries and retries against a disk and workers that go on | after a scan the documents are those of the files; what a moved song had is kept |
| **File watcher** `services/infrastructure/file_watcher_svc.py` | debounce timers, polling threads | events, flush, synchronise | timers against events; it resets what a crash left | a change is followed by a scan |
| **Vector promotion** `persistence/database/vectors_track_aql.py`, `workflows/platform/` | hot and cold collections, edges to both, the index | write, promote, rebuild | nine queries without a transaction, against writers, each other and crashes | no vector lost, every promoted one found |
| **Migrations** `components/platform/migration_runner_comp.py` | version, records of migrations, the whole old database | run pending, `V021` in ten phases | crash between any two queries, and a second run on what the first left | none skipped; no reference lost; no state made up |
| **Calibration** `services/domain/calibration_svc.py` | progress, a thread | start, status | one thread at a time | as for tasks |

Keys and sessions, configuration, inference, Navidrome and playlists, analytics,
the API, CLI, frontend and plugins have no interaction of their own worth a state
machine, or compute numbers; `PROJECT.json` lists them with the reason.

Interactions: frames and end of file travel from a worker's pipe to the monitor;
the monitor calls `on_status_change` of the pool on its own thread; the pool
releases the claims of a dead worker and arms a timer; the timer's thread starts
a process with the same worker id, registers it, and then kills the old one.
`DiscoveryFleet` sees that chain from the side of the claims, `VramPromises` from
that of the promises, `WorkerSystem` from the side of the threads, `HealthMonitor`
from the side of the pipes. A worker without files to tag promotes vectors on a
thread of its own and evicts its models: these two belong to the idle branch of its
loop and are `IdleThread` of `VectorPromotion` and `Evict` of `VramPromises`. A scan
adds and moves the documents that workers tag, and both move edges of the same
state graph, as does the migration.

## Modules

| Module | Models | State and actions |
|---|---|---|
| `HealthStatus` | what the monitor promises: the status machine | `status` of each component; register, unregister, fail, frame, end of pipe, deadline check |
| `HealthMonitor` | `HealthMonitorService` and the pipes | the fields of `_ComponentState`, one function each; `frames`/`open`/`closed` are pipes; `pc`, `watched`, `ready`, `emit` the locals of the loop. One action per critical section: `Snapshot`, `Wait`, `Read`, `Check`, `Deliver`; `Register`, `Unregister`, `Stop` by other threads; `Send`, `Exit` by processes; `Tick` |
| `RestartPolicy` | `should_restart_worker` | operator, two limits |
| `WorkerSystem` | `WorkerSystemService`, with the monitor reduced to `HealthStatus` | `ctl` is the event loop in pause, resume or start-up; `hearing` the monitor's thread in the callback; `thread[t]` the timers. `_restart_worker` is `CheckEnabled`, `Spawn`, `RegisterNew`, `Replace`, `Assign`; `stop_all_workers` is `StopBegin` to `StopEnd`; `start_all_workers` is `StartBegin`, `StartWorker`, `StartRegister`; each with its failures |
| `FileWork` | what the fleet promises about a file | `hands`: the process that works on each file; `known`, `tagged`, `extracted`, `errored`, `present`: what a file is marked as. `Begin`, `End`; `Result`, `Tag`, `Extract`, `Fail`, `Remove` of a file in hand |
| `DiscoveryFleet` | workers and claims, with the parent reduced to what touches them | `pc`, `file`, `errors` are the main loop of a process, `write` its db-write thread; one action per query, and one per query that raises; `GiveBack` is a release, whose failure nobody hears of |
| `Locks` | one document of the `locks` collection | operators on a holder and an age (fresh, stale, expired), one for each query |
| `VectorPromotion` | writing, promoting and indexing the vectors of a backbone, with `Locks` | `hot`, `cold`, `index`, `edges` are the database; `pc` is where the promotion thread of each worker, or the API, is. `Upsert`, `Link` are the worker's writes; `Look` to `Release` the idle workflow; `Inspect` to `Build` the shared one, one action per query; `QueryFails`, `Crash`, `Age` |
| `FileStates` | the edges of a file in the state graph | operators on a set of states: initialised, transitioned, set in bulk; where the unique index makes a query raise |
| `LibraryScan` | `scan_library_full_wf.py`, `scan_library_quick_wf.py`, what starts and ends them, with `FileStates` | `at` is the disk, `doc` the documents, `cache` the folder records, `status` the library, `ask` the requesters; `scan` holds the locals of the scan's thread and where it is. `Walk`, `List`, `Upsert`, `Initialize`, `Bootstrap`, `MarkScanned`, `MarkUnerrored`, `Move`, `NoMoreMoves`, `Save`, `Final`, `Remove`, `Tidy`, `Complete` in that order; `Raise` is the retry of a folder |
| `VramPromises` | sessions of models, what is promised to them and how it is measured | for each worker and model `device`, `cap`, `promise` and `load`, the step of `BaseONNXModel.load` or `unload`; `limit`, the measurements, is shared; `cache` and `todo` are what the loop of a worker is at with its models. `Read`, `Check`, `Insert`, `Create` are a load, or `LoadFails`; `ProbeLoad`, `ProbeUnload`, `Store` the probe of a model; `RaiseLimit`, `Heal`, `Drop` the answer to exhausted memory; `Wake` to `Evicted` the cache, with `TakeFile` and `Done` around each file; `Start` to `Crash` the processes and the pool; `Forget` clears a measurement |
| `Migrations` | the runner and `V021`, with `FileStates` | `version`, `records` are what the runner stores; `refers`, `copies`, `edges` what `V021` rewrites. `Link` is phase 4, `Remove` and `Insert` phase 6, `Seed` 8, `Drop` 10 |
| `MC_*` | constants for TLC | |
| `HealthMonitorProofs`, `DiscoveryFleetProofs`, `WorkerSystemProofs`, `VectorPromotionProofs`, `VramPromisesProofs`, `MigrationsProofs`, `LibraryScanProofs` | theorems about the module each is named after, with the invariants and lemmas they rest on | |
| `ScanMirrorProofs` | theorems about what scans of folders without folders in them do, over `LibraryScanProofs` | |

`DiscoveryFleet` implements `FileWork`, under the refinement mapping at its end: a
file is in the hands of the process whose loop or write thread is at it, so claims,
the hand-over between the two threads, and the clean-up of the parent are details.
`HealthMonitor` implements `HealthStatus`, and `WorkerSystem` is built on
`HealthStatus` only: what it shows holds with the real monitor, since that does
nothing the status machine does not. `WorkerSystem` assumes that a death found is
called back (`DeathIsReported`), and `DiscoveryFleet` that deaths are found and
answered (`SilenceIsFatal`, `DeathIsAnswered`). `VramPromises` takes from the pool
that a worker is not started again before its death was dealt with (`owed`), and
`LibraryScan` takes the worker as two steps on a document, `Work` and `WorkFails`,
which is what `DiscoveryFleet` leaves in it.

### Abstractions

- *Time.* In `HealthMonitor` a clock would grow for ever; the registry keeps the
  age of the last frame and what is left of a deadline, capped where comparisons
  stop changing. In `WorkerSystem` a backoff is a timer that fires at any time,
  and "the last restart was within the window" is a choice of the decision.
- *Frames* are their status and requested recovery; frames that the handler
  ignores or drops are one kind, "other".
- *Pipes* buffer `PipeCapacity` frames; a connection that nothing refers to is
  closed by reference counting (`Collect`).
- *Processing* a file is one of four outcomes in `DiscoveryFleet`. The cache of
  models and the idle branch are in the modules named above.
- *Heartbeats* are written when a worker starts and never again
  (`discovery_worker.py:344`), so the clean-up at a start may find any of them
  recent: `recent` is any set of workers. The two ways a claim is stale besides
  (file tagged, file gone) are exact.
- *Files* are numbered in the order of their keys, because discovery sorts by key.
- *Processes* are copies of a worker id; one nobody refers to and that has ended
  stands for the next one to be created.
- *Vectors* are the number of the write that made them, so that the newest of a
  file can be told from the older ones.
- *Songs* in `LibraryScan` are files by their content, which is what a chromaprint
  tells apart; a path is a song in a folder. Times of modification are kept as the
  result of their comparison: the record of a folder is of its current time or an
  old one (`match`, `old`), a document is `current` or not. A quick and a full scan
  are one thread record with a `kind`, since the steps they share are the same code.
- *Axes* in `LibraryScan` are the three that scans and workers write at the same
  time; the others are only initialised by a scan.
- *Memory* in `VramPromises` is a few units. Sessions take memory as they run, some
  without a limit, and other programs do, so what `nvidia-smi` shows may be anything.
  Limits the GPU has no room for are one value, with `sys.maxsize`. A session that
  ONNX Runtime puts on the CPU although the GPU was asked for has a promise like the
  others, and is counted as on the GPU; the probe, which looks at that, treats it as
  a load that failed.
- *Migrations*: one document for each collection that refers to another by a field,
  as a query of `V021` treats all of them alike, with `known` telling whether the
  document referred to exists. `V001`, `V020`, `V022` change nothing the model has.
- *History variables* (`spawned`, `abandoned`, `torn`, `skipped`; `latest`, `raced`,
  `overrun`, `lost`; `calm`, `bound`; `overlapped`, `misjudged`, `leaked`, `broken`; `known`,
  `before`) are read by properties only. Two exceptions are inputs as well:
  `latest` numbers the next vector, `known` says which references resolve; and
  `misjudged` limits `Misjudge` to once in the life of a worker.

## What is checked

| Run | Instance | Shows |
|---|---|---|
| `health_monitor` | 1 component, 2 connections, 2 policies, recovery requests below the floor and above the cap | `TypeOK`, `MissesMatchStatus`, `HandlerIsTold`, `Refines`, `SilenceIsFatal`, `DeathIsReported` |
| `worker_system` | 2 workers, 2 copies, 2 timers; 0.9 million states | `TypeOK`, `OneRestartOwed` |
| `worker_restarts` | 1 worker, 2 copies, 2 timers | `RestartBudget`, `DeathIsAnswered` |
| `fleet` | 2 workers, 2 files, 1 fault; 0.2 million states | `TypeOK`, `ClaimCoversWork`, `TaggedIsStored`, `OnlyOrphansStarve`, `ImplementsFileWork` |
| `fleet_misjudged` | 1 worker id, 2 processes, 1 file, 3 faults | `TaggedIsStored`, `OnlyOrphansStarve` when deaths are misjudged |
| `vectors` | 2 workers and the API, 1 file written twice, 1 fault, symmetric | `TypeOK`, `VectorKept`, `Exclusive`, `IndexRestored` |
| `library_scan` | 2 songs, one too short, 2 folders side by side, 1 change on disk, 1 fault, symmetric | `TypeOK`, `ScanMirrorsDisk`, `SkippedFoldersAreRight`, `MovesKept`, `NoAxisLost` |
| `vram` | 2 workers, 2 models, 1 unit of memory, any measurements or none, 1 fault, symmetric; 1.7 million states | `TypeOK`, `NoOvercommit`, `SessionPromised`, `PromiseUsed`, `ModelsLoaded` |
| `migrations` | 2 songs, 2 crashes, every older version, symmetric; 0.13 million states | `TypeOK`, `ReferencesKept`, `RecordedIsDone`, `NoFalseProgress` |

**Monitor.** `MissesMatchStatus`: the strike count belongs to the status, over
frames, checks and registrations. `HandlerIsTold`: what an entry's status is, the
handler heard last or is about to hear, although the change is made under the
lock and announced after it. `SilenceIsFatal`: no component stays live with a
process that says nothing. `Refines`: a dead component never comes back without a
registration. The code has no test for that in `_transition_to_healthy`; it holds
because the loop does not copy pipes of dead entries, and only the loop itself
declares anybody dead.

**Pool.** `RestartBudget`: replacements started and owed never exceed the
persisted count, whatever pauses, deaths and timers do. `OneRestartOwed`: a worker
owed a restart is owed one, which the service can still cancel. It holds up to the
first stop that meets a restart or a death under way (`torn`): nothing in the
service is locked, and after such a stop two restarts of a worker may be owed.
`DeathIsAnswered`: dead is not the end unless the system stops or an exception
ended the only attempt (`abandoned`).

**Fleet.** `ClaimCoversWork`: as long as deaths are judged rightly, a process has
a file in its hands, in its loop or its write thread, only under its own claim and
alone. `TaggedIsStored`: crashes, failures and even two processes on one file do
not make a file count as done without results. `OnlyOrphansStarve`: crashes,
errors and lost races do not keep files waiting, only a claim with no process
behind it does (or a stopped pool), and only if it is on the file that discovery
offers: the lowest, claimed or not. Such a claim is left by a crash, and by a release
that fails while its worker lives, which is reported as `False` and not read
(`worker_claims_aql.py:82`): nothing frees it until that worker dies. `ImplementsFileWork`: every mark on a file is
made by the one process that has it in hand, and in the order that
`_execute_deferred_writes` states: a tag that cannot be set, for one, is not followed
by "vectors extracted".

**Vectors.** `VectorKept`: nine queries move the vectors and no transaction holds
them together, yet the newest vector of a file survives crashes, failed queries,
two workers and the API in each other's promotions and a lock that was taken over;
the exception, a vector written between the copy and the truncation of a drain, is
real and lost (`raced`). `Exclusive`: the reaper removes what it listed a query
before, whoever's it is by then, so workers exclude each other only while no lock
gets old; releasing by holder is what keeps a worker that lost its lock from
freeing that of the next. `IndexRestored`: every promotion drops the index first
and builds it last; when they overlap, the last to finish leaves one.

**Scans.** `ScanMirrorsDisk`, `SkippedFoldersAreRight`: what follows from retries,
skipped folders and changes behind the back of a scan is found by the next full
scan, and by the next quick one as long as nothing failed; the times of folders are
read before their files, which is what makes the records safe. A fault is kept out
of the second property since a quick scan does record a folder it could not list,
or in which it could not read a file. `MovesKept`: a song that moved is the same
document afterwards although the folder it went to may be scanned before the one
it left. `NoAxisLost`: since removal and insertion of an edge are one query, what
raises in it leaves the axis as it was.

**VRAM.** `try_register` (`vram_promises_aql.py:113`) reads the sum and inserts in
one query, but does not take the collection exclusively, so two may read before
either inserts: `Check` and `Insert` are steps of their own, and `NoOvercommit`
holds unless that happened or a live worker was declared dead. It speaks of the
sessions that have a limit. A model that was not measured is promised 0 MB and gets
a session without one (`ml_base.py:115`), which takes what it takes; a worker meets
such models when another is at the probe, since one measurement is enough to skip
it, and when measurements are cleared. The property says that these sessions, and
limits that come, go and change, do not make the others promise more than there is:
double counting (what is in use is partly what is promised) errs on the safe side.
`SessionPromised`: no probe, raised limit, unload or healing leaves a session
another promise than the limit it was created with, or than nothing if it has none.
`PromiseUsed`: a promise nobody uses comes from the failures in `leaked`: the session
could not be created after its promise (nothing releases it until the model is
loaded once more or the worker ends), a release failed, or the server went down with
its workers. `ModelsLoaded`: a model without a session raises (`ml_backbone.py:112`),
and models lose theirs: to a load that failed while another was warmed or healed, to
an eviction, to a warm-up that broke off. `process_file_workflow` loads what is
missing before each file, so a model is without one only in the very file in which
its new session failed. (A worker whose probe or cache object could not be made has
no cache to warm: the assertion at `discovery_worker.py:558` fails each of its files.)

**Migrations.** `ReferencesKept`: a second run of `V021`, after a crash at any point
of the first, does not undo copies for which the fields are already gone; only the
query that copies the state of the last scan writes nulls then, although
`V021_schema_refactor_v1.py:34` says "Safe to run multiple times" and
`docs/dev/migrations.md:382` "Fully idempotent". `RecordedIsDone`: whatever was
interrupted, a stored version stands for finished migrations and one state on each
axis. `NoFalseProgress`: a crash between the two queries of phase 6 loses that songs
were tagged, and phase 8 of the next run makes them untagged; the property says that
this is the only direction in which a crash errs.

### Violations: what the code does and its documents deny

| Run | Property | The code |
|---|---|---|
| `vectors_found` | `PromotedIsFound` | the edges of promoted vectors are looked for from the side that has none yet; the step that should move the edge of a file leaves it at the hot document, which is truncated next |
| `scan_removes` | `OnlyDeletedRemoved` | the documents of a folder are those below it as well, its files are not |
| `scan_axes` | `OneEdgePerAxis` | a document that is upserted again gets the initial states beside its own |

The quotations and the lines are in `PROJECT.json`.

Six more are stated in the modules, each false of the code, and have no run:

| Module | Property | The code |
|---|---|---|
| `HealthMonitor` | `DeathHasCause` | end of file on the previous connection kills the component just registered again |
| `WorkerSystem` | `StartsOnlyWhenEnabled` | a pause between the check of the flag and the start of the process |
| `DiscoveryFleet` | `DiscoverySkipsClaimed` | the query filters on `status == "active"`, a field claims do not have |
| `DiscoveryFleet` | `OneWorkerPerFile` | claims of a worker judged dead are released before its process is killed |
| `DiscoveryFleet` | `StartsWithoutClaims` | claims of killed workers survive the clean-up of the next start |
| `VramPromises` | `ProbesAlone` | workers that start together both find no measurement (`discovery_worker.py:499`), and each probes with the sessions of the other on the GPU |

What the models also show, and no document denies:

- `start_quick_scan` and `start_full_scan` set the status before `start_task`, which
  refuses while the thread of the last scan, already complete, is alive. Then the
  library is "scanning" with no scan until the server is started again (`Start`,
  `Sync`).
- A model that `nvidia-smi` shows no memory for is measured as 0, and a quarter more
  than 0 is 0 (`Raised`): `run` loads it anew with the same limit as often as it runs
  out of memory.
- A model that did not fit while it was probed, for what other workers were promised,
  has `sys.maxsize` as its measurement, and stays off the GPU until measurements are
  cleared (`Store`).
- The guard against a newer database compares the version of the last migration
  (0.2.x) with that of the application (0.3.0.dev0), so it never stops an older
  build of the same version.

### Bounds

- `Component`, `Conn`: the thread serves components in turn, so one, with its current
  connection and an old one the loop still holds, has every behaviour of an entry;
  the invariants and the refinement are proved for any numbers.
- `PipeCapacity` 1: a frame is read with each iteration, and a full pipe only
  delays the writer.
- Policies of 1 to 2 seconds and 2 misses: each deadline passes, is renewed and
  passes again; the second miss is the fatal one.
- `MaxInWindow` 1, `MaxLifetime` 2: a restart allowed, one refused because it is
  within the window, one refused for good. (The code has 5 and 20.)
- `Copies`, `Timers` 2: the process being replaced
  and its replacement; a restart under way and one armed by a second death. With
  these bounds a third death waits until a timer or a copy is free.
- The constraint `Tidy` in `worker_system` stops at torn states, of which its
  property says nothing and from which no step leads back. `worker_restarts` goes
  through them.
- `MaxFaults`: crashes, failing queries, exhausted memory, misjudgements and stops
  take from one budget. One in `fleet` is a crash or a failure anywhere, whose
  consequences two workers and two files then meet; what several do is covered by
  the theorems. A misjudgement, the late write of the misjudged process and one
  failure need three. Without a budget nothing could be said to happen in the end.
- `MaxErrors` 1 or 2 stands for 10 consecutive errors.
- `vectors`: a file whose vector is written twice has an old one in the cold
  collection and a new one on its way there; files do not touch each other. Two
  workers and the API are two holders of the lock and one who does not ask for it.
  `MaxFaults` 1: a crash or a failed query, at any step of any of the three.
- `library_scan`: a song, and the one that is scanned in the other folder; two
  folders are where a song comes from and goes to, scanned in either order. A change
  and a fault may each come at any step of any of the scans, whose number is not
  bounded. `scan_removes` has one folder in the other, `scan_axes` one song.
- `vram`: measurements of 0, 1 or too much, or none, on one unit: a session fits and
  two do not, and a raised limit makes one that fitted not fit any more. Two models
  are one that was measured and one that was not, or one that is given up while the
  other is used. The constraint `Bounded` keeps the states few: a worker loads or
  unloads one model at a time (the code can heal two heads of a worker at once, which
  overlaps like two workers do), and the one fault, a failure, a death, a misjudgement
  or a cleared measurement at any step, is not combined with checks that overlapped.
  `VramPromisesProofs` needs neither bound.
- `migrations`: a song with an old state and one without it are what a query tells
  apart. Two crashes are one in the first run and one in the run that repairs it.
- The thread record of `LibraryScan` drops locals the code does not read any more,
  and `calm` and `bound` when the scan they speak of is over or disturbed: fewer
  states, the same behaviour.
- Symmetry is used in the runs said to be symmetric, which check no liveness and whose
  constants are otherwise interchangeable.
- `CHECK_DEADLOCK FALSE`: in the runs of the fleet, since with no file left to tag,
  or with all workers gone after too many errors and faults spent, nothing more
  happens until somebody adds files; in those of scans, since a scan that was refused
  by `start_task` leaves the library "scanning", and no other is accepted; in
  `migrations`, which is a start that ends.

### Fairness

- `HealthMonitor`: weak fairness of the loop, a daemon thread that blocks only in
  `wait` with a timeout, and of time. Nothing is assumed of components.
- `WorkerSystem`: weak fairness of the callback, of each timer and its thread, and
  of a stop or start under way: each step is a call that returns. Pauses, resumes,
  exits and deaths are free.
- `DiscoveryFleet`: weak fairness of each process's loop, of its write thread, and
  of the parent's answer to a death. This assumes that a main loop which hangs for
  ever is found out; in the code the health frames come from a thread of their own
  (`discovery_worker.py:257`), so a hang inside a call would not be.

## What is proved

`HealthMonitorProofs` proves, for any numbers of components, connections and
policies, from the named assumptions of `HealthMonitor` (`NoConnAssumption`,
`PolicyAssumption`, `RequestAssumption`):

| Theorem | Statement |
|---|---|
| `TypeCorrect` | `Spec => []TypeOK` |
| `Invariance` | `Spec => [](IInv /\ HasConn)` |
| `MissesCorrect` | `Spec => []MissesMatchStatus` |
| `NoChangeLost` | `Spec => []HandlerIsTold` |
| `Implementation` | `Spec => Refines`: the monitor implements `HealthStatus` |

The invariants are not inductive alone. `HandlerIsTold` survives the delivery of a
change only if that change is still the status of its entry or the entry was
replaced or removed (`QueueCurrent`), and the delivery of one change must not
overtake another of the same component (`QueueUnique`). The refinement needs that
no connection about to be read belongs to a dead entry (`DeadUnread`). `HasConn`
ties entries and the components about to be read to connections, so that the types
of the pipes are preserved. `IInv` is the conjunction with `TypeOK` and
`MissesMatchStatus`; there is one lemma for each part (`StepType`, `StepMisses`,
`StepQueue`, `StepUnread`), each with a case per action that can disturb it, and
`StepCases` collects the actions that leave them all alone. For the refinement
`AbstractStep` maps each step to a step of `HealthStatus` or to a stutter.

`DiscoveryFleetProofs` proves, for any numbers of workers, copies, files and
faults, from `FleetAssumption`:

| Theorem | Statement |
|---|---|
| `TypeCorrect` | `Spec => []TypeOK` |
| `ResultsBeforeTag` | `Spec => []TaggedIsStored` |
| `WorkIsClaimed` | `~Misjudges` implies `Spec => []ClaimCoversWork` |
| `Implementation` | `~Misjudges` implies `Spec => ImplementsFileWork` |

Types need to know when a process has a file in its hands (`FileInHand`) and that a
loop which goes on is below the limit of errors (`ErrorsBelow`). That tags follow
results needs that a write past "store" is of a stored file and a loop at "skip"
of a skipped one (`ResultsFirst`); no assumption on judgements is used, so it holds
even with two processes on one file. `ClaimCoversWork` does need `~Misjudges`
(with misjudgements `OneWorkerPerFile` is false). Its invariant `ClaimInv` says that one process runs
for a worker id and none once the id was judged dead (`OneProcess`), that loop and
write thread act under a claim of their id (`Covered`), and that the two threads
of a process are never on the same file (`Apart`), without which the release by
one would uncover the other. `LoopClaims`, `WriteClaims` and `ParentClaims` have a
case for each group of actions; `StayCovered` and `Released` serve the steps that
leave claims alone and those that release one, or fail to.

The refinement uses all of these and `TagFirst`: a write thread at "extract" is at a
file with its tag, since only the loop that has a file takes its tag away, and no
other process or thread is at that file. `EndsOnly` maps every step that marks nothing
and gives nobody a file to an `End` of whatever goes out of hand, be it a release, a
crash or a stop; `MarksOne` maps the steps that mark; what is left is the claim
(`Begin`) and the hand-over to the write thread (a stutter), in `LoopWork`.

`WorkerSystemProofs` proves, for any limits and numbers of workers, processes and
timers, from `LimitsAssumption`, `WorkersAssumption` and `BoundsAssumption`:

| Theorem | Statement |
|---|---|
| `TypeCorrect` | `Spec => []TypeOK` |
| `BudgetKept` | `Spec => []RestartBudget` |
| `OneOwed` | `Spec => []OneRestartOwed` |

`TypeInv` adds to the types that a timer's thread has a worker, and from its start
on a process of that worker. The budget is inductive with it alone: a restart is
counted before its timer is armed, and turns from owed to spawned in one step, so
the sum of both only grows where the count does (`ScheduleBudget`, `SpawnBudget`,
`NothingMore`; `Owing` is the set whose size is the number owed). It holds through
torn stops. `OneRestartOwed` needs all of `TidyInv`, which speaks of states that
are not torn: a dead worker is to be heard of, heard of, or started again, in one
place only (`OneAnswer`); the dictionary knows each timer that waits (`Tracked`), or
`_schedule_restart` would not cancel it; a stop that cancelled the timers leaves
nothing under way (`Stopped`); and a worker has its position in the list before it
can die (`InList`), or the restart would not find it there.

`VectorPromotionProofs` proves, for any workers, files, writes and faults, from
`PromotionAssumption`:

| Theorem | Statement |
|---|---|
| `TypeCorrect` | `Spec => []TypeOK` |
| `NoVectorLost` | `Spec => []VectorKept` |
| `OnePromotion` | `Spec => []Exclusive` |
| `IndexComesBack` | `Spec => []IndexRestored` |

Truncation loses nothing only if what is in the hot collection by then is in the
cold one: between copy and truncation a drain has every newest vector there but
those in `raced` (`Copied`), and the hot collection never has an old one
(`HotIsNewest`), which another drain would copy over a newer. `Exclusive` rests on
`LockInv`: while no lock gets old, who is inside holds it and nobody is about to
remove what it listed as stale. `IndexRestored` rests on `IndexInv`: as long as the
index is missing and nothing broke off, somebody is on the way to build it.

`VramPromisesProofs` proves, for any workers, models, limits and failures, from
`VramAssumption`, by which workers and models are finitely many, as those of a pool
and of a directory of models are:

| Theorem | Statement |
|---|---|
| `TypeCorrect` | `Spec => []TypeOK` |
| `SessionsArePromised` | `Spec => []SessionPromised` |
| `PromisesAreUsed` | `Spec => []PromiseUsed` |
| `FilesHaveModels` | `Spec => []ModelsLoaded` |
| `MemoryIsEnough` | `Spec => []NoOvercommit` |

`PlaceInv` says which session a load, a healing or an unload has at each step and
that a process which is not up is loading nothing; `PromiseInv` follows a promise
through the steps, from the amount read to the session created with it, and to the
release that comes before the session is dropped. Nothing is assumed of measurements,
which may be there or not and change at any step. `LoadedInv` adds to `ModelsLoaded`
that a session which goes while a file is processed goes to be replaced: only the
probe and an eviction drop sessions for good, and no file is processed during either.

`MemoryIsEnough` rests on `RoomInv`: the promises fit, and still do with the amount of
any one load that is past its check. It holds until a load inserts while another is
about to, which is what `overlapped` records; that each session that stays is covered
by its promise (`PromiseInv`) then bounds what those with a limit use. How sums change is known from
counting: `Units(f, keys)` has a pair for each unit of each key, and `SumIsUnits` says
that the sum is its cardinality. The fold is a recursive function, so no induction is
needed: there is a function that satisfies its equation (`FoldExists`, the count), and
where one that does differs from the count on a least set of keys, the equation for
that set gives a contradiction (`FoldCounts`, by the theorem that inclusion is well
founded on finite sets). `SumGrows` and `SumOfNew` are all the invariant uses.

`MigrationsProofs` proves, for any songs and any number of crashes, from
`MaxCrashesAssumption`:

| Theorem | Statement |
|---|---|
| `TypeCorrect` | `Spec => []TypeOK` |
| `ReferencesSurvive` | `Spec => []ReferencesKept` |
| `StoredIsDone` | `Spec => []RecordedIsDone` |
| `NothingInvented` | `Spec => []NoFalseProgress` |

`OrderInv`: what is to do is what the version does not cover, and a version is
stored after its record. `LinkInv`: before a field is dropped it was copied, in this
run or an earlier one, and the loop has got as far as its position; the copy of the
last scan is right only without crashes. `GraphInv`: no song has both states of an
axis, since it is not seeded on an axis while the old state is there that the axis
replaces, and the later phases find the old states gone. `OriginInv`: the old
states, also of the songs whose edge was removed and not yet inserted, were there at
the start.

`LibraryScanProofs` and, for the last three, `ScanMirrorProofs` prove, for any songs,
folders, requesters and bounds, from `ScanAssumption`:

| Theorem | Statement |
|---|---|
| `TypeCorrect` | `Spec => []TypeOK` |
| `AxesKept` | `Spec => []NoAxisLost` |
| `SkippedAreRight` | `Flat => (Spec => []SkippedFoldersAreRight)` |
| `MirrorsDisk` | `Flat => (Spec => []ScanMirrorsDisk)` |
| `MovesAreKept` | `Flat => (Spec => []MovesKept)` |

The lemmas about `FileStates` come first: initialisation, a transition and a bulk
query each leave a state on every axis that had one (`InitializedWhole`,
`TransitionedWhole`, `BulkSetWhole`), and none of them raises on a file with at most
one state on each axis (`SingleSteps`). A bulk query on a batch is safe because its
documents exist and are initialised by then (`DocInv`).

`Flat`, no folder in another, is a hypothesis of the last three theorems and not an
assumption of the module. `Folder` is the folders that have files at some time, so
artists with albums are flat as long as only albums have files. Without it the
statements are false: listing a folder takes the documents of those below it for
missing (`get_files_for_folder` compares prefixes), and a scan removes the documents
of files that are there, as `scan_removes` shows.

The three properties speak of the time between scans or of their end, so the
invariants say what a scan in between has in mind, written down or not:

- `KnowInv`. `SureRight`: in a folder there is nothing to do for (its record matches
  and nothing failed; or the scan, left alone, is done with it) each file has a
  document that stays or a path that is added in the end, and no other document
  stays. `ListedRight`: so it is in the folder the scan is in, if nobody changed it
  since the scan read its time, which is what `Save` turns into a record that
  matches. `MissingGone`: what is missing is not where its path says, so what is
  removed at the end is not a file. `Known`, `Placed`: a path that waits has no
  document and is in a folder that is done, so no other batch adds it, and no folder
  that is listed again counts it twice. `NewDocs`: a new document has one state on
  each axis, so that its batch at the end, which is tried once, cannot raise.
- `CalmInv`, while nobody disturbs the scan: it has found the folders with files; the
  documents of those a full scan is done with are current; and a folder that is tried
  again has nothing left to update, so that the second attempt does not raise and no
  folder is given up. That last part is why a document with both states of an axis,
  which scans do leave (`scan_axes`), does not keep a full scan from the other files.
- `RecordInv`, while nothing failed: every document is in a folder with a record, but
  for the folder the scan is in; so the documents of a folder whose last file went
  are found by its record.
- `BoundInv`: a song that moved has its document at its new path; or it is among the
  missing with its print, or the scan still comes to the folder it left, and in both
  cases the second pass is ahead. At the second pass the new path waits by
  `SureRight`, so an unmatched document would be a match (`FinalBound`).

`Carried` serves the steps that learn nothing about a folder, `SameMind` those of
workers and edits; the rest has a lemma for each query and each invariant. `WalkGives`
to `WorldGives` say what each step makes of the thread, for all of them.

The invariants of all eight modules were model-checked on the instances of the runs,
or smaller ones with more faults, before they were proved.

Only model-checked:

- liveness (`SilenceIsFatal`, `DeathIsReported`, `DeathIsAnswered`,
  `OnlyOrphansStarve`), since the prover has neither ENABLED nor fairness;
- the three runs that find a violation, of which `scan_removes` is about nested folders,
  outside of `Flat`.

## Not modelled

- *Tag write reconciliation.* `write_file_tags_workflow` returns "Invalid library_id:
  None" for every file (`workflows/processing/write_file_tags_wf.py:163`), since
  documents carry no `library_id` any more (`crud.py:210` strips it, `V021` drops
  it). What runs is: claim a batch, fail, wait for the leases. A model of the safe
  write would be of code that cannot be reached.
- *Capacity probe and choice of a tier.* They run before the workers are started, and
  to the pool are a number of workers or a refusal.
- *Folders that cannot be read.* `discover_library_folders`
  (`components/library/folder_analysis_comp.py:65`) leaves such a folder out with a
  warning, and a scan takes it for one whose files are gone. The faults of
  `LibraryScan` are queries, listings and files that fail after the walk;
  `ScanMirrorsDisk` and the theorems speak of walks that see the folders there are.
- *File watcher*: debouncing chooses when a quick scan is asked for, and `LibraryScan`
  allows it at any time. Watchdog's threads are a library's.
- *BackgroundTaskService*: the list of results and `cancel_task`, which sets an event
  the workflows never read.
- *File states*: bulk transitions and clears of whole collections, on user commands.
- *Calibration*: histograms and percentiles; its thread is the only writer of what it
  computes.
- *Inference*: numbers. *Navidrome, playlists, analytics, API, CLI, frontend*: queries,
  strings and requests over a database that the components above change.

## Plan

1. **Folders that cannot be read** as a fault of `Walk` in `LibraryScan`, with what
   the invariants of `ScanMirrorProofs` say of them.
2. **Composition** of the monitor's deadlines with the pool, to show what the default
   policy of a restarted worker costs.

## Running

    tlc -workers 2 -config fleet.cfg MC_DiscoveryFleet
    tlc -workers 2 -config migrations.cfg MC_Migrations
    tlapm LibraryScanProofs.tla

The module of each run is in `PROJECT.json`. `tlapm` is called in the same way
for each of the eight modules of proofs. The longest runs take two or three minutes, as
do the proofs of a module; those of `ScanMirrorProofs` take four.
