--------------------------- MODULE DiscoveryFleet ---------------------------
(***************************************************************************)
(* The discovery workers (services/infrastructure/workers/                 *)
(* discovery_worker.py) and what they share through the database: the      *)
(* worker_claims collection, the files and their state edges.              *)
(*                                                                         *)
(* A worker process runs a main loop (pc, file, errors) and one background *)
(* thread for the writes of the file it finished last (write).  Every      *)
(* query is a step of its own.  The parent process is reduced to what      *)
(* touches claims and processes: the death of a worker is judged, its      *)
(* claims are released, a replacement with the same worker id is started   *)
(* and the old process, if it still runs, is killed; the pool is stopped   *)
(* and started (WorkerSystem has the threads and the restart policy).      *)
(*                                                                         *)
(* Files are numbered in the order of their _key, the order of discovery.  *)
(***************************************************************************)
EXTENDS Integers, FiniteSets

CONSTANTS
    Workers,       \* number of worker ids
    Copies,        \* bound: processes with the same worker id
    Files,         \* number of files in the library
    MaxErrors,     \* MAX_CONSECUTIVE_ERRORS
    MaxFaults,     \* bound: crashes, failed queries, exhaustions, misjudgements, pauses
    Misjudges      \* whether the monitor may judge a working process dead

ASSUME FleetAssumption ==
    /\ Workers \in Nat /\ Copies \in Nat \ {0} /\ Files \in Nat /\ MaxFaults \in Nat
    /\ MaxErrors \in Nat \ {0}
    /\ Misjudges \in BOOLEAN

VARIABLES
    claim,     \* worker_claims: the worker_id of the claim on each file
    present,   \* files with a library_files document
    tagged,    \* files with the state edge "tagged"
    extracted, \* files with the state edge "vectors_extracted"
    errored,   \* files with the state edge "errored"
    stored,    \* files whose tags and statistics were saved
    skipped,   \* history: files the workflow returned without a result
    pc,        \* where the main loop of a process is
    file,      \* file_id of its iteration
    errors,    \* consecutive_errors
    write,     \* _execute_deferred_writes on the db-write thread
    current,   \* the process registered under each worker id
    doomed,    \* replaced processes that are still to be killed
    phase,     \* what the parent knows of each worker id
    stop,      \* the stop event
    faults     \* what is left of MaxFaults

states == <<present, tagged, extracted, errored, stored, skipped>>
loop   == <<pc, file, errors>>
parent == <<current, doomed, phase, stop>>
vars   == <<claim, present, tagged, extracted, errored, stored, skipped,
            pc, file, errors, write, current, doomed, phase, stop, faults>>

-----------------------------------------------------------------------------
Worker   == 1..Workers
NoWorker == 0
File     == 1..Files
NoFile   == 0

Proc   == [worker : Worker, copy : 1..Copies]
NoProc == [worker |-> NoWorker, copy |-> 0]

Quiet == [at |-> "none", file |-> NoFile]

Alive(p) == pc[p] # "gone"

\* What discover_next_untagged_file ranges over: no filter on claims, since
\* the query compares a field "status" that no claim document has.
Candidates == (present \ tagged) \ errored

\* The first in the order of keys.
First(f) == f \in Candidates /\ \A g \in Candidates : f <= g

\* The claims process p acts under: for the file of its loop, for that of its writes.
Handles(p, f) == \/ file[p] = f /\ pc[p] \in {"headroom", "process", "done", "skip", "skipped", "error",
                                          "release"}
                 \/ write[p].file = f

Fault == faults > 0 /\ faults' = faults - 1

\* Mutant of TryClaim: the claim is upserted.
MutTryClaim(w, f) == claim' = [claim EXCEPT ![f] = w]

\* try_claim_file: the document key is unique.
TryClaim(w, f) == claim[f] = NoWorker /\ claim' = [claim EXCEPT ![f] = w]

\* release_claim deletes by file key, whoever's claim it is.
ReleaseClaim(f) == claim' = [claim EXCEPT ![f] = NoWorker]

\* release_claim of a worker: a delete that fails is answered with False, which no
\* caller looks at, and the claim stays.
GiveBack(f) == \/ ReleaseClaim(f) /\ UNCHANGED faults
               \/ Fault /\ UNCHANGED claim

\* release_claims_for_worker.
ReleaseClaimsOf(w) == claim' = [f \in File |-> IF claim[f] = w THEN NoWorker ELSE claim[f]]

Goto(p, at) == pc' = [pc EXCEPT ![p] = at]

-----------------------------------------------------------------------------
(* The main loop of process p.                                             *)

\* Mutant of Discover: tagged files are offered again.
MutDiscover(p) ==
    /\ pc[p] = "poll" /\ ~stop
    /\ \E f \in present \ errored :
          /\ \A g \in present \ errored : f <= g
          /\ file' = [file EXCEPT ![p] = f]
    /\ Goto(p, "claim")
    /\ UNCHANGED <<claim, states, errors, write, parent, faults>>

\* With no candidate the worker sleeps and polls again.
Discover(p) ==
    /\ pc[p] = "poll" /\ ~stop
    /\ \E f \in File : First(f) /\ file' = [file EXCEPT ![p] = f]
    /\ Goto(p, "claim")
    /\ UNCHANGED <<claim, states, errors, write, parent, faults>>

\* A claim that exists sends the worker back to polling.
Claim(p) ==
    /\ pc[p] = "claim"
    /\ \/ /\ TryClaim(p.worker, file[p])
          /\ Goto(p, "headroom")
          /\ UNCHANGED file
       \/ /\ claim[file[p]] # NoWorker
          /\ Goto(p, "poll")
          /\ file' = [file EXCEPT ![p] = NoFile]
          /\ UNCHANGED claim
    /\ UNCHANGED <<states, errors, write, parent, faults>>

\* A query of discover_and_claim_file raises, which ends the loop.
PollFails(p) ==
    /\ pc[p] \in {"poll", "claim"}
    /\ Fault
    /\ Goto(p, "leave")
    /\ file' = [file EXCEPT ![p] = NoFile]
    /\ UNCHANGED <<claim, states, errors, write, parent>>

\* Memory is exhausted and the claim given back, in vain or not; an exception of
\* the check ends the loop.
Exhausted(p) ==
    /\ pc[p] = "headroom"
    /\ Fault
    /\ \/ (ReleaseClaim(file[p]) \/ UNCHANGED claim) /\ Goto(p, "poll")
       \/ UNCHANGED claim /\ Goto(p, "leave")
    /\ file' = [file EXCEPT ![p] = NoFile]
    /\ UNCHANGED <<states, errors, write, parent>>

\* There is memory and the document is read.  The claim is given back if it is gone
\* by now; a query that raises makes the file an errored one.
Headroom(p) ==
    /\ pc[p] = "headroom"
    /\ \/ /\ file[p] \in present
          /\ Goto(p, "process")
          /\ UNCHANGED <<claim, file, faults>>
       \/ /\ file[p] \notin present
          /\ GiveBack(file[p])
          /\ Goto(p, "poll")
          /\ file' = [file EXCEPT ![p] = NoFile]
       \/ /\ Fault
          /\ Goto(p, "error")
          /\ UNCHANGED <<claim, file>>
    /\ UNCHANGED <<states, errors, write, parent>>

\* process_file_workflow: a result with writes to defer; nothing to write (too
\* short, all heads skipped); nothing because decoding crashed, which deletes
\* the file with its state edges; or an exception.
Process(p) ==
    /\ pc[p] = "process"
    /\ \/ /\ Goto(p, "done")
          /\ UNCHANGED states
       \/ /\ Goto(p, "skip")
          /\ skipped' = skipped \cup {file[p]}
          /\ UNCHANGED <<present, tagged, extracted, errored, stored>>
       \/ /\ Goto(p, "skip")
          /\ skipped' = skipped \cup {file[p]}
          /\ present' = present \ {file[p]}
          /\ tagged' = tagged \ {file[p]}
          /\ extracted' = extracted \ {file[p]}
          /\ errored' = errored \ {file[p]}
          /\ UNCHANGED stored
       \/ /\ Goto(p, "error")
          /\ UNCHANGED states
    /\ UNCHANGED <<claim, file, errors, write, parent, faults>>

\* The previous file's writes are waited for, then this one's are handed over.
Submit(p) ==
    /\ pc[p] = "done" /\ write[p] = Quiet
    /\ write' = [write EXCEPT ![p] = [at |-> "store", file |-> file[p]]]
    /\ Goto(p, "poll")
    /\ file' = [file EXCEPT ![p] = NoFile]
    /\ errors' = [errors EXCEPT ![p] = 0]
    /\ UNCHANGED <<claim, states, parent, faults>>

\* Without a result the previous writes are waited for too; then set_tagged.
Skip(p) ==
    /\ pc[p] = "skip" /\ write[p] = Quiet
    /\ \/ /\ tagged' = tagged \cup {file[p]}
          /\ Goto(p, "skipped")
          /\ UNCHANGED faults
       \/ /\ Fault
          /\ Goto(p, "error")
          /\ UNCHANGED tagged
    /\ UNCHANGED <<claim, present, extracted, errored, stored, skipped, file, errors, write, parent>>

\* The claim of a file that was skipped is released.
Skipped(p) ==
    /\ pc[p] = "skipped"
    /\ GiveBack(file[p])
    /\ Goto(p, "poll")
    /\ file' = [file EXCEPT ![p] = NoFile]
    /\ errors' = [errors EXCEPT ![p] = 0]
    /\ UNCHANGED <<states, write, parent>>

\* Mutant of Error: the file is only logged.
MutError(p) ==
    /\ pc[p] = "error"
    /\ errors' = [errors EXCEPT ![p] = @ + 1]
    /\ Goto(p, "release")
    /\ UNCHANGED <<claim, states, file, write, parent, faults>>

\* The handler of an exception: set_errored, whose own failure is only logged.
Error(p) ==
    /\ pc[p] = "error"
    /\ \/ errored' = errored \cup {file[p]} /\ UNCHANGED faults
       \/ Fault /\ UNCHANGED errored
    /\ errors' = [errors EXCEPT ![p] = @ + 1]
    /\ Goto(p, "release")
    /\ UNCHANGED <<claim, present, tagged, extracted, stored, skipped, file, write, parent>>

\* Mutant of Release: one error too many is tolerated.
MutRelease(p) ==
    /\ pc[p] = "release"
    /\ GiveBack(file[p])
    /\ Goto(p, IF errors[p] > MaxErrors THEN "leave" ELSE "poll")
    /\ file' = [file EXCEPT ![p] = NoFile]
    /\ UNCHANGED <<states, errors, write, parent>>

\* The claim is released; too many errors in a row end the loop.
Release(p) ==
    /\ pc[p] = "release"
    /\ GiveBack(file[p])
    /\ Goto(p, IF errors[p] >= MaxErrors THEN "leave" ELSE "poll")
    /\ file' = [file EXCEPT ![p] = NoFile]
    /\ UNCHANGED <<states, errors, write, parent>>

Vanish(p) ==
    /\ Goto(p, "gone")
    /\ file' = [file EXCEPT ![p] = NoFile]
    /\ errors' = [errors EXCEPT ![p] = 0]
    /\ write' = [write EXCEPT ![p] = Quiet]

\* The loop ends on the stop event or by errors; pending writes are drained first.
Leave(p) ==
    /\ pc[p] = "leave" \/ (pc[p] = "poll" /\ stop)
    /\ write[p] = Quiet
    /\ Vanish(p)
    /\ UNCHANGED <<claim, states, parent, faults>>

-----------------------------------------------------------------------------
(* _execute_deferred_writes, on the background thread of process p.        *)

WriteGoto(p, at) == write' = [write EXCEPT ![p].at = at]

\* Mutant of WriteFails: a failure to save the tags is swallowed.
MutWriteFails(p) ==
    /\ write[p].at \in {"store", "tag", "extract"}
    /\ Fault
    /\ WriteGoto(p, IF write[p].at = "store" THEN "tag" ELSE "error")
    /\ UNCHANGED <<claim, states, loop, parent>>

\* Mutant of WriteFails: a failure to tag is swallowed.
MutTagFails(p) ==
    /\ write[p].at \in {"store", "tag", "extract"}
    /\ Fault
    /\ WriteGoto(p, IF write[p].at = "tag" THEN "extract" ELSE "error")
    /\ UNCHANGED <<claim, states, loop, parent>>

\* Any of its queries may raise.
WriteFails(p) ==
    /\ write[p].at \in {"store", "tag", "extract"}
    /\ Fault
    /\ WriteGoto(p, "error")
    /\ UNCHANGED <<claim, states, loop, parent>>

WriteStore(p) ==
    /\ write[p].at = "store"
    /\ stored' = stored \cup {write[p].file}
    /\ WriteGoto(p, "tag")
    /\ UNCHANGED <<claim, present, tagged, extracted, errored, skipped, loop, parent, faults>>

WriteTag(p) ==
    /\ write[p].at = "tag"
    /\ tagged' = tagged \cup {write[p].file}
    /\ WriteGoto(p, "extract")
    /\ UNCHANGED <<claim, present, extracted, errored, stored, skipped, loop, parent, faults>>

WriteExtracted(p) ==
    /\ write[p].at = "extract"
    /\ extracted' = extracted \cup {write[p].file}
    /\ WriteGoto(p, "release")
    /\ UNCHANGED <<claim, present, tagged, errored, stored, skipped, loop, parent, faults>>

WriteError(p) ==
    /\ write[p].at = "error"
    /\ \/ errored' = errored \cup {write[p].file} /\ UNCHANGED faults
       \/ Fault /\ UNCHANGED errored
    /\ WriteGoto(p, "release")
    /\ UNCHANGED <<claim, present, tagged, extracted, stored, skipped, loop, parent>>

\* finally: the claim is released.
WriteRelease(p) ==
    /\ write[p].at = "release"
    /\ GiveBack(write[p].file)
    /\ write' = [write EXCEPT ![p] = Quiet]
    /\ UNCHANGED <<states, loop, parent>>

-----------------------------------------------------------------------------
(* Crashes, and the parent process.                                        *)

Crash(p) ==
    /\ Alive(p)
    /\ Fault
    /\ Vanish(p)
    /\ UNCHANGED <<claim, states, parent>>

\* The monitor judges worker w dead, because its process is gone or, a hang
\* or a long garbage collection away, because it seems to be.
Judge(w) ==
    /\ phase[w] = "live"
    /\ \/ ~Alive(current[w]) /\ UNCHANGED faults
       \/ Misjudges /\ Alive(current[w]) /\ Fault
    /\ phase' = [phase EXCEPT ![w] = "dead"]
    /\ UNCHANGED <<claim, states, loop, write, current, doomed, stop>>

\* on_status_change releases the claims and schedules the restart.
OnDead(w) ==
    /\ phase[w] = "dead"
    /\ phase' = [phase EXCEPT ![w] = "restarting"]
    /\ ReleaseClaimsOf(w)
    /\ UNCHANGED <<states, loop, write, current, doomed, stop, faults>>

\* _restart_worker starts and registers a process with the same id, then turns
\* to the one it replaces.
Restart(w) ==
    /\ phase[w] = "restarting"
    /\ \E p \in Proc :
          /\ p.worker = w /\ ~Alive(p) /\ \A q \in Proc : q.worker = w /\ ~Alive(q) => p.copy <= q.copy
          /\ current' = [current EXCEPT ![w] = p]
          /\ Goto(p, "poll")
    /\ doomed' = doomed \cup ({current[w]} \cap {p \in Proc : Alive(p)})
    /\ phase' = [phase EXCEPT ![w] = "live"]
    /\ UNCHANGED <<claim, states, file, errors, write, stop, faults>>

\* join, terminate, kill: what it claimed since OnDead stays claimed.
KillReplaced(p) ==
    /\ p \in doomed
    /\ doomed' = doomed \ {p}
    /\ Vanish(p)
    /\ UNCHANGED <<claim, states, current, phase, stop, faults>>

\* stop_all_workers: workers are no longer monitored and see the stop event.
StopAll ==
    /\ ~stop
    /\ Fault
    /\ stop' = TRUE
    /\ phase' = [w \in Worker |-> "down"]
    /\ UNCHANGED <<claim, states, loop, write, current, doomed>>

\* Whoever is still there after the timeout is killed.
StopJoin ==
    /\ stop
    /\ \E p \in Proc : Alive(p)
    /\ pc' = [p \in Proc |-> "gone"]
    /\ file' = [p \in Proc |-> NoFile]
    /\ errors' = [p \in Proc |-> 0]
    /\ write' = [p \in Proc |-> Quiet]
    /\ doomed' = {}
    /\ UNCHANGED <<claim, states, current, phase, stop, faults>>

\* cleanup_all_stale_claims: a claim goes if its worker sent no heartbeat within
\* the timeout, or its file is tagged or gone.  A heartbeat is written only when
\* a worker starts, so those of the ones started last may be recent.
CleanupClaims(recent) ==
    claim' = [f \in File |-> IF claim[f] \in recent /\ f \in present \ tagged
                             THEN claim[f] ELSE NoWorker]

\* start_all_workers, after a stop.
StartAll ==
    /\ stop /\ \A p \in Proc : ~Alive(p)
    /\ stop' = FALSE
    /\ \E recent \in SUBSET Worker : CleanupClaims(recent)
    /\ current' = [w \in Worker |-> [worker |-> w, copy |-> 1]]
    /\ pc' = [p \in Proc |-> IF p.copy = 1 THEN "poll" ELSE "gone"]
    /\ phase' = [w \in Worker |-> "live"]
    /\ doomed' = {}
    /\ UNCHANGED <<states, file, errors, write, faults>>

-----------------------------------------------------------------------------
Init ==
    /\ claim = [f \in File |-> NoWorker]
    /\ present = File
    /\ tagged = {} /\ extracted = {} /\ errored = {}
    /\ stored = {} /\ skipped = {}
    /\ pc = [p \in Proc |-> IF p.copy = 1 THEN "poll" ELSE "gone"]
    /\ file = [p \in Proc |-> NoFile]
    /\ errors = [p \in Proc |-> 0]
    /\ write = [p \in Proc |-> Quiet]
    /\ current = [w \in Worker |-> [worker |-> w, copy |-> 1]]
    /\ doomed = {}
    /\ phase = [w \in Worker |-> "live"]
    /\ stop = FALSE
    /\ faults = MaxFaults

MainLoop(p) == \/ Discover(p) \/ Claim(p) \/ Headroom(p) \/ Process(p) \/ Submit(p)
               \/ Skip(p) \/ Skipped(p) \/ Error(p) \/ Release(p)
               \/ PollFails(p) \/ Exhausted(p) \/ Leave(p)

DbWrite(p) == \/ WriteFails(p) \/ WriteStore(p) \/ WriteTag(p) \/ WriteExtracted(p)
              \/ WriteError(p) \/ WriteRelease(p)

Parent(w) == \/ Judge(w) \/ OnDead(w) \/ Restart(w)
             \/ \E p \in doomed : p.worker = w /\ KillReplaced(p)

Pool == StopAll \/ StopJoin \/ StartAll

Next == \/ \E p \in Proc : \/ MainLoop(p)
                           \/ DbWrite(p)
                           \/ Crash(p)
        \/ \E w \in Worker : Parent(w)
        \/ Pool

Spec == Init /\ [][Next]_vars

\* Every process and thread makes progress while it lives, deaths are found out
\* (SilenceIsFatal of HealthMonitor) and answered (DeathIsAnswered of
\* WorkerSystem).  Nobody has to resume a stopped pool.
FairSpec == /\ Spec
            /\ \A p \in Proc : WF_vars(MainLoop(p)) /\ WF_vars(DbWrite(p))
            /\ \A w \in Worker : WF_vars(Parent(w))

-----------------------------------------------------------------------------
TypeOK ==
    /\ claim \in [File -> Worker \cup {NoWorker}]
    /\ present \subseteq File
    /\ tagged \subseteq File /\ extracted \subseteq File /\ errored \subseteq File
    /\ stored \subseteq File /\ skipped \subseteq File
    /\ pc \in [Proc -> {"gone", "poll", "claim", "headroom", "process", "done", "skip",
                        "skipped", "error", "release", "leave"}]
    /\ file \in [Proc -> File \cup {NoFile}]
    /\ errors \in [Proc -> 0..MaxErrors]
    /\ write \in [Proc -> [at : {"none", "store", "tag", "extract", "error", "release"},
                           file : File \cup {NoFile}]]
    /\ current \in [Worker -> Proc \cup {NoProc}]
    /\ doomed \subseteq Proc
    /\ phase \in [Worker -> {"live", "dead", "restarting", "down"}]
    /\ stop \in BOOLEAN
    /\ faults \in 0..MaxFaults

\* A process works on a file, in its loop or in its writes, only under a claim
\* of its own worker id, and so alone.  The claim outlives the loop's iteration,
\* is released by file key from two threads and by worker id from the parent
\* (lines 136-137, 587-628; worker_system_svc.py:252).
ClaimCoversWork ==
    \A p \in Proc, f \in File :
        Handles(p, f) => /\ claim[f] = p.worker
                         /\ \A q \in Proc : Handles(q, f) => q = p

\* "mark_tagged only runs if prior writes succeeded" (line 73): whatever
\* crashes, a file leaves the backlog as tagged only with its results stored,
\* or because the workflow had none.
TaggedIsStored == tagged \subseteq stored \cup skipped

\* "Only one worker can process a file at a time" (docs/dev/workers.md:205).
OneWorkerPerFile ==
    \A p, q \in Proc : \A f \in File : Handles(p, f) /\ Handles(q, f) => p = q

\* "exclude_claimed: If True, skip files with active worker claims"
\* (file_states_aql.py:371).
DiscoverySkipsClaimed ==
    [][\A p \in Proc :
          pc[p] = "poll" /\ pc'[p] = "claim" => claim[file'[p]] = NoWorker]_vars

\* "Clean up stale claims from previous runs before starting workers"
\* (worker_system_svc.py:512).
StartsWithoutClaims ==
    [][stop /\ ~stop' => \A f \in File : claim'[f] = NoWorker]_vars

\* A claim no process acts under.
Orphaned(f) == claim[f] # NoWorker /\ \A p \in Proc : ~Handles(p, f)

\* Only an orphaned claim starves the fleet, and only one on the file that discovery
\* offers first: while workers run, every file of the library is tagged, marked
\* errored or gone in the end, unless the first one left has a claim that nobody
\* acts under and nobody gives back (a release that failed unnoticed, one taken
\* between OnDead and the kill of its owner).  Workers that lose the race for a
\* claim, crash or run out of memory do not keep the others from finishing.
OnlyOrphansStarve ==
    <>[](Candidates = {} \/ stop \/ \E f \in File : First(f) /\ Orphaned(f))

\* Who has a file in hand: the process whose loop or whose writes are at it, under
\* a claim.  That it goes from one thread of a process to the other is not seen.
Handlers(f) == {p \in Proc : Handles(p, f)}

SoleOf(procs) == IF procs = {} THEN NoProc ELSE CHOOSE p \in procs : TRUE

HandsOn(f) == SoleOf(Handlers(f))

\* Claims, as they are taken, handed to the write thread, released by file, by
\* worker and by age, and the queries of two threads of each process come to this:
\* a file is marked only by the one process that has it in hand, results before the
\* tag and the tag before the vectors ("Order: ...", discovery_worker.py:69), and
\* no process takes a file before its last but one is given back.
FW == INSTANCE FileWork WITH
          Nobody <- NoProc,
          hands <- [f \in File |-> HandsOn(f)], known <- stored \cup skipped
ImplementsFileWork == FW!Spec
=============================================================================
