--------------------------- MODULE VectorPromotion ---------------------------
(***************************************************************************)
(* The vectors of one backbone and library: workers write them to the hot  *)
(* collection (persistence/database/vectors_track_aql.py), promotion moves *)
(* them to the cold one, which has the index that search needs             *)
(* (workflows/platform/promote_and_rebuild_vectors_wf.py,                  *)
(* idle_promotion_vectors_wf.py, rebuild_vector_index_wf.py).              *)
(*                                                                         *)
(* A worker process has a main loop that writes vectors and, while it is   *)
(* idle, a thread that promotes under a lock of the worker's id.  The API  *)
(* process promotes and rebuilds on request, without the lock.  Queries    *)
(* are steps of their own.  A vector is the number of the write that made  *)
(* it, 0 stands for no document.                                           *)
(***************************************************************************)
EXTENDS Naturals, Locks

CONSTANTS
    File,        \* the files of the library
    Worker,      \* worker ids
    Api,         \* the API process
    MaxWrites,   \* bound: vectors written per file
    MaxFaults    \* bound: crashes and failed queries

ASSUME PromotionAssumption ==
    /\ MaxWrites \in Nat \ {0} /\ MaxFaults \in Nat
    /\ Api \notin Worker
    /\ NoLock \notin [holder : Worker, age : {"fresh", "stale", "expired"}]

VARIABLES
    hot,        \* vectors_track_hot: the vector of each file
    cold,       \* vectors_track_cold
    created,    \* whether the cold collection exists
    index,      \* whether it has its vector index
    edges,      \* file_has_vectors: from a file to its document in a collection
    lock,       \* the vector_promotion lock of this backbone and library
    pc,         \* where a promotion, or a rebuild, is
    suppressed, \* promotion_suppressed of each worker
    linking,    \* files whose vector the worker wrote and whose edge it did not
    faults,     \* what is left of MaxFaults
    latest,     \* history: the last vector written
    raced,      \* history: files written between a copy and the truncation after it
    overrun,    \* history: some lock went stale
    lost        \* history: a promotion or rebuild broke off and no index was built since

store == <<hot, cold, created, index, edges>>
hist  == <<latest, raced, overrun, lost>>
vars  == <<hot, cold, created, index, edges, lock, pc, suppressed, linking, faults,
           latest, raced, overrun, lost>>

-----------------------------------------------------------------------------
Proc == Worker \cup {Api}

\* From the reading of the counts to the end of the workflow.
Section == {"inspect", "drop", "drain", "copy", "relink", "truncate", "verify", "build"}

Inside(p) == pc[p] \in Section \cup {"redrop"}

Hot == {f \in File : hot[f] # 0}

Goto(p, at) == pc' = [pc EXCEPT ![p] = at]

\* Mutant of Finish: the API, too, is left with a lock to release.
MutFinish(p, result) == pc' = [pc EXCEPT ![p] = result]

\* The workflow returns or raises: a worker releases its lock next, the API answers.
Finish(p, result) ==
    pc' = [pc EXCEPT ![p] = IF p = Api THEN "idle" ELSE result]

Fault == faults > 0 /\ faults' = faults - 1

-----------------------------------------------------------------------------
(* upsert_vector, by the main loop of worker w.                            *)

\* Work resets promotion_suppressed.  Only one worker writes for a file.
Upsert(w, f) ==
    /\ pc[w] # "gone" /\ \A v \in Worker : f \notin linking[v]
    /\ linking[w] = {}
    /\ latest[f] < MaxWrites
    /\ latest' = [latest EXCEPT ![f] = @ + 1]
    /\ hot' = [hot EXCEPT ![f] = latest[f] + 1]
    /\ linking' = [linking EXCEPT ![w] = {f}]
    /\ suppressed' = [suppressed EXCEPT ![w] = FALSE]
    /\ raced' = IF \E p \in Proc : pc[p] \in {"relink", "truncate"}
                THEN raced \cup {f} ELSE raced \ {f}
    /\ UNCHANGED <<cold, created, index, edges, lock, pc, faults, overrun, lost>>

Link(w) ==
    /\ \E f \in linking[w] : edges' = edges \cup {<<f, "hot">>}
    /\ linking' = [linking EXCEPT ![w] = {}]
    /\ UNCHANGED <<hot, cold, created, index, lock, pc, suppressed, faults, hist>>

-----------------------------------------------------------------------------
(* idle_promotion_vectors_workflow, on the promotion thread of worker w.   *)

\* list_hot_vector_targets; nothing promoted suppresses the next attempts.
Look(w) ==
    /\ pc[w] = "idle" /\ ~suppressed[w]
    /\ \/ Hot # {} /\ Goto(w, "stale") /\ UNCHANGED suppressed
       \/ /\ Hot = {}
          /\ suppressed' = [suppressed EXCEPT ![w] = TRUE]
          /\ UNCHANGED pc
    /\ UNCHANGED <<store, lock, linking, faults, hist>>

\* get_stale_locks.
ReadStale(w) ==
    /\ pc[w] = "stale"
    /\ Goto(w, IF Stale(lock) THEN "reap" ELSE "acquire")
    /\ UNCHANGED <<store, lock, suppressed, linking, faults, hist>>

\* force_release of what was listed, whoever's lock it is by now.
Reap(w) ==
    /\ pc[w] = "reap"
    /\ lock' = NoLock
    /\ Goto(w, "acquire")
    /\ UNCHANGED <<store, suppressed, linking, faults, hist>>

\* Mutant of Acquire: the holder is not compared.
MutAcquire(w) ==
    /\ pc[w] = "acquire"
    /\ lock' = Locked(w) /\ Goto(w, "inspect") /\ UNCHANGED suppressed
    /\ UNCHANGED <<store, linking, faults, hist>>

\* try_acquire; a held lock means nothing promoted.
Acquire(w) ==
    /\ pc[w] = "acquire"
    /\ \/ /\ Acquirable(lock, w)
          /\ lock' = Locked(w)
          /\ Goto(w, "inspect")
          /\ UNCHANGED suppressed
       \/ /\ ~Acquirable(lock, w)
          /\ Goto(w, "idle")
          /\ suppressed' = [suppressed EXCEPT ![w] = TRUE]
          /\ UNCHANGED lock
    /\ UNCHANGED <<store, linking, faults, hist>>

\* finally: the lock is released; a promotion that failed counts as none.
Release(w) ==
    /\ pc[w] \in {"promoted", "failed"}
    /\ lock' = Released(lock, w)
    /\ suppressed' = [suppressed EXCEPT ![w] = @ \/ pc[w] = "failed"]
    /\ Goto(w, "idle")
    /\ UNCHANGED <<store, linking, faults, hist>>

-----------------------------------------------------------------------------
(* promote_and_rebuild_workflow, by a worker or the API.                   *)

\* The endpoints.  rebuild_cold_vector_index needs the cold collection.
Request ==
    /\ pc[Api] = "idle"
    /\ \/ Goto(Api, "inspect")
       \/ created /\ Goto(Api, "redrop")
    /\ UNCHANGED <<store, lock, suppressed, linking, faults, hist>>

\* The counts are read; with nothing to move and an index there is nothing to do.
Inspect(p) ==
    /\ pc[p] = "inspect"
    /\ \/ Hot = {} /\ index /\ Finish(p, "promoted")
       \/ (Hot # {} \/ ~index) /\ Goto(p, IF index THEN "drop" ELSE "drain")
    /\ UNCHANGED <<store, lock, suppressed, linking, faults, hist>>

\* drop_cold_vector_index.
Drop(p) ==
    /\ pc[p] \in {"drop", "redrop"}
    /\ index' = FALSE
    /\ Goto(p, IF pc[p] = "drop" THEN "drain" ELSE "build")
    /\ UNCHANGED <<hot, cold, created, edges, lock, suppressed, linking, faults, hist>>

\* Mutant of Drain: with nothing left to move the workflow returns.
MutDrain(p) ==
    /\ pc[p] = "drain"
    /\ created' = TRUE
    /\ IF Hot = {} THEN Finish(p, "promoted") ELSE Goto(p, "copy")
    /\ UNCHANGED <<hot, cold, index, edges, lock, suppressed, linking, faults, hist>>

\* drain_hot_to_cold creates the collection and counts.
Drain(p) ==
    /\ pc[p] = "drain"
    /\ created' = TRUE
    /\ Goto(p, IF Hot = {} THEN "verify" ELSE "copy")
    /\ UNCHANGED <<hot, cold, index, edges, lock, suppressed, linking, faults, hist>>

\* Mutant of Copy: documents that exist in cold are kept.
MutCopy(p) ==
    /\ pc[p] = "copy"
    /\ cold' = [f \in File |-> IF f \in Hot /\ cold[f] = 0 THEN hot[f] ELSE cold[f]]
    /\ Goto(p, "relink")
    /\ UNCHANGED <<hot, created, index, edges, lock, suppressed, linking, faults, hist>>

\* The UPSERT from hot to cold.
Copy(p) ==
    /\ pc[p] = "copy"
    /\ cold' = [f \in File |-> IF f \in Hot THEN hot[f] ELSE cold[f]]
    /\ Goto(p, "relink")
    /\ UNCHANGED <<hot, created, index, edges, lock, suppressed, linking, faults, hist>>

\* The migration of the edges finds the file of a cold document along an edge
\* to that document.
Relink(p) ==
    /\ pc[p] = "relink"
    /\ edges' = edges \ {<<f, "hot">> : f \in {g \in File : cold[g] # 0 /\ <<g, "cold">> \in edges}}
    /\ Goto(p, "truncate")
    /\ UNCHANGED <<hot, cold, created, index, lock, suppressed, linking, faults, hist>>

Truncate(p) ==
    /\ pc[p] = "truncate"
    /\ hot' = [f \in File |-> 0]
    /\ Goto(p, "verify")
    /\ UNCHANGED <<cold, created, index, edges, lock, suppressed, linking, faults, hist>>

\* verify_hot_empty raises when vectors were written meanwhile.
Verify(p) ==
    /\ pc[p] = "verify"
    /\ \/ Hot = {} /\ Goto(p, "build") /\ UNCHANGED lost
       \/ Hot # {} /\ Finish(p, "failed") /\ lost' = TRUE
    /\ UNCHANGED <<store, lock, suppressed, linking, faults, latest, raced, overrun>>

\* build_cold_vector_index.
Build(p) ==
    /\ pc[p] = "build"
    /\ index' = TRUE
    /\ lost' = FALSE
    /\ Finish(p, "promoted")
    /\ UNCHANGED <<hot, cold, created, edges, lock, suppressed, linking, faults,
                   latest, raced, overrun>>

\* A query of the workflow raises.
QueryFails(p) ==
    /\ Inside(p)
    /\ Fault
    /\ Finish(p, "failed")
    /\ lost' = TRUE
    /\ UNCHANGED <<store, lock, suppressed, linking, latest, raced, overrun>>

-----------------------------------------------------------------------------
(* The worker process dies, whatever its threads do, and is replaced; time *)
(* passes.                                                                 *)

Crash(w) ==
    /\ pc[w] # "gone"
    /\ Fault
    /\ Goto(w, "gone")
    /\ lost' = (lost \/ Inside(w))
    /\ linking' = [linking EXCEPT ![w] = {}]
    /\ suppressed' = [suppressed EXCEPT ![w] = FALSE]
    /\ UNCHANGED <<store, lock, latest, raced, overrun>>

Restart(w) ==
    /\ pc[w] = "gone"
    /\ Goto(w, "idle")
    /\ UNCHANGED <<store, lock, suppressed, linking, faults, hist>>

Age ==
    /\ lock # NoLock /\ lock.age # "expired"
    /\ lock' = Older(lock)
    /\ overrun' = TRUE
    /\ UNCHANGED <<store, pc, suppressed, linking, faults, latest, raced, lost>>

-----------------------------------------------------------------------------
\* Vectors that a schema migration found in the cold collection have their edges.
Init ==
    /\ hot = [f \in File |-> 0]
    /\ \E old \in SUBSET File :
          /\ cold = [f \in File |-> IF f \in old THEN 1 ELSE 0]
          /\ edges = old \X {"cold"}
          /\ created = (old # {}) /\ index = (old # {})
    /\ latest = cold
    /\ lock = NoLock
    /\ pc = [p \in Proc |-> "idle"]
    /\ suppressed = [w \in Worker |-> FALSE]
    /\ linking = [w \in Worker |-> {}]
    /\ faults = MaxFaults
    /\ raced = {} /\ overrun = FALSE /\ lost = FALSE

Promote(p) == \/ Inspect(p) \/ Drop(p) \/ Drain(p) \/ Copy(p) \/ Relink(p) \/ Truncate(p)
              \/ Verify(p) \/ Build(p) \/ QueryFails(p)

IdleThread(w) == Look(w) \/ ReadStale(w) \/ Reap(w) \/ Acquire(w) \/ Release(w)

Next == \/ \E w \in Worker : \/ \E f \in File : Upsert(w, f)
                             \/ Link(w) \/ IdleThread(w)
                             \/ Crash(w) \/ Restart(w)
        \/ \E p \in Proc : Promote(p)
        \/ Request
        \/ Age

Spec == Init /\ [][Next]_vars

-----------------------------------------------------------------------------
TypeOK ==
    /\ hot \in [File -> 0..MaxWrites] /\ cold \in [File -> 0..MaxWrites]
    /\ latest \in [File -> 0..MaxWrites]
    /\ created \in BOOLEAN /\ index \in BOOLEAN
    /\ edges \subseteq File \X {"hot", "cold"}
    /\ lock \in Lock(Worker)
    /\ pc \in [Proc -> Section \cup {"idle", "stale", "reap", "acquire", "redrop",
                                     "promoted", "failed", "gone"}]
    /\ pc[Api] \in Section \cup {"idle", "redrop"}
    /\ suppressed \in [Worker -> BOOLEAN]
    /\ linking \in [Worker -> SUBSET File]
    /\ faults \in 0..MaxFaults
    /\ raced \subseteq File /\ overrun \in BOOLEAN /\ lost \in BOOLEAN

\* "Convergent + idempotent operation ... Safe to run multiple times"
\* (promote_and_rebuild_vectors_wf.py:39): however many promotions overlap,
\* whichever of them break off and whatever lock they lost, the newest vector of
\* a file is in one of the collections, unless it was written after a drain took
\* its copy and before it truncated the hot collection.
VectorKept ==
    \A f \in File \ raced : latest[f] # 0 => latest[f] \in {hot[f], cold[f]}

\* "Prevents concurrent promotions per backbone+library" (locks_aql.py:28), of
\* the idle workers among themselves, and as long as no lock gets older than
\* the ten minutes after which it is taken from its holder (lines 68-70).
Exclusive ==
    ~overrun => \A v, w \in Worker : Inside(v) /\ Inside(w) => v = w

\* A promotion drops the index first and builds it last.  When all of them are
\* over, promoted vectors can be searched, however promotions and rebuilds of
\* the API and the workers overlapped: only one that broke off leaves none.
IndexRestored ==
    (\A p \in Proc : ~Inside(p)) /\ (\E f \in File : cold[f] # 0) /\ ~lost => index

\* "Migrate file_has_vectors edges from hot -> cold"
\* (ml_vector_maintenance_comp.py:129): when a drain has moved the edges, a file
\* that had one to its hot vector has one to the cold vector and none to the hot
\* one, which is truncated next.  A lookup by file goes along that edge ("Direct
\* get-by-id operations check cold first for promoted vectors",
\* docs/dev/vector-stores.md:27).
PromotedIsFound ==
    [][\A f \in File :
          /\ \E p \in Proc : pc[p] = "relink" /\ pc'[p] = "truncate"
          /\ <<f, "hot">> \in edges /\ cold[f] # 0
          => <<f, "cold">> \in edges' /\ <<f, "hot">> \notin edges']_vars
=============================================================================
