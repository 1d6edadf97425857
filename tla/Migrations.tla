----------------------------- MODULE Migrations -----------------------------
(***************************************************************************)
(* The start of the application on the database of an earlier version:     *)
(* the runner (components/platform/migration_runner_comp.py) applies what  *)
(* the stored version does not cover, V021 in the steps of its phases.     *)
(* Each query is atomic, the process may end between any two of them, and  *)
(* the next start begins again from what was stored.                       *)
(*                                                                         *)
(* One document stands for each collection that refers to another by a     *)
(* field, since a query of V021 treats all of them alike.  Left out: what  *)
(* is created if it is absent (collections, indexes, graphs, vertices), the *)
(* copied locks, the stripped payload of edges, the logging.               *)
(***************************************************************************)
EXTENDS Naturals, Sequences, FiniteSets, Functions

CONSTANTS
    Song,
    MaxCrashes      \* bound: starts that end before they are through

ASSUME MaxCrashesAssumption == MaxCrashes \in Nat

\* V001, V020, V021 and V022 in the order of their versions; version 0 is none.
Migration == 1..4
Refactor  == 3

\* The order in which V021 copies references, and drops them.
LinkOrder == <<"library_files", "library_folders", "libraries", "ml_model_outputs",
               "calibration_state", "segment_scores_stats", "vectors_track">>
DropOrder == <<"library_files", "library_folders", "ml_model_outputs",
               "calibration_state", "segment_scores_stats", "vectors_track", "libraries">>
Collection == Range(LinkOrder)

AxisOrder == <<"tagged", "too_short", "calibrated", "tags_written",
               "tags_current", "scanned", "vectors_extracted", "errored">>
Files == INSTANCE FileStates WITH Axis <- Range(AxisOrder)

MlTagged   == <<"ml_tagged", TRUE>>
Reconciled == <<"reconciled", TRUE>>
Legacy     == {MlTagged, Reconciled}

\* An old state and the states that replace it, in the order of the queries.
Repoints == <<[from |-> MlTagged,   to |-> <<Files!Is("tagged")>>],
              [from |-> Reconciled, to |-> <<Files!Is("tags_written"), Files!Is("tags_current")>>]>>

VARIABLES
    version,    \* meta: the version stored last
    records,    \* applied_migrations: the status of each record
    refers,     \* the documents whose field still refers to the other
    copies,     \* what the new collections say: "none", "right" or "blank" (all null)
    edges,      \* file_has_state: the states of each song
    at,         \* where the process is
    todo,       \* the migrations it has yet to apply
    k,          \* the position in the loop it is in
    taken,      \* the songs whose old edge it removed
    known,      \* the documents that have what they refer to
    before,     \* the edges of each song in the old database
    crashes

db   == <<version, records, refers, copies, edges>>
vars == <<db, at, todo, k, taken, known, before, crashes>>
history == <<known, before, crashes>>

Current == CHOOSE m \in todo : \A n \in todo : m <= n

\* Mutant: by name, with is_migration_applied, which finds a record that is
\* in progress as well.
MutPending == {m \in Migration : records[m] = "absent"}

\* get_pending_migrations.
Pending == {m \in Migration : m > version}

\* On to the next round of a loop of "length" rounds, or to what follows it.
MutNextRound(length, next) ==
    IF k <= length THEN k' = k + 1 /\ UNCHANGED at ELSE k' = 1 /\ at' = next
NextRound(length, next) ==
    IF k < length THEN k' = k + 1 /\ UNCHANGED at ELSE k' = 1 /\ at' = next
-----------------------------------------------------------------------------
\* prepare_database_workflow up to the list of pending migrations.
Start ==
    /\ at = "down"
    /\ at' = "next"
    /\ todo' = Pending
    /\ UNCHANGED <<db, k, taken, history>>

\* record_migration_started; an older record is overwritten.
RecordStarted ==
    /\ at = "next" /\ todo # {}
    /\ records' = [records EXCEPT ![Current] = "in_progress"]
    /\ at' = IF Current = Refactor THEN "link" ELSE "upgrade"
    /\ UNCHANGED <<version, refers, copies, edges, todo, k, taken, history>>

\* upgrade of V001, V020, V022: nothing that is modelled changes.
Upgrade ==
    /\ at = "upgrade"
    /\ at' = "record"
    /\ UNCHANGED <<db, todo, k, taken, history>>

\* mark_migration_applied.
RecordApplied ==
    /\ at = "record"
    /\ records' = [records EXCEPT ![Current] = "applied"]
    /\ at' = "version"
    /\ UNCHANGED <<version, refers, copies, edges, todo, k, taken, history>>

SetVersion ==
    /\ at = "version"
    /\ version' = Current
    /\ todo' = todo \ {Current}
    /\ at' = "next"
    /\ UNCHANGED <<records, refers, copies, edges, k, taken, history>>

\* No migration is left, and the version is not ahead of the application.
Serve ==
    /\ at = "next" /\ todo = {}
    /\ at' = "serving"
    /\ UNCHANGED <<db, todo, k, taken, history>>

\* Mutant of Link: every query upserts what the field says, as the one of the
\* scan state does.
MutLink ==
    /\ at = "link"
    /\ LET c == LinkOrder[k] IN
       copies' = [copies EXCEPT ![c] = IF c \in refers \cap known THEN "right" ELSE "blank"]
    /\ NextRound(Len(LinkOrder), "remove")
    /\ UNCHANGED <<version, records, refers, edges, todo, taken, history>>

\* Phase 4: an edge for every document that refers to a document; those that
\* exist are ignored.  The state of the last scan is written anew.
Link ==
    /\ at = "link"
    /\ LET c == LinkOrder[k] IN
       copies' = [copies EXCEPT ![c] =
                     IF c = "libraries" THEN IF c \in refers THEN "right" ELSE "blank"
                     ELSE IF c \in refers \cap known THEN "right" ELSE @]
    /\ NextRound(Len(LinkOrder), "remove")
    /\ UNCHANGED <<version, records, refers, edges, todo, taken, history>>

\* Phase 6: the edges to an old state are read, and removed.
Remove ==
    /\ at = "remove"
    /\ LET old == Repoints[k].from IN
       /\ taken' = {s \in Song : old \in edges[s]}
       /\ edges' = [s \in Song |-> edges[s] \ {old}]
    /\ at' = "insert"
    /\ UNCHANGED <<version, records, refers, copies, todo, k, history>>

\* ... and those to the states that replace it inserted, a query for each.
Insert ==
    /\ at \in {"insert", "insert_second"}
    /\ LET to   == Repoints[k].to
           i    == IF at = "insert" THEN 1 ELSE 2
           last == i = Len(to)
       IN /\ edges' = [s \in Song |-> IF s \in taken THEN edges[s] \cup {to[i]} ELSE edges[s]]
          /\ IF last
             THEN taken' = {} /\ IF k < Len(Repoints) THEN k' = k + 1 /\ at' = "remove"
                                                      ELSE k' = 1 /\ at' = "seed"
             ELSE at' = "insert_second" /\ UNCHANGED <<taken, k>>
    /\ UNCHANGED <<version, records, refers, copies, todo, history>>

\* Mutant of Seed: the pair of the axis "tags_current" the wrong way round.
MutSeed ==
    /\ at = "seed"
    /\ LET axis == AxisOrder[k] IN
       edges' = [s \in Song |->
                    IF Files!Poles(edges[s], axis) # {} THEN edges[s]
                    ELSE edges[s] \cup {IF axis = "tags_current" THEN Files!Is(axis)
                                                                 ELSE Files!IsNot(axis)}]
    /\ NextRound(Len(AxisOrder), "drop")
    /\ UNCHANGED <<version, records, refers, copies, todo, taken, history>>

\* Phase 8: the negative state where a song has no state on an axis.
Seed ==
    /\ at = "seed"
    /\ LET axis == AxisOrder[k] IN
       edges' = [s \in Song |->
                    IF Files!Poles(edges[s], axis) # {} THEN edges[s]
                    ELSE edges[s] \cup {Files!IsNot(axis)}]
    /\ NextRound(Len(AxisOrder), "drop")
    /\ UNCHANGED <<version, records, refers, copies, todo, taken, history>>

\* Phase 10: the fields are dropped, collection by collection.
Drop ==
    /\ at = "drop"
    /\ refers' = refers \ {DropOrder[k]}
    /\ NextRound(Len(DropOrder), "record")
    /\ UNCHANGED <<version, records, copies, edges, todo, taken, history>>

\* The process is killed, or a query raises and it exits.
Crash ==
    /\ at # "down" /\ crashes < MaxCrashes
    /\ crashes' = crashes + 1
    /\ at' = "down" /\ todo' = {} /\ k' = 1 /\ taken' = {}
    /\ UNCHANGED <<db, known, before>>
-----------------------------------------------------------------------------
\* A database of the time before V021, with or without a version in it.  A
\* calibration may name a model that is not registered.
Init ==
    /\ version \in {v \in Migration \cup {0} : v < Refactor}
    /\ records = [m \in Migration |-> IF m <= version THEN "applied" ELSE "absent"]
    /\ refers = Collection
    /\ copies = [c \in Collection |-> "none"]
    /\ edges \in [Song -> SUBSET (Legacy \cup {Files!Is("calibrated")})]
    /\ known \in {Collection, Collection \ {"calibration_state"}}
    /\ before = edges
    /\ at = "down" /\ todo = {} /\ k = 1 /\ taken = {}
    /\ crashes = 0

Phases == Link \/ Remove \/ Insert \/ Seed \/ Drop

Next == Start \/ RecordStarted \/ Upgrade \/ Phases \/ RecordApplied \/ SetVersion \/ Serve \/ Crash

Spec == Init /\ [][Next]_vars
-----------------------------------------------------------------------------
LoopLength ==
    CASE at = "link" -> Len(LinkOrder)
      [] at \in {"remove", "insert", "insert_second"} -> Len(Repoints)
      [] at = "seed" -> Len(AxisOrder)
      [] at = "drop" -> Len(DropOrder)
      [] OTHER -> 1

\* Types; no loop of V021 runs past its last round.
TypeOK ==
    /\ version \in 0..4
    /\ records \in [Migration -> {"absent", "in_progress", "applied"}]
    /\ refers \subseteq Collection
    /\ copies \in [Collection -> {"none", "right", "blank"}]
    /\ edges \in [Song -> SUBSET (Files!State \cup Legacy)]
    /\ at \in {"down", "next", "upgrade", "link", "remove", "insert", "insert_second",
               "seed", "drop", "record", "version", "serving"}
    /\ todo \subseteq Migration
    /\ k \in 1..LoopLength
    /\ taken \subseteq Song
    /\ known \subseteq Collection
    /\ before \in [Song -> SUBSET (Files!State \cup Legacy)]
    /\ crashes \in 0..MaxCrashes

\* Wherever V021 is interrupted, and however often it is begun again, a document
\* whose counterpart exists can be traced to it, by the old field or by the edge.
\* The state of the last scan is the exception: a second run after the field was
\* dropped overwrites it with nulls.
ReferencesKept ==
    \A c \in known :
        (c # "libraries" \/ crashes = 0) => c \in refers \/ copies[c] = "right"

\* A stored version stands for finished migrations: from the version of V021 on
\* every record up to it says applied, no field or old state is left, and every
\* song has just one state on each axis, whatever interrupted the starts before.
RecordedIsDone ==
    /\ \A m \in Migration : m <= version => records[m] = "applied"
    /\ version >= Refactor =>
           /\ refers = {}
           /\ \A s \in Song :
                  /\ edges[s] \cap Legacy = {}
                  /\ \A axis \in Range(AxisOrder) : Cardinality(Files!Poles(edges[s], axis)) = 1

\* An interrupted migration may cost work that is done again, but never claims
\* work that was not done: every positive state of a song was one in the old
\* database, under its old name or its new one.
NoFalseProgress ==
    \A s \in Song : \A state \in edges[s] \ before[s] :
        state[2] => \E i \in DOMAIN Repoints :
                        /\ Repoints[i].from \in before[s]
                        /\ state \in Range(Repoints[i].to)
=============================================================================
