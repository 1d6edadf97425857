----------------------------- MODULE LibraryScan -----------------------------
(***************************************************************************)
(* Scans of one library (workflows/library/scan_library_full_wf.py and     *)
(* scan_library_quick_wf.py): how the documents of its files follow the    *)
(* files on disk, while files are changed and the worker tags.             *)
(*                                                                         *)
(* A song is a file by its content, wherever it is; a path is a song in a  *)
(* folder.  Times of modification are kept as what they are compared for:  *)
(* whether what the database has is that of the disk.  A query is a step;  *)
(* consecutive reads nobody else can tell apart are one.                   *)
(***************************************************************************)
EXTENDS Naturals, FileStates

CONSTANTS
    Song, Folder,
    Under,        \* the folders below each folder
    Short,        \* songs too short for the models
    Requester,    \* who starts scans: the event loop, the thread that polls
    NoDoc, NoFolder,
    MaxChanges,   \* bound: changes on disk
    MaxFaults     \* bound: failed queries and reads, crashes

ASSUME ScanAssumption ==
    /\ Under \in [Folder -> SUBSET Folder]
    /\ Short \subseteq Song
    /\ NoFolder \notin Folder
    /\ NoDoc \notin [current : BOOLEAN, print : BOOLEAN, edges : SUBSET State]
    /\ Axis = {"tagged", "scanned", "errored"}
    /\ MaxChanges \in Nat /\ MaxFaults \in Nat

VARIABLES
    at,       \* disk: the folder of each song
    doc,      \* library_files and file_has_state: the document of each path
    cache,    \* library_folders: "none", or whether the time is the folder's
    status,   \* scan_status of the library
    ask,      \* where each requester is
    synced,   \* whether sync_watchers ran since the start
    scan,     \* the thread of the scan
    changes, faults,   \* what is left of the bounds
    calm,     \* history: nothing changed on disk since the scan read the folders
    bound     \* history: songs with one document, tagged, when it did

disk    == <<at, changes>>
service == <<status, ask, synced>>
history == <<calm, bound>>
vars    == <<at, doc, cache, status, ask, synced, scan, changes, faults, calm, bound>>

-----------------------------------------------------------------------------
Path   == Song \X Folder
OnDisk == {path \in Path : at[path[1]] = path[2]}
InDb   == {path \in Path : doc[path] # NoDoc}

Docs(song) == {path \in InDb : path[1] = song}

\* get_files_for_folder: every path that starts with that of the folder.
Below(folder) == {path \in InDb : path[2] \in {folder} \cup Under[folder]}

Tagged(path) == path \in InDb /\ Is("tagged") \in doc[path].edges

\* The scan that is running is not left alone.
Disturb == calm' = FALSE /\ bound' = {}

\* Something fails that the code expects to fail, at most MaxFaults times.
Fault == faults > 0 /\ faults' = faults - 1 /\ Disturb

\* A thread of a scan that has read nothing yet, or none.
Thread(kind, step) ==
    [kind |-> kind, at |-> step, todo |-> {}, found |-> {}, seen |-> {}, folder |-> NoFolder,
     again |-> FALSE, hasTagged |-> FALSE, missing |-> {}, prints |-> {}, fresh |-> {},
     unmatched |-> {}, batch |-> {}, then |-> "none", outdated |-> {}]

NoThread == Thread("none", "none")

Running == scan # NoThread

Goto(step) == scan' = [scan EXCEPT !.at = step]

-----------------------------------------------------------------------------
(* The disk.                                                               *)

\* A song appears, goes to another folder or disappears: both folders get a
\* new time of modification.
Change(song, to) ==
    /\ changes > 0 /\ changes' = changes - 1
    /\ to # at[song]
    /\ at' = [at EXCEPT ![song] = to]
    /\ cache' = [folder \in Folder |-> IF folder \in {to, at[song]} /\ cache[folder] = "match"
                                       THEN "old" ELSE cache[folder]]
    /\ scan' = [scan EXCEPT !.seen = @ \ {to, at[song]}]
    /\ Disturb
    /\ UNCHANGED <<doc, service, faults>>

\* A file is changed where it is, its folder is not.
Edit(song) ==
    /\ changes > 0 /\ changes' = changes - 1
    /\ at[song] # NoFolder
    /\ doc' = [path \in Path |-> IF path \in Docs(song) THEN [doc[path] EXCEPT !.current = FALSE]
                                 ELSE doc[path]]
    /\ scan' = [scan EXCEPT !.outdated = IF Running THEN @ \cup {song} ELSE {}]
    /\ Disturb
    /\ UNCHANGED <<at, cache, service, faults>>

-----------------------------------------------------------------------------
(* The discovery worker, in one step: discover_next_untagged_file, the     *)
(* chromaprint, set_tagged, and set_errored when something raised.         *)

Untagged(path) ==
    /\ path \in InDb
    /\ IsNot("tagged") \in doc[path].edges
    /\ Is("errored") \notin doc[path].edges

Work(path) ==
    /\ Untagged(path)
    /\ \E edges \in Transitioned(doc[path].edges, Is("tagged")) :
          doc' = [doc EXCEPT ![path] = [@ EXCEPT !.print = TRUE, !.edges = edges]]
    /\ UNCHANGED <<disk, cache, service, scan, faults, history>>

\* Because the audio could not be read, or set_tagged raised.
WorkFails(path) ==
    /\ Untagged(path)
    /\ \E edges \in Transitioned(doc[path].edges, Is("errored")) :
          doc' = [doc EXCEPT ![path].edges = edges]
    /\ UNCHANGED <<disk, cache, service, scan, faults, history>>

-----------------------------------------------------------------------------
(* start_quick_scan, start_full_scan.                                      *)

\* scan_setup_workflow reads the status.
Ask(r, kind) ==
    /\ ask[r] = "idle" /\ status # "scanning"
    /\ ask' = [ask EXCEPT ![r] = kind]
    /\ UNCHANGED <<disk, doc, cache, status, synced, scan, faults, history>>

SetScanning(r) ==
    /\ ask[r] \in {"quick", "full"}
    /\ status' = "scanning"
    /\ ask' = [ask EXCEPT ![r] = IF @ = "quick" THEN "start quick" ELSE "start full"]
    /\ UNCHANGED <<disk, doc, cache, synced, scan, faults, history>>

\* start_task raises if the thread of the last scan lives: the status stays.
Start(r) ==
    /\ ask[r] \in {"start quick", "start full"}
    /\ ask' = [ask EXCEPT ![r] = "idle"]
    /\ scan' = IF Running THEN scan
               ELSE Thread(IF ask[r] = "start quick" THEN "quick" ELSE "full", "validate")
    /\ UNCHANGED <<disk, doc, cache, status, synced, faults, history>>

\* The server stops; sync_watchers resets the status when it is back.
Crash ==
    /\ Fault
    /\ scan' = NoThread
    /\ ask' = [r \in Requester |-> "idle"]
    /\ synced' = FALSE
    /\ UNCHANGED <<disk, doc, cache, status>>

Sync ==
    /\ ~synced
    /\ synced' = TRUE
    /\ status' = IF status = "scanning" THEN "idle" ELSE status
    /\ UNCHANGED <<disk, doc, cache, ask, scan, faults, history>>

-----------------------------------------------------------------------------
(* The thread: scan_library_full_workflow, scan_library_quick_workflow.    *)

\* validate_library_root comes before the "try": its exception ends the thread.
Validate ==
    /\ scan.at = "validate"
    /\ \/ Goto("walk") /\ UNCHANGED <<faults, history>>
       \/ Fault /\ scan' = NoThread
    /\ UNCHANGED <<disk, doc, cache, service>>

\* The folders with files, and the documents of folders that have a record and
\* no files.  A quick scan skips the folders whose record matches.
Walk ==
    /\ scan.at = "walk"
    /\ LET found    == {at[song] : song \in Song} \ {NoFolder}
           vanished == {folder \in Folder \ found : cache[folder] # "none"}
           gone     == UNION {Below(folder) : folder \in vanished}
       IN  scan' = [scan EXCEPT !.at = "folder",
                                !.todo = {folder \in found : scan.kind = "full" \/ cache[folder] # "match"},
                                !.found = found, !.seen = found,
                                !.hasTagged = \E path \in Path : Tagged(path),
                                !.missing = gone,
                                !.prints = {path \in gone : doc[path].print}]
    /\ calm' = TRUE
    /\ bound' = {song \in Song : \E path \in Path :
                   Docs(song) = {path} /\ Tagged(path) /\ doc[path].print /\ cache[path[2]] # "none"}
    /\ UNCHANGED <<disk, doc, cache, service, faults>>

\* The next folder, from above, or the same one again: its documents, its files, and which of
\* them to read.  A folder that cannot be listed counts as empty; a file that
\* cannot be read is left as it is.
List(folder) ==
    /\ \/ scan.at = "folder" /\ folder \in scan.todo /\ \A above \in scan.todo : folder \notin Under[above]
       \/ scan.at = "list" /\ folder = scan.folder
    /\ \E listed, unread \in SUBSET Song :
          LET there   == {song \in Song : at[song] = folder}
              known   == Below(folder)
              gone    == known \ (listed \X {folder})
              updated == {path \in known : path[1] \in listed \ unread /\ path[2] = folder /\ ~doc[path].current}
          IN  /\ \/ listed = there /\ unread = {} /\ UNCHANGED <<faults, history>>
                 \/ listed = {} /\ unread = {} /\ there # {} /\ Fault
                 \/ listed = there /\ unread # {} /\ unread \subseteq there /\ Fault
              /\ scan' = [scan EXCEPT !.at = IF updated = {} THEN "moves" ELSE "upsert",
                                      !.folder = folder,
                                      !.missing = @ \cup gone,
                                      !.prints = @ \cup {path \in gone : doc[path].print},
                                      !.fresh = {song \in listed \ unread : <<song, folder>> \notin known},
                                      !.batch = updated,
                                      !.then = "moves",
                                      !.outdated = @ \ listed]
    /\ UNCHANGED <<disk, doc, cache, service>>

\* upsert_batch, the documents and their edges to the library.
Upsert ==
    /\ scan.at = "upsert"
    /\ doc' = [path \in Path |->
                  LET current == path[1] \notin scan.outdated
                  IN  IF path \notin scan.batch THEN doc[path]
                      ELSE IF path \in InDb THEN [doc[path] EXCEPT !.current = current]
                      ELSE [current |-> current, print |-> FALSE, edges |-> {}]]
    /\ Goto("init")
    /\ UNCHANGED <<disk, cache, service, faults, history>>

\* upsert_batch, initialize_file_states_batch: of all it upserted.
Initialize ==
    /\ scan.at = "init"
    /\ doc' = [path \in Path |-> IF path \in scan.batch
                                 THEN [doc[path] EXCEPT !.edges = Initialized(@)] ELSE doc[path]]
    /\ Goto("short")
    /\ UNCHANGED <<disk, cache, service, faults, history>>

\* What the thread does when something raises: the folder is tried twice, then
\* skipped.  Outside of a folder the scan is over; the status is set.
Raise ==
    IF scan.folder = NoFolder
    THEN scan' = Thread(scan.kind, "error")
    ELSE scan' = [scan EXCEPT !.at = IF scan.again THEN "folder" ELSE "list",
                              !.again = ~@, !.batch = {}, !.fresh = {},
                              !.todo = IF scan.again THEN @ \ {scan.folder} ELSE @,
                              !.folder = IF scan.again THEN NoFolder ELSE @]

\* bootstrap_file_state_edges: set_tagged, file by file, for what is too short for
\* the models.
Bootstrap ==
    /\ scan.at = "short"
    /\ LET short      == {path \in scan.batch : path[1] \in Short}
           next(path) == Transitioned(doc[path].edges, Is("tagged"))
       IN  \E done \in SUBSET short : \E edges \in [done -> UNION {next(path) : path \in done}] :
              /\ \A path \in done : edges[path] \in next(path)
              /\ doc' = [path \in Path |-> IF path \in done THEN [doc[path] EXCEPT !.edges = edges[path]]
                                          ELSE doc[path]]
              /\ \/ done = short /\ Goto("scanned")
                 \/ (\E path \in short \ done : MayRaise(doc[path].edges, Is("tagged"))) /\ Raise
    /\ UNCHANGED <<disk, cache, service, faults, history>>

\* bulk_set_scanned, bulk_set_not_errored: one query for the batch each.
Mark(step, from, next) ==
    /\ scan.at = step
    /\ IF \E path \in scan.batch : BulkRaises(doc[path].edges, from)
       THEN Raise /\ UNCHANGED doc
       ELSE /\ doc' = [path \in Path |-> IF path \in scan.batch
                                         THEN [doc[path] EXCEPT !.edges = BulkSet(@, from)]
                                         ELSE doc[path]]
            /\ scan' = [scan EXCEPT !.at = next, !.batch = IF step = "unerror" THEN {} ELSE @]
    /\ UNCHANGED <<disk, cache, service, faults, history>>

MarkScanned   == Mark("scanned", IsNot("scanned"), "unerror")
MarkUnerrored == Mark("unerror", Is("errored"), scan.then)

\* Mutant of Match: the document stays in the list of those to match.
MutMatch(old, new) ==
    /\ scan.hasTagged
    /\ old \in scan.prints /\ new \in OnDisk /\ old[1] = new[1]
    /\ scan' = [scan EXCEPT !.missing = @ \ {old},
                            !.fresh = IF scan.at = "moves" THEN @ \ {new[1]} ELSE @,
                            !.unmatched = IF scan.at = "final" THEN @ \ {new} ELSE @]
    /\ doc' = [path \in Path |->
                  IF old \notin InDb THEN doc[path]
                  ELSE IF path = new THEN [doc[old] EXCEPT !.current = new[1] \notin scan.outdated]
                  ELSE IF path = old THEN NoDoc ELSE doc[path]]
    /\ UNCHANGED <<disk, cache, service, faults, history>>

\* apply_detected_moves, one document: a missing one with the chromaprint of a
\* new file gets its path.
Match(old, new) ==
    /\ scan.hasTagged
    /\ old \in scan.prints /\ new \in OnDisk /\ old[1] = new[1]
    /\ scan' = [scan EXCEPT !.missing = @ \ {old}, !.prints = @ \ {old},
                            !.fresh = IF scan.at = "moves" THEN @ \ {new[1]} ELSE @,
                            !.unmatched = IF scan.at = "final" THEN @ \ {new} ELSE @]
    /\ doc' = [path \in Path |->
                  IF old \notin InDb THEN doc[path]
                  ELSE IF path = new THEN [doc[old] EXCEPT !.current = new[1] \notin scan.outdated]
                  ELSE IF path = old THEN NoDoc ELSE doc[path]]
    /\ UNCHANGED <<disk, cache, service, faults, history>>

New == IF scan.at = "moves" THEN {<<song, scan.folder>> : song \in scan.fresh} ELSE scan.unmatched

Matches == {old \in scan.prints : scan.hasTagged /\ \E new \in New : old[1] = new[1] /\ new \in OnDisk}

Move ==
    /\ scan.at \in {"moves", "final"}
    /\ \E old \in Matches, new \in New : Match(old, new)

\* A chromaprint that cannot be computed matches nothing.
Unmatched == IF Matches = {} THEN UNCHANGED <<faults, history>> ELSE Fault

\* What is new and no move: to be matched again later, or, as nothing in the
\* library is tagged, to be added.
NoMoreMoves ==
    /\ scan.at = "moves" /\ Unmatched
    /\ scan' = IF scan.hasTagged \/ scan.fresh = {}
               THEN [scan EXCEPT !.at = "save", !.unmatched = @ \cup New]
               ELSE [scan EXCEPT !.at = "upsert", !.batch = New, !.then = "save"]
    /\ UNCHANGED <<disk, doc, cache, service>>

\* Mutant of Save: with the time the folder has now.
MutSave ==
    /\ scan.at = "save"
    /\ cache' = [cache EXCEPT ![scan.folder] = "match"]
    /\ scan' = [scan EXCEPT !.at = "folder", !.todo = @ \ {scan.folder}, !.folder = NoFolder,
                            !.again = FALSE, !.fresh = {}]
    /\ UNCHANGED <<disk, doc, service, faults, history>>

\* save_folder_record, with the time that discover_library_folders read.
Save ==
    /\ scan.at = "save"
    /\ cache' = [cache EXCEPT ![scan.folder] = IF scan.folder \in scan.seen THEN "match" ELSE "old"]
    /\ scan' = [scan EXCEPT !.at = "folder", !.todo = @ \ {scan.folder}, !.seen = @ \ {scan.folder},
                            !.folder = NoFolder, !.again = FALSE, !.fresh = {}]
    /\ UNCHANGED <<disk, doc, service, faults, history>>

FoldersDone ==
    /\ scan.at = "folder" /\ scan.todo = {}
    /\ scan' = [scan EXCEPT !.at = "final", !.again = FALSE, !.seen = {}]
    /\ UNCHANGED <<disk, doc, cache, service, faults, history>>

\* Mutants of Final: what matched nothing is not added; the second pass over it
\* is left out.
MutFinalDrops ==
    /\ scan.at = "final" /\ Unmatched
    /\ scan' = [scan EXCEPT !.at = "remove", !.unmatched = {}]
    /\ UNCHANGED <<disk, doc, cache, service>>

MutFinalOnePass ==
    /\ scan.at = "final"
    /\ scan' = [scan EXCEPT !.at = IF scan.unmatched = {} THEN "remove" ELSE "upsert",
                            !.batch = scan.unmatched, !.unmatched = {}, !.then = "remove"]
    /\ UNCHANGED <<disk, doc, cache, service, faults, history>>

\* The second pass over what matched nothing, then what still does is added.
Final ==
    /\ scan.at = "final" /\ Unmatched
    /\ scan' = [scan EXCEPT !.at = IF scan.unmatched = {} THEN "remove" ELSE "upsert",
                            !.batch = scan.unmatched, !.unmatched = {}, !.then = "remove"]
    /\ UNCHANGED <<disk, doc, cache, service>>

\* remove_deleted_files: what is missing, by path.
Remove ==
    /\ scan.at = "remove"
    /\ doc' = [path \in Path |-> IF path \in scan.missing THEN NoDoc ELSE doc[path]]
    /\ scan' = [Thread(scan.kind, "tidy") EXCEPT !.found = scan.found]
    /\ UNCHANGED <<disk, cache, service, faults, history>>

\* cleanup_stale_folders; what it raises is only logged.  The thread goes on to
\* validate_library_tags_workflow and validate_unchanged_files (a full scan), whose
\* queries ask for a library_id that no document has: they find nothing.
Tidy ==
    /\ scan.at = "tidy"
    /\ \/ /\ cache' = [folder \in Folder |-> IF folder \in scan.found THEN cache[folder] ELSE "none"]
          /\ UNCHANGED <<faults, history>>
       \/ Fault /\ UNCHANGED cache
    /\ Goto("complete")
    /\ UNCHANGED <<disk, doc, service>>

\* mark_scan_completed and update_scan_progress; the thread is still alive.
Complete ==
    /\ scan.at = "complete"
    /\ status' = "complete"
    /\ Goto("ending")
    /\ UNCHANGED <<disk, doc, cache, ask, synced, faults, history>>

ScanError ==
    /\ scan.at = "error"
    /\ \/ status' = "error" /\ UNCHANGED <<faults, history>>
       \/ Fault /\ UNCHANGED status
    /\ Goto("ending")
    /\ UNCHANGED <<disk, doc, cache, ask, synced>>

End ==
    /\ scan.at = "ending"
    /\ scan' = NoThread
    /\ Disturb
    /\ UNCHANGED <<disk, doc, cache, service, faults>>

\* A query raises.
QueryFails ==
    /\ scan.at \in {"walk", "list", "upsert", "init", "short", "scanned", "unerror",
                   "moves", "save", "final", "remove", "complete"}
    /\ Fault
    /\ Raise
    /\ UNCHANGED <<disk, doc, cache, service>>

-----------------------------------------------------------------------------
Init ==
    /\ at \in [Song -> Folder \cup {NoFolder}]
    /\ doc = [path \in Path |-> NoDoc]
    /\ cache = [folder \in Folder |-> "none"]
    /\ status = "idle"
    /\ ask = [r \in Requester |-> "idle"]
    /\ synced = FALSE
    /\ scan = NoThread
    /\ changes = MaxChanges
    /\ faults = MaxFaults
    /\ calm = FALSE
    /\ bound = {}

World ==
    \/ \E song \in Song, to \in Folder \cup {NoFolder} : Change(song, to)
    \/ \E song \in Song : Edit(song)
    \/ \E path \in Path : Work(path) \/ WorkFails(path)

Service ==
    \/ \E r \in Requester : SetScanning(r) \/ Start(r)
    \/ \E r \in Requester, kind \in {"quick", "full"} : Ask(r, kind)
    \/ Crash \/ Sync

ScanStep ==
    \/ Validate \/ Walk \/ (\E folder \in Folder : List(folder))
    \/ Upsert \/ Initialize \/ Bootstrap \/ MarkScanned \/ MarkUnerrored
    \/ Move \/ NoMoreMoves \/ Save \/ FoldersDone \/ Final
    \/ Remove \/ Tidy \/ Complete \/ ScanError \/ End \/ QueryFails

Next == World \/ Service \/ ScanStep

Spec == Init /\ [][Next]_vars

-----------------------------------------------------------------------------
(* Properties.                                                             *)

Document == [current : BOOLEAN, print : BOOLEAN, edges : SUBSET State]

\* Every variable has its type.
TypeOK ==
    /\ at \in [Song -> Folder \cup {NoFolder}]
    /\ doc \in [Path -> Document \cup {NoDoc}]
    /\ cache \in [Folder -> {"none", "match", "old"}]
    /\ status \in {"idle", "scanning", "complete", "error"}
    /\ ask \in [Requester -> {"idle", "quick", "full", "start quick", "start full"}]
    /\ scan.todo \subseteq scan.found /\ scan.seen \subseteq scan.found
    /\ scan.prints \subseteq scan.missing
    /\ scan.folder # NoFolder => scan.folder \in scan.todo

Finished == scan.at = "ending" /\ status = "complete"

\* After a scan during which the disk is left alone and nothing fails, the
\* documents are those of the files on disk, if nothing ever failed.  A full scan
\* mends what failures left, except what is in folders with neither files nor record.
ScanMirrorsDisk ==
    (Finished /\ calm) =>
        /\ faults = MaxFaults => InDb = OnDisk
        /\ scan.kind = "full" =>
              /\ OnDisk \subseteq InDb
              /\ \A path \in InDb : path[2] \in scan.found => path \in OnDisk /\ doc[path].current

\* A folder whose record matches is one that a quick scan skips: as long as nothing
\* failed, the documents in it are those of its files when no scan runs.
SkippedFoldersAreRight ==
    (faults = MaxFaults /\ ~Running) =>
        \A folder \in Folder : cache[folder] = "match" =>
            \A song \in Song : (<<song, folder>> \in InDb) <=> at[song] = folder

\* A scan that nothing disturbs finds each song where it went: its document, with
\* what was computed for it, has the path of the file.  Had something failed
\* before, a quick scan might skip the folder the song went to, and remove it.
MovesKept ==
    (Finished /\ calm /\ (scan.kind = "full" \/ faults = MaxFaults)) =>
        \A song \in bound : at[song] # NoFolder =>
            LET path == <<song, at[song]>> IN path \in InDb /\ doc[path].print

\* A document has no state at all, as upsert_batch was cut in two, or some state
\* on each axis: no transition loses an axis.
NoAxisLost ==
    \A path \in InDb : doc[path].edges = {} \/ \A axis \in Axis : Poles(doc[path].edges, axis) # {}

\* file_states_aql.py: "Each file has exactly one edge per state axis".
OneEdgePerAxis ==
    \A path \in InDb, axis \in Axis : Poles(doc[path].edges, axis) # {Is(axis), IsNot(axis)}

\* The workflows: "Remove truly deleted files".
OnlyDeletedRemoved ==
    [][scan.at = "remove" /\ scan'.at = "tidy" /\ calm => OnDisk \cap InDb \subseteq InDb']_vars
=============================================================================
