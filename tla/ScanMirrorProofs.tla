-------------------------- MODULE ScanMirrorProofs --------------------------
(***************************************************************************)
(* What LibraryScan says of folders that have no folders in them (Flat),   *)
(* for any songs, folders and bounds: a scan makes the documents those of  *)
(* the files, skips no folder that needs it, and keeps the documents of    *)
(* files that moved.                                                       *)
(*                                                                         *)
(* Invariants:                                                             *)
(*  - KnowInv: what a scan has in mind is right, written down or not, of   *)
(*    the folders there is nothing to do for (SureRight) and of the one it *)
(*    is in (Mind), while nothing failed or nobody disturbs the scan;      *)
(*  - CalmInv: while nobody disturbs it, what it read is what there is;    *)
(*  - RecordInv: while nothing failed, each document is in a folder with a *)
(*    record, and goes when the folder has no files;                       *)
(*  - BoundInv: a song that moved has its document at its new path, or the *)
(*    scan comes to the old one before it is done with the new one.        *)
(***************************************************************************)
EXTENDS LibraryScanProofs
-----------------------------------------------------------------------------
(* What a scan knows.                                                      *)
(*                                                                         *)
(* Without folders in folders, and while nothing failed, or nothing happens *)
(* behind the back of the scan: what it has in mind of the folders that    *)
(* are done, that are skipped, and of the one it is in, is right, although *)
(* it has not written all of it down yet.                                  *)

Flat == \A folder \in Folder : Under[folder] = {}

\* Nothing failed.
Smooth == faults = MaxFaults

\* The folders that are skipped, or done, are looked at.
Thorough == scan.kind = "full" \/ Smooth

Exists(path) == doc[path] # NoDoc

\* The file is where the path says.
Wanted(path) == at[path[1]] = path[2]

\* A document the scan does not remove.
Stays(path) == Exists(path) /\ path \notin scan.missing

\* A path the scan adds when it is done with the folders, or, of the folder it is
\* in, before.
Late(path) ==
    \/ path \in scan.unmatched
    \/ scan.at = "upsert" /\ scan.then = "remove" /\ path \in scan.batch

Pending(path) ==
    \/ Late(path)
    \/ scan.at = "upsert" /\ scan.then = "save" /\ path \in scan.batch
    \/ /\ scan.at = "moves" \/ (scan.at \in Batching /\ scan.then = "moves")
       /\ path[2] = scan.folder /\ path[1] \in scan.fresh

\* A folder was listed and is not saved yet.
Handling == scan.at \in {"moves", "save"} \/ (scan.at \in Batching /\ scan.then # "remove")

\* The folders are done.
Adding == scan.at \in {"final", "remove"} \/ (scan.at \in Batching /\ scan.then = "remove")

Over == scan.at \in {"tidy", "complete", "error", "ending"}

\* A scan that has not read the folders, or is done with them, has nothing in mind;
\* where it is in a folder, and tries again.
Placing ==
    /\ Over \/ scan.at \in {"none", "validate", "walk"} =>
          scan.missing = {} /\ scan.unmatched = {} /\ scan.batch = {}
    /\ Over \/ Adding => scan.todo = {}
    /\ scan.folder # NoFolder => Handling \/ scan.at = "list"
    /\ scan.again => scan.folder # NoFolder
    /\ scan.at = "list" => scan.again

Known ==
    /\ \A path \in scan.missing : Exists(path)
    /\ \A path \in Path : Pending(path) => ~Exists(path)
    /\ scan.at = "upsert" /\ scan.then = "moves" => \A path \in scan.batch : Exists(path)

\* What is to be matched again is in folders that are done.
Placed ==
    /\ \A path \in scan.unmatched : path[2] \in scan.todo => scan.at = "save" /\ path[2] = scan.folder
    /\ scan.at = "upsert" /\ scan.then = "save" => \A path \in scan.batch : path[2] = scan.folder
    /\ scan.at = "remove" \/ (scan.at \in Batching /\ scan.then = "remove") => scan.unmatched = {}

Single(edges) == \A axis \in Axis : Is(axis) \notin edges \/ IsNot(axis) \notin edges

\* The queries for what is added cannot raise.
NewDocs ==
    scan.then \in {"save", "remove"} =>
        /\ scan.at = "init" => \A path \in scan.batch : doc[path].edges = {}
        /\ scan.at \in {"short", "scanned", "unerror"} => \A path \in scan.batch : Single(doc[path].edges)

\* The folder the scan is in is unchanged since the scan read its time.
ListedRight ==
    \A path \in Path : Handling /\ path[2] = scan.folder /\ path[2] \in scan.seen =>
        IF Wanted(path) THEN Pending(path) \/ Stays(path) ELSE ~Pending(path) /\ ~Stays(path)

MissingGone == \A path \in scan.missing : path[2] \in scan.seen => ~Wanted(path)

Mind == Known /\ Placed /\ NewDocs /\ ListedRight /\ MissingGone

\* The folders a scan has nothing to do for.
Sure ==
    {folder \in Folder : \/ Smooth /\ cache[folder] = "match"
                         \/ calm /\ Thorough /\ folder \in scan.found \ scan.todo}

SureRight ==
    \A path \in Path : path[2] \in Sure =>
        IF Wanted(path) THEN Late(path) \/ Stays(path) ELSE ~Pending(path) /\ ~Stays(path)

Sound == Mind /\ SureRight

Even == Placing /\ Sound

KnowInv == faults \in 0..MaxFaults /\ Placing /\ SureRight /\ (Smooth \/ calm => Mind)

\* A scan that is left alone has found the folders that have files; what it listed is
\* not changed since, and a folder that is tried again has nothing to update.
Read(folder) == folder = scan.folder \/ (scan.kind = "full" /\ folder \in scan.found \ scan.todo)

LeftAlone ==
    /\ scan.at \notin {"none", "validate", "walk", "error"}
    /\ scan.found = {at[song] : song \in Song} \ {NoFolder}
    /\ scan.todo \subseteq scan.seen
    /\ \A path \in Path : Wanted(path) /\ Read(path[2]) => path[1] \notin scan.outdated
    /\ \A path \in Path : Wanted(path) /\ Read(path[2]) /\ Stays(path) =>
          \/ doc[path].current
          \/ scan.at = "upsert" /\ scan.then = "moves" /\ path \in scan.batch
    /\ scan.again /\ scan.then = "moves" => scan.at \notin Batching
    /\ \A path \in scan.missing : ~Wanted(path)

CalmInv == calm => LeftAlone

\* While nothing failed, the documents of folders that have no record are of the
\* folder the scan is in, and those of folders without files go.
Recorded ==
    /\ scan.at # "error"
    /\ \A path \in Path : Exists(path) /\ cache[path[2]] = "none" => Handling /\ path[2] = scan.folder
    /\ scan.at \in Batching /\ scan.then = "moves" /\ scan.batch # {} => cache[scan.folder] # "none"
    /\ \A path \in Path : Late(path) =>
          /\ path[2] \in scan.found
          /\ cache[path[2]] # "none" \/ (scan.at = "save" /\ path[2] = scan.folder)
    /\ scan.at \in Batching /\ scan.then = "remove" =>
          \A path \in scan.batch : path[2] \in scan.found /\ cache[path[2]] # "none"
    /\ scan.at \notin {"none", "validate", "walk"} =>
          \A path \in Path : Exists(path) /\ path[2] \notin scan.found => path \in scan.missing

RecordInv == Smooth => Recorded

\* A song that moved: its document is where it went, or the scan will come to move it.
Moved(song) ==
    LET new == <<song, at[song]>> IN Stays(new) /\ doc[new].print

ToMove(song) ==
    scan.hasTagged /\ \E old \in Path :
        /\ Docs(song) = {old} /\ doc[old].print /\ ~Wanted(old)
        /\ old \in scan.prints \/ (old[2] \in scan.todo /\ ~(Handling /\ old[2] = scan.folder))
        /\ scan.at \in {"folder", "list", "moves", "save", "final"}
           \/ (scan.at \in Batching /\ scan.then = "moves")

BoundInv ==
    \A song \in bound :
        /\ song \in Song /\ calm
        /\ Thorough /\ at[song] # NoFolder => Moved(song) \/ ToMove(song)

-----------------------------------------------------------------------------
(* The mind of a scan, step by step: Sound' from Even. *)

\* A file with one state on an axis at most keeps to it, and its transitions do not raise.
LEMMA SingleSteps ==
    /\ Single(Initialized({}))
    /\ \A edges \in SUBSET State, axis \in Axis : Single(edges) =>
          /\ ~MayRaise(edges, Is(axis))
          /\ \A new \in Transitioned(edges, Is(axis)) : Single(new)
    /\ \A edges \in SUBSET State, from \in State : Single(edges) =>
          ~BulkRaises(edges, from) /\ Single(BulkSet(edges, from))
<1>1. Single(Initialized({}))
  BY DEF Single, Initialized, Is, IsNot
<1>2. ASSUME NEW edges \in SUBSET State, NEW axis \in Axis, Single(edges)
      PROVE  ~MayRaise(edges, Is(axis)) /\ \A new \in Transitioned(edges, Is(axis)) : Single(new)
  <2>1. Is(axis)[1] = axis
    BY DEF Is
  <2>2. Poles(edges, axis) # {Is(axis), IsNot(axis)}
    BY <1>2 DEF Single, Poles
  <2>3. ASSUME NEW other \in Axis
        PROVE  \/ Is(other) \notin (edges \ Poles(edges, axis)) \cup {Is(axis)}
               \/ IsNot(other) \notin (edges \ Poles(edges, axis)) \cup {Is(axis)}
    <3>1. CASE other = axis
      BY <3>1 DEF Is, IsNot, Poles
    <3>2. CASE other # axis
      BY <1>2, <3>2 DEF Is, IsNot, Single
    <3>3. QED
      BY <3>1, <3>2
  <2>4. QED
    BY <2>1, <2>2, <2>3 DEF MayRaise, Transitioned, Single
<1>3. ASSUME NEW edges \in SUBSET State, NEW from \in State, Single(edges)
      PROVE  ~BulkRaises(edges, from) /\ Single(BulkSet(edges, from))
  <2>1. PICK axis \in Axis, side \in BOOLEAN : from = <<axis, side>>
    BY DEF State
  <2>2. \/ from = Is(axis) /\ Opposite(from) = IsNot(axis)
        \/ from = IsNot(axis) /\ Opposite(from) = Is(axis)
    BY <2>1 DEF Is, IsNot, Opposite
  <2>3. ~BulkRaises(edges, from)
    BY <1>3, <2>2 DEF BulkRaises, Single
  <2>4. ASSUME from \in edges, NEW other \in Axis
        PROVE  \/ Is(other) \notin (edges \ {from}) \cup {Opposite(from)}
               \/ IsNot(other) \notin (edges \ {from}) \cup {Opposite(from)}
    <3>1. Is(other) # IsNot(other) /\ (other # axis => /\ Is(other) # Is(axis) /\ Is(other) # IsNot(axis)
                                                     /\ IsNot(other) # Is(axis) /\ IsNot(other) # IsNot(axis))
      BY DEF Is, IsNot
    <3>2. CASE other = axis
      BY <2>2, <3>1, <3>2
    <3>3. CASE other # axis
      BY <1>3, <2>2, <3>1, <3>3 DEF Single
    <3>4. QED
      BY <3>2, <3>3
  <2>5. Single(BulkSet(edges, from))
    BY <1>3, <2>4 DEF BulkSet, Single
  <2>6. QED
    BY <2>3, <2>5
<1>4. QED
  BY <1>1, <1>2, <1>3

\* A step that learns nothing new of a folder, except what it writes down.
LEMMA Carried ==
    ASSUME SureRight, ListedRight, MissingGone,
           \A path \in Path : Wanted(path)' <=> Wanted(path),
           Sure' \subseteq Sure,
           \A path \in Path : Late(path) => Late(path)' \/ Stays(path)',
           \A path \in Path : Stays(path) => Stays(path)',
           \A path \in Path : (~Wanted(path) /\ ~Pending(path) /\ ~Stays(path)) => ~Pending(path)' /\ ~Stays(path)',
           Handling' => /\ Handling /\ scan'.folder = scan.folder
                        /\ \A path \in Path : Pending(path) => Pending(path)' \/ Stays(path)',
           scan'.seen \subseteq scan.seen, scan'.missing \subseteq scan.missing,
           scan.missing \subseteq Path
    PROVE  SureRight' /\ ListedRight' /\ MissingGone'
<1>1. SureRight'
  BY DEF SureRight
<1>2. ListedRight'
  BY DEF ListedRight
<1>3. MissingGone'
  BY DEF MissingGone
<1>4. QED
  BY <1>1, <1>2, <1>3

\* A step of somebody else, as long as no document comes or goes.
LEMMA SameMind ==
    ASSUME Even, UNCHANGED at, Sure' \subseteq Sure, scan.missing \subseteq Path, scan.batch \subseteq Path,
           scan'.at = scan.at, scan'.folder = scan.folder, scan'.todo = scan.todo, scan'.seen = scan.seen,
           scan'.missing = scan.missing, scan'.unmatched = scan.unmatched, scan'.batch = scan.batch,
           scan'.fresh = scan.fresh, scan'.then = scan.then,
           \A path \in Path : Exists(path)' <=> Exists(path),
           \A path \in Path : Exists(path) =>
               /\ doc[path].edges = {} => doc'[path].edges = {}
               /\ Single(doc[path].edges) => Single(doc'[path].edges),
           scan.at \in {"init", "short", "scanned", "unerror"} => \A path \in scan.batch : Exists(path)
    PROVE  Sound'
<1>1. /\ \A path \in Path : Late(path)' <=> Late(path)
      /\ \A path \in Path : Pending(path)' <=> Pending(path)
      /\ \A path \in Path : Stays(path)' <=> Stays(path)
      /\ \A path \in Path : Wanted(path)' <=> Wanted(path)
      /\ Handling' <=> Handling
  BY DEF Late, Pending, Stays, Wanted, Handling
<1>2. SureRight' /\ ListedRight' /\ MissingGone'
  BY <1>1, Carried DEF Even, Sound, Mind
<1>3. Known' /\ Placed'
  BY <1>1 DEF Even, Sound, Mind, Known, Placed
<1>4. NewDocs'
  BY DEF Even, Sound, Mind, NewDocs
<1>5. QED
  BY <1>2, <1>3, <1>4 DEF Even, Sound, Mind

\* What every step may use of the thread.
LEMMA ThreadFacts ==
    ASSUME TypeInv
    PROVE  /\ scan \in TypedThread /\ scan \in ThreadState
           /\ scan.missing \subseteq Path /\ scan.batch \subseteq Path /\ scan.unmatched \subseteq Path
           /\ scan.todo \subseteq Folder /\ scan.seen \subseteq Folder /\ scan.fresh \subseteq Song
           /\ scan.prints \subseteq scan.missing
BY DEF TypeInv, TypedThread, ThreadState

\* A thread that starts, or has failed, has nothing in mind, as the one before.
LEMMA EmptyMind ==
    ASSUME TypeInv, Even, UNCHANGED <<at, doc>>,
           Sure' \subseteq Sure,
           scan.missing = {}, scan.unmatched = {}, scan.at # "upsert",
           scan'.missing = {}, scan'.unmatched = {}, scan'.batch = {},
           scan'.at \in {"none", "validate", "walk", "complete", "error", "ending"}
    PROVE  Sound'
<1>1. /\ \A path \in Path : ~Late(path) /\ ~Late(path)' /\ ~Pending(path)'
      /\ \A path \in Path : Stays(path)' <=> Stays(path)
      /\ ~Handling'
  BY DEF Late, Pending, Stays, Exists, Handling, Batching
<1>2. SureRight'
  <2>1. \A path \in Path : path[2] \in Folder /\ (Wanted(path)' <=> Wanted(path))
    BY DEF Path, Wanted
  <2>2. QED
    BY <1>1, <2>1 DEF Even, Sound, Mind, SureRight
<1>3. ListedRight' /\ MissingGone'
  BY <1>1 DEF ListedRight, MissingGone
<1>4. Known' /\ Placed' /\ NewDocs'
  BY <1>1 DEF Known, Placed, NewDocs, Batching
<1>5. QED
  BY <1>2, <1>3, <1>4 DEF Even, Sound, Mind

LEMMA ChangeEven ==
    ASSUME TypeInv, Even, NEW song \in Song, NEW to \in Folder \cup {NoFolder}, Change(song, to),
           Sure' \subseteq Sure
    PROVE  Sound'
<1>1. /\ at' = [at EXCEPT ![song] = to] /\ doc' = doc
      /\ cache' = [folder \in Folder |-> IF folder \in {to, at[song]} /\ cache[folder] = "match"
                                         THEN "old" ELSE cache[folder]]
      /\ scan' = [scan EXCEPT !.seen = scan.seen \ {to, at[song]}]
  BY DEF Change
<1>2. /\ scan'.at = scan.at /\ scan'.folder = scan.folder /\ scan'.todo = scan.todo
      /\ scan'.seen = scan.seen \ {to, at[song]}
      /\ scan'.missing = scan.missing /\ scan'.unmatched = scan.unmatched /\ scan'.batch = scan.batch
      /\ scan'.fresh = scan.fresh /\ scan'.then = scan.then
  BY <1>1, ThreadFacts DEF ThreadState
<1>3. /\ \A path \in Path : Exists(path)' <=> Exists(path)
      /\ \A path \in Path : Late(path)' <=> Late(path)
      /\ \A path \in Path : Pending(path)' <=> Pending(path)
      /\ \A path \in Path : Stays(path)' <=> Stays(path)
      /\ Handling' <=> Handling
  BY <1>1, <1>2 DEF Exists, Late, Pending, Stays, Handling
<1>4. ASSUME NEW path \in Path, path[2] \notin {to, at[song]} PROVE Wanted(path)' <=> Wanted(path)
  BY <1>1, <1>4 DEF Wanted, Path, TypeInv
<1>5. SureRight'
  <2>1. \A path \in Path : path[2] \in Sure' => path[2] \notin {to, at[song]} /\ path[2] \in Sure
    BY <1>1 DEF Path, Sure, Change, Disturb
  <2>2. QED
    BY <1>3, <1>4, <2>1 DEF Even, Sound, Mind, SureRight
<1>6. ListedRight'
  BY <1>2, <1>3, <1>4 DEF Even, Sound, Mind, ListedRight
<1>7. MissingGone'
  BY <1>2, <1>4, ThreadFacts DEF Even, Sound, Mind, MissingGone
<1>8. Known' /\ Placed' /\ NewDocs'
  BY <1>1, <1>2, <1>3, ThreadFacts DEF Even, Sound, Mind, Known, Placed, NewDocs
<1>9. QED
  BY <1>5, <1>6, <1>7, <1>8 DEF Even, Sound, Mind

\* The worker's transition of one document.
LEMMA WorkKeeps ==
    ASSUME DocInv, NEW path \in Path, Work(path) \/ WorkFails(path), NEW other \in Path
    PROVE  /\ Exists(other)' <=> Exists(other)
           /\ doc[other].edges = {} => doc'[other] = doc[other]
           /\ Exists(other) /\ Single(doc[other].edges) => Single(doc'[other].edges)
<1>1. doc \in [Path -> WholeDoc \cup BareDoc \cup {NoDoc}]
  BY DEF DocInv
<1>2. Exists(path) /\ IsNot("tagged") \in doc[path].edges
  BY DEF Work, WorkFails, Untagged, InDb, Exists
<1>3. doc[path] \in WholeDoc
  BY <1>1, <1>2, StateIsWhole DEF Exists
<1>4. doc[path] \in Document /\ doc[path].edges \in SUBSET State
  BY <1>3 DEF WholeDoc, Document
<1>0. PICK axis \in Axis : \E edges \in Transitioned(doc[path].edges, Is(axis)) :
        \/ doc' = [doc EXCEPT ![path] = [doc[path] EXCEPT !.print = TRUE, !.edges = edges]]
        \/ doc' = [doc EXCEPT ![path] = [doc[path] EXCEPT !.edges = edges]]
  BY ThreeAxes DEF Work, WorkFails
<1>5. PICK edges \in Transitioned(doc[path].edges, Is(axis)) :
        \/ doc' = [doc EXCEPT ![path] = [doc[path] EXCEPT !.print = TRUE, !.edges = edges]]
        \/ doc' = [doc EXCEPT ![path] = [doc[path] EXCEPT !.edges = edges]]
  BY <1>0
<1>6. edges \in SUBSET State
  BY <1>4, <1>5, TransitionedWhole
<1>7. /\ [doc[path] EXCEPT !.print = TRUE, !.edges = edges] \in Document
      /\ [doc[path] EXCEPT !.print = TRUE, !.edges = edges].edges = edges
      /\ [doc[path] EXCEPT !.edges = edges] \in Document
      /\ [doc[path] EXCEPT !.edges = edges].edges = edges
  BY <1>4, <1>6 DEF Document
<1>8. PICK d \in Document : doc' = [doc EXCEPT ![path] = d] /\ d.edges = edges
  BY <1>5, <1>7
<1>9. d # NoDoc
  BY DocMoves
<1>10. Single(doc[path].edges) => Single(edges)
  BY <1>4, <1>5, SingleSteps
<1>11. CASE other = path
  BY <1>1, <1>2, <1>8, <1>9, <1>10, <1>11 DEF Exists
<1>12. CASE other # path
  BY <1>1, <1>8, <1>12 DEF Exists
<1>13. QED
  BY <1>11, <1>12

LEMMA WorldEven ==
    ASSUME TypeInv, DocInv, Even, faults \in Nat, World \/ Service, faults' = faults,
           Sure' \subseteq Sure
    PROVE  Sound'
<1>1. ASSUME UNCHANGED <<at, doc, scan>> PROVE Sound'
  BY <1>1, ThreadFacts, SameMind
     DEF Exists, Single, DocInv, WholeDoc, Even, Sound, Mind, Known, Placed, NewDocs, SureRight,
         ListedRight, MissingGone, Wanted, Late, Pending, Stays, Handling
<1>2. ASSUME NEW song \in Song, Edit(song) PROVE Sound'
  <2>1. /\ UNCHANGED at
        /\ doc' = [path \in Path |-> IF path \in Docs(song) THEN [doc[path] EXCEPT !.current = FALSE]
                                     ELSE doc[path]]
        /\ scan' = [scan EXCEPT !.outdated = IF Running THEN scan.outdated \cup {song} ELSE {}]
    BY <1>2 DEF Edit
  <2>2. /\ scan'.at = scan.at /\ scan'.folder = scan.folder /\ scan'.todo = scan.todo
        /\ scan'.seen = scan.seen /\ scan'.missing = scan.missing /\ scan'.unmatched = scan.unmatched
        /\ scan'.batch = scan.batch /\ scan'.fresh = scan.fresh /\ scan'.then = scan.then
    BY <2>1, ThreadFacts DEF ThreadState
  <2>3. ASSUME NEW path \in Path
        PROVE  (Exists(path)' <=> Exists(path)) /\ (Exists(path) => doc'[path].edges = doc[path].edges)
    <3>1. CASE path \in Docs(song)
      <4>1. doc[path] \in Document
        BY <3>1, DocKept DEF Docs, InDb, DocInv
      <4>2. doc'[path] = [doc[path] EXCEPT !.current = FALSE]
        BY <2>1, <3>1
      <4>3. doc'[path] \in Document /\ doc'[path].edges = doc[path].edges
        BY <4>1, <4>2 DEF Document
      <4>4. QED
        BY <4>1, <4>3, DocMoves DEF Exists
    <3>2. CASE path \notin Docs(song)
      BY <2>1, <3>2 DEF Exists
    <3>3. QED
      BY <3>1, <3>2
  <2>4. scan.at \in {"init", "short", "scanned", "unerror"} => \A path \in scan.batch : Exists(path)
    BY DocKept DEF DocInv, Exists
  <2>5. QED
    BY <2>1, <2>2, <2>3, <2>4, ThreadFacts, SameMind
<1>3. ASSUME NEW path \in Path, Work(path) \/ WorkFails(path) PROVE Sound'
  <2>1. UNCHANGED <<at, scan>>
    BY <1>3 DEF Work, WorkFails, disk
  <2>2. scan.at \in {"init", "short", "scanned", "unerror"} => \A other \in scan.batch : Exists(other)
    BY DocKept DEF DocInv, Exists
  <2>3. \A other \in Path :
          /\ Exists(other)' <=> Exists(other)
          /\ Exists(other) => /\ doc[other].edges = {} => doc'[other].edges = {}
                              /\ Single(doc[other].edges) => Single(doc'[other].edges)
    BY <1>3, WorkKeeps
  <2>4. QED
    BY <2>1, <2>2, <2>3, ThreadFacts, SameMind
<1>4. ASSUME NEW r \in Requester, Start(r) PROVE Sound'
  <2>1. UNCHANGED <<at, doc>>
    BY <1>4 DEF Start, disk
  <2>2. CASE scan' = scan
    BY <1>1, <2>1, <2>2
  <2>3. ASSUME scan = NoThread, NEW kind, scan' = Thread(kind, "validate") PROVE Sound'
    <3>1. scan.missing = {} /\ scan.unmatched = {} /\ scan.at = "none"
      BY <2>3 DEF NoThread, Thread
    <3>2. scan'.missing = {} /\ scan'.unmatched = {} /\ scan'.batch = {} /\ scan'.at = "validate"
      BY <2>3 DEF Thread
    <3>3. QED
      BY <2>1, <3>1, <3>2, EmptyMind
  <2>4. QED
    BY <1>4, <2>2, <2>3 DEF Start, Running
<1>5. CASE Crash
  BY <1>5 DEF Crash, Fault
<1>6. ASSUME NEW r \in Requester, NEW kind, SetScanning(r) \/ Ask(r, kind) PROVE Sound'
  BY <1>1, <1>6 DEF SetScanning, Ask, disk
<1>7. CASE Sync
  BY <1>1, <1>7 DEF Sync, disk
<1>8. CASE World
  BY <1>2, <1>3, <1>8, ChangeEven DEF World
<1>9. CASE Service
  BY <1>4, <1>5, <1>6, <1>9, <1>7 DEF Service
<1>10. QED
  BY <1>8, <1>9

\* The steps of a thread before it reads the folders and after it is done with them.
LEMMA OutsideEven ==
    ASSUME TypeInv, Even, faults \in Nat, faults' = faults, Sure' \subseteq Sure,
           Validate \/ Tidy \/ Complete \/ ScanError \/ End \/ QueryFails
    PROVE  Sound'
<1>1. ~Fault
  BY DEF Fault
<1>2. /\ UNCHANGED <<at, doc>>
      /\ scan.at \in {"validate", "tidy", "complete", "error", "ending"}
      /\ \/ \E step \in {"walk", "complete", "ending"} : scan' = [scan EXCEPT !.at = step]
         \/ scan' = NoThread
  BY <1>1 DEF Validate, Tidy, Complete, ScanError, End, QueryFails, Goto, disk
<1>3. scan.missing = {} /\ scan.unmatched = {} /\ scan.batch = {}
  BY <1>2 DEF Even, Placing, Over
<1>4. /\ scan'.missing = {} /\ scan'.unmatched = {} /\ scan'.batch = {}
      /\ scan'.at \in {"none", "walk", "complete", "ending"}
  <2>1. ASSUME NEW step \in {"walk", "complete", "ending"}, scan' = [scan EXCEPT !.at = step]
        PROVE  scan'.missing = {} /\ scan'.unmatched = {} /\ scan'.batch = {} /\ scan'.at = step
    BY <1>3, <2>1, ThreadFacts DEF ThreadState
  <2>2. CASE scan' = NoThread
    BY <2>2 DEF NoThread, Thread
  <2>3. QED
    BY <1>2, <2>1, <2>2
<1>5. QED
  BY <1>2, <1>3, <1>4, EmptyMind

\* discover_library_folders: a folder whose record matches has files, or its documents go.
LEMMA WalkEven ==
    ASSUME Flat, TypeInv, Placing, SureRight, Walk
    PROVE  Sound'
<1> DEFINE found    == {at[song] : song \in Song} \ {NoFolder}
           vanished == {folder \in Folder \ found : cache[folder] # "none"}
           gone     == UNION {Below(folder) : folder \in vanished}
           todo     == {folder \in found : scan.kind = "full" \/ cache[folder] # "match"}
<1>1. /\ scan.at = "walk" /\ UNCHANGED <<at, doc, cache>>
      /\ scan' = [scan EXCEPT !.at = "folder", !.todo = todo, !.found = found, !.seen = found,
                              !.hasTagged = \E path \in Path : Tagged(path),
                              !.missing = gone, !.prints = {path \in gone : doc[path].print}]
  BY DEF Walk, disk
<1>2. scan.missing = {} /\ scan.unmatched = {} /\ scan.batch = {}
  BY <1>1 DEF Placing
<1>3. /\ scan'.at = "folder" /\ scan'.todo = todo /\ scan'.seen = found /\ scan'.missing = gone
      /\ scan'.unmatched = {} /\ scan'.batch = {} /\ scan'.found = found /\ scan'.kind = scan.kind
  <2> HIDE DEF found, vanished, gone, todo
  <2>1. found \in SUBSET Folder /\ gone \in SUBSET Path
    BY DEF TypeInv, found, gone, Below, InDb
  <2>2. QED
    BY <1>1, <1>2, <2>1, ThreadFacts DEF ThreadState
<1>13. \A folder \in Sure' : Smooth /\ cache[folder] = "match"
  <2>1. Smooth' <=> Smooth
    BY DEF Walk, Smooth
  <2>2. scan'.found \ scan'.todo = {folder \in found : scan.kind # "full" /\ cache[folder] = "match"}
    BY <1>3
  <2> HIDE DEF found, todo
  <2>3. QED
    BY <1>1, <1>3, <2>1, <2>2 DEF Sure, Thorough
<1> HIDE DEF todo
<1>4. \A path \in Path : path \in gone <=> Exists(path) /\ path[2] \in vanished
  BY DEF Below, InDb, Exists, Flat, Path
<1>5. \A path \in Path : Wanted(path) => path[2] \in found
  BY ScanAssumption DEF Wanted, Path
<1> HIDE DEF vanished, gone, found
<1>6. \A path \in Path : ~Late(path) /\ ~Late(path)' /\ ~Pending(path) /\ ~Pending(path)'
  BY <1>1, <1>2, <1>3 DEF Late, Pending, Batching
<1>7. SureRight'
  <2>1. ASSUME NEW path \in Path, path[2] \in Sure'
        PROVE  (IF Wanted(path) THEN Late(path) \/ Stays(path) ELSE ~Pending(path) /\ ~Stays(path))'
    <3>1. IF Wanted(path) THEN Stays(path) ELSE ~Stays(path)
      <4>1. path[2] \in Sure
        BY <1>13, <2>1 DEF Path, Sure
      <4>2. QED
        BY <1>6, <4>1 DEF SureRight
    <3>2. Wanted(path) => path \notin gone
      BY <1>4, <1>5 DEF vanished
    <3>3. (Wanted(path)' <=> Wanted(path)) /\ (Exists(path)' <=> Exists(path))
      BY <1>1 DEF Wanted, Exists
    <3>4. Wanted(path) => Stays(path)'
      BY <1>3, <3>1, <3>2, <3>3 DEF Stays
    <3>5. ~Wanted(path) => ~Stays(path)'
      BY <1>2, <3>1, <3>3 DEF Stays
    <3>6. QED
      BY <1>6, <3>3, <3>4, <3>5
  <2>2. QED
    BY <2>1 DEF SureRight
<1>8. ListedRight'
  BY <1>3 DEF ListedRight, Handling, Batching
<1>9. MissingGone'
  <2>1. \A path \in gone : path[2] \notin found
    BY DEF gone, vanished, Below, Flat, InDb, Path
  <2>2. QED
    BY <1>3, <2>1 DEF MissingGone
<1>10. Known'
  <2>1. \A path \in gone : Exists(path)
    BY DEF gone, Below, InDb, Exists
  <2>2. QED
    BY <1>1, <1>3, <1>6, <2>1 DEF Known, Exists
<1>11. Placed' /\ NewDocs'
  BY <1>3 DEF Placed, NewDocs, Batching
<1>12. QED
  BY <1>7, <1>8, <1>9, <1>10, <1>11 DEF Even, Sound, Mind

\* A folder that was listed: its documents and its files, none of which waits to be matched.
LEMMA ListEven ==
    ASSUME Flat, TypeInv, Even, faults \in Nat, faults' = faults, NEW folder \in Folder, List(folder),
           Sure' \subseteq Sure
    PROVE  Sound'
<1> DEFINE there == {song \in Song : at[song] = folder}
           gone  == Below(folder) \ (there \X {folder})
           fresh == {song \in there : <<song, folder>> \notin Below(folder)}
<1>1. PICK updated \in SUBSET Below(folder), prints \in SUBSET Path, outdated \in SUBSET Song,
           step \in {"moves", "upsert"} :
        scan' = [scan EXCEPT !.at = step, !.folder = folder, !.missing = scan.missing \cup gone,
                             !.prints = prints, !.fresh = fresh, !.batch = updated, !.then = "moves",
                             !.outdated = outdated]
  <2> DEFINE body(listed, unread) ==
          LET files   == {song \in Song : at[song] = folder}
              known   == Below(folder)
              lost    == known \ (listed \X {folder})
              updated == {path \in known : path[1] \in listed \ unread /\ path[2] = folder /\ ~doc[path].current}
          IN  /\ \/ listed = files /\ unread = {} /\ UNCHANGED <<faults, history>>
                 \/ listed = {} /\ unread = {} /\ files # {} /\ Fault
                 \/ listed = files /\ unread # {} /\ unread \subseteq files /\ Fault
              /\ scan' = [scan EXCEPT !.at = IF updated = {} THEN "moves" ELSE "upsert",
                                      !.folder = folder,
                                      !.missing = @ \cup lost,
                                      !.prints = @ \cup {path \in lost : doc[path].print},
                                      !.fresh = {song \in listed \ unread : <<song, folder>> \notin known},
                                      !.batch = updated,
                                      !.then = "moves",
                                      !.outdated = @ \ listed]
  <2>1. PICK listed \in SUBSET Song, unread \in SUBSET Song : body(listed, unread)
    <3> HIDE DEF there, gone, fresh
    <3>1. QED
      BY Zenon DEF List
  <2> DEFINE updated == {path \in Below(folder) : path[1] \in listed \ unread /\ path[2] = folder /\ ~doc[path].current}
             prints  == scan.prints \cup {path \in Below(folder) \ (listed \X {folder}) : doc[path].print}
             step    == IF updated = {} THEN "moves" ELSE "upsert"
  <2> HIDE DEF gone, fresh
  <2>2. listed = there /\ unread = {}
    BY <2>1 DEF Fault
  <2>3. scan' = [scan EXCEPT !.at = step, !.folder = folder,
                             !.missing = scan.missing \cup (Below(folder) \ (listed \X {folder})),
                             !.prints = prints,
                             !.fresh = {song \in listed \ unread : <<song, folder>> \notin Below(folder)},
                             !.batch = updated, !.then = "moves", !.outdated = scan.outdated \ listed]
    BY <2>1
  <2>4. /\ {song \in listed \ unread : <<song, folder>> \notin Below(folder)} = fresh
        /\ Below(folder) \ (listed \X {folder}) = gone
    BY <2>2 DEF fresh, gone
  <2>5. /\ updated \in SUBSET Below(folder) /\ step \in {"moves", "upsert"}
        /\ prints \in SUBSET Path /\ scan.outdated \ listed \in SUBSET Song
    BY ThreadFacts DEF Below, InDb, ThreadState
  <2> HIDE DEF updated, prints, step, there, fresh, gone
  <2>6. scan' = [scan EXCEPT !.at = step, !.folder = folder, !.missing = scan.missing \cup gone,
                             !.prints = prints, !.fresh = fresh, !.batch = updated, !.then = "moves",
                             !.outdated = scan.outdated \ listed]
    BY <2>3, <2>4
  <2>7. QED
    BY <2>5, <2>6
<1>2. /\ UNCHANGED <<at, doc>> /\ scan.at \in {"folder", "list"} /\ folder \in scan.todo
  BY ThreadFacts DEF List, disk, TypedThread
<1>3. /\ scan'.at = step /\ scan'.folder = folder /\ scan'.missing = scan.missing \cup gone
      /\ scan'.fresh = fresh /\ scan'.batch = updated /\ scan'.then = "moves"
      /\ scan'.unmatched = scan.unmatched /\ scan'.todo = scan.todo /\ scan'.seen = scan.seen
  <2> HIDE DEF gone, fresh
  <2>1. QED
    BY <1>1, ThreadFacts DEF ThreadState
<1>4. \A path \in Path : path \in Below(folder) <=> Exists(path) /\ path[2] = folder
  BY DEF Below, InDb, Exists, Flat, Path
<1>5. \A path \in Path : path \in gone <=> Exists(path) /\ path[2] = folder /\ ~Wanted(path)
  BY <1>4 DEF Path, Wanted
<1>6. \A path \in Path : path[2] = folder /\ path[1] \in fresh <=> path[2] = folder /\ ~Exists(path) /\ Wanted(path)
  BY <1>4 DEF Path, Wanted
<1>7. gone \subseteq Path /\ updated \subseteq Path /\ \A path \in updated : Exists(path)
  BY DEF Below, InDb, Exists
<1> HIDE DEF there, gone, fresh
<1>8. /\ \A path \in Path : Late(path) <=> path \in scan.unmatched
      /\ \A path \in Path : Pending(path) <=> path \in scan.unmatched
      /\ \A path \in Path : Late(path)' <=> path \in scan.unmatched
      /\ \A path \in Path : Pending(path)' <=> \/ path \in scan.unmatched
                                               \/ path[2] = folder /\ ~Exists(path) /\ Wanted(path)
      /\ \A path \in Path : Stays(path)' <=> Stays(path) /\ path \notin gone
      /\ \A path \in Path : (Wanted(path)' <=> Wanted(path)) /\ (Exists(path)' <=> Exists(path))
  <2>1. \A path \in Path : (Late(path) <=> path \in scan.unmatched) /\ (Pending(path) <=> path \in scan.unmatched)
    BY <1>2 DEF Late, Pending, Batching
  <2>2. \A path \in Path : Late(path)' <=> path \in scan.unmatched
    BY <1>3 DEF Late
  <2>3. \A path \in Path : Pending(path)' <=> \/ path \in scan.unmatched
                                              \/ path[2] = folder /\ path[1] \in fresh
    BY <1>3, <2>2 DEF Pending, Batching
  <2>4. \A path \in Path : Stays(path)' <=> Stays(path) /\ path \notin gone
    BY <1>2, <1>3 DEF Stays, Exists
  <2>5. \A path \in Path : (Wanted(path)' <=> Wanted(path)) /\ (Exists(path)' <=> Exists(path))
    BY <1>2 DEF Wanted, Exists
  <2>6. QED
    BY <1>6, <2>1, <2>2, <2>3, <2>4, <2>5
<1>9. \A path \in scan.unmatched : path[2] \notin scan.todo
  BY <1>2 DEF Even, Sound, Mind, Placed
<1>10. SureRight'
  BY <1>2, <1>5, <1>8 DEF Even, Sound, Mind, SureRight
<1>11. ListedRight'
  <2>1. ASSUME NEW path \in Path, path[2] = folder, folder \in scan.seen
        PROVE  IF Wanted(path) THEN Pending(path)' \/ Stays(path)' ELSE ~Pending(path)' /\ ~Stays(path)'
    <3>1. CASE Wanted(path)
      BY <1>5, <1>8, <2>1, <3>1 DEF Stays, Even, Sound, Mind, MissingGone
    <3>2. CASE ~Wanted(path)
      BY <1>2, <1>5, <1>8, <1>9, <2>1, <3>2 DEF Stays
    <3>3. QED
      BY <3>1, <3>2
  <2>2. QED
    BY <1>3, <1>8, <2>1 DEF ListedRight
<1>12. MissingGone'
  BY <1>3, <1>5, <1>7, <1>8, ThreadFacts DEF Even, Sound, Mind, MissingGone
<1>13. Known'
  BY <1>2, <1>3, <1>5, <1>7, <1>8, ThreadFacts DEF Even, Sound, Mind, Known
<1>14. Placed' /\ NewDocs'
  BY <1>2, <1>3, <1>9 DEF Placed, NewDocs, Batching
<1>15. QED
  BY <1>10, <1>11, <1>12, <1>13, <1>14 DEF Even, Sound, Mind

\* The queries for the states of a batch, whatever they do with them: the next one, what
\* comes after the last, or, in a folder, one that raised.
LEMMA BatchEven ==
    ASSUME TypeInv, Even, UNCHANGED at, Sure' \subseteq Sure, scan.at \in {"init", "short", "scanned", "unerror"},
           \A path \in Path : Exists(path)' <=> Exists(path),
           scan'.missing = scan.missing, scan'.unmatched = scan.unmatched, scan'.seen = scan.seen,
           scan'.todo \subseteq scan.todo, scan'.then = scan.then,
           \/ /\ scan'.at \in {"short", "scanned", "unerror"} \/ scan'.at = scan.then
              /\ scan'.folder = scan.folder /\ scan'.fresh = scan.fresh
           \/ scan.then # "remove" /\ scan'.at \in {"list", "folder"},
           NewDocs'
    PROVE  Sound'
<1>1. scan.then \in {"moves", "save", "remove"}
  BY ThreadFacts DEF TypedThread, ThreadState, Batching
<1>2. /\ \A path \in Path : Late(path) <=> path \in scan.unmatched
      /\ \A path \in Path : Late(path)' <=> path \in scan.unmatched
  BY <1>1 DEF Late
<1>3. \A path \in Path : Pending(path)' => Pending(path)
  BY <1>1, <1>2 DEF Pending, Batching
<1>4. /\ \A path \in Path : Stays(path)' <=> Stays(path)
      /\ \A path \in Path : Wanted(path)' <=> Wanted(path)
  BY DEF Stays, Wanted
<1>5. Handling' => /\ Handling /\ scan'.folder = scan.folder
                   /\ \A path \in Path : Pending(path) => Pending(path)'
  <2>1. Handling' => Handling /\ scan'.folder = scan.folder /\ scan'.fresh = scan.fresh
    BY <1>1 DEF Handling, Batching
  <2>2. ASSUME Handling', NEW path \in Path, Pending(path) PROVE Pending(path)'
    BY <1>1, <1>2, <2>1, <2>2 DEF Handling, Pending, Batching
  <2>3. QED
    BY <2>1, <2>2
<1>6. SureRight' /\ ListedRight' /\ MissingGone'
  BY <1>2, <1>3, <1>4, <1>5, ThreadFacts, Carried DEF Even, Sound, Mind
<1>7. Known' /\ Placed'
  <2>2. Known'
    BY <1>1, <1>3, ThreadFacts DEF Even, Sound, Mind, Known
  <2>3. Placed'
    BY <1>1 DEF Even, Sound, Mind, Placed, Batching
  <2>4. QED
    BY <2>2, <2>3
<1>8. QED
  BY <1>6, <1>7 DEF Even, Sound, Mind

\* upsert_batch: the documents of a batch exist, as those of which it was told did, or
\* as nothing else waits at their paths.
LEMMA UpsertEven ==
    ASSUME TypeInv, Even, Sure' \subseteq Sure, DocInv, Upsert
    PROVE  Sound'
<1>1. /\ scan.at = "upsert" /\ UNCHANGED at /\ scan' = [scan EXCEPT !.at = "init"]
  BY DEF Upsert, Goto, disk
<1>2. /\ scan'.at = "init" /\ scan'.missing = scan.missing /\ scan'.unmatched = scan.unmatched
      /\ scan'.seen = scan.seen /\ scan'.todo = scan.todo /\ scan'.then = scan.then
      /\ scan'.folder = scan.folder /\ scan'.fresh = scan.fresh /\ scan'.batch = scan.batch
  BY <1>1, ThreadFacts DEF ThreadState
<1>3. scan.then \in {"moves", "save", "remove"} /\ (scan.then # "remove" => scan.folder \in scan.todo)
  BY <1>1, ThreadFacts DEF TypedThread, ThreadState, Batching
<1>4. ASSUME NEW path \in Path
      PROVE  /\ Exists(path)' <=> Exists(path) \/ path \in scan.batch
             /\ path \in scan.batch /\ ~Exists(path) => doc'[path].edges = {}
  <2>1. PICK current \in BOOLEAN :
          doc'[path] = IF path \notin scan.batch THEN doc[path]
                       ELSE IF path \in InDb THEN [doc[path] EXCEPT !.current = current]
                       ELSE [current |-> current, print |-> FALSE, edges |-> {}]
    <3>1. doc'[path] = IF path \notin scan.batch THEN doc[path]
                       ELSE IF path \in InDb THEN [doc[path] EXCEPT !.current = path[1] \notin scan.outdated]
                       ELSE [current |-> path[1] \notin scan.outdated, print |-> FALSE, edges |-> {}]
      BY DEF Upsert
    <3>2. QED
      BY <3>1, Zenon
  <2>2. path \in InDb <=> Exists(path)
    BY DEF InDb, Exists
  <2>3. Exists(path) => doc[path] \in Document
    BY DocKept DEF DocInv, Exists
  <2>4. CASE path \notin scan.batch
    BY <2>1, <2>4 DEF Exists
  <2>5. CASE path \in scan.batch /\ Exists(path)
    <3>1. doc'[path] = [doc[path] EXCEPT !.current = current]
      BY <2>1, <2>2, <2>5
    <3>2. doc'[path] \in Document
      BY <2>3, <2>5, <3>1 DEF Document
    <3>3. QED
      BY <2>5, <3>2, DocMoves DEF Exists
  <2>6. CASE path \in scan.batch /\ ~Exists(path)
    <3>1. doc'[path] = [current |-> current, print |-> FALSE, edges |-> {}]
      BY <2>1, <2>2, <2>6
    <3>2. doc'[path] \in Document /\ doc'[path].edges = {}
      BY <3>1 DEF Document
    <3>3. QED
      BY <2>6, <3>2, DocMoves DEF Exists
  <2>7. QED
    BY <2>4, <2>5, <2>6
<1>5. /\ \A path \in Path : Late(path) <=> path \in scan.unmatched \/ (scan.then = "remove" /\ path \in scan.batch)
      /\ \A path \in Path : Late(path)' <=> path \in scan.unmatched
      /\ \A path \in Path : Pending(path) <=> Pending(path)' \/ (scan.then # "moves" /\ path \in scan.batch)
      /\ \A path \in Path : Wanted(path)' <=> Wanted(path)
  BY <1>1, <1>2, <1>3 DEF Late, Pending, Batching, Wanted
<1>6. \A path \in scan.batch : path \notin scan.missing \/ Exists(path)
  BY ThreadFacts DEF Even, Sound, Mind, Known
<1>7. \A path \in scan.batch : scan.then # "moves" => ~Exists(path)
  BY <1>5, ThreadFacts DEF Even, Sound, Mind, Known
<1>8. \A path \in scan.batch : scan.then = "moves" => Exists(path)
  BY <1>1, <1>3 DEF Even, Sound, Mind, Known
<1>9. \A path \in Path : Stays(path)' <=> Stays(path) \/ (path \in scan.batch /\ scan.then # "moves")
  BY <1>2, <1>4, <1>7, <1>8, ThreadFacts DEF Even, Sound, Mind, Known, Stays
<1>10. SureRight' /\ ListedRight' /\ MissingGone'
  <2>1. Handling' => Handling
    BY <1>1, <1>2 DEF Handling, Batching
  <2>2. QED
    BY <1>1, <1>2, <1>5, <1>9, <2>1, ThreadFacts, Carried DEF Even, Sound, Mind
<1>11. Known'
  <2>1. ASSUME NEW path \in scan.batch, Pending(path)', scan.then # "moves" PROVE FALSE
    <3>1. path \in scan.unmatched
      BY <1>2, <1>3, <1>5, <2>1, ThreadFacts DEF Pending, Batching
    <3>2. QED
      BY <1>1, <1>3, <2>1, <3>1 DEF Even, Sound, Mind, Placed, Batching
  <2>2. QED
    BY <1>2, <1>4, <1>5, <1>8, <2>1, ThreadFacts DEF Even, Sound, Mind, Known
<1>12. Placed'
  BY <1>1, <1>2 DEF Even, Sound, Mind, Placed, Batching
<1>13. NewDocs'
  BY <1>2, <1>4, <1>7, ThreadFacts DEF NewDocs
<1>14. QED
  BY <1>10, <1>11, <1>12, <1>13 DEF Even, Sound, Mind

LEMMA InitializeEven ==
    ASSUME TypeInv, Even, Sure' \subseteq Sure, DocInv, Initialize
    PROVE  Sound'
<1>1. /\ scan.at = "init" /\ UNCHANGED at /\ scan' = [scan EXCEPT !.at = "short"]
  BY DEF Initialize, Goto, disk
<1>2. /\ scan'.at = "short" /\ scan'.missing = scan.missing /\ scan'.unmatched = scan.unmatched
      /\ scan'.seen = scan.seen /\ scan'.todo = scan.todo /\ scan'.then = scan.then
      /\ scan'.folder = scan.folder /\ scan'.fresh = scan.fresh /\ scan'.batch = scan.batch
  BY <1>1, ThreadFacts DEF ThreadState
<1>3. ASSUME NEW path \in Path
      PROVE  /\ Exists(path)' <=> Exists(path)
             /\ path \in scan.batch => doc'[path].edges = Initialized(doc[path].edges)
  <2>1. doc'[path] = IF path \in scan.batch
                     THEN [doc[path] EXCEPT !.edges = Initialized(doc[path].edges)] ELSE doc[path]
    BY DEF Initialize
  <2>2. CASE path \in scan.batch
    <3>1. doc[path] \in Document /\ Initialized(doc[path].edges) \in SUBSET State
      BY <1>1, <2>2, DocKept, InitializedWhole DEF DocInv, Document
    <3>2. doc'[path] \in Document /\ doc'[path].edges = Initialized(doc[path].edges)
      BY <2>1, <2>2, <3>1 DEF Document
    <3>3. QED
      BY <3>1, <3>2, DocMoves DEF Exists
  <2>3. CASE path \notin scan.batch
    BY <2>1, <2>3 DEF Exists
  <2>4. QED
    BY <2>2, <2>3
<1>4. NewDocs'
  <2>1. ASSUME scan.then \in {"save", "remove"}, NEW path \in scan.batch PROVE Single(doc'[path].edges)
    BY <1>1, <1>3, <2>1, ThreadFacts, SingleSteps DEF Even, Sound, Mind, NewDocs
  <2>2. QED
    BY <1>2, <2>1 DEF NewDocs, Single
<1>5. QED
  BY <1>1, <1>2, <1>3, <1>4, BatchEven

\* What raises in a folder leaves the scan in it or goes on.
LEMMA RaiseFields ==
    ASSUME TypeInv, scan.at \in Batching, scan.then # "remove", Raise
    PROVE  /\ scan'.missing = scan.missing /\ scan'.unmatched = scan.unmatched /\ scan'.seen = scan.seen
           /\ scan'.todo \subseteq scan.todo /\ scan'.then = scan.then /\ scan'.at \in {"list", "folder"}
<1>1. scan.folder # NoFolder /\ scan.again \in BOOLEAN
  BY ThreadFacts DEF TypedThread, ThreadState
<1>2. CASE scan.again
  <2>1. scan' = [scan EXCEPT !.at = "folder", !.again = FALSE, !.batch = {}, !.fresh = {},
                             !.todo = scan.todo \ {scan.folder}, !.folder = NoFolder]
    BY <1>1, <1>2 DEF Raise
  <2>2. QED
    BY <2>1, ThreadFacts DEF ThreadState
<1>3. CASE ~scan.again
  BY ZenonT(60), <1>1, <1>3, ThreadFacts DEF Raise, ThreadState
<1>4. QED
  BY <1>2, <1>3

\* The edges of some documents of the batch are replaced.
LEMMA EdgesSet ==
    ASSUME DocInv, NEW path \in Path, NEW edges \in SUBSET State, Exists(path),
           doc'[path] = [doc[path] EXCEPT !.edges = edges]
    PROVE  Exists(path)' /\ doc'[path].edges = edges
<1>1. doc[path] \in Document
  BY DocKept DEF DocInv, Exists
<1>2. doc'[path] \in Document /\ doc'[path].edges = edges
  BY <1>1 DEF Document
<1>3. QED
  BY <1>2, DocMoves DEF Exists

LEMMA BootstrapEven ==
    ASSUME TypeInv, Even, Sure' \subseteq Sure, DocInv, Bootstrap
    PROVE  Sound'
<1> DEFINE short      == {path \in scan.batch : path[1] \in Short}
           next(path) == Transitioned(doc[path].edges, Is("tagged"))
<1>1. scan.at = "short" /\ UNCHANGED at
  BY DEF Bootstrap, disk
<1>2. PICK done \in SUBSET short : \E edges \in [done -> UNION {next(path) : path \in done}] :
        /\ \A path \in done : edges[path] \in next(path)
        /\ doc' = [path \in Path |-> IF path \in done THEN [doc[path] EXCEPT !.edges = edges[path]]
                                     ELSE doc[path]]
        /\ \/ done = short /\ Goto("scanned")
           \/ (\E path \in short \ done : MayRaise(doc[path].edges, Is("tagged"))) /\ Raise
  BY Zenon DEF Bootstrap
<1>3. PICK edges \in [done -> UNION {next(path) : path \in done}] :
        /\ \A path \in done : edges[path] \in next(path)
        /\ doc' = [path \in Path |-> IF path \in done THEN [doc[path] EXCEPT !.edges = edges[path]]
                                     ELSE doc[path]]
        /\ \/ done = short /\ Goto("scanned")
           \/ (\E path \in short \ done : MayRaise(doc[path].edges, Is("tagged"))) /\ Raise
  BY <1>2, Zenon
<1>4. \A path \in scan.batch : path \in Path /\ Exists(path) /\ doc[path].edges \in SUBSET State
  BY <1>1, DocKept, ThreadFacts DEF DocInv, Exists, WholeDoc, Document
<1>5. "tagged" \in Axis
  BY ThreeAxes
<1>6. ASSUME NEW path \in Path
      PROVE  /\ Exists(path)' <=> Exists(path)
             /\ path \in scan.batch /\ Single(doc[path].edges) => Single(doc'[path].edges)
  <2>1. CASE path \in done
    <3>1. edges[path] \in next(path) /\ doc'[path] = [doc[path] EXCEPT !.edges = edges[path]]
      BY <1>3, <2>1
    <3>2. edges[path] \in SUBSET State
      BY <1>4, <1>5, <2>1, <3>1, TransitionedWhole
    <3>3. Exists(path)' /\ doc'[path].edges = edges[path]
      BY <1>4, <2>1, <3>1, <3>2, EdgesSet
    <3>4. QED
      BY <1>4, <1>5, <2>1, <3>1, <3>3, SingleSteps
  <2>2. CASE path \notin done
    BY <1>3, <2>2 DEF Exists
  <2>3. QED
    BY <2>1, <2>2
<1>7. CASE Goto("scanned")
  <2>1. /\ scan'.at = "scanned" /\ scan'.missing = scan.missing /\ scan'.unmatched = scan.unmatched
        /\ scan'.seen = scan.seen /\ scan'.todo = scan.todo /\ scan'.then = scan.then
        /\ scan'.folder = scan.folder /\ scan'.fresh = scan.fresh /\ scan'.batch = scan.batch
    BY <1>7, ThreadFacts DEF ThreadState, Goto
  <2>2. NewDocs'
    BY <1>1, <1>6, <2>1, ThreadFacts DEF Even, Sound, Mind, NewDocs
  <2>3. QED
    BY <1>1, <1>6, <2>1, <2>2, BatchEven
<1>8. ASSUME NEW path \in scan.batch, MayRaise(doc[path].edges, Is("tagged")), Raise PROVE Sound'
  <2>1. scan.then # "remove"
    BY <1>1, <1>4, <1>5, <1>8, SingleSteps DEF Even, Sound, Mind, NewDocs
  <2>2. /\ scan'.missing = scan.missing /\ scan'.unmatched = scan.unmatched /\ scan'.seen = scan.seen
        /\ scan'.todo \subseteq scan.todo /\ scan'.then = scan.then /\ scan'.at \in {"list", "folder"}
    BY <1>1, <1>8, <2>1, RaiseFields DEF Batching
  <2>3. NewDocs'
    BY <2>2 DEF NewDocs
  <2>4. QED
    BY <1>1, <1>6, <2>1, <2>2, <2>3, BatchEven
<1>9. QED
  BY <1>3, <1>7, <1>8

LEMMA MarkEven ==
    ASSUME TypeInv, Even, Sure' \subseteq Sure, DocInv, NEW from \in State,
           \/ Mark("scanned", from, "unerror")
           \/ Mark("unerror", from, scan.then)
    PROVE  Sound'
<1>1. PICK step \in {"scanned", "unerror"} : Mark(step, from, IF step = "scanned" THEN "unerror" ELSE scan.then)
  OBVIOUS
<1>2. scan.at = step /\ UNCHANGED at
  BY <1>1 DEF Mark, disk
<1>3. \A path \in scan.batch : path \in Path /\ Exists(path) /\ doc[path].edges \in SUBSET State
  BY <1>2, DocKept, ThreadFacts DEF DocInv, Exists, WholeDoc, Document
<1>4. CASE \E path \in scan.batch : BulkRaises(doc[path].edges, from)
  <2>1. UNCHANGED doc /\ Raise
    BY <1>1, <1>4 DEF Mark
  <2>2. scan.then # "remove"
    BY <1>2, <1>3, <1>4, SingleSteps DEF Even, Sound, Mind, NewDocs
  <2>3. /\ scan'.missing = scan.missing /\ scan'.unmatched = scan.unmatched /\ scan'.seen = scan.seen
        /\ scan'.todo \subseteq scan.todo /\ scan'.then = scan.then /\ scan'.at \in {"list", "folder"}
    BY <1>2, <2>1, <2>2, RaiseFields DEF Batching
  <2>4. NewDocs'
    BY <2>3 DEF NewDocs
  <2>5. \A path \in Path : Exists(path)' <=> Exists(path)
    BY <2>1 DEF Exists
  <2>6. QED
    BY <1>2, <2>2, <2>3, <2>4, <2>5, BatchEven
<1>5. CASE ~\E path \in scan.batch : BulkRaises(doc[path].edges, from)
  <2> DEFINE next == IF step = "scanned" THEN "unerror" ELSE scan.then
             rest == IF step = "unerror" THEN {} ELSE scan.batch
  <2>1. /\ doc' = [path \in Path |-> IF path \in scan.batch
                                     THEN [doc[path] EXCEPT !.edges = BulkSet(doc[path].edges, from)]
                                     ELSE doc[path]]
        /\ scan' = [scan EXCEPT !.at = next, !.batch = rest]
    BY <1>1, <1>5 DEF Mark
  <2>2. rest \in SUBSET Path
    BY ThreadFacts
  <2>3. /\ scan'.at = next /\ scan'.missing = scan.missing /\ scan'.unmatched = scan.unmatched
        /\ scan'.seen = scan.seen /\ scan'.todo = scan.todo /\ scan'.then = scan.then
        /\ scan'.folder = scan.folder /\ scan'.fresh = scan.fresh /\ scan'.batch = rest
    <3> HIDE DEF next, rest
    <3>1. QED
      BY <2>1, ThreadFacts DEF ThreadState
  <2>4. ASSUME NEW path \in Path
        PROVE  /\ Exists(path)' <=> Exists(path)
               /\ path \in scan.batch /\ Single(doc[path].edges) => Single(doc'[path].edges)
    <3>1. CASE path \in scan.batch
      <4>1. BulkSet(doc[path].edges, from) \in SUBSET State
        BY <1>3, <3>1, BulkSetWhole
      <4>2. doc'[path] = [doc[path] EXCEPT !.edges = BulkSet(doc[path].edges, from)]
        BY <2>1, <3>1
      <4>3. Exists(path)' /\ doc'[path].edges = BulkSet(doc[path].edges, from)
        BY <1>3, <3>1, <4>1, <4>2, EdgesSet
      <4>4. QED
        BY <1>3, <3>1, <4>3, SingleSteps
    <3>2. CASE path \notin scan.batch
      BY <2>1, <3>2 DEF Exists
    <3>3. QED
      BY <3>1, <3>2
  <2>5. NewDocs'
    <3>1. CASE step = "scanned"
      BY <1>2, <2>3, <2>4, <3>1, ThreadFacts DEF Even, Sound, Mind, NewDocs
    <3>2. CASE step = "unerror"
      BY <2>3, <3>2 DEF NewDocs
    <3>3. QED
      BY <3>1, <3>2
  <2>6. QED
    BY <1>2, <2>3, <2>4, <2>5, BatchEven
<1>6. QED
  BY <1>4, <1>5

\* apply_detected_moves: a document that is missing gets the path of a file that waits.
LEMMA MoveEven ==
    ASSUME TypeInv, Even, Sure' \subseteq Sure, DocInv, Move
    PROVE  Sound'
<1>1. PICK old \in Matches, new \in New : Match(old, new)
  BY DEF Move
<1>2. scan.at \in {"moves", "final"} /\ UNCHANGED at
  BY <1>1 DEF Move, Match, disk
<1>3. scan.at = "moves" => scan.folder \in scan.todo
  BY ThreadFacts DEF TypedThread
<1>4. new \in Path /\ Pending(new) /\ (scan.at = "moves" => new[2] = scan.folder /\ new[1] \in scan.fresh)
  <2>1. CASE scan.at = "moves"
    <3>1. PICK song \in scan.fresh : new = <<song, scan.folder>>
      BY <2>1 DEF New
    <3>2. new \in Path /\ new[2] = scan.folder /\ new[1] = song
      BY <1>3, <2>1, <3>1, ThreadFacts DEF Path
    <3>3. QED
      BY <2>1, <3>1, <3>2 DEF Pending
  <2>2. CASE scan.at = "final"
    BY <2>2, ThreadFacts DEF New, Pending, Late
  <2>3. QED
    BY <1>2, <2>1, <2>2
<1>5. old \in scan.missing /\ old \in Path /\ Exists(old) /\ ~Exists(new) /\ old # new
  BY <1>1, <1>4, ThreadFacts DEF Matches, Even, Sound, Mind, Known
<1>6. Wanted(new) /\ ~Wanted(old)
  BY <1>1, <1>4, <1>5 DEF Match, OnDisk, Wanted, Path
<1> DEFINE fresh     == IF scan.at = "moves" THEN scan.fresh \ {new[1]} ELSE scan.fresh
           unmatched == IF scan.at = "final" THEN scan.unmatched \ {new} ELSE scan.unmatched
<1>7. /\ scan'.at = scan.at /\ scan'.missing = scan.missing \ {old} /\ scan'.unmatched = unmatched
      /\ scan'.seen = scan.seen /\ scan'.todo = scan.todo /\ scan'.then = scan.then
      /\ scan'.folder = scan.folder /\ scan'.fresh = fresh /\ scan'.batch = scan.batch
  <2>1. scan' = [scan EXCEPT !.missing = scan.missing \ {old}, !.prints = scan.prints \ {old},
                             !.fresh = fresh, !.unmatched = unmatched]
    BY <1>1 DEF Match
  <2> HIDE DEF fresh, unmatched
  <2>2. QED
    BY <2>1, ThreadFacts DEF ThreadState
<1>8. ASSUME NEW path \in Path PROVE Exists(path)' <=> (Exists(path) /\ path # old) \/ path = new
  <2>1. doc[old] \in Document
    BY <1>5, DocKept DEF DocInv, Exists
  <2> DEFINE moved == [doc[old] EXCEPT !.current = new[1] \notin scan.outdated]
  <2>2. moved \in Document
    BY <2>1 DEF Document
  <2>3. doc'[path] = IF path = new THEN moved ELSE IF path = old THEN NoDoc ELSE doc[path]
    <3>1. old \in InDb
      BY <1>5 DEF InDb, Exists
    <3>2. doc'[path] = IF old \notin InDb THEN doc[path]
                       ELSE IF path = new THEN [doc[old] EXCEPT !.current = new[1] \notin scan.outdated]
                       ELSE IF path = old THEN NoDoc ELSE doc[path]
      BY <1>1 DEF Match
    <3>3. QED
      BY <3>1, <3>2
  <2> HIDE DEF moved
  <2>4. moved # NoDoc
    BY <2>2, DocMoves
  <2>5. QED
    BY <1>5, <2>3, <2>4 DEF Exists
<1>9. new \notin scan.missing
  BY <1>5 DEF Even, Sound, Mind, Known
<1>10. \A path \in Path : Stays(path)' <=> Stays(path) \/ path = new
  BY <1>5, <1>7, <1>8, <1>9 DEF Stays
<1>11. scan.at = "moves" => new \notin scan.unmatched
  BY <1>3, <1>4 DEF Even, Sound, Mind, Placed
<1>12. /\ \A path \in Path : Late(path)' <=> Late(path) /\ path # new
       /\ \A path \in Path : Pending(path)' <=> Pending(path) /\ path # new
  <2>1. CASE scan.at = "moves"
    <3>1. unmatched = scan.unmatched /\ fresh = scan.fresh \ {new[1]}
      BY <2>1
    <3>2. \A path \in Path : path = new <=> path[2] = new[2] /\ path[1] = new[1]
      BY <1>4 DEF Path
    <3> HIDE DEF unmatched, fresh
    <3>3. \A path \in Path : Late(path)' <=> Late(path) /\ path # new
      BY <1>7, <1>11, <2>1, <3>1 DEF Late
    <3>4. \A path \in Path : /\ Pending(path) <=> Late(path) \/ (path[2] = scan.folder /\ path[1] \in scan.fresh)
                             /\ Pending(path)' <=> Late(path)' \/ (path[2] = scan.folder /\ path[1] \in fresh)
      BY <1>7, <2>1 DEF Pending, Batching
    <3>5. QED
      BY <1>4, <2>1, <3>1, <3>2, <3>3, <3>4
  <2>2. CASE scan.at = "final"
    <3>1. unmatched = scan.unmatched \ {new}
      BY <2>2
    <3> HIDE DEF unmatched, fresh
    <3>2. \A path \in Path : Late(path)' <=> Late(path) /\ path # new
      BY <1>7, <2>2, <3>1 DEF Late
    <3>3. \A path \in Path : (Pending(path) <=> Late(path)) /\ (Pending(path)' <=> Late(path)')
      BY <1>7, <2>2 DEF Pending, Batching
    <3>4. QED
      BY <3>2, <3>3
  <2>3. QED
    BY <1>2, <2>1, <2>2
<1>13. unmatched \subseteq scan.unmatched
  OBVIOUS
<1> HIDE DEF unmatched, fresh
<1>14. \A path \in Path : Wanted(path)' <=> Wanted(path)
  BY <1>2 DEF Wanted
<1>15. SureRight' /\ ListedRight' /\ MissingGone'
  <2>1. Handling' <=> Handling
    BY <1>7 DEF Handling
  <2>2. QED
    BY <1>2, <1>6, <1>7, <1>10, <1>12, <1>14, <2>1, ThreadFacts, Carried DEF Even, Sound, Mind
<1>16. Known'
  BY <1>2, <1>7, <1>8, <1>12, ThreadFacts DEF Even, Sound, Mind, Known
<1>17. Placed' /\ NewDocs'
  BY <1>2, <1>7, <1>13 DEF Even, Sound, Mind, Placed, NewDocs, Batching
<1>18. QED
  BY <1>15, <1>16, <1>17 DEF Even, Sound, Mind

\* What of a folder is no move: it waits for the end, or is added now.
LEMMA NoMoreMovesEven ==
    ASSUME TypeInv, Even, Sure' \subseteq Sure, NoMoreMoves
    PROVE  Sound'
<1>1. scan.at = "moves" /\ UNCHANGED <<at, doc>> /\ scan.folder \in scan.todo
  BY ThreadFacts DEF NoMoreMoves, disk, TypedThread
<1>2. New \in SUBSET Path /\ \A path \in Path : path \in New <=> path[2] = scan.folder /\ path[1] \in scan.fresh
  <2>1. New = {<<song, scan.folder>> : song \in scan.fresh} /\ scan.folder \in Folder
    BY <1>1, ThreadFacts DEF New
  <2>2. New \in SUBSET Path
    BY <2>1, ThreadFacts DEF Path
  <2>3. \A path \in Path : path \in New <=> path[2] = scan.folder /\ path[1] \in scan.fresh
    BY <2>1 DEF Path
  <2>4. QED
    BY <2>2, <2>3
<1>3. \/ scan' = [scan EXCEPT !.at = "save", !.unmatched = scan.unmatched \cup New]
      \/ scan' = [scan EXCEPT !.at = "upsert", !.batch = New, !.then = "save"]
  BY DEF NoMoreMoves
<1>4. /\ scan'.missing = scan.missing /\ scan'.seen = scan.seen /\ scan'.todo = scan.todo
      /\ scan'.folder = scan.folder
      /\ \/ scan'.at = "save" /\ scan'.unmatched = scan.unmatched \cup New
         \/ scan'.at = "upsert" /\ scan'.unmatched = scan.unmatched /\ scan'.batch = New /\ scan'.then = "save"
  <2>1. CASE scan' = [scan EXCEPT !.at = "save", !.unmatched = scan.unmatched \cup New]
    BY <1>2, <2>1, ThreadFacts DEF ThreadState
  <2>2. CASE scan' = [scan EXCEPT !.at = "upsert", !.batch = New, !.then = "save"]
    BY <1>2, <2>2, ThreadFacts DEF ThreadState
  <2>3. QED
    BY <1>3, <2>1, <2>2
<1>5. /\ \A path \in Path : Late(path) => Late(path)'
      /\ \A path \in Path : Pending(path)' <=> Pending(path)
      /\ \A path \in Path : Pending(path) <=> path \in scan.unmatched \cup New
  BY <1>1, <1>2, <1>4 DEF Late, Pending, Batching
<1>6. /\ \A path \in Path : Wanted(path)' <=> Wanted(path)
      /\ \A path \in Path : Exists(path)' <=> Exists(path)
      /\ \A path \in Path : Stays(path)' <=> Stays(path)
  BY <1>1, <1>4 DEF Wanted, Exists, Stays
<1>7. SureRight' /\ ListedRight' /\ MissingGone'
  <2>1. Handling
    BY <1>1 DEF Handling
  <2>2. QED
    BY <1>1, <1>4, <1>5, <1>6, <2>1, ThreadFacts, Carried DEF Even, Sound, Mind
<1>8. Known'
  BY <1>4, <1>5, <1>6, ThreadFacts DEF Even, Sound, Mind, Known
<1>9. Placed'
  <2>1. \A path \in scan.unmatched : path[2] \notin scan.todo
    BY <1>1 DEF Even, Sound, Mind, Placed
  <2>2. \A path \in New : path[2] = scan.folder
    BY <1>2
  <2>3. QED
    BY <1>4, <2>1, <2>2 DEF Placed, Batching
<1>10. NewDocs'
  BY <1>4 DEF NewDocs
<1>11. QED
  BY <1>7, <1>8, <1>9, <1>10 DEF Even, Sound, Mind

\* save_folder_record: what was listed is what the record now stands for.
LEMMA SaveEven ==
    ASSUME TypeInv, Even, CalmInv, Save
    PROVE  Sound'
<1>1. /\ scan.at = "save" /\ UNCHANGED <<at, doc>> /\ scan.folder \in Folder /\ scan.folder \in scan.todo
      /\ \A folder \in Folder : cache'[folder] = "match" =>
            IF folder = scan.folder THEN folder \in scan.seen ELSE cache[folder] = "match"
      /\ (Smooth' <=> Smooth) /\ (calm' <=> calm)
  BY ThreadFacts DEF Save, disk, history, Smooth, TypedThread, TypeInv
<1>2. /\ scan'.at = "folder" /\ scan'.missing = scan.missing /\ scan'.seen = scan.seen \ {scan.folder}
      /\ scan'.todo = scan.todo \ {scan.folder} /\ scan'.unmatched = scan.unmatched
      /\ scan'.found = scan.found /\ scan'.kind = scan.kind
  <2>1. scan' = [scan EXCEPT !.at = "folder", !.todo = scan.todo \ {scan.folder},
                             !.seen = scan.seen \ {scan.folder},
                             !.folder = NoFolder, !.again = FALSE, !.fresh = {}]
    BY DEF Save
  <2>2. QED
    BY <2>1, ThreadFacts DEF ThreadState
<1>3. /\ \A path \in Path : Pending(path) <=> Late(path)
      /\ \A path \in Path : Late(path)' <=> Late(path)
      /\ \A path \in Path : Pending(path)' <=> Pending(path)
      /\ \A path \in Path : Wanted(path)' <=> Wanted(path)
      /\ \A path \in Path : Exists(path)' <=> Exists(path)
      /\ \A path \in Path : Stays(path)' <=> Stays(path)
  BY <1>1, <1>2 DEF Late, Pending, Batching, Wanted, Exists, Stays
<1>4. SureRight'
  <2>0. \A folder \in Sure' : IF folder = scan.folder THEN folder \in scan.seen ELSE folder \in Sure
    <3>1. calm => scan.folder \in scan.seen
      BY <1>1 DEF CalmInv, LeftAlone
    <3>2. QED
      BY <1>1, <1>2, <3>1 DEF Sure, Thorough
  <2>1. ASSUME NEW path \in Path, path[2] \in Sure'
        PROVE  IF Wanted(path) THEN Late(path) \/ Stays(path) ELSE ~Pending(path) /\ ~Stays(path)
    <3>1. CASE path[2] = scan.folder
      BY <1>1, <1>3, <2>0, <2>1, <3>1 DEF Even, Sound, Mind, ListedRight, Handling
    <3>2. CASE path[2] # scan.folder
      <4>1. path[2] \in Sure
        BY <2>0, <2>1, <3>2
      <4>2. QED
        BY <4>1 DEF Even, Sound, Mind, SureRight
    <3>3. QED
      BY <3>1, <3>2
  <2>2. QED
    BY <1>3, <2>1 DEF SureRight
<1>5. ListedRight' /\ MissingGone'
  BY <1>2, <1>3, ThreadFacts DEF Even, Sound, Mind, ListedRight, MissingGone, Handling, Batching
<1>6. Known' /\ Placed' /\ NewDocs'
  BY <1>1, <1>2, <1>3, ThreadFacts DEF Even, Sound, Mind, Known, Placed, NewDocs, Batching
<1>7. QED
  BY <1>4, <1>5, <1>6 DEF Even, Sound, Mind

\* The folders are done, and what waited is added.
LEMMA DoneEven ==
    ASSUME TypeInv, Even, Sure' \subseteq Sure, FoldersDone \/ Final
    PROVE  Sound'
<1>1. scan.at \in {"folder", "final"} /\ UNCHANGED <<at, doc, cache>>
  BY DEF FoldersDone, Final, disk
<1>2. /\ scan'.missing = scan.missing /\ scan'.seen \subseteq scan.seen
      /\ \/ scan'.at = "final" /\ scan'.unmatched = scan.unmatched /\ scan'.todo = {}
         \/ scan'.at = "remove" /\ scan.unmatched = {} /\ scan'.unmatched = {}
         \/ /\ scan'.at = "upsert" /\ scan'.unmatched = {} /\ scan'.batch = scan.unmatched
            /\ scan'.then = "remove"
  <2>1. CASE FoldersDone
    BY <2>1, ThreadFacts DEF FoldersDone, ThreadState
  <2>2. CASE Final
    <3>1. PICK step \in {"remove", "upsert"} :
            /\ step = IF scan.unmatched = {} THEN "remove" ELSE "upsert"
            /\ scan' = [scan EXCEPT !.at = step, !.batch = scan.unmatched, !.unmatched = {}, !.then = "remove"]
      BY <2>2 DEF Final
    <3>2. /\ scan'.at = step /\ scan'.missing = scan.missing /\ scan'.seen = scan.seen
          /\ scan'.unmatched = {} /\ scan'.batch = scan.unmatched /\ scan'.then = "remove"
      BY <3>1, ThreadFacts DEF ThreadState
    <3>3. QED
      BY <3>1, <3>2
  <2>3. QED
    BY <2>1, <2>2
<1>3. /\ \A path \in Path : Late(path) <=> path \in scan.unmatched
      /\ \A path \in Path : Pending(path) <=> path \in scan.unmatched
      /\ \A path \in Path : Late(path)' <=> path \in scan.unmatched
      /\ \A path \in Path : Pending(path)' <=> path \in scan.unmatched
      /\ \A path \in Path : Wanted(path)' <=> Wanted(path)
      /\ \A path \in Path : Exists(path)' <=> Exists(path)
      /\ \A path \in Path : Stays(path)' <=> Stays(path)
      /\ ~Handling'
  BY <1>1, <1>2 DEF Late, Pending, Batching, Wanted, Exists, Stays, Handling
<1>4. SureRight' /\ ListedRight' /\ MissingGone'
  BY <1>1, <1>2, <1>3, ThreadFacts, Carried DEF Even, Sound, Mind
<1>5. Known'
  BY <1>2, <1>3, ThreadFacts DEF Even, Sound, Mind, Known
<1>6. Placed' /\ NewDocs'
  BY <1>2 DEF Placed, NewDocs, Batching
<1>7. QED
  BY <1>4, <1>5, <1>6 DEF Even, Sound, Mind

\* remove_deleted_files: what is left is what was to stay, and nothing waits.
LEMMA RemoveEven ==
    ASSUME TypeInv, Even, Sure' \subseteq Sure, Remove
    PROVE  Sound'
<1>1. /\ scan.at = "remove" /\ UNCHANGED at
      /\ doc' = [path \in Path |-> IF path \in scan.missing THEN NoDoc ELSE doc[path]]
  BY DEF Remove, disk
<1>2. /\ scan'.at = "tidy" /\ scan'.missing = {} /\ scan'.unmatched = {} /\ scan'.batch = {}
      /\ scan'.seen = {} /\ scan'.then = "none"
  BY DEF Remove, Thread
<1>3. scan.unmatched = {}
  BY <1>1 DEF Even, Sound, Mind, Placed
<1>4. /\ \A path \in Path : ~Late(path) /\ ~Pending(path) /\ ~Late(path)' /\ ~Pending(path)'
      /\ \A path \in Path : Wanted(path)' <=> Wanted(path)
      /\ \A path \in Path : Stays(path)' <=> Stays(path)
      /\ ~Handling'
  BY <1>1, <1>2, <1>3 DEF Late, Pending, Batching, Wanted, Stays, Exists, Handling
<1>5. SureRight' /\ ListedRight' /\ MissingGone'
  BY <1>1, <1>2, <1>4, ThreadFacts, Carried DEF Even, Sound, Mind
<1>6. Known' /\ Placed' /\ NewDocs'
  BY <1>2, <1>4 DEF Known, Placed, NewDocs, Batching
<1>7. QED
  BY <1>5, <1>6 DEF Even, Sound, Mind

-----------------------------------------------------------------------------
(* The thread after a step. *)

\* A query that does not change more than where the thread is.
LEMMA GotoGives ==
    ASSUME TypeInv, NEW step, Goto(step)
    PROVE  /\ scan'.at = step /\ scan'.kind = scan.kind /\ scan'.todo = scan.todo /\ scan'.found = scan.found
           /\ scan'.seen = scan.seen /\ scan'.folder = scan.folder /\ scan'.again = scan.again
           /\ scan'.hasTagged = scan.hasTagged /\ scan'.missing = scan.missing /\ scan'.prints = scan.prints
           /\ scan'.fresh = scan.fresh /\ scan'.unmatched = scan.unmatched /\ scan'.batch = scan.batch
           /\ scan'.then = scan.then /\ scan'.outdated = scan.outdated
BY ThreadFacts DEF ThreadState, Goto

LEMMA RaiseGives ==
    ASSUME TypeInv, Raise
    PROVE  \/ scan.folder = NoFolder /\ scan' = Thread(scan.kind, "error")
           \/ /\ scan.folder # NoFolder
              /\ IF scan.again
                 THEN /\ scan'.at = "folder" /\ scan'.again = FALSE /\ scan'.folder = NoFolder
                      /\ scan'.todo = scan.todo \ {scan.folder}
                 ELSE /\ scan'.at = "list" /\ scan'.again = TRUE /\ scan'.folder = scan.folder
                      /\ scan'.todo = scan.todo
              /\ scan'.kind = scan.kind /\ scan'.found = scan.found /\ scan'.seen = scan.seen
              /\ scan'.hasTagged = scan.hasTagged /\ scan'.missing = scan.missing /\ scan'.prints = scan.prints
              /\ scan'.fresh = {} /\ scan'.unmatched = scan.unmatched /\ scan'.batch = {}
              /\ scan'.then = scan.then /\ scan'.outdated = scan.outdated
<1>1. scan.again \in BOOLEAN
  BY ThreadFacts DEF ThreadState
<1>2. CASE scan.folder = NoFolder
  BY <1>2 DEF Raise
<1>3. CASE scan.folder # NoFolder /\ scan.again
  <2>1. scan' = [scan EXCEPT !.at = "folder", !.again = FALSE, !.batch = {}, !.fresh = {},
                             !.todo = scan.todo \ {scan.folder}, !.folder = NoFolder]
    BY <1>1, <1>3 DEF Raise
  <2>2. QED
    BY <1>3, <2>1, ThreadFacts DEF ThreadState
<1>4. CASE scan.folder # NoFolder /\ ~scan.again
  <2>1. scan' = [scan EXCEPT !.at = "list", !.again = TRUE, !.batch = {}, !.fresh = {},
                             !.todo = scan.todo, !.folder = scan.folder]
    BY <1>1, <1>4 DEF Raise
  <2>2. QED
    BY <1>4, <2>1, ThreadFacts DEF ThreadState
<1>5. QED
  BY <1>1, <1>2, <1>3, <1>4

LEMMA WalkGives ==
    ASSUME TypeInv, Walk
    PROVE  LET found    == {at[song] : song \in Song} \ {NoFolder}
               vanished == {folder \in Folder \ found : cache[folder] # "none"}
               gone     == UNION {Below(folder) : folder \in vanished}
           IN  /\ scan'.at = "folder" /\ scan'.kind = scan.kind
               /\ scan'.todo = {folder \in found : scan.kind = "full" \/ cache[folder] # "match"}
               /\ scan'.found = found /\ scan'.seen = found /\ scan'.folder = scan.folder
               /\ scan'.again = scan.again /\ (scan'.hasTagged <=> \E path \in Path : Tagged(path))
               /\ scan'.missing = gone /\ scan'.prints = {path \in gone : doc[path].print}
               /\ scan'.fresh = scan.fresh /\ scan'.unmatched = scan.unmatched /\ scan'.batch = scan.batch
               /\ scan'.then = scan.then /\ scan'.outdated = scan.outdated
<1> DEFINE found    == {at[song] : song \in Song} \ {NoFolder}
           vanished == {folder \in Folder \ found : cache[folder] # "none"}
           gone     == UNION {Below(folder) : folder \in vanished}
           todo     == {folder \in found : scan.kind = "full" \/ cache[folder] # "match"}
           prints   == {path \in gone : doc[path].print}
           tagged   == \E path \in Path : Tagged(path)
<1>1. scan' = [scan EXCEPT !.at = "folder", !.todo = todo, !.found = found, !.seen = found,
                           !.hasTagged = tagged, !.missing = gone, !.prints = prints]
  BY DEF Walk
<1> HIDE DEF found, vanished, gone, todo, prints, tagged
<1>2. /\ scan'.at = "folder" /\ scan'.kind = scan.kind /\ scan'.todo = todo
      /\ scan'.found = found /\ scan'.seen = found /\ scan'.folder = scan.folder
      /\ scan'.again = scan.again /\ scan'.hasTagged = tagged
      /\ scan'.missing = gone /\ scan'.prints = prints
      /\ scan'.fresh = scan.fresh /\ scan'.unmatched = scan.unmatched /\ scan'.batch = scan.batch
      /\ scan'.then = scan.then /\ scan'.outdated = scan.outdated
  BY <1>1, ThreadFacts DEF ThreadState
<1>3. QED
  BY <1>2 DEF found, vanished, gone, todo, prints, tagged

\* A folder is listed as it is, or something failed.
LEMMA ListGives ==
    ASSUME TypeInv, NEW folder \in Folder, List(folder)
    PROVE  \E listed \in SUBSET Song : \E unread \in SUBSET Song :
             LET there   == {song \in Song : at[song] = folder}
                 known   == Below(folder)
                 gone    == known \ (listed \X {folder})
                 updated == {path \in known : path[1] \in listed \ unread /\ path[2] = folder /\ ~doc[path].current}
             IN  /\ (listed = there /\ unread = {} /\ UNCHANGED <<faults, history>>) \/ Fault
                 /\ scan'.at = (IF updated = {} THEN "moves" ELSE "upsert")
                 /\ scan'.kind = scan.kind /\ scan'.todo = scan.todo /\ scan'.found = scan.found
                 /\ scan'.seen = scan.seen /\ scan'.folder = folder /\ scan'.again = scan.again
                 /\ scan'.hasTagged = scan.hasTagged /\ scan'.missing = scan.missing \cup gone
                 /\ scan'.prints = scan.prints \cup {path \in gone : doc[path].print}
                 /\ scan'.fresh = {song \in listed \ unread : <<song, folder>> \notin known}
                 /\ scan'.unmatched = scan.unmatched /\ scan'.batch = updated
                 /\ scan'.then = "moves" /\ scan'.outdated = scan.outdated \ listed
<1> DEFINE body(listed, unread) ==
      LET there   == {song \in Song : at[song] = folder}
          known   == Below(folder)
          gone    == known \ (listed \X {folder})
          updated == {path \in known : path[1] \in listed \ unread /\ path[2] = folder /\ ~doc[path].current}
      IN  /\ \/ listed = there /\ unread = {} /\ UNCHANGED <<faults, history>>
             \/ listed = {} /\ unread = {} /\ there # {} /\ Fault
             \/ listed = there /\ unread # {} /\ unread \subseteq there /\ Fault
          /\ scan' = [scan EXCEPT !.at = IF updated = {} THEN "moves" ELSE "upsert",
                                  !.folder = folder,
                                  !.missing = @ \cup gone,
                                  !.prints = @ \cup {path \in gone : doc[path].print},
                                  !.fresh = {song \in listed \ unread : <<song, folder>> \notin known},
                                  !.batch = updated,
                                  !.then = "moves",
                                  !.outdated = @ \ listed]
<1>1. PICK listed \in SUBSET Song, unread \in SUBSET Song : body(listed, unread)
  BY Zenon DEF List
<1> DEFINE known   == Below(folder)
           gone    == known \ (listed \X {folder})
           updated == {path \in known : path[1] \in listed \ unread /\ path[2] = folder /\ ~doc[path].current}
           prints  == scan.prints \cup {path \in gone : doc[path].print}
           fresh   == {song \in listed \ unread : <<song, folder>> \notin known}
           missing == scan.missing \cup gone
           rest    == scan.outdated \ listed
           step    == IF updated = {} THEN "moves" ELSE "upsert"
<1>2. scan' = [scan EXCEPT !.at = step, !.folder = folder, !.missing = missing, !.prints = prints,
                           !.fresh = fresh, !.batch = updated, !.then = "moves", !.outdated = rest]
  BY <1>1
<1>3. (listed = {song \in Song : at[song] = folder} /\ unread = {} /\ UNCHANGED <<faults, history>>) \/ Fault
  BY <1>1
<1> HIDE DEF body, known, gone, updated, prints, fresh, missing, rest, step
<1>4. /\ scan'.at = step /\ scan'.kind = scan.kind /\ scan'.todo = scan.todo /\ scan'.found = scan.found
      /\ scan'.seen = scan.seen /\ scan'.folder = folder /\ scan'.again = scan.again
      /\ scan'.hasTagged = scan.hasTagged /\ scan'.missing = missing /\ scan'.prints = prints
      /\ scan'.fresh = fresh /\ scan'.unmatched = scan.unmatched /\ scan'.batch = updated
      /\ scan'.then = "moves" /\ scan'.outdated = rest
  BY <1>2, ThreadFacts DEF ThreadState
<1>5. QED
  BY <1>3, <1>4, Zenon DEF known, gone, updated, prints, fresh, missing, rest, step

LEMMA MatchGives ==
    ASSUME TypeInv, NEW old, NEW new, Match(old, new)
    PROVE  /\ scan'.at = scan.at /\ scan'.kind = scan.kind /\ scan'.todo = scan.todo /\ scan'.found = scan.found
           /\ scan'.seen = scan.seen /\ scan'.folder = scan.folder /\ scan'.again = scan.again
           /\ scan'.hasTagged = scan.hasTagged /\ scan'.missing = scan.missing \ {old}
           /\ scan'.prints = scan.prints \ {old}
           /\ scan'.fresh = (IF scan.at = "moves" THEN scan.fresh \ {new[1]} ELSE scan.fresh)
           /\ scan'.unmatched = (IF scan.at = "final" THEN scan.unmatched \ {new} ELSE scan.unmatched)
           /\ scan'.batch = scan.batch /\ scan'.then = scan.then /\ scan'.outdated = scan.outdated
<1> DEFINE fresh     == IF scan.at = "moves" THEN scan.fresh \ {new[1]} ELSE scan.fresh
           unmatched == IF scan.at = "final" THEN scan.unmatched \ {new} ELSE scan.unmatched
           missing   == scan.missing \ {old}
           prints    == scan.prints \ {old}
<1>1. scan' = [scan EXCEPT !.missing = missing, !.prints = prints, !.fresh = fresh, !.unmatched = unmatched]
  BY DEF Match
<1> HIDE DEF fresh, unmatched, missing, prints
<1>2. /\ scan'.at = scan.at /\ scan'.kind = scan.kind /\ scan'.todo = scan.todo /\ scan'.found = scan.found
      /\ scan'.seen = scan.seen /\ scan'.folder = scan.folder /\ scan'.again = scan.again
      /\ scan'.hasTagged = scan.hasTagged /\ scan'.missing = missing /\ scan'.prints = prints
      /\ scan'.fresh = fresh /\ scan'.unmatched = unmatched
      /\ scan'.batch = scan.batch /\ scan'.then = scan.then /\ scan'.outdated = scan.outdated
  BY <1>1, ThreadFacts DEF ThreadState
<1>3. QED
  BY <1>2 DEF fresh, unmatched, missing, prints

LEMMA NoMoreMovesGives ==
    ASSUME TypeInv, NoMoreMoves
    PROVE  /\ scan'.kind = scan.kind /\ scan'.todo = scan.todo /\ scan'.found = scan.found
           /\ scan'.seen = scan.seen /\ scan'.folder = scan.folder /\ scan'.again = scan.again
           /\ scan'.hasTagged = scan.hasTagged /\ scan'.missing = scan.missing /\ scan'.prints = scan.prints
           /\ scan'.fresh = scan.fresh /\ scan'.outdated = scan.outdated
           /\ \/ /\ scan'.at = "save" /\ scan'.unmatched = scan.unmatched \cup New
                 /\ scan'.batch = scan.batch /\ scan'.then = scan.then
              \/ /\ ~scan.hasTagged /\ scan'.at = "upsert" /\ scan'.unmatched = scan.unmatched
                 /\ scan'.batch = New /\ scan'.then = "save"
<1>1. \/ scan' = [scan EXCEPT !.at = "save", !.unmatched = scan.unmatched \cup New]
      \/ ~scan.hasTagged /\ scan' = [scan EXCEPT !.at = "upsert", !.batch = New, !.then = "save"]
  BY DEF NoMoreMoves
<1> HIDE DEF New
<1>2. CASE scan' = [scan EXCEPT !.at = "save", !.unmatched = scan.unmatched \cup New]
  BY <1>2, ThreadFacts DEF ThreadState
<1>3. CASE ~scan.hasTagged /\ scan' = [scan EXCEPT !.at = "upsert", !.batch = New, !.then = "save"]
  BY <1>3, ThreadFacts DEF ThreadState
<1>4. QED
  BY <1>1, <1>2, <1>3

LEMMA SaveGives ==
    ASSUME TypeInv, Save
    PROVE  /\ scan'.at = "folder" /\ scan'.kind = scan.kind /\ scan'.todo = scan.todo \ {scan.folder}
           /\ scan'.found = scan.found /\ scan'.seen = scan.seen \ {scan.folder} /\ scan'.folder = NoFolder
           /\ scan'.again = FALSE /\ scan'.hasTagged = scan.hasTagged /\ scan'.missing = scan.missing
           /\ scan'.prints = scan.prints /\ scan'.fresh = {} /\ scan'.unmatched = scan.unmatched
           /\ scan'.batch = scan.batch /\ scan'.then = scan.then /\ scan'.outdated = scan.outdated
<1>1. scan' = [scan EXCEPT !.at = "folder", !.todo = scan.todo \ {scan.folder},
                           !.seen = scan.seen \ {scan.folder},
                           !.folder = NoFolder, !.again = FALSE, !.fresh = {}]
  BY DEF Save
<1>2. QED
  BY <1>1, ThreadFacts DEF ThreadState

LEMMA DoneGives ==
    ASSUME TypeInv, FoldersDone \/ Final
    PROVE  /\ scan'.kind = scan.kind /\ scan'.todo = scan.todo /\ scan'.found = scan.found
           /\ scan'.folder = scan.folder
           /\ scan'.hasTagged = scan.hasTagged /\ scan'.missing = scan.missing /\ scan'.prints = scan.prints
           /\ scan'.fresh = scan.fresh /\ scan'.outdated = scan.outdated
           /\ \/ /\ FoldersDone /\ scan'.at = "final" /\ scan'.again = FALSE /\ scan'.seen = {}
                 /\ scan'.batch = scan.batch /\ scan'.then = scan.then /\ scan'.unmatched = scan.unmatched
              \/ /\ Final /\ scan'.at = (IF scan.unmatched = {} THEN "remove" ELSE "upsert")
                 /\ scan'.again = scan.again /\ scan'.seen = scan.seen
                 /\ scan'.batch = scan.unmatched /\ scan'.then = "remove" /\ scan'.unmatched = {}
<1>1. CASE FoldersDone
  <2>1. scan' = [scan EXCEPT !.at = "final", !.again = FALSE, !.seen = {}]
    BY <1>1 DEF FoldersDone
  <2>2. QED
    BY <1>1, <2>1, ThreadFacts DEF ThreadState
<1>2. CASE Final
  <2>1. PICK step \in {"remove", "upsert"} :
          /\ step = IF scan.unmatched = {} THEN "remove" ELSE "upsert"
          /\ scan' = [scan EXCEPT !.at = step, !.batch = scan.unmatched, !.unmatched = {}, !.then = "remove"]
    BY <1>2 DEF Final
  <2>2. QED
    BY <1>2, <2>1, ThreadFacts DEF ThreadState
<1>3. QED
  BY <1>1, <1>2

LEMMA RemoveGives ==
    ASSUME Remove
    PROVE  /\ scan'.at = "tidy" /\ scan'.kind = scan.kind /\ scan'.todo = {} /\ scan'.found = scan.found
           /\ scan'.seen = {} /\ scan'.folder = NoFolder /\ scan'.again = FALSE /\ scan'.missing = {}
           /\ scan'.prints = {} /\ scan'.fresh = {} /\ scan'.unmatched = {} /\ scan'.batch = {}
           /\ scan'.then = "none" /\ scan'.outdated = {} /\ scan'.hasTagged = FALSE
BY DEF Remove, Thread

\* No document comes or goes, or gets older.
StatesChange ==
    \A path \in Path :
        /\ Exists(path)' <=> Exists(path)
        /\ Exists(path) => doc'[path].current = doc[path].current /\ (doc[path].print => doc'[path].print)

\* The queries for the states of a batch change no more than states, and go on, or raise
\* because of a document with both states of an axis.
LEMMA StatesGive ==
    ASSUME TypeInv, DocInv, Initialize \/ Bootstrap \/ MarkScanned \/ MarkUnerrored
    PROVE  /\ scan.at \in {"init", "short", "scanned", "unerror"}
           /\ UNCHANGED <<at, cache, faults, calm, bound>>
           /\ StatesChange
           /\ \/ /\ \/ scan'.at \in {"short", "scanned", "unerror"} /\ scan'.batch = scan.batch
                    \/ scan'.at = scan.then /\ scan'.batch = {}
                 /\ scan'.kind = scan.kind /\ scan'.todo = scan.todo /\ scan'.found = scan.found
                 /\ scan'.seen = scan.seen /\ scan'.folder = scan.folder /\ scan'.again = scan.again
                 /\ scan'.hasTagged = scan.hasTagged /\ scan'.missing = scan.missing /\ scan'.prints = scan.prints
                 /\ scan'.fresh = scan.fresh /\ scan'.unmatched = scan.unmatched
                 /\ scan'.then = scan.then /\ scan'.outdated = scan.outdated
              \/ /\ Raise
                 /\ scan.at \in {"short", "scanned", "unerror"}
                 /\ \E path \in scan.batch : ~Single(doc[path].edges)
<1> DEFINE goes(step, batch) ==
      /\ scan'.at = step /\ scan'.batch = batch
      /\ scan'.kind = scan.kind /\ scan'.todo = scan.todo /\ scan'.found = scan.found
      /\ scan'.seen = scan.seen /\ scan'.folder = scan.folder /\ scan'.again = scan.again
      /\ scan'.hasTagged = scan.hasTagged /\ scan'.missing = scan.missing /\ scan'.prints = scan.prints
      /\ scan'.fresh = scan.fresh /\ scan'.unmatched = scan.unmatched
      /\ scan'.then = scan.then /\ scan'.outdated = scan.outdated
<1>1. ASSUME NEW path \in Path, NEW edges \in SUBSET State, Exists(path),
             doc'[path] = [doc[path] EXCEPT !.edges = edges]
      PROVE  Exists(path)' /\ doc'[path].current = doc[path].current /\ doc'[path].print = doc[path].print
  <2>1. doc[path] \in Document
    BY <1>1, DocKept DEF DocInv, Exists
  <2> DEFINE d == [doc[path] EXCEPT !.edges = edges]
  <2>2. d \in Document /\ d.current = doc[path].current /\ d.print = doc[path].print
    BY <2>1 DEF Document
  <2>3. doc'[path] = d
    BY <1>1
  <2> HIDE DEF d
  <2>4. d # NoDoc
    BY <2>2, DocMoves
  <2>5. QED
    BY <2>2, <2>3, <2>4 DEF Exists
<1>2. ASSUME NEW done \in SUBSET scan.batch, scan.at \in {"init", "short", "scanned", "unerror"},
             \A path \in done : \E edges \in SUBSET State : doc'[path] = [doc[path] EXCEPT !.edges = edges],
             \A path \in Path \ done : doc'[path] = doc[path]
      PROVE  StatesChange
  <2>1. ASSUME NEW path \in done
        PROVE  /\ Exists(path)' /\ Exists(path)
               /\ doc'[path].current = doc[path].current /\ doc'[path].print = doc[path].print
    <3>1. path \in Path /\ Exists(path)
      BY <1>2, DocKept, ThreadFacts DEF DocInv, Exists
    <3>2. PICK edges \in SUBSET State : doc'[path] = [doc[path] EXCEPT !.edges = edges]
      BY <1>2
    <3>3. QED
      BY <1>1, <3>1, <3>2
  <2>2. ASSUME NEW path \in Path \ done
        PROVE  (Exists(path)' <=> Exists(path)) /\ doc'[path] = doc[path]
    BY <1>2 DEF Exists
  <2>3. QED
    BY <2>1, <2>2 DEF StatesChange
<1>3. scan.at \in {"short", "scanned", "unerror"} => \A path \in scan.batch : doc[path].edges \in SUBSET State
  BY DEF DocInv, WholeDoc, Document
<1>4. CASE Initialize
  <2>1. scan.at = "init" /\ UNCHANGED <<at, cache, faults, calm, bound>> /\ Goto("short")
    BY <1>4 DEF Initialize, disk, history
  <2>2. ASSUME NEW path \in scan.batch
        PROVE  \E edges \in SUBSET State : doc'[path] = [doc[path] EXCEPT !.edges = edges]
    <3>1. doc'[path] = [doc[path] EXCEPT !.edges = Initialized(doc[path].edges)]
      BY <1>4, <2>2, ThreadFacts DEF Initialize
    <3>2. doc[path].edges \in SUBSET State
      <4>1. doc[path] \in Document
        BY <2>1, <2>2, DocKept, ThreadFacts DEF DocInv
      <4>2. QED
        BY <4>1 DEF Document
    <3>3. QED
      BY <3>1, <3>2, InitializedWhole
  <2>3. \A path \in Path \ scan.batch : doc'[path] = doc[path]
    BY <1>4 DEF Initialize
  <2>4. StatesChange
    BY <1>2, <2>1, <2>2, <2>3
  <2>5. goes("short", scan.batch)
    BY <2>1, GotoGives
  <2>6. QED
    BY <2>1, <2>4, <2>5
<1>5. CASE Bootstrap
  <2> DEFINE short      == {path \in scan.batch : path[1] \in Short}
             next(path) == Transitioned(doc[path].edges, Is("tagged"))
  <2>1. scan.at = "short" /\ UNCHANGED <<at, cache, faults, calm, bound>>
    BY <1>5 DEF Bootstrap, disk, history
  <2>2. PICK done \in SUBSET short : \E edges \in [done -> UNION {next(path) : path \in done}] :
          /\ \A path \in done : edges[path] \in next(path)
          /\ doc' = [path \in Path |-> IF path \in done THEN [doc[path] EXCEPT !.edges = edges[path]]
                                       ELSE doc[path]]
          /\ \/ done = short /\ Goto("scanned")
             \/ (\E path \in short \ done : MayRaise(doc[path].edges, Is("tagged"))) /\ Raise
    BY <1>5, Zenon DEF Bootstrap
  <2>3. PICK edges \in [done -> UNION {next(path) : path \in done}] :
          /\ \A path \in done : edges[path] \in next(path)
          /\ doc' = [path \in Path |-> IF path \in done THEN [doc[path] EXCEPT !.edges = edges[path]]
                                       ELSE doc[path]]
          /\ \/ done = short /\ Goto("scanned")
             \/ (\E path \in short \ done : MayRaise(doc[path].edges, Is("tagged"))) /\ Raise
    BY <2>2, Zenon
  <2>4. done \in SUBSET scan.batch /\ "tagged" \in Axis
    BY ThreeAxes
  <2>5. ASSUME NEW path \in done
        PROVE  \E states \in SUBSET State : doc'[path] = [doc[path] EXCEPT !.edges = states]
    <3>1. path \in Path /\ doc'[path] = [doc[path] EXCEPT !.edges = edges[path]] /\ edges[path] \in next(path)
      BY <2>3, <2>4, ThreadFacts
    <3>2. edges[path] \in SUBSET State
      BY ZenonT(60), <1>3, <2>1, <2>4, <3>1, TransitionedWhole
    <3>3. QED
      BY <3>1, <3>2
  <2>6. \A path \in Path \ done : doc'[path] = doc[path]
    BY <2>3
  <2>7. StatesChange
    BY <1>2, <2>1, <2>4, <2>5, <2>6
  <2>8. CASE Goto("scanned")
    BY <2>1, <2>7, <2>8, GotoGives
  <2>9. ASSUME NEW path \in short, MayRaise(doc[path].edges, Is("tagged")), Raise
        PROVE  Raise /\ \E other \in scan.batch : ~Single(doc[other].edges)
    BY <1>3, <2>1, <2>4, <2>9, SingleSteps
  <2>10. QED
    BY <2>1, <2>3, <2>7, <2>8, <2>9
<1>6. ASSUME NEW from \in State, NEW step \in {"scanned", "unerror"},
             Mark(step, from, IF step = "scanned" THEN "unerror" ELSE scan.then)
      PROVE  /\ UNCHANGED <<at, cache, faults, calm, bound>> /\ scan.at = step
             /\ StatesChange
             /\ \/ step = "scanned" /\ goes("unerror", scan.batch)
                \/ step = "unerror" /\ goes(scan.then, {})
                \/ Raise /\ \E path \in scan.batch : ~Single(doc[path].edges)
  <2>1. UNCHANGED <<at, cache, faults, calm, bound>> /\ scan.at = step
    BY <1>6 DEF Mark, disk, history
  <2>2. CASE \E path \in scan.batch : BulkRaises(doc[path].edges, from)
    <3>1. Raise /\ UNCHANGED doc
      BY <1>6, <2>2 DEF Mark
    <3>2. \E path \in scan.batch : ~Single(doc[path].edges)
      BY <1>3, <2>1, <2>2, SingleSteps
    <3>3. QED
      BY <2>1, <3>1, <3>2 DEF StatesChange, Exists
  <2>3. CASE ~\E path \in scan.batch : BulkRaises(doc[path].edges, from)
    <3> DEFINE next == IF step = "scanned" THEN "unerror" ELSE scan.then
               rest == IF step = "unerror" THEN {} ELSE scan.batch
    <3>1. /\ doc' = [path \in Path |-> IF path \in scan.batch
                                       THEN [doc[path] EXCEPT !.edges = BulkSet(doc[path].edges, from)]
                                       ELSE doc[path]]
          /\ scan' = [scan EXCEPT !.at = next, !.batch = rest]
      BY <1>6, <2>3 DEF Mark
    <3>2. goes(next, rest)
      <4> HIDE DEF next, rest
      <4>1. QED
        BY <3>1, ThreadFacts DEF ThreadState
    <3>3. ASSUME NEW path \in scan.batch
          PROVE  \E edges \in SUBSET State : doc'[path] = [doc[path] EXCEPT !.edges = edges]
      <4>1. doc'[path] = [doc[path] EXCEPT !.edges = BulkSet(doc[path].edges, from)]
        BY <3>1, ThreadFacts
      <4>2. QED
        BY <1>3, <2>1, <4>1, BulkSetWhole
    <3>4. \A path \in Path \ scan.batch : doc'[path] = doc[path]
      BY <3>1
    <3>5. StatesChange
      BY <1>2, <2>1, <3>3, <3>4
    <3> HIDE DEF goes
    <3>6. QED
      BY <2>1, <3>2, <3>5
  <2>4. QED
    BY <2>2, <2>3
<1>7. CASE MarkScanned \/ MarkUnerrored
  <2>1. PICK step \in {"scanned", "unerror"}, from \in State :
          Mark(step, from, IF step = "scanned" THEN "unerror" ELSE scan.then)
    BY <1>7, StatesTyped, ThreeAxes DEF MarkScanned, MarkUnerrored
  <2>2. QED
    BY <1>6, <2>1
<1>8. QED
  BY <1>4, <1>5, <1>7

\* A step of the world or of the service changes the disk behind the back of the scan,
\* ends it, starts it, or leaves it alone.
LEMMA WorldGives ==
    ASSUME TypeInv, World \/ Service
    PROVE  /\ \/ /\ scan'.at = scan.at /\ scan'.kind = scan.kind /\ scan'.todo = scan.todo
                 /\ scan'.found = scan.found /\ scan'.seen \subseteq scan.seen /\ scan'.folder = scan.folder
                 /\ scan'.again = scan.again /\ scan'.hasTagged = scan.hasTagged
                 /\ scan'.missing = scan.missing /\ scan'.prints = scan.prints /\ scan'.fresh = scan.fresh
                 /\ scan'.unmatched = scan.unmatched /\ scan'.batch = scan.batch /\ scan'.then = scan.then
                 /\ Disturb \/ scan' = scan
              \/ Fault /\ scan' = NoThread
              \/ scan = NoThread /\ \E kind \in {"quick", "full"} : scan' = Thread(kind, "validate")
           /\ faults' = faults \/ Fault
           /\ Disturb \/ UNCHANGED <<at, calm, bound>>
           /\ \A folder \in Folder : /\ cache'[folder] = "none" <=> cache[folder] = "none"
                                     /\ cache'[folder] = "match" => cache[folder] = "match"
<1>1. ASSUME NEW song \in Song, NEW to \in Folder \cup {NoFolder}, Change(song, to)
      PROVE  /\ \E seen \in SUBSET scan.seen : scan' = [scan EXCEPT !.seen = seen]
             /\ Disturb /\ faults' = faults
             /\ \A folder \in Folder : /\ cache'[folder] = "none" <=> cache[folder] = "none"
                                       /\ cache'[folder] = "match" => cache[folder] = "match"
  <2>1. scan' = [scan EXCEPT !.seen = scan.seen \ {to, at[song]}]
    BY <1>1 DEF Change
  <2>2. cache' = [folder \in Folder |-> IF folder \in {to, at[song]} /\ cache[folder] = "match"
                                        THEN "old" ELSE cache[folder]]
    BY <1>1 DEF Change
  <2>3. QED
    BY <1>1, <2>1, <2>2 DEF Change
<1>2. ASSUME NEW song \in Song, Edit(song)
      PROVE  /\ \E outdated : scan' = [scan EXCEPT !.outdated = outdated]
             /\ Disturb /\ faults' = faults /\ cache' = cache
  BY <1>2 DEF Edit
<1>3. ASSUME \E seen \in SUBSET scan.seen : scan' = [scan EXCEPT !.seen = seen]
      PROVE  /\ scan'.at = scan.at /\ scan'.kind = scan.kind /\ scan'.todo = scan.todo
             /\ scan'.found = scan.found /\ scan'.seen \subseteq scan.seen /\ scan'.folder = scan.folder
             /\ scan'.again = scan.again /\ scan'.hasTagged = scan.hasTagged
             /\ scan'.missing = scan.missing /\ scan'.prints = scan.prints /\ scan'.fresh = scan.fresh
             /\ scan'.unmatched = scan.unmatched /\ scan'.batch = scan.batch /\ scan'.then = scan.then
  BY <1>3, ThreadFacts DEF ThreadState
<1>4. ASSUME \E outdated : scan' = [scan EXCEPT !.outdated = outdated]
      PROVE  /\ scan'.at = scan.at /\ scan'.kind = scan.kind /\ scan'.todo = scan.todo
             /\ scan'.found = scan.found /\ scan'.seen = scan.seen /\ scan'.folder = scan.folder
             /\ scan'.again = scan.again /\ scan'.hasTagged = scan.hasTagged
             /\ scan'.missing = scan.missing /\ scan'.prints = scan.prints /\ scan'.fresh = scan.fresh
             /\ scan'.unmatched = scan.unmatched /\ scan'.batch = scan.batch /\ scan'.then = scan.then
  BY <1>4, ThreadFacts DEF ThreadState
<1>5. CASE UNCHANGED <<at, cache, scan, faults, calm, bound>>
  BY <1>5
<1>6. ASSUME NEW r \in Requester, Start(r)
      PROVE  /\ UNCHANGED <<at, cache, faults, calm, bound>>
             /\ scan' = scan \/ (scan = NoThread /\ \E kind \in {"quick", "full"} : scan' = Thread(kind, "validate"))
  BY <1>6 DEF Start, disk, history, Running
<1>7. CASE Crash
  BY <1>7 DEF Crash, Fault, disk
<1>8. CASE World
  <2>1. CASE \E song \in Song, to \in Folder \cup {NoFolder} : Change(song, to)
    BY <1>1, <1>3, <2>1
  <2>2. CASE \E song \in Song : Edit(song)
    BY <1>2, <1>4, <2>2
  <2>3. CASE \E path \in Path : Work(path) \/ WorkFails(path)
    BY <1>5, <2>3 DEF Work, WorkFails, disk, history
  <2>4. QED
    BY <1>8, <2>1, <2>2, <2>3 DEF World
<1>9. CASE Service
  <2>1. CASE \E r \in Requester : Start(r)
    BY <1>6, <2>1
  <2>2. CASE Sync \/ \E r \in Requester : SetScanning(r)
    BY <1>5, <2>2 DEF Sync, SetScanning, disk, history
  <2>3. CASE \E r \in Requester, kind \in {"quick", "full"} : Ask(r, kind)
    BY <1>5, <2>3 DEF Ask, disk, history
  <2>4. QED
    BY <1>7, <1>9, <2>1, <2>2, <2>3 DEF Service
<1>10. QED
  BY <1>8, <1>9

-----------------------------------------------------------------------------
(* Every step. *)

\* Where a scan has nothing in mind, and where it is in a folder.
LEMMA StepPlacing ==
    ASSUME TypeInv, DocInv, Placing, [Next]_vars
    PROVE  Placing'
<1>1. /\ scan.at \in Batching => scan.then \in {"moves", "save", "remove"}
      /\ scan.at \in Batching /\ scan.then # "remove" => scan.folder # NoFolder
      /\ scan.at \in {"list", "moves", "save"} => scan.folder # NoFolder
      /\ scan.folder # NoFolder => scan.folder \in scan.todo
  BY ThreadFacts DEF TypedThread, ThreadState
<1>2. ASSUME NEW kind, NEW step \in {"none", "validate", "error"}, scan' = Thread(kind, step) PROVE Placing'
  <2>1. /\ scan'.at = step /\ scan'.todo = {} /\ scan'.folder = NoFolder /\ scan'.again = FALSE
        /\ scan'.missing = {} /\ scan'.unmatched = {} /\ scan'.batch = {}
    BY <1>2 DEF Thread
  <2>2. QED
    BY <2>1 DEF Placing, Over, Adding, Batching
<1>3. CASE World \/ Service
  <2>1. CASE scan' = NoThread
    BY <1>2, <2>1 DEF NoThread
  <2>2. CASE \E kind \in {"quick", "full"} : scan' = Thread(kind, "validate")
    BY <1>2, <2>2
  <2>3. CASE /\ scan'.at = scan.at /\ scan'.todo = scan.todo /\ scan'.folder = scan.folder
             /\ scan'.again = scan.again /\ scan'.missing = scan.missing
             /\ scan'.unmatched = scan.unmatched /\ scan'.batch = scan.batch /\ scan'.then = scan.then
    BY <2>3 DEF Placing, Over, Adding, Handling
  <2>4. QED
    BY <1>3, <2>1, <2>2, <2>3, WorldGives
<1>4. CASE Validate
  <2>1. CASE Goto("walk")
    BY <1>4, <2>1, GotoGives DEF Validate, Placing, Over, Adding, Handling, Batching
  <2>2. QED
    BY <1>2, <1>4, <2>1 DEF Validate, NoThread
<1>5. CASE Walk
  <2>1. scan.at = "walk"
    BY <1>5 DEF Walk
  <2>2. scan.folder = NoFolder /\ scan.again = FALSE
    BY <2>1, ThreadFacts DEF Placing, Handling, Batching, ThreadState
  <2>3. scan'.at = "folder" /\ scan'.folder = scan.folder /\ scan'.again = scan.again
    BY <1>5, WalkGives
  <2>4. QED
    BY <2>2, <2>3 DEF Placing, Over, Adding, Batching
<1>6. ASSUME NEW folder \in Folder, List(folder) PROVE Placing'
  <2>1. scan'.at \in {"moves", "upsert"} /\ scan'.then = "moves" /\ scan'.folder = folder /\ folder # NoFolder
    BY <1>6, ListGives, ScanAssumption
  <2>2. QED
    BY <2>1 DEF Placing, Over, Adding, Handling, Batching
<1>7. CASE Upsert
  BY <1>7, GotoGives DEF Upsert, Placing, Over, Adding, Handling, Batching
<1>8. CASE Raise /\ scan.at \notin {"none", "validate", "tidy", "complete", "error", "ending"}
  <2>1. CASE scan' = Thread(scan.kind, "error")
    BY <1>2, <2>1
  <2>2. CASE /\ scan.folder # NoFolder
             /\ IF scan.again
                THEN scan'.at = "folder" /\ scan'.again = FALSE /\ scan'.folder = NoFolder
                ELSE scan'.at = "list" /\ scan'.again = TRUE /\ scan'.folder = scan.folder
    BY <2>2 DEF Placing, Over, Adding, Batching
  <2>3. QED
    BY <1>8, <2>1, <2>2, RaiseGives
<1>9. CASE Initialize \/ Bootstrap \/ MarkScanned \/ MarkUnerrored
  <2>1. scan.at \in {"init", "short", "scanned", "unerror"}
    BY <1>9, StatesGive
  <2>2. CASE /\ \/ scan'.at \in {"short", "scanned", "unerror"} /\ scan'.batch = scan.batch
                \/ scan'.at = scan.then /\ scan'.batch = {}
             /\ scan'.todo = scan.todo /\ scan'.folder = scan.folder /\ scan'.again = scan.again
             /\ scan'.then = scan.then
    BY <1>1, <2>1, <2>2 DEF Placing, Over, Adding, Handling, Batching
  <2>3. QED
    BY <1>8, <1>9, <2>1, <2>2, StatesGive
<1>10. CASE Move
  <2>1. PICK old \in Matches, new \in New : Match(old, new)
    BY <1>10 DEF Move
  <2>2. scan.at \in {"moves", "final"}
    BY <1>10 DEF Move
  <2>3. QED
    BY <2>1, <2>2, MatchGives DEF Placing, Over, Adding, Handling, Batching
<1>11. CASE NoMoreMoves
  <2>1. scan.at = "moves"
    BY <1>11 DEF NoMoreMoves
  <2>2. QED
    BY <1>1, <1>11, <2>1, NoMoreMovesGives DEF Placing, Over, Adding, Handling, Batching
<1>12. CASE Save
  BY <1>12, SaveGives DEF Placing, Over, Adding, Handling, Batching
<1>13. CASE FoldersDone \/ Final
  <2>1. scan.at \in {"folder", "final"} /\ (FoldersDone => scan.todo = {})
    BY <1>13 DEF FoldersDone, Final
  <2>2. scan.folder = NoFolder /\ scan.todo = {}
    BY <1>13, <2>1 DEF FoldersDone, Final, Placing, Handling, Adding, Batching
  <2>3. QED
    BY <1>13, <2>1, <2>2, DoneGives DEF Placing, Over, Adding, Handling, Batching
<1>14. CASE Remove
  BY <1>14, RemoveGives DEF Placing, Over, Adding, Handling, Batching
<1>15. CASE Tidy \/ Complete \/ ScanError
  <2>1. \E step \in {"complete", "ending"} : Goto(step) /\ scan.at \in {"tidy", "complete", "error"}
    BY <1>15 DEF Tidy, Complete, ScanError
  <2>2. QED
    BY <2>1, GotoGives DEF Placing, Over, Adding, Handling, Batching
<1>16. CASE End
  BY <1>2, <1>16 DEF End, NoThread
<1>17. CASE QueryFails
  <2>1. CASE scan.at = "complete"
    <3>1. scan.folder = NoFolder
      BY <2>1 DEF Placing, Handling, Batching
    <3>2. QED
      BY <1>2, <1>17, <3>1 DEF QueryFails, Raise
  <2>2. QED
    BY <1>8, <1>17, <2>1 DEF QueryFails
<1>18. CASE UNCHANGED vars
  BY <1>18 DEF vars, Placing, Over, Adding, Handling
<1>19. QED
  BY <1>3, <1>4, <1>5, <1>6, <1>7, <1>9, <1>10, <1>11, <1>12, <1>13, <1>14, <1>15, <1>16, <1>17, <1>18
     DEF Next, ScanStep

\* A scan has more to do only where it is told so by the disk, and less only in a folder
\* that it saves, or that failed.
LEMMA SureSmaller ==
    ASSUME faults' = faults,
           \A folder \in Folder : cache'[folder] = "match" => cache[folder] = "match",
           calm' => calm /\ scan'.kind = scan.kind /\ scan'.found = scan.found /\ scan.todo \subseteq scan'.todo
    PROVE  Sure' \subseteq Sure
BY DEF Sure, Smooth, Thorough

\* A query for the states of a batch that raises while the scan is left alone: the folder
\* is tried again.
LEMMA RaiseOnce ==
    ASSUME TypeInv, Even, CalmInv, calm, Raise, scan.at \in {"short", "scanned", "unerror"},
           NEW path \in scan.batch, ~Single(doc[path].edges)
    PROVE  /\ scan'.at = "list" /\ scan'.again = TRUE /\ scan'.folder = scan.folder
           /\ scan'.todo = scan.todo /\ scan'.kind = scan.kind /\ scan'.found = scan.found
           /\ scan'.seen = scan.seen /\ scan'.hasTagged = scan.hasTagged
           /\ scan'.missing = scan.missing /\ scan'.prints = scan.prints
           /\ scan'.outdated = scan.outdated /\ scan'.unmatched = scan.unmatched
           /\ scan.then = "moves"
<1>1. scan.then = "moves" /\ scan.folder # NoFolder
  BY ThreadFacts DEF Even, Sound, Mind, NewDocs, TypedThread, ThreadState, Batching
<1>2. ~scan.again
  BY <1>1 DEF CalmInv, LeftAlone, Batching
<1>3. QED
  BY <1>1, <1>2, RaiseGives

LEMMA StepSure ==
    ASSUME TypeInv, DocInv, Even, CalmInv, faults \in Nat, faults' = faults, [Next]_vars, ~Walk, ~Save
    PROVE  Sure' \subseteq Sure
<1>1. ~Fault
  BY DEF Fault
<1>2. CASE World \/ Service
  <2>1. CASE scan = NoThread
    <3>1. ~calm
      BY <2>1, NoThreadTyped DEF CalmInv, LeftAlone
    <3>2. ~calm'
      BY <1>2, <3>1, WorldGives DEF Disturb
    <3>3. QED
      BY <1>1, <1>2, <3>2, WorldGives, SureSmaller
  <2>2. CASE /\ scan'.kind = scan.kind /\ scan'.todo = scan.todo /\ scan'.found = scan.found
    <3>1. calm' => calm
      BY <1>2, WorldGives DEF Disturb
    <3>2. \A folder \in Folder : cache'[folder] = "match" => cache[folder] = "match"
      BY <1>2, WorldGives
    <3>3. QED
      BY <2>2, <3>1, <3>2, SureSmaller
  <2>3. QED
    BY <1>1, <1>2, <2>1, <2>2, WorldGives
<1>3. CASE Initialize \/ Bootstrap \/ MarkScanned \/ MarkUnerrored
  <2>1. scan.at \in {"init", "short", "scanned", "unerror"} /\ UNCHANGED <<cache, calm>>
    BY <1>3, StatesGive
  <2>2. CASE scan'.kind = scan.kind /\ scan'.todo = scan.todo /\ scan'.found = scan.found
    BY <2>1, <2>2, SureSmaller
  <2>3. ASSUME Raise, scan.at \in {"short", "scanned", "unerror"}, NEW path \in scan.batch, ~Single(doc[path].edges)
        PROVE  Sure' \subseteq Sure
    <3>1. calm => scan'.kind = scan.kind /\ scan'.todo = scan.todo /\ scan'.found = scan.found
      BY <2>3, RaiseOnce
    <3>2. QED
      BY <2>1, <3>1, SureSmaller
  <2>4. QED
    BY <1>3, <2>2, <2>3, StatesGive
<1>4. ASSUME UNCHANGED <<cache, calm>>, scan'.kind = scan.kind, scan'.found = scan.found,
             scan.todo \subseteq scan'.todo
      PROVE  Sure' \subseteq Sure
  BY <1>4, SureSmaller
<1>5. ASSUME NEW folder \in Folder, List(folder) PROVE Sure' \subseteq Sure
  <2>1. UNCHANGED <<cache, calm>>
    <3>1. UNCHANGED <<faults, history>>
      BY <1>1, <1>5, ListGives
    <3>2. QED
      BY <1>5, <3>1 DEF List, history
  <2>2. scan'.kind = scan.kind /\ scan'.todo = scan.todo /\ scan'.found = scan.found
    BY <1>5, ListGives
  <2>3. QED
    BY <1>4, <2>1, <2>2
<1>6. CASE Upsert
  BY <1>4, <1>6, GotoGives DEF Upsert, history
<1>7. CASE Move
  <2>1. PICK old \in Matches, new \in New : Match(old, new)
    BY <1>7 DEF Move
  <2>2. UNCHANGED <<cache, calm>>
    BY <2>1 DEF Match, history
  <2>3. QED
    BY <1>4, <2>1, <2>2, MatchGives
<1>8. CASE NoMoreMoves
  BY <1>1, <1>4, <1>8, NoMoreMovesGives DEF NoMoreMoves, Unmatched, history
<1>9. CASE FoldersDone \/ Final
  <2>1. UNCHANGED <<cache, calm>>
    BY <1>1, <1>9 DEF FoldersDone, Final, Unmatched, history
  <2>2. QED
    BY <1>4, <1>9, <2>1, DoneGives
<1>10. CASE Remove
  <2>1. UNCHANGED <<cache, calm>> /\ scan.todo = {}
    BY <1>10 DEF Remove, history, Even, Placing, Adding
  <2>2. QED
    BY <1>4, <1>10, <2>1, RemoveGives
<1>11. CASE Tidy \/ Complete \/ ScanError \/ Validate
  <2>1. /\ calm' = calm /\ \A folder \in Folder : cache'[folder] = "match" => cache[folder] = "match"
    BY <1>1, <1>11 DEF Tidy, Complete, ScanError, Validate, history
  <2>2. scan'.kind = scan.kind /\ scan'.todo = scan.todo /\ scan'.found = scan.found
    BY <1>1, <1>11, GotoGives DEF Tidy, Complete, ScanError, Validate
  <2>3. QED
    BY <2>1, <2>2, SureSmaller
<1>12. CASE End
  BY <1>12, SureSmaller DEF End, Disturb
<1>13. CASE QueryFails
  BY <1>1, <1>13 DEF QueryFails
<1>14. CASE UNCHANGED vars
  BY <1>4, <1>14 DEF vars
<1>15. QED
  BY <1>2, <1>3, <1>5, <1>6, <1>7, <1>8, <1>9, <1>10, <1>11, <1>12, <1>13, <1>14 DEF Next, ScanStep

LEMMA StepKnow ==
    ASSUME Flat, TypeInv, DocInv, KnowInv, CalmInv, [Next]_vars
    PROVE  KnowInv'
<1>1. /\ faults' = faults \/ Fault
      /\ Disturb \/ UNCHANGED calm \/ Walk
  BY ZenonT(60) DEF Next, vars, World, Service, ScanStep, Change, Edit, Work, WorkFails, SetScanning, Start, Ask,
     Crash, Sync, Validate, List, Upsert, Initialize, Bootstrap, MarkScanned, MarkUnerrored, Mark,
     Move, Match, NoMoreMoves, Unmatched, Save, FoldersDone, Final, Remove, Tidy, Complete, ScanError, End,
     QueryFails, Walk, Fault, history
<1>2. faults \in Nat /\ MaxFaults \in Nat /\ faults' \in 0..MaxFaults
  BY <1>1, ScanAssumption DEF KnowInv, Fault
<1>3. Placing'
  BY StepPlacing DEF KnowInv
<1>4. SUFFICES ASSUME Smooth' \/ calm' PROVE Sound'
  <2>1. CASE Smooth' \/ calm'
    BY <1>2, <1>3, <1>4, <2>1 DEF KnowInv, Sound
  <2>2. CASE ~Smooth' /\ ~calm'
    BY <1>2, <1>3, <2>2 DEF KnowInv, SureRight, Sure
  <2>3. QED
    BY <2>1, <2>2
<1>5. faults' = faults
  <2>1. ~Fault
    BY <1>2, <1>4 DEF KnowInv, Fault, Smooth, Disturb
  <2>2. QED
    BY <1>1, <2>1
<1>6. CASE Walk
  BY <1>6, WalkEven DEF KnowInv
<1>7. CASE ~Walk
  <2>1. Even
    BY <1>1, <1>4, <1>5, <1>7 DEF KnowInv, Even, Sound, Smooth, Disturb
  <2>2. CASE Save
    BY <2>1, <2>2, SaveEven
  <2>3. CASE ~Save
    <3>1. Sure' \subseteq Sure
      BY <1>2, <1>5, <1>7, <2>1, <2>3, StepSure
    <3>2. CASE World \/ Service
      BY <1>2, <1>5, <2>1, <3>1, <3>2, WorldEven
    <3>3. CASE Validate \/ Tidy \/ Complete \/ ScanError \/ End \/ QueryFails
      BY <1>2, <1>5, <2>1, <3>1, <3>3, OutsideEven
    <3>4. ASSUME NEW folder \in Folder, List(folder) PROVE Sound'
      BY <1>2, <1>5, <2>1, <3>1, <3>4, ListEven
    <3>5. CASE Upsert \/ Initialize \/ Bootstrap
      BY <2>1, <3>1, <3>5, UpsertEven, InitializeEven, BootstrapEven
    <3>6. CASE MarkScanned \/ MarkUnerrored
      <4>1. IsNot("scanned") \in State /\ Is("errored") \in State
        BY ThreeAxes, StatesTyped
      <4>2. QED
        BY <2>1, <3>1, <3>6, <4>1, MarkEven DEF MarkScanned, MarkUnerrored
    <3>7. CASE Move \/ NoMoreMoves
      BY <2>1, <3>1, <3>7, MoveEven, NoMoreMovesEven
    <3>8. CASE FoldersDone \/ Final \/ Remove
      BY <2>1, <3>1, <3>8, DoneEven, RemoveEven
    <3>9. CASE UNCHANGED vars
      <4>1. UNCHANGED <<at, doc, scan>>
        BY <3>9 DEF vars
      <4>2. scan.at \in {"init", "short", "scanned", "unerror"} => \A path \in scan.batch : Exists(path)
        BY DocKept DEF DocInv, Exists
      <4>3. \A path \in Path :
              /\ Exists(path)' <=> Exists(path)
              /\ doc[path].edges = {} => doc'[path].edges = {}
              /\ Single(doc[path].edges) => Single(doc'[path].edges)
        BY <4>1 DEF Exists
      <4>4. QED
        BY <2>1, <3>1, <4>1, <4>2, <4>3, ThreadFacts, SameMind
    <3>10. QED
      BY <1>7, <2>3, <3>2, <3>3, <3>4, <3>5, <3>6, <3>7, <3>8, <3>9 DEF Next, ScanStep
  <2>4. QED
    BY <2>2, <2>3
<1>8. QED
  BY <1>6, <1>7

-----------------------------------------------------------------------------
(* A scan that is left alone. *)

\* While the scan is left alone, the world can only finish what a worker does.
LEMMA WorldCalm ==
    ASSUME TypeInv, DocInv, CalmInv, World \/ Service, calm'
    PROVE  UNCHANGED <<at, scan, faults, calm, bound>> /\ StatesChange
<1>1. ~Disturb
  BY DEF Disturb
<1>2. /\ UNCHANGED <<at, calm, bound>> /\ scan # NoThread /\ ~Fault
  <2>1. UNCHANGED <<at, calm, bound>>
    BY <1>1, WorldGives
  <2>2. QED
    BY <1>1, <2>1, NoThreadTyped DEF CalmInv, LeftAlone, Fault
<1>3. UNCHANGED <<scan, faults>>
  BY <1>1, <1>2, WorldGives
<1>4. CASE UNCHANGED doc
  BY <1>2, <1>3, <1>4 DEF StatesChange, Exists
<1>5. ASSUME NEW path \in Path, Work(path) \/ WorkFails(path) PROVE StatesChange
  <2>1. \A other \in Path : Exists(other)' <=> Exists(other)
    BY <1>5, WorkKeeps
  <2>2. Exists(path) /\ doc[path] \in Document
    BY <1>5, DocKept DEF Work, WorkFails, Untagged, InDb, Exists, DocInv
  <2>3. PICK axis \in Axis : \E edges \in Transitioned(doc[path].edges, Is(axis)) :
          \/ doc' = [doc EXCEPT ![path] = [doc[path] EXCEPT !.print = TRUE, !.edges = edges]]
          \/ doc' = [doc EXCEPT ![path] = [doc[path] EXCEPT !.edges = edges]]
    BY <1>5, ThreeAxes DEF Work, WorkFails
  <2>4. PICK edges :
          \/ doc' = [doc EXCEPT ![path] = [doc[path] EXCEPT !.print = TRUE, !.edges = edges]]
          \/ doc' = [doc EXCEPT ![path] = [doc[path] EXCEPT !.edges = edges]]
    BY <2>3
  <2>5. /\ [doc[path] EXCEPT !.print = TRUE, !.edges = edges].current = doc[path].current
        /\ [doc[path] EXCEPT !.print = TRUE, !.edges = edges].print = TRUE
        /\ [doc[path] EXCEPT !.edges = edges].current = doc[path].current
        /\ [doc[path] EXCEPT !.edges = edges].print = doc[path].print
    BY <2>2 DEF Document
  <2>6. PICK d : /\ doc' = [doc EXCEPT ![path] = d]
                 /\ d.current = doc[path].current /\ (doc[path].print => d.print)
    BY <2>4, <2>5
  <2>7. doc \in [Path -> WholeDoc \cup BareDoc \cup {NoDoc}]
    BY DEF DocInv
  <2>8. QED
    BY <2>1, <2>6, <2>7 DEF StatesChange
<1>6. CASE World
  <2>1. ASSUME NEW song \in Song, NEW to \in Folder \cup {NoFolder} PROVE ~Change(song, to) /\ ~Edit(song)
    BY <1>1 DEF Change, Edit
  <2>2. QED
    BY <1>2, <1>3, <1>5, <1>6, <2>1 DEF World
<1>7. CASE Service
  <2>1. UNCHANGED doc
    BY <1>7 DEF Service, SetScanning, Start, Ask, Crash, Sync
  <2>2. QED
    BY <1>2, <1>3, <1>4, <2>1
<1>8. QED
  BY <1>6, <1>7

\* A step that learns nothing new of the files.
LEMMA CalmCarried ==
    ASSUME LeftAlone, UNCHANGED at, scan'.found = scan.found,
           scan'.at \notin {"none", "validate", "walk", "error"},
           scan'.todo \subseteq scan'.seen, scan'.outdated \subseteq scan.outdated,
           scan'.missing \subseteq scan.missing,
           \A path \in Path : Wanted(path) /\ Read(path[2])' => Read(path[2]),
           \A path \in Path : Wanted(path) /\ Read(path[2]) /\ Stays(path)' => doc'[path].current,
           scan'.again /\ scan'.then = "moves" => scan'.at \notin Batching
    PROVE  LeftAlone'
<1>1. \A path \in Path : Wanted(path)' <=> Wanted(path)
  BY DEF Wanted
<1>2. \A path \in scan'.missing : ~Wanted(path)'
  BY DEF LeftAlone, Wanted
<1>3. QED
  BY <1>1, <1>2 DEF LeftAlone

LEMMA WalkCalm ==
    ASSUME Flat, TypeInv, Placing, Walk
    PROVE  LeftAlone'
<1> DEFINE found    == {at[song] : song \in Song} \ {NoFolder}
           vanished == {folder \in Folder \ found : cache[folder] # "none"}
           gone     == UNION {Below(folder) : folder \in vanished}
<1>1. /\ scan'.at = "folder" /\ scan'.kind = scan.kind /\ scan'.found = found /\ scan'.seen = found
      /\ scan'.todo = {folder \in found : scan.kind = "full" \/ cache[folder] # "match"}
      /\ scan'.folder = NoFolder /\ scan'.missing = gone
  <2>1. scan.folder = NoFolder
    BY ThreadFacts DEF Walk, TypedThread
  <2>2. QED
    BY <2>1, WalkGives
<1>2. at' = at
  BY DEF Walk, disk
<1>3. \A path \in Path : Wanted(path)' => path[2] \in found
  BY <1>2, ScanAssumption DEF Wanted, Path
<1>4. \A path \in gone : path \in Path /\ path[2] \notin found
  BY DEF Below, InDb, Flat, Path
<1>5. \A path \in Path : ~Read(path[2])'
  <2>1. \A path \in Path : path[2] # NoFolder
    BY ScanAssumption DEF Path
  <2> HIDE DEF found
  <2>2. QED
    BY <1>1, <2>1 DEF Read
<1>6. found' = found
  BY <1>2
<1> HIDE DEF found, gone, vanished
<1>7. {at[song] : song \in Song}' \ {NoFolder} = found
  BY <1>6 DEF found
<1>8. QED
  BY <1>1, <1>3, <1>4, <1>5, <1>7 DEF LeftAlone, Batching

LEMMA ListCalm ==
    ASSUME Flat, TypeInv, Placing, LeftAlone, ~Fault, NEW folder \in Folder, List(folder)
    PROVE  LeftAlone'
<1> DEFINE there   == {song \in Song : at[song] = folder}
           gone    == Below(folder) \ (there \X {folder})
           updated == {path \in Below(folder) : path[1] \in there /\ path[2] = folder /\ ~doc[path].current}
<1>1. /\ scan'.at = (IF updated = {} THEN "moves" ELSE "upsert") /\ scan'.kind = scan.kind
      /\ scan'.todo = scan.todo /\ scan'.found = scan.found /\ scan'.seen = scan.seen
      /\ scan'.folder = folder /\ scan'.again = scan.again /\ scan'.missing = scan.missing \cup gone
      /\ scan'.batch = updated /\ scan'.then = "moves" /\ scan'.outdated = scan.outdated \ there
  <2>1. PICK listed \in SUBSET Song, unread \in SUBSET Song :
          /\ listed = there /\ unread = {}
          /\ LET known == Below(folder)
                 lost  == known \ (listed \X {folder})
                 late  == {path \in known : path[1] \in listed \ unread /\ path[2] = folder /\ ~doc[path].current}
             IN  /\ scan'.at = (IF late = {} THEN "moves" ELSE "upsert") /\ scan'.kind = scan.kind
                 /\ scan'.todo = scan.todo /\ scan'.found = scan.found /\ scan'.seen = scan.seen
                 /\ scan'.folder = folder /\ scan'.again = scan.again /\ scan'.missing = scan.missing \cup lost
                 /\ scan'.batch = late /\ scan'.then = "moves" /\ scan'.outdated = scan.outdated \ listed
    BY ZenonT(60), ListGives
  <2>2. {path \in Below(folder) : path[1] \in listed \ unread /\ path[2] = folder /\ ~doc[path].current} = updated
    BY <2>1
  <2>3. QED
    BY <2>1, <2>2
<1>2. /\ UNCHANGED <<at, doc>> /\ scan.at \in {"folder", "list"}
      /\ scan.at = "list" => folder = scan.folder
      /\ scan.at = "folder" => ~scan.again
  BY DEF List, disk, Placing, Handling, Batching
<1>3. \A path \in Path : path \in Below(folder) <=> Exists(path) /\ path[2] = folder
  BY DEF Below, InDb, Exists, Flat, Path
<1>4. \A path \in Path : path \in gone => ~Wanted(path)
  BY <1>3 DEF Path, Wanted
<1>5. \A path \in Path : path \in updated <=> Exists(path) /\ path[2] = folder /\ Wanted(path) /\ ~doc[path].current
  BY <1>3 DEF Path, Wanted
<1>6. \A path \in Path : Wanted(path) /\ path[2] = folder => path[1] \in there
  BY DEF Path, Wanted
<1>7. gone \subseteq Path /\ updated \subseteq Path
  BY DEF Below, InDb
<1> HIDE DEF there, gone, updated
<1>8. \A path \in Path : (Wanted(path)' <=> Wanted(path)) /\ (Exists(path)' <=> Exists(path))
  BY <1>2 DEF Wanted, Exists
<1>9. \A path \in Path : Read(path[2])' => path[2] = folder \/ Read(path[2])
  BY <1>1 DEF Read
<1>10. \A path \in scan'.missing : ~Wanted(path)'
  BY <1>1, <1>4, <1>7, <1>8, ThreadFacts DEF LeftAlone
<1>11. \A path \in Path : Wanted(path)' /\ Read(path[2])' => path[1] \notin scan'.outdated
  BY <1>1, <1>6, <1>8, <1>9 DEF LeftAlone
<1>12. ASSUME NEW path \in Path, Wanted(path)', Read(path[2])', Stays(path)'
       PROVE  \/ doc'[path].current
              \/ scan'.at = "upsert" /\ scan'.then = "moves" /\ path \in scan'.batch
  <2>1. Wanted(path) /\ Exists(path) /\ path \notin scan.missing
    BY <1>1, <1>8, <1>12 DEF Stays
  <2>2. CASE path[2] = folder
    BY <1>1, <1>2, <1>5, <2>1, <2>2
  <2>3. CASE Read(path[2])
    BY <1>2, <2>1, <2>3 DEF LeftAlone, Stays
  <2>4. QED
    BY <1>9, <1>12, <2>2, <2>3
<1>13. scan'.again => updated = {}
  <2>1. ASSUME scan'.again, NEW path \in updated PROVE FALSE
    <3>1. folder = scan.folder
      BY <1>1, <1>2, <2>1
    <3>2. path \in Path /\ Exists(path) /\ Wanted(path) /\ Read(path[2]) /\ ~doc[path].current
      BY <1>5, <1>7, <3>1 DEF Read
    <3>3. Stays(path)
      BY <3>2 DEF Stays, LeftAlone
    <3>4. QED
      BY <1>2, <3>2, <3>3 DEF LeftAlone
  <2>2. QED
    BY <2>1
<1>14. /\ scan'.found = {at[song] : song \in Song}' \ {NoFolder} /\ scan'.todo \subseteq scan'.seen
       /\ scan'.at \notin {"none", "validate", "walk", "error"}
  <2>1. {at[song] : song \in Song}' = {at[song] : song \in Song}
    BY <1>2
  <2>2. QED
    BY <1>1, <2>1 DEF LeftAlone
<1>15. QED
  BY <1>1, <1>10, <1>11, <1>12, <1>13, <1>14 DEF LeftAlone, Batching

\* What upsert_batch writes: the documents of the batch, as the files are now.
LEMMA UpsertGives ==
    ASSUME TypeInv, DocInv, Upsert, NEW path \in Path
    PROVE  /\ Exists(path)' <=> Exists(path) \/ path \in scan.batch
           /\ path \notin scan.batch => doc'[path] = doc[path]
           /\ path \in scan.batch => (doc'[path].current <=> path[1] \notin scan.outdated)
           /\ Exists(path) /\ doc[path].print => doc'[path].print
<1> DEFINE current == path[1] \notin scan.outdated
<1>1. doc'[path] = IF path \notin scan.batch THEN doc[path]
                   ELSE IF path \in InDb THEN [doc[path] EXCEPT !.current = current]
                   ELSE [current |-> current, print |-> FALSE, edges |-> {}]
  BY DEF Upsert
<1>2. current \in BOOLEAN
  OBVIOUS
<1>3. path \in InDb <=> Exists(path)
  BY DEF InDb, Exists
<1>4. Exists(path) => doc[path] \in Document
  BY DocKept DEF DocInv, Exists
<1> HIDE DEF current
<1>5. CASE path \notin scan.batch
  BY <1>1, <1>5 DEF Exists
<1>6. CASE path \in scan.batch /\ Exists(path)
  <2> DEFINE d == [doc[path] EXCEPT !.current = current]
  <2>1. d \in Document /\ d.current = current /\ d.print = doc[path].print
    BY <1>2, <1>4, <1>6 DEF Document
  <2>2. doc'[path] = d
    BY <1>1, <1>3, <1>6
  <2> HIDE DEF d
  <2>3. d # NoDoc
    BY <2>1, DocMoves
  <2>4. QED
    BY <1>6, <2>1, <2>2, <2>3 DEF Exists, current
<1>7. CASE path \in scan.batch /\ ~Exists(path)
  <2> DEFINE d == [current |-> current, print |-> FALSE, edges |-> {}]
  <2>1. d \in Document /\ d.current = current
    BY <1>2 DEF Document
  <2>2. doc'[path] = d
    BY <1>1, <1>3, <1>7
  <2> HIDE DEF d
  <2>3. d # NoDoc
    BY <2>1, DocMoves
  <2>4. QED
    BY <1>7, <2>1, <2>2, <2>3 DEF Exists, current
<1>8. QED
  BY <1>5, <1>6, <1>7

LEMMA UpsertCalm ==
    ASSUME TypeInv, DocInv, LeftAlone, Upsert
    PROVE  LeftAlone'
<1>1. scan.at = "upsert" /\ UNCHANGED at /\ Goto("init")
  BY DEF Upsert, disk
<1>2. \A path \in Path : Read(path[2])' <=> Read(path[2])
  BY <1>1, GotoGives DEF Read
<1>3. ASSUME NEW path \in Path, Wanted(path), Read(path[2]), Stays(path)'
      PROVE  doc'[path].current
  <2>1. CASE path \in scan.batch
    <3>1. path[1] \notin scan.outdated
      BY <1>3 DEF LeftAlone
    <3>2. QED
      BY <2>1, <3>1, UpsertGives
  <2>2. CASE path \notin scan.batch
    <3>1. Exists(path) /\ path \notin scan.missing /\ doc'[path] = doc[path]
      BY <1>1, <1>3, <2>2, UpsertGives, GotoGives DEF Stays
    <3>2. QED
      BY <1>3, <2>2, <3>1 DEF LeftAlone, Stays
  <2>3. QED
    BY <2>1, <2>2
<1>4. scan'.again /\ scan'.then = "moves" => scan'.at \notin Batching
  BY <1>1, GotoGives DEF LeftAlone, Batching
<1>5. scan'.todo \subseteq scan'.seen
  BY <1>1, GotoGives DEF LeftAlone
<1>6. QED
  BY <1>1, <1>2, <1>3, <1>4, <1>5, GotoGives, CalmCarried

\* What apply_detected_moves does with the document of a song that moved.
LEMMA MoveGives ==
    ASSUME TypeInv, DocInv, Even, NEW old \in Matches, NEW new \in New, Match(old, new),
           scan.at \in {"moves", "final"}
    PROVE  /\ old \in Path /\ new \in Path /\ old # new /\ old[1] = new[1]
           /\ old \in scan.missing /\ Exists(old) /\ ~Exists(new) /\ Pending(new)
           /\ Wanted(new) /\ ~Wanted(old)
           /\ scan.at = "moves" => new[2] = scan.folder /\ new[1] \in scan.fresh
           /\ ~Exists(old)' /\ Exists(new)'
           /\ doc'[new].current <=> new[1] \notin scan.outdated
           /\ doc'[new].print = doc[old].print
           /\ \A path \in Path \ {old, new} : doc'[path] = doc[path]
<1>1. scan.at = "moves" => scan.folder \in scan.todo
  BY ThreadFacts DEF TypedThread
<1>2. new \in Path /\ Pending(new) /\ (scan.at = "moves" => new[2] = scan.folder /\ new[1] \in scan.fresh)
  <2>1. CASE scan.at = "moves"
    <3>1. PICK song \in scan.fresh : new = <<song, scan.folder>>
      BY <2>1 DEF New
    <3>2. new \in Path /\ new[2] = scan.folder /\ new[1] = song
      BY <1>1, <2>1, <3>1, ThreadFacts DEF Path
    <3>3. QED
      BY <2>1, <3>1, <3>2 DEF Pending
  <2>2. CASE scan.at = "final"
    BY <2>2, ThreadFacts DEF New, Pending, Late
  <2>3. QED
    BY <2>1, <2>2
<1>3. old \in scan.missing /\ old \in Path /\ Exists(old) /\ ~Exists(new) /\ old # new
  BY <1>2, ThreadFacts DEF Matches, Even, Sound, Mind, Known
<1>4. Wanted(new) /\ ~Wanted(old) /\ old[1] = new[1]
  BY <1>2, <1>3 DEF Match, OnDisk, Wanted, Path
<1> DEFINE current == new[1] \notin scan.outdated
           d       == [doc[old] EXCEPT !.current = current]
<1>5. doc[old] \in Document /\ old \in InDb
  BY <1>3, DocKept DEF DocInv, Exists, InDb
<1>6. doc' = [path \in Path |-> IF path = new THEN d ELSE IF path = old THEN NoDoc ELSE doc[path]]
  BY <1>5 DEF Match
<1>7. d \in Document /\ d.current = current /\ d.print = doc[old].print
  BY <1>5 DEF Document
<1> HIDE DEF d
<1>8. d # NoDoc
  BY <1>7, DocMoves
<1>9. doc'[new] = d /\ doc'[old] = NoDoc /\ \A path \in Path \ {old, new} : doc'[path] = doc[path]
  BY <1>2, <1>3, <1>6
<1>10. QED
  BY <1>2, <1>3, <1>4, <1>7, <1>8, <1>9 DEF Exists

LEMMA MoveCalm ==
    ASSUME TypeInv, DocInv, Even, LeftAlone, Move
    PROVE  LeftAlone'
<1>1. PICK old \in Matches, new \in New : Match(old, new)
  BY DEF Move
<1>2. scan.at \in {"moves", "final"} /\ UNCHANGED at
  BY <1>1 DEF Move, Match, disk
<1>3. /\ scan'.at = scan.at /\ scan'.kind = scan.kind /\ scan'.todo = scan.todo /\ scan'.found = scan.found
      /\ scan'.seen = scan.seen /\ scan'.folder = scan.folder /\ scan'.missing = scan.missing \ {old}
      /\ scan'.outdated = scan.outdated
  BY <1>1, MatchGives
<1>4. /\ old \in Path /\ new \in Path /\ ~Exists(old)'
      /\ doc'[new].current <=> new[1] \notin scan.outdated
      /\ \A path \in Path \ {old, new} : doc'[path] = doc[path]
  BY <1>1, <1>2, MoveGives
<1>5. \A path \in Path : Read(path[2])' <=> Read(path[2])
  BY <1>3 DEF Read
<1>6. ASSUME NEW path \in Path, Wanted(path), Read(path[2]), Stays(path)'
      PROVE  doc'[path].current
  <2>1. CASE path = old
    BY <1>4, <1>6, <2>1 DEF Stays
  <2>2. CASE path = new
    BY <1>4, <1>6, <2>2 DEF LeftAlone
  <2>3. CASE path \in Path \ {old, new}
    <3>1. doc'[path] = doc[path]
      BY <1>4, <2>3
    <3>2. Stays(path)
      BY <1>3, <1>6, <2>3, <3>1 DEF Stays, Exists
    <3>3. QED
      BY <1>2, <1>6, <3>1, <3>2 DEF LeftAlone
  <2>4. QED
    BY <2>1, <2>2, <2>3
<1>7. scan'.at \notin Batching /\ scan'.at \notin {"none", "validate", "walk", "error"}
  BY <1>2, <1>3 DEF Batching
<1>8. scan'.todo \subseteq scan'.seen
  BY <1>3 DEF LeftAlone
<1>9. QED
  BY <1>2, <1>3, <1>5, <1>6, <1>7, <1>8, CalmCarried

\* While nobody disturbs a scan, what it listed is what there is.
LEMMA StepCalm ==
    ASSUME Flat, TypeInv, DocInv, KnowInv, CalmInv, [Next]_vars
    PROVE  CalmInv'
<1>1. CASE Walk
  BY <1>1, WalkCalm DEF KnowInv, CalmInv
<1>2. SUFFICES ASSUME calm', ~Walk PROVE LeftAlone'
  BY <1>1 DEF CalmInv
<1>3. ~Fault /\ ~Disturb
  BY <1>2 DEF Fault, Disturb
<1>4. calm /\ LeftAlone /\ Even
  <2>1. Disturb \/ UNCHANGED calm
    BY ZenonT(60), <1>2 DEF Next, vars, World, Service, ScanStep, Change, Edit, Work, WorkFails, SetScanning, Start, Ask,
       Crash, Sync, Validate, List, Upsert, Initialize, Bootstrap, MarkScanned, MarkUnerrored, Mark,
       Move, Match, NoMoreMoves, Unmatched, Save, FoldersDone, Final, Remove, Tidy, Complete, ScanError, End,
       QueryFails, Fault, history
  <2>2. QED
    BY <1>2, <1>3, <2>1 DEF CalmInv, KnowInv, Even, Sound
<1>5. ASSUME UNCHANGED at, scan'.found = scan.found, scan'.kind = scan.kind, scan'.missing \subseteq scan.missing,
             scan'.outdated \subseteq scan.outdated, scan'.folder \in {scan.folder, NoFolder},
             scan'.todo \subseteq scan'.seen, scan.todo \ {scan.folder} \subseteq scan'.todo,
             scan.folder # NoFolder /\ scan'.folder = NoFolder => scan.folder \in scan.todo,
             ~(scan.at = "upsert" /\ scan.then = "moves"),
             scan'.at \notin {"none", "validate", "walk", "error"},
             scan'.again /\ scan'.then = "moves" => scan'.at \notin Batching,
             \A path \in Path : Stays(path)' => Stays(path) /\ doc'[path].current = doc[path].current
      PROVE  LeftAlone'
  <2>1. \A path \in Path : path[2] # NoFolder
    BY ScanAssumption DEF Path
  <2>2. \A path \in Path : Wanted(path) /\ Read(path[2])' => Read(path[2])
    BY <1>5, <2>1 DEF Read
  <2>3. \A path \in Path : Wanted(path) /\ Read(path[2]) /\ Stays(path)' => doc'[path].current
    BY <1>4, <1>5 DEF LeftAlone
  <2>4. QED
    BY <1>4, <1>5, <2>2, <2>3, CalmCarried
<1>6. CASE World \/ Service
  <2>1. UNCHANGED <<at, scan>> /\ StatesChange
    BY <1>2, <1>6, WorldCalm
  <2>2. \A path \in Path : (Wanted(path)' <=> Wanted(path)) /\ (Read(path[2])' <=> Read(path[2]))
    BY <2>1 DEF Wanted, Read
  <2>3. \A path \in Path : Stays(path)' => Stays(path) /\ doc'[path].current = doc[path].current
    BY <2>1 DEF StatesChange, Stays
  <2>4. {at[song] : song \in Song}' = {at[song] : song \in Song}
    BY <2>1
  <2>5. \A path \in scan.missing : ~Wanted(path)'
    BY <1>4, <2>1 DEF Wanted, LeftAlone
  <2>6. QED
    BY <1>4, <2>1, <2>2, <2>3, <2>4, <2>5 DEF LeftAlone
<1>7. CASE Initialize \/ Bootstrap \/ MarkScanned \/ MarkUnerrored
  <2>1. /\ scan.at \in {"init", "short", "scanned", "unerror"} /\ UNCHANGED <<at, cache, faults, calm, bound>>
        /\ StatesChange
    BY <1>7, StatesGive
  <2>2. scan.then \in {"moves", "save", "remove"}
    BY <2>1, ThreadFacts DEF TypedThread, ThreadState, Batching
  <2>3. CASE /\ \/ scan'.at \in {"short", "scanned", "unerror"} /\ scan'.batch = scan.batch
                \/ scan'.at = scan.then /\ scan'.batch = {}
             /\ scan'.kind = scan.kind /\ scan'.todo = scan.todo /\ scan'.found = scan.found
             /\ scan'.seen = scan.seen /\ scan'.folder = scan.folder /\ scan'.again = scan.again
             /\ scan'.missing = scan.missing /\ scan'.then = scan.then /\ scan'.outdated = scan.outdated
    <3>1. \A path \in Path : Stays(path)' => Stays(path) /\ doc'[path].current = doc[path].current
      BY <2>1, <2>3 DEF StatesChange, Stays
    <3>2. scan'.again /\ scan'.then = "moves" => scan'.at \notin Batching
      BY <1>4, <2>1, <2>3 DEF LeftAlone, Batching
    <3>3. scan'.todo \subseteq scan'.seen /\ scan'.at \notin {"none", "validate", "walk", "error"}
      BY <1>4, <2>2, <2>3 DEF LeftAlone
    <3>4. QED
      BY <1>5, <2>1, <2>3, <3>1, <3>2, <3>3
  <2>4. ASSUME Raise, scan.at \in {"short", "scanned", "unerror"}, NEW path \in scan.batch, ~Single(doc[path].edges)
        PROVE  LeftAlone'
    <3>1. /\ scan'.at = "list" /\ scan'.folder = scan.folder
          /\ scan'.todo = scan.todo /\ scan'.kind = scan.kind /\ scan'.found = scan.found
          /\ scan'.seen = scan.seen /\ scan'.missing = scan.missing /\ scan'.outdated = scan.outdated
      BY <1>4, <2>4, RaiseOnce
    <3>2. \A other \in Path : Stays(other)' => Stays(other) /\ doc'[other].current = doc[other].current
      BY <2>1, <3>1 DEF StatesChange, Stays
    <3>3. /\ scan'.at \notin Batching /\ scan'.at \notin {"none", "validate", "walk", "error"}
          /\ scan'.todo \subseteq scan'.seen
      BY <1>4, <3>1 DEF Batching, LeftAlone
    <3>4. QED
      BY <1>5, <2>1, <2>4, <3>1, <3>2, <3>3
  <2>5. QED
    BY <1>7, <2>1, <2>3, <2>4, StatesGive
<1>8. ASSUME UNCHANGED doc, scan'.missing = scan.missing
      PROVE  \A path \in Path : Stays(path)' => Stays(path) /\ doc'[path].current = doc[path].current
  BY <1>8 DEF Stays, Exists
<1>9. CASE NoMoreMoves
  <2>1. scan.at = "moves" /\ UNCHANGED <<at, doc>>
    BY <1>9 DEF NoMoreMoves, disk
  <2>2. QED
    BY <1>4, <1>5, <1>8, <1>9, <2>1, NoMoreMovesGives DEF LeftAlone, Batching
<1>10. CASE Save
  <2>1. scan.at = "save" /\ UNCHANGED <<at, doc>> /\ scan.folder \in scan.todo
    BY <1>10, ThreadFacts DEF Save, disk, TypedThread
  <2>2. QED
    BY <1>4, <1>5, <1>8, <1>10, <2>1, SaveGives DEF LeftAlone, Batching
<1>11. CASE FoldersDone \/ Final
  <2>1. scan.at \in {"folder", "final"} /\ UNCHANGED <<at, doc>> /\ scan.todo = {}
    BY <1>4, <1>11 DEF FoldersDone, Final, disk, Even, Placing, Adding
  <2>2. QED
    BY <1>4, <1>5, <1>8, <1>11, <2>1, DoneGives DEF LeftAlone, Batching
<1>12. CASE Remove
  <2>1. /\ scan.at = "remove" /\ UNCHANGED at /\ scan.todo = {} /\ scan.folder = NoFolder
        /\ doc' = [path \in Path |-> IF path \in scan.missing THEN NoDoc ELSE doc[path]]
    BY <1>4, <1>12 DEF Remove, disk, Even, Placing, Adding, Handling, Batching
  <2>2. \A path \in Path : Stays(path)' => Stays(path) /\ doc'[path].current = doc[path].current
    BY <2>1 DEF Stays, Exists
  <2>3. QED
    BY <1>4, <1>5, <1>12, <2>1, <2>2, RemoveGives DEF LeftAlone, Batching
<1>13. CASE Tidy \/ Complete
  <2>1. /\ UNCHANGED <<at, doc>> /\ \E step \in {"complete", "ending"} : Goto(step)
        /\ scan.at \in {"tidy", "complete"}
    BY <1>13 DEF Tidy, Complete, disk
  <2>2. QED
    BY <1>4, <1>5, <1>8, <2>1, GotoGives DEF LeftAlone, Batching
<1>14. CASE Validate \/ ScanError \/ End \/ QueryFails
  BY <1>3, <1>4, <1>14 DEF Validate, ScanError, End, QueryFails, LeftAlone
<1>15. CASE UNCHANGED vars
  BY <1>4, <1>15 DEF vars, LeftAlone, Wanted, Stays, Exists, Read
<1>16. ASSUME NEW folder \in Folder, List(folder) PROVE LeftAlone'
  BY <1>3, <1>4, <1>16, ListCalm DEF Even
<1>17. CASE Upsert \/ Move
  BY <1>4, <1>17, UpsertCalm, MoveCalm
<1>18. QED
  BY <1>2, <1>6, <1>7, <1>9, <1>10, <1>11, <1>12, <1>13, <1>14, <1>15, <1>16, <1>17 DEF Next, ScanStep

-----------------------------------------------------------------------------
(* Folders without a record. *)

\* What others do makes no document come or go.
LEMMA WorldExists ==
    ASSUME TypeInv, DocInv, World \/ Service, NEW path \in Path
    PROVE  Exists(path)' <=> Exists(path)
<1>1. CASE UNCHANGED doc
  BY <1>1 DEF Exists
<1>2. ASSUME NEW song \in Song, Edit(song) PROVE Exists(path)' <=> Exists(path)
  <2>1. doc'[path] = IF path \in Docs(song) THEN [doc[path] EXCEPT !.current = FALSE] ELSE doc[path]
    BY <1>2 DEF Edit
  <2>2. CASE path \in Docs(song)
    <3>1. Exists(path) /\ doc[path] \in Document
      BY <2>2, DocKept DEF Docs, InDb, Exists, DocInv
    <3> DEFINE d == [doc[path] EXCEPT !.current = FALSE]
    <3>2. d \in Document
      BY <3>1 DEF Document
    <3>3. doc'[path] = d
      BY <2>1, <2>2
    <3> HIDE DEF d
    <3>4. QED
      BY <3>1, <3>2, <3>3, DocMoves DEF Exists
  <2>3. QED
    BY <2>1, <2>2 DEF Exists
<1>3. ASSUME NEW other \in Path, Work(other) \/ WorkFails(other) PROVE Exists(path)' <=> Exists(path)
  BY <1>3, WorkKeeps
<1>4. ASSUME NEW song \in Song, NEW to \in Folder \cup {NoFolder}, Change(song, to) PROVE UNCHANGED doc
  BY <1>4 DEF Change
<1>5. Service => UNCHANGED doc
  BY DEF Service, SetScanning, Start, Ask, Crash, Sync
<1>6. QED
  BY <1>1, <1>2, <1>3, <1>4, <1>5 DEF World

\* While nothing fails, the documents are in folders with a record, or that the scan handles.
LEMMA StepRecord ==
    ASSUME Flat, TypeInv, DocInv, KnowInv, RecordInv, [Next]_vars
    PROVE  RecordInv'
<1>1. SUFFICES ASSUME Smooth' PROVE Recorded'
  BY DEF RecordInv
<1>2. ~Fault /\ faults' = faults /\ Recorded /\ Even
  <2>1. faults' = faults \/ Fault
    BY DEF Next, vars, World, Service, ScanStep, Change, Edit, Work, WorkFails, SetScanning, Start, Ask,
       Crash, Sync, Validate, Walk, List, Upsert, Initialize, Bootstrap, MarkScanned, MarkUnerrored, Mark,
       Move, Match, NoMoreMoves, Unmatched, Save, FoldersDone, Final, Remove, Tidy, Complete, ScanError, End,
       QueryFails
  <2>2. ~Fault
    BY <1>1, ScanAssumption DEF KnowInv, Fault, Smooth
  <2>3. QED
    BY <1>1, <2>1, <2>2 DEF KnowInv, RecordInv, Smooth, Even, Sound
<1>3. /\ \A path \in Path : path[2] \in Folder
      /\ scan.todo \subseteq scan.found /\ (scan.folder # NoFolder => scan.folder \in scan.todo)
      /\ scan.at \in Batching => scan.then \in {"moves", "save", "remove"}
      /\ scan.at \in {"list", "moves", "save"} => scan.folder # NoFolder
      /\ scan.at \in Batching /\ scan.then # "remove" => scan.folder # NoFolder
      /\ scan.batch \subseteq Path
  BY ThreadFacts DEF Path, TypedThread, ThreadState
<1>4. ~Handling => \A path \in Path : Exists(path) => cache[path[2]] # "none"
  BY <1>2 DEF Recorded
\* A thread that has nothing in mind.
<1>5. ASSUME ~Handling, NEW kind, NEW step \in {"none", "validate"}, scan' = Thread(kind, step),
             \A path \in Path : Exists(path)' <=> Exists(path),
             \A folder \in Folder : cache'[folder] = "none" <=> cache[folder] = "none"
      PROVE  Recorded'
  <2>1. scan'.at = step /\ scan'.unmatched = {}
    BY <1>5 DEF Thread
  <2>2. \A path \in Path : ~Late(path)'
    BY <2>1 DEF Late
  <2>3. QED
    BY <1>3, <1>4, <1>5, <2>1, <2>2 DEF Recorded, Batching
<1>6. CASE World \/ Service
  <2>1. \A path \in Path : Exists(path)' <=> Exists(path)
    BY <1>6, WorldExists
  <2>2. \A folder \in Folder : cache'[folder] = "none" <=> cache[folder] = "none"
    BY <1>6, WorldGives
  <2>3. CASE /\ scan'.at = scan.at /\ scan'.found = scan.found /\ scan'.folder = scan.folder
             /\ scan'.missing = scan.missing /\ scan'.unmatched = scan.unmatched
             /\ scan'.batch = scan.batch /\ scan'.then = scan.then
    <3>1. /\ \A path \in Path : Late(path)' <=> Late(path)
          /\ Handling' <=> Handling
      BY <2>3 DEF Late, Handling
    <3>2. scan.at \in Batching /\ scan.then = "moves" => scan.folder \in Folder
      BY <1>3, ThreadFacts
    <3>3. QED
      BY <1>2, <1>3, <2>1, <2>2, <2>3, <3>1, <3>2 DEF Recorded
  <2>4. CASE scan = NoThread /\ \E kind \in {"quick", "full"} : scan' = Thread(kind, "validate")
    <3>1. ~Handling
      BY <2>4, NoThreadTyped DEF Handling, Batching
    <3>2. QED
      BY <1>5, <2>1, <2>2, <2>4, <3>1
  <2>5. QED
    BY <1>2, <1>6, <2>3, <2>4, WorldGives
<1>7. CASE Walk
  <2> DEFINE found    == {at[song] : song \in Song} \ {NoFolder}
             vanished == {folder \in Folder \ found : cache[folder] # "none"}
             gone     == UNION {Below(folder) : folder \in vanished}
  <2>1. /\ scan'.at = "folder" /\ scan'.found = found /\ scan'.missing = gone
        /\ scan'.unmatched = scan.unmatched
    BY <1>7, WalkGives
  <2>2. scan.at = "walk" /\ UNCHANGED <<doc, cache>> /\ scan.unmatched = {}
    BY <1>2, <1>7 DEF Walk, Even, Placing
  <2>3. \A path \in Path : path \in gone <=> Exists(path) /\ path[2] \in vanished
    BY DEF Below, InDb, Exists, Flat, Path
  <2>4. \A path \in Path : Exists(path) => cache[path[2]] # "none"
    BY <1>4, <2>2 DEF Handling, Batching
  <2>5. \A path \in Path : Exists(path) /\ path[2] \notin found => path \in gone
    BY <1>3, <2>3, <2>4
  <2> HIDE DEF found, vanished, gone
  <2>6. /\ \A path \in Path : ~Late(path)'
        /\ \A path \in Path : Exists(path)' <=> Exists(path)
    BY <2>1, <2>2 DEF Late, Exists
  <2>7. QED
    BY <2>1, <2>2, <2>4, <2>5, <2>6 DEF Recorded, Batching
<1>8. ASSUME NEW folder \in Folder, List(folder) PROVE Recorded'
  <2>1. PICK gone, updated :
          /\ scan'.at \in {"moves", "upsert"} /\ scan'.found = scan.found /\ scan'.folder = folder
          /\ scan'.missing = scan.missing \cup gone /\ scan'.unmatched = scan.unmatched
          /\ scan'.batch = updated /\ scan'.then = "moves" /\ updated \subseteq Below(folder)
    <3>1. PICK listed \in SUBSET Song, unread \in SUBSET Song :
             LET known   == Below(folder)
                 gone    == known \ (listed \X {folder})
                 updated == {path \in known : path[1] \in listed \ unread /\ path[2] = folder /\ ~doc[path].current}
             IN  /\ scan'.at = (IF updated = {} THEN "moves" ELSE "upsert")
                 /\ scan'.found = scan.found /\ scan'.folder = folder
                 /\ scan'.missing = scan.missing \cup gone
                 /\ scan'.unmatched = scan.unmatched /\ scan'.batch = updated
                 /\ scan'.then = "moves"
      BY <1>8, ListGives
    <3>2. QED
      BY <3>1
  <2>2. UNCHANGED <<doc, cache>> /\ scan.at \in {"folder", "list"}
    BY <1>8 DEF List
  <2>3. \A path \in Path : path \in Below(folder) <=> Exists(path) /\ path[2] = folder
    BY DEF Below, InDb, Exists, Flat, Path
  <2>4. \A path \in Path : Exists(path) => cache[path[2]] # "none"
    BY <1>4, <2>2 DEF Handling, Batching
  <2>5. updated # {} => cache[folder] # "none"
    BY <2>1, <2>3, <2>4 DEF Below, InDb
  <2>6. /\ \A path \in Path : Late(path)' <=> Late(path)
        /\ \A path \in Path : Exists(path)' <=> Exists(path)
    BY <2>1, <2>2 DEF Late, Exists
  <2>7. QED
    BY <1>2, <2>1, <2>2, <2>4, <2>5, <2>6 DEF Recorded, Batching
<1>9. CASE Upsert
  <2>1. scan.at = "upsert" /\ UNCHANGED cache /\ Goto("init")
    BY <1>9 DEF Upsert
  <2>2. /\ \A path \in Path : Late(path)' => Late(path)
        /\ (Handling /\ Handling') \/ scan.then = "remove"
    BY <1>3, <2>1, GotoGives DEF Late, Handling, Batching
  <2>3. ASSUME NEW path \in Path, Exists(path)', ~Exists(path)
        PROVE  path[2] \in scan.found /\ (cache[path[2]] # "none" \/ (Handling' /\ path[2] = scan.folder))
    <3>1. path \in scan.batch
      BY <1>9, <2>3, UpsertGives
    <3>2. CASE scan.then = "remove"
      BY <1>2, <2>1, <3>1, <3>2 DEF Recorded, Batching
    <3>3. CASE scan.then = "save"
      <4>1. path[2] = scan.folder
        BY <1>2, <2>1, <3>1, <3>3 DEF Even, Sound, Mind, Placed
      <4>2. QED
        BY <1>3, <2>1, <2>2, <3>3, <4>1 DEF Batching
    <3>4. CASE scan.then = "moves"
      BY <1>2, <2>1, <2>3, <3>1, <3>4 DEF Even, Sound, Mind, Known
    <3>5. QED
      BY <1>3, <2>1, <3>2, <3>3, <3>4 DEF Batching
  <2>4. ASSUME NEW path \in Path, Exists(path) PROVE Exists(path)'
    BY <1>9, <2>4, UpsertGives
  <2>5. ASSUME NEW path \in Path, Exists(path), cache[path[2]] = "none" PROVE Handling' /\ path[2] = scan.folder
    <3>1. Handling /\ path[2] = scan.folder
      BY <1>2, <2>5 DEF Recorded
    <3>2. QED
      BY <2>1, <3>1, GotoGives DEF Handling, Batching
  <2>6. QED
    BY <1>2, <2>1, <2>2, <2>3, <2>4, <2>5, GotoGives DEF Recorded, Batching
<1>10. CASE Initialize \/ Bootstrap \/ MarkScanned \/ MarkUnerrored
  <2>1. /\ scan.at \in {"init", "short", "scanned", "unerror"} /\ UNCHANGED cache
        /\ \A path \in Path : Exists(path)' <=> Exists(path)
    BY <1>10, StatesGive DEF StatesChange
  <2>2. CASE /\ \/ scan'.at \in {"short", "scanned", "unerror"} /\ scan'.batch = scan.batch
                \/ scan'.at = scan.then /\ scan'.batch = {}
             /\ scan'.found = scan.found /\ scan'.folder = scan.folder
             /\ scan'.missing = scan.missing /\ scan'.unmatched = scan.unmatched /\ scan'.then = scan.then
    <3>1. \A path \in Path : (Late(path) <=> path \in scan.unmatched) /\ (Late(path)' <=> path \in scan.unmatched)
      BY <1>3, <2>1, <2>2 DEF Late, Batching
    <3>2. Handling => Handling'
      BY <1>3, <2>1, <2>2 DEF Handling, Batching
    <3>3. QED
      BY <1>2, <1>3, <2>1, <2>2, <3>1, <3>2 DEF Recorded, Batching
  <2>3. ASSUME Raise, scan.at \in {"short", "scanned", "unerror"}, NEW path \in scan.batch, ~Single(doc[path].edges)
        PROVE  Recorded'
    <3>1. scan.then = "moves" /\ scan.folder # NoFolder
      BY <1>2, <1>3, <2>3 DEF Even, Sound, Mind, NewDocs, Batching
    <3>2. cache[scan.folder] # "none"
      BY <1>2, <2>3, <3>1 DEF Recorded, Batching
    <3>3. \A other \in Path : Exists(other) => cache[other[2]] # "none"
      BY <1>2, <3>2 DEF Recorded
    <3>4. /\ scan'.at \in {"folder", "list"} /\ scan'.found = scan.found /\ scan'.missing = scan.missing
          /\ scan'.unmatched = scan.unmatched /\ scan'.then = scan.then
      BY <2>3, <3>1, RaiseGives
    <3>5. \A other \in Path : Late(other)' => Late(other)
      BY <3>4 DEF Late
    <3>6. QED
      BY <1>2, <2>1, <2>3, <3>1, <3>3, <3>4, <3>5 DEF Recorded, Batching
  <2>4. QED
    BY <1>10, <2>2, <2>3, StatesGive
<1>11. CASE Move
  <2>1. PICK old \in Matches, new \in New : Match(old, new)
    BY <1>11 DEF Move
  <2>2. scan.at \in {"moves", "final"} /\ UNCHANGED cache
    BY <1>11, <2>1 DEF Move, Match
  <2>3. /\ new \in Path /\ Pending(new) /\ (scan.at = "moves" => new[2] = scan.folder)
        /\ \A path \in Path : Exists(path)' => path # old /\ (Exists(path) \/ path = new)
    BY <1>2, <2>1, <2>2, MoveGives DEF Exists
  <2>4. /\ scan'.at = scan.at /\ scan'.found = scan.found /\ scan'.folder = scan.folder
        /\ scan'.missing = scan.missing \ {old} /\ scan'.unmatched \subseteq scan.unmatched
    BY <2>1, MatchGives
  <2>5. \A path \in Path : Late(path)' => Late(path)
    BY <2>2, <2>4 DEF Late
  <2>6. /\ new[2] \in scan.found
        /\ cache[new[2]] # "none" \/ (scan.at = "moves" /\ new[2] = scan.folder)
    <3>1. CASE scan.at = "moves"
      BY <1>3, <2>3, <3>1
    <3>2. CASE scan.at = "final"
      <4>1. Late(new)
        BY <2>3, <3>2 DEF Pending, Batching
      <4>2. QED
        BY <1>2, <2>3, <3>2, <4>1 DEF Recorded
    <3>3. QED
      BY <2>2, <3>1, <3>2
  <2>7. ASSUME NEW path \in Path, Exists(path)', cache[path[2]] = "none" PROVE Handling' /\ path[2] = scan.folder
    <3>1. CASE path = new
      BY <2>4, <2>6, <2>7, <3>1 DEF Handling
    <3>2. CASE Exists(path)
      BY <1>2, <2>2, <2>4, <2>7, <3>2 DEF Recorded, Handling, Batching
    <3>3. QED
      BY <2>3, <2>7, <3>1, <3>2
  <2>8. ASSUME NEW path \in Path, Exists(path)', path[2] \notin scan.found PROVE path \in scan'.missing
    <3>1. Exists(path) /\ path # old
      BY <2>3, <2>6, <2>8
    <3>2. QED
      BY <1>2, <2>2, <2>4, <2>8, <3>1 DEF Recorded
  <2>9. QED
    BY <1>2, <2>2, <2>4, <2>5, <2>7, <2>8 DEF Recorded, Batching
<1>12. CASE NoMoreMoves
  <2>1. scan.at = "moves" /\ UNCHANGED <<doc, cache>>
    BY <1>12 DEF NoMoreMoves
  <2>2. New = {<<song, scan.folder>> : song \in scan.fresh}
    BY <2>1 DEF New
  <2>3. \A path \in New : path[2] = scan.folder
    BY <2>2
  <2>4. /\ scan'.found = scan.found /\ scan'.folder = scan.folder /\ scan'.missing = scan.missing
        /\ \/ scan'.at = "save" /\ scan'.unmatched = scan.unmatched \cup New
           \/ scan'.at = "upsert" /\ scan'.unmatched = scan.unmatched /\ scan'.then = "save"
    BY <1>12, NoMoreMovesGives
  <2>5. \A path \in Path : Late(path)' => Late(path) \/ (scan'.at = "save" /\ path[2] = scan.folder)
    BY <2>3, <2>4 DEF Late
  <2>6. Handling' /\ \A path \in Path : Exists(path)' <=> Exists(path)
    BY <2>1, <2>4 DEF Handling, Exists, Batching
  <2>7. QED
    BY <1>2, <1>3, <2>1, <2>4, <2>5, <2>6 DEF Recorded, Batching
<1>13. CASE Save
  <2>1. /\ scan.at = "save" /\ UNCHANGED doc /\ scan.folder \in Folder
        /\ cache'[scan.folder] # "none"
        /\ \A folder \in Folder \ {scan.folder} : cache'[folder] = cache[folder]
    BY <1>13, ThreadFacts DEF Save, TypedThread, TypeInv
  <2>2. /\ scan'.at = "folder" /\ scan'.found = scan.found /\ scan'.missing = scan.missing
        /\ scan'.unmatched = scan.unmatched
    BY <1>13, SaveGives
  <2>3. \A path \in Path : (Late(path)' => Late(path)) /\ (Exists(path)' <=> Exists(path))
    BY <2>1, <2>2 DEF Late, Exists
  <2>4. QED
    BY <1>2, <1>3, <2>1, <2>2, <2>3 DEF Recorded, Batching
<1>14. CASE FoldersDone \/ Final
  <2>1. scan.at \in {"folder", "final"} /\ UNCHANGED <<doc, cache>>
    BY <1>14 DEF FoldersDone, Final
  <2>2. \A path \in Path : Exists(path) => cache[path[2]] # "none"
    BY <1>4, <2>1 DEF Handling, Batching
  <2>3. /\ scan'.found = scan.found /\ scan'.missing = scan.missing
        /\ \/ scan'.at = "final" /\ scan'.unmatched = scan.unmatched
           \/ scan'.at = "remove" /\ scan'.unmatched = {}
           \/ /\ scan'.at = "upsert" /\ scan'.unmatched = {} /\ scan'.then = "remove"
              /\ scan'.batch = scan.unmatched
    BY <1>14, DoneGives
  <2>4. \A path \in Path : Late(path)' => path \in scan.unmatched
    BY <2>3 DEF Late
  <2>5. \A path \in scan.unmatched : path \in Path /\ path[2] \in scan.found /\ cache[path[2]] # "none"
    BY <1>2, <2>1, ThreadFacts DEF Recorded, Late
  <2>6. \A path \in Path : Exists(path)' <=> Exists(path)
    BY <2>1 DEF Exists
  <2>7. QED
    BY <1>2, <2>1, <2>2, <2>3, <2>4, <2>5, <2>6 DEF Recorded, Batching
<1>15. CASE Remove
  <2>1. /\ scan.at = "remove" /\ UNCHANGED cache
        /\ doc' = [path \in Path |-> IF path \in scan.missing THEN NoDoc ELSE doc[path]]
    BY <1>15 DEF Remove
  <2>2. \A path \in Path : Exists(path)' => Exists(path) /\ path \notin scan.missing
    BY <2>1 DEF Exists
  <2>3. \A path \in Path : Exists(path) => cache[path[2]] # "none"
    BY <1>4, <2>1 DEF Handling, Batching
  <2>4. scan'.at = "tidy" /\ scan'.found = scan.found /\ scan'.unmatched = {}
    BY <1>15, RemoveGives
  <2>5. \A path \in Path : ~Late(path)'
    BY <2>4 DEF Late
  <2>6. QED
    BY <1>2, <2>1, <2>2, <2>3, <2>4, <2>5 DEF Recorded, Batching
<1>16. CASE Validate \/ Tidy \/ Complete
  <2>1. /\ UNCHANGED doc /\ scan.at \in {"validate", "tidy", "complete"}
        /\ \E step \in {"walk", "complete", "ending"} : Goto(step) /\ (scan.at # "validate" => step # "walk")
                                                       /\ (scan.at = "validate" => step = "walk")
        /\ \A folder \in Folder : cache'[folder] = "none" =>
              cache[folder] = "none" \/ (folder \notin scan.found /\ scan.at = "tidy")
    BY <1>2, <1>16 DEF Validate, Tidy, Complete
  <2>2. scan'.found = scan.found /\ scan'.missing = scan.missing /\ scan'.unmatched = scan.unmatched
    BY <2>1, GotoGives
  <2>3. scan.missing = {} /\ scan.unmatched = {}
    BY <1>2, <2>1 DEF Even, Placing, Over
  <2>4. \A path \in Path : Exists(path)' => Exists(path) /\ cache'[path[2]] # "none"
    <3>1. ASSUME NEW path \in Path, Exists(path)' PROVE Exists(path) /\ cache'[path[2]] # "none"
      <4>1. Exists(path) /\ cache[path[2]] # "none"
        BY <1>4, <2>1, <3>1 DEF Exists, Handling, Batching
      <4>2. scan.at = "tidy" => path[2] \in scan.found
        BY <1>2, <2>3, <4>1 DEF Recorded
      <4>3. QED
        BY <1>3, <2>1, <4>1, <4>2
    <3>2. QED
      BY <3>1
  <2>5. scan'.at \in {"walk", "complete", "ending"} /\ (scan.at = "validate" => scan'.at = "walk")
    BY <2>1, GotoGives
  <2>6. \A path \in Path : ~Late(path)'
    BY <2>2, <2>3, <2>5 DEF Late
  <2>7. scan.at # "validate" => \A path \in Path : Exists(path) => path[2] \in scan.found
    BY <1>2, <2>1, <2>3 DEF Recorded
  <2>8. QED
    BY <2>1, <2>2, <2>4, <2>5, <2>6, <2>7 DEF Recorded, Batching
<1>17. CASE End
  <2>1. ~Handling
    BY <1>17 DEF End, Handling, Batching
  <2>2. QED
    BY <1>5, <1>17, <2>1 DEF End, NoThread, Exists
<1>18. CASE ScanError \/ QueryFails
  BY <1>2, <1>18 DEF ScanError, QueryFails, Recorded
<1>19. CASE UNCHANGED vars
  BY <1>2, <1>19 DEF vars, Recorded, Exists, Late, Handling
<1>20. QED
  BY <1>6, <1>7, <1>8, <1>9, <1>10, <1>11, <1>12, <1>13, <1>14, <1>15, <1>16, <1>17, <1>18, <1>19
     DEF Next, ScanStep

-----------------------------------------------------------------------------
(* Songs that moved. *)

LEMMA DocsAre ==
    ASSUME NEW song \in Song, NEW old \in Path, Docs(song) = {old}
    PROVE  /\ old[1] = song /\ Exists(old)
           /\ \A path \in Path : path[1] = song /\ Exists(path) => path = old
<1>1. \A path \in Path : path \in Docs(song) <=> path[1] = song /\ Exists(path)
  BY DEF Docs, InDb, Exists
<1>2. QED
  BY <1>1

LEMMA NewPath ==
    ASSUME TypeInv, NEW song \in Song, at[song] # NoFolder
    PROVE  /\ <<song, at[song]>> \in Path /\ Wanted(<<song, at[song]>>)
           /\ \A path \in Path : path[1] = song /\ Wanted(path) => path = <<song, at[song]>>
<1>1. at[song] \in Folder
  BY DEF TypeInv
<1>2. \A path \in Path : path = <<path[1], path[2]>>
  BY DEF Path
<1>3. \A path \in Path : path[1] = song /\ Wanted(path) => path = <<song, at[song]>>
  BY <1>2 DEF Wanted
<1>4. <<song, at[song]>> \in Path /\ Wanted(<<song, at[song]>>)
  BY <1>1 DEF Path, Wanted
<1>5. QED
  BY <1>3, <1>4

\* The document of a song is where its file is, and the scan has nothing against it.
LEMMA MovedNow ==
    ASSUME TypeInv, NEW song \in Song, at[song] # NoFolder, at' = at, LeftAlone',
           doc'[<<song, at[song]>>] # NoDoc, doc'[<<song, at[song]>>].print
    PROVE  Moved(song)'
<1> DEFINE new == <<song, at[song]>>
<1>1. new \in Path /\ Wanted(new)
  BY NewPath
<1>2. new \notin scan'.missing
  BY <1>1 DEF LeftAlone, Wanted
<1>3. QED
  BY <1>2 DEF Moved, Stays, Exists

LEMMA WalkBound ==
    ASSUME Flat, TypeInv, KnowInv, Walk, NEW song \in bound'
    PROVE  song \in Song /\ calm' /\ (Thorough' /\ at'[song] # NoFolder => Moved(song)' \/ ToMove(song)')
<1> DEFINE found    == {at[other] : other \in Song} \ {NoFolder}
           vanished == {folder \in Folder \ found : cache[folder] # "none"}
           gone     == UNION {Below(folder) : folder \in vanished}
<1>1. /\ scan'.at = "folder" /\ scan'.kind = scan.kind
      /\ scan'.todo = {folder \in found : scan.kind = "full" \/ cache[folder] # "match"}
      /\ (scan'.hasTagged <=> \E path \in Path : Tagged(path))
      /\ scan'.prints = {path \in gone : doc[path].print}
  BY WalkGives
<1>2. UNCHANGED <<at, doc, cache, faults>> /\ calm' = TRUE /\ scan.at = "walk"
  BY DEF Walk, disk
<1>3. Placing /\ SureRight /\ LeftAlone' /\ scan.missing = {}
  BY <1>2, WalkCalm DEF KnowInv, Placing
<1>4. PICK old \in Path : /\ song \in Song /\ Docs(song) = {old}
                          /\ Tagged(old) /\ doc[old].print /\ cache[old[2]] # "none"
  BY DEF Walk
<1>5. SUFFICES ASSUME Thorough', at[song] # NoFolder PROVE Moved(song)' \/ ToMove(song)'
  BY <1>2, <1>4
<1>6. old[1] = song /\ Exists(old) /\ old[2] \in Folder
  BY <1>4, DocsAre DEF Path
<1>7. CASE Wanted(old)
  <2>1. old = <<song, at[song]>>
    BY <1>4, <1>5, <1>6, <1>7, NewPath
  <2>2. QED
    BY <1>2, <1>3, <1>4, <1>5, <1>6, <2>1, MovedNow DEF Exists
<1>8. CASE ~Wanted(old)
  <2>1. (Docs(song) = {old})' /\ doc'[old].print /\ ~Wanted(old)' /\ scan'.hasTagged
    BY <1>1, <1>2, <1>4, <1>8 DEF Docs, InDb, Wanted
  <2>2. CASE old[2] \in found
    <3>1. scan.kind = "full" \/ cache[old[2]] # "match"
      <4>1. ASSUME scan.kind # "full", cache[old[2]] = "match" PROVE FALSE
        <5>1. Smooth
          BY <1>1, <1>2, <1>5, <4>1 DEF Thorough, Smooth
        <5>2. old[2] \in Sure
          BY <1>6, <4>1, <5>1 DEF Sure
        <5>3. QED
          BY <1>3, <1>6, <1>8, <5>2 DEF SureRight, Stays
      <4>2. QED
        BY <4>1
    <3>2. old[2] \in scan'.todo
      BY <1>1, <2>2, <3>1
    <3>3. QED
      BY <1>1, <2>1, <3>2 DEF ToMove, Handling, Batching
  <2>3. CASE old[2] \notin found
    <3>1. old \in Below(old[2])
      BY <1>4, <1>6 DEF Below, InDb, Exists
    <3>2. old \in scan'.prints
      BY <1>1, <1>4, <1>6, <2>3, <3>1
    <3>3. QED
      BY <1>1, <2>1, <3>2 DEF ToMove
  <2>4. QED
    BY <2>2, <2>3
<1>9. QED
  BY <1>7, <1>8

\* The scan has the document of a song that moved in mind, or comes to its folder.
Holds(song, old) ==
    /\ old[1] = song
    /\ old \in scan.prints \/ (old[2] \in scan.todo /\ ~(Handling /\ old[2] = scan.folder))

\* A step that changes nothing of the documents of a song that moved, and forgets none.
LEMMA BoundCarried ==
    ASSUME TypeInv, NEW song \in Song, at[song] # NoFolder, at' = at, LeftAlone',
           Moved(song) \/ ToMove(song), scan'.hasTagged = scan.hasTagged,
           \A path \in Path : path[1] = song =>
              /\ Exists(path)' <=> Exists(path)
              /\ Exists(path) /\ doc[path].print => doc'[path].print,
           ToMove(song) => /\ \A path \in Path : Exists(path) /\ ~Wanted(path) /\ doc[path].print /\ Holds(song, path)
                                                   => Holds(song, path)'
                           /\ \/ scan'.at \in {"folder", "list", "moves", "save", "final"}
                              \/ scan'.at \in Batching /\ scan'.then = "moves"
    PROVE  Moved(song)' \/ ToMove(song)'
<1> DEFINE new == <<song, at[song]>>
<1>1. new \in Path /\ new[1] = song
  BY NewPath
<1>2. CASE Moved(song)
  <2>1. Exists(new) /\ doc[new].print
    BY <1>2 DEF Moved, Stays
  <2>2. doc'[new] # NoDoc /\ doc'[new].print
    BY <1>1, <2>1 DEF Exists
  <2>3. QED
    BY <2>2, MovedNow
<1>3. CASE ToMove(song)
  <2>1. PICK old \in Path : /\ Docs(song) = {old} /\ doc[old].print /\ ~Wanted(old) /\ scan.hasTagged
                            /\ old \in scan.prints \/ (old[2] \in scan.todo /\ ~(Handling /\ old[2] = scan.folder))
    BY <1>3 DEF ToMove
  <2>2. old[1] = song /\ Exists(old)
    BY <2>1, DocsAre
  <2>3. Holds(song, old)
    BY <2>1, <2>2 DEF Holds
  <2>4. Holds(song, old)'
    BY <1>3, <2>1, <2>2, <2>3
  <2>5. Docs(song)' = {old}
    <3>1. \A path \in Path : path \in Docs(song)' <=> path \in Docs(song)
      BY DEF Docs, InDb, Exists
    <3>2. Docs(song)' \subseteq Path /\ Docs(song) \subseteq Path
      BY DEF Docs, InDb
    <3>3. QED
      BY <2>1, <3>1, <3>2
  <2>6. doc'[old].print /\ ~Wanted(old)'
    BY <2>1, <2>2 DEF Wanted
  <2>7. QED
    BY <1>3, <2>1, <2>4, <2>5, <2>6 DEF ToMove, Holds
<1>4. QED
  BY <1>2, <1>3

\* A song that moved is found where it went.
LEMMA MoveBound ==
    ASSUME TypeInv, DocInv, Even, Move, NEW song \in Song, at[song] # NoFolder, at' = at, LeftAlone',
           Moved(song) \/ ToMove(song)
    PROVE  Moved(song)' \/ ToMove(song)'
<1>1. PICK old \in Matches, new \in New : Match(old, new)
  BY DEF Move
<1>2. scan.at \in {"moves", "final"}
  BY DEF Move
<1>3. /\ scan'.at = scan.at /\ scan'.todo = scan.todo /\ scan'.folder = scan.folder
      /\ scan'.hasTagged = scan.hasTagged /\ scan'.prints = scan.prints \ {old}
      /\ scan'.then = scan.then
  BY <1>1, MatchGives
<1>4. /\ old \in Path /\ new \in Path /\ old[1] = new[1] /\ Exists(old) /\ ~Exists(new)
      /\ Wanted(new) /\ Exists(new)' /\ doc'[new].print = doc[old].print
      /\ \A path \in Path \ {old, new} : doc'[path] = doc[path]
  BY <1>1, <1>2, MoveGives
<1>5. CASE new[1] = song
  <2>1. new = <<song, at[song]>>
    BY <1>4, <1>5, NewPath
  <2>2. ToMove(song)
    BY <1>4, <2>1 DEF Moved, Stays
  <2>3. PICK was \in Path : Docs(song) = {was} /\ doc[was].print
    BY <2>2 DEF ToMove
  <2>4. was = old
    BY <1>4, <1>5, <2>3, DocsAre
  <2>5. doc'[new] # NoDoc /\ doc'[new].print
    BY <1>4, <2>3, <2>4 DEF Exists
  <2>6. QED
    BY <2>1, <2>5, MovedNow
<1>6. CASE new[1] # song
  <2>1. \A path \in Path : path[1] = song => doc'[path] = doc[path] /\ path # old
    BY <1>4, <1>6
  <2>2. \A path \in Path : path[1] = song =>
           /\ Exists(path)' <=> Exists(path)
           /\ Exists(path) /\ doc[path].print => doc'[path].print
    BY <2>1 DEF Exists
  <2>3. \A path \in Path : Holds(song, path) => Holds(song, path)'
    BY <1>2, <1>3, <2>1 DEF Holds, Handling
  <2>4. QED
    BY <1>2, <1>3, <2>2, <2>3, BoundCarried
<1>7. QED
  BY <1>5, <1>6

\* What matched nothing in the end did not move.
LEMMA FinalBound ==
    ASSUME TypeInv, DocInv, Even, calm, Thorough, LeftAlone, Final, ~Fault, NEW song \in Song, at[song] # NoFolder,
           ToMove(song)
    PROVE  FALSE
<1> DEFINE new == <<song, at[song]>>
<1>1. scan.at = "final" /\ Matches = {}
  BY DEF Final, Unmatched
<1>2. scan.todo = {}
  BY <1>1 DEF Even, Placing, Adding
<1>3. PICK old \in Path : Docs(song) = {old} /\ ~Wanted(old) /\ scan.hasTagged /\ old \in scan.prints
  BY <1>2 DEF ToMove
<1>4. /\ new \in Path /\ Wanted(new) /\ new[1] = song /\ new[2] \in Folder /\ new[2] = at[song]
  BY NewPath DEF Path
<1>5. old[1] = song /\ ~Exists(new)
  BY <1>3, <1>4, DocsAre
<1>6. new[2] \in Sure
  <2>1. new[2] \in scan.found
    BY <1>4 DEF LeftAlone
  <2>2. QED
    BY <1>2, <1>4, <2>1 DEF Sure
<1>7. Late(new)
  BY <1>4, <1>5, <1>6 DEF Even, Sound, SureRight, Stays
<1>8. new \in New /\ new \in OnDisk
  BY <1>1, <1>4, <1>7 DEF Late, New, OnDisk, Wanted
<1>9. old \in Matches
  BY <1>3, <1>4, <1>5, <1>8 DEF Matches
<1>10. QED
  BY <1>1, <1>9

LEMMA StepBound ==
    ASSUME Flat, TypeInv, DocInv, KnowInv, CalmInv, BoundInv, [Next]_vars
    PROVE  BoundInv'
<1>1. SUFFICES ASSUME NEW song \in bound'
               PROVE  song \in Song /\ calm' /\ (Thorough' /\ at'[song] # NoFolder => Moved(song)' \/ ToMove(song)')
  BY DEF BoundInv
<1>2. CASE Walk
  BY <1>2, WalkBound
<1>3. SUFFICES ASSUME ~Walk
               PROVE  song \in Song /\ calm' /\ (Thorough' /\ at'[song] # NoFolder => Moved(song)' \/ ToMove(song)')
  BY <1>2
<1>4. ~Fault /\ ~Disturb
  BY DEF Fault, Disturb
<1>5. /\ UNCHANGED <<calm, bound, at, faults>>
      /\ scan'.kind = scan.kind
  <2>1. CASE World \/ Service
    <3>1. UNCHANGED <<calm, bound, at>>
      BY <1>4, <2>1, WorldGives
    <3>2. calm
      BY <3>1 DEF BoundInv
    <3>3. QED
      BY <2>1, <3>1, <3>2, WorldCalm
  <2>2. CASE UNCHANGED vars
    BY <2>2 DEF vars
  <2>3. ASSUME NEW folder \in Folder, List(folder)
        PROVE  UNCHANGED <<calm, bound, at, faults>> /\ scan'.kind = scan.kind
    <3>1. UNCHANGED <<faults, history>> /\ scan'.kind = scan.kind
      BY <1>4, <2>3, ListGives
    <3>2. QED
      BY <2>3, <3>1 DEF List, disk, history
  <2>4. CASE Move
    <3>1. PICK old \in Matches, new \in New : Match(old, new)
      BY <2>4 DEF Move
    <3>2. QED
      BY <3>1, MatchGives DEF Match, disk, history
  <2>5. CASE Initialize \/ Bootstrap \/ MarkScanned \/ MarkUnerrored
    <3>1. UNCHANGED <<calm, bound, at, faults>>
      BY <2>5, StatesGive
    <3>2. ASSUME Raise PROVE scan'.kind = scan.kind
      <4>1. Thread(scan.kind, "error").kind = scan.kind
        BY DEF Thread
      <4>2. QED
        BY <3>2, <4>1, RaiseGives
    <3>3. QED
      BY <2>5, <3>1, <3>2, StatesGive
  <2>6. CASE Upsert \/ Complete \/ ScanError \/ Tidy \/ Validate
    BY <1>4, <2>6, GotoGives DEF Upsert, Complete, ScanError, Tidy, Validate, disk, history
  <2>7. CASE NoMoreMoves \/ Save
    BY <1>4, <2>7, NoMoreMovesGives, SaveGives DEF NoMoreMoves, Save, Unmatched, disk, history
  <2>8. CASE FoldersDone \/ Final \/ Remove
    BY <1>4, <2>8, DoneGives, RemoveGives DEF FoldersDone, Final, Remove, Unmatched, disk, history
  <2>9. CASE End \/ QueryFails
    BY <1>4, <2>9 DEF End, QueryFails
  <2>10. QED
    BY <1>3, <2>1, <2>2, <2>3, <2>4, <2>5, <2>6, <2>7, <2>8, <2>9 DEF Next, ScanStep
<1>6. calm /\ LeftAlone /\ LeftAlone' /\ Even /\ song \in Song
  <2>1. calm /\ song \in Song
    BY <1>5 DEF BoundInv
  <2>2. QED
    BY <1>5, <2>1, StepCalm DEF CalmInv, KnowInv, Even, Sound
<1>7. SUFFICES ASSUME Thorough, at[song] # NoFolder, Moved(song) \/ ToMove(song) PROVE Moved(song)' \/ ToMove(song)'
  BY <1>5, <1>6 DEF BoundInv, Thorough, Smooth
<1> DEFINE new == <<song, at[song]>>
<1>8. new \in Path /\ new[1] = song
  BY <1>6, <1>7, NewPath
<1>9. /\ scan.at \in Batching => scan.then \in {"moves", "save", "remove"}
      /\ scan.batch \subseteq Path /\ scan.prints \subseteq Path
  BY ThreadFacts DEF Path, TypedThread, ThreadState
\* A step that leaves the documents to the workers, and the scan where it is.
<1>10. ASSUME UNCHANGED scan, StatesChange PROVE Moved(song)' \/ ToMove(song)'
  <2>1. \A path \in Path : Holds(song, path) <=> Holds(song, path)'
    BY <1>10 DEF Holds, Handling
  <2>2. ToMove(song) => \/ scan'.at \in {"folder", "list", "moves", "save", "final"}
                        \/ scan'.at \in Batching /\ scan'.then = "moves"
    BY <1>10 DEF ToMove
  <2>3. QED
    BY <1>5, <1>6, <1>7, <1>10, <2>1, <2>2, BoundCarried DEF StatesChange
<1>11. CASE World \/ Service
  BY <1>5, <1>6, <1>10, <1>11, WorldCalm
<1>12. CASE UNCHANGED vars
  BY <1>10, <1>12 DEF vars, StatesChange, Exists
\* A step of the scan that leaves the documents alone.
<1>13. ASSUME UNCHANGED doc, scan'.hasTagged = scan.hasTagged,
              ToMove(song) => /\ \A path \in Path :
                                    Exists(path) /\ ~Wanted(path) /\ doc[path].print /\ Holds(song, path)
                                       => Holds(song, path)'
                              /\ \/ scan'.at \in {"folder", "list", "moves", "save", "final"}
                                 \/ scan'.at \in Batching /\ scan'.then = "moves"
       PROVE  Moved(song)' \/ ToMove(song)'
  <2>1. \A path \in Path : /\ Exists(path)' <=> Exists(path)
                           /\ Exists(path) /\ doc[path].print => doc'[path].print
    BY <1>13 DEF Exists
  <2>2. QED
    BY <1>5, <1>6, <1>7, <1>13, <2>1, BoundCarried
<1>14. ASSUME NEW folder \in Folder, List(folder) PROVE Moved(song)' \/ ToMove(song)'
  <2>1. PICK there, updated, gone :
          /\ gone = Below(folder) \ (there \X {folder}) /\ there = {other \in Song : at[other] = folder}
          /\ scan'.at = (IF updated = {} THEN "moves" ELSE "upsert") /\ scan'.todo = scan.todo
          /\ scan'.folder = folder /\ scan'.hasTagged = scan.hasTagged
          /\ scan'.prints = scan.prints \cup {path \in gone : doc[path].print} /\ scan'.then = "moves"
    <3>1. PICK listed \in SUBSET Song, unread \in SUBSET Song :
            LET known   == Below(folder)
                gone    == known \ (listed \X {folder})
                updated == {path \in known : path[1] \in listed \ unread /\ path[2] = folder /\ ~doc[path].current}
            IN  /\ listed = {other \in Song : at[other] = folder}
                /\ scan'.at = (IF updated = {} THEN "moves" ELSE "upsert") /\ scan'.todo = scan.todo
                /\ scan'.folder = folder /\ scan'.hasTagged = scan.hasTagged
                /\ scan'.prints = scan.prints \cup {path \in gone : doc[path].print} /\ scan'.then = "moves"
      BY ZenonT(60), <1>4, <1>14, ListGives
    <3>2. QED
      BY <3>1
  <2>2. UNCHANGED doc /\ scan.at \in {"folder", "list"}
    BY <1>14 DEF List
  <2>3. ASSUME NEW path \in Path, Exists(path), ~Wanted(path), doc[path].print, Holds(song, path)
        PROVE  Holds(song, path)'
    <3>1. CASE path[2] = folder
      <4>1. path \in Below(folder)
        BY <2>3, <3>1 DEF Below, InDb, Exists
      <4>2. path \notin there \X {folder}
        BY <2>1, <2>3, <3>1 DEF Wanted, Path
      <4>3. QED
        BY <2>1, <2>3, <4>1, <4>2 DEF Holds
    <3>2. CASE path[2] # folder
      BY <2>1, <2>3, <3>2 DEF Holds
    <3>3. QED
      BY <3>1, <3>2
  <2>4. QED
    BY <1>13, <2>1, <2>2, <2>3 DEF Batching
<1>15. CASE Upsert
  <2>1. scan.at = "upsert" /\ Goto("init")
    BY <1>15 DEF Upsert
  <2>2. CASE Moved(song)
    <3>1. doc'[new] # NoDoc /\ doc'[new].print
      BY <1>8, <1>15, <2>2, UpsertGives DEF Moved, Stays, Exists
    <3>2. QED
      BY <1>5, <1>6, <1>7, <3>1, MovedNow
  <2>3. CASE ToMove(song)
    <3>1. scan.then = "moves"
      BY <2>1, <2>3 DEF ToMove
    <3>2. \A path \in scan.batch : Exists(path)
      BY <1>6, <2>1, <3>1 DEF Even, Sound, Mind, Known
    <3>3. \A path \in Path : /\ Exists(path)' <=> Exists(path)
                             /\ Exists(path) /\ doc[path].print => doc'[path].print
      BY <1>15, <3>2, UpsertGives
    <3>4. /\ scan'.at = "init" /\ scan'.then = "moves" /\ scan'.hasTagged = scan.hasTagged
          /\ scan'.prints = scan.prints /\ scan'.todo = scan.todo /\ scan'.folder = scan.folder
      BY <2>1, <3>1, GotoGives
    <3>5. \A path \in Path : Holds(song, path) => Holds(song, path)'
      BY <2>1, <3>1, <3>4 DEF Holds, Handling, Batching
    <3>6. QED
      BY <1>5, <1>6, <1>7, <3>3, <3>4, <3>5, BoundCarried DEF Batching
  <2>4. QED
    BY <1>7, <2>2, <2>3
<1>16. CASE Initialize \/ Bootstrap \/ MarkScanned \/ MarkUnerrored
  <2>1. scan.at \in {"init", "short", "scanned", "unerror"} /\ StatesChange
    BY <1>16, StatesGive
  <2>2. ToMove(song) => scan.then = "moves"
    BY <2>1 DEF ToMove
  <2>3. CASE /\ \/ scan'.at \in {"short", "scanned", "unerror"} /\ scan'.batch = scan.batch
                \/ scan'.at = scan.then /\ scan'.batch = {}
             /\ scan'.todo = scan.todo /\ scan'.folder = scan.folder /\ scan'.hasTagged = scan.hasTagged
             /\ scan'.prints = scan.prints /\ scan'.then = scan.then
    <3>1. ToMove(song) => \A path \in Path : Holds(song, path) => Holds(song, path)'
      BY <2>1, <2>2, <2>3 DEF Holds, Handling, Batching
    <3>2. QED
      BY <1>5, <1>6, <1>7, <2>1, <2>2, <2>3, <3>1, BoundCarried DEF StatesChange, Batching
  <2>4. ASSUME Raise, scan.at \in {"short", "scanned", "unerror"}, NEW path \in scan.batch, ~Single(doc[path].edges)
        PROVE  Moved(song)' \/ ToMove(song)'
    <3>1. /\ scan'.at = "list" /\ scan'.todo = scan.todo /\ scan'.hasTagged = scan.hasTagged
          /\ scan'.prints = scan.prints
      BY <1>6, <2>4, RaiseOnce
    <3>2. \A other \in Path : Holds(song, other) => Holds(song, other)'
      BY <3>1 DEF Holds, Handling, Batching
    <3>3. QED
      BY <1>5, <1>6, <1>7, <2>1, <3>1, <3>2, BoundCarried DEF StatesChange
  <2>5. QED
    BY <1>16, <2>3, <2>4, StatesGive
<1>17. CASE Move
  BY <1>5, <1>6, <1>7, <1>17, MoveBound
<1>18. CASE NoMoreMoves
  <2>1. UNCHANGED doc /\ scan.at = "moves"
    BY <1>18 DEF NoMoreMoves
  <2>2. scan.hasTagged => scan'.at = "save"
    BY <1>18, NoMoreMovesGives
  <2>3. \A path \in Path : Holds(song, path) => Holds(song, path)'
    BY <1>18, <2>1, NoMoreMovesGives DEF Holds, Handling, Batching
  <2>4. ToMove(song) => scan'.at = "save"
    BY <2>2 DEF ToMove
  <2>5. QED
    BY <1>13, <1>18, <2>1, <2>3, <2>4, NoMoreMovesGives
<1>19. CASE Save
  <2>1. UNCHANGED doc /\ scan.at = "save"
    BY <1>19 DEF Save
  <2>2. \A path \in Path : Holds(song, path) => Holds(song, path)'
    BY <1>19, <2>1, SaveGives DEF Holds, Handling, Batching
  <2>3. QED
    BY <1>13, <1>19, <2>1, <2>2, SaveGives
<1>20. CASE FoldersDone
  <2>1. UNCHANGED doc /\ scan.at = "folder" /\ scan.todo = {}
    BY <1>20 DEF FoldersDone
  <2>2. scan'.at = "final" /\ scan'.prints = scan.prints /\ scan'.hasTagged = scan.hasTagged
    BY <1>20, <2>1, DoneGives DEF Final
  <2>3. \A path \in Path : Holds(song, path) => Holds(song, path)'
    BY <2>1, <2>2 DEF Holds
  <2>4. QED
    BY <1>13, <2>1, <2>2, <2>3
<1>21. CASE Final
  <2>1. ~ToMove(song)
    BY <1>4, <1>6, <1>7, <1>21, FinalBound
  <2>2. UNCHANGED doc /\ scan'.hasTagged = scan.hasTagged
    BY <1>21, DoneGives DEF Final
  <2>3. QED
    BY <1>13, <2>1, <2>2
<1>22. CASE Remove \/ Tidy \/ Complete \/ Validate \/ ScanError
  <2>1. Moved(song)
    BY <1>7, <1>22 DEF ToMove, Remove, Tidy, Complete, Validate, ScanError, Batching
  <2>2. Exists(new) /\ doc[new].print /\ new \notin scan.missing
    BY <2>1 DEF Moved, Stays
  <2>3. doc'[new] = doc[new]
    BY <1>8, <1>22, <2>2 DEF Remove, Tidy, Complete, Validate, ScanError
  <2>4. QED
    BY <1>5, <1>6, <1>7, <2>2, <2>3, MovedNow DEF Exists
<1>23. CASE End \/ QueryFails
  BY <1>4, <1>23 DEF End, QueryFails
<1>24. QED
  BY <1>3, <1>11, <1>12, <1>14, <1>15, <1>16, <1>17, <1>18, <1>19, <1>20, <1>21, <1>22, <1>23
     DEF Next, ScanStep

-----------------------------------------------------------------------------
(* The properties. *)

LEMMA InitMind == Init => KnowInv /\ CalmInv /\ RecordInv /\ BoundInv
<1>1. SUFFICES ASSUME Init PROVE KnowInv /\ CalmInv /\ RecordInv /\ BoundInv
  OBVIOUS
<1>2. faults \in 0..MaxFaults /\ calm = FALSE /\ bound = {}
  BY <1>1, ScanAssumption DEF Init
<1>3. /\ scan.at = "none" /\ scan.missing = {} /\ scan.unmatched = {} /\ scan.batch = {} /\ scan.then = "none"
      /\ scan.folder = NoFolder /\ scan.again = FALSE
  BY <1>1 DEF Init, NoThread, Thread
<1>4. \A path \in Path : path[2] \in Folder /\ cache[path[2]] = "none" /\ ~Exists(path)
  BY <1>1 DEF Init, Path, Exists
<1>5. Placing
  BY <1>3 DEF Placing, Over, Adding, Handling, Batching
<1>6. SureRight
  BY <1>2, <1>4 DEF SureRight, Sure
<1>7. Mind
  BY <1>3 DEF Mind, Known, Placed, NewDocs, ListedRight, MissingGone, Handling, Pending, Late, Batching
<1>8. Recorded
  BY <1>3, <1>4 DEF Recorded, Late, Batching
<1>9. QED
  BY <1>2, <1>5, <1>6, <1>7, <1>8 DEF KnowInv, CalmInv, RecordInv, BoundInv

MindInv == TypeInv /\ DocInv /\ KnowInv /\ CalmInv /\ RecordInv /\ BoundInv

\* What scans know is right at every step, of folders that have no folders in them.
LEMMA MindHolds == ASSUME Flat PROVE Spec => []MindInv
<1>1. Init => MindInv
  BY InitType, InitMind DEF MindInv
<1>2. MindInv /\ [Next]_vars => MindInv'
  BY StepType, StepDocs, StepKnow, StepCalm, StepRecord, StepBound DEF MindInv
<1>3. QED
  BY <1>1, <1>2, PTL DEF Spec

\* Without folders in folders: however scans, edits and moves of files interleave, a folder
\* whose record matches, which a quick scan skips, has the documents of its files when no
\* scan runs, as long as nothing failed.
THEOREM SkippedAreRight == Flat => (Spec => []SkippedFoldersAreRight)
<1>1. MindInv => SkippedFoldersAreRight
  <2>1. SUFFICES ASSUME MindInv, faults = MaxFaults, ~Running, NEW folder \in Folder, cache[folder] = "match",
                        NEW song \in Song
                 PROVE  (<<song, folder>> \in InDb) <=> at[song] = folder
    BY DEF SkippedFoldersAreRight
  <2>2. SureRight /\ scan.at = "none" /\ scan.missing = {} /\ scan.unmatched = {}
    BY <2>1, NoThreadTyped DEF MindInv, KnowInv, Placing, Running
  <2> DEFINE path == <<song, folder>>
  <2>3. path \in Path /\ path[1] = song /\ path[2] = folder
    BY DEF Path
  <2>4. ~Late(path) /\ (Stays(path) <=> path \in InDb)
    BY <2>2, <2>3 DEF Late, Stays, Exists, InDb
  <2>5. Wanted(path) <=> at[song] = folder
    BY <2>3 DEF Wanted
  <2>6. folder \in Sure
    BY <2>1 DEF Sure, Smooth
  <2>7. QED
    BY <2>2, <2>3, <2>4, <2>5, <2>6 DEF SureRight
<1>2. ASSUME Flat PROVE Spec => []SkippedFoldersAreRight
  <2>1. Spec => []MindInv
    BY <1>2, MindHolds
  <2>2. QED
    BY <1>1, <2>1, PTL
<1>3. QED
  BY <1>2

\* At the end of a scan that was left alone, the documents in the folders it has found
\* and was to look at are those of the files.
LEMMA FoundAreRight ==
    ASSUME TypeInv, KnowInv, CalmInv, calm, Thorough, scan.at = "ending", NEW path \in Path
    PROVE  /\ Wanted(path) => path[2] \in scan.found
           /\ path[2] \in scan.found => (Exists(path) <=> Wanted(path))
<1>1. /\ scan.todo = {} /\ scan.missing = {} /\ scan.unmatched = {}
      /\ SureRight /\ LeftAlone
  BY DEF KnowInv, Placing, Over, CalmInv
<1>2. path[1] \in Song /\ path[2] \in Folder /\ path[2] # NoFolder
  BY ScanAssumption DEF Path
<1>3. Wanted(path) => path[2] \in scan.found
  BY <1>1, <1>2 DEF Wanted, LeftAlone
<1>4. ASSUME path[2] \in scan.found PROVE Exists(path) <=> Wanted(path)
  <2>1. path[2] \in Sure
    BY <1>1, <1>2, <1>4 DEF Sure
  <2>2. ~Late(path) /\ (Stays(path) <=> Exists(path))
    BY <1>1 DEF Late, Stays
  <2>3. QED
    BY <1>1, <2>1, <2>2 DEF SureRight
<1>5. QED
  BY <1>3, <1>4

\* Without folders in folders: when a scan ends that nothing disturbed, the documents are
\* those of the files on disk if nothing ever failed; a full scan, whatever failed before
\* it, has every file and is right about the folders that have files.
THEOREM MirrorsDisk == Flat => (Spec => []ScanMirrorsDisk)
<1>1. MindInv => ScanMirrorsDisk
  <2>1. SUFFICES ASSUME MindInv, scan.at = "ending", calm
                 PROVE  /\ faults = MaxFaults => InDb = OnDisk
                        /\ scan.kind = "full" =>
                              /\ OnDisk \subseteq InDb
                              /\ \A path \in InDb : path[2] \in scan.found => path \in OnDisk /\ doc[path].current
    BY DEF ScanMirrorsDisk, Finished
  <2>2. \A path \in Path : (path \in InDb <=> Exists(path)) /\ (path \in OnDisk <=> Wanted(path))
    BY DEF InDb, OnDisk, Exists, Wanted
  <2>3. InDb \subseteq Path /\ OnDisk \subseteq Path
    BY DEF InDb, OnDisk
  <2>4. scan.missing = {} /\ scan.todo = {} /\ LeftAlone
    BY <2>1 DEF MindInv, KnowInv, Placing, Over, CalmInv
  <2>5. ASSUME Thorough, NEW path \in Path
        PROVE  /\ Wanted(path) => Exists(path)
               /\ path[2] \in scan.found => (Exists(path) <=> Wanted(path))
    BY <2>1, <2>5, FoundAreRight DEF MindInv
  <2>6. ASSUME faults = MaxFaults PROVE InDb = OnDisk
    <3>1. \A path \in Path : Exists(path) => path[2] \in scan.found
      BY <2>1, <2>4, <2>6 DEF MindInv, RecordInv, Recorded, Smooth
    <3>2. \A path \in Path : Exists(path) <=> Wanted(path)
      BY <2>5, <2>6, <3>1 DEF Thorough, Smooth
    <3>3. QED
      BY <2>2, <2>3, <3>2
  <2>7. ASSUME scan.kind = "full" PROVE OnDisk \subseteq InDb
    BY <2>2, <2>3, <2>5, <2>7 DEF Thorough
  <2>8. ASSUME scan.kind = "full", NEW path \in InDb, path[2] \in scan.found
        PROVE  path \in OnDisk /\ doc[path].current
    <3>1. path \in Path /\ Exists(path) /\ Wanted(path)
      BY <2>2, <2>3, <2>5, <2>8 DEF Thorough
    <3>2. Read(path[2]) /\ Stays(path)
      BY <2>4, <2>8, <3>1 DEF Read, Stays
    <3>3. doc[path].current
      BY <2>1, <2>4, <3>1, <3>2 DEF LeftAlone
    <3>4. QED
      BY <2>2, <3>1, <3>3
  <2>9. QED
    BY <2>6, <2>7, <2>8
<1>2. ASSUME Flat PROVE Spec => []ScanMirrorsDisk
  <2>1. Spec => []MindInv
    BY <1>2, MindHolds
  <2>2. QED
    BY <1>1, <2>1, PTL
<1>3. QED
  BY <1>2

\* Without folders in folders: a song that had one document, with what was computed for it,
\* when a scan read the folders, has it at its new path at the end, if nothing disturbed the
\* scan and no folder was skipped that a failure had left wrong.
THEOREM MovesAreKept == Flat => (Spec => []MovesKept)
<1>1. MindInv => MovesKept
  <2>1. SUFFICES ASSUME MindInv, scan.at = "ending", scan.kind = "full" \/ faults = MaxFaults,
                        NEW song \in bound, at[song] # NoFolder
                 PROVE  <<song, at[song]>> \in InDb /\ doc[<<song, at[song]>>].print
    BY DEF MovesKept, Finished
  <2>2. song \in Song /\ (Moved(song) \/ ToMove(song))
    BY <2>1 DEF MindInv, BoundInv, Thorough, Smooth
  <2>3. ~ToMove(song)
    BY <2>1 DEF ToMove, Batching
  <2>4. <<song, at[song]>> \in Path
    BY <2>1, <2>2, NewPath DEF MindInv
  <2>5. QED
    BY <2>2, <2>3, <2>4 DEF Moved, Stays, Exists, InDb
<1>2. ASSUME Flat PROVE Spec => []MovesKept
  <2>1. Spec => []MindInv
    BY <1>2, MindHolds
  <2>2. QED
    BY <1>1, <2>1, PTL
<1>3. QED
  BY <1>2
=============================================================================
