-------------------------- MODULE LibraryScanProofs --------------------------
(***************************************************************************)
(* What holds of LibraryScan for any songs, folders and bounds.            *)
(*                                                                         *)
(* Invariants:                                                             *)
(*  - TypeInv: the types, and where a scan is in a folder;                 *)
(*  - DocInv: which documents exist at the steps of a batch, and that each *)
(*    has at least one state on every axis or none at all.                 *)
(***************************************************************************)
EXTENDS LibraryScan, TLAPS

\* The states of a file that was initialised: one or two on every axis.
Whole(edges) == \A axis \in Axis : Poles(edges, axis) # {}

WholeDoc == {d \in Document : Whole(d.edges)}
BareDoc  == {d \in Document : d.edges = {}}

\* From the upsert of a batch to the last of its states.
Batching == {"upsert", "init", "short", "scanned", "unerror"}

ThreadState ==
    [kind : {"none", "quick", "full"},
     at : {"none", "validate", "walk", "folder", "list", "moves", "save", "final", "remove",
           "tidy", "complete", "error", "ending"} \cup Batching,
     todo : SUBSET Folder, found : SUBSET Folder, seen : SUBSET Folder,
     folder : Folder \cup {NoFolder}, again : BOOLEAN, hasTagged : BOOLEAN,
     missing : SUBSET Path, prints : SUBSET Path, fresh : SUBSET Song,
     unmatched : SUBSET Path, batch : SUBSET Path,
     then : {"none", "moves", "save", "remove"}, outdated : SUBSET Song]

\* A thread is in a folder it has to do where it works on one, and has read no
\* folder before the walk.
TypedThread ==
    {r \in ThreadState :
        /\ r.todo \subseteq r.found /\ r.seen \subseteq r.found
        /\ r.prints \subseteq r.missing
        /\ r.folder # NoFolder => r.folder \in r.todo
        /\ r.at \in {"validate", "walk"} => r.folder = NoFolder
        /\ r.at \in {"list", "moves", "save"} => r.folder # NoFolder
        /\ r.at \in Batching => r.then # "none" /\ (r.then # "remove" => r.folder # NoFolder)}

TypeInv ==
    /\ at \in [Song -> Folder \cup {NoFolder}]
    /\ cache \in [Folder -> {"none", "match", "old"}]
    /\ status \in {"idle", "scanning", "complete", "error"}
    /\ ask \in [Requester -> {"idle", "quick", "full", "start quick", "start full"}]
    /\ scan \in TypedThread

\* What a batch is about exists once it is upserted, and has states once it is initialised.
DocInv ==
    /\ doc \in [Path -> WholeDoc \cup BareDoc \cup {NoDoc}]
    /\ scan.at = "init" => \A path \in scan.batch : doc[path] # NoDoc
    /\ scan.at \in {"short", "scanned", "unerror"} => \A path \in scan.batch : doc[path] \in WholeDoc
-----------------------------------------------------------------------------
(* The states of a file, and its document. *)

LEMMA ThreeAxes == Axis = {"tagged", "scanned", "errored"}
BY ScanAssumption

\* States of an axis are states.
LEMMA StatesTyped == \A axis \in Axis : Is(axis) \in State /\ IsNot(axis) \in State
BY DEF Is, IsNot, State

\* initialize_file_states leaves no axis without a state.
LEMMA InitializedWhole ==
    ASSUME NEW edges \in SUBSET State
    PROVE  Initialized(edges) \in SUBSET State /\ Whole(Initialized(edges))
<1>1. Initialized(edges) \in SUBSET State
  BY StatesTyped DEF Initialized
<1>2. ASSUME NEW axis \in Axis PROVE IsNot(axis) \in Poles(Initialized(edges), axis)
  BY DEF Poles, Initialized, IsNot
<1>3. QED
  BY <1>1, <1>2 DEF Whole

\* A transition replaces a state by one of the same axis.
LEMMA TransitionedWhole ==
    ASSUME NEW edges \in SUBSET State, NEW axis \in Axis, NEW new \in Transitioned(edges, Is(axis))
    PROVE  new \in SUBSET State /\ (Whole(edges) => Whole(new))
<1>1. CASE new = edges
  BY <1>1
<1>2. CASE new = (edges \ Poles(edges, axis)) \cup {Is(axis)}
  <2>1. new \in SUBSET State
    BY <1>2, StatesTyped
  <2>2. ASSUME Whole(edges), NEW other \in Axis PROVE Poles(new, other) # {}
    <3>1. CASE other = axis
      <4>1. Is(axis) \in Poles(new, other)
        BY <1>2, <3>1 DEF Poles, Is
      <4>2. QED
        BY <4>1
    <3>2. CASE other # axis
      <4>1. PICK state \in Poles(edges, other) : TRUE
        BY <2>2 DEF Whole
      <4>2. state \in Poles(new, other)
        BY <1>2, <3>2, <4>1 DEF Poles
      <4>3. QED
        BY <4>2
    <3>3. QED
      BY <3>1, <3>2
  <2>3. QED
    BY <2>1, <2>2 DEF Whole
<1>3. QED
  BY <1>1, <1>2 DEF Transitioned, Is

\* So does a query for many files, of those that have the state it looks for.
LEMMA BulkSetWhole ==
    ASSUME NEW edges \in SUBSET State, NEW from \in State
    PROVE  BulkSet(edges, from) \in SUBSET State /\ (Whole(edges) => Whole(BulkSet(edges, from)))
<1>1. Opposite(from) \in State /\ Opposite(from)[1] = from[1]
  BY DEF Opposite, State
<1>2. CASE from \notin edges
  BY <1>2 DEF BulkSet
<1>3. CASE from \in edges
  <2> DEFINE new == (edges \ {from}) \cup {Opposite(from)}
  <2>1. BulkSet(edges, from) = new
    BY <1>3 DEF BulkSet
  <2>2. ASSUME Whole(edges), NEW axis \in Axis PROVE Poles(new, axis) # {}
    <3>1. CASE from[1] = axis
      <4>1. Opposite(from) \in Poles(new, axis)
        BY <1>1, <3>1 DEF Poles
      <4>2. QED
        BY <4>1
    <3>2. CASE from[1] # axis
      <4>1. PICK state \in Poles(edges, axis) : TRUE
        BY <2>2 DEF Whole
      <4>2. state \in Poles(new, axis)
        BY <3>2, <4>1 DEF Poles
      <4>3. QED
        BY <4>2
    <3>3. QED
      BY <3>1, <3>2
  <2>3. new \in SUBSET State
    BY <1>1
  <2> HIDE DEF new
  <2>4. QED
    BY <2>1, <2>2, <2>3 DEF Whole
<1>4. QED
  BY <1>2, <1>3

\* A document that changes, and one that is new.
LEMMA DocMoves ==
    /\ NoDoc \notin Document
    /\ \A current \in BOOLEAN : [current |-> current, print |-> FALSE, edges |-> {}] \in BareDoc
    /\ \A d \in Document, current \in BOOLEAN :
          /\ [d EXCEPT !.current = current] \in Document
          /\ [d EXCEPT !.current = current].edges = d.edges
          /\ [d EXCEPT !.current = current].print = d.print
          /\ [d EXCEPT !.current = current].current = current
    /\ \A d \in Document, edges \in SUBSET State :
          /\ [d EXCEPT !.edges = edges] \in Document
          /\ [d EXCEPT !.edges = edges].edges = edges
          /\ [d EXCEPT !.edges = edges].print = d.print
          /\ [d EXCEPT !.edges = edges].current = d.current
          /\ [d EXCEPT !.print = TRUE, !.edges = edges] \in Document
          /\ [d EXCEPT !.print = TRUE, !.edges = edges].edges = edges
<1>1. NoDoc \notin Document
  BY ScanAssumption DEF Document
<1>2. \A current \in BOOLEAN : [current |-> current, print |-> FALSE, edges |-> {}] \in BareDoc
  BY DEF BareDoc, Document
<1>3. ASSUME NEW d \in Document, NEW current \in BOOLEAN
      PROVE  /\ [d EXCEPT !.current = current] \in Document
             /\ [d EXCEPT !.current = current].edges = d.edges
             /\ [d EXCEPT !.current = current].print = d.print
             /\ [d EXCEPT !.current = current].current = current
  BY DEF Document
<1>4. ASSUME NEW d \in Document, NEW edges \in SUBSET State
      PROVE  /\ [d EXCEPT !.edges = edges] \in Document
             /\ [d EXCEPT !.edges = edges].edges = edges
             /\ [d EXCEPT !.edges = edges].print = d.print
             /\ [d EXCEPT !.edges = edges].current = d.current
             /\ [d EXCEPT !.print = TRUE, !.edges = edges] \in Document
             /\ [d EXCEPT !.print = TRUE, !.edges = edges].edges = edges
  BY DEF Document
<1>5. QED
  BY <1>1, <1>2, <1>3, <1>4
-----------------------------------------------------------------------------
(* Types. *)

LEMMA NewThread ==
    ASSUME NEW kind \in {"none", "quick", "full"},
           NEW step \in {"none", "validate", "tidy", "error", "ending"}
    PROVE  Thread(kind, step) \in TypedThread /\ Thread(kind, step).at = step
BY DEF Thread, TypedThread, ThreadState, Batching

LEMMA NoThreadTyped == NoThread \in TypedThread /\ NoThread.at = "none"
BY NewThread DEF NoThread

\* The thread that walks, that lists a folder, that matches, that goes back or on
\* when something raised: what is left of its fields makes it typed.
LEMMA WalkThread ==
    ASSUME NEW r \in ThreadState, NEW found \in SUBSET Folder, NEW todo \in SUBSET found,
           NEW tagged \in BOOLEAN, NEW gone \in SUBSET Path, NEW prints \in SUBSET gone,
           r.folder = NoFolder
    PROVE  [r EXCEPT !.at = "folder", !.todo = todo, !.found = found, !.seen = found,
                     !.hasTagged = tagged, !.missing = gone, !.prints = prints] \in TypedThread
<1> DEFINE s == [r EXCEPT !.at = "folder", !.todo = todo, !.found = found, !.seen = found,
                          !.hasTagged = tagged, !.missing = gone, !.prints = prints]
<1>1. s \in ThreadState
  BY DEF ThreadState
<1>2. /\ s.at = "folder" /\ s.todo = todo /\ s.found = found /\ s.seen = found
      /\ s.prints = prints /\ s.missing = gone /\ s.folder = NoFolder
  BY DEF ThreadState
<1> HIDE DEF s
<1>3. s \in TypedThread
  BY <1>1, <1>2 DEF TypedThread, Batching
<1>4. QED
  BY <1>3 DEF s

LEMMA ListThread ==
    ASSUME NEW r \in TypedThread, NEW folder \in Folder, folder \in r.todo,
           NEW step \in {"moves", "upsert"}, NEW gone \in SUBSET Path, NEW prints \in SUBSET gone,
           NEW fresh \in SUBSET Song, NEW batch \in SUBSET Path, NEW outdated \in SUBSET Song
    PROVE  [r EXCEPT !.at = step, !.folder = folder, !.missing = r.missing \cup gone,
                     !.prints = r.prints \cup prints, !.fresh = fresh, !.batch = batch,
                     !.then = "moves", !.outdated = outdated] \in TypedThread
<1> DEFINE s == [r EXCEPT !.at = step, !.folder = folder, !.missing = r.missing \cup gone,
                          !.prints = r.prints \cup prints, !.fresh = fresh, !.batch = batch,
                          !.then = "moves", !.outdated = outdated]
<1>1. /\ r \in ThreadState /\ r.todo \subseteq r.found /\ r.seen \subseteq r.found
      /\ r.prints \subseteq r.missing /\ folder # NoFolder
  BY ScanAssumption DEF TypedThread
<1>2. r.missing \cup gone \in SUBSET Path /\ r.prints \cup prints \in SUBSET Path
  BY <1>1 DEF ThreadState
<1>3. s \in ThreadState
  BY <1>1, <1>2 DEF ThreadState, Batching
<1>4. /\ s.at = step /\ s.todo = r.todo /\ s.found = r.found /\ s.seen = r.seen
      /\ s.prints = r.prints \cup prints /\ s.missing = r.missing \cup gone
      /\ s.folder = folder /\ s.then = "moves"
  BY <1>1 DEF ThreadState
<1> HIDE DEF s
<1>5. s \in TypedThread
  BY <1>1, <1>3, <1>4 DEF TypedThread, Batching
<1>6. QED
  BY <1>5 DEF s

LEMMA MatchThread ==
    ASSUME NEW r \in TypedThread, NEW old, NEW fresh \in SUBSET Song, NEW unmatched \in SUBSET Path
    PROVE  [r EXCEPT !.missing = r.missing \ {old}, !.prints = r.prints \ {old},
                     !.fresh = fresh, !.unmatched = unmatched] \in TypedThread
<1> DEFINE s == [r EXCEPT !.missing = r.missing \ {old}, !.prints = r.prints \ {old},
                          !.fresh = fresh, !.unmatched = unmatched]
<1>1. r \in ThreadState
  BY DEF TypedThread
<1>2. r.missing \ {old} \in SUBSET Path /\ r.prints \ {old} \in SUBSET Path
  BY <1>1 DEF ThreadState
<1>3. s \in ThreadState
  BY <1>1, <1>2 DEF ThreadState
<1>4. /\ s.at = r.at /\ s.todo = r.todo /\ s.found = r.found /\ s.seen = r.seen
      /\ s.prints = r.prints \ {old} /\ s.missing = r.missing \ {old}
      /\ s.folder = r.folder /\ s.then = r.then
  BY <1>1 DEF ThreadState
<1> HIDE DEF s
<1>5. s \in TypedThread
  BY <1>3, <1>4 DEF TypedThread
<1>6. QED
  BY <1>5 DEF s

LEMMA AgainThread ==
    ASSUME NEW r \in TypedThread, r.folder # NoFolder
    PROVE  /\ [r EXCEPT !.at = "list", !.again = TRUE, !.batch = {}, !.fresh = {},
                        !.todo = r.todo, !.folder = r.folder] \in TypedThread
           /\ [r EXCEPT !.at = "folder", !.again = FALSE, !.batch = {}, !.fresh = {},
                        !.todo = r.todo \ {r.folder}, !.folder = NoFolder] \in TypedThread
<1> DEFINE s == [r EXCEPT !.at = "list", !.again = TRUE, !.batch = {}, !.fresh = {},
                          !.todo = r.todo, !.folder = r.folder]
           t == [r EXCEPT !.at = "folder", !.again = FALSE, !.batch = {}, !.fresh = {},
                          !.todo = r.todo \ {r.folder}, !.folder = NoFolder]
<1>1. r \in ThreadState /\ r.todo \in SUBSET Folder /\ r.folder \in Folder
  BY DEF TypedThread, ThreadState
<1>2. s \in ThreadState
  BY <1>1 DEF ThreadState
<1>3. /\ s.at = "list" /\ s.todo = r.todo /\ s.found = r.found /\ s.seen = r.seen
      /\ s.prints = r.prints /\ s.missing = r.missing /\ s.folder = r.folder /\ s.then = r.then
  BY <1>1 DEF ThreadState
<1>4. t \in ThreadState
  BY <1>1 DEF ThreadState
<1>5. /\ t.at = "folder" /\ t.todo = r.todo \ {r.folder} /\ t.found = r.found /\ t.seen = r.seen
      /\ t.prints = r.prints /\ t.missing = r.missing /\ t.folder = NoFolder /\ t.then = r.then
  BY <1>1 DEF ThreadState
<1> HIDE DEF s, t
<1>6. s \in TypedThread
  BY <1>2, <1>3 DEF TypedThread, Batching
<1>7. t \in TypedThread
  BY <1>4, <1>5 DEF TypedThread, Batching
<1>8. QED
  BY <1>6, <1>7 DEF s, t

\* Something raised where a query is made: tried again, skipped, or over.
LEMMA RaiseType ==
    ASSUME scan \in TypedThread, Raise
    PROVE  scan' \in TypedThread /\ scan'.at \in {"folder", "list", "error"}
<1>1. scan \in ThreadState /\ scan.again \in BOOLEAN
  BY DEF TypedThread, ThreadState
<1>2. CASE scan.folder = NoFolder
  BY <1>1, <1>2, NewThread DEF Raise, ThreadState
<1>3. CASE scan.folder # NoFolder /\ scan.again = FALSE
  <2>1. scan' = [scan EXCEPT !.at = "list", !.again = TRUE, !.batch = {}, !.fresh = {},
                             !.todo = scan.todo, !.folder = scan.folder]
    BY <1>3 DEF Raise
  <2>2. scan'.at = "list"
    BY <1>1, <2>1 DEF ThreadState
  <2>3. QED
    BY <1>3, <2>1, <2>2, AgainThread
<1>4. CASE scan.folder # NoFolder /\ scan.again = TRUE
  <2>1. scan' = [scan EXCEPT !.at = "folder", !.again = FALSE, !.batch = {}, !.fresh = {},
                             !.todo = scan.todo \ {scan.folder}, !.folder = NoFolder]
    BY <1>4 DEF Raise
  <2>2. scan'.at = "folder"
    BY <1>1, <2>1 DEF ThreadState
  <2>3. QED
    BY <1>4, <2>1, <2>2, AgainThread
<1>5. QED
  BY <1>1, <1>2, <1>3, <1>4

LEMMA InitType == Init => TypeInv /\ DocInv
<1>1. SUFFICES ASSUME Init PROVE TypeInv /\ DocInv
  OBVIOUS
<1>2. TypeInv
  BY <1>1, NoThreadTyped DEF Init, TypeInv
<1>3. DocInv
  BY <1>1, NoThreadTyped DEF Init, DocInv
<1>4. QED
  BY <1>2, <1>3

\* A thread whose query is done.
LEMMA StepGoesOn ==
    ASSUME scan \in TypedThread
    PROVE  /\ scan.at = "validate" => [scan EXCEPT !.at = "walk"] \in TypedThread
           /\ scan.at = "upsert" => [scan EXCEPT !.at = "init"] \in TypedThread
           /\ scan.at = "init" => [scan EXCEPT !.at = "short"] \in TypedThread
           /\ scan.at = "short" => [scan EXCEPT !.at = "scanned"] \in TypedThread
           /\ scan.at = "scanned" => [scan EXCEPT !.at = "unerror"] \in TypedThread
           /\ scan.at = "unerror" => [scan EXCEPT !.at = scan.then, !.batch = {}] \in TypedThread
           /\ scan.at = "tidy" => [scan EXCEPT !.at = "complete"] \in TypedThread
           /\ scan.at \in {"complete", "error"} => [scan EXCEPT !.at = "ending"] \in TypedThread
<1>1. scan.at = "unerror" => [scan EXCEPT !.at = scan.then, !.batch = {}] \in TypedThread
  <2>1. SUFFICES ASSUME scan.at = "unerror" PROVE [scan EXCEPT !.at = scan.then, !.batch = {}] \in TypedThread
    OBVIOUS
  <2>2. scan.then \in {"moves", "save", "remove"}
    BY <2>1 DEF TypedThread, ThreadState, Batching
  <2>3. QED
    BY <2>1, <2>2 DEF TypedThread, ThreadState, Batching
<1>2. scan.at = "validate" => [scan EXCEPT !.at = "walk"] \in TypedThread
  BY DEF TypedThread, ThreadState, Batching
<1>3. scan.at = "upsert" => [scan EXCEPT !.at = "init"] \in TypedThread
  BY DEF TypedThread, ThreadState, Batching
<1>4. scan.at = "init" => [scan EXCEPT !.at = "short"] \in TypedThread
  BY DEF TypedThread, ThreadState, Batching
<1>5. scan.at = "short" => [scan EXCEPT !.at = "scanned"] \in TypedThread
  BY DEF TypedThread, ThreadState, Batching
<1>6. scan.at = "scanned" => [scan EXCEPT !.at = "unerror"] \in TypedThread
  BY DEF TypedThread, ThreadState, Batching
<1>7. scan.at = "tidy" => [scan EXCEPT !.at = "complete"] \in TypedThread
  BY DEF TypedThread, ThreadState, Batching
<1>8. scan.at \in {"complete", "error"} => [scan EXCEPT !.at = "ending"] \in TypedThread
  BY DEF TypedThread, ThreadState, Batching
<1>9. QED
  BY <1>1, <1>2, <1>3, <1>4, <1>5, <1>6, <1>7, <1>8

LEMMA ScanType ==
    ASSUME TypeInv, ScanStep
    PROVE  scan' \in TypedThread
<1>1. scan \in TypedThread /\ scan \in ThreadState
  BY DEF TypeInv, TypedThread
<1>2. CASE Validate
  BY <1>1, <1>2, NoThreadTyped, StepGoesOn DEF Validate, Goto
<1>3. CASE Walk
  <2> DEFINE found    == {at[song] : song \in Song} \ {NoFolder}
             vanished == {folder \in Folder \ found : cache[folder] # "none"}
             gone     == UNION {Below(folder) : folder \in vanished}
             todo     == {folder \in found : scan.kind = "full" \/ cache[folder] # "match"}
             tagged   == \E path \in Path : Tagged(path)
             prints   == {path \in gone : doc[path].print}
  <2>1. scan' = [scan EXCEPT !.at = "folder", !.todo = todo, !.found = found, !.seen = found,
                             !.hasTagged = tagged, !.missing = gone, !.prints = prints]
    BY <1>3 DEF Walk
  <2>2. found \in SUBSET Folder /\ gone \in SUBSET Path
    BY DEF TypeInv, Below, InDb
  <2>3. todo \in SUBSET Folder /\ todo \subseteq found /\ prints \in SUBSET Path /\ prints \subseteq gone
    BY <2>2
  <2>4. tagged \in BOOLEAN
    OBVIOUS
  <2>5. scan.folder = NoFolder
    BY <1>1, <1>3 DEF Walk, TypedThread
  <2> HIDE DEF found, gone, todo, tagged, prints
  <2>6. QED
    BY <1>1, <2>1, <2>2, <2>3, <2>4, <2>5, WalkThread
<1>4. ASSUME NEW folder \in Folder, List(folder) PROVE scan' \in TypedThread
  <2>1. PICK listed \in SUBSET Song, unread \in SUBSET Song :
          scan' = [scan EXCEPT !.at = IF {path \in Below(folder) : path[1] \in listed \ unread /\ path[2] = folder /\ ~doc[path].current} = {} THEN "moves" ELSE "upsert",
                               !.folder = folder,
                               !.missing = @ \cup (Below(folder) \ (listed \X {folder})),
                               !.prints = @ \cup {path \in Below(folder) \ (listed \X {folder}) : doc[path].print},
                               !.fresh = {song \in listed \ unread : <<song, folder>> \notin Below(folder)},
                               !.batch = {path \in Below(folder) : path[1] \in listed \ unread /\ path[2] = folder /\ ~doc[path].current},
                               !.then = "moves",
                               !.outdated = @ \ listed]
    BY ZenonT(60), <1>4 DEF List
  <2> DEFINE gone    == Below(folder) \ (listed \X {folder})
             prints  == {path \in gone : doc[path].print}
             fresh   == {song \in listed \ unread : <<song, folder>> \notin Below(folder)}
             updated == {path \in Below(folder) : path[1] \in listed \ unread /\ path[2] = folder /\ ~doc[path].current}
             step    == IF updated = {} THEN "moves" ELSE "upsert"
  <2>2. scan' = [scan EXCEPT !.at = step, !.folder = folder, !.missing = scan.missing \cup gone,
                             !.prints = scan.prints \cup prints, !.fresh = fresh, !.batch = updated,
                             !.then = "moves", !.outdated = scan.outdated \ listed]
    BY <2>1
  <2>3. /\ gone \in SUBSET Path /\ prints \in SUBSET Path /\ prints \subseteq gone
        /\ fresh \in SUBSET Song /\ updated \in SUBSET Path /\ step \in {"moves", "upsert"}
    BY DEF Below, InDb
  <2>4. folder \in scan.todo /\ scan.outdated \ listed \in SUBSET Song
    BY <1>1, <1>4, ScanAssumption DEF List, TypedThread, ThreadState
  <2> HIDE DEF gone, prints, fresh, updated, step
  <2>5. QED
    BY <1>1, <2>2, <2>3, <2>4, ListThread
<1>5. CASE Upsert \/ Initialize
  BY <1>1, <1>5, StepGoesOn DEF Upsert, Initialize, Goto
<1>6. CASE Bootstrap
  <2>1. scan.at = "short" /\ (Goto("scanned") \/ Raise)
    BY <1>6 DEF Bootstrap
  <2>2. QED
    BY <1>1, <2>1, RaiseType, StepGoesOn DEF Goto
<1>7. ASSUME NEW step \in {"scanned", "unerror"}, NEW from,
             Mark(step, from, IF step = "scanned" THEN "unerror" ELSE scan.then)
      PROVE  scan' \in TypedThread
  <2>1. CASE Raise
    BY <1>1, <1>7, <2>1, RaiseType DEF Mark
  <2>2. CASE step = "scanned" /\ scan' = [scan EXCEPT !.at = "unerror", !.batch = scan.batch]
    <3>1. scan' = [scan EXCEPT !.at = "unerror"]
      BY <1>1, <2>2 DEF ThreadState
    <3>2. QED
      BY <1>1, <1>7, <2>2, <3>1, StepGoesOn DEF Mark
  <2>3. CASE step = "unerror" /\ scan' = [scan EXCEPT !.at = scan.then, !.batch = {}]
    BY <1>1, <1>7, <2>3, StepGoesOn DEF Mark
  <2>4. QED
    BY <1>7, <2>1, <2>2, <2>3 DEF Mark
<1>8. CASE MarkScanned \/ MarkUnerrored
  BY <1>7, <1>8 DEF MarkScanned, MarkUnerrored
<1>9. CASE Move
  <2>1. PICK old \in Matches, new \in New : Match(old, new)
    BY <1>9 DEF Move
  <2>2. scan' = [scan EXCEPT !.missing = scan.missing \ {old}, !.prints = scan.prints \ {old},
                             !.fresh = IF scan.at = "moves" THEN scan.fresh \ {new[1]} ELSE scan.fresh,
                             !.unmatched = IF scan.at = "final" THEN scan.unmatched \ {new} ELSE scan.unmatched]
    BY <2>1 DEF Match
  <2> DEFINE fresh     == IF scan.at = "moves" THEN scan.fresh \ {new[1]} ELSE scan.fresh
             unmatched == IF scan.at = "final" THEN scan.unmatched \ {new} ELSE scan.unmatched
  <2>3. fresh \in SUBSET Song /\ unmatched \in SUBSET Path
    BY <1>1 DEF ThreadState
  <2> HIDE DEF fresh, unmatched
  <2>4. scan' = [scan EXCEPT !.missing = scan.missing \ {old}, !.prints = scan.prints \ {old},
                             !.fresh = fresh, !.unmatched = unmatched]
    BY <2>2 DEF fresh, unmatched
  <2>5. QED
    BY <1>1, <2>3, <2>4, MatchThread
<1>10. CASE NoMoreMoves
  <2>1. scan.at = "moves" /\ scan.folder \in Folder
    BY <1>1, <1>10 DEF NoMoreMoves, TypedThread, ThreadState
  <2>2. New \in SUBSET Path
    BY <1>1, <2>1 DEF New, ThreadState, Path
  <2>3. \/ scan' = [scan EXCEPT !.at = "save", !.unmatched = scan.unmatched \cup New]
        \/ scan' = [scan EXCEPT !.at = "upsert", !.batch = New, !.then = "save"]
    BY <1>10 DEF NoMoreMoves
  <2>4. scan.unmatched \cup New \in SUBSET Path
    BY <1>1, <2>2 DEF ThreadState
  <2> HIDE DEF New
  <2>5. CASE scan' = [scan EXCEPT !.at = "save", !.unmatched = scan.unmatched \cup New]
    BY <1>1, <2>1, <2>4, <2>5 DEF TypedThread, ThreadState, Batching
  <2>6. CASE scan' = [scan EXCEPT !.at = "upsert", !.batch = New, !.then = "save"]
    BY <1>1, <2>1, <2>2, <2>6 DEF TypedThread, ThreadState, Batching
  <2>7. QED
    BY <2>3, <2>5, <2>6
<1>11. CASE Save
  BY ZenonT(60), <1>1, <1>11 DEF Save, TypedThread, ThreadState, Batching
<1>12. CASE FoldersDone
  BY ZenonT(60), <1>1, <1>12 DEF FoldersDone, TypedThread, ThreadState, Batching
<1>13. CASE Final
  <2>1. PICK step \in {"remove", "upsert"} :
          scan' = [scan EXCEPT !.at = step, !.batch = scan.unmatched, !.unmatched = {}, !.then = "remove"]
    BY <1>13 DEF Final
  <2>2. QED
    BY ZenonT(60), <1>1, <2>1 DEF TypedThread, ThreadState, Batching
<1>14. CASE Remove
  <2>1. Thread(scan.kind, "tidy") \in TypedThread
    BY <1>1, NewThread, <1>14 DEF Remove, TypedThread, ThreadState
  <2>2. scan' = [Thread(scan.kind, "tidy") EXCEPT !.found = scan.found]
    BY <1>14 DEF Remove
  <2>3. QED
    BY ZenonT(60), <1>1, <2>1, <2>2 DEF Thread, TypedThread, ThreadState, Batching
<1>15. CASE Tidy \/ Complete \/ ScanError
  BY <1>1, <1>15, StepGoesOn DEF Tidy, Complete, ScanError, Goto
<1>16. CASE End
  BY <1>16, NoThreadTyped DEF End
<1>17. CASE QueryFails
  BY <1>1, <1>17, RaiseType DEF QueryFails
<1>18. QED
  BY <1>2, <1>3, <1>4, <1>5, <1>6, <1>8, <1>9, <1>10, <1>11, <1>12, <1>13, <1>14, <1>15, <1>16, <1>17
     DEF ScanStep

\* What changes on disk, requests and restarts do to the thread.
LEMMA WorldThread ==
    ASSUME TypeInv, World \/ Service
    PROVE  /\ scan' \in TypedThread
           /\ \/ scan' = scan
              \/ \E seen \in SUBSET Folder : scan' = [scan EXCEPT !.seen = seen]
              \/ \E outdated \in SUBSET Song : scan' = [scan EXCEPT !.outdated = outdated]
              \/ scan'.at \in {"none", "validate"}
<1>1. scan \in TypedThread /\ scan \in ThreadState
  BY DEF TypeInv, TypedThread
<1>2. ASSUME NEW song \in Song, NEW to \in Folder \cup {NoFolder}, Change(song, to)
      PROVE  \E seen \in SUBSET scan.seen : scan' = [scan EXCEPT !.seen = seen]
  BY <1>2 DEF Change
<1>3. ASSUME NEW song \in Song, Edit(song)
      PROVE  \E outdated \in SUBSET Song : scan' = [scan EXCEPT !.outdated = outdated]
  BY <1>1, <1>3 DEF Edit, ThreadState
<1>4. ASSUME NEW path \in Path, Work(path) \/ WorkFails(path) PROVE scan' = scan
  BY <1>4 DEF Work, WorkFails
<1>5. ASSUME NEW r \in Requester, Start(r)
      PROVE  scan' = scan \/ (scan' \in TypedThread /\ scan'.at = "validate")
  BY <1>5, NewThread DEF Start
<1>6. CASE Crash
  BY <1>6, NoThreadTyped DEF Crash
<1>7. ASSUME NEW r \in Requester, NEW kind \in {"quick", "full"}, SetScanning(r) \/ Ask(r, kind) \/ Sync
      PROVE  scan' = scan
  BY <1>7 DEF SetScanning, Ask, Sync
<1>8. \A seen \in SUBSET scan.seen : [scan EXCEPT !.seen = seen] \in TypedThread
  BY <1>1 DEF TypedThread, ThreadState, Batching
<1>9. \A outdated \in SUBSET Song : [scan EXCEPT !.outdated = outdated] \in TypedThread
  BY <1>1 DEF TypedThread, ThreadState, Batching
<1>10. scan.seen \in SUBSET Folder
  BY <1>1 DEF ThreadState
<1>11. CASE World
  <2>1. ASSUME NEW song \in Song, NEW to \in Folder \cup {NoFolder}, Change(song, to)
        PROVE  scan' \in TypedThread /\ \E seen \in SUBSET Folder : scan' = [scan EXCEPT !.seen = seen]
    BY <1>2, <1>8, <1>10, <2>1
  <2>2. ASSUME NEW song \in Song, Edit(song)
        PROVE  scan' \in TypedThread /\ \E outdated \in SUBSET Song : scan' = [scan EXCEPT !.outdated = outdated]
    BY <1>3, <1>9, <2>2
  <2>3. QED
    BY <1>1, <1>4, <1>11, <2>1, <2>2 DEF World
<1>12. CASE Service
  BY <1>1, <1>5, <1>6, <1>7, <1>12, NoThreadTyped DEF Service, Crash, SetScanning, Ask, Sync
<1>13. QED
  BY <1>11, <1>12

LEMMA StepType ==
    ASSUME TypeInv, DocInv, [Next]_vars
    PROVE  TypeInv'
<1> USE DEF disk, service, history
<1>1. CASE UNCHANGED vars
  BY <1>1 DEF vars, TypeInv
<1>2. CASE World
  <2>1. scan' \in TypedThread
    BY <1>2, WorldThread
  <2>2. ASSUME NEW song \in Song, NEW to \in Folder \cup {NoFolder}, Change(song, to)
        PROVE  /\ at' \in [Song -> Folder \cup {NoFolder}] /\ cache' \in [Folder -> {"none", "match", "old"}]
               /\ UNCHANGED <<status, ask>>
    BY <2>2 DEF Change, TypeInv
  <2>3. ASSUME NEW song \in Song, Edit(song) PROVE UNCHANGED <<at, cache, status, ask>>
    BY <2>3 DEF Edit
  <2>4. ASSUME NEW path \in Path, Work(path) \/ WorkFails(path) PROVE UNCHANGED <<at, cache, status, ask>>
    BY <2>4 DEF Work, WorkFails
  <2>5. QED
    BY <1>2, <2>1, <2>2, <2>3, <2>4 DEF World, TypeInv
<1>3. CASE Service
  <2>1. scan' \in TypedThread
    BY <1>3, WorldThread
  <2>2. UNCHANGED <<at, cache>>
    BY <1>3 DEF Service, SetScanning, Start, Ask, Crash, Sync
  <2>3. status' \in {"idle", "scanning", "complete", "error"}
    BY <1>3 DEF Service, SetScanning, Start, Ask, Crash, Sync, TypeInv
  <2>4. ask' \in [Requester -> {"idle", "quick", "full", "start quick", "start full"}]
    <3>1. ASSUME NEW r \in Requester, SetScanning(r) \/ Start(r)
          PROVE  ask' \in [Requester -> {"idle", "quick", "full", "start quick", "start full"}]
      BY <3>1 DEF SetScanning, Start, TypeInv
    <3>2. ASSUME NEW r \in Requester, NEW kind \in {"quick", "full"}, Ask(r, kind)
          PROVE  ask' \in [Requester -> {"idle", "quick", "full", "start quick", "start full"}]
      BY <3>2 DEF Ask, TypeInv
    <3>3. CASE Crash \/ Sync
      BY <3>3 DEF Crash, Sync, TypeInv
    <3>4. QED
      BY <1>3, <3>1, <3>2, <3>3 DEF Service
  <2>5. QED
    BY <2>1, <2>2, <2>3, <2>4 DEF TypeInv
<1>4. CASE ScanStep
  <2>1. scan' \in TypedThread
    BY <1>4, ScanType
  <2>2. UNCHANGED <<at, ask>>
    BY <1>4 DEF ScanStep, Validate, Walk, List, Upsert, Initialize, Bootstrap, MarkScanned, MarkUnerrored,
           Mark, Move, Match, NoMoreMoves, Save, FoldersDone, Final, Remove, Tidy, Complete, ScanError,
           End, QueryFails
  <2>3. status' \in {"idle", "scanning", "complete", "error"}
    BY <1>4 DEF ScanStep, Validate, Walk, List, Upsert, Initialize, Bootstrap, MarkScanned, MarkUnerrored,
           Mark, Move, Match, NoMoreMoves, Save, FoldersDone, Final, Remove, Tidy, Complete, ScanError,
           End, QueryFails, TypeInv
  <2>4. cache' \in [Folder -> {"none", "match", "old"}]
    <3>1. CASE Save
      BY <3>1 DEF Save, TypeInv
    <3>2. CASE Tidy
      BY <3>2 DEF Tidy, TypeInv
    <3>3. CASE UNCHANGED cache
      BY <3>3 DEF TypeInv
    <3>4. QED
      BY <1>4, <3>1, <3>2, <3>3 DEF ScanStep, Validate, Walk, List, Upsert, Initialize, Bootstrap,
             MarkScanned, MarkUnerrored, Mark, Move, Match, NoMoreMoves, FoldersDone, Final, Remove,
             Complete, ScanError, End, QueryFails
  <2>5. QED
    BY <2>1, <2>2, <2>3, <2>4 DEF TypeInv
<1>5. QED
  BY <1>1, <1>2, <1>3, <1>4 DEF Next
-----------------------------------------------------------------------------
(* The documents: no axis is lost. *)

\* A document of the database, and what may be done to it.
LEMMA DocKept ==
    /\ \A d \in WholeDoc \cup BareDoc : d # NoDoc /\ d \in Document
    /\ \A d \in WholeDoc \cup BareDoc, current \in BOOLEAN :
          [d EXCEPT !.current = current] \in WholeDoc \cup BareDoc
    /\ \A d \in WholeDoc, current \in BOOLEAN : [d EXCEPT !.current = current] \in WholeDoc
    /\ \A d \in WholeDoc : \A axis \in Axis : \A edges \in Transitioned(d.edges, Is(axis)) :
          [d EXCEPT !.edges = edges] \in WholeDoc /\ [d EXCEPT !.print = TRUE, !.edges = edges] \in WholeDoc
    /\ \A d \in WholeDoc \cup BareDoc : [d EXCEPT !.edges = Initialized(d.edges)] \in WholeDoc
    /\ \A d \in WholeDoc, from \in State : [d EXCEPT !.edges = BulkSet(d.edges, from)] \in WholeDoc
    /\ \A current \in BOOLEAN : [current |-> current, print |-> FALSE, edges |-> {}] \in BareDoc
<1>1. \A d \in Document : d # NoDoc /\ d.edges \in SUBSET State
  <2>1. \A d \in Document : d.edges \in SUBSET State
    BY DEF Document
  <2>2. QED
    BY <2>1, DocMoves
<1>2. \A d \in WholeDoc \cup BareDoc : d # NoDoc /\ d \in Document
  BY <1>1 DEF WholeDoc, BareDoc
<1>3. ASSUME NEW d \in WholeDoc, NEW axis \in Axis, NEW edges \in Transitioned(d.edges, Is(axis))
      PROVE  [d EXCEPT !.edges = edges] \in WholeDoc /\ [d EXCEPT !.print = TRUE, !.edges = edges] \in WholeDoc
  <2>1. d \in Document /\ d.edges \in SUBSET State /\ Whole(d.edges)
    BY <1>1 DEF WholeDoc
  <2>2. edges \in SUBSET State /\ Whole(edges)
    BY <2>1, TransitionedWhole
  <2>3. QED
    BY <2>1, <2>2 DEF WholeDoc, Document
<1>4. ASSUME NEW d \in WholeDoc \cup BareDoc PROVE [d EXCEPT !.edges = Initialized(d.edges)] \in WholeDoc
  <2>1. d \in Document /\ d.edges \in SUBSET State
    BY <1>1, <1>2
  <2>2. Initialized(d.edges) \in SUBSET State /\ Whole(Initialized(d.edges))
    BY <2>1, InitializedWhole
  <2>3. QED
    BY <2>1, <2>2 DEF WholeDoc, Document
<1>5. ASSUME NEW d \in WholeDoc, NEW from \in State PROVE [d EXCEPT !.edges = BulkSet(d.edges, from)] \in WholeDoc
  <2>1. d \in Document /\ d.edges \in SUBSET State /\ Whole(d.edges)
    BY <1>1 DEF WholeDoc
  <2>2. BulkSet(d.edges, from) \in SUBSET State /\ Whole(BulkSet(d.edges, from))
    BY <2>1, BulkSetWhole
  <2>3. QED
    BY <2>1, <2>2 DEF WholeDoc, Document
<1>6. \A d \in WholeDoc, current \in BOOLEAN : [d EXCEPT !.current = current] \in WholeDoc
  BY DEF WholeDoc, Document
<1>7. \A d \in BareDoc, current \in BOOLEAN : [d EXCEPT !.current = current] \in BareDoc
  BY DEF BareDoc, Document
<1>8. QED
  BY <1>2, <1>3, <1>4, <1>5, <1>6, <1>7, DocMoves

\* Documents stay, and no axis of theirs is lost.
DocsStay ==
    /\ doc' \in [Path -> WholeDoc \cup BareDoc \cup {NoDoc}]
    /\ \A path \in Path : doc[path] # NoDoc => doc'[path] # NoDoc
    /\ \A path \in Path : doc[path] \in WholeDoc => doc'[path] \in WholeDoc

\* A document with a state is no bare one.
LEMMA StateIsWhole ==
    ASSUME doc \in [Path -> WholeDoc \cup BareDoc \cup {NoDoc}], NEW path \in Path, doc[path] # NoDoc,
           NEW state, state \in doc[path].edges
    PROVE  doc[path] \in WholeDoc
BY DEF BareDoc

LEMMA WorldDocs ==
    ASSUME TypeInv, DocInv, World \/ Service
    PROVE  DocsStay
<1>1. doc \in [Path -> WholeDoc \cup BareDoc \cup {NoDoc}]
  BY DEF DocInv
<1>2. ASSUME UNCHANGED doc PROVE DocsStay
  BY <1>1, <1>2 DEF DocsStay
<1>3. ASSUME NEW song \in Song, Edit(song) PROVE DocsStay
  <2>1. doc' = [path \in Path |-> IF path \in Docs(song) THEN [doc[path] EXCEPT !.current = FALSE]
                                  ELSE doc[path]]
    BY <1>3 DEF Edit
  <2>2. \A path \in Docs(song) : doc[path] \in WholeDoc \cup BareDoc
    BY <1>1 DEF Docs, InDb
  <2>3. ASSUME NEW path \in Docs(song)
        PROVE  /\ [doc[path] EXCEPT !.current = FALSE] \in WholeDoc \cup BareDoc
               /\ [doc[path] EXCEPT !.current = FALSE] # NoDoc
               /\ doc[path] \in WholeDoc => [doc[path] EXCEPT !.current = FALSE] \in WholeDoc
    BY <2>2, DocKept
  <2>4. QED
    BY <1>1, <2>1, <2>3 DEF DocsStay
<1>4. ASSUME NEW path \in Path, Work(path) \/ WorkFails(path) PROVE DocsStay
  <2>1. doc[path] \in WholeDoc
    BY <1>1, <1>4, StateIsWhole DEF Work, WorkFails, Untagged, InDb
  <2>2. PICK d \in WholeDoc : doc' = [doc EXCEPT ![path] = d]
    <3>1. CASE Work(path)
      <4>1. PICK edges \in Transitioned(doc[path].edges, Is("tagged")) :
              doc' = [doc EXCEPT ![path] = [doc[path] EXCEPT !.print = TRUE, !.edges = edges]]
        BY <3>1 DEF Work
      <4>2. [doc[path] EXCEPT !.print = TRUE, !.edges = edges] \in WholeDoc
        BY <2>1, <4>1, DocKept, ThreeAxes
      <4>3. QED
        BY <4>1, <4>2
    <3>2. CASE WorkFails(path)
      <4>1. PICK edges \in Transitioned(doc[path].edges, Is("errored")) :
              doc' = [doc EXCEPT ![path] = [doc[path] EXCEPT !.edges = edges]]
        BY <3>2 DEF WorkFails
      <4>2. [doc[path] EXCEPT !.edges = edges] \in WholeDoc
        BY <2>1, <4>1, DocKept, ThreeAxes
      <4>3. QED
        BY <4>1, <4>2
    <3>3. QED
      BY <1>4, <3>1, <3>2
  <2>3. d # NoDoc
    BY DocKept
  <2>4. QED
    BY <1>1, <2>1, <2>2, <2>3 DEF DocsStay
<1>5. ASSUME NEW song \in Song, NEW to \in Folder \cup {NoFolder}, Change(song, to) PROVE UNCHANGED doc
  BY <1>5 DEF Change
<1>6. Service => UNCHANGED doc
  BY DEF Service, SetScanning, Start, Ask, Crash, Sync
<1>7. QED
  BY <1>2, <1>3, <1>4, <1>5, <1>6 DEF World

LEMMA StepDocs ==
    ASSUME TypeInv, DocInv, [Next]_vars
    PROVE  DocInv'
<1>1. /\ doc \in [Path -> WholeDoc \cup BareDoc \cup {NoDoc}]
      /\ scan \in ThreadState /\ scan.batch \in SUBSET Path
  BY DEF DocInv, TypeInv, TypedThread, ThreadState
<1>2. ASSUME doc' \in [Path -> WholeDoc \cup BareDoc \cup {NoDoc}],
             scan'.at \notin {"init", "short", "scanned", "unerror"}
      PROVE  DocInv'
  BY <1>2 DEF DocInv
<1>3. CASE World \/ Service
  <2>1. DocsStay
    BY <1>3, WorldDocs
  <2>2. \/ scan'.at \in {"none", "validate"}
        \/ scan'.at = scan.at /\ scan'.batch = scan.batch
    <3>1. \A seen \in SUBSET Folder : /\ [scan EXCEPT !.seen = seen].at = scan.at
                                      /\ [scan EXCEPT !.seen = seen].batch = scan.batch
      BY <1>1 DEF ThreadState
    <3>2. \A outdated \in SUBSET Song : /\ [scan EXCEPT !.outdated = outdated].at = scan.at
                                        /\ [scan EXCEPT !.outdated = outdated].batch = scan.batch
      BY <1>1 DEF ThreadState
    <3>3. QED
      BY <1>3, <3>1, <3>2, WorldThread
  <2>3. QED
    BY <1>1, <1>2, <2>1, <2>2 DEF DocInv, DocsStay
<1>4. CASE Upsert
  <2>1. doc' = [path \in Path |->
                  IF path \notin scan.batch THEN doc[path]
                  ELSE IF path \in InDb THEN [doc[path] EXCEPT !.current = path[1] \notin scan.outdated]
                  ELSE [current |-> path[1] \notin scan.outdated, print |-> FALSE, edges |-> {}]]
    BY <1>4 DEF Upsert
  <2>2. scan'.at = "init" /\ scan'.batch = scan.batch
    BY <1>1, <1>4 DEF Upsert, Goto, ThreadState
  <2>3. ASSUME NEW path \in Path, NEW current \in BOOLEAN, path \in InDb
        PROVE  [doc[path] EXCEPT !.current = current] \in WholeDoc \cup BareDoc
    BY <1>1, <2>3, DocKept DEF InDb
  <2>4. ASSUME NEW current \in BOOLEAN
        PROVE  [current |-> current, print |-> FALSE, edges |-> {}] \in WholeDoc \cup BareDoc
    BY DocKept
  <2>5. ASSUME NEW path \in Path
        PROVE  /\ doc'[path] \in WholeDoc \cup BareDoc \cup {NoDoc}
               /\ path \in scan.batch => doc'[path] # NoDoc
    <3> DEFINE current == path[1] \notin scan.outdated
    <3>1. current \in BOOLEAN
      OBVIOUS
    <3>2. doc'[path] = IF path \notin scan.batch THEN doc[path]
                       ELSE IF path \in InDb THEN [doc[path] EXCEPT !.current = current]
                       ELSE [current |-> current, print |-> FALSE, edges |-> {}]
      BY <2>1
    <3> HIDE DEF current
    <3>3. CASE path \notin scan.batch
      BY <1>1, <3>2, <3>3
    <3>4. CASE path \in scan.batch
      <4>1. doc'[path] \in WholeDoc \cup BareDoc
        BY <2>3, <2>4, <3>1, <3>2, <3>4
      <4>2. QED
        BY <4>1, DocKept
    <3>5. QED
      BY <3>3, <3>4
  <2>6. doc' \in [Path -> WholeDoc \cup BareDoc \cup {NoDoc}]
    BY <2>1, <2>5
  <2>7. QED
    BY <1>1, <2>2, <2>5, <2>6 DEF DocInv
<1>5. CASE Initialize
  <2>1. doc' = [path \in Path |-> IF path \in scan.batch
                                  THEN [doc[path] EXCEPT !.edges = Initialized(doc[path].edges)] ELSE doc[path]]
    BY <1>5 DEF Initialize
  <2>2. scan'.at = "short" /\ scan'.batch = scan.batch
    BY <1>1, <1>5 DEF Initialize, Goto, ThreadState
  <2>3. ASSUME NEW path \in scan.batch
        PROVE  [doc[path] EXCEPT !.edges = Initialized(doc[path].edges)] \in WholeDoc
    <3>1. doc[path] \in WholeDoc \cup BareDoc
      BY <1>1, <1>5 DEF Initialize, DocInv
    <3>2. QED
      BY <3>1, DocKept
  <2>4. QED
    BY <1>1, <2>1, <2>2, <2>3 DEF DocInv
<1>6. CASE Bootstrap
  <2> DEFINE short      == {path \in scan.batch : path[1] \in Short}
             next(path) == Transitioned(doc[path].edges, Is("tagged"))
  <2>0. PICK done \in SUBSET short : \E edges \in [done -> UNION {next(path) : path \in done}] :
              /\ \A path \in done : edges[path] \in next(path)
              /\ doc' = [path \in Path |-> IF path \in done THEN [doc[path] EXCEPT !.edges = edges[path]]
                                           ELSE doc[path]]
              /\ Goto("scanned") \/ Raise
    BY <1>6 DEF Bootstrap
  <2>1. PICK edges :
              /\ \A path \in done : edges[path] \in next(path)
              /\ doc' = [path \in Path |-> IF path \in done THEN [doc[path] EXCEPT !.edges = edges[path]]
                                           ELSE doc[path]]
              /\ Goto("scanned") \/ Raise
    BY <2>0
  <2>2. scan.at = "short" /\ \A path \in scan.batch : doc[path] \in WholeDoc
    BY <1>6 DEF Bootstrap, DocInv
  <2>3. ASSUME NEW path \in done PROVE [doc[path] EXCEPT !.edges = edges[path]] \in WholeDoc
    BY <2>1, <2>2, DocKept, ThreeAxes
  <2>4. /\ doc' \in [Path -> WholeDoc \cup BareDoc \cup {NoDoc}]
        /\ \A path \in scan.batch : doc'[path] \in WholeDoc
    BY <1>1, <2>1, <2>2, <2>3
  <2>5. \/ scan'.at = "scanned" /\ scan'.batch = scan.batch
        \/ scan'.at \in {"folder", "list", "error"}
    <3>1. CASE Goto("scanned")
      BY <1>1, <3>1 DEF Goto, ThreadState
    <3>2. CASE Raise
      BY <3>2, RaiseType DEF TypeInv
    <3>3. QED
      BY <2>1, <3>1, <3>2
  <2>6. QED
    BY <2>4, <2>5 DEF DocInv
<1>7. CASE MarkScanned \/ MarkUnerrored
  <2>1. PICK step \in {"scanned", "unerror"}, from \in State :
          Mark(step, from, IF step = "scanned" THEN "unerror" ELSE scan.then)
    BY <1>7, StatesTyped, ThreeAxes DEF MarkScanned, MarkUnerrored
  <2>2. scan.at = step /\ \A path \in scan.batch : doc[path] \in WholeDoc
    BY <2>1 DEF Mark, DocInv
  <2>3. ASSUME NEW path \in scan.batch PROVE [doc[path] EXCEPT !.edges = BulkSet(doc[path].edges, from)] \in WholeDoc
    BY <2>2, DocKept
  <2>4. /\ doc' \in [Path -> WholeDoc \cup BareDoc \cup {NoDoc}]
        /\ \A path \in scan.batch : doc'[path] \in WholeDoc
    BY <1>1, <2>1, <2>2, <2>3 DEF Mark
  <2>5. CASE Raise
    <3>1. scan'.at \in {"folder", "list", "error"}
      BY <2>5, RaiseType DEF TypeInv
    <3>2. QED
      BY <1>2, <2>4, <3>1
  <2>6. CASE step = "scanned" /\ scan' = [scan EXCEPT !.at = "unerror", !.batch = scan.batch]
    <3>1. scan'.at = "unerror" /\ scan'.batch = scan.batch
      BY <1>1, <2>6 DEF ThreadState
    <3>2. QED
      BY <2>4, <3>1 DEF DocInv
  <2>7. CASE step = "unerror" /\ scan' = [scan EXCEPT !.at = scan.then, !.batch = {}]
    <3>1. scan'.at = scan.then /\ scan.then \in {"none", "moves", "save", "remove"}
      BY <1>1, <2>7 DEF ThreadState
    <3>2. QED
      BY <1>2, <2>4, <3>1
  <2>8. QED
    BY <2>1, <2>5, <2>6, <2>7 DEF Mark
<1>8. CASE Move
  <2>1. PICK old \in Matches, new \in New : Match(old, new)
    BY <1>8 DEF Move
  <2>2. scan.at \in {"moves", "final"} /\ scan'.at = scan.at
    BY <1>1, <1>8, <2>1 DEF Move, Match, ThreadState
  <2>3. doc' = [path \in Path |->
                  IF old \notin InDb THEN doc[path]
                  ELSE IF path = new THEN [doc[old] EXCEPT !.current = new[1] \notin scan.outdated]
                  ELSE IF path = old THEN NoDoc ELSE doc[path]]
    BY <2>1 DEF Match
  <2>4. ASSUME old \in InDb, NEW current \in BOOLEAN
        PROVE  [doc[old] EXCEPT !.current = current] \in WholeDoc \cup BareDoc
    BY <1>1, <2>4, DocKept DEF InDb
  <2>5. doc' \in [Path -> WholeDoc \cup BareDoc \cup {NoDoc}]
    <3>1. CASE old \in InDb
      <4> DEFINE current == new[1] \notin scan.outdated
      <4>1. current \in BOOLEAN
        OBVIOUS
      <4>2. [doc[old] EXCEPT !.current = current] \in WholeDoc \cup BareDoc
        BY <2>4, <3>1, <4>1
      <4>3. QED
        BY <1>1, <2>3, <3>1, <4>2
    <3>2. CASE old \notin InDb
      BY <1>1, <2>3, <3>2
    <3>3. QED
      BY <3>1, <3>2
  <2>6. QED
    BY <1>2, <2>2, <2>5
<1>9. CASE Remove
  <2>1. scan'.at = "tidy"
    BY <1>9 DEF Remove, Thread
  <2>2. QED
    BY <1>1, <1>2, <1>9, <2>1 DEF Remove
<1>10. ASSUME UNCHANGED doc, scan'.at \notin {"init", "short", "scanned", "unerror"} PROVE DocInv'
  BY <1>1, <1>2, <1>10
<1>11. CASE Validate \/ Walk \/ Tidy \/ Complete \/ ScanError \/ End
  <2>1. UNCHANGED doc
    BY <1>11 DEF Validate, Walk, Tidy, Complete, ScanError, End
  <2>2. scan'.at \notin {"init", "short", "scanned", "unerror"}
    BY <1>1, <1>11, NoThreadTyped DEF Validate, Walk, Tidy, Complete, ScanError, End, Goto, ThreadState
  <2>3. QED
    BY <1>10, <2>1, <2>2
<1>12. ASSUME NEW folder \in Folder, List(folder) PROVE DocInv'
  <2>1. UNCHANGED doc
    BY <1>12 DEF List
  <2>2. scan'.at \in {"moves", "upsert"}
    BY <1>1, <1>12 DEF List, ThreadState
  <2>3. QED
    BY <1>10, <2>1, <2>2
<1>13. CASE NoMoreMoves \/ Save \/ FoldersDone \/ Final
  <2>1. UNCHANGED doc
    BY <1>13 DEF NoMoreMoves, Save, FoldersDone, Final
  <2>2. scan'.at \in {"save", "upsert", "folder", "final", "remove"}
    BY <1>1, <1>13 DEF NoMoreMoves, Save, FoldersDone, Final, ThreadState
  <2>3. QED
    BY <1>10, <2>1, <2>2
<1>14. CASE QueryFails
  <2>1. UNCHANGED doc /\ scan'.at \in {"folder", "list", "error"}
    BY <1>14, RaiseType DEF QueryFails, TypeInv
  <2>2. QED
    BY <1>10, <2>1
<1>15. CASE UNCHANGED vars
  BY <1>15 DEF vars, DocInv
<1>16. QED
  BY <1>3, <1>4, <1>5, <1>6, <1>7, <1>8, <1>9, <1>11, <1>12, <1>13, <1>14, <1>15 DEF Next, ScanStep

\* Types, for any songs, folders, requesters and bounds.
THEOREM TypeCorrect == Spec => []TypeOK
<1>1. Init => TypeInv /\ DocInv
  BY InitType
<1>2. TypeInv /\ DocInv /\ [Next]_vars => TypeInv' /\ DocInv'
  BY StepType, StepDocs
<1>3. TypeInv /\ DocInv => TypeOK
  <2>1. WholeDoc \cup BareDoc \subseteq Document
    BY DEF WholeDoc, BareDoc
  <2>2. QED
    BY <2>1 DEF TypeInv, DocInv, TypedThread, TypeOK
<1>4. QED
  BY <1>1, <1>2, <1>3, PTL DEF Spec

\* No sequence of scans, retries, edits, failures and crashes takes from a document its
\* last state on one axis: until its states are initialised it has none at all.
THEOREM AxesKept == Spec => []NoAxisLost
<1>1. Init => TypeInv /\ DocInv
  BY InitType
<1>2. TypeInv /\ DocInv /\ [Next]_vars => TypeInv' /\ DocInv'
  BY StepType, StepDocs
<1>3. DocInv => NoAxisLost
  BY DEF DocInv, NoAxisLost, InDb, WholeDoc, BareDoc, Whole
<1>4. QED
  BY <1>1, <1>2, <1>3, PTL DEF Spec
====
