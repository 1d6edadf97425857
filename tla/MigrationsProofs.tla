-------------------------- MODULE MigrationsProofs --------------------------
(***************************************************************************)
(* What holds of Migrations for any songs and any number of crashes.       *)
(*                                                                         *)
(* Invariants, each inductive together with the ones before it:            *)
(*  - OrderInv: migrations are taken in order, and recorded before their   *)
(*    version is stored;                                                   *)
(*  - LinkInv: what V021 has copied when it comes to drop the fields;      *)
(*  - GraphInv: what its phases have made of the states of the songs;      *)
(*  - OriginInv: where the states of the songs come from.                  *)
(***************************************************************************)
EXTENDS Migrations, FiniteSetTheorems, TLAPS

Axes == Range(AxisOrder)

\* The steps of V021.
Refactoring == {"link", "remove", "insert", "insert_second", "seed", "drop"}

\* The steps that belong to one of the migrations.
Applying == Refactoring \cup {"upgrade", "record", "version"}

\* What is to do is what the version does not cover, taken in order.
OrderInv ==
    /\ at = "down" => todo = {}
    /\ at # "down" => todo = Pending
    /\ at \in Applying => version < 4
    /\ at \in Refactoring => version + 1 = Refactor
    /\ at = "upgrade" => version + 1 # Refactor
    /\ at = "insert_second" => k = 2
    /\ at = "version" => records[version + 1] = "applied"
    /\ \A m \in Migration : m <= version => records[m] = "applied"

\* V021 is over, or all but recorded.
Refactored == version >= Refactor \/ (at \in {"record", "version"} /\ version + 1 = Refactor)

\* Its copies are made.
Linked == at \in Refactoring \ {"link"} \/ Refactored

\* A field that is gone was copied; the loops get as far as their position.
LinkInv ==
    /\ \A c \in known \ {"libraries"} : c \in refers \/ copies[c] = "right"
    /\ \A c \in known \ {"libraries"} : Linked => copies[c] = "right"
    /\ at = "link" => \A i \in 1..k-1 : LinkOrder[i] \in known \cap refers =>
                                           copies[LinkOrder[i]] = "right"
    /\ at = "drop" => \A i \in 1..k-1 : DropOrder[i] \notin refers
    /\ Refactored => refers = {}
    /\ crashes = 0 =>
          /\ (~Refactored /\ at # "drop") => "libraries" \in refers
          /\ Linked => copies["libraries"] = "right"
          /\ (at = "link" /\ k > 3) => copies["libraries"] = "right"

\* A state on an axis.
HasPole(s, axis) == Files!Is(axis) \in edges[s] \/ Files!IsNot(axis) \in edges[s]

\* A song never has both states of an axis; while it has an old state it has not
\* been seeded on the axes that replace it; what V021 is done with is in order.
GraphInv ==
    /\ \A s \in Song, axis \in Axes : ~(Files!Is(axis) \in edges[s] /\ Files!IsNot(axis) \in edges[s])
    /\ \A s \in Song, i \in 1..2, j \in 1..2 :
          j <= Len(Repoints[i].to) =>
             /\ Repoints[i].from \in edges[s] => Files!Opposite(Repoints[i].to[j]) \notin edges[s]
             /\ (at \in {"insert", "insert_second"} /\ i = k /\ s \in taken) =>
                    Files!Opposite(Repoints[i].to[j]) \notin edges[s]
    /\ at \notin {"insert", "insert_second"} => taken = {}
    /\ \A s \in Song :
          /\ at \in {"insert", "insert_second"} => MlTagged \notin edges[s]
          /\ (at = "remove" /\ k = 2) => MlTagged \notin edges[s]
          /\ (at \in {"insert", "insert_second"} /\ k = 2) => Reconciled \notin edges[s]
          /\ (at \in {"seed", "drop"} \/ Refactored) => edges[s] \cap Legacy = {}
          /\ at = "seed" => \A i \in 1..k-1 : HasPole(s, AxisOrder[i])
          /\ (at = "drop" \/ Refactored) => \A axis \in Axes : HasPole(s, axis)

\* An old state was there from the beginning, and so it was where a new one comes
\* from that is about to be inserted.
OriginInv ==
    /\ NoFalseProgress
    /\ \A s \in Song : edges[s] \cap Legacy \subseteq before[s]
    /\ at \in {"insert", "insert_second"} =>
          \A s \in taken : Repoints[k].from \in before[s]
-----------------------------------------------------------------------------
(* The constant tuples. *)

LEMMA Lengths ==
    /\ Len(LinkOrder) = 7 /\ DOMAIN LinkOrder = 1..7
    /\ Len(DropOrder) = 7 /\ DOMAIN DropOrder = 1..7
    /\ Len(AxisOrder) = 8 /\ DOMAIN AxisOrder = 1..8
    /\ Len(Repoints) = 2 /\ DOMAIN Repoints = 1..2
BY DEF LinkOrder, DropOrder, AxisOrder, Repoints

\* Every collection has its place in both orders, that of the libraries is the
\* third and the last.
LEMMA Places ==
    /\ \A i \in 1..7 : LinkOrder[i] \in Collection /\ DropOrder[i] \in Collection
    /\ \A c \in Collection : \E i \in 1..7 : LinkOrder[i] = c
    /\ \A c \in Collection : \E i \in 1..7 : DropOrder[i] = c
    /\ \A i \in 1..7 : LinkOrder[i] = "libraries" <=> i = 3
    /\ \A i \in 1..7 : DropOrder[i] = "libraries" <=> i = 7
    /\ "libraries" \in Collection
<1>1. Collection = {LinkOrder[i] : i \in 1..7}
  BY Lengths DEF Collection, Range
<1>2. Collection = {"library_files", "library_folders", "libraries", "ml_model_outputs",
                    "calibration_state", "segment_scores_stats", "vectors_track"}
  BY <1>1 DEF LinkOrder
<1>3. QED
  BY <1>2 DEF LinkOrder, DropOrder

LEMMA AxisPlaces ==
    /\ \A i \in 1..8 : AxisOrder[i] \in Axes
    /\ \A axis \in Axes : \E i \in 1..8 : AxisOrder[i] = axis
    /\ {"tagged", "tags_written", "tags_current", "calibrated"} \subseteq Axes
    /\ "ml_tagged" \notin Axes /\ "reconciled" \notin Axes
<1>1. Axes = {AxisOrder[i] : i \in 1..8}
  BY Lengths DEF Axes, Range
<1>2. Axes = {"tagged", "too_short", "calibrated", "tags_written",
              "tags_current", "scanned", "vectors_extracted", "errored"}
  BY <1>1 DEF AxisOrder
<1>3. QED
  BY <1>2 DEF AxisOrder

\* The states of an axis are none of the old ones.
LEMMA StatesAreNew ==
    /\ Files!State = Axes \X BOOLEAN
    /\ \A axis \in Axes : /\ Files!Is(axis) \in Files!State
                          /\ Files!IsNot(axis) \in Files!State
                          /\ Files!Is(axis) # Files!IsNot(axis)
    /\ Files!State \cap Legacy = {}
    /\ MlTagged # Reconciled
<1>1. Files!State = Axes \X BOOLEAN
  BY DEF Files!State, Axes
<1>2. \A axis \in Axes : /\ Files!Is(axis) \in Files!State
                          /\ Files!IsNot(axis) \in Files!State
                          /\ Files!Is(axis) # Files!IsNot(axis)
  BY <1>1 DEF Files!Is, Files!IsNot
<1>3. MlTagged \notin Axes \X BOOLEAN /\ Reconciled \notin Axes \X BOOLEAN
  BY AxisPlaces DEF MlTagged, Reconciled
<1>4. MlTagged # Reconciled
  BY DEF MlTagged, Reconciled
<1>5. QED
  BY <1>1, <1>2, <1>3, <1>4 DEF Legacy

LEMMA RepointShape ==
    /\ Repoints[1].from = MlTagged /\ Repoints[2].from = Reconciled
    /\ Len(Repoints[1].to) = 1 /\ Len(Repoints[2].to) = 2
    /\ Repoints[1].to[1] = Files!Is("tagged")
    /\ Repoints[2].to[1] = Files!Is("tags_written")
    /\ Repoints[2].to[2] = Files!Is("tags_current")
    /\ Files!Opposite(Files!Is("tagged")) = Files!IsNot("tagged")
    /\ Files!Opposite(Files!Is("tags_written")) = Files!IsNot("tags_written")
    /\ Files!Opposite(Files!Is("tags_current")) = Files!IsNot("tags_current")
BY DEF Repoints, Files!Is, Files!IsNot, Files!Opposite

\* Where states are on the axes or old, a pole is one of the two states of its axis.
LEMMA PolesAre ==
    ASSUME NEW E \in SUBSET (Files!State \cup Legacy), NEW axis \in Axes
    PROVE  Files!Poles(E, axis) = E \cap {Files!Is(axis), Files!IsNot(axis)}
<1>1. \A state \in Files!State : state[1] = axis <=> state \in {Files!Is(axis), Files!IsNot(axis)}
  <2>1. TAKE state \in Files!State
  <2>2. PICK a \in Axes, b \in BOOLEAN : state = <<a, b>>
    BY StatesAreNew
  <2>3. CASE b = TRUE
    BY <2>2, <2>3 DEF Files!Is, Files!IsNot
  <2>4. CASE b = FALSE
    BY <2>2, <2>4 DEF Files!Is, Files!IsNot
  <2>5. QED
    BY <2>2, <2>3, <2>4
<1>2. \A state \in Legacy : state[1] # axis
  <2>1. MlTagged[1] = "ml_tagged" /\ Reconciled[1] = "reconciled"
    BY DEF MlTagged, Reconciled
  <2>2. QED
    BY <2>1, AxisPlaces DEF Legacy
<1>3. QED
  BY <1>1, <1>2, StatesAreNew DEF Files!Poles

\* The migration that is due is the least one; in order, it is the next version.
LEMMA NextInOrder ==
    ASSUME version \in 0..4, todo = Pending, todo # {}
    PROVE  /\ Current = version + 1 /\ Current \in Migration
           /\ todo \ {Current} = {m \in Migration : m > version + 1}
<1>1. todo = {m \in Migration : m > version}
  BY DEF Pending
<1>2. version + 1 \in todo /\ \A n \in todo : version + 1 <= n
  BY <1>1 DEF Migration
<1>3. \A m \in todo : (\A n \in todo : m <= n) => m = version + 1
  BY <1>1, <1>2 DEF Migration
<1>4. Current = version + 1
  BY <1>2, <1>3 DEF Current
<1>5. QED
  BY <1>1, <1>2, <1>4 DEF Migration
-----------------------------------------------------------------------------
(* Types. *)

\* How many rounds each loop has.
Lasts ==
    /\ at = "link" => LoopLength = 7
    /\ at \in {"remove", "insert", "insert_second"} => LoopLength = 2
    /\ at = "seed" => LoopLength = 8
    /\ at = "drop" => LoopLength = 7
    /\ at \in {"down", "next", "upgrade", "record", "version", "serving"} => LoopLength = 1

LEMMA LoopLengths == Lasts /\ Lasts'
BY Lengths DEF Lasts, LoopLength

\* A round of a loop of V021 that lasts n rounds.
LEMMA Rounds ==
    ASSUME NEW n \in Nat \ {0}, NEW next, NextRound(n, next), k \in 1..n
    PROVE  \/ k < n /\ k' = k + 1 /\ at' = at
           \/ k = n /\ k' = 1 /\ at' = next
BY DEF NextRound

LEMMA InitType == Init => TypeOK
<1>1. SUFFICES ASSUME Init PROVE TypeOK
  OBVIOUS
<1>2. Legacy \cup {Files!Is("calibrated")} \subseteq Files!State \cup Legacy
  BY AxisPlaces, StatesAreNew
<1>3. version \in 0..4 /\ crashes \in 0..MaxCrashes
  BY <1>1, MaxCrashesAssumption DEF Init, Migration
<1>4. records \in [Migration -> {"absent", "in_progress", "applied"}]
  BY <1>1 DEF Init
<1>5. refers \subseteq Collection /\ copies \in [Collection -> {"none", "right", "blank"}]
  BY <1>1 DEF Init
<1>6. edges \in [Song -> SUBSET (Files!State \cup Legacy)]
  BY <1>1, <1>2 DEF Init
<1>7. k \in 1..LoopLength
  BY <1>1, LoopLengths DEF Init, Lasts
<1>8. QED
  BY <1>1, <1>3, <1>4, <1>5, <1>6, <1>7 DEF Init, TypeOK

LEMMA StepType ==
    ASSUME TypeOK, OrderInv, [Next]_vars
    PROVE  TypeOK'
<1> USE DEF TypeOK, Lasts
<1>1. CASE Start
  <2>1. todo' \subseteq Migration
    BY <1>1 DEF Start, Pending
  <2>2. at' = "next" /\ k' = 1
    BY <1>1, LoopLengths DEF Start
  <2>3. QED
    BY <1>1, <2>1, <2>2, LoopLengths DEF Start, db, history
<1>2. CASE RecordStarted
  <2>1. at' \in {"link", "upgrade"} /\ k' = 1
    BY <1>2, LoopLengths DEF RecordStarted
  <2>2. records' \in [Migration -> {"absent", "in_progress", "applied"}]
    BY <1>2 DEF RecordStarted
  <2>3. k' \in 1..LoopLength'
    BY <2>1, LoopLengths
  <2>4. QED
    BY <1>2, <2>1, <2>2, <2>3 DEF RecordStarted, history
<1>3. CASE Upgrade
  <2>1. k' \in 1..LoopLength'
    BY <1>3, LoopLengths DEF Upgrade
  <2>2. QED
    BY <1>3, <2>1 DEF Upgrade, db, history
<1>4. CASE Link
  <2>1. k \in 1..7
    BY <1>4, LoopLengths DEF Link
  <2>2. k' \in 1..LoopLength' /\ at' \in {"link", "remove"}
    BY <1>4, <2>1, Lengths, LoopLengths, Rounds DEF Link
  <2>3. copies' \in [Collection -> {"none", "right", "blank"}]
    BY <1>4, <2>1, Places DEF Link
  <2>4. QED
    BY <1>4, <2>2, <2>3 DEF Link, history
<1>5. CASE Remove
  <2>1. k' \in 1..LoopLength' /\ at' = "insert"
    BY <1>5, LoopLengths DEF Remove
  <2>2. edges' \in [Song -> SUBSET (Files!State \cup Legacy)] /\ taken' \subseteq Song
    BY <1>5 DEF Remove
  <2>3. QED
    BY <1>5, <2>1, <2>2 DEF Remove, history
<1>6. CASE Insert
  <2>1. k \in 1..2
    BY <1>6, LoopLengths DEF Insert
  <2>2. at' \in {"remove", "seed", "insert_second"} /\ k' \in 1..2 /\ (at' = "seed" => k' = 1)
    <3>1. Len(Repoints) = 2
      BY Lengths
    <3>2. CASE at = "insert" /\ Len(Repoints[k].to) = 1
      BY <1>6, <2>1, <3>1, <3>2 DEF Insert
    <3>3. CASE at = "insert" /\ Len(Repoints[k].to) # 1
      BY <1>6, <2>1, <3>1, <3>3 DEF Insert
    <3>4. CASE at = "insert_second"
      BY <1>6, <2>1, <3>1, <3>4 DEF Insert
    <3>5. QED
      BY <1>6, <3>2, <3>3, <3>4 DEF Insert
  <2>3. taken' \subseteq Song
    BY <1>6 DEF Insert
  <2>4. k' \in 1..LoopLength'
    BY <2>2, LoopLengths
  <2>5. edges' \in [Song -> SUBSET (Files!State \cup Legacy)]
    <3>1. Repoints[k].to[IF at = "insert" THEN 1 ELSE 2] \in Files!State
      BY SMTT(30), <1>6, <2>1, RepointShape, AxisPlaces, StatesAreNew DEF Insert, OrderInv
    <3>2. QED
      BY <1>6, <3>1 DEF Insert
  <2>6. QED
    BY <1>6, <2>2, <2>3, <2>4, <2>5 DEF Insert, history
<1>7. CASE Seed
  <2>1. k \in 1..8
    BY <1>7, LoopLengths DEF Seed
  <2>2. k' \in 1..LoopLength' /\ at' \in {"seed", "drop"}
    BY <1>7, <2>1, Lengths, LoopLengths, Rounds DEF Seed
  <2>3. edges' \in [Song -> SUBSET (Files!State \cup Legacy)]
    BY <1>7, <2>1, AxisPlaces, StatesAreNew DEF Seed
  <2>4. QED
    BY <1>7, <2>2, <2>3 DEF Seed, history
<1>8. CASE Drop
  <2>1. k \in 1..7
    BY <1>8, LoopLengths DEF Drop
  <2>2. k' \in 1..LoopLength' /\ at' \in {"drop", "record"}
    BY <1>8, <2>1, Lengths, LoopLengths, Rounds DEF Drop
  <2>3. QED
    BY <1>8, <2>2 DEF Drop, history
<1>9. CASE RecordApplied
  <2>1. k' \in 1..LoopLength'
    BY <1>9, LoopLengths DEF RecordApplied
  <2>2. records' \in [Migration -> {"absent", "in_progress", "applied"}]
    BY <1>9 DEF RecordApplied
  <2>3. QED
    BY <1>9, <2>1, <2>2 DEF RecordApplied, history
<1>10. CASE SetVersion
  <2>1. k' \in 1..LoopLength'
    BY <1>10, LoopLengths DEF SetVersion
  <2>2. version' \in 0..4
    <3>1. version < 4 /\ todo = Pending
      BY <1>10 DEF SetVersion, OrderInv, Applying
    <3>2. version + 1 \in todo
      BY <3>1 DEF Pending, Migration
    <3>3. QED
      BY <1>10, <3>1, <3>2, NextInOrder DEF SetVersion, Migration
  <2>3. QED
    BY <1>10, <2>1, <2>2 DEF SetVersion, history
<1>11. CASE Serve
  <2>1. k' \in 1..LoopLength'
    BY <1>11, LoopLengths DEF Serve
  <2>2. QED
    BY <1>11, <2>1 DEF Serve, db, history
<1>12. CASE Crash
  <2>1. crashes' \in 0..MaxCrashes
    BY <1>12, MaxCrashesAssumption DEF Crash
  <2>2. k' \in 1..LoopLength'
    BY <1>12, LoopLengths DEF Crash
  <2>3. QED
    BY <1>12, <2>1, <2>2 DEF Crash, db
<1>13. CASE UNCHANGED vars
  BY <1>13 DEF vars, db, LoopLength
<1>14. QED
  BY <1>1, <1>2, <1>3, <1>4, <1>5, <1>6, <1>7, <1>8, <1>9, <1>10, <1>11, <1>12, <1>13
     DEF Next, Phases
-----------------------------------------------------------------------------
(* The order of the migrations. *)

LEMMA InitOrder == Init => OrderInv
BY DEF Init, OrderInv, Pending, Migration, Applying, Refactoring

\* The phases of V021 leave alone what the order is about, and end in its record.
LEMMA PhasesInOrder ==
    ASSUME TypeOK, OrderInv, Phases
    PROVE  /\ at \in Refactoring /\ at' \in Refactoring \cup {"record"}
           /\ at' = "insert_second" => k' = 2
           /\ UNCHANGED <<version, records, todo, known, before, crashes>>
<1> USE DEF history, Refactoring
<1>1. CASE Link
  BY <1>1 DEF Link, NextRound
<1>2. CASE Remove
  BY <1>2 DEF Remove
<1>3. CASE Insert
  <2>1. k \in 1..2 /\ (at = "insert_second" => k = 2)
    BY <1>3, LoopLengths DEF Insert, TypeOK, OrderInv, Lasts
  <2>2. CASE at = "insert" /\ k = 1
    BY <1>3, <2>2, RepointShape, Lengths DEF Insert
  <2>3. CASE at = "insert" /\ k = 2
    BY <1>3, <2>3, RepointShape, Lengths DEF Insert
  <2>4. CASE at = "insert_second"
    BY <1>3, <2>1, <2>4, RepointShape, Lengths DEF Insert
  <2>5. QED
    BY <1>3, <2>1, <2>2, <2>3, <2>4 DEF Insert
<1>4. CASE Seed
  BY <1>4 DEF Seed, NextRound
<1>5. CASE Drop
  BY <1>5 DEF Drop, NextRound
<1>6. QED
  BY <1>1, <1>2, <1>3, <1>4, <1>5 DEF Phases

LEMMA StepOrder ==
    ASSUME TypeOK, OrderInv, [Next]_vars
    PROVE  OrderInv'
<1> USE DEF OrderInv, Applying, Refactoring, Pending
<1>1. CASE Start
  BY <1>1 DEF Start, db
<1>2. CASE RecordStarted
  <2>1. Current = version + 1 /\ Current \in Migration
    BY <1>2, NextInOrder DEF RecordStarted, TypeOK
  <2>2. version + 1 <= 4 /\ (at' = "link" <=> version + 1 = Refactor)
    BY <1>2, <2>1 DEF RecordStarted, Migration
  <2>3. \A m \in Migration : m <= version => records'[m] = "applied"
    BY <1>2, <2>1 DEF RecordStarted, TypeOK, Migration
  <2>4. QED
    BY <1>2, <2>2, <2>3 DEF RecordStarted, TypeOK
<1>3. CASE Upgrade
  BY <1>3 DEF Upgrade, db
<1>4. CASE Phases
  BY <1>4, PhasesInOrder
<1>5. CASE RecordApplied
  <2>1. version + 1 \in todo /\ Current = version + 1
    BY <1>5, NextInOrder DEF RecordApplied, TypeOK, Migration
  <2>2. records' = [records EXCEPT ![version + 1] = "applied"] /\ version + 1 \in Migration
    BY <1>5, <2>1 DEF RecordApplied, TypeOK
  <2>3. \A m \in Migration : m <= version + 1 => records'[m] = "applied"
    BY <2>2 DEF TypeOK, Migration
  <2>4. QED
    BY <1>5, <2>2, <2>3 DEF RecordApplied, TypeOK, Migration
<1>6. CASE SetVersion
  <2>1. version + 1 \in todo /\ version \in 0..4
    BY <1>6 DEF SetVersion, TypeOK, Migration
  <2>2. version' = version + 1 /\ todo' = {m \in Migration : m > version + 1}
    BY <1>6, <2>1, NextInOrder DEF SetVersion
  <2>3. \A m \in Migration : m <= version + 1 => records[m] = "applied"
    BY <1>6, <2>1 DEF SetVersion, Migration
  <2>4. QED
    BY <1>6, <2>2, <2>3 DEF SetVersion
<1>7. CASE Serve
  BY <1>7 DEF Serve, db
<1>8. CASE Crash
  BY <1>8 DEF Crash, db
<1>9. CASE UNCHANGED vars
  BY <1>9 DEF vars, db
<1>10. QED
  BY <1>1, <1>2, <1>3, <1>4, <1>5, <1>6, <1>7, <1>8, <1>9 DEF Next

\* Types, whatever the number of songs and of crashes; and no loop of V021 runs
\* past its last round.
THEOREM TypeCorrect == Spec => []TypeOK
<1>1. Init => TypeOK /\ OrderInv
  BY InitType, InitOrder
<1>2. TypeOK /\ OrderInv /\ [Next]_vars => TypeOK' /\ OrderInv'
  BY StepType, StepOrder
<1>3. QED
  BY <1>1, <1>2, PTL DEF Spec
-----------------------------------------------------------------------------
(* The references. *)

LEMMA InitLink == Init => LinkInv
<1>1. SUFFICES ASSUME Init PROVE LinkInv
  OBVIOUS
<1>2. ~Refactored /\ ~Linked
  BY <1>1 DEF Init, Refactored, Linked, Refactor, Refactoring, Migration
<1>3. known \subseteq refers /\ "libraries" \in refers
  BY <1>1, Places DEF Init
<1>4. QED
  BY <1>1, <1>2, <1>3 DEF Init, LinkInv

\* A step outside the phases, but for a crash, moves V021 neither on nor back.
LEMMA OutsideThePhases ==
    ASSUME TypeOK, OrderInv, 
           Start \/ RecordStarted \/ Upgrade \/ RecordApplied \/ SetVersion \/ Serve
    PROVE  /\ Refactored' = Refactored /\ Linked' = Linked
           /\ at \notin Refactoring /\ (at' \in Refactoring => at' = "link")
           /\ at' = "link" => k' = 1
           /\ UNCHANGED <<refers, copies, edges, taken, known, before, crashes, k>>
<1> USE DEF Refactored, Linked, Refactoring, Refactor, history, db
<1>1. CASE Start
  BY <1>1 DEF Start
<1>2. CASE RecordStarted
  <2>1. Current = version + 1
    BY <1>2, NextInOrder DEF RecordStarted, TypeOK, OrderInv
  <2>2. k = 1
    BY <1>2, LoopLengths DEF RecordStarted, TypeOK, Lasts
  <2>3. QED
    BY <1>2, <2>1, <2>2 DEF RecordStarted
<1>3. CASE Upgrade
  <2>1. k = 1
    BY <1>3, LoopLengths DEF Upgrade, TypeOK, Lasts
  <2>2. QED
    BY <1>3, <2>1 DEF Upgrade, TypeOK, OrderInv
<1>4. CASE RecordApplied
  BY <1>4 DEF RecordApplied
<1>5. CASE SetVersion
  <2>1. version + 1 \in todo /\ version \in 0..3
    BY <1>5 DEF SetVersion, TypeOK, OrderInv, Applying, Pending, Migration
  <2>2. version' = version + 1
    BY <1>5, <2>1, NextInOrder DEF SetVersion, OrderInv
  <2>3. QED
    BY <1>5, <2>1, <2>2 DEF SetVersion
<1>6. CASE Serve
  BY <1>6 DEF Serve
<1>7. QED
  BY <1>1, <1>2, <1>3, <1>4, <1>5, <1>6

LEMMA LinkKeeps ==
    ASSUME TypeOK, OrderInv, LinkInv, Link
    PROVE  LinkInv'
<1> DEFINE c == LinkOrder[k]
<1>1. at = "link" /\ k \in 1..7 /\ version + 1 = Refactor /\ version \in 0..4
  BY LoopLengths DEF Link, TypeOK, OrderInv, Refactoring, Lasts
<1>2. /\ \/ k < 7 /\ k' = k + 1 /\ at' = "link"
         \/ k = 7 /\ k' = 1 /\ at' = "remove"
      /\ UNCHANGED <<version, refers, known, crashes>>
  <2>1. NextRound(7, "remove")
    BY Lengths DEF Link, NextRound
  <2>2. QED
    BY <1>1, <2>1, Rounds DEF Link, history
<1>3. ~Refactored /\ ~Refactored' /\ ~Linked /\ (Linked' => k = 7)
  BY <1>1, <1>2 DEF Refactored, Linked, Refactoring, Refactor
<1>4. c \in Collection /\ (c = "libraries" <=> k = 3)
  BY <1>1, Places
<1>5. /\ \A x \in Collection \ {c} : copies'[x] = copies[x]
      /\ copies'[c] = IF c = "libraries" THEN IF c \in refers THEN "right" ELSE "blank"
                      ELSE IF c \in refers \cap known THEN "right" ELSE copies[c]
  BY <1>4 DEF Link, TypeOK
<1>6. \A x \in Collection \ {"libraries"} : copies[x] = "right" => copies'[x] = "right"
  BY <1>5
<1>7. c \in known \cap refers => copies'[c] = "right"
  BY <1>5
<1>8. \A i \in 1..k : LinkOrder[i] \in known \cap refers => copies'[LinkOrder[i]] = "right"
  <2>1. TAKE i \in 1..k
  <2>2. HAVE LinkOrder[i] \in known \cap refers
  <2>3. CASE i = k
    BY <2>2, <2>3, <1>7
  <2>4. CASE i \in 1..k-1
    <3>1. copies[LinkOrder[i]] = "right"
      BY <2>2, <2>4, <1>1 DEF LinkInv
    <3>2. LinkOrder[i] \in Collection
      BY <1>1, Places
    <3>3. QED
      BY <3>1, <3>2, <2>2, <1>5, <1>6
  <2>5. QED
    BY <1>1, <2>3, <2>4
<1>9. \A x \in known \ {"libraries"} : x \in refers \/ copies'[x] = "right"
  BY <1>6 DEF LinkInv, TypeOK
<1>10. k = 7 => \A x \in known \ {"libraries"} : copies'[x] = "right"
  BY <1>8, <1>9, Places DEF TypeOK
<1>11. crashes = 0 =>
          /\ "libraries" \in refers
          /\ k >= 3 => copies'["libraries"] = "right"
  <2>1. HAVE crashes = 0
  <2>2. "libraries" \in refers
    BY <1>1, <1>3, <2>1 DEF LinkInv
  <2>3. CASE k = 3
    BY <2>2, <2>3, <1>4, <1>5
  <2>4. CASE k > 3
    <3>1. copies["libraries"] = "right"
      BY <2>1, <2>4, <1>1 DEF LinkInv
    <3>2. "libraries" \in Collection \ {c}
      BY <2>4, <1>4, Places
    <3>3. QED
      BY <2>2, <2>4, <3>1, <3>2, <1>5
  <2>5. QED
    BY <1>1, <2>2, <2>3, <2>4
<1>12. QED
  <2>1. \A x \in known' \ {"libraries"} : x \in refers' \/ copies'[x] = "right"
    BY <1>2, <1>9
  <2>2. \A x \in known' \ {"libraries"} : Linked' => copies'[x] = "right"
    BY <1>2, <1>3, <1>10
  <2>3. at' = "link" => \A i \in 1..k'-1 : LinkOrder[i] \in known' \cap refers' =>
                                           copies'[LinkOrder[i]] = "right"
    BY <1>1, <1>2, <1>8
  <2>4. crashes' = 0 =>
          /\ (~Refactored' /\ at' # "drop") => "libraries" \in refers'
          /\ Linked' => copies'["libraries"] = "right"
          /\ (at' = "link" /\ k' > 3) => copies'["libraries"] = "right"
    BY <1>1, <1>2, <1>3, <1>11
  <2>5. QED
    BY <1>2, <1>3, <2>1, <2>2, <2>3, <2>4 DEF LinkInv

LEMMA DropKeeps ==
    ASSUME TypeOK, OrderInv, LinkInv, Drop
    PROVE  LinkInv'
<1>1. at = "drop" /\ k \in 1..7 /\ version + 1 = Refactor /\ version \in 0..4
  BY LoopLengths DEF Drop, TypeOK, OrderInv, Refactoring, Lasts
<1>2. /\ \/ k < 7 /\ k' = k + 1 /\ at' = "drop"
         \/ k = 7 /\ k' = 1 /\ at' = "record"
      /\ refers' = refers \ {DropOrder[k]}
      /\ UNCHANGED <<version, copies, known, crashes>>
  <2>1. NextRound(7, "record")
    BY Lengths DEF Drop, NextRound
  <2>2. QED
    BY <1>1, <2>1, Rounds DEF Drop, history
<1>3. Linked /\ Linked' /\ (Refactored' <=> k = 7)
  BY <1>1, <1>2 DEF Refactored, Linked, Refactoring, Refactor
<1>4. \A i \in 1..k : DropOrder[i] \notin refers'
  BY <1>1, <1>2 DEF LinkInv
<1>5. k = 7 => refers' = {}
  BY <1>2, <1>4, Places DEF TypeOK
<1>6. \A x \in known' \ {"libraries"} : copies'[x] = "right"
  BY <1>2, <1>3 DEF LinkInv
<1>7. crashes' = 0 => copies'["libraries"] = "right"
  BY <1>2, <1>3 DEF LinkInv
<1>8. at' = "drop" => \A i \in 1..k'-1 : DropOrder[i] \notin refers'
  BY <1>1, <1>2, <1>4
<1>9. QED
  BY <1>1, <1>2, <1>3, <1>5, <1>6, <1>7, <1>8 DEF LinkInv

LEMMA StepLink ==
    ASSUME TypeOK, OrderInv, LinkInv, [Next]_vars
    PROVE  LinkInv'
<1>1. CASE Start \/ RecordStarted \/ Upgrade \/ RecordApplied \/ SetVersion \/ Serve
  BY <1>1, OutsideThePhases DEF LinkInv, Refactoring
<1>2. CASE Link
  BY <1>2, LinkKeeps
<1>3. CASE Remove \/ Insert \/ Seed
  <2>1. /\ at \in {"remove", "insert", "insert_second", "seed"}
        /\ at' \in {"remove", "insert", "insert_second", "seed", "drop"}
        /\ at' = "drop" => k' = 1
        /\ UNCHANGED <<refers, copies>>
    BY <1>3, Rounds, Lengths DEF Remove, Insert, Seed, NextRound
  <2>2. UNCHANGED <<version, known, crashes>> /\ version + 1 = Refactor /\ version \in 0..4
    BY <1>3, <2>1, PhasesInOrder DEF Phases, OrderInv, Refactoring, TypeOK
  <2>3. Linked /\ Linked' /\ ~Refactored /\ ~Refactored'
    BY <2>1, <2>2 DEF Linked, Refactored, Refactoring, Refactor
  <2>4. QED
    BY <2>1, <2>2, <2>3 DEF LinkInv
<1>4. CASE Drop
  BY <1>4, DropKeeps
<1>5. CASE Crash
  <2>1. at' = "down" /\ crashes' # 0 /\ UNCHANGED <<version, refers, copies, known>>
    BY <1>5, MaxCrashesAssumption DEF Crash, db, TypeOK
  <2>2. (Refactored' => Refactored) /\ (Linked' => Linked)
    BY <2>1 DEF Refactored, Linked, Refactoring
  <2>3. QED
    BY <2>1, <2>2 DEF LinkInv
<1>6. CASE UNCHANGED vars
  BY <1>6 DEF vars, db, LinkInv, Refactored, Linked
<1>7. QED
  BY <1>1, <1>2, <1>3, <1>4, <1>5, <1>6 DEF Next, Phases

\* Wherever the phases of V021 are cut off, and however often, the document a
\* field named is known from the field or from the edge; that of the last scan
\* only while no start was cut off.
THEOREM ReferencesSurvive == Spec => []ReferencesKept
<1>1. Init => TypeOK /\ OrderInv /\ LinkInv
  BY InitType, InitOrder, InitLink
<1>2. TypeOK /\ OrderInv /\ LinkInv /\ [Next]_vars => TypeOK' /\ OrderInv' /\ LinkInv'
  BY StepType, StepOrder, StepLink
<1>3. TypeOK /\ LinkInv => ReferencesKept
  <2>1. SUFFICES ASSUME TypeOK, LinkInv, "libraries" \in known, crashes = 0
                 PROVE  "libraries" \in refers \/ copies["libraries"] = "right"
    BY DEF LinkInv, ReferencesKept
  <2>2. Linked \/ "libraries" \in refers
    BY <2>1 DEF LinkInv, Linked, Refactoring
  <2>3. QED
    BY <2>1, <2>2 DEF LinkInv
<1>4. QED
  BY <1>1, <1>2, <1>3, PTL DEF Spec
-----------------------------------------------------------------------------
(* The states of the songs. *)

\* The replacing states of a round, one by one.
LEMMA Replacing ==
    \A i \in 1..2, j \in 1..2 : j <= Len(Repoints[i].to) =>
       \E axis \in {"tagged", "tags_written", "tags_current"} :
          /\ Repoints[i].to[j] = Files!Is(axis)
          /\ Files!Opposite(Repoints[i].to[j]) = Files!IsNot(axis)
BY RepointShape

LEMMA InitGraph == Init => GraphInv
<1>1. SUFFICES ASSUME Init PROVE GraphInv
  OBVIOUS
<1>2. ~Refactored /\ at = "down" /\ taken = {}
  BY <1>1 DEF Init, Refactored, Refactor, Migration
<1>3. \A s \in Song : edges[s] \subseteq Legacy \cup {Files!Is("calibrated")}
  BY <1>1 DEF Init
<1>4. \A s \in Song, axis \in Axes : Files!IsNot(axis) \notin edges[s]
  <2>1. \A axis \in Axes : Files!IsNot(axis) # Files!Is("calibrated")
    BY DEF Files!IsNot, Files!Is
  <2>2. QED
    BY <1>3, <2>1, StatesAreNew
<1>5. \A s \in Song, i \in 1..2, j \in 1..2 :
         j <= Len(Repoints[i].to) => Files!Opposite(Repoints[i].to[j]) \notin edges[s]
  BY <1>4, Replacing, AxisPlaces
<1>6. QED
  BY <1>2, <1>4, <1>5 DEF GraphInv

LEMMA RemoveKeepsGraph ==
    ASSUME TypeOK, OrderInv, GraphInv, Remove
    PROVE  GraphInv'
<1>1. /\ at = "remove" /\ k \in 1..2 /\ k' = k /\ at' = "insert"
      /\ \A s \in Song : edges'[s] = edges[s] \ {Repoints[k].from}
      /\ taken' = {s \in Song : Repoints[k].from \in edges[s]}
  BY LoopLengths DEF Remove, TypeOK, Lasts
<1>2. ~Refactored'
  BY <1>1, PhasesInOrder DEF Phases, Refactored, OrderInv, Refactoring, Refactor, TypeOK
<1>3. \A s \in Song : edges'[s] \subseteq edges[s]
  BY <1>1
<1>4. \A s \in Song, i \in 1..2, j \in 1..2 :
          j <= Len(Repoints[i].to) =>
             /\ Repoints[i].from \in edges'[s] => Files!Opposite(Repoints[i].to[j]) \notin edges'[s]
             /\ (i = k /\ s \in taken') => Files!Opposite(Repoints[i].to[j]) \notin edges'[s]
  BY <1>1, <1>3 DEF GraphInv
<1>5. \A s \in Song : MlTagged \notin edges'[s] /\ (k = 2 => Reconciled \notin edges'[s])
  <2>1. CASE k = 1
    BY <1>1, <2>1, RepointShape
  <2>2. CASE k = 2
    BY <1>1, <1>3, <2>2, RepointShape DEF GraphInv
  <2>3. QED
    BY <1>1, <2>1, <2>2
<1>6. QED
  BY <1>1, <1>2, <1>3, <1>4, <1>5 DEF GraphInv

LEMMA InsertKeepsGraph ==
    ASSUME TypeOK, OrderInv, GraphInv, Insert
    PROVE  GraphInv'
<1>1. /\ at \in {"insert", "insert_second"} /\ k \in 1..2
      /\ at = "insert_second" => k = 2
  BY LoopLengths DEF Insert, TypeOK, Lasts, OrderInv
<1> DEFINE j == IF at = "insert" THEN 1 ELSE 2
<1>2. /\ j \in 1..2 /\ j <= Len(Repoints[k].to)
      /\ \A s \in Song : edges'[s] = IF s \in taken THEN edges[s] \cup {Repoints[k].to[j]}
                                                    ELSE edges[s]
  BY <1>1, RepointShape DEF Insert
<1> HIDE DEF j
<1>3. \/ k = 1 /\ at' = "remove" /\ k' = 2 /\ taken' = {}
      \/ k = 2 /\ at = "insert" /\ at' = "insert_second" /\ k' = 2 /\ taken' = taken
      \/ k = 2 /\ at = "insert_second" /\ at' = "seed" /\ k' = 1 /\ taken' = {}
  <2>1. CASE at = "insert" /\ k = 1
    BY <2>1, RepointShape, Lengths DEF Insert
  <2>2. CASE at = "insert" /\ k = 2
    BY <2>2, RepointShape, Lengths DEF Insert
  <2>3. CASE at = "insert_second" /\ k = 2
    BY <2>3, RepointShape, Lengths DEF Insert
  <2>4. QED
    BY <1>1, <2>1, <2>2, <2>3
<1>4. ~Refactored'
  BY <1>3, PhasesInOrder DEF Phases, Refactored, OrderInv, Refactoring, Refactor, TypeOK
<1>5. PICK new \in Axes : /\ Repoints[k].to[j] = Files!Is(new)
                          /\ Files!Opposite(Repoints[k].to[j]) = Files!IsNot(new)
  BY <1>1, <1>2, Replacing, AxisPlaces
<1>6. \A s \in Song : edges'[s] = edges[s] \/ (s \in taken /\ edges'[s] = edges[s] \cup {Files!Is(new)})
  BY <1>2, <1>5
<1>7. \A s \in taken : Files!IsNot(new) \notin edges[s]
  BY <1>1, <1>2, <1>5 DEF GraphInv, TypeOK
<1>8. \A axis \in Axes : /\ Files!IsNot(axis) # Files!Is(new)
                         /\ Files!Is(axis) = Files!Is(new) => axis = new
  BY DEF Files!Is, Files!IsNot
<1>9. \A s \in Song, axis \in Axes : ~(Files!Is(axis) \in edges'[s] /\ Files!IsNot(axis) \in edges'[s])
  BY <1>6, <1>7, <1>8 DEF GraphInv
<1>10. Files!Is(new) \notin Legacy
  BY StatesAreNew
<1>11. \A s \in Song, i \in 1..2, l \in 1..2 :
          l <= Len(Repoints[i].to) =>
             /\ Repoints[i].from \in edges'[s] => Files!Opposite(Repoints[i].to[l]) \notin edges'[s]
             /\ (i = k /\ s \in taken) => Files!Opposite(Repoints[i].to[l]) \notin edges'[s]
  <2>1. TAKE s \in Song, i \in 1..2, l \in 1..2
  <2>2. HAVE l <= Len(Repoints[i].to)
  <2>3. Files!Opposite(Repoints[i].to[l]) \in edges'[s] <=> Files!Opposite(Repoints[i].to[l]) \in edges[s]
    BY <1>6, <1>8, <2>2, Replacing, AxisPlaces
  <2>4. Repoints[i].from \in edges'[s] <=> Repoints[i].from \in edges[s]
    BY <1>6, <1>10, RepointShape DEF Legacy
  <2>5. QED
    BY <1>1, <2>2, <2>3, <2>4 DEF GraphInv
<1>12. \A s \in Song : MlTagged \notin edges'[s] /\ (k = 2 => Reconciled \notin edges'[s])
  BY <1>1, <1>6, <1>10 DEF GraphInv, Legacy
<1>13. QED
  <2>1. at' \notin {"insert", "insert_second"} => taken' = {}
    BY <1>3
  <2>2. (at' = "seed" => \A s \in Song : edges'[s] \cap Legacy = {}) /\ at' # "drop"
    BY <1>3, <1>12 DEF Legacy
  <2>3. at' = "seed" => k' = 1
    BY <1>3
  <2>4. at' \in {"insert", "insert_second"} => k' = k /\ taken' = taken
    BY <1>3
  <2>5. QED
    BY <1>3, <1>4, <1>9, <1>11, <1>12, <2>1, <2>2, <2>3, <2>4 DEF GraphInv

LEMMA SeedKeepsGraph ==
    ASSUME TypeOK, OrderInv, GraphInv, Seed
    PROVE  GraphInv'
<1>1. /\ at = "seed" /\ k \in 1..8 /\ taken' = taken /\ taken = {}
      /\ \A s \in Song : edges'[s] = IF Files!Poles(edges[s], AxisOrder[k]) # {} THEN edges[s]
                                     ELSE edges[s] \cup {Files!IsNot(AxisOrder[k])}
  BY LoopLengths DEF Seed, TypeOK, Lasts, GraphInv
<1>2. \/ k < 8 /\ k' = k + 1 /\ at' = "seed"
      \/ k = 8 /\ k' = 1 /\ at' = "drop"
  <2>1. NextRound(8, "drop")
    BY Lengths DEF Seed, NextRound
  <2>2. QED
    BY <1>1, <2>1, Rounds
<1>3. ~Refactored'
  BY <1>2, PhasesInOrder DEF Phases, Refactored, OrderInv, Refactoring, Refactor, TypeOK
<1>4. PICK new \in Axes : new = AxisOrder[k]
  BY <1>1, AxisPlaces
<1>5. \A s \in Song : \/ edges'[s] = edges[s] /\ HasPole(s, new)
                      \/ edges'[s] = edges[s] \cup {Files!IsNot(new)} /\ ~HasPole(s, new)
  <2>1. TAKE s \in Song
  <2>2. Files!Poles(edges[s], new) # {} <=> HasPole(s, new)
    BY PolesAre DEF HasPole, TypeOK
  <2>3. QED
    BY <1>1, <1>4, <2>2
<1>6. \A axis \in Axes : /\ Files!IsNot(new) # Files!Is(axis)
                         /\ Files!IsNot(axis) = Files!IsNot(new) => axis = new
  BY DEF Files!Is, Files!IsNot
<1>7. \A s \in Song, axis \in Axes : ~(Files!Is(axis) \in edges'[s] /\ Files!IsNot(axis) \in edges'[s])
  BY <1>5, <1>6 DEF GraphInv, HasPole
<1>8. \A s \in Song : edges'[s] \cap Legacy = {}
  <2>1. \A s \in Song : edges[s] \cap Legacy = {}
    BY <1>1 DEF GraphInv
  <2>2. Files!IsNot(new) \notin Legacy
    BY <1>4, StatesAreNew
  <2>3. QED
    BY <1>5, <2>1, <2>2
<1>9. \A s \in Song, i \in 1..2 : Repoints[i].from \notin edges'[s]
  BY <1>8, RepointShape DEF Legacy
<1>10. \A s \in Song : HasPole(s, new)' /\ \A axis \in Axes : HasPole(s, axis) => HasPole(s, axis)'
  BY <1>5 DEF HasPole
<1>11. \A s \in Song, i \in 1..k : HasPole(s, AxisOrder[i])'
  <2>1. TAKE s \in Song, i \in 1..k
  <2>2. CASE i = k
    BY <2>2, <1>4, <1>10
  <2>3. CASE i \in 1..k-1
    <3>1. HasPole(s, AxisOrder[i]) /\ AxisOrder[i] \in Axes
      BY <1>1, <2>3, AxisPlaces DEF GraphInv
    <3>2. QED
      BY <3>1, <1>10
  <2>4. QED
    BY <1>1, <2>2, <2>3
<1>12. k = 8 => \A s \in Song, axis \in Axes : HasPole(s, axis)'
  BY <1>11, AxisPlaces
<1>13. at' = "seed" => \A s \in Song, i \in 1..k'-1 : HasPole(s, AxisOrder[i])'
  BY <1>1, <1>2, <1>11
<1>14. QED
  BY <1>1, <1>2, <1>3, <1>7, <1>8, <1>9, <1>12, <1>13 DEF GraphInv

LEMMA StepGraph ==
    ASSUME TypeOK, OrderInv, GraphInv, [Next]_vars
    PROVE  GraphInv'
<1>1. CASE Start \/ RecordStarted \/ Upgrade \/ RecordApplied \/ SetVersion \/ Serve
  BY <1>1, OutsideThePhases DEF GraphInv, HasPole, Refactoring
<1>2. CASE Link
  <2>1. at = "link" /\ at' \in {"link", "remove"} /\ (at' = "remove" => k' = 1)
    BY <1>2 DEF Link, NextRound
  <2>2. ~Refactored' /\ UNCHANGED <<edges, taken>>
    BY <1>2, <2>1, PhasesInOrder
       DEF Link, Phases, Refactored, OrderInv, Refactoring, Refactor, TypeOK
  <2>3. QED
    BY <2>1, <2>2 DEF GraphInv, HasPole
<1>3. CASE Remove
  BY <1>3, RemoveKeepsGraph
<1>4. CASE Insert
  BY <1>4, InsertKeepsGraph
<1>5. CASE Seed
  BY <1>5, SeedKeepsGraph
<1>6. CASE Drop
  <2>1. at = "drop" /\ at' \in {"drop", "record"} /\ UNCHANGED <<edges, taken>>
    BY <1>6 DEF Drop, NextRound
  <2>2. QED
    BY <2>1 DEF GraphInv, HasPole
<1>7. CASE Crash
  <2>1. at' = "down" /\ taken' = {} /\ UNCHANGED <<version, edges>>
    BY <1>7 DEF Crash, db
  <2>2. Refactored' => Refactored
    BY <2>1 DEF Refactored
  <2>3. QED
    BY <2>1, <2>2 DEF GraphInv, HasPole
<1>8. CASE UNCHANGED vars
  BY <1>8 DEF vars, db, GraphInv, HasPole, Refactored
<1>9. QED
  BY <1>1, <1>2, <1>3, <1>4, <1>5, <1>6, <1>7, <1>8 DEF Next, Phases

\* A stored version stands for work that is done, for any songs and any crashes:
\* the records say applied, no field and no old state is left, and each song has
\* just one state on each axis.
THEOREM StoredIsDone == Spec => []RecordedIsDone
<1>1. Init => TypeOK /\ OrderInv /\ LinkInv /\ GraphInv
  BY InitType, InitOrder, InitLink, InitGraph
<1>2. TypeOK /\ OrderInv /\ LinkInv /\ GraphInv /\ [Next]_vars
         => TypeOK' /\ OrderInv' /\ LinkInv' /\ GraphInv'
  BY StepType, StepOrder, StepLink, StepGraph
<1>3. TypeOK /\ OrderInv /\ LinkInv /\ GraphInv => RecordedIsDone
  <2>1. SUFFICES ASSUME TypeOK, OrderInv, LinkInv, GraphInv, version >= Refactor
                 PROVE  /\ refers = {}
                        /\ \A s \in Song :
                              /\ edges[s] \cap Legacy = {}
                              /\ \A axis \in Axes : Cardinality(Files!Poles(edges[s], axis)) = 1
    BY DEF OrderInv, RecordedIsDone, Axes
  <2>2. Refactored
    BY <2>1 DEF Refactored
  <2>3. refers = {} /\ \A s \in Song : edges[s] \cap Legacy = {}
    BY <2>1, <2>2 DEF LinkInv, GraphInv
  <2>4. ASSUME NEW s \in Song, NEW axis \in Axes
        PROVE  Cardinality(Files!Poles(edges[s], axis)) = 1
    <3>1. Files!Poles(edges[s], axis) = edges[s] \cap {Files!Is(axis), Files!IsNot(axis)}
      BY <2>1, PolesAre DEF TypeOK
    <3>2. HasPole(s, axis) /\ ~(Files!Is(axis) \in edges[s] /\ Files!IsNot(axis) \in edges[s])
      BY <2>1, <2>2 DEF GraphInv
    <3>3. PICK pole : Files!Poles(edges[s], axis) = {pole}
      BY <3>1, <3>2 DEF HasPole
    <3>4. QED
      BY <3>3, FS_Singleton
  <2>5. QED
    BY <2>3, <2>4
<1>4. QED
  BY <1>1, <1>2, <1>3, PTL DEF Spec
-----------------------------------------------------------------------------
(* Where the states come from. *)

\* The old database accounts for a positive state of a song.
Accounted(s, state) ==
    state \in before[s] \/ \E i \in 1..2 : /\ Repoints[i].from \in before[s]
                                          /\ state \in Range(Repoints[i].to)

LEMMA OriginShape == NoFalseProgress <=> \A s \in Song : \A state \in edges[s] : state[2] => Accounted(s, state)
BY Lengths DEF NoFalseProgress, Accounted

LEMMA InitOrigin == Init => OriginInv
BY DEF Init, OriginInv, NoFalseProgress

LEMMA StepOrigin ==
    ASSUME TypeOK, OrderInv, GraphInv, OriginInv, [Next]_vars
    PROVE  OriginInv'
<1>1. CASE Start \/ RecordStarted \/ Upgrade \/ RecordApplied \/ SetVersion \/ Serve
  BY <1>1, OutsideThePhases DEF OriginInv, NoFalseProgress, Refactoring
<1>2. CASE Link \/ Drop
  <2>1. at' \notin {"insert", "insert_second"} /\ UNCHANGED <<edges, before>>
    BY <1>2 DEF Link, Drop, NextRound, history
  <2>2. QED
    BY <2>1 DEF OriginInv, NoFalseProgress
<1>3. CASE Remove
  <2>1. /\ k \in 1..2 /\ k' = k /\ before' = before
        /\ \A s \in Song : edges'[s] = edges[s] \ {Repoints[k].from}
        /\ taken' = {s \in Song : Repoints[k].from \in edges[s]}
    BY <1>3, LoopLengths DEF Remove, TypeOK, Lasts, history
  <2>2. NoFalseProgress'
    BY <2>1 DEF OriginInv, NoFalseProgress
  <2>3. Repoints[k].from \in Legacy
    BY <2>1, RepointShape DEF Legacy
  <2>4. \A s \in taken' : Repoints[k].from \in before[s]
    BY <2>1, <2>3 DEF OriginInv
  <2>5. QED
    BY <2>1, <2>2, <2>4 DEF OriginInv
<1>4. CASE Insert
  <2> DEFINE j == IF at = "insert" THEN 1 ELSE 2
  <2>1. /\ at \in {"insert", "insert_second"} /\ k \in 1..2 /\ (at = "insert_second" => k = 2)
        /\ before' = before /\ taken \subseteq Song
    BY <1>4, LoopLengths DEF Insert, TypeOK, Lasts, OrderInv, history
  <2>2. /\ j \in 1..2 /\ j <= Len(Repoints[k].to)
        /\ \A s \in Song : edges'[s] = IF s \in taken THEN edges[s] \cup {Repoints[k].to[j]}
                                                      ELSE edges[s]
    BY <1>4, <2>1, RepointShape DEF Insert
  <2>3. Repoints[k].to[j] \in Range(Repoints[k].to) /\ Repoints[k].to[j] \notin Legacy
    <3>1. DOMAIN Repoints[k].to = 1..Len(Repoints[k].to)
      BY <2>1 DEF Repoints
    <3>2. QED
      BY <2>1, <2>2, <3>1, Replacing, AxisPlaces, StatesAreNew DEF Range
  <2> HIDE DEF j
  <2>4. \A s \in taken : Repoints[k].from \in before[s]
    BY <2>1 DEF OriginInv
  <2>5. \A s \in taken : Accounted(s, Repoints[k].to[j])
    BY <2>1, <2>3, <2>4 DEF Accounted
  <2>6. \A s \in Song : \A state \in edges'[s] : state[2] => Accounted(s, state)
    BY ZenonT(60), <2>2, <2>5, OriginShape DEF OriginInv
  <2>7. NoFalseProgress'
    BY <2>1, <2>6, Lengths DEF NoFalseProgress, Accounted
  <2>8. \A s \in Song : edges'[s] \cap Legacy \subseteq before'[s]
    <3>1. \A s \in Song : edges'[s] \cap Legacy = edges[s] \cap Legacy
      BY <2>2, <2>3
    <3>2. QED
      BY <2>1, <3>1 DEF OriginInv
  <2>9. at' \in {"insert", "insert_second"} => k' = k /\ taken' = taken
    <3>1. CASE at = "insert" /\ k = 1
      BY <1>4, <3>1, RepointShape, Lengths DEF Insert
    <3>2. CASE at = "insert" /\ k = 2
      BY <1>4, <3>2, RepointShape, Lengths DEF Insert
    <3>3. CASE at = "insert_second" /\ k = 2
      BY <1>4, <3>3, RepointShape, Lengths DEF Insert
    <3>4. QED
      BY <2>1, <3>1, <3>2, <3>3
  <2>10. QED
    BY <2>1, <2>4, <2>7, <2>8, <2>9 DEF OriginInv
<1>5. CASE Seed
  <2>1. k \in 1..8 /\ at' \notin {"insert", "insert_second"} /\ before' = before
    BY <1>5, LoopLengths DEF Seed, NextRound, TypeOK, Lasts, history
  <2>2. \A s \in Song : edges'[s] = edges[s] \/ edges'[s] = edges[s] \cup {Files!IsNot(AxisOrder[k])}
    BY <1>5 DEF Seed
  <2>3. Files!IsNot(AxisOrder[k]) \notin Legacy /\ ~Files!IsNot(AxisOrder[k])[2]
    <3>1. AxisOrder[k] \in Axes
      BY <2>1, AxisPlaces
    <3>2. Files!IsNot(AxisOrder[k]) \notin Legacy
      BY <3>1, StatesAreNew
    <3>3. ~Files!IsNot(AxisOrder[k])[2]
      BY DEF Files!IsNot
    <3>4. QED
      BY <3>2, <3>3
  <2>4. NoFalseProgress'
    BY <2>1, <2>2, <2>3 DEF OriginInv, NoFalseProgress
  <2>5. QED
    BY <2>1, <2>2, <2>3, <2>4 DEF OriginInv
<1>6. CASE Crash
  BY <1>6 DEF Crash, db, OriginInv, NoFalseProgress
<1>7. CASE UNCHANGED vars
  BY <1>7 DEF vars, db, OriginInv, NoFalseProgress
<1>8. QED
  BY <1>1, <1>2, <1>3, <1>4, <1>5, <1>6, <1>7 DEF Next, Phases

\* No song gains a positive state that the old database does not account for,
\* wherever the migration is cut off and begun again.
THEOREM NothingInvented == Spec => []NoFalseProgress
<1>1. Init => TypeOK /\ OrderInv /\ GraphInv /\ OriginInv
  BY InitType, InitOrder, InitGraph, InitOrigin
<1>2. TypeOK /\ OrderInv /\ GraphInv /\ OriginInv /\ [Next]_vars
         => TypeOK' /\ OrderInv' /\ GraphInv' /\ OriginInv'
  BY StepType, StepOrder, StepGraph, StepOrigin
<1>3. OriginInv => NoFalseProgress
  BY DEF OriginInv
<1>4. QED
  BY <1>1, <1>2, <1>3, PTL DEF Spec
=============================================================================
