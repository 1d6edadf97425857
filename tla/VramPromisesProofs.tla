------------------------- MODULE VramPromisesProofs -------------------------
(***************************************************************************)
(* What holds of VramPromises for any workers, models, limits and failures. *)
(*                                                                         *)
(* Invariants, each inductive together with the ones before it:            *)
(*  - ShapeInv: the types, with those of the parts TypeOK does not look at; *)
(*  - PlaceInv: which sessions a process and a load that is under way have; *)
(*  - PromiseInv: whose every promise is;                                  *)
(*  - LoadedInv: which models a file that is processed lacks, and why;     *)
(*  - RoomInv: that what is promised fits, with what is checked.           *)
(*                                                                         *)
(* What is known of the sums of promises and of limits comes from counting *)
(* units: a sum is the size of a finite set.                               *)
(***************************************************************************)
EXTENDS VramPromises, FiniteSetTheorems, TLAPS

Processes == {"up", "exiting", "down"}

Caches == {"none", "probing", "warming", "ready", "use", "evicting", "lost"}

Devices == {"none", "cpu", "gpu"}

Steps == {"none", "read", "check", "insert", "create", "heal", "drop", "measured", "failed"}

LoadState == [at : Steps, amount : 0 .. NoLimit, again : BOOLEAN]

ShapeInv ==
    /\ TypeOK
    /\ load \in [Key -> LoadState]
    /\ cap \in [Key -> 0 .. NoLimit]
    /\ faults \in 0 .. MaxFaults

\* What there is of a model that is being loaded, or healed, or unloaded.
KeyPlaced(key) ==
    /\ load[key].at \in {"read", "check", "insert", "create"} => device[key] = "none"
    /\ load[key].at = "heal" => device[key] = "gpu"
    /\ load[key].at = "drop" => device[key] # "none"
    /\ proc[key[1]] # "up" => load[key] = NotLoading
    /\ proc[key[1]] = "down" => device[key] = "none"

PlaceInv ==
    /\ \A key \in Key : KeyPlaced(key)
    /\ \A w \in Worker : proc[w] = "down" => cache[w] = "none"
    /\ \A w \in owed : proc[w] = "down"

\* A promise is what the session has, or will have.
KeyPromised(key) ==
    /\ (Stays(key) /\ key[1] \notin misjudged) => promise[key] = Need(cap[key])
    /\ (load[key].at = "create" /\ key[1] \notin misjudged) => promise[key] = Need(load[key].amount)
    /\ (load[key].at = "drop" /\ device[key] = "gpu") => promise[key] = 0
    /\ (promise[key] > 0 /\ key \notin leaked) =>
           device[key] = "gpu" \/ load[key].at = "create" \/ key[1] \in owed

PromiseInv == \A key \in Key : KeyPromised(key)

\* A session that goes while a file is processed is replaced.
KeyLoaded(key) ==
    /\ (cache[key[1]] = "use" /\ key \notin broken) =>
           device[key] # "none" \/ load[key].at \in {"read", "check", "insert", "create"}
    /\ load[key].at = "drop" => load[key].again \/ cache[key[1]] \in {"probing", "evicting"}

LoadedInv == \A key \in Key : KeyLoaded(key)

\* What is promised fits, and so does what any load has room for and is to insert,
\* as long as no load inserts while another is to.
RoomInv ==
    ~overlapped =>
        /\ Sum(promise, Key) <= Total
        /\ \A key \in Key : load[key].at = "insert" =>
               Sum(promise, Key) + Need(load[key].amount) <= Total
-----------------------------------------------------------------------------
(* Numbers and keys. *)

LEMMA Sizes ==
    /\ Total \in Nat /\ MaxFaults \in Nat /\ TooLarge \in Nat /\ NoLimit \in Nat
    /\ 0 \in 0 .. TooLarge /\ 0 \in 0 .. NoLimit /\ NoLimit \in 0 .. NoLimit
    /\ TooLarge \in 0 .. NoLimit
    /\ \A l \in 0 .. NoLimit : Need(l) \in 0 .. TooLarge
    /\ \A l \in 0 .. TooLarge : l \in 0 .. NoLimit
    /\ \A l \in 0 .. NoLimit : Raised(l) \subseteq 0 .. NoLimit
BY VramAssumption DEF TooLarge, NoLimit, Need, Raised

LEMMA KeyParts ==
    ASSUME NEW key \in Key
    PROVE  /\ key[1] \in Worker /\ key[2] \in Model
           /\ \A w \in Worker : key \in KeysOf(w) <=> key[1] = w
           /\ \A w \in Worker : KeysOf(w) \subseteq Key
BY DEF Key, KeysOf

LEMMA QuietKeys ==
    ASSUME NEW w \in Worker
    PROVE  /\ Quiet(w) <=> \A key \in Key : key[1] = w => load[key] = NotLoading
           /\ HasSessions(w) <=> \A key \in Key : key[1] = w => device[key] # "none"
           /\ HasNone(w) <=> \A key \in Key : key[1] = w => device[key] = "none"
<1>1. \A key \in Key : key \in KeysOf(w) <=> key[1] = w
  BY KeyParts
<1>2. KeysOf(w) \subseteq Key
  BY DEF KeysOf, Key
<1>3. QED
  BY <1>1, <1>2 DEF Quiet, HasSessions, HasNone

LEMMA AtRest ==
    /\ NotLoading.at = "none" /\ NotLoading.amount = 0 /\ NotLoading.again = FALSE
    /\ NotLoading \in LoadState
BY Sizes DEF NotLoading, LoadState, Steps

\* A load moves to another step with what it has.
LEMMA Moves ==
    ASSUME NEW l \in LoadState
    PROVE  /\ l.at \in Steps /\ l.amount \in 0 .. NoLimit /\ l.again \in BOOLEAN
           /\ \A at \in Steps : /\ [l EXCEPT !.at = at] \in LoadState
                                /\ [l EXCEPT !.at = at].at = at
                                /\ [l EXCEPT !.at = at].amount = l.amount
BY DEF LoadState

\* What a load that failed, and one whose session was dropped, are at.
LEMMA Ends ==
    ASSUME ShapeInv, NEW key \in Key
    PROVE  /\ Failed(key) \in LoadState /\ Failed(key).at \in {"none", "measured", "failed"}
           /\ Dropped(key) \in LoadState /\ Dropped(key).at \in {"none", "read", "measured"}
           /\ load[key].again => Dropped(key).at = "read"
<1>1. NotLoading \in LoadState /\ load[key].again \in BOOLEAN
  BY AtRest DEF ShapeInv, LoadState
<1>2. Failed(key) \in LoadState /\ Failed(key).at \in {"none", "measured", "failed"}
  <2> DEFINE at == IF cache[key[1]] # "probing" THEN "none" ELSE IF load[key].again THEN "measured" ELSE "failed"
  <2>1. Failed(key) = [NotLoading EXCEPT !.at = at]
    BY DEF Failed
  <2>2. at \in Steps /\ at \in {"none", "measured", "failed"}
    BY DEF Steps
  <2> HIDE DEF at
  <2>3. [NotLoading EXCEPT !.at = at] \in LoadState /\ [NotLoading EXCEPT !.at = at].at = at
    BY <1>1, <2>2 DEF LoadState
  <2>4. QED
    BY <2>1, <2>2, <2>3
<1>3. /\ Dropped(key) \in LoadState /\ Dropped(key).at \in {"none", "read", "measured"}
      /\ load[key].again => Dropped(key).at = "read"
  <2> DEFINE at == IF load[key].again THEN "read" ELSE IF cache[key[1]] = "probing" THEN "measured" ELSE "none"
             dropped == [NotLoading EXCEPT !.at = at, !.again = load[key].again]
  <2>1. Dropped(key) = dropped
    BY DEF Dropped
  <2>2. at \in Steps /\ at \in {"none", "read", "measured"} /\ (load[key].again => at = "read")
    BY DEF Steps
  <2> HIDE DEF at
  <2>3. dropped \in LoadState /\ dropped.at = at
    BY <1>1, <2>2 DEF LoadState
  <2>4. QED
    BY <2>1, <2>2, <2>3
<1>4. QED
  BY <1>2, <1>3

\* A step of a load changes nothing of any other model.
LEMMA Elsewhere ==
    ASSUME ShapeInv, NEW key \in Key, Load(key)
    PROVE  /\ UNCHANGED <<proc, owed, misjudged>>
           /\ \A other \in Key \ {key} : /\ load'[other] = load[other]
                                         /\ device'[other] = device[other]
                                         /\ cap'[other] = cap[other]
                                         /\ promise'[other] = promise[other]
                                         /\ other \in leaked' <=> other \in leaked
                                         /\ other \in broken' <=> other \in broken
           /\ \A w \in Worker : cache'[w] = cache[w] \/ (cache[w] = "warming" /\ cache'[w] = "ready")
<1> USE DEF ShapeInv, TypeOK, meta, process, models, history
<1>1. CASE Warm(key) \/ ProbeLoad(key) \/ Read(key)
  BY <1>1 DEF Warm, ProbeLoad, Read
<1>2. CASE Check(key)
  BY <1>2 DEF Check, Rejected
<1>3. CASE Insert(key) \/ Create(key)
  BY <1>3 DEF Insert, Create
<1>4. CASE LoadFails(key)
  BY <1>4 DEF LoadFails
<1>5. CASE RaiseLimit(key) \/ HealFails(key) \/ Store(key) \/ Drop(key)
  BY <1>5 DEF RaiseLimit, HealFails, Store, Drop
<1>6. CASE Heal(key) \/ ProbeUnload(key) \/ EvictModel(key)
  BY <1>6 DEF Heal, ProbeUnload, EvictModel, Unload, Release
<1>7. QED
  BY <1>1, <1>2, <1>3, <1>4, <1>5, <1>6 DEF Load

\* Who loads, heals or unloads a model is up.
LEMMA LoadsUp ==
    ASSUME PlaceInv, NEW key \in Key, Load(key)
    PROVE  proc[key[1]] = "up"
<1>1. load[key] # NotLoading \/ proc[key[1]] = "up"
  BY AtRest DEF Load, Warm, ProbeLoad, Read, Check, Insert, Create, LoadFails, RaiseLimit, Heal,
                HealFails, Drop, ProbeUnload, Store, EvictModel
<1>2. QED
  BY <1>1 DEF PlaceInv, KeyPlaced
-----------------------------------------------------------------------------
(* Types. *)

LEMMA InitShape == Init => ShapeInv
<1>1. SUFFICES ASSUME Init PROVE ShapeInv
  OBVIOUS
<1>2. load \in [Key -> LoadState] /\ \A key \in Key : load[key].at = "none"
  BY <1>1, AtRest DEF Init
<1>3. promise \in [Key -> 0 .. TooLarge] /\ cap \in [Key -> 0 .. NoLimit] /\ \A key \in Key : cap[key] = 0
  BY <1>1, Sizes DEF Init
<1>4. /\ limit \in [Model -> 0 .. NoLimit] /\ faults \in 0 .. MaxFaults
      /\ proc \in [Worker -> {"up", "exiting", "down"}]
      /\ cache \in [Worker -> {"none", "probing", "warming", "ready", "use", "evicting", "lost"}]
      /\ todo \in [Worker -> SUBSET Model]
      /\ device \in [Key -> {"none", "cpu", "gpu"}]
      /\ overlapped \in BOOLEAN /\ owed = {} /\ misjudged = {} /\ leaked = {} /\ broken = {}
  <2>1. limit \in [Model -> 0 .. NoLimit] /\ faults \in 0 .. MaxFaults
    BY <1>1, Sizes DEF Init
  <2>2. QED
    BY <1>1, <2>1 DEF Init
<1>5. TypeOK
  BY <1>2, <1>3, <1>4, Sizes DEF TypeOK
<1>6. QED
  BY <1>2, <1>3, <1>4, <1>5 DEF ShapeInv

LEMMA FaultCount == ASSUME ShapeInv, Fault PROVE faults' \in 0 .. MaxFaults
BY Sizes DEF ShapeInv, Fault

\* What a step of a load is to keep.
LEMMA ShapeOfKey ==
    ASSUME ShapeInv, NEW key \in Key, Load(key),
           load' \in [Key -> LoadState], cap' \in [Key -> 0 .. NoLimit], faults' \in 0 .. MaxFaults,
           limit' \in [Model -> 0 .. NoLimit], promise' \in [Key -> 0 .. TooLarge],
           cache' \in [Worker -> Caches], todo' \in [Worker -> SUBSET Model],
           device' \in [Key -> Devices], device'[key] # "gpu" => cap'[key] = 0,
           overlapped' \in BOOLEAN, leaked' \subseteq Key, broken' \subseteq Key
    PROVE  ShapeInv'
<1>1. \A other \in Key : load'[other].at \in Steps
  BY Moves
<1>2. \A other \in Key : cap'[other] \in 0 .. NoLimit /\ (device'[other] # "gpu" => cap'[other] = 0)
  BY Elsewhere DEF ShapeInv, TypeOK
<1>3. proc' \in [Worker -> Processes] /\ owed' \subseteq Worker /\ misjudged' \subseteq Worker
  BY Elsewhere DEF ShapeInv, TypeOK, Processes
<1>4. TypeOK'
  BY <1>1, <1>2, <1>3 DEF TypeOK, Steps, Processes, Caches, Devices
<1>5. QED
  BY <1>4 DEF ShapeInv

LEMMA LoadShape ==
    ASSUME ShapeInv, PlaceInv, NEW key \in Key, Load(key)
    PROVE  ShapeInv'
<1>1. /\ key[1] \in Worker /\ key[2] \in Model /\ load[key] \in LoadState
      /\ NotLoading \in LoadState /\ KeyPlaced(key)
  BY KeyParts, AtRest DEF ShapeInv, PlaceInv
<1>2. /\ load \in [Key -> LoadState] /\ faults \in 0 .. MaxFaults
      /\ cap \in [Key -> 0 .. NoLimit] /\ device \in [Key -> Devices]
      /\ device[key] # "gpu" => cap[key] = 0
      /\ limit \in [Model -> 0 .. NoLimit] /\ promise \in [Key -> 0 .. TooLarge]
      /\ cache \in [Worker -> Caches] /\ todo \in [Worker -> SUBSET Model]
      /\ overlapped \in BOOLEAN /\ leaked \subseteq Key /\ broken \subseteq Key
  BY DEF ShapeInv, TypeOK, Caches, Devices
<1> USE DEF meta, process, models, history
<1>3. CASE Warm(key) \/ ProbeLoad(key)
  <2>1. [load[key] EXCEPT !.at = "read"] \in LoadState
    BY <1>1, Moves DEF Steps
  <2>2. load' \in [Key -> LoadState]
    BY <1>2, <1>3, <2>1 DEF Warm, ProbeLoad
  <2>3. QED
    BY <1>2, <1>3, <2>2, ShapeOfKey DEF Warm, ProbeLoad
<1>4. CASE Read(key)
  <2>1. limit[key[2]] \in 0 .. NoLimit
    BY <1>1, <1>2
  <2>2. [load[key] EXCEPT !.at = "check", !.amount = limit[key[2]]] \in LoadState
    BY <1>1, <2>1 DEF LoadState, Steps
  <2>3. load' = [load EXCEPT ![key] = [load[key] EXCEPT !.at = "check", !.amount = limit[key[2]]]]
    BY <1>2, <1>4 DEF Read
  <2>4. load' \in [Key -> LoadState]
    BY <1>2, <2>2, <2>3
  <2>5. QED
    BY <1>2, <1>4, <2>4, ShapeOfKey DEF Read
<1>5. CASE Check(key)
  <2>1. [load[key] EXCEPT !.at = "insert"] \in LoadState /\ Failed(key) \in LoadState
    BY <1>1, Moves, Ends DEF Steps
  <2>2. device[key] = "none"
    BY <1>1, <1>5 DEF Check, KeyPlaced
  <2>3. load' \in [Key -> LoadState] /\ device' \in [Key -> Devices] /\ device'[key] # "gpu"
    BY <1>1, <1>2, <1>5, <2>1, <2>2 DEF Check, Rejected, Devices
  <2>4. QED
    BY <1>2, <1>5, <2>2, <2>3, ShapeOfKey DEF Check
<1>6. CASE Insert(key)
  <2>1. [load[key] EXCEPT !.at = "create"] \in LoadState /\ Need(load[key].amount) \in 0 .. TooLarge
    BY <1>1, Moves, Sizes DEF Steps
  <2>2. load' \in [Key -> LoadState] /\ promise' \in [Key -> 0 .. TooLarge]
    BY <1>2, <1>6, <2>1 DEF Insert
  <2>3. overlapped' \in BOOLEAN
    BY <1>6 DEF Insert
  <2>4. QED
    BY <1>2, <1>6, <2>2, <2>3, ShapeOfKey DEF Insert
<1>7. CASE Create(key)
  <2>1. load[key].amount \in 0 .. NoLimit
    BY <1>1, Moves
  <2>2. /\ load' \in [Key -> LoadState] /\ cap' \in [Key -> 0 .. NoLimit]
        /\ device' \in [Key -> Devices] /\ device'[key] = "gpu" /\ leaked' \subseteq Key
    BY <1>1, <1>2, <1>7, <2>1 DEF Create, Devices
  <2>3. QED
    BY <1>2, <1>7, <2>2, ShapeOfKey DEF Create
<1>8. CASE LoadFails(key)
  <2>1. faults' \in 0 .. MaxFaults /\ Failed(key) \in LoadState
    BY <1>8, FaultCount, Ends DEF LoadFails
  <2>2. /\ load' \in [Key -> LoadState] /\ cache' \in [Worker -> Caches]
        /\ leaked' \subseteq Key /\ broken' \subseteq Key
    BY <1>1, <1>2, <1>8, <2>1 DEF LoadFails, Caches
  <2>3. QED
    BY <1>2, <1>8, <2>1, <2>2, ShapeOfKey DEF LoadFails
<1>9. CASE RaiseLimit(key)
  <2>1. [load[key] EXCEPT !.at = "heal"] \in LoadState
    BY <1>1, Moves DEF Steps
  <2>2. PICK l \in 0 .. NoLimit : limit' = [limit EXCEPT ![key[2]] = l]
    BY <1>1, <1>2, <1>9, Sizes DEF RaiseLimit
  <2>3. load' \in [Key -> LoadState] /\ limit' \in [Model -> 0 .. NoLimit]
    BY <1>1, <1>2, <1>9, <2>1, <2>2 DEF RaiseLimit
  <2>4. QED
    BY <1>2, <1>9, <2>3, ShapeOfKey DEF RaiseLimit
<1>10. CASE HealFails(key)
  <2>1. faults' \in 0 .. MaxFaults
    BY <1>10, FaultCount DEF HealFails
  <2>2. load' \in [Key -> LoadState]
    BY <1>1, <1>2, <1>10 DEF HealFails
  <2>3. QED
    BY <1>2, <1>10, <2>1, <2>2, ShapeOfKey DEF HealFails
<1>11. CASE Heal(key) \/ ProbeUnload(key) \/ EvictModel(key)
  <2>1. PICK again \in BOOLEAN : Unload(key, again)
    BY <1>11 DEF Heal, ProbeUnload, EvictModel
  <2>2. UNCHANGED <<limit, process, device, cap, faults, history>>
    BY <1>11 DEF Heal, ProbeUnload, EvictModel
  <2>3. [load[key] EXCEPT !.at = "drop", !.again = again] \in LoadState
    BY <1>1 DEF LoadState, Steps
  <2>4. load' = [load EXCEPT ![key] = [load[key] EXCEPT !.at = "drop", !.again = again]]
    BY <1>2, <2>1 DEF Unload
  <2>5. load' \in [Key -> LoadState]
    BY <1>2, <2>3, <2>4
  <2>6. promise' \in [Key -> 0 .. TooLarge]
    BY <1>2, <2>1, Sizes DEF Unload, Release
  <2>7. QED
    BY <1>2, <2>2, <2>5, <2>6, ShapeOfKey
<1>12. CASE Drop(key)
  <2>1. Dropped(key) \in LoadState
    BY Ends
  <2>2. /\ load' \in [Key -> LoadState] /\ cap' \in [Key -> 0 .. NoLimit]
        /\ device' \in [Key -> Devices] /\ cap'[key] = 0
    BY <1>2, <1>12, <2>1, Sizes DEF Drop, Devices
  <2>3. QED
    BY <1>2, <1>12, <2>2, ShapeOfKey DEF Drop
<1>13. CASE Store(key)
  <2>1. PICK l \in 0 .. NoLimit : limit' = [limit EXCEPT ![key[2]] = l]
    BY <1>13, Sizes DEF Store
  <2>2. /\ load' \in [Key -> LoadState] /\ limit' \in [Model -> 0 .. NoLimit]
        /\ todo' \in [Worker -> SUBSET Model]
    BY <1>1, <1>2, <1>13, <2>1 DEF Store
  <2>3. QED
    BY <1>2, <1>13, <2>2, ShapeOfKey DEF Store
<1>14. QED
  BY <1>3, <1>4, <1>5, <1>6, <1>7, <1>8, <1>9, <1>10, <1>11, <1>12, <1>13 DEF Load

\* What the end of processes leaves of their models, and of those of the others.
LEMMA Ended ==
    ASSUME ShapeInv, NEW ws \in SUBSET Worker, End(ws)
    PROVE  /\ proc' \in [Worker -> Processes] /\ cache' \in [Worker -> Caches]
           /\ todo' \in [Worker -> SUBSET Model] /\ broken' \subseteq Key
           /\ \A w \in Worker : IF w \in ws THEN proc'[w] = "down" /\ cache'[w] = "none"
                                            ELSE proc'[w] = proc[w] /\ cache'[w] = cache[w]
           /\ device' \in [Key -> Devices]
           /\ cap' \in [Key -> 0 .. NoLimit] /\ load' \in [Key -> LoadState]
           /\ \A key \in Key :
                 IF key[1] \in ws
                 THEN device'[key] = "none" /\ cap'[key] = 0 /\ load'[key] = NotLoading
                 ELSE /\ device'[key] = device[key] /\ cap'[key] = cap[key] /\ load'[key] = load[key]
                      /\ key \in broken' <=> key \in broken
<1>1. /\ proc' \in [Worker -> Processes] /\ cache' \in [Worker -> Caches]
      /\ \A w \in Worker : IF w \in ws THEN proc'[w] = "down" /\ cache'[w] = "none"
                                       ELSE proc'[w] = proc[w] /\ cache'[w] = cache[w]
  BY DEF End, ShapeInv, TypeOK, Processes, Caches
<1>2. todo' \in [Worker -> SUBSET Model]
  BY DEF End, ShapeInv, TypeOK
<1>3. /\ device' \in [Key -> Devices]
      /\ \A key \in Key : device'[key] = IF key[1] \in ws THEN "none" ELSE device[key]
  BY DEF End, ShapeInv, TypeOK, Devices
<1>4. /\ cap' \in [Key -> 0 .. NoLimit]
      /\ \A key \in Key : cap'[key] = IF key[1] \in ws THEN 0 ELSE cap[key]
  BY Sizes DEF End, ShapeInv
<1>5. /\ load' \in [Key -> LoadState]
      /\ \A key \in Key : load'[key] = IF key[1] \in ws THEN NotLoading ELSE load[key]
  BY AtRest DEF End, ShapeInv
<1>6. broken' \subseteq Key /\ \A key \in Key : key[1] \notin ws => (key \in broken' <=> key \in broken)
  BY DEF End, ShapeInv, TypeOK
<1>7. QED
  BY <1>1, <1>2, <1>3, <1>4, <1>5, <1>6

\* What a worker without a cache has, and the others.
LEMMA Lost ==
    ASSUME ShapeInv, NEW w \in Worker, Lose(w)
    PROVE  /\ proc[w] = "up" /\ cache[w] \in {"none", "probing"}
           /\ cache' = [cache EXCEPT ![w] = "lost"] /\ todo' = [todo EXCEPT ![w] = {}]
           /\ device' \in [Key -> Devices]
           /\ cap' \in [Key -> 0 .. NoLimit] /\ load' \in [Key -> LoadState]
           /\ \A key \in Key :
                 IF key[1] = w
                 THEN device'[key] = "none" /\ cap'[key] = 0 /\ load'[key] = NotLoading
                 ELSE device'[key] = device[key] /\ cap'[key] = cap[key] /\ load'[key] = load[key]
<1>1. /\ proc[w] = "up" /\ cache[w] \in {"none", "probing"}
      /\ cache' = [cache EXCEPT ![w] = "lost"] /\ todo' = [todo EXCEPT ![w] = {}]
  BY DEF Lose, Becomes
<1>2. /\ device' \in [Key -> Devices]
      /\ \A key \in Key : device'[key] = IF key[1] = w THEN "none" ELSE device[key]
  BY DEF Lose, ShapeInv, TypeOK, Devices
<1>3. /\ cap' \in [Key -> 0 .. NoLimit]
      /\ \A key \in Key : cap'[key] = IF key[1] = w THEN 0 ELSE cap[key]
  BY Sizes DEF Lose, ShapeInv
<1>4. /\ load' \in [Key -> LoadState]
      /\ \A key \in Key : load'[key] = IF key[1] = w THEN NotLoading ELSE load[key]
  BY AtRest DEF Lose, ShapeInv
<1>5. QED
  BY <1>1, <1>2, <1>3, <1>4

\* No promise is left to a worker that is released, those of the others stay.
LEMMA Released ==
    ASSUME ShapeInv, NEW w \in Worker
    PROVE  /\ Without(w) \in [Key -> 0 .. TooLarge]
           /\ \A key \in Key : Without(w)[key] = IF key[1] = w THEN 0 ELSE promise[key]
           /\ Promised(w) \subseteq Key
           /\ \A key \in Key : key \in Promised(w) <=> key[1] = w /\ promise[key] > 0
<1>1. /\ Without(w) \in [Key -> 0 .. TooLarge]
      /\ \A key \in Key : Without(w)[key] = IF key[1] = w THEN 0 ELSE promise[key]
  BY Sizes DEF Without, ShapeInv, TypeOK
<1>2. KeysOf(w) \subseteq Key /\ \A key \in Key : key \in KeysOf(w) <=> key[1] = w
  BY KeyParts DEF KeysOf, Key
<1>3. QED
  BY <1>1, <1>2 DEF Promised

\* Types after a step of a process or of the service, and of the files it handles.
LEMMA ShapeOfAll ==
    ASSUME ShapeInv, UNCHANGED overlapped,
           limit' \in [Model -> 0 .. NoLimit],
           promise' \in [Key -> 0 .. TooLarge], faults' \in 0 .. MaxFaults,
           proc' \in [Worker -> Processes], cache' \in [Worker -> Caches],
           todo' \in [Worker -> SUBSET Model], device' \in [Key -> Devices],
           cap' \in [Key -> 0 .. NoLimit], load' \in [Key -> LoadState],
           \A key \in Key : device'[key] # "gpu" => cap'[key] = 0,
           owed' \subseteq Worker, misjudged' \subseteq Worker, leaked' \subseteq Key, broken' \subseteq Key
    PROVE  ShapeInv'
<1>1. \A key \in Key : load'[key].at \in Steps /\ cap'[key] \in 0 .. NoLimit
  BY Moves
<1>2. TypeOK'
  BY <1>1 DEF ShapeInv, TypeOK, Steps, Processes, Caches, Devices
<1>3. QED
  BY <1>2 DEF ShapeInv

LEMMA StepShape ==
    ASSUME ShapeInv, PlaceInv, [Next]_vars
    PROVE  ShapeInv'
<1> USE DEF meta, process, models, history
<1>1. /\ proc \in [Worker -> Processes] /\ cache \in [Worker -> Caches]
      /\ todo \in [Worker -> SUBSET Model] /\ limit \in [Model -> 0 .. NoLimit]
      /\ promise \in [Key -> 0 .. TooLarge] /\ faults \in 0 .. MaxFaults
      /\ device \in [Key -> Devices] /\ cap \in [Key -> 0 .. NoLimit] /\ load \in [Key -> LoadState]
      /\ \A key \in Key : device[key] # "gpu" => cap[key] = 0
      /\ owed \subseteq Worker /\ misjudged \subseteq Worker /\ leaked \subseteq Key /\ broken \subseteq Key
  BY DEF ShapeInv, TypeOK, Processes, Caches, Devices
<1>2. Fault => faults' \in 0 .. MaxFaults
  BY FaultCount
<1>3. ASSUME NEW w \in Worker, Work(w) PROVE ShapeInv'
  <2>1. CASE Lose(w)
    <3>1. /\ faults' \in 0 .. MaxFaults /\ leaked' \subseteq Key
          /\ UNCHANGED <<limit, promise, proc, owed, overlapped, misjudged, broken>>
      BY <1>1, <1>2, <2>1, Released DEF Lose
    <3>2. /\ cache' \in [Worker -> Caches] /\ todo' \in [Worker -> SUBSET Model]
          /\ \A key \in Key : device'[key] # "gpu" => cap'[key] = 0
      BY <1>1, <2>1, Lost DEF Caches
    <3>3. QED
      BY <1>1, <2>1, <3>1, <3>2, Lost, ShapeOfAll
  <2>2. CASE ~Lose(w)
    <3>1. PICK is \in Caches : cache' = [cache EXCEPT ![w] = is]
      BY <1>3, <2>2 DEF Work, Wake, Probed, Warmed, TakeFile, Done, Evict, Evicted, Becomes, Caches
    <3>2. cache' \in [Worker -> Caches]
      BY <1>1, <3>1
    <3>3. /\ todo' \in [Worker -> SUBSET Model] /\ broken' \subseteq Key
          /\ UNCHANGED <<limit, promise, proc, owed, device, cap, load, faults, overlapped, misjudged, leaked>>
      BY <1>1, <1>3, <2>2 DEF Work, Wake, Probed, Warmed, TakeFile, Done, Evict, Evicted
    <3>4. QED
      BY <1>1, <3>2, <3>3, ShapeOfAll
  <2>3. QED
    BY <2>1, <2>2
<1>4. ASSUME NEW w \in Worker, Exited(w) \/ Die(w) PROVE ShapeInv'
  <2>1. /\ End({w}) /\ owed' \subseteq Worker /\ faults' \in 0 .. MaxFaults /\ {w} \in SUBSET Worker
        /\ UNCHANGED <<limit, promise, overlapped, misjudged, leaked>>
    BY <1>1, <1>2, <1>4 DEF Exited, Die
  <2>2. \A key \in Key : device'[key] # "gpu" => cap'[key] = 0
    BY <1>1, <2>1, Ended
  <2>3. QED
    BY <1>1, <2>1, <2>2, Ended, ShapeOfAll
<1>5. ASSUME NEW w \in Worker, Start(w) \/ Exit(w) \/ Reap(w) \/ Misjudge(w) PROVE ShapeInv'
  <2>1. UNCHANGED <<limit, cache, todo, device, cap, load, overlapped, broken>>
    BY <1>5 DEF Start, Exit, Reap, Misjudge
  <2>2. promise' \in [Key -> 0 .. TooLarge] /\ faults' \in 0 .. MaxFaults
    BY <1>1, <1>2, <1>5, Released DEF Start, Exit, Reap, Misjudge
  <2>3. proc' \in [Worker -> Processes]
    BY <1>1, <1>5 DEF Start, Exit, Reap, Misjudge, Processes
  <2>4. owed' \subseteq Worker /\ misjudged' \subseteq Worker /\ leaked' \subseteq Key
    BY <1>1, <1>5, Released DEF Start, Exit, Reap, Misjudge
  <2>5. QED
    BY <1>1, <2>1, <2>2, <2>3, <2>4, ShapeOfAll
<1>6. CASE Crash
  <2>1. \A w \in Worker : Promised(w) \subseteq Key
    BY Released
  <2>2. /\ End(Worker) /\ owed' = {} /\ leaked' \subseteq Key /\ faults' \in 0 .. MaxFaults
        /\ Worker \in SUBSET Worker /\ UNCHANGED <<limit, promise, overlapped, misjudged>>
    BY <1>1, <1>2, <1>6, <2>1 DEF Crash
  <2>3. \A key \in Key : device'[key] # "gpu" => cap'[key] = 0
    BY <2>2, Ended, KeyParts
  <2>4. QED
    BY <1>1, <2>2, <2>3, Ended, ShapeOfAll
<1>7. ASSUME NEW m \in Model, Forget(m) PROVE ShapeInv'
  <2>1. limit' \in [Model -> 0 .. NoLimit] /\ faults' \in 0 .. MaxFaults
    BY <1>1, <1>2, <1>7, Sizes DEF Forget
  <2>2. QED
    BY <1>1, <1>7, <2>1, ShapeOfAll DEF Forget
<1>8. CASE UNCHANGED vars
  BY <1>1, <1>8, ShapeOfAll DEF vars
<1>9. QED
  BY <1>3, <1>4, <1>5, <1>6, <1>7, <1>8, LoadShape DEF Next, Life
-----------------------------------------------------------------------------
(* Sessions, processes and loads. *)

LEMMA InitPlace == Init => PlaceInv
BY KeyParts, AtRest DEF Init, PlaceInv, KeyPlaced

LEMMA LoadPlace ==
    ASSUME ShapeInv, PlaceInv, NEW key \in Key, Load(key)
    PROVE  PlaceInv'
<1>1. /\ key[1] \in Worker /\ load \in [Key -> LoadState] /\ load[key] \in LoadState
      /\ device \in [Key -> Devices] /\ KeyPlaced(key) /\ proc[key[1]] = "up" /\ proc' = proc
  BY KeyParts, LoadsUp, Elsewhere DEF ShapeInv, TypeOK, Devices, PlaceInv
<1>2. SUFFICES /\ load'[key].at \in {"read", "check", "insert", "create"} => device'[key] = "none"
               /\ load'[key].at = "heal" => device'[key] = "gpu"
               /\ load'[key].at = "drop" => device'[key] # "none"
  <2>1. KeyPlaced(key)'
    BY <1>1, <1>2 DEF KeyPlaced
  <2>2. \A other \in Key \ {key} : KeyPlaced(other)'
    BY Elsewhere DEF PlaceInv, KeyPlaced
  <2>3. /\ \A w \in Worker : proc'[w] = "down" => cache'[w] = "none"
        /\ \A w \in owed' : proc'[w] = "down"
    BY Elsewhere DEF PlaceInv
  <2>4. QED
    BY <2>1, <2>2, <2>3 DEF PlaceInv
<1> USE DEF KeyPlaced, meta, process, models, history
<1>3. CASE Warm(key) \/ ProbeLoad(key)
  <2>1. device[key] = "none" /\ device' = device
    BY <1>1, <1>3, QuietKeys DEF Warm, ProbeLoad
  <2>2. load'[key].at = "read"
    BY <1>1, <1>3 DEF Warm, ProbeLoad, LoadState
  <2>3. QED
    BY <2>1, <2>2
<1>4. CASE Read(key)
  <2>1. load'[key].at = "check" /\ device'[key] = "none"
    BY <1>1, <1>4 DEF Read, LoadState
  <2>2. QED
    BY <2>1
<1>5. CASE Check(key)
  <2>1. device[key] = "none"
    BY <1>1, <1>5 DEF Check
  <2>2. CASE Rejected(key)
    <3>1. load'[key].at \in {"none", "measured", "failed"}
      BY <1>1, <2>2, Ends, AtRest DEF Rejected
    <3>2. QED
      BY <3>1
  <2>3. CASE ~Rejected(key)
    <3>1. load' = [load EXCEPT ![key].at = "insert"] /\ device' = device
      BY <1>5, <2>3 DEF Check
    <3>2. load'[key].at = "insert"
      BY <1>1, <3>1 DEF LoadState
    <3>3. QED
      BY <2>1, <3>1, <3>2
  <2>4. QED
    BY <2>2, <2>3
<1>6. CASE Insert(key)
  <2>1. load'[key].at = "create" /\ device'[key] = "none"
    BY <1>1, <1>6, Moves DEF Insert, Steps
  <2>2. QED
    BY <2>1
<1>7. CASE Create(key) \/ LoadFails(key) \/ HealFails(key) \/ Store(key)
  <2>1. load'[key].at \in {"none", "measured", "failed"}
    BY <1>1, <1>7, AtRest, Ends DEF Create, LoadFails, HealFails, Store
  <2>2. QED
    BY <2>1
<1>8. CASE RaiseLimit(key)
  <2>1. load'[key].at = "heal" /\ device'[key] = "gpu"
    BY <1>1, <1>8, Moves DEF RaiseLimit, Steps
  <2>2. QED
    BY <2>1
<1>9. CASE Heal(key) \/ ProbeUnload(key) \/ EvictModel(key)
  <2>1. load'[key].at = "drop"
    BY <1>1, <1>9 DEF Heal, ProbeUnload, EvictModel, Unload, LoadState
  <2>2. device'[key] # "none"
    BY <1>1, <1>9 DEF Heal, ProbeUnload, EvictModel
  <2>3. QED
    BY <2>1, <2>2
<1>10. CASE Drop(key)
  <2>1. load'[key].at \in {"none", "read", "measured"} /\ device'[key] = "none"
    BY <1>1, <1>10, Ends DEF Drop
  <2>2. QED
    BY <2>1
<1>11. QED
  BY <1>3, <1>4, <1>5, <1>6, <1>7, <1>8, <1>9, <1>10 DEF Load

LEMMA StepPlace ==
    ASSUME ShapeInv, PlaceInv, [Next]_vars
    PROVE  PlaceInv'
<1>1. /\ proc \in [Worker -> Processes] /\ cache \in [Worker -> Caches]
      /\ owed \subseteq Worker
      /\ \A key \in Key : key[1] \in Worker
  BY KeyParts DEF ShapeInv, TypeOK, Processes, Caches
<1> USE DEF meta, process, models, history
<1>2. ASSUME NEW w \in Worker, Work(w) PROVE PlaceInv'
  <2>1. /\ proc[w] = "up" /\ UNCHANGED <<proc, owed>>
        /\ \A v \in Worker \ {w} : cache'[v] = cache[v]
    BY <1>1, <1>2 DEF Work, Wake, Probed, Lose, Warmed, TakeFile, Done, Evict, Evicted, Becomes
  <2>2. CASE Lose(w)
    BY <1>1, <2>1, <2>2, Lost, AtRest DEF PlaceInv, KeyPlaced
  <2>3. CASE ~Lose(w)
    <3>1. UNCHANGED <<device, load>>
      BY <1>2, <2>3 DEF Work, Wake, Probed, Warmed, TakeFile, Done, Evict, Evicted
    <3>2. QED
      BY <2>1, <3>1 DEF PlaceInv, KeyPlaced
  <2>4. QED
    BY <2>2, <2>3
<1>3. ASSUME NEW w \in Worker, Start(w) PROVE PlaceInv'
  <2>1. /\ proc[w] = "down" /\ w \notin owed /\ proc'[w] = "up"
        /\ \A v \in Worker \ {w} : proc'[v] = proc[v]
        /\ UNCHANGED <<cache, owed, device, load>>
    BY <1>1, <1>3 DEF Start
  <2>2. QED
    BY <1>1, <2>1 DEF PlaceInv, KeyPlaced
<1>4. ASSUME NEW w \in Worker, Exit(w) PROVE PlaceInv'
  <2>1. /\ proc[w] = "up" /\ proc'[w] = "exiting"
        /\ \A v \in Worker \ {w} : proc'[v] = proc[v]
        /\ UNCHANGED <<cache, owed, device, load>>
    BY <1>1, <1>4 DEF Exit
  <2>2. \A key \in Key : key[1] = w => load[key] = NotLoading
    BY <1>4, QuietKeys DEF Exit
  <2>3. QED
    BY <1>1, <2>1, <2>2 DEF PlaceInv, KeyPlaced
<1>5. ASSUME NEW w \in Worker, Exited(w) \/ Die(w) PROVE PlaceInv'
  <2>1. End({w}) /\ owed' = owed \cup {w} /\ {w} \in SUBSET Worker
    BY <1>5 DEF Exited, Die
  <2>2. QED
    BY <1>1, <2>1, Ended, AtRest DEF PlaceInv, KeyPlaced
<1>6. ASSUME NEW w \in Worker, Reap(w) \/ Misjudge(w) PROVE PlaceInv'
  <2>1. UNCHANGED <<proc, cache, device, load>> /\ owed' \subseteq owed
    BY <1>6 DEF Reap, Misjudge
  <2>2. QED
    BY <2>1 DEF PlaceInv, KeyPlaced
<1>7. CASE Crash
  BY <1>7, Ended, AtRest, KeyParts DEF Crash, PlaceInv, KeyPlaced
<1>8. CASE UNCHANGED vars \/ \E m \in Model : Forget(m)
  BY <1>8 DEF vars, Forget, PlaceInv, KeyPlaced
<1>9. QED
  BY <1>2, <1>3, <1>4, <1>5, <1>6, <1>7, <1>8, LoadPlace DEF Next, Life

\* Types, for any workers, models, measurements and failures.
THEOREM TypeCorrect == Spec => []TypeOK
<1>1. Init => ShapeInv /\ PlaceInv
  BY InitShape, InitPlace
<1>2. ShapeInv /\ PlaceInv /\ [Next]_vars => ShapeInv' /\ PlaceInv'
  BY StepShape, StepPlace
<1>3. ShapeInv => TypeOK
  BY DEF ShapeInv
<1>4. QED
  BY <1>1, <1>2, <1>3, PTL DEF Spec
-----------------------------------------------------------------------------
(* Promises. *)

LEMMA InitPromise == Init => PromiseInv
BY AtRest DEF Init, PromiseInv, KeyPromised, Stays

LEMMA LoadPromise ==
    ASSUME ShapeInv, PlaceInv, PromiseInv, NEW key \in Key, Load(key)
    PROVE  PromiseInv'
<1>1. /\ key[1] \in Worker /\ load \in [Key -> LoadState] /\ load[key] \in LoadState
      /\ device \in [Key -> Devices] /\ promise \in [Key -> 0 .. TooLarge]
      /\ cap \in [Key -> 0 .. NoLimit]
      /\ KeyPromised(key) /\ KeyPlaced(key)
  BY KeyParts DEF ShapeInv, TypeOK, Devices, PromiseInv, PlaceInv
<1>2. UNCHANGED <<proc, owed, misjudged>>
  BY Elsewhere
<1>3. SUFFICES KeyPromised(key)'
  BY <1>2, <1>3, Elsewhere DEF PromiseInv, KeyPromised, Stays
<1> USE DEF KeyPromised, Stays, KeyPlaced, meta, process, models, history
<1>4. CASE Warm(key) \/ ProbeLoad(key) \/ Read(key)
  <2>1. device[key] = "none" /\ load[key].at # "create" /\ UNCHANGED <<device, promise, leaked>>
    BY <1>1, <1>4, QuietKeys, AtRest DEF Warm, ProbeLoad, Read
  <2>2. load'[key].at \in {"read", "check"}
    BY <1>1, <1>4 DEF Warm, ProbeLoad, Read, LoadState
  <2>3. QED
    BY <1>1, <1>2, <2>1, <2>2
<1>5. CASE Check(key)
  <2>1. /\ device[key] = "none" /\ load[key].at = "check" /\ UNCHANGED <<promise, leaked>>
    BY <1>1, <1>5 DEF Check
  <2>2. device'[key] # "gpu" /\ load'[key].at \in {"none", "insert", "measured", "failed"}
    <3>1. CASE Rejected(key)
      BY <1>1, <2>1, <3>1, AtRest, Ends DEF Rejected
    <3>2. CASE ~Rejected(key)
      <4>1. load' = [load EXCEPT ![key].at = "insert"] /\ device' = device
        BY <1>5, <3>2 DEF Check
      <4>2. QED
        BY <1>1, <2>1, <4>1 DEF LoadState
    <3>3. QED
      BY <3>1, <3>2
  <2>3. QED
    BY <1>1, <1>2, <2>1, <2>2
<1>6. CASE Insert(key)
  <2>1. load'[key].at = "create" /\ load'[key].amount = load[key].amount
    BY <1>1, <1>6 DEF Insert, LoadState
  <2>2. promise'[key] = Need(load[key].amount) /\ device'[key] = "none"
    BY <1>1, <1>6 DEF Insert
  <2>3. QED
    BY <2>1, <2>2
<1>7. CASE Create(key)
  <2>1. /\ load[key].at = "create" /\ load'[key].at = "none" /\ device'[key] = "gpu"
        /\ cap'[key] = load[key].amount /\ promise' = promise
    BY <1>1, <1>7, AtRest DEF Create
  <2>2. QED
    BY <1>1, <1>2, <2>1
<1>8. CASE LoadFails(key)
  <2>1. /\ device[key] = "none" /\ UNCHANGED <<device, promise>> /\ leaked \subseteq leaked'
        /\ load[key].at = "create" => key \in leaked'
    BY <1>1, <1>8 DEF LoadFails
  <2>2. load'[key].at \in {"none", "measured", "failed"}
    BY <1>1, <1>8, Ends DEF LoadFails
  <2>3. QED
    BY <1>1, <1>2, <2>1, <2>2
<1>9. CASE RaiseLimit(key) \/ HealFails(key)
  <2>1. /\ load[key].at \in {"none", "heal"} /\ device[key] = "gpu"
        /\ UNCHANGED <<device, cap, promise, leaked>>
    BY <1>1, <1>9, AtRest DEF RaiseLimit, HealFails
  <2>2. load'[key].at \in {"none", "heal"}
    BY <1>1, <1>9, AtRest DEF RaiseLimit, HealFails, LoadState
  <2>3. QED
    BY <1>1, <1>2, <2>1, <2>2
<1>10. CASE Heal(key) \/ ProbeUnload(key) \/ EvictModel(key)
  <2>1. PICK again \in BOOLEAN : Unload(key, again)
    BY <1>10 DEF Heal, ProbeUnload, EvictModel
  <2>2. UNCHANGED <<device, cap, leaked>> /\ device[key] # "none"
    BY <1>1, <1>10 DEF Heal, ProbeUnload, EvictModel
  <2>3. load'[key].at = "drop"
    BY <1>1, <2>1 DEF Unload, LoadState
  <2>4. promise'[key] = IF device[key] = "gpu" THEN 0 ELSE promise[key]
    BY <1>1, <2>1 DEF Unload, Release
  <2>5. load[key].at # "create"
    BY <1>1, <2>2
  <2>6. QED
    BY <1>1, <1>2, <2>2, <2>3, <2>4, <2>5
<1>11. CASE Drop(key)
  <2>1. /\ load[key].at = "drop" /\ device'[key] = "none" /\ UNCHANGED <<promise, leaked>>
        /\ load'[key].at \in {"none", "read", "measured"}
    BY <1>1, <1>11, Ends DEF Drop
  <2>2. QED
    BY <1>1, <1>2, <2>1
<1>12. CASE Store(key)
  <2>1. /\ load[key].at \in {"measured", "failed"} /\ load'[key].at = "none"
        /\ UNCHANGED <<device, cap, promise, leaked>>
    BY <1>1, <1>12, AtRest DEF Store
  <2>2. QED
    BY <1>1, <1>2, <2>1
<1>13. QED
  BY <1>4, <1>5, <1>6, <1>7, <1>8, <1>9, <1>10, <1>11, <1>12 DEF Load

LEMMA LifePromise ==
    ASSUME ShapeInv, PlaceInv, PromiseInv, NEW w \in Worker, Work(w) \/ Life(w)
    PROVE  PromiseInv'
<1>1. /\ promise \in [Key -> 0 .. TooLarge] /\ proc \in [Worker -> Processes]
      /\ owed \subseteq Worker
      /\ \A key \in Key : key[1] \in Worker /\ (key \in KeysOf(w) <=> key[1] = w)
      /\ \A key \in Key : KeyPromised(key) /\ KeyPlaced(key)
      /\ \A key \in Key : Without(w)[key] = IF key[1] = w THEN 0 ELSE promise[key]
      /\ \A key \in Key : key \in Promised(w) <=> key[1] = w /\ promise[key] > 0
  BY KeyParts, Released DEF ShapeInv, TypeOK, Processes, PromiseInv, PlaceInv
<1> USE DEF meta, process, models, history
<1>2. CASE Work(w) /\ ~Lose(w)
  <2>1. UNCHANGED <<promise, proc, owed, device, cap, load, misjudged, leaked>>
    BY <1>2 DEF Work, Wake, Probed, Warmed, TakeFile, Done, Evict, Evicted
  <2>2. QED
    BY <2>1 DEF PromiseInv, KeyPromised, Stays
<1>3. CASE Lose(w)
  <2>1. UNCHANGED <<promise, proc, owed, misjudged>> /\ leaked' = leaked \cup Promised(w)
    BY <1>3 DEF Lose
  <2>2. ASSUME NEW key \in Key PROVE KeyPromised(key)'
    <3>1. CASE key[1] = w
      BY <1>1, <1>3, <2>1, <3>1, Lost, AtRest DEF KeyPromised, Stays
    <3>2. CASE key[1] # w
      BY <1>1, <1>3, <2>1, <3>2, Lost DEF KeyPromised, Stays
    <3>3. QED
      BY <3>1, <3>2
  <2>3. QED
    BY <2>2 DEF PromiseInv
<1>4. CASE Start(w)
  <2>1. /\ proc[w] = "down" /\ UNCHANGED <<owed, device, cap, load>>
        /\ \A v \in Worker \ {w} : proc'[v] = proc[v] /\ (v \in misjudged' <=> v \in misjudged)
        /\ \A key \in Key : key[1] # w => promise'[key] = promise[key] /\ (key \in leaked' <=> key \in leaked)
        /\ \A key \in Key : key[1] = w => \/ promise'[key] = 0
                                          \/ promise'[key] = promise[key] /\ leaked' = leaked
    BY <1>1, <1>4 DEF Start
  <2>2. \A key \in Key : key[1] = w => device[key] = "none" /\ load[key] = NotLoading
    BY <1>1, <2>1 DEF KeyPlaced
  <2>3. ASSUME NEW key \in Key PROVE KeyPromised(key)'
    <3>1. CASE key[1] = w
      BY <1>1, <2>1, <2>2, <3>1, AtRest DEF KeyPromised, Stays
    <3>2. CASE key[1] # w
      BY <1>1, <2>1, <3>2 DEF KeyPromised, Stays
    <3>3. QED
      BY <3>1, <3>2
  <2>4. QED
    BY <2>3 DEF PromiseInv
<1>5. CASE Exit(w)
  <2>1. /\ proc'[w] = "exiting" /\ UNCHANGED <<owed, device, cap, load, misjudged, leaked>>
        /\ \A v \in Worker \ {w} : proc'[v] = proc[v]
        /\ \A key \in Key : IF key[1] = w THEN promise'[key] \in {0, promise[key]}
                                          ELSE promise'[key] = promise[key]
    BY <1>1, <1>5 DEF Exit
  <2>2. \A key \in Key : key[1] = w => load[key] = NotLoading
    BY <1>5, QuietKeys DEF Exit
  <2>3. ASSUME NEW key \in Key PROVE KeyPromised(key)'
    <3>1. CASE key[1] = w
      BY <1>1, <2>1, <2>2, <3>1, AtRest DEF KeyPromised, Stays
    <3>2. CASE key[1] # w
      BY <1>1, <2>1, <3>2 DEF KeyPromised, Stays
    <3>3. QED
      BY <3>1, <3>2
  <2>4. QED
    BY <2>3 DEF PromiseInv
<1>6. CASE Exited(w) \/ Die(w)
  <2>1. /\ End({w}) /\ owed' = owed \cup {w} /\ {w} \in SUBSET Worker
        /\ UNCHANGED <<promise, misjudged, leaked>>
    BY <1>6 DEF Exited, Die
  <2>2. ASSUME NEW key \in Key PROVE KeyPromised(key)'
    <3>1. CASE key[1] = w
      BY <2>1, <3>1, Ended, AtRest DEF KeyPromised, Stays
    <3>2. CASE key[1] # w
      BY <1>1, <2>1, <3>2, Ended DEF KeyPromised, Stays
    <3>3. QED
      BY <3>1, <3>2
  <2>3. QED
    BY <2>2 DEF PromiseInv
<1>7. CASE Reap(w)
  <2>1. /\ proc[w] = "down" /\ UNCHANGED <<proc, device, cap, load, misjudged>>
        /\ \A v \in Worker \ {w} : v \in owed' <=> v \in owed
        /\ \A key \in Key : key[1] # w => promise'[key] = promise[key] /\ (key \in leaked' <=> key \in leaked)
        /\ \A key \in Key : key[1] = w => \/ promise'[key] = 0
                                          \/ promise'[key] = promise[key] /\ (promise[key] > 0 => key \in leaked')
    BY <1>1, <1>7 DEF Reap, PlaceInv
  <2>2. \A key \in Key : key[1] = w => device[key] = "none" /\ load[key] = NotLoading
    BY <1>1, <2>1 DEF KeyPlaced
  <2>3. ASSUME NEW key \in Key PROVE KeyPromised(key)'
    <3>1. CASE key[1] = w
      BY <1>1, <2>1, <2>2, <3>1, AtRest DEF KeyPromised, Stays
    <3>2. CASE key[1] # w
      BY <1>1, <2>1, <3>2 DEF KeyPromised, Stays
    <3>3. QED
      BY <3>1, <3>2
  <2>4. QED
    BY <2>3 DEF PromiseInv
<1>8. CASE Misjudge(w)
  <2>1. /\ UNCHANGED <<proc, owed, device, cap, load, leaked>> /\ misjudged' = misjudged \cup {w}
        /\ \A key \in Key : promise'[key] = IF key[1] = w THEN 0 ELSE promise[key]
    BY <1>1, <1>8 DEF Misjudge
  <2>2. ASSUME NEW key \in Key PROVE KeyPromised(key)'
    <3>1. CASE key[1] = w
      BY <2>1, <3>1 DEF KeyPromised, Stays
    <3>2. CASE key[1] # w
      BY <1>1, <2>1, <3>2 DEF KeyPromised, Stays
    <3>3. QED
      BY <3>1, <3>2
  <2>3. QED
    BY <2>2 DEF PromiseInv
<1>9. QED
  BY <1>2, <1>3, <1>4, <1>5, <1>6, <1>7, <1>8 DEF Life

LEMMA CrashPromise ==
    ASSUME ShapeInv, PromiseInv, Crash
    PROVE  PromiseInv'
<1>1. /\ End(Worker) /\ UNCHANGED <<promise, misjudged>>
      /\ leaked' = leaked \cup UNION {Promised(w) : w \in Worker}
  BY DEF Crash, meta
<1>2. ASSUME NEW key \in Key PROVE KeyPromised(key)'
  <2>1. promise[key] > 0 => key \in leaked'
    BY <1>1, KeyParts DEF Promised
  <2>2. device'[key] = "none" /\ load'[key].at = "none"
    BY <1>1, Ended, AtRest, KeyParts
  <2>3. QED
    BY <1>1, <2>1, <2>2 DEF KeyPromised, Stays
<1>3. QED
  BY <1>2 DEF PromiseInv

LEMMA StepPromise ==
    ASSUME ShapeInv, PlaceInv, PromiseInv, [Next]_vars
    PROVE  PromiseInv'
<1>1. CASE UNCHANGED vars \/ \E m \in Model : Forget(m)
  <2>1. UNCHANGED <<promise, proc, owed, device, cap, load, misjudged, leaked>>
    BY <1>1 DEF vars, Forget, process, models, history
  <2>2. QED
    BY <2>1 DEF PromiseInv, KeyPromised, Stays
<1>2. QED
  BY <1>1, LoadPromise, LifePromise, CrashPromise DEF Next

\* A session runs with what is promised for it, or without a limit on a promise of
\* nothing, whatever is measured, raised or cleared meanwhile, while nobody takes its
\* worker for dead.
THEOREM SessionsArePromised == Spec => []SessionPromised
<1>1. Init => ShapeInv /\ PlaceInv /\ PromiseInv
  BY InitShape, InitPlace, InitPromise
<1>2. ShapeInv /\ PlaceInv /\ PromiseInv /\ [Next]_vars => ShapeInv' /\ PlaceInv' /\ PromiseInv'
  BY StepShape, StepPlace, StepPromise
<1>3. PromiseInv => SessionPromised
  BY DEF PromiseInv, KeyPromised, SessionPromised
<1>4. QED
  BY <1>1, <1>2, <1>3, PTL DEF Spec

\* Only the failures that are recorded leave a promise without a session.
THEOREM PromisesAreUsed == Spec => []PromiseUsed
<1>1. Init => ShapeInv /\ PlaceInv /\ PromiseInv
  BY InitShape, InitPlace, InitPromise
<1>2. ShapeInv /\ PlaceInv /\ PromiseInv /\ [Next]_vars => ShapeInv' /\ PlaceInv' /\ PromiseInv'
  BY StepShape, StepPlace, StepPromise
<1>3. PromiseInv => PromiseUsed
  BY DEF PromiseInv, KeyPromised, PromiseUsed
<1>4. QED
  BY <1>1, <1>2, <1>3, PTL DEF Spec
-----------------------------------------------------------------------------
(* Models of a file that is processed. *)

LEMMA InitLoaded == Init => LoadedInv
BY KeyParts, AtRest DEF Init, LoadedInv, KeyLoaded

LEMMA LoadLoaded ==
    ASSUME ShapeInv, PlaceInv, LoadedInv, NEW key \in Key, Load(key)
    PROVE  LoadedInv'
<1>1. /\ key[1] \in Worker /\ load \in [Key -> LoadState] /\ load[key] \in LoadState
      /\ device \in [Key -> Devices] /\ cache \in [Worker -> Caches]
      /\ KeyLoaded(key) /\ KeyPlaced(key)
      /\ cache'[key[1]] = cache[key[1]] \/ (cache[key[1]] = "warming" /\ cache'[key[1]] = "ready")
  BY KeyParts, Elsewhere DEF ShapeInv, TypeOK, Devices, Caches, LoadedInv, PlaceInv
<1>2. SUFFICES KeyLoaded(key)'
  <2>1. ASSUME NEW other \in Key \ {key} PROVE KeyLoaded(other)'
    <3>1. /\ other[1] \in Worker /\ KeyLoaded(other)
          /\ cache'[other[1]] = cache[other[1]] \/ (cache[other[1]] = "warming" /\ cache'[other[1]] = "ready")
      BY KeyParts, Elsewhere DEF LoadedInv
    <3>2. /\ load'[other] = load[other] /\ device'[other] = device[other]
          /\ other \in broken' <=> other \in broken
      BY Elsewhere
    <3>3. QED
      BY <3>1, <3>2 DEF KeyLoaded
  <2>2. QED
    BY <1>2, <2>1 DEF LoadedInv
<1> USE DEF KeyLoaded, KeyPlaced, meta, process, models, history
<1>3. CASE Warm(key) \/ ProbeLoad(key) \/ Read(key)
  <2>1. load'[key].at \in {"read", "check"}
    BY <1>1, <1>3 DEF Warm, ProbeLoad, Read, LoadState
  <2>2. QED
    BY <2>1
<1>4. CASE Check(key)
  <2>1. CASE Rejected(key)
    <3>1. load'[key].at \in {"none", "measured", "failed"} /\ (cache[key[1]] = "use" => device'[key] = "cpu")
      BY <1>1, <2>1, AtRest, Ends DEF Rejected
    <3>2. QED
      BY <1>1, <3>1
  <2>2. CASE ~Rejected(key)
    <3>1. load' = [load EXCEPT ![key].at = "insert"]
      BY <1>4, <2>2 DEF Check
    <3>2. load'[key].at = "insert"
      BY <1>1, <3>1 DEF LoadState
    <3>3. QED
      BY <3>2
  <2>3. QED
    BY <2>1, <2>2
<1>5. CASE Insert(key)
  <2>1. load'[key].at = "create"
    BY <1>1, <1>5 DEF Insert, LoadState
  <2>2. QED
    BY <2>1
<1>6. CASE Create(key)
  <2>1. load'[key].at = "none" /\ device'[key] = "gpu"
    BY <1>1, <1>6, AtRest DEF Create
  <2>2. QED
    BY <2>1
<1>7. CASE LoadFails(key)
  <2>1. load'[key].at \in {"none", "measured", "failed"} /\ (cache[key[1]] = "use" => key \in broken')
    BY <1>1, <1>7, Ends DEF LoadFails
  <2>2. QED
    BY <1>1, <2>1
<1>8. CASE RaiseLimit(key) \/ HealFails(key)
  <2>1. load'[key].at \in {"none", "heal"} /\ device'[key] = "gpu"
    BY <1>1, <1>8, AtRest DEF RaiseLimit, HealFails, LoadState
  <2>2. QED
    BY <2>1
<1>9. CASE Heal(key) \/ ProbeUnload(key) \/ EvictModel(key)
  <2>1. PICK again \in BOOLEAN : /\ Unload(key, again)
                                 /\ again \/ cache[key[1]] \in {"probing", "evicting"}
    BY <1>9 DEF Heal, ProbeUnload, EvictModel
  <2>2. load'[key].at = "drop" /\ load'[key].again = again
    BY <1>1, <2>1 DEF Unload, LoadState
  <2>3. device'[key] # "none" /\ cache' = cache
    BY <1>1, <1>9 DEF Heal, ProbeUnload, EvictModel
  <2>4. QED
    BY <2>1, <2>2, <2>3
<1>10. CASE Drop(key)
  <2>1. load'[key].at \in {"none", "read", "measured"} /\ (load[key].again => load'[key].at = "read")
    BY <1>1, <1>10, Ends DEF Drop
  <2>2. load[key].at = "drop"
    BY <1>10 DEF Drop
  <2>3. QED
    BY <1>1, <2>1, <2>2
<1>11. CASE Store(key)
  <2>1. /\ load[key].at \in {"measured", "failed"} /\ load'[key].at = "none"
        /\ UNCHANGED <<device, cache, broken>>
    BY <1>1, <1>11, AtRest DEF Store
  <2>2. QED
    BY <1>1, <2>1
<1>12. QED
  BY <1>3, <1>4, <1>5, <1>6, <1>7, <1>8, <1>9, <1>10, <1>11 DEF Load

\* A file is taken with all sessions there; no session is going when a worker
\* turns to something else.
LEMMA WorkLoaded ==
    ASSUME ShapeInv, PlaceInv, LoadedInv, NEW w \in Worker, Work(w)
    PROVE  LoadedInv'
<1>1. /\ cache \in [Worker -> Caches]
      /\ \A key \in Key : key[1] \in Worker /\ (key \in KeysOf(w) <=> key[1] = w)
      /\ \A key \in Key : KeyLoaded(key)
  BY KeyParts DEF ShapeInv, TypeOK, Caches, LoadedInv
<1>2. /\ \A v \in Worker \ {w} : cache'[v] = cache[v]
      /\ \A key \in Key : key[1] # w => (key \in broken' <=> key \in broken)
  BY <1>1 DEF Work, Wake, Probed, Lose, Warmed, TakeFile, Done, Evict, Evicted, Becomes, history
<1>3. SUFFICES ASSUME NEW key \in Key
               PROVE  /\ key[1] # w => load'[key] = load[key] /\ device'[key] = device[key]
                      /\ key[1] = w => KeyLoaded(key)'
  BY <1>1, <1>2, <1>3 DEF LoadedInv, KeyLoaded
<1> USE DEF KeyLoaded, Becomes, models, history
<1>4. CASE Lose(w)
  <2>1. key[1] = w => cache'[w] = "lost" /\ load'[key].at = "none"
    BY <1>1, <1>4, Lost, AtRest
  <2>2. QED
    BY <1>4, <2>1, Lost
<1>5. CASE Probed(w) \/ Warmed(w) \/ Done(w) \/ Evicted(w)
  <2>1. load' = load /\ device' = device /\ cache'[w] # "use" /\ Quiet(w)
    BY <1>1, <1>5 DEF Probed, Warmed, Done, Evicted
  <2>2. key[1] = w => load[key].at = "none"
    BY <2>1, QuietKeys, AtRest
  <2>3. QED
    BY <2>1, <2>2
<1>6. CASE Wake(w) \/ Evict(w)
  <2>1. /\ load' = load /\ device' = device /\ cache'[w] # "use"
        /\ cache[w] \in {"none", "ready"}
    BY <1>1, <1>6 DEF Wake, Evict
  <2>2. QED
    BY <1>1, <2>1
<1>7. CASE TakeFile(w)
  <2>1. /\ load' = load /\ device' = device /\ cache[w] = "ready"
        /\ cache'[w] = "use" => HasSessions(w)
    BY <1>1, <1>7 DEF TakeFile
  <2>2. key[1] = w => (cache'[w] = "use" => device[key] # "none")
    BY <2>1, QuietKeys
  <2>3. QED
    BY <1>1, <2>1, <2>2
<1>8. QED
  BY <1>4, <1>5, <1>6, <1>7 DEF Work

LEMMA StepLoaded ==
    ASSUME ShapeInv, PlaceInv, LoadedInv, [Next]_vars
    PROVE  LoadedInv'
<1>1. ASSUME NEW w \in Worker, Exited(w) \/ Die(w) PROVE LoadedInv'
  <2>1. End({w}) /\ {w} \in SUBSET Worker
    BY <1>1 DEF Exited, Die
  <2>2. QED
    BY <2>1, Ended, KeyParts, AtRest DEF LoadedInv, KeyLoaded
<1>2. ASSUME NEW w \in Worker, Start(w) \/ Exit(w) \/ Reap(w) \/ Misjudge(w) PROVE LoadedInv'
  <2>1. UNCHANGED <<cache, device, load, broken>>
    BY <1>2 DEF Start, Exit, Reap, Misjudge, process, models, history
  <2>2. QED
    BY <2>1 DEF LoadedInv, KeyLoaded
<1>3. CASE Crash
  BY <1>3, Ended, KeyParts, AtRest DEF Crash, LoadedInv, KeyLoaded
<1>4. CASE UNCHANGED vars \/ \E m \in Model : Forget(m)
  BY <1>4 DEF vars, Forget, LoadedInv, KeyLoaded, process, models, history
<1>5. QED
  BY <1>1, <1>2, <1>3, <1>4, LoadLoaded, WorkLoaded DEF Next, Life

\* While a file is processed each of its models has a session or is loaded anew, but
\* for those whose new session failed in that file: neither measurements that change
\* and memory that runs short nor what failed before leave a model without one.
THEOREM FilesHaveModels == Spec => []ModelsLoaded
<1>1. Init => ShapeInv /\ PlaceInv /\ LoadedInv
  BY InitShape, InitPlace, InitLoaded
<1>2. ShapeInv /\ PlaceInv /\ LoadedInv /\ [Next]_vars => ShapeInv' /\ PlaceInv' /\ LoadedInv'
  BY StepShape, StepPlace, StepLoaded
<1>3. LoadedInv => ModelsLoaded
  BY DEF LoadedInv, KeyLoaded, ModelsLoaded
<1>4. QED
  BY <1>1, <1>2, <1>3, PTL DEF Spec
-----------------------------------------------------------------------------
(* Sums.  A sum is the number of units that are added up: what is known of  *)
(* finite sets then says how it changes.                                   *)

Amounts == [Key -> 0 .. TooLarge]

\* What f gives to keys, unit by unit.
Units(f, keys) == {unit \in Key \X (1 .. TooLarge) : unit[1] \in keys /\ unit[2] <= f[unit[1]]}

LEMMA UnitsFinite ==
    ASSUME NEW f, NEW keys
    PROVE  IsFiniteSet(Key) /\ IsFiniteSet(Units(f, keys)) /\ Cardinality(Units(f, keys)) \in Nat
<1>1. IsFiniteSet(Key)
  BY VramAssumption, FS_Product DEF Key
<1>2. IsFiniteSet(Key \X (1 .. TooLarge))
  <2>1. 1 \in Int /\ TooLarge \in Int
    BY Sizes
  <2>2. IsFiniteSet(1 .. TooLarge)
    BY <2>1, FS_Interval
  <2>3. QED
    BY <1>1, <2>2, FS_Product
<1>3. Units(f, keys) \subseteq Key \X (1 .. TooLarge)
  BY DEF Units
<1>4. QED
  BY <1>1, <1>2, <1>3, FS_Subset, FS_CardinalityType

\* The units of one key, and those of the others.
LEMMA UnitsOfOne ==
    ASSUME NEW f \in Amounts, NEW keys \in SUBSET Key, NEW key \in keys
    PROVE  Cardinality(Units(f, keys)) = f[key] + Cardinality(Units(f, keys \ {key}))
<1> DEFINE own    == {key} \X (1 .. f[key])
           others == Units(f, keys \ {key})
<1>1. f[key] \in 0 .. TooLarge /\ f[key] \in Nat /\ key \in Key
  BY Sizes DEF Amounts
<1>2. Units(f, keys) = own \cup others
  BY <1>1, Sizes DEF Units
<1>3. own \cap others = {}
  BY DEF Units
<1>4. IsFiniteSet(own) /\ Cardinality(own) = f[key]
  <2>1. IsFiniteSet(1 .. f[key]) /\ Cardinality(1 .. f[key]) = f[key]
    BY SMTT(30), <1>1, FS_Interval
  <2>2. IsFiniteSet({key}) /\ Cardinality({key}) = 1
    BY FS_Singleton
  <2>3. IsFiniteSet(own) /\ Cardinality(own) = 1 * f[key]
    BY ZenonT(60), <2>1, <2>2, FS_Product
  <2>4. QED
    BY <1>1, <2>3
<1>5. IsFiniteSet(others) /\ Cardinality(others) \in Nat
  BY UnitsFinite
<1>6. Cardinality(own \cup others) = Cardinality(own) + Cardinality(others) - 0
  <2> HIDE DEF own, others
  <2>1. Cardinality(own \cap others) = 0
    BY <1>3, FS_EmptySet
  <2>2. QED
    BY <1>4, <1>5, <2>1, FS_Union
<1> HIDE DEF own
<1>7. QED
  BY <1>1, <1>2, <1>4, <1>5, <1>6

\* The function that a sum evaluates: one key after the other is taken.
Adds(f, keys, fold) ==
    fold = [s \in SUBSET keys |->
              IF s = {} THEN 0
              ELSE f[CHOOSE x \in s : TRUE] + fold[s \ {CHOOSE x \in s : TRUE}]]

LEMMA SumFolds ==
    ASSUME NEW f, NEW keys
    PROVE  Sum(f, keys) = (CHOOSE fold : Adds(f, keys, fold))[keys]
BY DEF Sum, MapThenSumSet, MapThenFoldSet, Adds

\* There is such a function: the one that counts the units.
LEMMA FoldExists ==
    ASSUME NEW f \in Amounts, NEW keys \in SUBSET Key
    PROVE  \E fold : Adds(f, keys, fold)
<1> DEFINE count == [s \in SUBSET keys |-> Cardinality(Units(f, s))]
<1>1. ASSUME NEW s \in SUBSET keys
      PROVE  Cardinality(Units(f, s)) =
                 IF s = {} THEN 0
                 ELSE f[CHOOSE x \in s : TRUE] + count[s \ {CHOOSE x \in s : TRUE}]
  <2>1. CASE s = {}
    <3>1. Units(f, s) = {}
      BY <2>1 DEF Units
    <3>2. QED
      BY <2>1, <3>1, FS_EmptySet
  <2>2. CASE s # {}
    <3>1. PICK x : x = CHOOSE y \in s : TRUE
      OBVIOUS
    <3>2. x \in s
      BY <2>2, <3>1
    <3>3. s \in SUBSET Key /\ s \ {x} \in SUBSET keys
      OBVIOUS
    <3>4. Cardinality(Units(f, s)) = f[x] + Cardinality(Units(f, s \ {x}))
      BY <3>2, <3>3, UnitsOfOne
    <3>5. QED
      BY <2>2, <3>1, <3>3, <3>4
  <2>3. QED
    BY <2>1, <2>2
<1>2. Adds(f, keys, count)
  BY <1>1 DEF Adds
<1>3. QED
  BY <1>2

\* And no other: where one that is least differed, it would not add a key.
LEMMA FoldCounts ==
    ASSUME NEW f \in Amounts, NEW keys \in SUBSET Key, NEW fold, Adds(f, keys, fold)
    PROVE  \A s \in SUBSET keys : fold[s] = Cardinality(Units(f, s))
<1> DEFINE wrong == {s \in SUBSET keys : fold[s] # Cardinality(Units(f, s))}
<1>1. SUFFICES ASSUME wrong # {} PROVE FALSE
  OBVIOUS
<1>2. IsFiniteSet(keys)
  BY UnitsFinite, FS_Subset
<1>3. IsWellFoundedOn(StrictSubsetOrdering(keys), SUBSET keys)
  BY <1>2, FS_StrictSubsetOrderingWellFounded, FS_FiniteSubsetsOfFinite
<1>4. PICK s \in wrong : \A t \in wrong : <<t, s>> \notin StrictSubsetOrdering(keys)
  <2> HIDE DEF wrong
  <2>1. wrong \subseteq SUBSET keys
    BY DEF wrong
  <2>2. QED
    BY <1>1, <1>3, <2>1, WFMin
<1>5. fold[s] = IF s = {} THEN 0
                ELSE f[CHOOSE x \in s : TRUE] + fold[s \ {CHOOSE x \in s : TRUE}]
  BY <1>4 DEF Adds
<1>6. CASE s = {}
  <2>1. Units(f, s) = {}
    BY <1>6 DEF Units
  <2>2. QED
    BY <1>4, <1>5, <1>6, <2>1, FS_EmptySet
<1>7. CASE s # {}
  <2>1. PICK x : x = CHOOSE y \in s : TRUE
    OBVIOUS
  <2>2. x \in s
    BY <1>7, <2>1
  <2>3. <<s \ {x}, s>> \in StrictSubsetOrdering(keys)
    BY <1>4, <2>2 DEF StrictSubsetOrdering
  <2>4. fold[s \ {x}] = Cardinality(Units(f, s \ {x}))
    BY <1>4, <2>3
  <2>5. Cardinality(Units(f, s)) = f[x] + Cardinality(Units(f, s \ {x}))
    BY <1>4, <2>2, UnitsOfOne
  <2>6. QED
    BY <1>4, <1>5, <1>7, <2>1, <2>4, <2>5
<1>8. QED
  BY <1>6, <1>7

LEMMA SumIsUnits ==
    ASSUME NEW f \in Amounts, NEW keys \in SUBSET Key
    PROVE  Sum(f, keys) = Cardinality(Units(f, keys)) /\ Sum(f, keys) \in Nat
<1>1. Adds(f, keys, CHOOSE fold : Adds(f, keys, fold))
  BY FoldExists
<1>2. (CHOOSE fold : Adds(f, keys, fold))[keys] = Cardinality(Units(f, keys))
  BY <1>1, FoldCounts
<1>3. QED
  BY <1>2, SumFolds, UnitsFinite

\* Of more keys, and of more for each, the sum is no less.
LEMMA SumGrows ==
    ASSUME NEW f \in Amounts, NEW g \in Amounts,
           NEW keys \in SUBSET Key, NEW more \in SUBSET Key, keys \subseteq more,
           \A key \in keys : f[key] <= g[key]
    PROVE  Sum(f, keys) <= Sum(g, more)
<1>1. Units(f, keys) \subseteq Units(g, more)
  BY Sizes DEF Units, Amounts
<1>2. Cardinality(Units(f, keys)) <= Cardinality(Units(g, more))
  BY <1>1, UnitsFinite, FS_Subset
<1>3. QED
  BY <1>2, SumIsUnits

\* A new amount for one key adds that amount to the sum at most.
LEMMA SumOfNew ==
    ASSUME NEW f \in Amounts, NEW key \in Key, NEW amount \in 0 .. TooLarge
    PROVE  Sum([f EXCEPT ![key] = amount], Key) <= Sum(f, Key) + amount
<1> DEFINE g == [f EXCEPT ![key] = amount]
<1>1. g \in Amounts /\ g[key] = amount
  BY DEF Amounts
<1>2. Units(g, Key \ {key}) \subseteq Units(f, Key)
  BY DEF Units, Amounts
<1>3. Cardinality(Units(g, Key \ {key})) <= Cardinality(Units(f, Key))
  BY <1>2, UnitsFinite, FS_Subset
<1>4. Cardinality(Units(g, Key)) = amount + Cardinality(Units(g, Key \ {key}))
  <2> HIDE DEF g
  <2>1. Key \in SUBSET Key
    OBVIOUS
  <2>2. QED
    BY <1>1, <2>1, UnitsOfOne
<1>5. amount \in Nat
  BY Sizes
<1> HIDE DEF g
<1>6. Sum(g, Key) <= Sum(f, Key) + amount
  BY <1>1, <1>3, <1>4, <1>5, SumIsUnits, UnitsFinite
<1>7. QED
  BY <1>6 DEF g
-----------------------------------------------------------------------------
(* What is promised fits, with what is about to be. *)

LEMMA InitRoom == Init => RoomInv
<1>1. SUFFICES ASSUME Init PROVE RoomInv
  OBVIOUS
<1>2. promise \in Amounts /\ \A key \in Key : promise[key] = 0 /\ load[key].at = "none"
  BY <1>1, AtRest, Sizes DEF Init, Amounts
<1>3. Units(promise, Key) = {}
  BY <1>2 DEF Units
<1>4. Sum(promise, Key) = 0
  BY <1>2, <1>3, SumIsUnits, FS_EmptySet
<1>5. QED
  BY <1>2, <1>4, Sizes DEF RoomInv

\* Room is kept by every step that promises nothing, and after which no load is
\* past its check that was not before.
LEMMA RoomKept ==
    ASSUME ShapeInv, RoomInv, ShapeInv', overlapped' = overlapped,
           \A key \in Key : promise'[key] <= promise[key],
           \A key \in Key : load'[key].at = "insert" =>
               load[key].at = "insert" /\ load'[key].amount = load[key].amount
    PROVE  RoomInv'
<1>1. SUFFICES ASSUME ~overlapped
               PROVE  /\ Sum(promise', Key) <= Total
                      /\ \A key \in Key : load'[key].at = "insert" =>
                             Sum(promise', Key) + Need(load'[key].amount) <= Total
  BY DEF RoomInv
<1>2. promise \in Amounts /\ promise' \in Amounts
  BY DEF ShapeInv, TypeOK, Amounts
<1>3. Sum(promise', Key) <= Sum(promise, Key)
  BY <1>2, SumGrows
<1>4. Sum(promise, Key) \in Nat /\ Sum(promise', Key) \in Nat /\ Total \in Nat
  BY <1>2, SumIsUnits, Sizes
<1>5. \A key \in Key : Need(load'[key].amount) \in Nat
  BY Sizes DEF ShapeInv, LoadState
<1>6. Sum(promise, Key) <= Total
  BY <1>1 DEF RoomInv
<1>7. ASSUME NEW key \in Key, load'[key].at = "insert"
      PROVE  Sum(promise', Key) + Need(load'[key].amount) <= Total
  <2>1. Sum(promise, Key) + Need(load'[key].amount) <= Total
    BY <1>1, <1>7 DEF RoomInv
  <2>2. QED
    BY <1>3, <1>4, <1>5, <2>1
<1>8. QED
  BY <1>3, <1>4, <1>6, <1>7

\* What fits when it is checked is what RoomInv asks of a load that is to insert.
LEMMA CheckRoom ==
    ASSUME ShapeInv, RoomInv, ShapeInv', NEW key \in Key, Check(key)
    PROVE  RoomInv'
<1>1. load \in [Key -> LoadState] /\ promise \in Amounts /\ UNCHANGED <<promise, overlapped>>
  BY DEF ShapeInv, TypeOK, Amounts, Check, meta, history
<1>2. \A other \in Key \ {key} : load'[other] = load[other]
  BY Elsewhere DEF Load
<1>3. PICK used \in 0 .. Total + 1 :
         IF Fits(key, used) THEN load' = [load EXCEPT ![key].at = "insert"] /\ UNCHANGED device
         ELSE Rejected(key)
  BY DEF Check
<1>4. CASE Fits(key, used)
  <2>1. load'[key].at = "insert" /\ load'[key].amount = load[key].amount
    BY <1>1, <1>3, <1>4 DEF LoadState
  <2>2. used \in Nat /\ Need(load[key].amount) \in Nat /\ Sum(promise, Key) \in Nat
    BY <1>1, SumIsUnits, Sizes DEF LoadState
  <2>3. Sum(promise, Key) + Need(load[key].amount) <= Total
    BY <1>4, <2>2, Sizes DEF Fits
  <2>4. QED
    BY <1>1, <1>2, <2>1, <2>3 DEF RoomInv
<1>5. CASE ~Fits(key, used)
  <2>1. load'[key].at # "insert"
    BY <1>1, <1>3, <1>5, AtRest, Ends DEF Rejected
  <2>2. \A other \in Key : promise'[other] <= promise[other]
    BY <1>1, Sizes DEF Amounts
  <2>3. QED
    BY <1>1, <1>2, <2>1, <2>2, RoomKept
<1>6. QED
  BY <1>4, <1>5

\* Who inserts while no other is to insert has the room it checked for.
LEMMA InsertRoom ==
    ASSUME ShapeInv, RoomInv, NEW key \in Key, Insert(key)
    PROVE  RoomInv'
<1>1. load \in [Key -> LoadState] /\ promise \in Amounts /\ load[key].at = "insert"
  BY DEF ShapeInv, TypeOK, Amounts, Insert
<1>2. SUFFICES ASSUME ~overlapped'
               PROVE  /\ Sum(promise', Key) <= Total
                      /\ \A other \in Key : load'[other].at # "insert"
  BY DEF RoomInv
<1>3. ~overlapped /\ \A other \in Key \ {key} : load[other].at # "insert"
  BY <1>2 DEF Insert, ShapeInv, TypeOK
<1> DEFINE amount == Need(load[key].amount)
<1>4. amount \in 0 .. TooLarge /\ amount \in Nat /\ Sum(promise, Key) \in Nat
  BY <1>1, SumIsUnits, Sizes DEF LoadState
<1>5. Sum(promise, Key) + amount <= Total
  BY <1>1, <1>3 DEF RoomInv
<1>6. promise' = [promise EXCEPT ![key] = amount]
  BY DEF Insert
<1> HIDE DEF amount
<1>7. promise' \in Amounts /\ Sum(promise', Key) <= Sum(promise, Key) + amount
  BY <1>1, <1>4, <1>6, SumOfNew DEF Amounts
<1>8. Sum(promise', Key) <= Total
  BY <1>4, <1>5, <1>7, SumIsUnits, Sizes
<1>9. \A other \in Key : load'[other].at # "insert"
  BY <1>1, <1>3 DEF Insert, LoadState
<1>10. QED
  BY <1>8, <1>9

LEMMA LoadRoom ==
    ASSUME ShapeInv, PlaceInv, RoomInv, ShapeInv', NEW key \in Key, Load(key)
    PROVE  RoomInv'
<1>1. CASE Check(key)
  BY <1>1, CheckRoom
<1>2. CASE Insert(key)
  BY <1>2, InsertRoom
<1>3. CASE ~Check(key) /\ ~Insert(key)
  <2>1. load \in [Key -> LoadState] /\ promise \in Amounts /\ promise[key] \in Nat
    BY Sizes DEF ShapeInv, TypeOK, Amounts
  <2>2. overlapped' = overlapped /\ promise'[key] \in {0, promise[key]} /\ load'[key].at # "insert"
    <3> USE DEF meta, history
    <3>1. CASE Warm(key) \/ ProbeLoad(key) \/ Read(key) \/ RaiseLimit(key)
      <4>1. load'[key].at \in {"read", "check", "heal"}
        BY <2>1, <3>1 DEF Warm, ProbeLoad, Read, RaiseLimit, LoadState
      <4>2. QED
        BY <3>1, <4>1 DEF Warm, ProbeLoad, Read, RaiseLimit
    <3>2. CASE Create(key) \/ LoadFails(key) \/ HealFails(key) \/ Drop(key) \/ Store(key)
      <4>1. load'[key] \in {NotLoading, Failed(key), Dropped(key)}
        BY <2>1, <3>2 DEF Create, LoadFails, HealFails, Drop, Store
      <4>2. load'[key].at # "insert"
        BY <4>1, AtRest, Ends
      <4>3. QED
        BY <3>2, <4>2 DEF Create, LoadFails, HealFails, Drop, Store
    <3>3. CASE Heal(key) \/ ProbeUnload(key) \/ EvictModel(key)
      <4>1. PICK again \in BOOLEAN : Unload(key, again)
        BY <3>3 DEF Heal, ProbeUnload, EvictModel
      <4>2. load'[key].at = "drop"
        BY <2>1, <4>1 DEF Unload, LoadState
      <4>3. promise'[key] \in {0, promise[key]}
        BY <2>1, <4>1 DEF Unload, Release, Amounts
      <4>4. QED
        BY <3>3, <4>2, <4>3 DEF Heal, ProbeUnload, EvictModel
    <3>4. QED
      BY <1>3, <3>1, <3>2, <3>3 DEF Load
  <2>3. \A other \in Key : promise'[other] <= promise[other]
    BY <2>1, <2>2, Elsewhere, Sizes DEF Amounts
  <2>4. \A other \in Key : load'[other].at = "insert" => load'[other] = load[other]
    BY <2>2, Elsewhere
  <2>5. QED
    BY <2>2, <2>3, <2>4, RoomKept
<1>4. QED
  BY <1>1, <1>2, <1>3

\* Processes, and who ends them, only release.
LEMMA StepRoom ==
    ASSUME ShapeInv, PlaceInv, RoomInv, ShapeInv', [Next]_vars
    PROVE  RoomInv'
<1>1. promise \in Amounts /\ \A key \in Key : promise[key] \in Nat
  BY Sizes DEF ShapeInv, TypeOK, Amounts
<1> USE DEF meta, process, models, history
<1>2. ASSUME NEW w \in Worker, Work(w) PROVE RoomInv'
  <2>1. UNCHANGED <<promise, overlapped>>
    BY <1>2 DEF Work, Wake, Probed, Lose, Warmed, TakeFile, Done, Evict, Evicted
  <2>2. load' = load \/ Lose(w)
    BY <1>2 DEF Work, Wake, Probed, Warmed, TakeFile, Done, Evict, Evicted
  <2>3. \A key \in Key : load'[key].at = "insert" => load'[key] = load[key]
    BY <2>2, Lost, AtRest
  <2>4. QED
    BY <1>1, <2>1, <2>3, RoomKept
<1>3. ASSUME NEW w \in Worker, Life(w) PROVE RoomInv'
  <2>1. \A key \in Key : Without(w)[key] <= promise[key]
    BY <1>1, Released
  <2>2. overlapped' = overlapped /\ promise' \in {promise, Without(w)}
    BY <1>3 DEF Life, Start, Exit, Exited, Die, Reap, Misjudge
  <2>3. \A key \in Key : promise'[key] <= promise[key]
    BY <1>1, <2>1, <2>2
  <2>4. load' = load \/ End({w})
    BY <1>3 DEF Life, Start, Exit, Exited, Die, Reap, Misjudge
  <2>5. \A key \in Key : load'[key].at = "insert" => load'[key] = load[key]
    BY <2>4, Ended, AtRest
  <2>6. QED
    BY <2>2, <2>3, <2>5, RoomKept
<1>4. CASE Crash
  <2>1. \A key \in Key : load'[key].at # "insert"
    BY <1>4, Ended, KeyParts, AtRest DEF Crash
  <2>2. QED
    BY <1>1, <1>4, <2>1, RoomKept DEF Crash
<1>5. CASE UNCHANGED vars \/ \E m \in Model : Forget(m)
  BY <1>1, <1>5, RoomKept DEF vars, Forget
<1>6. QED
  BY <1>2, <1>3, <1>4, <1>5, LoadRoom DEF Next

\* While no two loads checked before either inserted, and nobody was taken for dead
\* that lives, the limits of all sessions that stay fit on the GPU together, those
\* aside that got none because their model was not measured: each is covered by its
\* promise, and no promise is made that does not fit.
THEOREM MemoryIsEnough == Spec => []NoOvercommit
<1>1. Init => ShapeInv /\ PlaceInv /\ PromiseInv /\ RoomInv
  BY InitShape, InitPlace, InitPromise, InitRoom
<1>2. ShapeInv /\ PlaceInv /\ PromiseInv /\ RoomInv /\ [Next]_vars
          => ShapeInv' /\ PlaceInv' /\ PromiseInv' /\ RoomInv'
  BY StepShape, StepPlace, StepPromise, StepRoom
<1>3. ShapeInv /\ PromiseInv /\ RoomInv => NoOvercommit
  <2> DEFINE need    == [key \in Key |-> Need(cap[key])]
             staying == {key \in Key : Stays(key)}
  <2>1. SUFFICES ASSUME ShapeInv, PromiseInv, RoomInv, ~overlapped, misjudged = {}
                 PROVE  Sum(need, staying) <= Total
    BY DEF NoOvercommit
  <2>2. promise \in Amounts /\ need \in Amounts
    BY <2>1, Sizes DEF ShapeInv, TypeOK, Amounts
  <2>3. \A key \in staying : promise[key] = need[key]
    BY <2>1 DEF PromiseInv, KeyPromised
  <2>4. staying \in SUBSET Key /\ \A key \in staying : need[key] <= promise[key]
    BY <2>2, <2>3, Sizes DEF Amounts
  <2> HIDE DEF need, staying
  <2>5. Sum(need, staying) <= Sum(promise, Key)
    BY <2>2, <2>4, SumGrows
  <2>6. Sum(promise, Key) <= Total
    BY <2>1 DEF RoomInv
  <2>7. Sum(promise, Key) \in Nat /\ Sum(need, staying) \in Nat /\ Total \in Nat
    BY <2>2, <2>4, SumIsUnits, Sizes
  <2>8. QED
    BY <2>5, <2>6, <2>7
<1>4. QED
  BY <1>1, <1>2, <1>3, PTL DEF Spec
=============================================================================
