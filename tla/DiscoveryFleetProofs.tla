------------------------ MODULE DiscoveryFleetProofs ------------------------
(***************************************************************************)
(* What holds of DiscoveryFleet for any number of workers, copies, files   *)
(* and faults.                                                             *)
(*                                                                         *)
(* Invariants, each inductive together with the ones before it:            *)
(*  - TypeInv: types, and when a process has a file in its hands;          *)
(*  - ResultsInv: what is tagged has its results, and what is about to be  *)
(*    tagged as well;                                                      *)
(*  - ClaimInv, if deaths are judged rightly: one process runs for each    *)
(*    worker id, its two threads act under claims of that id and never on  *)
(*    the same file;                                                       *)
(*  - TagFirst: a write thread past "tag" is at a file that is tagged.     *)
(*                                                                         *)
(* From all of them, the fleet implements FileWork.                        *)
(***************************************************************************)
EXTENDS DiscoveryFleet, TLAPS

\* The steps of an iteration that have a file, and those that hold its claim.
Holding == {"headroom", "process", "done", "skip", "skipped", "error", "release"}
Busy    == Holding \cup {"claim"}
Writing == {"store", "tag", "extract", "error", "release"}

\* A process has a file in its hands exactly at the steps that work on one.
FileInHand ==
    \A p \in Proc :
        /\ pc[p] \in Busy => file[p] \in File
        /\ pc[p] \notin Busy => file[p] = NoFile
        /\ write[p].at \in Writing => write[p].file \in File
        /\ write[p].at \notin Writing => write[p].file = NoFile
        /\ pc[p] = "gone" => write[p] = Quiet

\* A loop that goes on has not yet seen too many errors.
ErrorsBelow == \A p \in Proc : pc[p] \notin {"release", "leave"} => errors[p] < MaxErrors

TypeInv == TypeOK /\ FileInHand /\ ErrorsBelow

-----------------------------------------------------------------------------
(* Types.                                                                  *)

\* The first copy of each worker exists.
LEMMA FirstCopy == \A w \in Worker : [worker |-> w, copy |-> 1] \in Proc
  BY FleetAssumption DEF Worker, Proc

\* A fleet that was just started is well typed.
LEMMA InitType == Init => TypeInv
<1> SUFFICES ASSUME Init PROVE TypeInv
  OBVIOUS
<1>1. TypeOK
  <2>1. /\ current \in [Worker -> Proc \cup {NoProc}]
        /\ phase \in [Worker -> {"live", "dead", "restarting", "down"}]
    BY FirstCopy DEF Init
  <2>2. /\ errors \in [Proc -> 0..MaxErrors]
        /\ faults \in 0..MaxFaults
    BY FleetAssumption DEF Init
  <2>3. write \in [Proc -> [at : {"none", "store", "tag", "extract", "error", "release"},
                            file : File \cup {NoFile}]]
    BY DEF Init, Quiet
  <2>4. QED
    BY <2>1, <2>2, <2>3 DEF Init, TypeOK
<1>2. FileInHand
  BY DEF Init, FileInHand, Busy, Holding, Writing, Quiet
<1>3. ErrorsBelow
  BY FleetAssumption DEF Init, ErrorsBelow
<1>4. QED
  BY <1>1, <1>2, <1>3 DEF TypeInv

\* A claim belongs to a worker or to nobody, whatever releases it.
LEMMA ReleaseType ==
    ASSUME TypeOK, NEW f, ReleaseClaim(f)
    PROVE  claim' \in [File -> Worker \cup {NoWorker}]
  BY DEF TypeOK, ReleaseClaim

\* The budget of faults is never overdrawn.
LEMMA FaultType ==
    ASSUME TypeOK, Fault \/ UNCHANGED faults
    PROVE  faults' \in 0..MaxFaults
  BY FleetAssumption DEF TypeOK, Fault

\* A release that may fail is one or the other.
LEMMA GiveBackType ==
    ASSUME TypeOK, NEW f, GiveBack(f)
    PROVE  /\ claim' \in [File -> Worker \cup {NoWorker}]
           /\ faults' \in 0..MaxFaults
<1>1. CASE ReleaseClaim(f) /\ UNCHANGED faults
  BY <1>1, ReleaseType, FaultType
<1>2. CASE Fault /\ UNCHANGED claim
  BY <1>2, FaultType DEF TypeOK
<1>3. QED
  BY <1>1, <1>2 DEF GiveBack

Step == Busy \cup {"gone", "poll", "leave"}

\* The loop goes to another step, with its file or without.
Moves(p, at) ==
    /\ pc' = [pc EXCEPT ![p] = at]
    /\ \/ at \in Busy /\ pc[p] \in Busy /\ file' = file
       \/ at \in {"poll", "leave"} /\ file' = [file EXCEPT ![p] = NoFile]

\* What most steps of the loop have in common: it moves on, a claim comes or
\* goes, the states of the files stay.
LEMMA MoveType ==
    ASSUME TypeInv, NEW p \in Proc, NEW at \in Step, Moves(p, at),
           claim' \in [File -> Worker \cup {NoWorker}],
           faults' \in 0..MaxFaults,
           errors' = errors \/ errors' = [errors EXCEPT ![p] = 0],
           at \in {"release", "leave"} \/ errors'[p] < MaxErrors,
           UNCHANGED <<states, write, parent>>
    PROVE  TypeInv'
<1>1. /\ pc' \in [Proc -> Step]
      /\ file' \in [Proc -> File \cup {NoFile}]
  BY DEF Moves, TypeInv, TypeOK, Step, Busy, Holding
<1>2. errors' \in [Proc -> 0..MaxErrors]
  BY FleetAssumption DEF TypeInv, TypeOK
<1>3. TypeOK'
  BY <1>1, <1>2 DEF TypeInv, TypeOK, states, parent, Step, Busy, Holding
<1>4. FileInHand'
  BY DEF Moves, TypeInv, TypeOK, FileInHand, Step, Busy, Holding, NoFile
<1>5. ErrorsBelow'
  BY DEF Moves, TypeInv, TypeOK, ErrorsBelow
<1>6. QED
  BY <1>3, <1>4, <1>5 DEF TypeInv

\* The main loop of a process preserves the types.
LEMMA LoopType ==
    ASSUME TypeInv, NEW p \in Proc, MainLoop(p)
    PROVE  TypeInv'
<1>0. TypeOK /\ (pc[p] \notin {"release", "leave"} => errors[p] < MaxErrors)
  BY DEF TypeInv, ErrorsBelow
<1>1. CASE Discover(p)
  BY <1>1 DEF Discover, TypeInv, TypeOK, FileInHand, ErrorsBelow, Busy, Holding, Goto,
              states, parent
<1>2. CASE Claim(p)
  <2>1. claim' \in [File -> Worker \cup {NoWorker}]
    BY <1>0, <1>2 DEF Claim, TryClaim, TypeOK, Proc
  <2>2. Moves(p, "headroom") \/ Moves(p, "poll")
    BY <1>2 DEF Claim, Moves, Goto, Busy, Holding
  <2>3. UNCHANGED <<errors, states, write, parent>> /\ faults' \in 0..MaxFaults
    BY <1>0, <1>2 DEF Claim, TypeOK
  <2>4. errors'[p] < MaxErrors
    BY <1>0, <1>2, <2>3 DEF Claim
  <2>5. QED
    BY <2>1, <2>2, <2>3, <2>4, MoveType DEF Step, Busy, Holding
<1>3. CASE PollFails(p)
  <2>1. Moves(p, "leave") /\ UNCHANGED <<claim, errors, states, write, parent>>
    BY <1>3 DEF PollFails, Moves, Goto
  <2>2. QED
    BY <1>0, <1>3, <2>1, MoveType, FaultType DEF PollFails, TypeOK, Step
<1>4. CASE Exhausted(p)
  <2>1. Moves(p, "poll") \/ Moves(p, "leave")
    BY <1>4 DEF Exhausted, Moves, Goto
  <2>2. claim' \in [File -> Worker \cup {NoWorker}]
    BY <1>0, <1>4, ReleaseType DEF Exhausted, TypeOK
  <2>3. UNCHANGED <<errors, states, write, parent>> /\ errors'[p] < MaxErrors
    BY <1>0, <1>4 DEF Exhausted
  <2>4. faults' \in 0..MaxFaults
    BY <1>0, <1>4, FaultType DEF Exhausted
  <2>5. QED
    BY <2>1, <2>2, <2>3, <2>4, MoveType DEF Step
<1>5. CASE Headroom(p)
  <2>1. Moves(p, "process") \/ Moves(p, "poll") \/ Moves(p, "error")
    BY <1>5 DEF Headroom, Moves, Goto, Busy, Holding
  <2>2. claim' \in [File -> Worker \cup {NoWorker}]
    BY <1>0, <1>5, GiveBackType DEF Headroom, TypeOK
  <2>3. UNCHANGED <<errors, states, write, parent>> /\ errors'[p] < MaxErrors
    BY <1>0, <1>5 DEF Headroom
  <2>4. faults' \in 0..MaxFaults
    BY <1>0, <1>5, FaultType, GiveBackType DEF Headroom
  <2>5. QED
    BY <2>1, <2>2, <2>3, <2>4, MoveType DEF Step, Busy, Holding
<1>6. CASE Process(p)
  BY ZenonT(60), <1>6 DEF Process, TypeInv, TypeOK, FileInHand, ErrorsBelow, Busy, Holding, Goto,
              states, parent
<1>7. CASE Submit(p)
  BY <1>7, FleetAssumption DEF Submit, TypeInv, TypeOK, FileInHand, ErrorsBelow, Busy, Holding,
              Writing, Goto, Quiet, NoFile, states, parent
<1>8. CASE Skip(p)
  BY ZenonT(60), <1>8, FaultType DEF Skip, TypeInv, TypeOK, FileInHand, ErrorsBelow, Busy, Holding, Goto,
              Quiet, parent
<1>9. CASE Skipped(p)
  <2>1. Moves(p, "poll")
    BY <1>9 DEF Skipped, Moves, Goto
  <2>2. claim' \in [File -> Worker \cup {NoWorker}] /\ faults' \in 0..MaxFaults
    BY <1>0, <1>9, GiveBackType DEF Skipped
  <2>3. /\ UNCHANGED <<states, write, parent>>
        /\ errors' = [errors EXCEPT ![p] = 0]
    BY <1>9 DEF Skipped
  <2>4. errors'[p] < MaxErrors
    BY <1>0, <2>3, FleetAssumption DEF TypeOK
  <2>5. QED
    BY <2>1, <2>2, <2>3, <2>4, MoveType DEF Step
<1>10. CASE Error(p)
  <2>1. errors[p] < MaxErrors /\ file[p] \in File
    BY <1>0, <1>10 DEF Error, TypeInv, FileInHand, Busy, Holding
  <2>2. errors' \in [Proc -> 0..MaxErrors]
    BY <1>0, <1>10, <2>1, FleetAssumption DEF Error, TypeOK
  <2>3. TypeOK'
    BY <1>0, <1>10, <2>1, <2>2, FaultType DEF Error, TypeOK, Goto, parent
  <2>4. FileInHand' /\ ErrorsBelow'
    BY <1>10 DEF Error, TypeInv, TypeOK, FileInHand, ErrorsBelow, Busy, Holding, Goto
  <2>5. QED
    BY <2>3, <2>4 DEF TypeInv
<1>11. CASE Release(p)
  <2>1. \/ Moves(p, "poll") /\ errors[p] < MaxErrors
        \/ Moves(p, "leave")
    <3>1. errors[p] >= MaxErrors \/ errors[p] < MaxErrors
      BY <1>0, FleetAssumption DEF TypeOK
    <3>2. Moves(p, IF errors[p] >= MaxErrors THEN "leave" ELSE "poll")
      BY <1>11 DEF Release, Moves, Goto
    <3>3. QED
      BY <3>1, <3>2
  <2>2. claim' \in [File -> Worker \cup {NoWorker}] /\ faults' \in 0..MaxFaults
    BY <1>0, <1>11, GiveBackType DEF Release
  <2>3. UNCHANGED <<errors, states, write, parent>>
    BY <1>11 DEF Release
  <2>4. QED
    BY <2>1, <2>2, <2>3, MoveType DEF Step
<1>12. CASE Leave(p)
  BY <1>12, FleetAssumption DEF Leave, Vanish, TypeInv, TypeOK, FileInHand, ErrorsBelow, Busy,
              Holding, Writing, Goto, Quiet, NoFile, states, parent
<1>13. QED
  BY <1>1, <1>2, <1>3, <1>4, <1>5, <1>6, <1>7, <1>8, <1>9, <1>10, <1>11, <1>12
     DEF MainLoop

\* So do its write thread,
LEMMA WriteType ==
    ASSUME TypeInv, NEW p \in Proc, DbWrite(p)
    PROVE  TypeInv'
<1> USE FleetAssumption DEF TypeInv, FileInHand, ErrorsBelow, Writing, Quiet, Fault, states, loop,
        parent, NoFile, WriteGoto
<1>1. CASE WriteFails(p)
  BY <1>1 DEF WriteFails, TypeOK
<1>2. CASE WriteStore(p)
  BY <1>2 DEF WriteStore, TypeOK
<1>3. CASE WriteTag(p)
  BY <1>3 DEF WriteTag, TypeOK
<1>4. CASE WriteExtracted(p)
  BY <1>4 DEF WriteExtracted, TypeOK
<1>5. CASE WriteError(p)
  BY <1>5 DEF WriteError, TypeOK
<1>6. CASE WriteRelease(p)
  BY <1>6, GiveBackType DEF WriteRelease, TypeOK
<1>7. QED
  BY <1>1, <1>2, <1>3, <1>4, <1>5, <1>6 DEF DbWrite

\* and crashes, restarts, stops and starts.
LEMMA ParentType ==
    ASSUME TypeInv,
           \/ \E p \in Proc : Crash(p)
           \/ \E w \in Worker : Parent(w)
           \/ Pool
    PROVE  TypeInv'
<1> USE FleetAssumption DEF TypeInv, FileInHand, ErrorsBelow, Busy, Holding, Writing, Quiet,
        Goto, Fault, states, loop, parent, NoFile, NoWorker, Alive
<1>1. ASSUME NEW p \in Proc, Crash(p) PROVE TypeInv'
  BY <1>1 DEF Crash, Vanish, TypeOK
<1>2. ASSUME NEW w \in Worker, Judge(w) PROVE TypeInv'
  BY <1>2 DEF Judge, TypeOK
<1>3. ASSUME NEW w \in Worker, OnDead(w) PROVE TypeInv'
  BY <1>3 DEF OnDead, ReleaseClaimsOf, TypeOK
<1>4. ASSUME NEW w \in Worker, Restart(w) PROVE TypeInv'
  BY <1>4 DEF Restart, TypeOK
<1>5. ASSUME NEW p \in doomed, KillReplaced(p) PROVE TypeInv'
  BY <1>5 DEF KillReplaced, Vanish, TypeOK
<1>6. CASE StopAll
  BY <1>6 DEF StopAll, TypeOK
<1>7. CASE StopJoin
  BY <1>7 DEF StopJoin, TypeOK
<1>8. CASE StartAll
  <2>1. /\ current' \in [Worker -> Proc \cup {NoProc}]
        /\ phase' \in [Worker -> {"live", "dead", "restarting", "down"}]
        /\ pc' \in [Proc -> Step] /\ \A p \in Proc : pc'[p] \in {"poll", "gone"}
    BY <1>8, FirstCopy DEF StartAll, Step
  <2>2. claim' \in [File -> Worker \cup {NoWorker}]
    BY <1>8 DEF StartAll, CleanupClaims, TypeOK
  <2>3. UNCHANGED <<states, file, errors, write, faults>> /\ doomed' = {} /\ stop' = FALSE
    BY <1>8 DEF StartAll
  <2>4. \A p \in Proc : pc[p] = "gone"
    BY <1>8 DEF StartAll
  <2>5. TypeOK'
    BY <2>1, <2>2, <2>3 DEF TypeOK, Step
  <2>6. FileInHand' /\ ErrorsBelow'
    BY <2>1, <2>3, <2>4
  <2>7. QED
    BY <2>5, <2>6
<1>9. QED
  BY <1>1, <1>2, <1>3, <1>4, <1>5, <1>6, <1>7, <1>8 DEF Parent, Pool

\* Every step preserves the types.
LEMMA StepType == TypeInv /\ [Next]_vars => TypeInv'
<1> SUFFICES ASSUME TypeInv, [Next]_vars PROVE TypeInv'
  OBVIOUS
<1>1. CASE UNCHANGED vars
  BY <1>1 DEF vars, TypeInv, TypeOK, FileInHand, ErrorsBelow
<1>2. QED
  BY <1>1, LoopType, WriteType, ParentType DEF Next

\* Every variable of the fleet keeps the kind of value the code gives it; no
\* process goes on after MaxErrors errors in a row.
THEOREM TypeCorrect == Spec => []TypeOK
<1>1. TypeInv => TypeOK
  BY DEF TypeInv
<1>2. QED
  BY <1>1, InitType, StepType, PTL DEF Spec

-----------------------------------------------------------------------------
(* Nothing is tagged without results.                                      *)

\* The write thread gets to "tag" only with the results stored, and the main
\* loop to "skip" only with a file that had none.
ResultsFirst ==
    \A p \in Proc : /\ write[p].at = "tag" => write[p].file \in stored
                    /\ pc[p] = "skip" => file[p] \in skipped

ResultsInv == TaggedIsStored /\ ResultsFirst

\* The main loop keeps results before tags,
LEMMA LoopResults ==
    ASSUME TypeInv, ResultsInv, NEW p \in Proc, MainLoop(p)
    PROVE  ResultsInv'
<1> USE DEF TypeInv, TypeOK, ResultsInv, ResultsFirst, TaggedIsStored, Goto, states, loop
<1>1. CASE Process(p)
  BY <1>1 DEF Process
<1>2. CASE Skip(p)
  BY <1>2 DEF Skip
<1>3. CASE Submit(p)
  BY <1>3 DEF Submit
<1>4. CASE Discover(p) \/ Claim(p) \/ PollFails(p) \/ Exhausted(p) \/ Headroom(p)
  BY <1>4 DEF Discover, Claim, PollFails, Exhausted, Headroom
<1>5. CASE Skipped(p) \/ Error(p) \/ Release(p) \/ Leave(p)
  BY <1>5 DEF Skipped, Error, Release, Leave, Vanish, Quiet
<1>6. QED
  BY <1>1, <1>2, <1>3, <1>4, <1>5 DEF MainLoop

\* so does the write thread,
LEMMA WriteResults ==
    ASSUME TypeInv, ResultsInv, NEW p \in Proc, DbWrite(p)
    PROVE  ResultsInv'
<1> USE DEF TypeInv, TypeOK, ResultsInv, ResultsFirst, TaggedIsStored, states, loop, WriteGoto
<1>1. CASE WriteStore(p)
  BY <1>1 DEF WriteStore
<1>2. CASE WriteTag(p)
  BY <1>2 DEF WriteTag
<1>3. CASE WriteFails(p) \/ WriteExtracted(p) \/ WriteError(p) \/ WriteRelease(p)
  BY <1>3 DEF WriteFails, WriteExtracted, WriteError, WriteRelease, Quiet
<1>4. QED
  BY <1>1, <1>2, <1>3 DEF DbWrite

\* and a process that ends or starts has nothing to tag.
LEMMA ParentResults ==
    ASSUME TypeInv, ResultsInv,
           \/ \E p \in Proc : Crash(p)
           \/ \E w \in Worker : Parent(w)
           \/ Pool
    PROVE  ResultsInv'
<1> USE DEF TypeInv, TypeOK, ResultsInv, ResultsFirst, TaggedIsStored, states, loop, Vanish, Goto,
        Quiet
<1>1. ASSUME NEW p \in Proc, Crash(p) \/ KillReplaced(p) PROVE ResultsInv'
  BY <1>1 DEF Crash, KillReplaced, Fault
<1>2. ASSUME NEW w \in Worker, Judge(w) \/ OnDead(w) \/ Restart(w) PROVE ResultsInv'
  BY <1>2 DEF Judge, OnDead, Restart
<1>3. CASE Pool
  BY <1>3 DEF Pool, StopAll, StopJoin, StartAll
<1>4. QED
  BY <1>1, <1>2, <1>3 DEF Parent

LEMMA InitResults == Init => ResultsInv
BY DEF Init, ResultsInv, ResultsFirst, TaggedIsStored, Quiet

LEMMA StepResults == TypeInv /\ ResultsInv /\ [Next]_vars => ResultsInv'
<1> SUFFICES ASSUME TypeInv, ResultsInv, [Next]_vars PROVE ResultsInv'
  OBVIOUS
<1>1. CASE UNCHANGED vars
  BY <1>1 DEF vars, ResultsInv, ResultsFirst, TaggedIsStored
<1>2. QED
  BY <1>1, LoopResults, WriteResults, ParentResults DEF Next

\* Crashes, failing queries, misjudged deaths and two processes on one file: a
\* file is tagged only with its results stored, or when it has none.
THEOREM ResultsBeforeTag == Spec => []TaggedIsStored
<1>1. ResultsInv => TaggedIsStored
  BY DEF ResultsInv
<1>2. QED
  BY <1>1, InitResults, StepResults, InitType, StepType, PTL DEF Spec

-----------------------------------------------------------------------------
(* A file is worked on under a claim, as long as deaths are judged rightly. *)

Holds(p, f)  == file[p] = f /\ pc[p] \in Holding
Writes(p, f) == write[p].file = f

\* One process runs for each worker id, and none once the id was judged dead:
\* nothing is left for the restart to kill.
OneProcess ==
    /\ \A w \in Worker : current[w] \in Proc => current[w].worker = w
    /\ \A p \in Proc : Alive(p) => current[p.worker] = p
    /\ \A p \in Proc : phase[p.worker] \in {"dead", "restarting"} => ~Alive(p)
    /\ doomed = {}

\* Loop and write thread act under a claim of their worker id,
Covered == \A p \in Proc, f \in File : Holds(p, f) \/ Writes(p, f) => claim[f] = p.worker

\* and the two threads of a process are never on the same file.
Apart == \A p \in Proc, f \in File : ~(Holds(p, f) /\ Writes(p, f))

ClaimInv == OneProcess /\ Covered /\ Apart

\* Two processes with a file in their hands would be of one worker id, and there
\* is one process for an id.
LEMMA CoverImplies == TypeInv /\ ClaimInv => ClaimCoversWork
<1> SUFFICES ASSUME TypeInv, ClaimInv,
                    NEW p \in Proc, NEW f \in File, Handles(p, f)
             PROVE  /\ claim[f] = p.worker
                    /\ \A q \in Proc : Handles(q, f) => q = p
  BY DEF ClaimCoversWork
<1>1. \A q \in Proc : Handles(q, f) => claim[f] = q.worker
  BY DEF Handles, ClaimInv, Covered, Holds, Writes, Holding
<1>2. \A q \in Proc : Handles(q, f) => Alive(q)
  BY DEF Handles, Alive, TypeInv, FileInHand, Busy, Holding, Quiet, File, NoFile
<1>3. QED
  BY <1>1, <1>2 DEF ClaimInv, OneProcess

\* Nobody gets a file in his hands.
NothingTaken ==
    \A p \in Proc, f \in File : (Holds(p, f)' => Holds(p, f)) /\ (Writes(p, f)' => Writes(p, f))

\* Then claims that stay still cover the work,
LEMMA StayCovered ==
    ASSUME ClaimInv, NothingTaken, UNCHANGED claim
    PROVE  Covered' /\ Apart'
  BY DEF ClaimInv, Covered, Apart, NothingTaken

\* and so they do when a process gives back the one it worked under.
LEMMA Released ==
    ASSUME TypeInv, ClaimInv, NothingTaken,
           NEW p \in Proc, NEW f \in File, Handles(p, f), ReleaseClaim(f),
           ~Holds(p, f)', ~Writes(p, f)'
    PROVE  Covered' /\ Apart'
<1>1. \A q \in Proc : Handles(q, f) => q = p
  BY CoverImplies DEF ClaimCoversWork
<1>2. \A q \in Proc : ~Holds(q, f)' /\ ~Writes(q, f)'
  BY <1>1 DEF NothingTaken, Handles, Holds, Writes, Holding
<1>3. \A g \in File : g # f => claim'[g] = claim[g]
  BY DEF ReleaseClaim, TypeInv, TypeOK
<1>4. QED
  BY <1>2, <1>3 DEF ClaimInv, Covered, Apart, NothingTaken

\* Processes end, and the parent does nothing.
LEMMA StayOne ==
    ASSUME ClaimInv, UNCHANGED parent, \A p \in Proc : Alive(p)' => Alive(p)
    PROVE  OneProcess'
  BY DEF ClaimInv, OneProcess, parent, Alive

\* The main loop works under claims,
LEMMA LoopClaims ==
    ASSUME TypeInv, ClaimInv, NEW p \in Proc, MainLoop(p)
    PROVE  ClaimInv'
<1>0. /\ pc \in [Proc -> Step] /\ file \in [Proc -> File \cup {NoFile}]
      /\ NoFile \notin File /\ p.worker # NoWorker
  BY DEF TypeInv, TypeOK, Step, Busy, Holding, File, NoFile, Proc, Worker, NoWorker
<1>1. OneProcess'
  <2>1. UNCHANGED parent /\ \A q \in Proc : Alive(q)' => Alive(q)
    BY <1>0 DEF MainLoop, Discover, Claim, PollFails, Exhausted, Headroom, Process, Submit, Skip,
                Skipped, Error, Release, Leave, Vanish, Goto, Alive
  <2>2. QED
    BY <2>1, StayOne
<1>2. CASE Claim(p)
  <2>1. CASE TryClaim(p.worker, file[p]) /\ UNCHANGED file
    <3>1. file[p] \in File
      BY <1>2 DEF Claim, TypeInv, FileInHand, Busy
    <3>2. \A q \in Proc : ~Holds(q, file[p]) /\ ~Writes(q, file[p])
      BY <2>1, <3>1 DEF TryClaim, ClaimInv, Covered, Proc, Worker, NoWorker
    <3>3. claim'[file[p]] = p.worker /\ \A g \in File : g # file[p] => claim'[g] = claim[g]
      BY <2>1, <3>1 DEF TryClaim, TypeInv, TypeOK
    <3>4. \A q \in Proc, f \in File :
            /\ Writes(q, f)' => Writes(q, f)
            /\ Holds(q, f)' => Holds(q, f) \/ (q = p /\ f = file[p])
      BY <1>0, <1>2, <2>1 DEF Claim, Goto, Holds, Writes, Holding
    <3>5. QED
      BY <1>1, <3>1, <3>2, <3>3, <3>4 DEF ClaimInv, Covered, Apart
  <2>2. CASE UNCHANGED claim /\ file' = [file EXCEPT ![p] = NoFile]
    <3>1. NothingTaken
      BY <1>0, <1>2, <2>2 DEF Claim, Goto, NothingTaken, Holds, Writes
    <3>2. QED
      BY <1>1, <2>2, <3>1, StayCovered DEF ClaimInv
  <2>3. QED
    BY <1>2, <2>1, <2>2 DEF Claim
<1>3. CASE Submit(p)
  <2>1. \A q \in Proc, f \in File :
          Holds(q, f)' \/ Writes(q, f)' => Holds(q, f) \/ Writes(q, f)
    BY <1>0, <1>3 DEF Submit, Goto, Holds, Writes, Holding, TypeInv, TypeOK
  <2>2. \A q \in Proc, f \in File : Holds(q, f)' => q # p /\ Holds(q, f)
    BY <1>0, <1>3 DEF Submit, Goto, Holds, Holding
  <2>3. \A q \in Proc, f \in File : q # p /\ Writes(q, f)' => Writes(q, f)
    BY <1>3 DEF Submit, Writes, TypeInv, TypeOK
  <2>4. UNCHANGED claim
    BY <1>3 DEF Submit
  <2>5. QED
    BY <1>1, <2>1, <2>2, <2>3, <2>4 DEF ClaimInv, Covered, Apart
<1>4. CASE Exhausted(p) \/ Headroom(p) \/ Skipped(p) \/ Release(p)
  <2>1. NothingTaken
    BY <1>0, <1>4 DEF Exhausted, Headroom, Skipped, Release, Goto, NothingTaken, Holds, Writes,
                      Holding
  <2>2. CASE UNCHANGED claim
    BY <1>1, <2>1, <2>2, StayCovered DEF ClaimInv
  <2>3. CASE ReleaseClaim(file[p]) /\ file' = [file EXCEPT ![p] = NoFile]
    <3>0. PICK f \in File : f = file[p]
      BY <1>4 DEF Exhausted, Headroom, Skipped, Release, Holding, Busy, TypeInv, FileInHand
    <3>1. Handles(p, f) /\ Holds(p, f)
      BY <1>4, <3>0 DEF Exhausted, Headroom, Skipped, Release, Handles, Holds, Holding
    <3>2. ~Holds(p, f)'
      BY <1>0, <2>3 DEF Holds
    <3>3. ~Writes(p, f)'
      BY <2>1, <3>1 DEF NothingTaken, ClaimInv, Apart
    <3>4. QED
      BY <1>1, <2>1, <2>3, <3>0, <3>1, <3>2, <3>3, Released DEF ClaimInv
  <2>4. QED
    BY <1>4, <2>2, <2>3 DEF Exhausted, Headroom, Skipped, Release, GiveBack
<1>5. CASE Discover(p) \/ PollFails(p) \/ Process(p) \/ Skip(p) \/ Error(p) \/ Leave(p)
  <2>1. NothingTaken
    BY <1>0, <1>5 DEF Discover, PollFails, Process, Skip, Error, Leave, Vanish, Goto,
                      NothingTaken, Holds, Writes, Holding, Quiet, TypeInv, TypeOK
  <2>2. UNCHANGED claim
    BY <1>5 DEF Discover, PollFails, Process, Skip, Error, Leave
  <2>3. QED
    BY <1>1, <2>1, <2>2, StayCovered DEF ClaimInv
<1>6. QED
  BY <1>2, <1>3, <1>4, <1>5 DEF MainLoop

\* the write thread does,
LEMMA WriteClaims ==
    ASSUME TypeInv, ClaimInv, NEW p \in Proc, DbWrite(p)
    PROVE  ClaimInv'
<1>1. OneProcess' /\ \A q \in Proc, f \in File : Holds(q, f)' <=> Holds(q, f)
  <2>1. UNCHANGED <<parent, loop>>
    BY DEF DbWrite, WriteFails, WriteStore, WriteTag, WriteExtracted, WriteError, WriteRelease
  <2>2. QED
    BY <2>1, StayOne DEF loop, Holds, Alive
<1>2. NothingTaken
  <2>1. CASE \E at \in Writing : WriteGoto(p, at)
    BY <1>1, <2>1 DEF WriteGoto, NothingTaken, Writes, TypeInv, TypeOK
  <2>2. CASE WriteRelease(p)
    <3>1. \A q \in Proc : write'[q].file \in {write[q].file, NoFile}
      BY <2>2 DEF WriteRelease, Quiet, TypeInv, TypeOK
    <3>2. QED
      BY <1>1, <3>1 DEF NothingTaken, Writes, File, NoFile
  <2>3. QED
    BY <2>1, <2>2 DEF DbWrite, WriteFails, WriteStore, WriteTag, WriteExtracted, WriteError, Writing
<1>3. CASE UNCHANGED claim
  BY <1>1, <1>2, <1>3, StayCovered DEF ClaimInv
<1>4. CASE WriteRelease(p) /\ ReleaseClaim(write[p].file)
  <2>0. PICK f \in File : f = write[p].file
    BY <1>4 DEF WriteRelease, TypeInv, FileInHand, Writing
  <2>1. Handles(p, f) /\ Writes(p, f)
    BY <2>0 DEF Handles, Writes
  <2>2. write'[p].file = NoFile
    BY <1>4 DEF WriteRelease, Quiet, TypeInv, TypeOK
  <2>3. ~Writes(p, f)'
    BY <2>2 DEF Writes, File, NoFile
  <2>4. ~Holds(p, f)'
    BY <1>1, <2>1 DEF ClaimInv, Apart
  <2>5. QED
    BY <1>1, <1>2, <1>4, <2>0, <2>1, <2>3, <2>4, Released DEF ClaimInv
<1>5. QED
  BY <1>3, <1>4 DEF DbWrite, WriteFails, WriteStore, WriteTag, WriteExtracted, WriteError,
                    WriteRelease, GiveBack

\* and so do crashes, restarts, stops and starts, if nobody is judged dead who is
\* not.
LEMMA ParentClaims ==
    ASSUME ~Misjudges, TypeInv, ClaimInv,
           \/ \E p \in Proc : Crash(p)
           \/ \E w \in Worker : Parent(w)
           \/ Pool
    PROVE  ClaimInv'
<1>0. /\ pc \in [Proc -> Step] /\ current \in [Worker -> Proc \cup {NoProc}]
      /\ \A p \in Proc : p.worker \in Worker
      /\ \A p \in Proc : pc[p] = "gone" => file[p] = NoFile /\ write[p].file = NoFile
      /\ NoFile \notin File
  <2>1. pc \in [Proc -> Step] /\ current \in [Worker -> Proc \cup {NoProc}]
    BY DEF TypeInv, TypeOK, Step, Busy, Holding
  <2>2. \A p \in Proc : p.worker \in Worker
    BY DEF Proc
  <2>3. \A p \in Proc : pc[p] = "gone" => file[p] = NoFile /\ write[p].file = NoFile
    BY DEF TypeInv, FileInHand, Quiet, Busy, Holding
  <2>4. NoFile \notin File
    BY DEF File, NoFile
  <2>5. QED
    BY <2>1, <2>2, <2>3, <2>4
<1>1. ASSUME NEW p \in Proc, Crash(p) PROVE ClaimInv'
  <2>1. OneProcess'
    BY <1>0, <1>1, StayOne DEF Crash, Vanish, Goto, Alive
  <2>2. NothingTaken /\ UNCHANGED claim
    BY <1>0, <1>1 DEF Crash, Vanish, Goto, NothingTaken, Holds, Writes, Quiet, TypeInv, TypeOK
  <2>3. QED
    BY <2>1, <2>2, StayCovered DEF ClaimInv
<1>2. ASSUME NEW w \in Worker, Judge(w) PROVE ClaimInv'
  <2>1. \A p \in Proc : p.worker = w => ~Alive(p)
    BY <1>2 DEF Judge, ClaimInv, OneProcess
  <2>2. OneProcess'
    BY <1>0, <1>2, <2>1 DEF Judge, ClaimInv, OneProcess, Alive, loop, TypeInv, TypeOK
  <2>3. NothingTaken /\ UNCHANGED claim
    BY <1>2 DEF Judge, NothingTaken, Holds, Writes, loop
  <2>4. QED
    BY <2>2, <2>3, StayCovered DEF ClaimInv
<1>3. ASSUME NEW w \in Worker, OnDead(w) PROVE ClaimInv'
  <2>1. \A p \in Proc : p.worker = w => ~Alive(p)
    BY <1>3 DEF OnDead, ClaimInv, OneProcess
  <2>2. OneProcess'
    BY <1>0, <1>3, <2>1 DEF OnDead, ClaimInv, OneProcess, Alive, loop, TypeInv, TypeOK
  <2>3. NothingTaken
    BY <1>3 DEF OnDead, NothingTaken, Holds, Writes, loop
  <2>4. \A p \in Proc, f \in File : Holds(p, f) \/ Writes(p, f) => p.worker # w
    BY <1>0, <2>1 DEF Holds, Writes, Alive, Holding
  <2>5. \A f \in File : claim[f] # w => claim'[f] = claim[f]
    BY <1>3 DEF OnDead, ReleaseClaimsOf
  <2>6. Covered' /\ Apart'
    BY <2>3, <2>4, <2>5 DEF ClaimInv, Covered, Apart, NothingTaken
  <2>7. QED
    BY <2>2, <2>6 DEF ClaimInv
<1>4. ASSUME NEW w \in Worker, Restart(w) PROVE ClaimInv'
  <2>1. \A p \in Proc : p.worker = w => ~Alive(p)
    BY <1>4 DEF Restart, ClaimInv, OneProcess
  <2>2. PICK q \in Proc : /\ q.worker = w /\ ~Alive(q)
                          /\ current' = [current EXCEPT ![w] = q]
                          /\ Goto(q, "poll")
    BY <1>4 DEF Restart
  <2>3. doomed' = {}
    <3>1. {current[w]} \cap {p \in Proc : Alive(p)} = {}
      BY <2>1 DEF ClaimInv, OneProcess
    <3>2. QED
      BY <1>4, <3>1 DEF Restart, ClaimInv, OneProcess
  <2>4. phase' = [phase EXCEPT ![w] = "live"]
    BY <1>4 DEF Restart
  <2>5. \A p \in Proc : Alive(p)' => p = q \/ (p.worker # w /\ Alive(p))
    BY <1>0, <2>1, <2>2 DEF Goto, Alive
  <2>6. OneProcess'
    BY <1>0, <2>2, <2>3, <2>4, <2>5 DEF ClaimInv, OneProcess, TypeInv, TypeOK
  <2>7. NothingTaken /\ UNCHANGED claim
    BY <1>0, <1>4, <2>2 DEF Restart, Goto, NothingTaken, Holds, Writes, Holding
  <2>8. QED
    BY <2>6, <2>7, StayCovered DEF ClaimInv
<1>5. ASSUME NEW p \in doomed, KillReplaced(p) PROVE ClaimInv'
  BY <1>5 DEF ClaimInv, OneProcess
<1>6. CASE StopAll
  <2>1. OneProcess'
    BY <1>0, <1>6 DEF StopAll, ClaimInv, OneProcess, Alive, loop
  <2>2. NothingTaken /\ UNCHANGED claim
    BY <1>6 DEF StopAll, NothingTaken, Holds, Writes, loop
  <2>3. QED
    BY <2>1, <2>2, StayCovered DEF ClaimInv
<1>7. CASE StopJoin
  <2>1. OneProcess'
    BY <1>7 DEF StopJoin, ClaimInv, OneProcess, Alive
  <2>2. NothingTaken /\ UNCHANGED claim
    BY <1>0, <1>7 DEF StopJoin, NothingTaken, Holds, Writes, Quiet
  <2>3. QED
    BY <2>1, <2>2, StayCovered DEF ClaimInv
<1>8. CASE StartAll
  <2>1. \A p \in Proc : Alive(p)' => p.copy = 1
    BY <1>8 DEF StartAll, Alive
  <2>2. \A p \in Proc : p.copy = 1 => current'[p.worker] = p
    BY <1>8 DEF StartAll, Proc
  <2>3. OneProcess'
    BY <1>0, <1>8, <2>1, <2>2 DEF StartAll, OneProcess
  <2>4. \A p \in Proc, f \in File : ~Holds(p, f)' /\ ~Writes(p, f)'
    BY <1>0, <1>8 DEF StartAll, Holds, Writes, Alive
  <2>5. QED
    BY <2>3, <2>4 DEF ClaimInv, Covered, Apart
<1>9. QED
  BY <1>1, <1>2, <1>3, <1>4, <1>5, <1>6, <1>7, <1>8 DEF Parent, Pool

LEMMA InitClaims == Init => ClaimInv
<1> SUFFICES ASSUME Init PROVE ClaimInv
  OBVIOUS
<1>1. OneProcess
  BY DEF Init, OneProcess, Alive, Proc
<1>2. Covered /\ Apart
  BY DEF Init, Covered, Apart, Holds, Writes, Quiet, File, NoFile
<1>3. QED
  BY <1>1, <1>2 DEF ClaimInv

LEMMA StepClaims ==
    ASSUME ~Misjudges
    PROVE  TypeInv /\ ClaimInv /\ [Next]_vars => ClaimInv'
<1> SUFFICES ASSUME TypeInv, ClaimInv, [Next]_vars PROVE ClaimInv'
  OBVIOUS
<1>1. CASE UNCHANGED vars
  <2>1. NothingTaken /\ OneProcess' /\ UNCHANGED claim
    BY <1>1 DEF vars, NothingTaken, Holds, Writes, ClaimInv, OneProcess, Alive
  <2>2. QED
    BY <2>1, StayCovered DEF ClaimInv
<1>2. QED
  BY <1>1, LoopClaims, WriteClaims, ParentClaims DEF Next

\* "Only one worker can process a file at a time" (docs/dev/workers.md:205) holds
\* if only processes that ended are declared dead: whatever crashes, raises,
\* stops or is started again, work on a file is covered by a claim of its own
\* worker id and is done by one process.
THEOREM WorkIsClaimed == ASSUME ~Misjudges PROVE Spec => []ClaimCoversWork
BY InitClaims, StepClaims, CoverImplies, InitType, StepType, PTL DEF Spec

-----------------------------------------------------------------------------
(* What the fleet promises about files, FileWork.                           *)

\* The vectors of a file are marked when its tag is.
TagFirst == \A p \in Proc : write[p].at = "extract" => write[p].file \in tagged

\* The work on a file is one process's, in one thread.
LEMMA WorkIsOnes ==
    ASSUME TypeInv, ClaimInv
    PROVE  /\ \A p, q \in Proc, f \in File : Handles(p, f) /\ Handles(q, f) => p = q
           /\ \A p \in Proc, f \in File : Handles(p, f) <=> Holds(p, f) \/ Writes(p, f)
           /\ \A p \in Proc, f \in File : ~(Holds(p, f) /\ Writes(p, f))
           /\ NoProc \notin Proc
<1>1. NoProc \notin Proc
  BY DEF NoProc, Proc, Worker, NoWorker
<1>2. QED
  BY <1>1, CoverImplies DEF ClaimCoversWork, ClaimInv, Apart, Handles, Holds, Writes, Holding

LEMMA SoleOfOne == SoleOf({}) = NoProc /\ \A p : SoleOf({p}) = p
BY DEF SoleOf

\* Whoever has a file in hand is the one that handles it.
LEMMA HandsOnIs ==
    ASSUME TypeInv, ClaimInv, NEW p \in Proc, NEW f \in File, Handles(p, f)
    PROVE  HandsOn(f) = p /\ HandsOn(f) # NoProc
<1>1. Handlers(f) = {p}
  BY WorkIsOnes DEF Handlers
<1>2. QED
  BY <1>1, SoleOfOne, WorkIsOnes DEF HandsOn

\* Where nobody gets a file and no file is marked, work on some files ends.
LEMMA EndsOnly ==
    ASSUME TypeInv, ClaimInv, NothingTaken, UNCHANGED states
    PROVE  FW!Next
<1> DEFINE ended == {f \in File : Handlers(f)' # Handlers(f)}
<1>1. ASSUME NEW f \in File PROVE HandsOn(f)' = IF f \in ended THEN NoProc ELSE HandsOn(f)
  <2>1. CASE Handlers(f)' = Handlers(f)
    BY <2>1 DEF HandsOn
  <2>2. CASE Handlers(f)' # Handlers(f)
    <3>1. Handlers(f)' \subseteq Handlers(f)
      BY DEF NothingTaken, Handlers, Handles, Holds, Writes, Holding
    <3>2. \A p, q \in Handlers(f) : p = q
      BY WorkIsOnes DEF Handlers
    <3>3. Handlers(f)' = {}
      BY <2>2, <3>1, <3>2
    <3>4. QED
      BY <2>2, <3>3, SoleOfOne DEF HandsOn
  <2>3. QED
    BY <2>1, <2>2
<1>2. FW!End(ended)
  BY <1>1 DEF FW!End, FW!marks, states
<1>3. ended \in SUBSET File
  OBVIOUS
<1> HIDE DEF ended
<1>4. QED
  BY <1>2, <1>3 DEF FW!Next

\* Where files stay in the hands they are in, one that is in some hands is marked.
LEMMA MarksOne ==
    ASSUME TypeInv, ClaimInv, NEW p \in Proc, NEW f \in File, Handles(p, f),
           \A g \in File : Handlers(g)' = Handlers(g),
           FW!Result(f) \/ FW!Tag(f) \/ FW!Extract(f) \/ FW!Fail(f) \/ FW!Remove(f)
    PROVE  FW!Next
<1>1. \A g \in File : HandsOn(g)' = HandsOn(g)
  BY DEF HandsOn
<1>2. HandsOn(f) # NoProc
  BY HandsOnIs
<1>3. FW!Work(f)
  BY <1>1, <1>2 DEF FW!Work
<1>4. QED
  BY <1>3 DEF FW!Next

\* The same process goes on with the same files.
LEMMA SameHands ==
    ASSUME \A p \in Proc, f \in File : Handles(p, f)' <=> Handles(p, f)
    PROVE  \A f \in File : Handlers(f)' = Handlers(f)
BY DEF Handlers

\* The loop of a process implements FileWork,
LEMMA LoopWork ==
    ASSUME TypeInv, ResultsInv, ClaimInv, NEW p \in Proc, MainLoop(p)
    PROVE  FW!Next \/ UNCHANGED <<[f \in File |-> HandsOn(f)], states>>
<1>0. /\ pc \in [Proc -> Step] /\ file \in [Proc -> File \cup {NoFile}]
      /\ NoFile \notin File /\ p.worker # NoWorker
      /\ pc[p] \in Busy => file[p] \in File
  BY DEF TypeInv, TypeOK, FileInHand, Step, Busy, Holding, File, NoFile, Proc, Worker, NoWorker
<1>1. CASE Claim(p) /\ TryClaim(p.worker, file[p]) /\ UNCHANGED file
  <2>1. PICK f \in File : f = file[p]
    BY <1>0, <1>1 DEF Claim, Busy
  <2>2. \A q \in Proc : ~Handles(q, f)
    BY <1>1, <2>1, WorkIsOnes DEF TryClaim, ClaimInv, Covered, Proc, Worker, NoWorker
  <2>3. \A q \in Proc, g \in File : Handles(q, g)' <=> Handles(q, g) \/ (q = p /\ g = f)
    BY <1>0, <1>1, <2>1 DEF Claim, Goto, Handles
  <2>4. \A g \in File : g # f => Handlers(g)' = Handlers(g)
    BY <2>3 DEF Handlers
  <2>5. Handlers(f) = {} /\ Handlers(f)' = {p}
    BY <2>2, <2>3 DEF Handlers
  <2>6. HandsOn(f) = NoProc /\ HandsOn(f)' = p /\ \A g \in File : g # f => HandsOn(g)' = HandsOn(g)
    BY <2>4, <2>5, SoleOfOne DEF HandsOn
  <2>7. \A g, h \in File : HandsOn(g) = p /\ HandsOn(h) = p => g = h
    <3>1. \A g \in File : HandsOn(g) = p => Handles(p, g)
      BY WorkIsOnes DEF HandsOn, SoleOf, Handlers
    <3>2. \A g \in File : Handles(p, g) => write[p].file = g
      BY <1>1 DEF Claim, Handles
    <3>3. QED
      BY <3>1, <3>2
  <2>8. UNCHANGED states
    BY <1>1 DEF Claim
  <2>9. FW!Begin(p, f)
    BY <2>6, <2>7, <2>8 DEF FW!Begin, FW!marks, states
  <2>10. QED
    BY <2>9 DEF FW!Next
<1>2. CASE Submit(p)
  <2>1. PICK f \in File : f = file[p]
    BY <1>0, <1>2 DEF Submit, Busy, Holding
  <2>2. \A q \in Proc, g \in File : Handles(q, g)' <=> Handles(q, g)
    <3>1. ASSUME NEW q \in Proc, q # p, NEW g \in File PROVE Handles(q, g)' <=> Handles(q, g)
      BY <1>0, <1>2, <3>1 DEF Submit, Goto, Handles, TypeInv, TypeOK
    <3>2. ASSUME NEW g \in File PROVE Handles(p, g)' <=> g = f
      BY <1>0, <1>2, <2>1 DEF Submit, Goto, Handles, TypeInv, TypeOK
    <3>3. ASSUME NEW g \in File PROVE Handles(p, g) <=> g = f
      BY <1>0, <1>2, <2>1 DEF Submit, Handles, Quiet, File, NoFile
    <3>4. QED
      BY <3>1, <3>2, <3>3
  <2>3. \A g \in File : HandsOn(g)' = HandsOn(g)
    BY <2>2, SameHands DEF HandsOn
  <2>4. QED
    BY <1>2, <2>3 DEF Submit
<1>3. CASE Process(p) \/ Skip(p) \/ Error(p)
  <2>1. PICK f \in File : f = file[p]
    BY <1>0, <1>3 DEF Process, Skip, Error, Busy, Holding
  <2>2. Handles(p, f)
    BY <1>3, <2>1 DEF Process, Skip, Error, Handles
  <2>3. \A q \in Proc, g \in File : Handles(q, g)' <=> Handles(q, g)
    BY <1>0, <1>3 DEF Process, Skip, Error, Goto, Handles
  <2>4. \A g \in File : Handlers(g)' = Handlers(g)
    BY <2>3, SameHands
  <2>5. CASE UNCHANGED states
    BY <2>4, <2>5 DEF HandsOn
  <2>6. CASE ~UNCHANGED states
    <3>1. CASE Process(p)
      <4>1. FW!Result(f) \/ FW!Remove(f)
        BY <2>1, <2>6, <3>1 DEF Process, FW!Result, FW!Remove, states
      <4>2. QED
        BY <2>2, <2>4, <4>1, MarksOne
    <3>2. CASE Skip(p)
      <4>1. f \in skipped
        BY <2>1, <3>2 DEF Skip, ResultsInv, ResultsFirst
      <4>2. FW!Tag(f)
        BY <2>1, <2>6, <3>2, <4>1 DEF Skip, FW!Tag, states
      <4>3. QED
        BY <2>2, <2>4, <4>2, MarksOne
    <3>3. CASE Error(p)
      <4>1. FW!Fail(f)
        BY <2>1, <2>6, <3>3 DEF Error, FW!Fail, states
      <4>2. QED
        BY <2>2, <2>4, <4>1, MarksOne
    <3>4. QED
      BY <1>3, <3>1, <3>2, <3>3
  <2>7. QED
    BY <2>5, <2>6
<1>4. CASE \/ Claim(p) /\ UNCHANGED claim
           \/ Discover(p) \/ PollFails(p) \/ Exhausted(p) \/ Headroom(p) \/ Skipped(p)
           \/ Release(p) \/ Leave(p)
  <2>1. NothingTaken
    <3>1. CASE Leave(p)
      BY <1>0, <3>1 DEF Leave, Vanish, Goto, NothingTaken, Holds, Writes, Quiet, TypeInv, TypeOK, Holding
    <3>2. CASE Discover(p) \/ PollFails(p) \/ (Claim(p) /\ UNCHANGED claim)
      <4>1. pc'[p] \notin Holding /\ UNCHANGED write
        <5>1. CASE Discover(p) \/ PollFails(p)
          BY <1>0, <5>1 DEF Discover, PollFails, Goto, Holding
        <5>2. CASE Claim(p) /\ UNCHANGED claim
          <6>1. ~TryClaim(p.worker, file[p])
            BY <1>0, <5>2 DEF Claim, TryClaim, Busy, TypeInv, TypeOK
          <6>2. QED
            BY <1>0, <5>2, <6>1 DEF Claim, Goto, Holding
        <5>3. QED
          BY <3>2, <5>1, <5>2
      <4>2. \A q \in Proc : q # p => pc'[q] = pc[q] /\ file'[q] = file[q]
        BY <1>0, <3>2 DEF Discover, PollFails, Claim, Goto
      <4>3. QED
        BY <4>1, <4>2 DEF NothingTaken, Holds, Writes
    <3>3. CASE Exhausted(p) \/ Headroom(p) \/ Skipped(p) \/ Release(p)
      BY <1>0, <3>3 DEF Exhausted, Headroom, Skipped, Release, Goto, NothingTaken, Holds,
                        Writes, Holding
    <3>4. QED
      BY <1>4, <3>1, <3>2, <3>3
  <2>2. UNCHANGED states
    BY <1>4 DEF Claim, Discover, PollFails, Exhausted, Headroom, Skipped, Release, Leave
  <2>3. QED
    BY <2>1, <2>2, EndsOnly
<1>5. QED
  BY <1>1, <1>2, <1>3, <1>4 DEF MainLoop, Claim

\* so does its write thread,
LEMMA WriteWork ==
    ASSUME TypeInv, ResultsInv, ClaimInv, TagFirst, NEW p \in Proc, DbWrite(p)
    PROVE  FW!Next \/ UNCHANGED <<[f \in File |-> HandsOn(f)], states>>
<1>0. /\ write[p].at \in Writing => write[p].file \in File
      /\ NoFile \notin File
  BY DEF TypeInv, FileInHand, File, NoFile
<1>1. CASE WriteRelease(p) \/ WriteFails(p)
  <2>1. \A q \in Proc : write'[q].file \in {write[q].file, NoFile}
    BY <1>1 DEF WriteRelease, WriteFails, WriteGoto, Fault, Quiet, TypeInv, TypeOK
  <2>2. NothingTaken /\ UNCHANGED states
    BY <1>0, <1>1, <2>1 DEF WriteRelease, WriteFails, NothingTaken, Holds, Writes, loop
  <2>3. QED
    BY <2>2, EndsOnly
<1>2. CASE WriteStore(p) \/ WriteTag(p) \/ WriteExtracted(p) \/ WriteError(p)
  <2>1. PICK f \in File : f = write[p].file
    BY <1>0, <1>2 DEF WriteStore, WriteTag, WriteExtracted, WriteError, Writing
  <2>2. Handles(p, f)
    BY <2>1 DEF Handles
  <2>3. \A q \in Proc, g \in File : Handles(q, g)' <=> Handles(q, g)
    BY <1>2 DEF WriteStore, WriteTag, WriteExtracted, WriteError, WriteGoto, Handles, loop, TypeInv, TypeOK
  <2>4. \A g \in File : Handlers(g)' = Handlers(g)
    BY <2>3, SameHands
  <2>5. CASE UNCHANGED states
    BY <2>4, <2>5 DEF HandsOn
  <2>6. CASE ~UNCHANGED states
    <3>1. FW!Result(f) \/ FW!Tag(f) \/ FW!Extract(f) \/ FW!Fail(f)
      <4>1. CASE WriteStore(p)
        BY <2>1, <4>1 DEF WriteStore, FW!Result
      <4>2. CASE WriteTag(p)
        BY <2>1, <4>2 DEF WriteTag, FW!Tag, ResultsInv, ResultsFirst
      <4>3. CASE WriteExtracted(p)
        BY <2>1, <4>3 DEF WriteExtracted, FW!Extract, TagFirst
      <4>4. CASE WriteError(p)
        BY <2>1, <2>6, <4>4 DEF WriteError, FW!Fail, states
      <4>5. QED
        BY <1>2, <4>1, <4>2, <4>3, <4>4
    <3>2. QED
      BY <2>2, <2>4, <3>1, MarksOne
  <2>7. QED
    BY <2>5, <2>6
<1>3. QED
  BY <1>1, <1>2 DEF DbWrite

\* and the rest only ends work.
LEMMA ParentWork ==
    ASSUME TypeInv, ClaimInv,
           \/ \E p \in Proc : Crash(p)
           \/ \E w \in Worker : Parent(w)
           \/ Pool
    PROVE  FW!Next
<1>0. /\ pc \in [Proc -> Step] /\ NoFile \notin File
      /\ \A p \in Proc : pc[p] = "gone" => file[p] = NoFile /\ write[p].file = NoFile
  <2>1. pc \in [Proc -> Step] /\ NoFile \notin File
    BY DEF TypeInv, TypeOK, Step, Busy, Holding, File, NoFile
  <2>2. \A p \in Proc : pc[p] = "gone" => file[p] = NoFile /\ write[p].file = NoFile
    BY DEF TypeInv, FileInHand, Busy, Holding, Quiet
  <2>3. QED
    BY <2>1, <2>2
<1>1. ASSUME NEW p \in Proc, Crash(p) \/ KillReplaced(p) PROVE NothingTaken /\ UNCHANGED states
  BY <1>0, <1>1 DEF Crash, KillReplaced, Vanish, Goto, NothingTaken, Holds, Writes, Quiet, TypeInv, TypeOK
<1>2. ASSUME NEW w \in Worker, Judge(w) \/ OnDead(w) PROVE NothingTaken /\ UNCHANGED states
  BY <1>2 DEF Judge, OnDead, NothingTaken, Holds, Writes, loop
<1>3. ASSUME NEW w \in Worker, Restart(w) PROVE NothingTaken /\ UNCHANGED states
  BY <1>0, <1>3 DEF Restart, Goto, NothingTaken, Holds, Writes, Holding
<1>4. ASSUME StopAll \/ StopJoin PROVE NothingTaken /\ UNCHANGED states
  BY <1>0, <1>4 DEF StopAll, StopJoin, NothingTaken, Holds, Writes, Quiet, loop
<1>5. ASSUME StartAll PROVE NothingTaken /\ UNCHANGED states
  <2>1. UNCHANGED <<states, write>> /\ \A p \in Proc : pc'[p] \notin Holding
    BY <1>5 DEF StartAll, Holding
  <2>2. NothingTaken
    BY <2>1 DEF NothingTaken, Holds, Writes
  <2>3. QED
    BY <2>1, <2>2
<1>6. doomed \subseteq Proc
  BY DEF TypeInv, TypeOK
<1>7. NothingTaken /\ UNCHANGED states
  <2>1. CASE \E p \in Proc : Crash(p)
    BY <1>1, <2>1
  <2>2. CASE \E w \in Worker : Parent(w)
    BY <1>1, <1>2, <1>3, <1>6, <2>2 DEF Parent
  <2>3. CASE Pool
    BY <1>4, <1>5, <2>3 DEF Pool
  <2>4. QED
    BY <2>1, <2>2, <2>3
<1>8. QED
  BY <1>7, EndsOnly

\* A tag that a write thread put is taken away by nobody while the thread is at
\* that file: it goes with a file that cannot be decoded, and that is in the hands
\* of its own loop.
LEMMA StepTagFirst ==
    ASSUME TypeInv, ClaimInv, TagFirst, [Next]_vars
    PROVE  TagFirst'
<1>0. \A p \in Proc : write[p].at = "extract" => write[p].file \in File /\ Handles(p, write[p].file)
  BY DEF TypeInv, FileInHand, Writing, Handles
<1>1. ASSUME NEW p \in Proc, MainLoop(p) PROVE TagFirst'
  <2>1. \A q \in Proc : write'[q].at = "extract" => write'[q] = write[q]
    BY <1>1 DEF MainLoop, Discover, Claim, PollFails, Exhausted, Headroom, Process, Submit, Skip,
                Skipped, Error, Release, Leave, Vanish, Quiet, TypeInv, TypeOK
  <2>2. CASE tagged \subseteq tagged'
    BY <2>1, <2>2 DEF TagFirst
  <2>3. CASE ~(tagged \subseteq tagged')
    <3>1. pc[p] = "process" /\ tagged' = tagged \ {file[p]}
      BY <1>1, <2>3 DEF MainLoop, Discover, Claim, PollFails, Exhausted, Headroom, Process, Submit,
                        Skip, Skipped, Error, Release, Leave, states
    <3>2. file[p] \in File
      BY <3>1 DEF TypeInv, FileInHand, Busy, Holding
    <3>3. Holds(p, file[p]) /\ Handles(p, file[p])
      BY <3>1 DEF Holds, Handles, Holding
    <3>4. \A q \in Proc : write[q].at = "extract" => write[q].file # file[p]
      BY <1>0, <3>2, <3>3, WorkIsOnes DEF Writes
    <3>5. QED
      BY <2>1, <3>1, <3>4 DEF TagFirst
  <2>4. QED
    BY <2>2, <2>3
<1>2. ASSUME NEW p \in Proc, DbWrite(p) PROVE TagFirst'
  <2>1. CASE WriteTag(p)
    BY <2>1 DEF WriteTag, WriteGoto, TagFirst, TypeInv, TypeOK
  <2>2. CASE ~WriteTag(p)
    <3>1. tagged' = tagged
      BY <1>2, <2>2 DEF DbWrite, WriteFails, WriteStore, WriteExtracted, WriteError, WriteRelease, states
    <3>2. \A q \in Proc : write'[q].at = "extract" => write'[q] = write[q]
      BY <1>2, <2>2 DEF DbWrite, WriteFails, WriteStore, WriteExtracted, WriteError, WriteRelease,
                        WriteGoto, Fault, Quiet, TypeInv, TypeOK
    <3>3. QED
      BY <3>1, <3>2 DEF TagFirst
  <2>3. QED
    BY <2>1, <2>2
<1>3. ASSUME \/ \E p \in Proc : Crash(p)
             \/ \E w \in Worker : Parent(w)
             \/ Pool
      PROVE  TagFirst'
  <2>1. UNCHANGED tagged /\ doomed \subseteq Proc
    BY <1>3 DEF Crash, Parent, Judge, OnDead, Restart, KillReplaced, Pool, StopAll, StopJoin, StartAll,
                states, TypeInv, TypeOK
  <2>2. \A q \in Proc : write'[q].at = "extract" => write'[q] = write[q]
    BY <1>3 DEF Crash, Parent, Judge, OnDead, Restart, KillReplaced, Pool, StopAll, StopJoin, StartAll,
                Vanish, Quiet, TypeInv, TypeOK
  <2>3. QED
    BY <2>1, <2>2 DEF TagFirst
<1>4. CASE UNCHANGED vars
  BY <1>4 DEF vars, TagFirst
<1>5. QED
  BY <1>1, <1>2, <1>3, <1>4 DEF Next

\* If only processes that ended are judged dead, the fleet implements FileWork: a
\* file is marked by the one process that has it in hand, results first, the tag
\* second, the vectors last, and no process has more than two files in hand.
THEOREM Implementation == ASSUME ~Misjudges PROVE Spec => ImplementsFileWork
<1>1. Init => ResultsInv /\ TagFirst /\ ClaimInv
  BY InitResults, InitClaims DEF Init, TagFirst, Quiet
<1>2. TypeInv /\ ResultsInv /\ ClaimInv /\ TagFirst /\ [Next]_vars
          => ResultsInv' /\ ClaimInv' /\ TagFirst'
  BY StepResults, StepClaims, StepTagFirst
<1>3. Init => FW!Init
  <2> SUFFICES ASSUME Init PROVE FW!Init
    OBVIOUS
  <2>1. \A f \in File : Handlers(f) = {}
    BY DEF Init, Handlers, Handles, Quiet, File, NoFile
  <2>2. \A f \in File : HandsOn(f) = NoProc
    BY <2>1, SoleOfOne DEF HandsOn
  <2>3. QED
    BY <2>2 DEF Init, FW!Init
<1>4. TypeInv /\ ResultsInv /\ ClaimInv /\ TagFirst /\ [Next]_vars
          => [FW!Next]_<<[f \in File |-> HandsOn(f)], FW!marks>>
  <2> SUFFICES ASSUME TypeInv, ResultsInv, ClaimInv, TagFirst, [Next]_vars
               PROVE  FW!Next \/ UNCHANGED <<[f \in File |-> HandsOn(f)], states>>
    BY DEF FW!marks, states
  <2>1. CASE UNCHANGED vars
    BY <2>1 DEF vars, states, HandsOn, Handlers, Handles
  <2>2. QED
    BY <2>1, LoopWork, WriteWork, ParentWork DEF Next
<1>5. QED
  BY <1>1, <1>2, <1>3, <1>4, InitType, StepType, PTL DEF Spec, FW!Spec, ImplementsFileWork
=============================================================================
