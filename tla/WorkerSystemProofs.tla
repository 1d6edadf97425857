------------------------- MODULE WorkerSystemProofs -------------------------
(***************************************************************************)
(* What holds of WorkerSystem for any limits and any number of workers,    *)
(* processes and timers.                                                   *)
(*                                                                         *)
(* Invariants:                                                             *)
(*  - TypeInv: the types, and what a thread of a restart refers to;        *)
(*  - RestartBudget is inductive with it;                                  *)
(*  - TidyInv, while no stop overlapped a restart and no start broke off:  *)
(*    where a death is dealt with, which timers the dict knows, what a     *)
(*    stop leaves, and that the list has every worker at its position.     *)
(***************************************************************************)
EXTENDS WorkerSystem, FiniteSetTheorems, SequenceTheorems, TLAPS

ThreadState == [at : Stage, worker : Worker \cup {NoWorker}, new : Proc \cup {NoProc}]

\* A thread that is not free is about a worker, from its start on about a process.
TypedThread ==
    {r \in ThreadState :
        /\ r.at # "free" => r.worker \in Worker
        /\ r.at \in {"started", "registered", "replaced"} => r.new \in Proc /\ r.new.worker = r.worker}

TypeInv ==
    /\ TypeOK
    /\ thread \in [Timer -> TypedThread]
    /\ ctl = "register" => workers # <<>>

\* A death has been decided on, and the new process is not registered yet.
Restarting(t) == Owed(t) \/ At(t, "started")

\* A dead worker is dealt with in one place: it is to be heard of, or heard of, or
\* started again by one thread.
OneAnswer ==
    /\ \A w \in undelivered : status[w] = "dead" /\ hearing # w
    /\ hearing # NoWorker => status[hearing] = "dead"
    /\ \A t \in Timer : Restarting(t) =>
          /\ status[thread[t].worker] = "dead"
          /\ thread[t].worker \notin undelivered /\ thread[t].worker # hearing
          /\ \A u \in Timer : (Restarting(u) /\ thread[u].worker = thread[t].worker) => u = t

\* The dict has the timers that wait, and forgets a timer before it does much.
Tracked ==
    /\ \A t \in Timer : At(t, "armed") => pending[thread[t].worker] = t
    /\ \A w \in Worker : pending[w] # NoTimer =>
          \/ ctl = "cancelled"
          \/ /\ thread[pending[w]].at \in {"armed", "fired"}
             /\ thread[pending[w]].worker = w

\* A stop leaves nothing under way.
Stopped ==
    /\ ctl \in {"cancelled", "signalled", "unregistered", "joined"} =>
          hearing = NoWorker /\ undelivered = {} /\ \A t \in Timer : At(t, "free")
    /\ ctl \in {"unregistered", "joined"} => \A w \in Worker : status[w] = "absent"

\* Each worker is in the list at its position before it is registered, and stays
\* there until all are gone.
InList ==
    /\ \A i \in 1..Len(workers) : workers[i].worker = i
    /\ \A w \in Worker : status[w] # "absent" => w <= Len(workers) /\ (ctl = "register" => w # next)
    /\ \A t \in Timer : ~At(t, "free") => thread[t].worker <= Len(workers)
    /\ ctl = "launch" => next = Len(workers) + 1
    /\ ctl = "register" => next = Len(workers)
    /\ (~started /\ ctl \in {"idle", "start", "stop"}) => workers = <<>>

Tidy    == OneAnswer /\ Tracked /\ Stopped /\ InList
TidyInv == ~torn => Tidy
-----------------------------------------------------------------------------
(* Types. *)

LEMMA IdleThread == Idle \in TypedThread /\ Idle.at = "free"
BY DEF Idle, TypedThread, ThreadState, Stage

LEMMA ArmedThread ==
    ASSUME NEW w \in Worker
    PROVE  /\ [at |-> "armed", worker |-> w, new |-> NoProc] \in TypedThread
           /\ [at |-> "armed", worker |-> w, new |-> NoProc].at = "armed"
           /\ [at |-> "armed", worker |-> w, new |-> NoProc].worker = w
BY DEF TypedThread, ThreadState, Stage

\* A thread that goes on with the worker and the process it has.
LEMMA ThreadMoves ==
    ASSUME NEW r \in TypedThread
    PROVE  /\ r.at # "free" => r.worker \in Worker
           /\ r.at # "free" => \A at \in {"fired", "enabled"} :
                 /\ [r EXCEPT !.at = at] \in TypedThread
                 /\ [r EXCEPT !.at = at].at = at /\ [r EXCEPT !.at = at].worker = r.worker
           /\ r.at # "free" => \A p \in Proc : p.worker = r.worker =>
                 /\ [r EXCEPT !.at = "started", !.new = p] \in TypedThread
                 /\ [r EXCEPT !.at = "started", !.new = p].at = "started"
                 /\ [r EXCEPT !.at = "started", !.new = p].worker = r.worker
           /\ r.at \in {"started", "registered", "replaced"} =>
                 /\ r.new \in Proc /\ r.new.worker = r.worker
                 /\ \A at \in {"registered", "replaced"} :
                       /\ [r EXCEPT !.at = at] \in TypedThread
                       /\ [r EXCEPT !.at = at].at = at /\ [r EXCEPT !.at = at].worker = r.worker
<1>1. /\ r \in ThreadState /\ (r.at # "free" => r.worker \in Worker)
      /\ r.at \in {"started", "registered", "replaced"} => r.new \in Proc /\ r.new.worker = r.worker
  BY DEF TypedThread
<1>2. ASSUME r.at # "free", NEW at \in {"fired", "enabled"}
      PROVE  /\ [r EXCEPT !.at = at] \in TypedThread
             /\ [r EXCEPT !.at = at].at = at /\ [r EXCEPT !.at = at].worker = r.worker
  BY <1>1, <1>2 DEF TypedThread, ThreadState, Stage
<1>3. ASSUME r.at # "free", NEW p \in Proc, p.worker = r.worker
      PROVE  /\ [r EXCEPT !.at = "started", !.new = p] \in TypedThread
             /\ [r EXCEPT !.at = "started", !.new = p].at = "started"
             /\ [r EXCEPT !.at = "started", !.new = p].worker = r.worker
  BY <1>1, <1>3 DEF TypedThread, ThreadState, Stage
<1>4. ASSUME r.at \in {"started", "registered", "replaced"}, NEW at \in {"registered", "replaced"}
      PROVE  /\ [r EXCEPT !.at = at] \in TypedThread
             /\ [r EXCEPT !.at = at].at = at /\ [r EXCEPT !.at = at].worker = r.worker
  BY <1>1, <1>4 DEF TypedThread, ThreadState, Stage
<1>5. QED
  BY <1>1, <1>2, <1>3, <1>4

LEMMA InitType == Init => TypeInv
<1>1. SUFFICES ASSUME Init PROVE TypeInv
  OBVIOUS
<1>2. thread \in [Timer -> TypedThread]
  BY <1>1, IdleThread DEF Init
<1>3. thread \in [Timer -> ThreadState]
  BY <1>2 DEF TypedThread
<1>4. 1 \in Worker
  BY WorkersAssumption DEF Worker
<1>5. workers \in Seq(Proc) /\ ctl # "register"
  BY <1>1 DEF Init
<1>6. status \in [Worker -> HS!Status] /\ monitored \in [Worker -> Proc \cup {NoProc}]
  BY <1>1 DEF Init, HS!Status
<1>7. count \in [Worker -> 0..MaxLifetime] /\ spawned \in [Worker -> Nat]
  BY <1>1, LimitsAssumption DEF Init
<1>8. pending \in [Worker -> Timer \cup {NoTimer}]
  BY <1>1 DEF Init
<1>9. TypeOK
  BY <1>1, <1>3, <1>4, <1>5, <1>6, <1>7, <1>8 DEF Init, TypeOK, ThreadState
<1>10. QED
  BY <1>2, <1>5, <1>9 DEF TypeInv

\* Registering changes the status of one worker, to "pending" if at all.
LEMMA Registered ==
    ASSUME TypeInv, NEW w \in Worker, NEW p \in Proc, RegisterComponent(w, p)
    PROVE  /\ status' \in [Worker -> HS!Status] /\ monitored' \in [Worker -> Proc \cup {NoProc}]
           /\ abandoned' \subseteq Worker
           /\ \A v \in Worker \ {w} : status'[v] = status[v]
           /\ status'[w] = IF status[w] = "failed" THEN "failed" ELSE "pending"
BY ZenonT(60) DEF RegisterComponent, HS!Register, HS!Status, HS!Live, TypeInv, TypeOK

\* A thread that runs changes what it is at, and the list keeps its length or grows.
LEMMA TimerType ==
    ASSUME TypeInv, NEW t \in Timer, Fire(t) \/ RestartWorker(t)
    PROVE  TypeInv'
<1> DEFINE w == thread[t].worker
<1>1. /\ thread \in [Timer -> TypedThread] /\ thread[t] \in TypedThread /\ Idle \in TypedThread
      /\ thread[t].at # "free" /\ w \in Worker
  <2>1. thread[t] \in TypedThread
    BY DEF TypeInv
  <2>2. thread[t].at # "free"
    BY DEF Fire, RestartWorker, CheckEnabled, Spawn, SpawnFails, RegisterNew, Replace, Assign, At
  <2>3. QED
    BY <2>1, <2>2, IdleThread, ThreadMoves DEF TypeInv
<1>2. /\ workers \in Seq(Proc) /\ pending \in [Worker -> Timer \cup {NoTimer}]
      /\ status \in [Worker -> HS!Status] /\ monitored \in [Worker -> Proc \cup {NoProc}]
      /\ alive \subseteq Proc /\ spawned \in [Worker -> Nat] /\ abandoned \subseteq Worker
  BY DEF TypeInv, TypeOK
<1>3. SUFFICES /\ thread' \in [Timer -> TypedThread]
               /\ workers' \in Seq(Proc) /\ (workers # <<>> => workers' # <<>>)
               /\ pending' \in [Worker -> Timer \cup {NoTimer}]
               /\ status' \in [Worker -> HS!Status] /\ monitored' \in [Worker -> Proc \cup {NoProc}]
               /\ alive' \subseteq Proc /\ spawned' \in [Worker -> Nat] /\ abandoned' \subseteq Worker
  <2>1. UNCHANGED <<enabled, started, stopEvent, control, hearing, undelivered, count, givenUp, torn>>
    BY DEF Fire, RestartWorker, CheckEnabled, Spawn, SpawnFails, RegisterNew, Replace, Assign, pool, monitor, history
  <2>2. thread' \in [Timer -> ThreadState]
    BY <1>3 DEF TypedThread
  <2>3. QED
    BY <1>3, <2>1, <2>2 DEF TypeInv, TypeOK, ThreadState, control
<1> USE DEF pool, control, monitor, history
<1>4. CASE Fire(t)
  <2>1. [thread[t] EXCEPT !.at = "fired"] \in TypedThread
    BY <1>1, ThreadMoves
  <2>2. QED
    BY <1>1, <1>2, <1>4, <2>1 DEF Fire
<1>5. CASE CheckEnabled(t)
  <2>1. [thread[t] EXCEPT !.at = "enabled"] \in TypedThread
    BY <1>1, ThreadMoves
  <2>2. thread' \in [Timer -> TypedThread]
    BY <1>1, <1>5, <2>1 DEF CheckEnabled
  <2>3. QED
    BY <1>1, <1>2, <1>5, <2>2 DEF CheckEnabled
<1>6. CASE Spawn(t)
  <2>1. PICK p \in Proc : /\ Launch(p, w)
                          /\ thread' = [thread EXCEPT ![t] = [thread[t] EXCEPT !.at = "started", !.new = p]]
    BY <1>6 DEF Spawn
  <2>2. [thread[t] EXCEPT !.at = "started", !.new = p] \in TypedThread /\ alive' \subseteq Proc
    BY <1>1, <1>2, <2>1, ThreadMoves DEF Launch
  <2>3. thread' \in [Timer -> TypedThread]
    BY <1>1, <2>1, <2>2
  <2>4. spawned' \in [Worker -> Nat]
    BY <1>1, <1>2, <1>6 DEF Spawn
  <2>5. QED
    BY <1>2, <1>6, <2>2, <2>3, <2>4 DEF Spawn
<1>7. CASE SpawnFails(t)
  BY <1>1, <1>2, <1>7 DEF SpawnFails
<1>8. CASE RegisterNew(t)
  <2>1. [thread[t] EXCEPT !.at = "registered"] \in TypedThread /\ thread[t].new \in Proc
    BY <1>1, <1>8, ThreadMoves DEF RegisterNew, At
  <2>2. thread' \in [Timer -> TypedThread]
    BY <1>1, <1>8, <2>1 DEF RegisterNew
  <2>3. QED
    BY <1>1, <1>2, <1>8, <2>1, <2>2, Registered DEF RegisterNew
<1>9. CASE Replace(t)
  <2>1. [thread[t] EXCEPT !.at = "replaced"] \in TypedThread /\ thread[t].new \in Proc
    BY <1>1, <1>9, ThreadMoves DEF Replace, At
  <2>2. thread' \in [Timer -> TypedThread]
    BY <1>1, <1>9, <2>1 DEF Replace
  <2>3. workers' \in Seq(Proc) /\ (workers # <<>> => workers' # <<>>)
    <3>1. Append(workers, thread[t].new) \in Seq(Proc) /\ Append(workers, thread[t].new) # <<>>
      BY <1>2, <2>1, AppendProperties
    <3>2. QED
      BY <1>2, <1>9, <3>1 DEF Replace
  <2>4. alive' \subseteq Proc
    BY <1>2, <1>9 DEF Replace, Kill
  <2>5. QED
    BY <1>2, <1>9, <2>2, <2>3, <2>4 DEF Replace
<1>10. CASE Assign(t)
  <2>1. thread[t].new \in Proc
    BY <1>1, <1>10, ThreadMoves DEF Assign, At
  <2>2. workers' \in Seq(Proc) /\ Len(workers') = Len(workers)
    BY <1>1, <1>2, <1>10, <2>1, ExceptSeq DEF Assign, Worker
  <2>3. QED
    BY <1>1, <1>2, <1>10, <2>2, EmptySeq DEF Assign
<1>11. QED
  BY <1>4, <1>5, <1>6, <1>7, <1>8, <1>9, <1>10 DEF RestartWorker

\* The threads after a timer was cancelled, or put in a place that is free.
LEMMA CancelType ==
    ASSUME TypeInv, NEW w \in Worker
    PROVE  /\ [u \in Timer |-> IF u = pending[w] /\ Cancelled(u) THEN Idle ELSE thread[u]]
                 \in [Timer -> TypedThread]
           /\ \A t \in Timer :
                 [u \in Timer |-> IF u = t THEN [at |-> "armed", worker |-> w, new |-> NoProc]
                                  ELSE IF u = pending[w] /\ Cancelled(u) THEN Idle ELSE thread[u]]
                 \in [Timer -> TypedThread]
BY IdleThread, ArmedThread DEF TypeInv

LEMMA CallbackType ==
    ASSUME TypeInv, Callback
    PROVE  TypeInv'
<1> USE DEF pool, control, monitor, history
<1>1. /\ thread \in [Timer -> TypedThread] /\ pending \in [Worker -> Timer \cup {NoTimer}]
      /\ status \in [Worker -> HS!Status] /\ count \in [Worker -> 0..MaxLifetime]
      /\ hearing \in Worker \cup {NoWorker} /\ undelivered \subseteq Worker
      /\ abandoned \subseteq Worker /\ givenUp \subseteq Worker
  BY DEF TypeInv, TypeOK
<1>2. SUFFICES /\ thread' \in [Timer -> TypedThread] /\ pending' \in [Worker -> Timer \cup {NoTimer}]
               /\ status' \in [Worker -> HS!Status] /\ count' \in [Worker -> 0..MaxLifetime]
               /\ hearing' \in Worker \cup {NoWorker} /\ undelivered' \subseteq Worker
               /\ abandoned' \subseteq Worker /\ givenUp' \subseteq Worker
  <2>1. UNCHANGED <<pool, control, monitored, alive, spawned, torn>>
    BY DEF Callback, Hear, HearFails, Decide, DecideFails
  <2>2. thread' \in [Timer -> ThreadState]
    BY <1>2 DEF TypedThread
  <2>3. QED
    BY <1>2, <2>1, <2>2 DEF TypeInv, TypeOK, ThreadState
<1>3. ASSUME NEW w \in Worker, Hear(w) \/ HearFails(w)
      PROVE  /\ thread' \in [Timer -> TypedThread] /\ pending' \in [Worker -> Timer \cup {NoTimer}]
             /\ status' \in [Worker -> HS!Status] /\ count' \in [Worker -> 0..MaxLifetime]
             /\ hearing' \in Worker \cup {NoWorker} /\ undelivered' \subseteq Worker
             /\ abandoned' \subseteq Worker /\ givenUp' \subseteq Worker
  BY <1>1, <1>3 DEF Hear, HearFails
<1>4. ASSUME NEW w \in Worker, Decide(w)
      PROVE  /\ thread' \in [Timer -> TypedThread] /\ pending' \in [Worker -> Timer \cup {NoTimer}]
             /\ status' \in [Worker -> HS!Status] /\ count' \in [Worker -> 0..MaxLifetime]
             /\ hearing' \in Worker \cup {NoWorker} /\ undelivered' \subseteq Worker
             /\ abandoned' \subseteq Worker /\ givenUp' \subseteq Worker
  <2>1. hearing' = NoWorker /\ UNCHANGED undelivered
    BY <1>4 DEF Decide
  <2>2. CASE GiveUp(w)
    <3>1. status' \in [Worker -> HS!Status]
      BY <1>1, <2>2 DEF GiveUp, HS!Fail, HS!Status
    <3>2. QED
      BY <1>1, <2>1, <2>2, <3>1, CancelType DEF GiveUp
  <2>3. ASSUME NEW t \in Timer, NEW inWindow \in BOOLEAN, ShouldRestart(count[w], inWindow), Schedule(w, t)
        PROVE  /\ thread' \in [Timer -> TypedThread] /\ pending' \in [Worker -> Timer \cup {NoTimer}]
               /\ status' \in [Worker -> HS!Status] /\ count' \in [Worker -> 0..MaxLifetime]
               /\ abandoned' \subseteq Worker /\ givenUp' \subseteq Worker
    <3>1. count' \in [Worker -> 0..MaxLifetime]
      BY <1>1, <2>3, LimitsAssumption DEF Schedule, ShouldRestart
    <3>2. QED
      BY <1>1, <2>3, <3>1, CancelType DEF Schedule
  <2>4. QED
    BY <1>1, <1>4, <2>1, <2>2, <2>3 DEF Decide
<1>5. ASSUME NEW w \in Worker, DecideFails(w)
      PROVE  /\ thread' \in [Timer -> TypedThread] /\ pending' \in [Worker -> Timer \cup {NoTimer}]
             /\ status' \in [Worker -> HS!Status] /\ count' \in [Worker -> 0..MaxLifetime]
             /\ hearing' \in Worker \cup {NoWorker} /\ undelivered' \subseteq Worker
             /\ abandoned' \subseteq Worker /\ givenUp' \subseteq Worker
  BY <1>1, <1>5, CancelType DEF DecideFails
<1>6. QED
  BY <1>3, <1>4, <1>5 DEF Callback

\* What pauses, resumes, stops and starts change.
LEMMA ControlType ==
    ASSUME TypeInv, Pause \/ Resume \/ StopAllWorkers \/ StartAllWorkers
    PROVE  TypeInv'
<1> USE DEF pool, control, monitor, history
<1>1. /\ thread \in [Timer -> TypedThread] /\ workers \in Seq(Proc)
      /\ status \in [Worker -> HS!Status] /\ monitored \in [Worker -> Proc \cup {NoProc}]
      /\ alive \subseteq Proc /\ abandoned \subseteq Worker /\ torn \in BOOLEAN
      /\ next \in Worker /\ admitted \in Worker /\ started \in BOOLEAN
      /\ pending \in [Worker -> Timer \cup {NoTimer}] /\ 1 \in Worker
      /\ enabled \in BOOLEAN /\ stopEvent \in BOOLEAN
  BY WorkersAssumption DEF TypeInv, TypeOK, Worker
<1> DEFINE Typed ==
             /\ thread' \in [Timer -> TypedThread] /\ workers' \in Seq(Proc)
             /\ status' \in [Worker -> HS!Status] /\ monitored' \in [Worker -> Proc \cup {NoProc}]
             /\ alive' \subseteq Proc /\ abandoned' \subseteq Worker /\ torn' \in BOOLEAN
             /\ next' \in Worker /\ admitted' \in Worker /\ started' \in BOOLEAN
             /\ pending' \in [Worker -> Timer \cup {NoTimer}]
             /\ enabled' \in BOOLEAN /\ stopEvent' \in BOOLEAN
             /\ ctl' = "register" => workers' # <<>>
<1>2. SUFFICES Typed
  <2>1. UNCHANGED <<hearing, undelivered, count, givenUp, spawned>>
    BY DEF Pause, Resume, StopAllWorkers, StartAllWorkers, StopBegin, StopSignal, StopUnregister,
           StopJoin, StopEnd, StartBegin, StartWorker, StartFails, StartRegister
  <2>2. ctl' \in {"idle", "stop", "cancelled", "signalled", "unregistered", "joined",
                  "start", "launch", "register"}
    BY DEF Pause, Resume, StopAllWorkers, StartAllWorkers, StopBegin, StopSignal, StopUnregister,
           StopJoin, StopEnd, StartBegin, StartWorker, StartFails, StartRegister
  <2>3. thread' \in [Timer -> ThreadState]
    BY <1>2 DEF TypedThread
  <2>4. QED
    BY <1>2, <2>1, <2>2, <2>3 DEF TypeInv, TypeOK, ThreadState
<1>3. CASE Pause \/ Resume
  BY <1>1, <1>3 DEF Pause, Resume
<1>4. CASE StopBegin
  <2>1. thread' \in [Timer -> TypedThread]
    BY <1>1, <1>4, IdleThread DEF StopBegin
  <2>2. torn' \in BOOLEAN
    BY <1>1, <1>4 DEF StopBegin
  <2>3. QED
    BY <1>1, <1>4, <2>1, <2>2 DEF StopBegin
<1>5. CASE StopSignal
  BY <1>1, <1>5 DEF StopSignal
<1>6. CASE StopUnregister
  <2>1. status' \in [Worker -> HS!Status] /\ monitored' \in [Worker -> Proc \cup {NoProc}]
    BY <1>1, <1>6 DEF StopUnregister, HS!Status
  <2>2. QED
    BY <1>1, <1>6, <2>1 DEF StopUnregister
<1>7. CASE StopJoin
  BY <1>1, <1>7 DEF StopJoin, Kill
<1>8. CASE StopEnd
  BY <1>1, <1>8, EmptySeq DEF StopEnd
<1>9. CASE StartBegin
  BY <1>1, <1>9 DEF StartBegin
<1>10. CASE StartWorker
  <2>1. PICK p \in Proc : alive' = alive \cup {p} /\ workers' = Append(workers, p)
    BY <1>10 DEF StartWorker, Launch
  <2>2. workers' \in Seq(Proc) /\ workers' # <<>>
    BY <1>1, <2>1, AppendProperties
  <2>3. QED
    BY <1>1, <1>10, <2>1, <2>2 DEF StartWorker
<1>11. CASE StartFails
  BY <1>1, <1>11 DEF StartFails
<1>12. CASE StartRegister
  <2>1. workers[Len(workers)] \in Proc
    <3>1. Len(workers) \in 1..Len(workers)
      BY <1>1, <1>12, EmptySeq DEF StartRegister, TypeInv
    <3>2. QED
      BY <1>1, <3>1, LenProperties
  <2>2. /\ status' \in [Worker -> HS!Status] /\ monitored' \in [Worker -> Proc \cup {NoProc}]
        /\ abandoned' \subseteq Worker
    BY <1>1, <1>12, <2>1, Registered DEF StartRegister
  <2>3. next' \in Worker
    BY <1>1, <1>12, WorkersAssumption DEF StartRegister, Worker
  <2>4. ctl' # "register" /\ started' \in BOOLEAN /\ admitted' \in Worker
    BY <1>1, <1>12 DEF StartRegister
  <2>5. QED
    BY <1>1, <1>12, <2>2, <2>3, <2>4 DEF StartRegister
<1>13. QED
  BY <1>3, <1>4, <1>5, <1>6, <1>7, <1>8, <1>9, <1>10, <1>11, <1>12 DEF StopAllWorkers, StartAllWorkers

LEMMA StepType ==
    ASSUME TypeInv, [Next]_vars
    PROVE  TypeInv'
<1> USE DEF pool, control, monitor, history
<1>1. ASSUME NEW p \in Proc, Exit(p) PROVE TypeInv'
  BY <1>1 DEF Exit, TypeInv, TypeOK
<1>2. ASSUME NEW w \in Worker, Judge(w) PROVE TypeInv'
  <2>1. status' \in [Worker -> HS!Status] /\ torn' \in BOOLEAN
    <3>1. torn' \in BOOLEAN
      BY <1>2 DEF Judge
    <3>2. QED
      BY <1>2, <3>1 DEF Judge, HS!Closed, HS!Status, TypeInv, TypeOK
  <2>2. QED
    BY <1>2, <2>1 DEF Judge, TypeInv, TypeOK
<1>3. CASE UNCHANGED vars
  BY <1>3 DEF vars, TypeInv, TypeOK
<1>4. QED
  BY <1>1, <1>2, <1>3, TimerType, CallbackType, ControlType DEF Next

\* Types, for any limits, workers, processes and timers: what a thread finds in its
\* record is a worker and, from its start on, a process of that worker.
THEOREM TypeCorrect == Spec => []TypeOK
<1>1. Init => TypeInv
  BY InitType
<1>2. TypeInv /\ [Next]_vars => TypeInv'
  BY StepType
<1>3. TypeInv => TypeOK
  BY DEF TypeInv
<1>4. QED
  BY <1>1, <1>2, <1>3, PTL DEF Spec
-----------------------------------------------------------------------------
(* The budget. *)

\* The threads that owe a worker a restart.
Owing(w) == {t \in Timer : Owed(t) /\ thread[t].worker = w}

LEMMA OwingFinite ==
    /\ IsFiniteSet(Timer)
    /\ \A w : IsFiniteSet(Owing(w)) /\ Cardinality(Owing(w)) \in Nat
<1>1. IsFiniteSet(Timer)
  BY BoundsAssumption, FS_Interval DEF Timer
<1>2. ASSUME NEW w PROVE IsFiniteSet(Owing(w)) /\ Cardinality(Owing(w)) \in Nat
  BY <1>1, FS_Subset, FS_CardinalityType DEF Owing
<1>3. QED
  BY <1>1, <1>2

BudgetOf(w) ==
    /\ spawned[w] + Cardinality(Owing(w)) <= count[w]
    /\ count[w] <= MaxLifetime
    /\ w \in givenUp => count[w] >= MaxInWindow \/ count[w] >= MaxLifetime

LEMMA BudgetByWorker ==
    /\ RestartBudget <=> \A w \in Worker : BudgetOf(w)
    /\ RestartBudget' <=> \A w \in Worker : BudgetOf(w)'
BY DEF RestartBudget, BudgetOf, Owing

LEMMA InitBudget == Init => RestartBudget
<1>1. SUFFICES ASSUME Init, NEW w \in Worker PROVE BudgetOf(w)
  BY BudgetByWorker
<1>2. Owing(w) = {}
  BY <1>1 DEF Init, Owing, Owed, Idle
<1>3. Cardinality(Owing(w)) = 0
  BY <1>2, FS_EmptySet
<1>4. QED
  BY <1>1, <1>3, LimitsAssumption DEF Init, BudgetOf

\* A step that starts and owes nothing more leaves the budget as it is.
LEMMA NothingMore ==
    ASSUME TypeInv, RestartBudget, UNCHANGED <<spawned, count, givenUp>>,
           \A t \in Timer : Owed(t)' => Owed(t) /\ thread'[t].worker = thread[t].worker
    PROVE  RestartBudget'
<1>1. SUFFICES ASSUME NEW w \in Worker PROVE BudgetOf(w)'
  BY BudgetByWorker
<1>2. Owing(w)' \subseteq Owing(w)
  BY DEF Owing
<1>3. Cardinality(Owing(w)') <= Cardinality(Owing(w)) /\ Cardinality(Owing(w)') \in Nat
  BY <1>2, OwingFinite, FS_Subset, FS_CardinalityType
<1>4. Cardinality(Owing(w)') = Cardinality(Owing(w))'
  OBVIOUS
<1>5. BudgetOf(w)
  BY BudgetByWorker
<1>6. spawned[w] \in Nat /\ count[w] \in Nat /\ Cardinality(Owing(w)) \in Nat
  BY OwingFinite, LimitsAssumption DEF TypeInv, TypeOK
<1>7. QED
  BY <1>3, <1>4, <1>5, <1>6 DEF BudgetOf

\* A timer is scheduled: one restart more is owed, and paid for.
LEMMA ScheduleBudget ==
    ASSUME TypeInv, RestartBudget, NEW w \in Worker, NEW t \in Timer, At(t, "free"),
           NEW inWindow \in BOOLEAN, ShouldRestart(count[w], inWindow),
           Schedule(w, t), UNCHANGED spawned
    PROVE  RestartBudget'
<1>1. /\ thread \in [Timer -> TypedThread] /\ count \in [Worker -> 0..MaxLifetime]
      /\ spawned \in [Worker -> Nat]
  BY DEF TypeInv, TypeOK
<1>2. \A u \in Timer : Owed(u)' => u = t \/ (Owed(u) /\ thread'[u] = thread[u])
  BY IdleThread DEF Schedule, Owed
<1>3. thread'[t].worker = w
  BY ArmedThread DEF Schedule
<1>4. count'[w] = count[w] + 1 /\ \A v \in Worker \ {w} : count'[v] = count[v]
  BY <1>1 DEF Schedule
<1>5. SUFFICES ASSUME NEW v \in Worker PROVE BudgetOf(v)'
  BY BudgetByWorker
<1>6. BudgetOf(v)
  BY BudgetByWorker
<1>7. spawned[v] \in Nat /\ count[v] \in Nat /\ MaxLifetime \in Nat /\ MaxInWindow \in Nat
      /\ Cardinality(Owing(v)) \in Nat /\ IsFiniteSet(Owing(v))
  BY <1>1, OwingFinite, LimitsAssumption
<1>8. CASE v = w
  <2>1. Owing(v)' \subseteq Owing(v) \cup {t}
    BY <1>2 DEF Owing
  <2>2. /\ IsFiniteSet(Owing(v) \cup {t}) /\ Cardinality(Owing(v) \cup {t}) <= Cardinality(Owing(v)) + 1
        /\ Cardinality(Owing(v) \cup {t}) \in Nat
    <3> DEFINE S == Owing(v)
    <3>1. IsFiniteSet(S) /\ Cardinality(S) \in Nat
      BY <1>7
    <3> HIDE DEF S
    <3>2. /\ IsFiniteSet(S \cup {t})
          /\ Cardinality(S \cup {t}) = IF t \in S THEN Cardinality(S) ELSE Cardinality(S) + 1
      BY <3>1, FS_AddElement
    <3>3. /\ IsFiniteSet(S \cup {t}) /\ Cardinality(S \cup {t}) <= Cardinality(S) + 1
          /\ Cardinality(S \cup {t}) \in Nat
      BY <3>1, <3>2
    <3>4. QED
      BY <3>3 DEF S
  <2>3. Cardinality(Owing(v)') <= Cardinality(Owing(v)) + 1 /\ Cardinality(Owing(v)') \in Nat
    BY <2>1, <2>2, <1>7, FS_Subset, FS_CardinalityType
  <2>4. count[v] + 1 <= MaxLifetime
    BY <1>1, <1>7, <1>8, LimitsAssumption DEF ShouldRestart
  <2>5. QED
    BY <1>4, <1>6, <1>7, <1>8, <2>3, <2>4 DEF BudgetOf, Schedule
<1>9. CASE v # w
  <2>1. Owing(v)' \subseteq Owing(v)
    BY <1>2, <1>3, <1>9 DEF Owing
  <2>2. Cardinality(Owing(v)') <= Cardinality(Owing(v)) /\ Cardinality(Owing(v)') \in Nat
    BY <1>7, <2>1, FS_Subset, FS_CardinalityType
  <2>3. QED
    BY <1>4, <1>6, <1>7, <1>9, <2>2 DEF BudgetOf, Schedule
<1>10. QED
  BY <1>8, <1>9

\* A worker is given up: nothing more is owed, and its budget is spent.
LEMMA GiveUpBudget ==
    ASSUME TypeInv, RestartBudget, NEW w \in Worker, NEW inWindow \in BOOLEAN,
           ~ShouldRestart(count[w], inWindow), GiveUp(w), UNCHANGED spawned
    PROVE  RestartBudget'
<1>1. \A u \in Timer : Owed(u)' => Owed(u) /\ thread'[u] = thread[u]
  BY IdleThread DEF GiveUp, Owed
<1>2. SUFFICES ASSUME NEW v \in Worker PROVE BudgetOf(v)'
  BY BudgetByWorker
<1>3. BudgetOf(v)
  BY BudgetByWorker
<1>4. spawned[v] \in Nat /\ count[v] \in Nat /\ MaxLifetime \in Nat /\ MaxInWindow \in Nat
      /\ Cardinality(Owing(v)) \in Nat /\ IsFiniteSet(Owing(v))
  BY OwingFinite, LimitsAssumption DEF TypeInv, TypeOK
<1>5. Owing(v)' \subseteq Owing(v)
  BY <1>1 DEF Owing
<1>6. Cardinality(Owing(v)') <= Cardinality(Owing(v)) /\ Cardinality(Owing(v)') \in Nat
  BY <1>4, <1>5, FS_Subset, FS_CardinalityType
<1>7. v \in givenUp' => count[v] >= MaxInWindow \/ count[v] >= MaxLifetime
  BY <1>3, <1>4 DEF GiveUp, ShouldRestart, BudgetOf
<1>8. QED
  BY <1>3, <1>4, <1>6, <1>7 DEF BudgetOf, GiveUp

\* A replacement is started: what was owed is delivered.
LEMMA SpawnBudget ==
    ASSUME TypeInv, RestartBudget, NEW t \in Timer, Spawn(t)
    PROVE  RestartBudget'
<1> DEFINE w == thread[t].worker
<1>1. /\ thread \in [Timer -> TypedThread] /\ thread[t] \in TypedThread
      /\ spawned \in [Worker -> Nat]
  BY DEF TypeInv, TypeOK
<1>2. w \in Worker /\ Owed(t)
  BY <1>1, ThreadMoves DEF Spawn, At, Owed
<1>3. /\ \A u \in Timer : Owed(u)' => u # t /\ Owed(u) /\ thread'[u] = thread[u]
  <2>1. PICK p \in Proc : /\ p.worker = w
                          /\ thread' = [thread EXCEPT ![t] = [thread[t] EXCEPT !.at = "started", !.new = p]]
    BY DEF Spawn, Launch
  <2>2. thread'[t].at = "started"
    <3>1. thread[t].at # "free"
      BY DEF Spawn, At
    <3>2. [thread[t] EXCEPT !.at = "started", !.new = p].at = "started"
      BY <1>1, <2>1, <3>1, ThreadMoves
    <3>3. QED
      BY <1>1, <2>1, <3>2
  <2>3. QED
    BY <1>1, <2>1, <2>2 DEF Owed
<1>4. spawned'[w] = spawned[w] + 1 /\ \A v \in Worker \ {w} : spawned'[v] = spawned[v]
  BY <1>1, <1>2 DEF Spawn
<1>5. UNCHANGED <<count, givenUp>>
  BY DEF Spawn
<1>6. SUFFICES ASSUME NEW v \in Worker PROVE BudgetOf(v)'
  BY BudgetByWorker
<1>7. BudgetOf(v)
  BY BudgetByWorker
<1>8. spawned[v] \in Nat /\ count[v] \in Nat /\ Cardinality(Owing(v)) \in Nat /\ IsFiniteSet(Owing(v))
  BY OwingFinite, LimitsAssumption DEF TypeInv, TypeOK
<1>9. CASE v = w
  <2>1. Owing(v)' \subseteq Owing(v) \ {t} /\ t \in Owing(v)
    BY <1>2, <1>3, <1>9 DEF Owing
  <2>2. IsFiniteSet(Owing(v) \ {t}) /\ Cardinality(Owing(v) \ {t}) = Cardinality(Owing(v)) - 1
        /\ Cardinality(Owing(v) \ {t}) \in Nat
    BY <1>8, <2>1, FS_RemoveElement, FS_CardinalityType
  <2>3. Cardinality(Owing(v)') <= Cardinality(Owing(v)) - 1 /\ Cardinality(Owing(v)') \in Nat
    BY <2>1, <2>2, FS_Subset, FS_CardinalityType
  <2>4. QED
    BY <1>4, <1>5, <1>7, <1>8, <1>9, <2>3 DEF BudgetOf
<1>10. CASE v # w
  <2>1. Owing(v)' \subseteq Owing(v)
    BY <1>3 DEF Owing
  <2>2. Cardinality(Owing(v)') <= Cardinality(Owing(v)) /\ Cardinality(Owing(v)') \in Nat
    BY <1>8, <2>1, FS_Subset, FS_CardinalityType
  <2>3. QED
    BY <1>4, <1>5, <1>7, <1>8, <1>10, <2>2 DEF BudgetOf
<1>11. QED
  BY <1>9, <1>10

LEMMA StepBudget ==
    ASSUME TypeInv, RestartBudget, [Next]_vars
    PROVE  RestartBudget'
<1> USE DEF pool, control, monitor, history
<1>1. ASSUME thread' = thread, UNCHANGED <<spawned, count, givenUp>> PROVE RestartBudget'
  BY <1>1, NothingMore DEF Owed
<1>2. ASSUME NEW p \in Proc, Exit(p) PROVE RestartBudget'
  BY <1>1, <1>2 DEF Exit
<1>3. ASSUME NEW w \in Worker, Judge(w) PROVE RestartBudget'
  BY <1>1, <1>3 DEF Judge
<1>4. ASSUME NEW w \in Worker, Hear(w) \/ HearFails(w) PROVE RestartBudget'
  BY <1>1, <1>4 DEF Hear, HearFails
<1>5. ASSUME NEW w \in Worker, Decide(w) PROVE RestartBudget'
  BY <1>5, ScheduleBudget, GiveUpBudget DEF Decide
<1>6. ASSUME NEW w \in Worker, DecideFails(w) PROVE RestartBudget'
  <2>1. \A u \in Timer : Owed(u)' => Owed(u) /\ thread'[u] = thread[u]
    BY <1>6, IdleThread DEF DecideFails, Owed
  <2>2. QED
    BY <1>6, <2>1, NothingMore DEF DecideFails
<1>7. ASSUME NEW t \in Timer, Fire(t) \/ RestartWorker(t) PROVE RestartBudget'
  <2>1. thread \in [Timer -> TypedThread] /\ thread[t] \in TypedThread
    BY DEF TypeInv
  <2>2. CASE Spawn(t)
    BY <2>2, SpawnBudget
  <2>3. ASSUME UNCHANGED <<spawned, count, givenUp>>, NEW r \in TypedThread,
               thread' = [thread EXCEPT ![t] = r],
               r.at \in {"fired", "enabled"} => Owed(t) /\ r.worker = thread[t].worker,
               r.at # "armed"
        PROVE  RestartBudget'
    BY <2>1, <2>3, NothingMore DEF Owed
  <2>4. ASSUME thread' = [thread EXCEPT ![t] = Idle], UNCHANGED <<spawned, count, givenUp>>
        PROVE  RestartBudget'
    BY <2>3, <2>4, IdleThread
  <2>5. CASE Fire(t)
    <3>1. thread' = [thread EXCEPT ![t] = [thread[t] EXCEPT !.at = "fired"]]
      BY <2>5 DEF Fire
    <3>2. thread[t].at # "free" /\ Owed(t)
      BY <2>5 DEF Fire, At, Owed
    <3>3. QED
      BY <2>1, <2>3, <2>5, <3>1, <3>2, ThreadMoves DEF Fire
  <2>6. CASE CheckEnabled(t)
    <3>1. thread' = [thread EXCEPT ![t] = IF enabled THEN [thread[t] EXCEPT !.at = "enabled"] ELSE Idle]
      BY <2>6 DEF CheckEnabled
    <3>2. thread[t].at # "free" /\ Owed(t)
      BY <2>6 DEF CheckEnabled, At, Owed
    <3>3. UNCHANGED <<spawned, count, givenUp>>
      BY <2>6 DEF CheckEnabled
    <3>4. CASE enabled
      BY <2>1, <2>3, <3>1, <3>2, <3>3, <3>4, ThreadMoves
    <3>5. QED
      BY <2>4, <3>1, <3>3, <3>4
  <2>7. CASE SpawnFails(t)
    BY <2>4, <2>7 DEF SpawnFails
  <2>8. CASE RegisterNew(t)
    <3>1. /\ thread' = [thread EXCEPT ![t] = [thread[t] EXCEPT !.at = "registered"]]
          /\ UNCHANGED <<spawned, count, givenUp>>
      BY <2>8 DEF RegisterNew, RegisterComponent
    <3>2. thread[t].at = "started"
      BY <2>8 DEF RegisterNew, At
    <3>3. QED
      BY <2>1, <2>3, <3>1, <3>2, ThreadMoves
  <2>9. CASE Replace(t)
    <3>1. UNCHANGED <<spawned, count, givenUp>> /\ thread[t].at = "registered"
      BY <2>9 DEF Replace, At
    <3>2. CASE thread' = [thread EXCEPT ![t] = [thread[t] EXCEPT !.at = "replaced"]]
      BY <2>1, <2>3, <3>1, <3>2, ThreadMoves
    <3>3. QED
      BY <2>4, <2>9, <3>1, <3>2 DEF Replace
  <2>10. CASE Assign(t)
    BY <2>4, <2>10 DEF Assign
  <2>11. QED
    BY <1>7, <2>2, <2>5, <2>6, <2>7, <2>8, <2>9, <2>10 DEF RestartWorker
<1>8. CASE StopBegin
  <2>1. thread \in [Timer -> TypedThread]
    BY DEF TypeInv
  <2>2. \A u \in Timer : Owed(u)' => Owed(u) /\ thread'[u] = thread[u]
    BY <1>8, IdleThread DEF StopBegin, Owed
  <2>3. QED
    BY <1>8, <2>2, NothingMore DEF StopBegin
<1>9. CASE Pause \/ Resume \/ StopSignal \/ StopUnregister \/ StopJoin \/ StopEnd \/ StartAllWorkers
  <2>1. thread' = thread /\ UNCHANGED <<spawned, count, givenUp>>
    BY <1>9 DEF Pause, Resume, StopSignal, StopUnregister, StopJoin, StopEnd,
           StartAllWorkers, StartBegin, StartWorker, StartFails, StartRegister
  <2>2. QED
    BY <1>1, <2>1
<1>10. CASE UNCHANGED vars
  BY <1>1, <1>10 DEF vars
<1>11. QED
  BY <1>2, <1>3, <1>4, <1>5, <1>6, <1>7, <1>8, <1>9, <1>10 DEF Next, Callback, StopAllWorkers

\* The restart budget, for any limits and any number of workers and timers: no order
\* of deaths, timers, pauses and resumes starts a replacement the policy did not count,
\* the count never passes the lifetime limit, and no worker is given up before.
THEOREM BudgetKept == Spec => []RestartBudget
<1>1. Init => TypeInv /\ RestartBudget
  BY InitType, InitBudget
<1>2. TypeInv /\ RestartBudget /\ [Next]_vars => TypeInv' /\ RestartBudget'
  BY StepType, StepBudget
<1>3. QED
  BY <1>1, <1>2, PTL DEF Spec
-----------------------------------------------------------------------------
(* One answer to a death. *)

LEMMA InitTidy == Init => TidyInv
<1>1. SUFFICES ASSUME Init PROVE Tidy
  BY DEF TidyInv
<1>2. \A t \in Timer : thread[t].at = "free"
  BY <1>1 DEF Init, Idle
<1>3. OneAnswer /\ Tracked /\ Stopped
  BY <1>1, <1>2 DEF Init, OneAnswer, Tracked, Stopped, Restarting, Owed, At, NoWorker, NoTimer
<1>4. InList
  BY <1>1, <1>2, EmptySeq DEF Init, InList, At
<1>5. QED
  BY <1>3, <1>4 DEF Tidy

\* Exit, and what else leaves the answers, the timers and the list alone.
LEMMA Untouched ==
    ASSUME TidyInv, UNCHANGED <<started, workers, pending, thread, ctl, next, hearing,
                                undelivered, status, torn>>
    PROVE  TidyInv'
BY DEF TidyInv, Tidy, OneAnswer, Tracked, Stopped, InList, Restarting, Owed, At

LEMMA JudgeTidy ==
    ASSUME TypeInv, Tidy, NEW w \in Worker, Judge(w), ~torn'
    PROVE  Tidy'
<1>1. /\ hearing = NoWorker /\ status[w] \in HS!Live /\ w # NoWorker
      /\ status' = [status EXCEPT ![w] = "dead"] /\ undelivered' = undelivered \cup {w}
      /\ ctl \notin {"cancelled", "signalled"}
      /\ UNCHANGED <<started, workers, pending, thread, ctl, next, hearing>>
  <2>1. ctl \notin {"cancelled", "signalled"}
    <3>1. torn' = (torn \/ ctl \in {"cancelled", "signalled"})
      BY DEF Judge
    <3>2. QED
      BY <3>1, Zenon
  <2>2. QED
    BY <2>1 DEF Judge, HS!Closed, pool, control, Worker, NoWorker
<1>2. status[w] \notin {"absent", "dead"} /\ status'[w] = "dead"
      /\ \A v \in Worker \ {w} : status'[v] = status[v]
  BY <1>1 DEF HS!Live, TypeInv, TypeOK
<1>3. \A t \in Timer : thread[t].at # "free" => thread[t].worker \in Worker
  BY ThreadMoves DEF TypeInv
<1>4. undelivered \subseteq Worker
  BY DEF TypeInv, TypeOK
<1>5. OneAnswer'
  BY <1>1, <1>2, <1>3, <1>4 DEF Tidy, OneAnswer, Restarting, Owed, At
<1>6. Tracked'
  BY <1>1 DEF Tidy, Tracked, At
<1>7. Stopped'
  BY <1>1, <1>2 DEF Tidy, Stopped, At
<1>8. InList'
  BY <1>1, <1>2 DEF Tidy, InList, At
<1>9. QED
  BY <1>5, <1>6, <1>7, <1>8 DEF Tidy

LEMMA HearTidy ==
    ASSUME TypeInv, Tidy, NEW w \in Worker, Hear(w) \/ HearFails(w)
    PROVE  Tidy'
<1>1. /\ hearing = NoWorker /\ w \in undelivered /\ undelivered' = undelivered \ {w}
      /\ hearing' \in {NoWorker, w}
      /\ UNCHANGED <<started, workers, pending, thread, ctl, next, status>>
  <2>1. CASE Hear(w)
    BY <2>1 DEF Hear, pool, control
  <2>2. CASE HearFails(w)
    BY <2>2 DEF HearFails, pool, control
  <2>3. QED
    BY <2>1, <2>2
<1>2. OneAnswer'
  BY <1>1 DEF Tidy, OneAnswer, Restarting, Owed, At
<1>3. Tracked' /\ Stopped' /\ InList'
  BY <1>1 DEF Tidy, Tracked, Stopped, InList, At
<1>4. QED
  BY <1>2, <1>3 DEF Tidy

\* While a death is decided on there is no stop, and the dict has no timer of the worker.
LEMMA Deciding ==
    ASSUME TypeInv, Tidy, NEW w \in Worker, hearing = w
    PROVE  /\ status[w] = "dead" /\ w \notin undelivered /\ pending[w] = NoTimer
           /\ ctl \notin {"cancelled", "signalled", "unregistered", "joined"}
           /\ \A t \in Timer : Restarting(t) => thread[t].worker # w
           /\ [u \in Timer |-> IF u = pending[w] /\ Cancelled(u) THEN Idle ELSE thread[u]] = thread
<1>1. w # NoWorker
  BY DEF Worker, NoWorker
<1>2. /\ status[w] = "dead" /\ w \notin undelivered
      /\ ctl \notin {"cancelled", "signalled", "unregistered", "joined"}
      /\ \A t \in Timer : Restarting(t) => thread[t].worker # w
  BY <1>1 DEF Tidy, OneAnswer, Stopped
<1>3. pending[w] = NoTimer
  <2>1. SUFFICES ASSUME pending[w] # NoTimer PROVE FALSE
    OBVIOUS
  <2>2. pending[w] \in Timer
    BY <2>1 DEF TypeInv, TypeOK
  <2>3. thread[pending[w]].at \in {"armed", "fired"} /\ thread[pending[w]].worker = w
    BY <1>2, <2>1 DEF Tidy, Tracked
  <2>4. Restarting(pending[w])
    BY <2>3 DEF Restarting, Owed
  <2>5. QED
    BY <1>2, <2>2, <2>3, <2>4
<1>4. [u \in Timer |-> IF u = pending[w] /\ Cancelled(u) THEN Idle ELSE thread[u]] = thread
  BY <1>3 DEF Cancelled, TypeInv
<1>5. QED
  BY <1>2, <1>3, <1>4

LEMMA ScheduleTidy ==
    ASSUME TypeInv, Tidy, NEW w \in Worker, hearing = w, hearing' = NoWorker,
           NEW t \in Timer, At(t, "free"), Schedule(w, t),
           UNCHANGED <<started, workers, ctl, next, undelivered>>
    PROVE  Tidy'
<1>1. /\ status[w] = "dead" /\ w \notin undelivered /\ pending[w] = NoTimer
      /\ ctl \notin {"cancelled", "signalled", "unregistered", "joined"}
      /\ \A u \in Timer : Restarting(u) => thread[u].worker # w
  BY Deciding
<1>2. thread'[t].at = "armed" /\ thread'[t].worker = w
  BY ArmedThread DEF Schedule
<1>3. \A u \in Timer \ {t} : thread'[u] = thread[u]
  BY <1>1 DEF Schedule, Cancelled, NoTimer
<1>4. /\ pending \in [Worker -> Timer \cup {NoTimer}] /\ undelivered \subseteq Worker
      /\ \A u \in Timer : thread[u].at # "free" => thread[u].worker \in Worker
  BY ThreadMoves DEF TypeInv, TypeOK
<1>5. pending'[w] = t /\ (\A v \in Worker \ {w} : pending'[v] = pending[v]) /\ UNCHANGED status
  BY <1>4 DEF Schedule
<1>6. t # NoTimer /\ w # NoWorker /\ (NoWorker \notin Worker) /\ thread[t].at = "free"
  BY DEF Timer, NoTimer, Worker, NoWorker, At
<1>7. OneAnswer'
  <2>1. \A v \in undelivered' : status'[v] = "dead" /\ hearing' # v
    BY <1>4, <1>5, <1>6 DEF Tidy, OneAnswer
  <2>2. hearing' # NoWorker => status'[hearing'] = "dead"
    OBVIOUS
  <2>3. ASSUME NEW u \in Timer, Restarting(u)'
        PROVE  /\ status'[thread'[u].worker] = "dead"
               /\ thread'[u].worker \notin undelivered' /\ thread'[u].worker # hearing'
               /\ \A x \in Timer : (Restarting(x)' /\ thread'[x].worker = thread'[u].worker) => x = u
    <3>1. \A x \in Timer \ {t} : Restarting(x)' = Restarting(x)
      BY <1>3 DEF Restarting, Owed, At
    <3>2. CASE u = t
      BY <1>1, <1>2, <1>3, <1>5, <1>6, <3>1, <3>2
    <3>3. CASE u # t
      <4>1. Restarting(u) /\ thread'[u].worker = thread[u].worker
        BY <1>3, <2>3, <3>1, <3>3
      <4>2. thread[u].worker \in Worker /\ thread[u].worker # w
        BY <1>1, <1>4, <4>1 DEF Restarting, Owed, At
      <4>3. QED
        BY <1>2, <1>3, <1>5, <1>6, <3>1, <3>3, <4>1, <4>2 DEF Tidy, OneAnswer
    <3>4. QED
      BY <3>2, <3>3
  <2>4. QED
    BY <2>1, <2>2, <2>3 DEF OneAnswer
<1>8. Tracked'
  <2>1. ASSUME NEW u \in Timer, thread'[u].at = "armed" PROVE pending'[thread'[u].worker] = u
    <3>1. CASE u = t
      BY <1>2, <1>5, <3>1
    <3>2. CASE u # t
      <4>1. thread[u].at = "armed" /\ thread'[u].worker = thread[u].worker
        BY <1>3, <2>1, <3>2
      <4>2. thread[u].worker \in Worker /\ thread[u].worker # w
        BY <1>1, <1>4, <4>1 DEF Restarting, Owed
      <4>3. QED
        BY <1>5, <4>1, <4>2 DEF Tidy, Tracked, At
    <3>3. QED
      BY <3>1, <3>2
  <2>2. ASSUME NEW v \in Worker, pending'[v] # NoTimer
        PROVE  thread'[pending'[v]].at \in {"armed", "fired"} /\ thread'[pending'[v]].worker = v
    <3>1. CASE v = w
      BY <1>2, <1>5, <3>1
    <3>2. CASE v # w
      <4>1. pending'[v] = pending[v] /\ pending[v] \in Timer
        BY <1>4, <1>5, <2>2, <3>2
      <4>2. thread[pending[v]].at \in {"armed", "fired"} /\ thread[pending[v]].worker = v
        BY <1>1, <2>2, <4>1 DEF Tidy, Tracked
      <4>3. QED
        BY <1>3, <1>6, <4>1, <4>2
    <3>3. QED
      BY <3>1, <3>2
  <2>3. QED
    BY <2>1, <2>2 DEF Tracked, At
<1>9. Stopped'
  BY <1>1 DEF Stopped
<1>10. InList'
  <2>1. ASSUME NEW u \in Timer, thread'[u].at # "free" PROVE thread'[u].worker <= Len(workers)
    BY <1>1, <1>2, <1>3, <2>1 DEF Tidy, InList, At
  <2>2. QED
    BY <1>5, <2>1 DEF Tidy, InList, At
<1>11. QED
  BY <1>7, <1>8, <1>9, <1>10 DEF Tidy

\* The decision comes to nothing, or the worker is given up.
LEMMA GiveUpTidy ==
    ASSUME TypeInv, Tidy, NEW w \in Worker, hearing = w, hearing' = NoWorker,
           thread' = [u \in Timer |-> IF u = pending[w] /\ Cancelled(u) THEN Idle ELSE thread[u]],
           pending' = [pending EXCEPT ![w] = NoTimer],
           status' = status \/ status' = [status EXCEPT ![w] = "failed"],
           UNCHANGED <<started, workers, ctl, next, undelivered>>
    PROVE  Tidy'
<1>1. /\ status[w] = "dead" /\ w \notin undelivered /\ pending[w] = NoTimer
      /\ \A u \in Timer : Restarting(u) => thread[u].worker # w
      /\ thread' = thread
  BY Deciding
<1>2. pending' = pending
  BY <1>1 DEF TypeInv, TypeOK
<1>3. /\ status'[w] \in {"dead", "failed"} /\ \A v \in Worker \ {w} : status'[v] = status[v]
      /\ undelivered \subseteq Worker
      /\ \A u \in Timer : thread[u].at # "free" => thread[u].worker \in Worker
  BY ZenonT(60), <1>1, ThreadMoves DEF TypeInv, TypeOK
<1>4. ctl \notin {"cancelled", "signalled", "unregistered", "joined"}
  BY Deciding
<1>5. NoWorker \notin Worker
  BY DEF NoWorker, Worker
<1>6. OneAnswer'
  BY <1>1, <1>3, <1>5 DEF Tidy, OneAnswer, Restarting, Owed, At
<1>7. Tracked' /\ Stopped' /\ InList'
  BY <1>1, <1>2, <1>3, <1>4 DEF Tidy, Tracked, Stopped, InList, At
<1>8. QED
  BY <1>6, <1>7 DEF Tidy

\* A timer or its thread goes on: the same worker, and nothing else in its place.
LEMMA TimerTidy ==
    ASSUME TypeInv, Tidy, NEW t \in Timer, Fire(t) \/ RestartWorker(t)
    PROVE  Tidy'
<1> DEFINE w == thread[t].worker
<1>1. /\ thread \in [Timer -> TypedThread] /\ thread[t] \in TypedThread
      /\ thread[t].at # "free" /\ w \in Worker
      /\ \A u \in Timer : thread[u].at # "free" => thread[u].worker \in Worker
  <2>1. thread[t].at # "free"
    BY DEF Fire, RestartWorker, CheckEnabled, Spawn, SpawnFails, RegisterNew, Replace, Assign, At
  <2>2. QED
    BY <2>1, ThreadMoves DEF TypeInv
<1>2. /\ w <= Len(workers) /\ workers # <<>>
      /\ ctl \notin {"cancelled", "signalled", "unregistered", "joined"}
  <2>1. w <= Len(workers) /\ ctl \notin {"cancelled", "signalled", "unregistered", "joined"}
    BY <1>1 DEF Tidy, InList, Stopped, At
  <2>2. QED
    BY <1>1, <2>1, EmptySeq DEF Worker
<1>3. pending \in [Worker -> Timer \cup {NoTimer}] /\ NoWorker \notin Worker /\ NoTimer \notin Timer
  BY DEF TypeInv, TypeOK, NoWorker, Worker, NoTimer, Timer
\* The thread, and whatever it does to the dict, the registry and the list.
<1>4. ASSUME NEW r \in TypedThread, thread' = [thread EXCEPT ![t] = r],
             r.at # "armed", r.at # "free" => r.worker = w,
             r.at \in {"fired", "enabled", "started"} => Restarting(t),
             UNCHANGED <<hearing, undelivered, ctl, next, started>>,
             Len(workers') = Len(workers),
             \A i \in 1..Len(workers) : workers'[i].worker = i,
             \/ UNCHANGED <<pending, status>> /\ (r.at = "fired" \/ thread[t].at \notin {"armed", "fired"})
             \/ UNCHANGED status /\ pending' = [pending EXCEPT ![w] = NoTimer] /\ Restarting(t)
             \/ /\ UNCHANGED pending /\ thread[t].at = "started" /\ r.at = "registered"
                /\ status'[w] # "absent" /\ \A v \in Worker \ {w} : status'[v] = status[v]
      PROVE  Tidy'
  <2>1. thread'[t] = r /\ \A u \in Timer \ {t} : thread'[u] = thread[u]
    BY <1>1, <1>4
  <2>2. /\ \A u \in Timer \ {t} : Restarting(u)' <=> Restarting(u)
        /\ Restarting(t)' => Restarting(t) /\ r.worker = w
    BY <1>4, <2>1 DEF Restarting, Owed, At
  <2>3. status'[w] # "absent" \/ UNCHANGED status
    BY <1>4
  <2>4. \A v \in Worker : status'[v] = status[v] \/ (v = w /\ thread[t].at = "started" /\ r.at = "registered")
    BY <1>4
  <2>5. \A u \in Timer : Restarting(u) => thread[u].worker \in Worker
    BY <1>1 DEF Restarting, Owed, At
  <2>6. OneAnswer'
    <3>1. thread[t].at = "started" => w \notin undelivered /\ w # hearing
      BY DEF Tidy, OneAnswer, Restarting, At
    <3>2. undelivered \subseteq Worker /\ hearing \in Worker \cup {NoWorker}
      BY DEF TypeInv, TypeOK
    <3>3. ASSUME NEW v \in undelivered' PROVE status'[v] = "dead" /\ hearing' # v
      BY <1>4, <2>4, <3>1, <3>2, <3>3 DEF Tidy, OneAnswer
    <3>4. ASSUME hearing' # NoWorker PROVE status'[hearing'] = "dead"
      BY <1>4, <2>4, <3>1, <3>2, <3>4 DEF Tidy, OneAnswer
    <3>5. ASSUME NEW u \in Timer, Restarting(u)'
          PROVE  /\ status'[thread'[u].worker] = "dead"
                 /\ thread'[u].worker \notin undelivered' /\ thread'[u].worker # hearing'
                 /\ \A x \in Timer : (Restarting(x)' /\ thread'[x].worker = thread'[u].worker) => x = u
      <4>1. Restarting(u) /\ thread'[u].worker = thread[u].worker
        BY <2>1, <2>2, <3>5
      <4>2. \A x \in Timer : Restarting(x)' => Restarting(x) /\ thread'[x].worker = thread[x].worker
        BY <2>1, <2>2
      <4>3. /\ status[thread[u].worker] = "dead"
            /\ thread[u].worker \notin undelivered /\ thread[u].worker # hearing
            /\ \A x \in Timer : (Restarting(x) /\ thread[x].worker = thread[u].worker) => x = u
        BY <4>1 DEF Tidy, OneAnswer
      <4>4. status'[thread[u].worker] = "dead"
        <5>1. CASE thread[t].at = "started" /\ r.at = "registered"
          <6>1. Restarting(t) /\ ~Restarting(t)'
            BY <2>1, <5>1 DEF Restarting, Owed, At
          <6>2. u # t
            BY <3>5, <6>1
          <6>3. thread[u].worker # w
            BY <4>3, <6>1, <6>2
          <6>4. QED
            BY <2>4, <2>5, <4>1, <4>3, <6>3
        <5>2. QED
          BY <2>4, <2>5, <4>1, <4>3, <5>1
      <4>5. QED
        BY <1>4, <4>1, <4>2, <4>3, <4>4
    <3>6. QED
      BY <3>3, <3>4, <3>5 DEF OneAnswer
  <2>7. Tracked'
    <3>1. ASSUME NEW u \in Timer, thread'[u].at = "armed" PROVE pending'[thread'[u].worker] = u
      <4>1. u # t /\ thread'[u] = thread[u] /\ thread[u].at = "armed"
        BY <1>4, <2>1, <3>1
      <4>2. pending[thread[u].worker] = u /\ thread[u].worker \in Worker
        BY <1>1, <4>1 DEF Tidy, Tracked, At
      <4>3. Restarting(t) => thread[u].worker # w
        BY <4>1 DEF Tidy, OneAnswer, Restarting, Owed, At
      <4>4. QED
        BY <1>1, <1>3, <1>4, <4>1, <4>2, <4>3
    <3>2. ASSUME NEW v \in Worker, pending'[v] # NoTimer
          PROVE  thread'[pending'[v]].at \in {"armed", "fired"} /\ thread'[pending'[v]].worker = v
      <4>1. pending'[v] = pending[v] /\ pending[v] \in Timer
        BY <1>1, <1>3, <1>4, <3>2
      <4>2. thread[pending[v]].at \in {"armed", "fired"} /\ thread[pending[v]].worker = v
        BY <1>2, <3>2, <4>1 DEF Tidy, Tracked
      <4>3. CASE pending[v] = t
        <5>1. r.at = "fired"
          BY <1>1, <1>3, <1>4, <3>2, <4>2, <4>3
        <5>2. QED
          BY <1>4, <2>1, <4>1, <4>2, <4>3, <5>1
      <4>4. QED
        BY <2>1, <4>1, <4>2, <4>3
    <3>3. QED
      BY <3>1, <3>2 DEF Tracked, At
  <2>8. Stopped'
    BY <1>2, <1>4 DEF Stopped
  <2>9. InList'
    <3>1. ASSUME NEW u \in Timer, thread'[u].at # "free" PROVE thread'[u].worker <= Len(workers')
      BY <1>2, <1>4, <2>1, <3>1 DEF Tidy, InList, At
    <3>2. ASSUME NEW v \in Worker, status'[v] # "absent"
          PROVE  v <= Len(workers') /\ (ctl' = "register" => v # next')
      <4>1. thread[t].at = "started" => status[w] = "dead"
        BY DEF Tidy, OneAnswer, Restarting, At
      <4>2. status[v] # "absent"
        BY <2>4, <3>2, <4>1
      <4>3. QED
        BY <1>4, <4>2 DEF Tidy, InList
    <3>3. ~(~started' /\ ctl' \in {"idle", "start", "stop"})
      BY <1>2, <1>4 DEF Tidy, InList
    <3>4. QED
      BY <1>4, <3>1, <3>2, <3>3 DEF Tidy, InList, At
  <2>10. QED
    BY <2>6, <2>7, <2>8, <2>9 DEF Tidy
<1> DEFINE Kept == /\ UNCHANGED <<hearing, undelivered, ctl, next, started>>
                   /\ Len(workers') = Len(workers)
                   /\ \A i \in 1..Len(workers) : workers'[i].worker = i
<1>5. UNCHANGED workers => \A i \in 1..Len(workers) : workers'[i].worker = i
  BY DEF Tidy, InList
<1>6. CASE Fire(t)
  <2>1. thread' = [thread EXCEPT ![t] = [thread[t] EXCEPT !.at = "fired"]]
    BY <1>6 DEF Fire
  <2>2. Kept /\ UNCHANGED <<pending, status>> /\ Restarting(t)
    BY <1>5, <1>6 DEF Fire, pool, control, monitor, Restarting, Owed, At
  <2>3. QED
    BY <1>1, <1>4, <2>1, <2>2, ThreadMoves
<1>7. CASE CheckEnabled(t)
  <2>1. thread' = [thread EXCEPT ![t] = IF enabled THEN [thread[t] EXCEPT !.at = "enabled"] ELSE Idle]
    BY <1>7 DEF CheckEnabled
  <2>2. /\ Kept /\ UNCHANGED status /\ Restarting(t)
        /\ pending' = [pending EXCEPT ![w] = NoTimer]
    BY <1>5, <1>7 DEF CheckEnabled, pool, control, monitor, Restarting, Owed, At
  <2>3. CASE enabled
    BY <1>1, <1>4, <2>1, <2>2, <2>3, ThreadMoves
  <2>4. CASE ~enabled
    BY <1>1, <1>4, <2>1, <2>2, <2>4, IdleThread
  <2>5. QED
    BY <2>3, <2>4
<1>8. CASE Spawn(t)
  <2>1. PICK p \in Proc : /\ p.worker = w
                          /\ thread' = [thread EXCEPT ![t] = [thread[t] EXCEPT !.at = "started", !.new = p]]
    BY <1>8 DEF Spawn, Launch
  <2>2. /\ Kept /\ UNCHANGED <<pending, status>> /\ Restarting(t) /\ thread[t].at = "enabled"
    BY <1>5, <1>8 DEF Spawn, pool, control, monitor, Restarting, Owed, At
  <2>3. QED
    BY <1>1, <1>4, <2>1, <2>2, ThreadMoves
<1>9. CASE SpawnFails(t)
  <2>1. thread' = [thread EXCEPT ![t] = Idle]
    BY <1>9 DEF SpawnFails
  <2>2. /\ Kept /\ UNCHANGED <<pending, status>> /\ thread[t].at = "enabled"
    BY <1>5, <1>9 DEF SpawnFails, pool, control, monitor, At
  <2>3. QED
    BY <1>1, <1>4, <2>1, <2>2, IdleThread
<1>10. CASE RegisterNew(t)
  <2>1. thread' = [thread EXCEPT ![t] = [thread[t] EXCEPT !.at = "registered"]]
    BY <1>10 DEF RegisterNew
  <2>2. /\ Kept /\ UNCHANGED pending /\ thread[t].at = "started"
    BY <1>5, <1>10 DEF RegisterNew, pool, control, monitor, At
  <2>3. thread[t].new \in Proc
    BY <1>1, <2>2, ThreadMoves
  <2>4. status'[w] # "absent" /\ \A v \in Worker \ {w} : status'[v] = status[v]
    BY <1>1, <1>10, <2>3, Registered DEF RegisterNew
  <2>5. QED
    BY <1>1, <1>4, <2>1, <2>2, <2>4, ThreadMoves
<1>11. CASE Replace(t)
  <2>1. ~(w > Len(workers))
    <3>1. Len(workers) \in Nat
      BY DEF TypeInv, TypeOK
    <3>2. QED
      BY <1>1, <1>2, <3>1 DEF Worker
  <2>2. /\ thread' = [thread EXCEPT ![t] = [thread[t] EXCEPT !.at = "replaced"]]
        /\ UNCHANGED workers
    BY <1>11, <2>1 DEF Replace
  <2>3. /\ Kept /\ UNCHANGED <<pending, status>> /\ thread[t].at = "registered"
    BY <1>5, <1>11, <2>2 DEF Replace, control, monitor, At
  <2>4. QED
    BY <1>1, <1>4, <2>2, <2>3, ThreadMoves
<1>12. CASE Assign(t)
  <2>1. thread[t].at = "replaced" /\ thread' = [thread EXCEPT ![t] = Idle]
        /\ workers' = [workers EXCEPT ![w] = thread[t].new]
    BY <1>2, <1>12 DEF Assign, At
  <2>2. thread[t].new \in Proc /\ thread[t].new.worker = w
    BY <1>1, <2>1, ThreadMoves
  <2>3. workers \in Seq(Proc) /\ w \in 1..Len(workers)
    BY <1>1, <1>2 DEF TypeInv, TypeOK, Worker
  <2>4. /\ Len(workers') = Len(workers) /\ workers'[w] = thread[t].new
        /\ \A i \in (1..Len(workers)) \ {w} : workers'[i] = workers[i]
    BY <2>1, <2>2, <2>3, ExceptSeq
  <2>5. \A i \in 1..Len(workers) : workers'[i].worker = i
    BY <2>2, <2>4 DEF Tidy, InList
  <2>6. UNCHANGED <<hearing, undelivered, ctl, next, started, pending, status>>
    BY <1>12 DEF Assign, control, monitor
  <2>7. QED
    BY <1>1, <1>4, <2>1, <2>4, <2>5, <2>6, IdleThread
<1>13. QED
  BY <1>6, <1>7, <1>8, <1>9, <1>10, <1>11, <1>12 DEF RestartWorker

\* Pauses, resumes, stops and starts; a stop that overlaps nothing leaves nothing.
LEMMA ControlTidy ==
    ASSUME TypeInv, Tidy, Pause \/ Resume \/ StopAllWorkers \/ StartAllWorkers, ~torn'
    PROVE  Tidy'
<1>1. /\ workers \in Seq(Proc) /\ Len(workers) \in Nat /\ pending \in [Worker -> Timer \cup {NoTimer}]
      /\ thread \in [Timer -> TypedThread] /\ status \in [Worker -> HS!Status]
      /\ NoWorker \notin Worker /\ NoTimer \notin Timer
      /\ \A u \in Timer : thread[u].at # "free" => thread[u].worker \in Worker
  <2>1. NoWorker \notin Worker /\ NoTimer \notin Timer
    BY DEF NoWorker, Worker, NoTimer, Timer
  <2>2. \A u \in Timer : thread[u].at # "free" => thread[u].worker \in Worker
    BY ThreadMoves DEF TypeInv
  <2>3. QED
    BY <2>1, <2>2, LenProperties DEF TypeInv, TypeOK
<1>2. UNCHANGED <<hearing, undelivered>>
  <2>1. CASE Pause \/ Resume
    BY <2>1 DEF Pause, Resume, monitor
  <2>2. CASE StopAllWorkers
    BY <2>2 DEF StopAllWorkers, StopBegin, StopSignal, StopUnregister, StopJoin, StopEnd, monitor
  <2>3. CASE StartAllWorkers
    BY <2>3 DEF StartAllWorkers, StartBegin, StartWorker, StartFails, StartRegister, monitor
  <2>4. QED
    BY <2>1, <2>2, <2>3
\* Nothing is under way: what is to be shown of the control thread alone.
<1>3. ASSUME UNCHANGED <<thread, pending, status>>, ctl # "cancelled",
             ctl' \in {"unregistered", "joined", "cancelled", "signalled"} =>
                 /\ ctl \in {"signalled", "unregistered", "joined"}
                 /\ ctl' \in {"unregistered", "joined"} => ctl \in {"unregistered", "joined"},
             InList'
      PROVE  Tidy'
  BY <1>2, <1>3 DEF Tidy, OneAnswer, Tracked, Stopped, Restarting, Owed, At
<1>4. CASE Pause \/ Resume
  <2>1. /\ ctl = "idle" /\ ctl' \in {"stop", "start"}
        /\ UNCHANGED <<thread, pending, status, workers, next, started>>
    BY <1>4 DEF Pause, Resume, monitor
  <2>2. InList'
    BY <2>1 DEF Tidy, InList, At
  <2>3. QED
    BY <1>3, <2>1, <2>2
<1>5. CASE StopBegin
  <2>1. ctl = "stop" /\ UNCHANGED <<workers, next, started, status, pending>>
    BY <1>5 DEF StopBegin, pool, monitor
  <2>2. CASE workers = <<>> /\ ctl' = "idle" /\ UNCHANGED thread
    <3>1. InList'
      BY <2>1, <2>2 DEF Tidy, InList, At
    <3>2. QED
      BY <1>3, <2>1, <2>2, <3>1
  <2>3. CASE /\ ctl' = "cancelled" /\ torn' = (torn \/ Overlap)
             /\ thread' = [t \in Timer |->
                             IF At(t, "armed") /\ \E w \in Worker : pending[w] = t
                             THEN Idle ELSE thread[t]]
    <3>1. ~Overlap
      BY <2>3, Zenon
    <3>2. hearing = NoWorker /\ undelivered = {} /\ \A t \in Timer : thread[t].at \in {"free", "armed"}
      BY <3>1 DEF Overlap, Running
    <3>3. \A t \in Timer : thread'[t].at = "free"
      <4>1. SUFFICES ASSUME NEW t \in Timer PROVE thread'[t].at = "free"
        OBVIOUS
      <4>2. CASE thread[t].at = "armed"
        <5>1. pending[thread[t].worker] = t /\ thread[t].worker \in Worker
          BY <1>1, <4>2 DEF Tidy, Tracked, At
        <5>2. thread'[t] = Idle
          BY <2>3, <4>2, <5>1 DEF At
        <5>3. QED
          BY <5>2, IdleThread
      <4>3. CASE thread[t].at = "free"
        BY <2>3, <4>3 DEF At
      <4>4. QED
        BY <3>2, <4>2, <4>3
    <3>4. OneAnswer' /\ Tracked' /\ Stopped'
      BY <1>2, <2>3, <3>2, <3>3 DEF OneAnswer, Tracked, Stopped, Restarting, Owed, At
    <3>5. InList'
      BY <2>1, <2>3, <3>3 DEF Tidy, InList, At
    <3>6. QED
      BY <3>4, <3>5 DEF Tidy
  <2>4. QED
    BY <1>5, <2>2, <2>3 DEF StopBegin
<1>6. CASE StopSignal
  <2>1. /\ ctl = "cancelled" /\ ctl' = "signalled" /\ pending' = [w \in Worker |-> NoTimer]
        /\ UNCHANGED <<thread, status, workers, next, started>>
    BY <1>6 DEF StopSignal, monitor
  <2>2. hearing = NoWorker /\ undelivered = {} /\ \A t \in Timer : thread[t].at = "free"
    BY <2>1 DEF Tidy, Stopped, At
  <2>3. OneAnswer' /\ Tracked' /\ Stopped'
    BY <1>2, <2>1, <2>2 DEF OneAnswer, Tracked, Stopped, Restarting, Owed, At
  <2>4. InList'
    BY <2>1, <2>2 DEF Tidy, InList, At
  <2>5. QED
    BY <2>3, <2>4 DEF Tidy
<1>7. CASE StopUnregister
  <2> DEFINE ids == {workers[k].worker : k \in 1..Len(workers)}
  <2>1. /\ ctl = "signalled" /\ ctl' = "unregistered"
        /\ status' = [w \in Worker |-> IF w \in ids THEN "absent" ELSE status[w]]
        /\ UNCHANGED <<thread, pending, workers, next, started>>
    BY <1>7 DEF StopUnregister, pool
  <2>2. hearing = NoWorker /\ undelivered = {} /\ \A t \in Timer : thread[t].at = "free"
    BY <2>1 DEF Tidy, Stopped, At
  <2>3. \A w \in Worker : status'[w] = "absent"
    <3>1. SUFFICES ASSUME NEW w \in Worker, status[w] # "absent" PROVE w \in ids
      BY <2>1
    <3>2. w \in 1..Len(workers)
      BY <1>1, <3>1 DEF Tidy, InList, Worker
    <3>3. workers[w].worker = w
      BY <3>2 DEF Tidy, InList
    <3>4. QED
      BY <3>2, <3>3
  <2>4. OneAnswer' /\ Tracked' /\ Stopped'
    BY <1>2, <2>1, <2>2, <2>3 DEF Tidy, OneAnswer, Tracked, Stopped, Restarting, Owed, At
  <2>5. InList'
    BY <2>1, <2>2, <2>3 DEF Tidy, InList, At
  <2>6. QED
    BY <2>4, <2>5 DEF Tidy
<1>8. CASE StopJoin
  <2>1. /\ ctl = "unregistered" /\ ctl' = "joined"
        /\ UNCHANGED <<thread, pending, status, workers, next, started>>
    BY <1>8 DEF StopJoin, pool, monitor
  <2>2. InList'
    BY <2>1 DEF Tidy, InList, At
  <2>3. QED
    BY <1>3, <2>1, <2>2
<1>9. CASE StopEnd
  <2>1. /\ ctl = "joined" /\ ctl' = "idle" /\ workers' = <<>> /\ started' = FALSE
        /\ UNCHANGED <<thread, pending, status, next>>
    BY <1>9 DEF StopEnd, monitor
  <2>2. (\A w \in Worker : status[w] = "absent") /\ \A t \in Timer : thread[t].at = "free"
    BY <2>1 DEF Tidy, Stopped, At
  <2>3. InList'
    BY <2>1, <2>2, EmptySeq DEF InList, At
  <2>4. QED
    BY <1>3, <2>1, <2>3
<1>10. CASE StartBegin
  <2>1. ctl = "start" /\ UNCHANGED <<thread, pending, status, workers>>
    BY <1>10 DEF StartBegin, monitor
  <2>2. CASE ctl' = "idle" /\ UNCHANGED <<started, next>>
    <3>1. InList'
      BY <2>1, <2>2 DEF Tidy, InList, At
    <3>2. QED
      BY <1>3, <2>1, <2>2, <3>1
  <2>3. CASE ctl' = "idle" /\ started' = TRUE /\ UNCHANGED next
    <3>1. InList'
      BY <2>1, <2>3 DEF Tidy, InList, At
    <3>2. QED
      BY <1>3, <2>1, <2>3, <3>1
  <2>4. CASE ~started /\ ctl' = "launch" /\ next' = 1 /\ UNCHANGED started
    <3>1. workers = <<>> /\ Len(workers) = 0
      BY <2>1, <2>4, EmptySeq DEF Tidy, InList
    <3>2. InList'
      BY <2>1, <2>4, <3>1 DEF Tidy, InList, At
    <3>3. QED
      BY <1>3, <2>1, <2>4, <3>2
  <2>5. QED
    BY <1>10, <2>2, <2>3, <2>4 DEF StartBegin
<1>11. CASE StartWorker
  <2>1. PICK p \in Proc : p.worker = next /\ workers' = Append(workers, p)
    BY <1>11 DEF StartWorker, Launch
  <2>2. ctl = "launch" /\ ctl' = "register" /\ UNCHANGED <<thread, pending, status, next, started>>
    BY <1>11 DEF StartWorker, monitor
  <2>3. /\ Len(workers') = Len(workers) + 1 /\ workers'[Len(workers) + 1] = p
        /\ \A i \in 1..Len(workers) : workers'[i] = workers[i]
    BY <1>1, <2>1, AppendProperties
  <2>4. InList'
    <3>1. \A i \in 1..Len(workers') : workers'[i].worker = i
      BY <1>1, <2>1, <2>2, <2>3 DEF Tidy, InList
    <3>2. ASSUME NEW w \in Worker, status'[w] # "absent" PROVE w <= Len(workers') /\ w # next'
      BY <1>1, <2>2, <2>3, <3>2 DEF Tidy, InList, Worker
    <3>3. ASSUME NEW t \in Timer, thread'[t].at # "free" PROVE thread'[t].worker <= Len(workers')
      BY <1>1, <2>2, <2>3, <3>3 DEF Tidy, InList, At, Worker
    <3>4. next' = Len(workers')
      BY <2>2, <2>3 DEF Tidy, InList
    <3>5. QED
      BY <2>2, <3>1, <3>2, <3>3, <3>4 DEF InList, At
  <2>5. QED
    BY <1>3, <2>2, <2>4
<1>12. CASE StartFails
  BY <1>12 DEF StartFails
<1>13. CASE StartRegister
  <2>1. /\ ctl = "register" /\ UNCHANGED <<thread, pending, workers>>
        /\ \/ ctl' = "launch" /\ next' = next + 1 /\ UNCHANGED started
           \/ ctl' = "idle" /\ started' = TRUE
    BY <1>13 DEF StartRegister
  <2>2. next = Len(workers) /\ next \in Worker /\ status[next] = "absent"
    BY <2>1 DEF Tidy, InList, TypeInv, TypeOK
  <2>3. workers[Len(workers)] \in Proc
    BY <1>1, <2>2, LenProperties DEF Worker
  <2>4. status'[next] = "pending" /\ \A v \in Worker \ {next} : status'[v] = status[v]
    BY <1>13, <2>2, <2>3, Registered DEF StartRegister
  <2>5. undelivered \subseteq Worker /\ hearing \in Worker \cup {NoWorker}
    BY DEF TypeInv, TypeOK
  <2>6. OneAnswer'
    BY <1>1, <1>2, <2>1, <2>2, <2>4, <2>5 DEF Tidy, OneAnswer, Restarting, Owed, At
  <2>7. Tracked' /\ Stopped'
    BY <1>2, <2>1 DEF Tidy, Tracked, Stopped, At
  <2>8. InList'
    BY <1>1, <2>1, <2>2, <2>4 DEF Tidy, InList, At
  <2>9. QED
    BY <2>6, <2>7, <2>8 DEF Tidy
<1>14. QED
  BY <1>4, <1>5, <1>6, <1>7, <1>8, <1>9, <1>10, <1>11, <1>12, <1>13 DEF StopAllWorkers, StartAllWorkers

LEMMA StepTidy ==
    ASSUME TypeInv, TidyInv, [Next]_vars
    PROVE  TidyInv'
<1> USE DEF pool, control, monitor, history
<1>1. ASSUME NEW p \in Proc, Exit(p) PROVE TidyInv'
  BY <1>1, Untouched DEF Exit
<1>2. CASE UNCHANGED vars
  BY <1>2, Untouched DEF vars
<1>3. SUFFICES ASSUME ~torn', Next, ~(\E p \in Proc : Exit(p)) PROVE Tidy'
  BY <1>1, <1>2 DEF TidyInv
<1>4. Tidy
  <2>1. CASE Callback
    BY <1>3, <2>1 DEF Callback, Hear, HearFails, Decide, DecideFails, TidyInv
  <2>2. ASSUME NEW t \in Timer, Fire(t) \/ RestartWorker(t) PROVE ~torn
    BY <1>3, <2>2 DEF Fire, RestartWorker, CheckEnabled, Spawn, SpawnFails, RegisterNew, Replace, Assign
  <2>3. ASSUME NEW w \in Worker, Judge(w) PROVE ~torn
    <3>1. torn' = (torn \/ ctl \in {"cancelled", "signalled"})
      BY <2>3 DEF Judge
    <3>2. QED
      BY <1>3, <3>1, Zenon
  <2>4. CASE StopBegin
    <3>1. torn' = torn \/ torn' = (torn \/ Overlap)
      BY <2>4 DEF StopBegin
    <3>2. ~torn
      BY <1>3, <3>1, Zenon
    <3>3. QED
      BY <3>2 DEF TidyInv
  <2>5. CASE Pause \/ Resume \/ StopSignal \/ StopUnregister \/ StopJoin \/ StopEnd
    BY <1>3, <2>5 DEF Pause, Resume, StopSignal, StopUnregister, StopJoin, StopEnd, TidyInv
  <2>6. CASE StartAllWorkers
    BY <1>3, <2>6 DEF StartAllWorkers, StartBegin, StartWorker, StartFails, StartRegister, TidyInv
  <2>7. QED
    BY <1>3, <2>1, <2>2, <2>3, <2>4, <2>5, <2>6 DEF Next, StopAllWorkers, TidyInv
<1>5. ASSUME NEW w \in Worker, Judge(w) PROVE Tidy'
  BY <1>3, <1>4, <1>5, JudgeTidy
<1>6. ASSUME NEW w \in Worker, Decide(w) PROVE Tidy'
  <2>1. hearing = w /\ hearing' = NoWorker /\ UNCHANGED <<started, workers, ctl, next, undelivered>>
    BY <1>6 DEF Decide
  <2>2. CASE GiveUp(w)
    <3>1. status' = status \/ status' = [status EXCEPT ![w] = "failed"]
      BY <2>2 DEF GiveUp, HS!Fail
    <3>2. QED
      BY <1>4, <2>1, <2>2, <3>1, GiveUpTidy DEF GiveUp
  <2>3. ASSUME NEW t \in Timer, At(t, "free"), Schedule(w, t) PROVE Tidy'
    BY <1>4, <2>1, <2>3, ScheduleTidy
  <2>4. QED
    BY <1>6, <2>2, <2>3 DEF Decide
<1>7. ASSUME NEW w \in Worker, DecideFails(w) PROVE Tidy'
  <2>1. /\ hearing = w /\ hearing' = NoWorker /\ status' = status
        /\ thread' = [u \in Timer |-> IF u = pending[w] /\ Cancelled(u) THEN Idle ELSE thread[u]]
        /\ pending' = [pending EXCEPT ![w] = NoTimer]
        /\ UNCHANGED <<started, workers, ctl, next, undelivered>>
    BY <1>7 DEF DecideFails
  <2>2. QED
    BY <1>4, <2>1, GiveUpTidy
<1>8. ASSUME NEW w \in Worker, Hear(w) \/ HearFails(w) PROVE Tidy'
  BY <1>4, <1>8, HearTidy
<1>9. ASSUME NEW t \in Timer, Fire(t) \/ RestartWorker(t) PROVE Tidy'
  BY <1>4, <1>9, TimerTidy
<1>10. CASE Pause \/ Resume \/ StopAllWorkers \/ StartAllWorkers
  BY <1>3, <1>4, <1>10, ControlTidy
<1>11. QED
  BY <1>3, <1>5, <1>6, <1>7, <1>8, <1>9, <1>10 DEF Next, Callback

\* Idempotent scheduling, for any number of workers, processes and timers: unless a
\* stop overlapped a restart, a worker owed a restart is owed only one, is dead in
\* the registry, and its timer, while it waits, is the one the dict would cancel.
THEOREM OneOwed == Spec => []OneRestartOwed
<1>1. Init => TypeInv /\ TidyInv
  BY InitType, InitTidy
<1>2. TypeInv /\ TidyInv /\ [Next]_vars => TypeInv' /\ TidyInv'
  BY StepType, StepTidy
<1>3. TidyInv => OneRestartOwed
  <2>1. SUFFICES ASSUME Tidy, NEW t \in Timer, Owed(t)
                 PROVE  /\ status[thread[t].worker] = "dead"
                        /\ \A u \in Timer : (Owed(u) /\ thread[u].worker = thread[t].worker) => u = t
                        /\ At(t, "armed") => pending[thread[t].worker] = t
    BY DEF TidyInv, OneRestartOwed
  <2>2. QED
    BY <2>1 DEF Tidy, OneAnswer, Tracked, Restarting
<1>4. QED
  BY <1>1, <1>2, <1>3, PTL DEF Spec
=============================================================================
