----------------------- MODULE VectorPromotionProofs -----------------------
(***************************************************************************)
(* What holds of VectorPromotion for any workers, files, numbers of writes *)
(* and faults.                                                             *)
(*                                                                         *)
(* Three invariants, each inductive together with TypeOK:                  *)
(*  - KeptInv: a drain has the newest vectors in the cold collection when  *)
(*    it comes to truncate the hot one;                                    *)
(*  - LockInv: who promotes holds the lock, as long as it is not taken     *)
(*    away for its age;                                                    *)
(*  - IndexInv: an index that is missing is about to be built.             *)
(***************************************************************************)
EXTENDS VectorPromotion, TLAPS

\* Between its copy and its truncation a drain must not be overtaken by writes.
Draining(p) == pc[p] \in {"relink", "truncate"}

\* The hot collection has the newest vector of a file or none.
HotIsNewest == \A f \in File : hot[f] \in {0, latest[f]}

\* What a drain is about to truncate is in the cold collection.
Copied ==
    (\E p \in Proc : Draining(p)) =>
        \A f \in File \ raced : latest[f] # 0 => cold[f] = latest[f]

KeptInv == VectorKept /\ HotIsNewest /\ Copied

\* Until a lock gets old, the workers that promote hold it and nobody reaps it.
LockInv ==
    ~overrun => /\ lock # NoLock => lock.age = "fresh"
                /\ \A w \in Worker : /\ Inside(w) => HeldBy(lock, w)
                                     /\ pc[w] # "reap"

\* The steps after which the index is built, unless the promotion breaks off.
Building(p) == pc[p] \in {"drain", "copy", "relink", "truncate", "verify", "build"}

\* Whoever dropped the index, or filled a collection without one, builds it.
IndexInv ==
    (~index /\ ~lost /\ \E f \in File : cold[f] # 0) => \E p \in Proc : Building(p)

-----------------------------------------------------------------------------
(* Types.                                                                  *)

\* Nobody waits for vectors in the beginning.
LEMMA InitType == Init => TypeOK
<1> SUFFICES ASSUME Init PROVE TypeOK
  OBVIOUS
<1>1. cold \in [File -> 0..MaxWrites]
  BY PromotionAssumption DEF Init
<1>2. edges \subseteq File \X {"hot", "cold"} /\ created \in BOOLEAN /\ index \in BOOLEAN
  BY DEF Init
<1>3. /\ pc \in [Proc -> Section \cup {"idle"}] /\ pc[Api] = "idle"
      /\ lock \in Lock(Worker)
  BY DEF Init, Proc, Lock
<1>4. /\ hot \in [File -> 0..MaxWrites] /\ latest \in [File -> 0..MaxWrites]
      /\ faults \in 0..MaxFaults
  BY <1>1, PromotionAssumption DEF Init
<1>5. QED
  BY <1>1, <1>2, <1>3, <1>4 DEF Init, TypeOK

\* A lock that ages, or is taken or released, stays a lock or none.
LEMMA LockType ==
    ASSUME TypeOK
    PROVE  /\ lock # NoLock => Older(lock) \in Lock(Worker)
           /\ \A w \in Worker : Locked(w) \in Lock(Worker) /\ Released(lock, w) \in Lock(Worker)
           /\ NoLock \in Lock(Worker)
<1>1. \A w \in Worker : Locked(w) \in Lock(Worker)
  BY DEF Locked, Lock
<1>2. \A w \in Worker : Released(lock, w) \in Lock(Worker)
  BY DEF TypeOK, Released, Lock
<1>3. lock # NoLock => Older(lock) \in Lock(Worker)
  BY DEF TypeOK, Older, Lock
<1>4. QED
  BY <1>1, <1>2, <1>3 DEF Lock

\* The steps of a worker, of its promotion thread and of its life.
LEMMA WorkerType ==
    ASSUME TypeOK, NEW w \in Worker,
           (\E f \in File : Upsert(w, f)) \/ Link(w) \/ IdleThread(w) \/ Crash(w) \/ Restart(w)
    PROVE  TypeOK'
<1> USE PromotionAssumption DEF TypeOK, Goto, Fault, store, hist, Proc
<1>1. ASSUME NEW f \in File, Upsert(w, f) PROVE TypeOK'
  <2>1. latest[f] + 1 \in 0..MaxWrites
    BY <1>1 DEF Upsert
  <2>2. /\ latest' \in [File -> 0..MaxWrites] /\ hot' \in [File -> 0..MaxWrites]
        /\ linking' \in [Worker -> SUBSET File] /\ raced' \subseteq File
        /\ suppressed' \in [Worker -> BOOLEAN]
    BY <1>1, <2>1 DEF Upsert
  <2>3. QED
    BY <1>1, <2>2 DEF Upsert
<1>2. CASE Link(w)
  BY <1>2 DEF Link
<1>3. CASE Look(w) \/ ReadStale(w) \/ Reap(w)
  BY <1>3, LockType DEF Look, ReadStale, Reap
<1>4. CASE Acquire(w)
  BY ZenonT(60), <1>4, LockType DEF Acquire, Section
<1>5. CASE Release(w)
  BY <1>5, LockType DEF Release
<1>6. CASE Crash(w) \/ Restart(w)
  <2>1. lost' \in BOOLEAN
    <3>1. lost' = (lost \/ Inside(w)) \/ lost' = lost
      BY <1>6 DEF Crash, Restart
    <3>2. QED
      BY <3>1, Zenon
  <2>2. faults' \in 0..MaxFaults
    BY <1>6 DEF Crash, Restart
  <2>3. pc' \in [Proc -> Section \cup {"idle", "stale", "reap", "acquire", "redrop",
                                     "promoted", "failed", "gone"}]
    BY <1>6 DEF Crash, Restart
  <2>4. pc'[Api] = pc[Api]
    BY <1>6 DEF Crash, Restart
  <2>5. /\ linking' \in [Worker -> SUBSET File] /\ suppressed' \in [Worker -> BOOLEAN]
        /\ UNCHANGED <<store, lock, latest, raced, overrun>>
    BY <1>6 DEF Crash, Restart
  <2>6. QED
    BY <2>1, <2>2, <2>3, <2>4, <2>5
<1>7. QED
  BY <1>1, <1>2, <1>3, <1>4, <1>5, <1>6 DEF IdleThread

\* The steps of a promotion, by a worker or the API.
LEMMA PromoteType ==
    ASSUME TypeOK, NEW p \in Proc, Promote(p)
    PROVE  TypeOK'
<1> USE PromotionAssumption DEF TypeOK, Goto, Finish, Fault, store, hist, Proc, Section
<1>1. CASE Inspect(p)
  BY <1>1 DEF Inspect
<1>2. CASE Drop(p)
  BY <1>2 DEF Drop
<1>3. CASE Drain(p)
  BY <1>3 DEF Drain
<1>4. CASE Copy(p)
  <2>1. cold' \in [File -> 0..MaxWrites]
    BY <1>4 DEF Copy
  <2>2. QED
    BY <1>4, <2>1 DEF Copy
<1>5. CASE Relink(p)
  BY <1>5 DEF Relink
<1>6. CASE Truncate(p)
  BY <1>6 DEF Truncate
<1>7. CASE Verify(p)
  BY <1>7 DEF Verify
<1>8. CASE Build(p)
  BY <1>8 DEF Build
<1>9. CASE QueryFails(p)
  <2>1. faults' \in 0..MaxFaults
    BY <1>9 DEF QueryFails
  <2>2. QED
    BY <1>9, <2>1 DEF QueryFails
<1>10. QED
  BY <1>1, <1>2, <1>3, <1>4, <1>5, <1>6, <1>7, <1>8, <1>9 DEF Promote

\* Every step preserves the types.
LEMMA StepType == TypeOK /\ [Next]_vars => TypeOK'
<1> SUFFICES ASSUME TypeOK, [Next]_vars PROVE TypeOK'
  OBVIOUS
<1>1. CASE Request
  BY <1>1, PromotionAssumption DEF Request, TypeOK, Goto, store, hist, Proc, Section
<1>2. CASE Age
  BY <1>2, LockType DEF Age, TypeOK, store
<1>3. CASE UNCHANGED vars
  BY <1>3 DEF vars, TypeOK
<1>4. QED
  BY <1>1, <1>2, <1>3, WorkerType, PromoteType DEF Next

\* Every variable has the kind of value the queries and threads give it; the API
\* never waits for a lock.
THEOREM TypeCorrect == Spec => []TypeOK
  BY InitType, StepType, PTL DEF Spec

-----------------------------------------------------------------------------
(* No vector is lost but in a race with a drain.                           *)

\* The first vectors are all in the cold collection.
LEMMA InitKept == Init => KeptInv
<1> SUFFICES ASSUME Init PROVE KeptInv
  OBVIOUS
<1>1. \A f \in File : latest[f] = cold[f] /\ hot[f] = 0
  BY DEF Init
<1>2. ~ \E p \in Proc : Draining(p)
  BY DEF Init, Draining
<1>3. QED
  BY <1>1, <1>2 DEF KeptInv, VectorKept, HotIsNewest, Copied

\* A step that leaves the vectors alone and starts no truncation keeps them.
LEMMA KeepVectors ==
    ASSUME TypeOK, KeptInv,
           UNCHANGED <<hot, cold, latest, raced>>,
           \A p \in Proc : Draining(p)' => \E q \in Proc : Draining(q)
    PROVE  KeptInv'
  BY DEF KeptInv, VectorKept, HotIsNewest, Copied

\* A write while nobody drains is the newest vector; another one is a race.
LEMMA UpsertKept ==
    ASSUME TypeOK, KeptInv, NEW w \in Worker, NEW f \in File, Upsert(w, f)
    PROVE  KeptInv'
<1>1. /\ hot' = [hot EXCEPT ![f] = latest[f] + 1]
      /\ latest' = [latest EXCEPT ![f] = latest[f] + 1]
      /\ UNCHANGED <<cold, pc>>
  BY DEF Upsert
<1>2. HotIsNewest'
  BY <1>1 DEF TypeOK, KeptInv, HotIsNewest
<1>3. VectorKept'
  <2>1. \A g \in File : g # f => (g \in raced' <=> g \in raced)
    BY DEF Upsert
  <2>2. QED
    BY <1>1, <2>1 DEF TypeOK, KeptInv, VectorKept
<1>4. Copied'
  <2>1. SUFFICES ASSUME \E p \in Proc : Draining(p), NEW g \in File \ raced', latest'[g] # 0
                 PROVE  cold'[g] = latest'[g]
    BY <1>1 DEF Copied, Draining
  <2>2. raced' = raced \cup {f}
    BY <2>1 DEF Upsert, Draining
  <2>3. QED
    BY <1>1, <2>1, <2>2 DEF TypeOK, KeptInv, Copied
<1>5. QED
  BY <1>2, <1>3, <1>4 DEF KeptInv

\* A promotion keeps the vectors,
LEMMA PromoteKept ==
    ASSUME TypeOK, KeptInv, NEW p \in Proc, Promote(p)
    PROVE  KeptInv'
<1> USE DEF Goto, Finish, Draining, store, hist
<1>1. CASE Copy(p)
  <2>1. /\ cold' = [f \in File |-> IF f \in Hot THEN hot[f] ELSE cold[f]]
        /\ UNCHANGED <<hot, latest, raced>>
    BY <1>1 DEF Copy
  <2>2. \A f \in File \ raced : latest[f] # 0 => cold'[f] = latest[f]
    BY <2>1 DEF KeptInv, VectorKept, HotIsNewest, Hot
  <2>3. QED
    BY <2>1, <2>2 DEF KeptInv, VectorKept, HotIsNewest, Copied
<1>2. CASE Truncate(p)
  <2>1. /\ hot' = [f \in File |-> 0] /\ UNCHANGED <<cold, latest, raced>>
        /\ Draining(p)
    BY <1>2 DEF Truncate
  <2>2. \A f \in File \ raced : latest[f] # 0 => cold[f] = latest[f]
    BY <2>1 DEF KeptInv, Copied
  <2>3. QED
    BY <2>1, <2>2 DEF KeptInv, VectorKept, HotIsNewest, Copied
<1>3. CASE Relink(p)
  BY <1>3, KeepVectors DEF Relink, TypeOK
<1>4. CASE Inspect(p) \/ Drop(p) \/ Drain(p)
  BY <1>4, KeepVectors DEF Inspect, Drop, Drain, TypeOK
<1>5. CASE Verify(p) \/ Build(p) \/ QueryFails(p)
  BY <1>5, KeepVectors DEF Verify, Build, QueryFails, TypeOK
<1>6. QED
  BY <1>1, <1>2, <1>3, <1>4, <1>5 DEF Promote

\* and so does everything else.
LEMMA StepKept == TypeOK /\ KeptInv /\ [Next]_vars => KeptInv'
<1> SUFFICES ASSUME TypeOK, KeptInv, [Next]_vars PROVE KeptInv'
  OBVIOUS
<1> USE DEF Goto, Draining, store, hist
<1>1. ASSUME NEW w \in Worker, Link(w) \/ IdleThread(w) PROVE KeptInv'
  BY <1>1, KeepVectors DEF TypeOK, Link, IdleThread, Look, ReadStale, Reap, Acquire, Release
<1>2. ASSUME NEW w \in Worker, Crash(w) \/ Restart(w) PROVE KeptInv'
  BY <1>2, KeepVectors DEF TypeOK, Crash, Restart
<1>3. CASE Request \/ Age \/ UNCHANGED vars
  BY <1>3, KeepVectors DEF TypeOK, Request, Age, vars
<1>4. QED
  BY <1>1, <1>2, <1>3, UpsertKept, PromoteKept DEF Next

\* However promotions, crashes and failures overlap, the newest vector of a file
\* is in one of the collections, unless it was written between the copy and the
\* truncation of a drain (ml_vector_maintenance_comp.py:154).
THEOREM NoVectorLost == Spec => []VectorKept
<1>1. KeptInv => VectorKept
  BY DEF KeptInv
<1>2. QED
  BY <1>1, InitType, StepType, InitKept, StepKept, PTL DEF Spec

-----------------------------------------------------------------------------
(* Workers exclude each other while no lock gets old.                      *)

\* A fresh lock excludes all but its holder.
LEMMA LockExcludes == LockInv => Exclusive
  BY DEF LockInv, Exclusive, HeldBy

\* The promotion thread of a worker up to and after its promotion,
LEMMA IdleLock ==
    ASSUME TypeOK, LockInv, NEW w \in Worker, IdleThread(w)
    PROVE  LockInv'
<1> USE DEF Goto, LockInv, Inside, Section, TypeOK, Proc, store, hist
<1>1. CASE Look(w) \/ ReadStale(w)
  BY <1>1 DEF Look, ReadStale, Stale
<1>2. CASE Reap(w)
  BY <1>2 DEF Reap
<1>3. CASE Acquire(w)
  <2>1. Locked(w) # NoLock
    BY PromotionAssumption DEF Locked
  <2>2. QED
    BY <1>3, <2>1 DEF Acquire, Acquirable, HeldBy, Locked
<1>4. CASE Release(w)
  BY <1>4 DEF Release, Released, HeldBy
<1>5. QED
  BY <1>1, <1>2, <1>3, <1>4 DEF IdleThread

\* the promotion, which leaves the lock alone,
LEMMA PromoteLock ==
    ASSUME TypeOK, LockInv, NEW p \in Proc, Promote(p)
    PROVE  LockInv'
<1>1. UNCHANGED <<lock, overrun>> /\ Inside(p)
  BY DEF Promote, Inspect, Drop, Drain, Copy, Relink, Truncate, Verify, Build, QueryFails,
         Inside, Section, store, hist
<1>2. \E at : pc' = [pc EXCEPT ![p] = at] /\ at # "reap"
  BY DEF Promote, Inspect, Drop, Drain, Copy, Relink, Truncate, Verify, Build, QueryFails,
         Goto, Finish
<1>3. QED
  BY <1>1, <1>2 DEF TypeOK, LockInv, Inside, HeldBy, Proc

\* and everything else.
LEMMA StepLock == TypeOK /\ LockInv /\ [Next]_vars => LockInv'
<1> SUFFICES ASSUME TypeOK, LockInv, [Next]_vars PROVE LockInv'
  OBVIOUS
<1> USE DEF Goto, LockInv, Inside, Section, TypeOK, Proc, store, hist, HeldBy
<1>1. ASSUME NEW w \in Worker, (\E f \in File : Upsert(w, f)) \/ Link(w) PROVE LockInv'
  BY <1>1 DEF Upsert, Link
<1>2. ASSUME NEW w \in Worker, Crash(w) \/ Restart(w) PROVE LockInv'
  BY <1>2 DEF Crash, Restart
<1>3. CASE Request
  BY <1>3, PromotionAssumption DEF Request
<1>4. CASE Age \/ UNCHANGED vars
  BY <1>4 DEF Age, vars
<1>5. QED
  BY <1>1, <1>2, <1>3, <1>4, IdleLock, PromoteLock DEF Next

\* Idle workers do not promote at the same time as long as no promotion takes the
\* ten minutes after which the reaper takes its lock
\* (idle_promotion_vectors_wf.py:68).
THEOREM OnePromotion == Spec => []Exclusive
<1>1. Init => LockInv
  BY DEF Init, LockInv, Inside, Section, Proc
<1>2. QED
  BY <1>1, InitType, StepType, StepLock, LockExcludes, PTL DEF Spec

-----------------------------------------------------------------------------
(* The index comes back.                                                   *)

\* When nobody is inside, nobody is about to build.
LEMMA IndexIsThere == IndexInv => IndexRestored
  BY DEF IndexInv, IndexRestored, Building, Inside, Section

\* A promotion that drops the index comes to build it, or breaks off.
LEMMA PromoteIndex ==
    ASSUME TypeOK, IndexInv, NEW p \in Proc, Promote(p)
    PROVE  IndexInv'
<1> USE DEF TypeOK, IndexInv, Building, Goto, store, hist
<1>1. CASE Inspect(p)
  BY <1>1 DEF Inspect, Finish
<1>2. CASE Drop(p)
  BY <1>2 DEF Drop
<1>3. CASE Drain(p) \/ Copy(p) \/ Relink(p) \/ Truncate(p)
  BY <1>3 DEF Drain, Copy, Relink, Truncate
<1>4. CASE Verify(p) \/ Build(p) \/ QueryFails(p)
  BY <1>4 DEF Verify, Build, QueryFails
<1>5. QED
  BY <1>1, <1>2, <1>3, <1>4 DEF Promote

\* Nothing else drops it or ends a promotion that would build it.
LEMMA StepIndex == TypeOK /\ IndexInv /\ [Next]_vars => IndexInv'
<1> SUFFICES ASSUME TypeOK, IndexInv, [Next]_vars PROVE IndexInv'
  OBVIOUS
<1> USE DEF TypeOK, IndexInv, Building, Goto, store, hist
<1>1. ASSUME NEW w \in Worker, (\E f \in File : Upsert(w, f)) \/ Link(w) \/ IdleThread(w)
      PROVE  IndexInv'
  BY <1>1 DEF Upsert, Link, IdleThread, Look, ReadStale, Reap, Acquire, Release, Proc
<1>2. ASSUME NEW w \in Worker, Crash(w) \/ Restart(w) PROVE IndexInv'
  BY <1>2 DEF Crash, Restart, Inside, Section, Proc
<1>3. CASE Request \/ Age \/ UNCHANGED vars
  BY <1>3 DEF Request, Age, vars, Proc
<1>4. QED
  BY <1>1, <1>2, <1>3, PromoteIndex DEF Next

\* When all promotions and rebuilds are over and none broke off, promoted vectors
\* have their index (promote_and_rebuild_vectors_wf.py:108).
THEOREM IndexComesBack == Spec => []IndexRestored
<1>1. Init => IndexInv
  BY DEF Init, IndexInv
<1>2. QED
  BY <1>1, InitType, StepType, StepIndex, IndexIsThere, PTL DEF Spec
=============================================================================
