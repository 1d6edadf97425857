------------------------------- MODULE Locks -------------------------------
(***************************************************************************)
(* One document of the locks collection (persistence/database/             *)
(* locks_aql.py) and what the queries make of it.  Time is kept as the age *)
(* of the lock: "fresh", "stale" once older than the threshold of the      *)
(* reaper, "expired" once older than its time to live, the longer of the   *)
(* two.  A query is atomic: it takes the collection exclusively.           *)
(***************************************************************************)

CONSTANT NoLock

Locked(holder) == [holder |-> holder, age |-> "fresh"]

Lock(holders) ==
    {NoLock} \cup [holder : holders, age : {"fresh", "stale", "expired"}]

HeldBy(lock, holder) == lock # NoLock /\ lock.holder = holder

\* try_acquire succeeds on a free lock, on an expired one and on one's own.
Acquirable(lock, holder) ==
    lock # NoLock => lock.age = "expired" \/ lock.holder = holder

\* release removes the lock of this holder only.
Released(lock, holder) == IF HeldBy(lock, holder) THEN NoLock ELSE lock

\* Whether get_stale_locks lists it.
Stale(lock) == lock # NoLock /\ lock.age # "fresh"

\* Time passes.
Older(lock) ==
    [lock EXCEPT !.age = IF @ = "fresh" THEN "stale" ELSE "expired"]
=============================================================================
