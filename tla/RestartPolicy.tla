--------------------------- MODULE RestartPolicy ---------------------------
(***************************************************************************)
(* components/workers/worker_crash_comp.py: the two limits on how often a  *)
(* crashed worker is started again.  How long a restart waits              *)
(* (calculate_backoff) is left to the timers of WorkerSystem, which fire   *)
(* whenever they like.                                                     *)
(*                                                                         *)
(* The clock is the wall clock of the host, read once per decision.  Only  *)
(* whether the last restart lies within the window matters, so a decision  *)
(* takes that as its argument.                                             *)
(***************************************************************************)
EXTENDS Integers

CONSTANTS
    MaxInWindow,   \* MAX_RESTARTS_IN_WINDOW
    MaxLifetime    \* MAX_LIFETIME_RESTARTS

ASSUME LimitsAssumption ==
    /\ MaxInWindow \in Nat \ {0}
    /\ MaxLifetime \in Nat \ {0}

\* Mutant of ShouldRestart: one restart too many in a lifetime.
MutShouldRestart(count, inWindow) ==
    /\ count <= MaxLifetime
    /\ ~(count >= MaxInWindow /\ inWindow)

\* should_restart_worker: count restarts so far, the last of them within the
\* short window or not.
ShouldRestart(count, inWindow) ==
    /\ count < MaxLifetime
    /\ ~(count >= MaxInWindow /\ inWindow)
=============================================================================
