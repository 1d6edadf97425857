-------------------------- MODULE MC_HealthMonitor --------------------------
(***************************************************************************)
(* HealthMonitor for TLC.  Seconds are scaled down so that every deadline  *)
(* can pass, be renewed and pass again within the reachable states.        *)
(***************************************************************************)
EXTENDS HealthMonitor

\* One second to start, one between frames, dead at the second miss.
MCPolicy ==
    [startup |-> 1, staleness |-> 1, maxMisses |-> 2, minRecovery |-> 1, maxRecovery |-> 1]

\* A recovery window with room between its floor and its cap.
MCWidePolicy == [MCPolicy EXCEPT !.maxRecovery = 2]

\* Below the floor and above the cap of the clamp.
MCRequests == {0, 3}

MCTwoPolicies == {MCPolicy, MCWidePolicy}
=============================================================================
