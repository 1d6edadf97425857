---------------------------- MODULE HealthStatus ----------------------------
(***************************************************************************)
(* What the health monitor promises the rest of the application: the       *)
(* status machine of health_monitor_svc.py:11-33 and health_dto.py:5-27,   *)
(* without pipes, frames, clocks or threads.  A component is absent until  *)
(* somebody registers it; the domain may register, unregister or fail it;  *)
(* everything else is the monitor's own judgement about a live component.  *)
(*                                                                         *)
(* The point of the abstraction is what it leaves out: there is no step    *)
(* that takes a dead component back to healthy, unhealthy or recovering,   *)
(* although _transition_to_healthy itself never looks whether the          *)
(* component is dead.  HealthMonitor implements this module (Refines in    *)
(* MC_HealthMonitor, and a theorem of HealthMonitorProofs).                *)
(***************************************************************************)
EXTENDS Naturals

CONSTANT Component

VARIABLE status

\* ComponentStatus, plus "absent" for an id with no entry in _components.
Live      == {"pending", "healthy", "unhealthy", "recovering"}
Status    == Live \cup {"dead", "failed", "absent"}

Init == status = [c \in Component |-> "absent"]

\* register_component: anything but a failed entry is replaced by a fresh one.
Register(c) ==
    /\ status[c] # "failed"
    /\ status' = [status EXCEPT ![c] = "pending"]

\* unregister_component, the only way out of "failed".
Unregister(c) == status' = [status EXCEPT ![c] = "absent"]

\* set_failed, the domain's verdict that a component is not restarted.
Fail(c) ==
    /\ status[c] # "absent"
    /\ status' = [status EXCEPT ![c] = "failed"]

\* A frame of a live component.
Frame(c) ==
    /\ status[c] \in Live
    /\ \E s \in {"healthy", "recovering"} : status' = [status EXCEPT ![c] = s]

\* End of file on the pipe of a live component.
Closed(c) ==
    /\ status[c] \in Live
    /\ status' = [status EXCEPT ![c] = "dead"]

\* What one deadline check may make of a component.
Demoted(s) ==
    CASE s \in {"pending", "unhealthy", "recovering"} -> {s, "dead"}
      [] s = "healthy"                                -> {"healthy", "unhealthy", "dead"}
      [] OTHER                                        -> {s}

\* A deadline check judges all components at once, under one lock.
Check == /\ status' \in [Component -> Status]
         /\ \A c \in Component : status'[c] \in Demoted(status[c])

Next == \/ \E c \in Component : \/ Register(c)
                                \/ Unregister(c)
                                \/ Fail(c)
                                \/ Frame(c)
                                \/ Closed(c)
        \/ Check

Spec == Init /\ [][Next]_status
=============================================================================
