--------------------------- MODULE HealthMonitor ---------------------------
(***************************************************************************)
(* HealthMonitorService (services/infrastructure/health_monitor_svc.py):   *)
(* the registry of monitored components, the pipes their frames arrive on, *)
(* the single monitor thread, and the callbacks it delivers to the domain. *)
(*                                                                         *)
(* Threads.  The monitor thread runs Snapshot, Wait, Read, Check and       *)
(* Deliver, one after the other (pc).  register_component,                 *)
(* unregister_component and stop are called by other threads and           *)
(* interleave with every one of these steps: the lock of the registry is   *)
(* held inside a step and released between two.  set_failed is called by   *)
(* the handler of a "dead" callback, on the monitor thread.                *)
(*                                                                         *)
(* Time.  A clock would grow for ever, so the registry keeps what the code *)
(* computes from it: frameAge is now - last_frame_time (capped where the   *)
(* comparison no longer changes), timeLeft what is left of the deadline    *)
(* that the status consults, startup_deadline when pending and             *)
(* recovery_deadline when recovering.  Tick is one second.                 *)
(*                                                                         *)
(* A connection nothing refers to any more is closed by Python's reference *)
(* count; it then stands for one that does not exist yet (FreeConn).       *)
(***************************************************************************)
EXTENDS Integers, Sequences

CONSTANTS
    Component,       \* component ids, e.g. "worker:tag:0"
    Conn,            \* parent ends of pipes
    NoConn,          \* no connection
    Policies,        \* the ComponentPolicy records in use
    DefaultPolicy,   \* ComponentPolicy(), what register_component falls back to
    RecoverRequests, \* values of recover_for_s a frame may carry, NoRequest for null
    NoRequest,
    PipeCapacity     \* bound: frames a pipe buffers before the writer blocks

ASSUME NoConnAssumption == NoConn \notin Conn

\* The code accepts any numbers; a policy that allows no miss at all, or waits
\* less than nothing, is not one the application creates.
ASSUME PolicyAssumption ==
    /\ Policies \subseteq [startup : Nat, staleness : Nat, maxMisses : Nat \ {0},
                        minRecovery : Nat, maxRecovery : Nat]
    /\ DefaultPolicy \in Policies

ASSUME RequestAssumption == RecoverRequests \subseteq Int /\ NoRequest \notin Int

VARIABLES
    status,    \* _ComponentState.status, "absent" when _components has no entry
    conn,      \* _ComponentState.pipe_conn
    policy,    \* _ComponentState.policy
    frameAge,  \* now - last_frame_time
    misses,    \* consecutive_misses
    timeLeft,  \* seconds to the deadline the status consults
    frames,    \* what a pipe buffers
    open,      \* connections whose write end a process still holds
    closed,    \* connections whose parent end was closed
    pc,        \* where the monitor thread is
    watched,   \* pipe_map: the connection watched for each component
    ready,     \* components whose watched connection wait() returned, still unread
    emit,      \* status changes not yet delivered to the handler
    due,       \* a second went by since last_staleness_check
    told,      \* what the handler last heard of the registered component
    stopped    \* _stop_event

registry == <<status, conn, policy, frameAge, misses, timeLeft>>
pipes    == <<frames, open, closed>>
thread   == <<pc, watched, ready, due>>
vars     == <<status, conn, policy, frameAge, misses, timeLeft, frames, open, closed,
              pc, watched, ready, emit, due, told, stopped>>

-----------------------------------------------------------------------------
Live   == {"pending", "healthy", "unhealthy", "recovering"}
Status == Live \cup {"dead", "failed", "absent"}

\* A HEALTH| frame; "other" stands for the statuses _handle_frame ignores and
\* for frames it drops as malformed.
Frame == {[kind |-> "healthy", secs |-> NoRequest], [kind |-> "other", secs |-> NoRequest]}
         \cup {[kind |-> "recovering", secs |-> r] : r \in RecoverRequests \cup {NoRequest}}

Change == [comp : Component, new : Status]

Smaller(a, b) == IF a <= b THEN a ELSE b
Larger(a, b)  == IF a >= b THEN a ELSE b

\* The clamp of _transition_to_recovering; a frame without a request gets the most.
RecoveryWindow(p, request) ==
    IF request = NoRequest THEN p.maxRecovery
    ELSE Larger(p.minRecovery, Smaller(request, p.maxRecovery))

Registered(c) == status[c] # "absent"
Watched(c)    == watched[c] # NoConn

\* Nothing refers to a free connection: no entry of the registry and no local of the loop.
FreeConn == {k \in Conn : \A c \in Component : conn[c] # k /\ watched[c] # k}

\* What select() reports: buffered data, or the end of file a gone writer leaves.
Readable(k) == frames[k] # <<>> \/ k \notin open

\* What becomes of the pipes when a step drops references to connections.
Collect ==
    /\ frames' = [k \in Conn |-> IF k \in FreeConn' THEN <<>> ELSE frames[k]]
    /\ open' = open \ FreeConn'
    /\ closed' = closed \ FreeConn'

-----------------------------------------------------------------------------
(* Called by other threads.                                                *)

\* Mutant of Register: a failed entry is replaced as well.
MutRegister(c, k, p) ==
    /\ k \in FreeConn
    /\ status' = [status EXCEPT ![c] = "pending"]
    /\ conn' = [conn EXCEPT ![c] = k]
    /\ policy' = [policy EXCEPT ![c] = p]
    /\ frameAge' = [frameAge EXCEPT ![c] = 0]
    /\ misses' = [misses EXCEPT ![c] = 0]
    /\ timeLeft' = [timeLeft EXCEPT ![c] = p.startup]
    /\ UNCHANGED <<thread, emit, stopped>>
    /\ frames' = [j \in Conn |-> IF j \in FreeConn' THEN <<>> ELSE frames[j]]
    /\ open' = (open \cup {k}) \ FreeConn'
    /\ closed' = closed \ FreeConn'
    /\ told' = [told EXCEPT ![c] = "pending"]

\* A fresh entry replaces any other one, except a failed one.
Register(c, k, p) ==
    /\ status[c] # "failed"
    /\ k \in FreeConn
    /\ status' = [status EXCEPT ![c] = "pending"]
    /\ conn' = [conn EXCEPT ![c] = k]
    /\ policy' = [policy EXCEPT ![c] = p]
    /\ frameAge' = [frameAge EXCEPT ![c] = 0]
    /\ misses' = [misses EXCEPT ![c] = 0]
    /\ timeLeft' = [timeLeft EXCEPT ![c] = p.startup]
    /\ UNCHANGED <<thread, emit, stopped>>
    /\ frames' = [j \in Conn |-> IF j \in FreeConn' THEN <<>> ELSE frames[j]]
    /\ open' = (open \cup {k}) \ FreeConn'
    /\ closed' = closed \ FreeConn'
    /\ told' = [told EXCEPT ![c] = "pending"]

\* Pops the entry and closes its connection, under the lock.
Unregister(c) ==
    /\ Registered(c)
    /\ status' = [status EXCEPT ![c] = "absent"]
    /\ conn' = [conn EXCEPT ![c] = NoConn]
    /\ policy' = [policy EXCEPT ![c] = DefaultPolicy]
    /\ frameAge' = [frameAge EXCEPT ![c] = 0]
    /\ misses' = [misses EXCEPT ![c] = 0]
    /\ timeLeft' = [timeLeft EXCEPT ![c] = 0]
    /\ told' = [told EXCEPT ![c] = "absent"]
    /\ UNCHANGED <<thread, emit, stopped>>
    /\ frames' = [frames EXCEPT ![conn[c]] = <<>>]
    /\ open' = open \ {conn[c]}
    /\ closed' = (closed \cup {conn[c]}) \ FreeConn'

\* Closes the connections of all entries and tells the loop to end.
Stop ==
    /\ ~stopped
    /\ stopped' = TRUE
    /\ closed' = closed \cup {conn[c] : c \in {d \in Component : Registered(d)}}
    /\ frames' = [k \in Conn |-> IF k \in closed' THEN <<>> ELSE frames[k]]
    /\ open' = open \ closed'
    /\ UNCHANGED <<registry, thread, emit, told>>

-----------------------------------------------------------------------------
(* The processes at the other end.                                         *)

\* A component writes a frame; one that hangs just stops doing so.
Send(k, f) ==
    /\ k \in open
    /\ Len(frames[k]) < PipeCapacity
    /\ frames' = [frames EXCEPT ![k] = Append(@, f)]
    /\ UNCHANGED <<registry, open, closed, thread, emit, told, stopped>>

\* The process exits or is killed: the pipe ends after what it still buffers.
Exit(k) ==
    /\ k \in open
    /\ open' = open \ {k}
    /\ UNCHANGED <<registry, frames, closed, thread, emit, told, stopped>>

\* Mutant of Tick: a deadline keeps running after it passed.
MutTick ==
    /\ frameAge' = [c \in Component |->
                      IF status[c] \in {"healthy", "unhealthy"}
                      THEN Smaller(frameAge[c] + 1, policy[c].staleness) ELSE frameAge[c]]
    /\ timeLeft' = [c \in Component |->
                      IF status[c] \in {"pending", "recovering"}
                      THEN timeLeft[c] - 1 ELSE timeLeft[c]]
    /\ due' = TRUE
    /\ UNCHANGED <<status, conn, policy, misses, pipes, pc, watched, ready, emit, told, stopped>>

\* One second.
Tick ==
    /\ frameAge' = [c \in Component |->
                      IF status[c] \in {"healthy", "unhealthy"}
                      THEN Smaller(frameAge[c] + 1, policy[c].staleness) ELSE frameAge[c]]
    /\ timeLeft' = [c \in Component |->
                      IF status[c] \in {"pending", "recovering"} /\ timeLeft[c] > 0
                      THEN timeLeft[c] - 1 ELSE timeLeft[c]]
    /\ due' = TRUE
    /\ UNCHANGED <<status, conn, policy, misses, pipes, pc, watched, ready, emit, told, stopped>>

-----------------------------------------------------------------------------
(* The monitor thread.                                                     *)

\* The top of the loop: copy the connections of all entries that are not
\* terminal.  With none it sleeps and comes back here.
Snapshot ==
    /\ pc = "snapshot" /\ emit = {} /\ ~stopped
    /\ \E c \in Component : status[c] \in Live
    /\ pc' = "wait"
    /\ watched' = [c \in Component |-> IF status[c] \in Live THEN conn[c] ELSE NoConn]
    /\ UNCHANGED <<registry, pipes, ready, due, emit, told, stopped>>

Leave ==
    /\ pc = "snapshot" /\ emit = {} /\ stopped
    /\ pc' = "done"
    /\ UNCHANGED <<registry, pipes, watched, ready, due, emit, told, stopped>>

\* wait() over the copied connections: it raises when another thread closed one
\* of them meanwhile, and the loop carries on with nothing ready; otherwise it
\* returns what is readable, or nothing when it timed out.
Wait ==
    /\ pc = "wait"
    /\ pc' = "read"
    /\ ready' = IF \E c \in Component : watched[c] \in closed THEN {}
                ELSE {c \in Component : Watched(c) /\ Readable(watched[c])}
    /\ UNCHANGED <<registry, pipes, watched, due, emit, told, stopped>>

\* The lock is taken, an entry found by component id, its status changed; the
\* callback follows outside the lock.
Announce(c, new) == emit' = IF status[c] = new THEN emit
                            ELSE emit \cup {[comp |-> c, new |-> new]}

\* Mutant of TransitionToHealthy: the strikes stay.
MutTransitionToHealthy(c) ==
    \/ /\ status[c] \in {"absent", "failed"}
       /\ UNCHANGED <<registry, emit>>
    \/ /\ status[c] \notin {"absent", "failed"}
       /\ status' = [status EXCEPT ![c] = "healthy"]
       /\ frameAge' = [frameAge EXCEPT ![c] = 0]
       /\ timeLeft' = [timeLeft EXCEPT ![c] = 0]
       /\ Announce(c, "healthy")
       /\ UNCHANGED <<conn, policy, misses>>

TransitionToHealthy(c) ==
    \/ /\ status[c] \in {"absent", "failed"}
       /\ UNCHANGED <<registry, emit>>
    \/ /\ status[c] \notin {"absent", "failed"}
       /\ status' = [status EXCEPT ![c] = "healthy"]
       /\ frameAge' = [frameAge EXCEPT ![c] = 0]
       /\ misses' = [misses EXCEPT ![c] = 0]
       /\ timeLeft' = [timeLeft EXCEPT ![c] = 0]
       /\ Announce(c, "healthy")
       /\ UNCHANGED <<conn, policy>>

TransitionToRecovering(c, request) ==
    \/ /\ status[c] \in {"absent", "failed"}
       /\ UNCHANGED <<registry, emit>>
    \/ /\ status[c] \notin {"absent", "failed"}
       /\ status' = [status EXCEPT ![c] = "recovering"]
       /\ frameAge' = [frameAge EXCEPT ![c] = 0]
       /\ timeLeft' = [timeLeft EXCEPT ![c] = RecoveryWindow(policy[c], request)]
       /\ Announce(c, "recovering")
       /\ UNCHANGED <<conn, policy, misses>>

\* Mutant of HandlePipeClosed: the handler is not called.
MutHandlePipeClosed(c) ==
    \/ /\ status[c] \in {"absent", "failed", "dead"}
       /\ UNCHANGED <<registry, emit>>
    \/ /\ status[c] \in Live
       /\ status' = [status EXCEPT ![c] = "dead"]
       /\ timeLeft' = [timeLeft EXCEPT ![c] = 0]
       /\ UNCHANGED <<conn, policy, frameAge, misses, emit>>

HandlePipeClosed(c) ==
    \/ /\ status[c] \in {"absent", "failed", "dead"}
       /\ UNCHANGED <<registry, emit>>
    \/ /\ status[c] \in Live
       /\ status' = [status EXCEPT ![c] = "dead"]
       /\ timeLeft' = [timeLeft EXCEPT ![c] = 0]
       /\ Announce(c, "dead")
       /\ UNCHANGED <<conn, policy, frameAge, misses>>

HandleFrame(c, f) ==
    \/ f.kind = "healthy" /\ TransitionToHealthy(c)
    \/ f.kind = "recovering" /\ TransitionToRecovering(c, f.secs)
    \/ f.kind = "other" /\ UNCHANGED <<registry, emit>>

\* _read_pipe: one recv of a ready connection.  The connection is the one copied
\* by Snapshot, the entry is looked up anew by component id.
Read(c) ==
    LET k == watched[c] IN
    /\ pc = "read" /\ emit = {} /\ c \in ready
    /\ ready' = ready \ {c}
    /\ \/ /\ k \in closed                       \* OSError: handle is closed
          /\ HandlePipeClosed(c)
          /\ UNCHANGED frames
       \/ /\ k \notin closed /\ frames[k] # <<>>
          /\ HandleFrame(c, Head(frames[k]))
          /\ frames' = [frames EXCEPT ![k] = Tail(@)]
       \/ /\ k \notin closed /\ frames[k] = <<>>   \* EOFError
          /\ HandlePipeClosed(c)
          /\ UNCHANGED frames
    /\ UNCHANGED <<open, closed, pc, watched, due, told, stopped>>

\* Mutant of TimedOut: nobody looks at the recovery deadline.
MutTimedOut(c) == status[c] = "pending" /\ timeLeft[c] = 0

\* _check_component_deadline, by the status it finds.
MissedNow(c)   == status[c] \in {"healthy", "unhealthy"} /\ frameAge[c] >= policy[c].staleness
TimedOut(c)    == status[c] \in {"pending", "recovering"} /\ timeLeft[c] = 0
Exhausted(c)   == MissedNow(c) /\ misses[c] + 1 >= policy[c].maxMisses
Judged(c)      == IF TimedOut(c) \/ Exhausted(c) THEN "dead"
                  ELSE IF MissedNow(c) THEN "unhealthy" ELSE status[c]

\* Mutant of CheckAllDeadlines: only deaths are collected for delivery.
MutCheckAllDeadlines ==
    /\ status' = [c \in Component |-> Judged(c)]
    /\ misses' = [c \in Component |-> IF MissedNow(c) THEN misses[c] + 1 ELSE misses[c]]
    /\ frameAge' = [c \in Component |-> IF MissedNow(c) THEN 0 ELSE frameAge[c]]
    /\ emit' = {[comp |-> c, new |-> "dead"] :
                    c \in {d \in Component : Judged(d) = "dead" /\ status[d] # "dead"}}
    /\ UNCHANGED <<conn, policy, timeLeft>>

\* _check_all_deadlines: every entry is judged under one lock, the changes are
\* delivered after it is released.
CheckAllDeadlines ==
    /\ status' = [c \in Component |-> Judged(c)]
    /\ misses' = [c \in Component |-> IF MissedNow(c) THEN misses[c] + 1 ELSE misses[c]]
    /\ frameAge' = [c \in Component |-> IF MissedNow(c) THEN 0 ELSE frameAge[c]]
    /\ emit' = {[comp |-> c, new |-> Judged(c)] :
                    c \in {d \in Component : Judged(d) # status[d]}}
    /\ UNCHANGED <<conn, policy, timeLeft>>

\* The end of an iteration; the check runs once a second.
Check ==
    /\ pc = "read" /\ emit = {} /\ ready = {}
    /\ pc' = "snapshot"
    /\ watched' = [c \in Component |-> NoConn]
    /\ due' = FALSE
    /\ \/ due /\ CheckAllDeadlines
       \/ ~due /\ UNCHANGED <<registry, emit>>
    /\ Collect
    /\ UNCHANGED <<ready, told, stopped>>

\* set_failed, called from the handler; its own callback runs inside the call.
SetFailed(c) ==
    /\ Registered(c)
    /\ status' = [status EXCEPT ![c] = "failed"]
    /\ timeLeft' = [timeLeft EXCEPT ![c] = 0]
    /\ told' = [told EXCEPT ![c] = "failed"]

\* _emit_status_change: the handler runs on the monitor thread, outside the
\* lock.  Told that a component is dead it may give it up for good.
Deliver(ch) ==
    /\ ch \in emit
    /\ emit' = emit \ {ch}
    /\ \/ ch.new = "dead" /\ SetFailed(ch.comp)
       \/ /\ told' = IF Registered(ch.comp) THEN [told EXCEPT ![ch.comp] = ch.new] ELSE told
          /\ UNCHANGED <<status, timeLeft>>
    /\ UNCHANGED <<conn, policy, frameAge, misses, pipes, thread, stopped>>

-----------------------------------------------------------------------------
Init ==
    /\ status = [c \in Component |-> "absent"]
    /\ conn = [c \in Component |-> NoConn]
    /\ policy = [c \in Component |-> DefaultPolicy]
    /\ frameAge = [c \in Component |-> 0]
    /\ misses = [c \in Component |-> 0]
    /\ timeLeft = [c \in Component |-> 0]
    /\ frames = [k \in Conn |-> <<>>]
    /\ open = {}
    /\ closed = {}
    /\ pc = "snapshot"
    /\ watched = [c \in Component |-> NoConn]
    /\ ready = {}
    /\ emit = {}
    /\ due = FALSE
    /\ told = [c \in Component |-> "absent"]
    /\ stopped = FALSE

Monitor == \/ Snapshot
           \/ Leave
           \/ Wait
           \/ Check
           \/ \E c \in Component : Read(c)
           \/ \E ch \in emit : Deliver(ch)

Domain == \/ \E c \in Component, k \in Conn, p \in Policies : Register(c, k, p)
          \/ \E c \in Component : Unregister(c)
          \/ Stop

Processes == \E k \in Conn : \/ \E f \in Frame : Send(k, f)
                             \/ Exit(k)

Next == Monitor \/ Domain \/ Processes \/ Tick

Spec == Init /\ [][Next]_vars

\* The loop runs whenever it can (a daemon thread that nothing blocks for ever)
\* and time passes.  Nothing is assumed of the components or of the domain.
FairSpec == Spec /\ WF_vars(Monitor) /\ WF_vars(Tick)

-----------------------------------------------------------------------------
TypeOK ==
    /\ status \in [Component -> Status]
    /\ conn \in [Component -> Conn \cup {NoConn}]
    /\ policy \in [Component -> Policies]
    /\ frameAge \in [Component -> Nat]
    /\ misses \in [Component -> Nat]
    /\ timeLeft \in [Component -> Nat]
    /\ frames \in [Conn -> Seq(Frame)]
    /\ open \subseteq Conn
    /\ closed \subseteq Conn
    /\ pc \in {"snapshot", "wait", "read", "done"}
    /\ watched \in [Component -> Conn \cup {NoConn}]
    /\ ready \subseteq Component
    /\ emit \subseteq Change
    /\ due \in BOOLEAN
    /\ told \in [Component -> Status]
    /\ stopped \in BOOLEAN

\* The strike count belongs to the status: none when healthy, some but fewer
\* than the policy allows when unhealthy, never the full count outside dead and
\* failed.  A component one miss away from death that asks for recovery keeps
\* its strikes (_transition_to_recovering does not reset them), so this spans
\* frames, checks and re-registrations (lines 367-414, 482-510).
MissesMatchStatus ==
    \A c \in Component :
        /\ status[c] \in {"pending", "healthy"} => misses[c] = 0
        /\ status[c] = "unhealthy" => misses[c] > 0
        /\ status[c] \in Live => misses[c] < policy[c].maxMisses

\* Every status the monitor leaves a component in reaches the handler: either it
\* was the last one delivered since registration, or its delivery is still
\* queued.  The change is made under the lock and announced outside it, and in
\* between other threads register and unregister (lines 416-447, 514-532).
HandlerIsTold ==
    \A c \in Component :
        status[c] \notin {"absent", "pending"} =>
            told[c] = status[c] \/ [comp |-> c, new |-> status[c]] \in emit

\* The table of lines 13-22: a component is dead after a timeout, too many
\* misses or the end of its pipe.  The connection that ended must then be the
\* one the component is registered with, with its writer gone.
DeathHasCause ==
    [][\A c \in Component :
          status[c] \in Live /\ status'[c] = "dead" =>
              TimedOut(c) \/ Exhausted(c) \/ conn[c] \notin open]_vars

\* A component whose process hangs or exits without a word does not stay alive
\* in the registry, whatever its status was: no entry is live for ever while its
\* connection carries neither a healthy nor a recovering frame.
NoNews(k) == \A i \in 1..Len(frames[k]) : frames[k][i].kind = "other"

SilenceIsFatal ==
    \A c \in Component, k \in Conn :
        ~<>[](conn[c] = k /\ status[c] \in Live /\ NoNews(k) /\ ~stopped)

\* A death is delivered: the handler of a component that stays dead hears of it.
DeathIsReported ==
    \A c \in Component : status[c] = "dead" ~> told[c] = "dead" \/ status[c] # "dead"

\* The promise of HealthStatus, for every component and every interleaving.
HS == INSTANCE HealthStatus
Refines == HS!Spec
=============================================================================
