------------------------ MODULE HealthMonitorProofs ------------------------
(***************************************************************************)
(* What holds of HealthMonitor for any number of components, connections   *)
(* and policies: its types, the two invariants the runs check, and that it *)
(* implements HealthStatus.                                                *)
(*                                                                         *)
(* Neither invariant is inductive alone.  HandlerIsTold needs to know that *)
(* a queued change is still the status of its component, or belongs to an  *)
(* entry that was replaced or removed (QueueCurrent), and that a component *)
(* has one queued change at most (QueueUnique).  The refinement needs that *)
(* no connection the loop is about to read belongs to a dead entry         *)
(* (DeadUnread): that, and not a test in _transition_to_healthy, is why a  *)
(* dead component never comes back by itself.                              *)
(***************************************************************************)
EXTENDS HealthMonitor, TLAPS

QueueCurrent == \A ch \in emit : status[ch.comp] \in {ch.new, "pending", "absent"}

QueueUnique == \A ch1, ch2 \in emit : ch1.comp = ch2.comp => ch1 = ch2

DeadUnread ==
    /\ pc = "wait" => \A c \in Component : Watched(c) => status[c] # "dead"
    /\ \A c \in ready : status[c] # "dead"

IInv == TypeOK /\ MissesMatchStatus /\ HandlerIsTold /\ QueueCurrent /\ QueueUnique /\ DeadUnread

-----------------------------------------------------------------------------
(* Types.                                                                  *)

\* The fields of a policy are numbers (ComponentPolicy, health_dto.py:36-56).
LEMMA PolicyFields ==
    ASSUME NEW p \in Policies
    PROVE  /\ p.startup \in Nat /\ p.staleness \in Nat
           /\ p.maxMisses \in Nat /\ p.maxMisses > 0
           /\ p.minRecovery \in Nat /\ p.maxRecovery \in Nat
  BY PolicyAssumption

\* A recovery window is a number of seconds, whatever the frame asked for.
LEMMA RecoveryWindowType ==
    ASSUME NEW p \in Policies, NEW r \in RecoverRequests \cup {NoRequest}
    PROVE  RecoveryWindow(p, r) \in Nat
  BY PolicyFields, RequestAssumption DEF RecoveryWindow, Larger, Smaller

\* The clamp: never shorter than the floor nor longer than the cap.
LEMMA RecoveryWindowBounds ==
    ASSUME NEW p \in Policies, NEW r \in RecoverRequests \cup {NoRequest},
           p.minRecovery <= p.maxRecovery
    PROVE  /\ p.minRecovery <= RecoveryWindow(p, r)
           /\ RecoveryWindow(p, r) <= p.maxRecovery
  BY PolicyFields, RequestAssumption DEF RecoveryWindow, Larger, Smaller

\* A frame asks for a recovery time the components use, or for none.
LEMMA FrameSecs ==
    ASSUME NEW f \in Frame
    PROVE  f.secs \in RecoverRequests \cup {NoRequest}
  BY DEF Frame

\* A deadline check leaves a component in one of its statuses.
LEMMA JudgedType ==
    ASSUME TypeOK, NEW c \in Component
    PROVE  Judged(c) \in Status
  BY DEF Judged, TypeOK, Status, Live

\* An entry has a connection, and so has every component about to be read.
HasConn == /\ \A c \in Component : Registered(c) => conn[c] \in Conn
           /\ \A c \in ready : watched[c] \in Conn
           /\ pc # "read" => ready = {}

\* A monitor that has just been created is well typed.
LEMMA InitType == Init => TypeOK /\ HasConn
<1> SUFFICES ASSUME Init PROVE TypeOK /\ HasConn
  OBVIOUS
<1>1. frames \in [Conn -> Seq(Frame)]
  BY DEF Init
<1>2. policy \in [Component -> Policies]
  BY PolicyAssumption DEF Init
<1>3. QED
  BY <1>1, <1>2 DEF Init, TypeOK, HasConn, Registered, Status, Live

\* What is queued for the handler is a status change.
LEMMA AnnounceType ==
    ASSUME TypeOK, NEW c \in Component, NEW s \in Status, Announce(c, s)
    PROVE  emit' \subseteq Change
<1>1. [comp |-> c, new |-> s] \in Change
  BY DEF Change
<1>2. QED
  BY <1>1 DEF Announce, TypeOK

\* What reading one frame does to the registry, of whatever kind the frame is.
RegistryType ==
    /\ status' \in [Component -> Status]
    /\ conn' = conn
    /\ policy' = policy
    /\ frameAge' \in [Component -> Nat]
    /\ misses' \in [Component -> Nat]
    /\ timeLeft' \in [Component -> Nat]
    /\ emit' \subseteq Change
    /\ \A c \in Component : status'[c] = "absent" <=> status[c] = "absent"

\* Whatever a read finds, the entry stays well typed, and it neither appears nor
\* disappears: frames cannot register a component.
LEMMA HandleType ==
    ASSUME TypeOK, NEW c \in Component,
           \/ TransitionToHealthy(c)
           \/ HandlePipeClosed(c)
           \/ \E r \in RecoverRequests \cup {NoRequest} : TransitionToRecovering(c, r)
           \/ UNCHANGED <<registry, emit>>
    PROVE  RegistryType
<1>1. CASE UNCHANGED <<registry, emit>>
  BY <1>1 DEF TypeOK, registry, RegistryType
<1>2. CASE TransitionToHealthy(c) /\ ~UNCHANGED <<registry, emit>>
  <2>1. emit' \subseteq Change
    BY <1>2, AnnounceType DEF TransitionToHealthy, Status, Live
  <2>2. status' = [status EXCEPT ![c] = "healthy"] /\ status[c] # "absent"
    BY <1>2 DEF TransitionToHealthy
  <2>3. status' \in [Component -> Status]
        /\ \A d \in Component : status'[d] = "absent" <=> status[d] = "absent"
    BY <2>2 DEF TypeOK, Status, Live
  <2>4. /\ frameAge' = [frameAge EXCEPT ![c] = 0]
        /\ misses' = [misses EXCEPT ![c] = 0]
        /\ timeLeft' = [timeLeft EXCEPT ![c] = 0]
        /\ conn' = conn /\ policy' = policy
    BY <1>2 DEF TransitionToHealthy
  <2>5. QED
    BY <2>1, <2>3, <2>4 DEF TypeOK, RegistryType
<1>3. CASE HandlePipeClosed(c) /\ ~UNCHANGED <<registry, emit>>
  <2>1. emit' \subseteq Change
    BY <1>3, AnnounceType DEF HandlePipeClosed, Status, Live
  <2>2. status' = [status EXCEPT ![c] = "dead"] /\ status[c] # "absent"
    BY <1>3 DEF HandlePipeClosed, Live
  <2>3. status' \in [Component -> Status]
        /\ \A d \in Component : status'[d] = "absent" <=> status[d] = "absent"
    BY <2>2 DEF TypeOK, Status, Live
  <2>4. QED
    BY <1>3, <2>1, <2>3 DEF HandlePipeClosed, TypeOK, registry, RegistryType
<1>4. ASSUME NEW r \in RecoverRequests \cup {NoRequest}, TransitionToRecovering(c, r),
             ~UNCHANGED <<registry, emit>>
      PROVE  RegistryType
  <2>1. RecoveryWindow(policy[c], r) \in Nat
    BY RecoveryWindowType DEF TypeOK
  <2>2. emit' \subseteq Change
    BY <1>4, AnnounceType DEF TransitionToRecovering, Status, Live
  <2>3. status' = [status EXCEPT ![c] = "recovering"] /\ status[c] # "absent"
    BY <1>4 DEF TransitionToRecovering
  <2>4. status' \in [Component -> Status]
        /\ \A d \in Component : status'[d] = "absent" <=> status[d] = "absent"
    BY <2>3 DEF TypeOK, Status, Live
  <2>5. /\ frameAge' = [frameAge EXCEPT ![c] = 0]
        /\ timeLeft' = [timeLeft EXCEPT ![c] = RecoveryWindow(policy[c], r)]
        /\ conn' = conn /\ policy' = policy /\ misses' = misses
    BY <1>4 DEF TransitionToRecovering
  <2>6. QED
    BY <2>1, <2>2, <2>4, <2>5 DEF TypeOK, RegistryType
<1>5. QED
  BY <1>1, <1>2, <1>3, <1>4

\* Every step of a thread, a process or the clock preserves the types.
LEMMA StepType == TypeOK /\ HasConn /\ [Next]_vars => TypeOK' /\ HasConn'
<1> SUFFICES ASSUME TypeOK, HasConn, [Next]_vars PROVE TypeOK' /\ HasConn'
  OBVIOUS
<1>1. ASSUME NEW c \in Component, NEW k \in Conn, NEW p \in Policies, Register(c, k, p)
      PROVE  TypeOK' /\ HasConn'
  <2>1. p.startup \in Nat
    BY PolicyFields
  <2>2. <<>> \in Seq(Frame)
    OBVIOUS
  <2>3. frames' \in [Conn -> Seq(Frame)]
    BY <1>1, <2>2 DEF Register, TypeOK
  <2>4. QED
    BY <1>1, <2>1, <2>3 DEF Register, TypeOK, HasConn, Registered, Status, Live, thread
<1>2. ASSUME NEW c \in Component, Unregister(c)
      PROVE  TypeOK' /\ HasConn'
  <2>1. frames' \in [Conn -> Seq(Frame)]
    BY <1>2 DEF Unregister, TypeOK, HasConn, Registered
  <2>2. closed' \subseteq Conn
    BY <1>2 DEF Unregister, TypeOK, HasConn, Registered
  <2>3. QED
    BY <1>2, <2>1, <2>2, PolicyAssumption DEF Unregister, TypeOK, HasConn, Registered, Status, Live, thread
<1>3. CASE Stop
  BY <1>3 DEF Stop, TypeOK, HasConn, Registered, registry, thread
<1>4. ASSUME NEW k \in Conn, NEW f \in Frame, Send(k, f)
      PROVE  TypeOK' /\ HasConn'
  BY <1>4 DEF Send, TypeOK, HasConn, Registered, registry, thread
<1>5. ASSUME NEW k \in Conn, Exit(k)
      PROVE  TypeOK' /\ HasConn'
  BY <1>5 DEF Exit, TypeOK, HasConn, Registered, registry, thread
<1>6. CASE Tick
  <2>1. frameAge' \in [Component -> Nat]
    BY <1>6, PolicyFields DEF Tick, TypeOK, Smaller
  <2>2. timeLeft' \in [Component -> Nat]
    BY <1>6 DEF Tick, TypeOK
  <2>3. QED
    BY <1>6, <2>1, <2>2 DEF Tick, TypeOK, HasConn, Registered, pipes
<1>7. CASE Snapshot
  BY <1>7 DEF Snapshot, TypeOK, HasConn, Registered, registry, pipes
<1>8. CASE Leave
  BY <1>8 DEF Leave, TypeOK, HasConn, Registered, registry, pipes
<1>9. CASE Wait
  BY <1>9 DEF Wait, Watched, TypeOK, HasConn, Registered, registry, pipes
<1>10. CASE Check
  <2>1. frames' \in [Conn -> Seq(Frame)] /\ open' \subseteq Conn /\ closed' \subseteq Conn
    BY <1>10 DEF Check, Collect, TypeOK
  <2>2. CASE due /\ CheckAllDeadlines
    <3>1. /\ status' \in [Component -> Status]
          /\ \A c \in Component : status[c] = "absent" <=> status'[c] = "absent"
      BY <2>2, JudgedType DEF CheckAllDeadlines, Judged, TimedOut, Exhausted, MissedNow
    <3>2. misses' \in [Component -> Nat] /\ frameAge' \in [Component -> Nat]
      BY <2>2 DEF CheckAllDeadlines, TypeOK
    <3>3. emit' \subseteq Change
      BY <2>2, JudgedType DEF CheckAllDeadlines, Change
    <3>4. QED
      BY <1>10, <2>1, <2>2, <3>1, <3>2, <3>3 DEF Check, CheckAllDeadlines, TypeOK, HasConn, Registered
  <2>3. CASE ~due /\ UNCHANGED <<registry, emit>>
    BY <1>10, <2>1, <2>3 DEF Check, TypeOK, HasConn, Registered, registry
  <2>4. QED
    BY <1>10, <2>2, <2>3 DEF Check
<1>11. ASSUME NEW c \in Component, Read(c)
       PROVE  TypeOK' /\ HasConn'
  <2>0. watched[c] \in Conn /\ frames[watched[c]] \in Seq(Frame)
    BY <1>11 DEF TypeOK, HasConn, Read
  <2>1. frames' \in [Conn -> Seq(Frame)]
    <3>1. CASE frames[watched[c]] # <<>>
      <4>1. Tail(frames[watched[c]]) \in Seq(Frame)
        BY <2>0, <3>1
      <4>2. QED
        BY <1>11, <4>1 DEF Read, TypeOK
    <3>2. CASE frames[watched[c]] = <<>>
      BY <1>11, <3>2 DEF Read, TypeOK
    <3>3. QED
      BY <3>1, <3>2
  <2>2. \/ TransitionToHealthy(c)
        \/ HandlePipeClosed(c)
        \/ \E r \in RecoverRequests \cup {NoRequest} : TransitionToRecovering(c, r)
        \/ UNCHANGED <<registry, emit>>
    <3>1. CASE frames[watched[c]] # <<>> /\ watched[c] \notin closed
               /\ HandleFrame(c, Head(frames[watched[c]]))
      <4>2. Head(frames[watched[c]]) \in Frame
        BY <2>0, <3>1
      <4>3. QED
        BY <3>1, <4>2, FrameSecs DEF HandleFrame
    <3>2. QED
      BY <1>11, <3>1 DEF Read
  <2>3. QED
    BY <1>11, <2>1, <2>2, HandleType DEF Read, RegistryType, TypeOK, HasConn, Registered
<1>12. ASSUME NEW ch \in emit, Deliver(ch)
       PROVE  TypeOK' /\ HasConn'
  <2>1. ch.comp \in Component /\ ch.new \in Status
    BY DEF TypeOK, Change
  <2>2. emit' \subseteq Change
    BY <1>12 DEF Deliver, TypeOK
  <2>3. CASE SetFailed(ch.comp)
    BY <1>12, <2>1, <2>2, <2>3
       DEF Deliver, SetFailed, TypeOK, HasConn, Registered, Status, Live, pipes, thread
  <2>4. CASE /\ told' = IF Registered(ch.comp) THEN [told EXCEPT ![ch.comp] = ch.new] ELSE told
             /\ UNCHANGED <<status, timeLeft>>
    BY <1>12, <2>1, <2>2, <2>4
       DEF Deliver, TypeOK, HasConn, Registered, pipes, thread
  <2>5. QED
    BY <1>12, <2>3, <2>4 DEF Deliver
<1>13. CASE UNCHANGED vars
  BY <1>13 DEF vars, TypeOK, HasConn, Registered
<1>14. QED
  BY <1>1, <1>2, <1>3, <1>4, <1>5, <1>6, <1>7, <1>8, <1>9, <1>10, <1>11, <1>12, <1>13
     DEF Next, Monitor, Domain, Processes

\* Every variable keeps the kind of value the code gives it.
THEOREM TypeCorrect == Spec => []TypeOK
  BY InitType, StepType, PTL DEF Spec

-----------------------------------------------------------------------------
(* The invariants.                                                         *)

\* Most steps leave alone everything the invariants of this section read but
\* the locals of the loop.
Quiet == UNCHANGED <<status, policy, misses, emit, told>>

\* The steps that matter to statuses, strikes and callbacks; all others leave them.
LEMMA StepCases ==
    ASSUME [Next]_vars
    PROVE  \/ Quiet
           \/ \E c \in Component, k \in Conn, p \in Policies : Register(c, k, p)
           \/ \E c \in Component : Unregister(c)
           \/ \E c \in Component : Read(c)
           \/ Check /\ due /\ CheckAllDeadlines
           \/ \E ch \in emit : Deliver(ch)
<1>1. ASSUME NEW k \in Conn, (\E f \in Frame : Send(k, f)) \/ Exit(k)
      PROVE  Quiet
  BY <1>1 DEF Send, Exit, Quiet, registry
<1>2. CASE Stop \/ Tick \/ Snapshot \/ Leave \/ Wait \/ UNCHANGED vars
  BY <1>2 DEF Stop, Tick, Snapshot, Leave, Wait, vars, Quiet, registry
<1>3. CASE Check
  BY <1>3 DEF Check, Quiet, registry
<1>4. QED
  BY <1>1, <1>2, <1>3 DEF Next, Monitor, Domain, Processes

\* What a Read does to the entry of its component.
LEMMA ReadCases ==
    ASSUME TypeOK, NEW c \in Component, Read(c)
    PROVE  /\ UNCHANGED <<policy, told>>
           /\ emit = {}
           /\ \/ UNCHANGED <<status, misses, emit>>
              \/ /\ TransitionToHealthy(c)
                 /\ status[c] \notin {"absent", "failed"}
                 /\ status' = [status EXCEPT ![c] = "healthy"]
                 /\ misses' = [misses EXCEPT ![c] = 0]
                 /\ Announce(c, "healthy")
              \/ /\ status[c] \notin {"absent", "failed"}
                 /\ status' = [status EXCEPT ![c] = "recovering"]
                 /\ misses' = misses
                 /\ Announce(c, "recovering")
              \/ /\ status[c] \in Live
                 /\ status' = [status EXCEPT ![c] = "dead"]
                 /\ misses' = misses
                 /\ Announce(c, "dead")
  BY DEF Read, HandleFrame, TransitionToHealthy, TransitionToRecovering, HandlePipeClosed,
         registry

\* No step takes the strike count away from its status.
LEMMA StepMisses ==
    ASSUME TypeOK, MissesMatchStatus, DeadUnread, [Next]_vars
    PROVE  MissesMatchStatus'
<1>1. CASE Quiet
  BY <1>1 DEF Quiet, MissesMatchStatus, Live
<1>2. ASSUME NEW c \in Component, NEW k \in Conn, NEW p \in Policies, Register(c, k, p)
      PROVE  MissesMatchStatus'
  BY <1>2, PolicyFields DEF Register, MissesMatchStatus, TypeOK, Live
<1>3. ASSUME NEW c \in Component, Unregister(c)
      PROVE  MissesMatchStatus'
  BY <1>3 DEF Unregister, MissesMatchStatus, TypeOK, Live
<1>4. ASSUME NEW c \in Component, Read(c)
      PROVE  MissesMatchStatus'
  <2>1. status[c] # "dead"
    BY <1>4 DEF Read, DeadUnread
  <2>2. policy[c].maxMisses > 0 /\ policy[c].maxMisses \in Nat
    BY PolicyFields DEF TypeOK
  <2>3. policy' = policy
    BY <1>4, ReadCases
  <2>4. CASE UNCHANGED <<status, misses>>
    BY <2>3, <2>4 DEF MissesMatchStatus
  <2>5. CASE status' = [status EXCEPT ![c] = "healthy"] /\ misses' = [misses EXCEPT ![c] = 0]
    BY <2>2, <2>3, <2>5 DEF MissesMatchStatus, TypeOK, Live
  <2>6. CASE /\ status[c] \notin {"absent", "failed"} /\ misses' = misses
             /\ status' = [status EXCEPT ![c] = "recovering"]
    <3>1. status[c] \in Live
      BY <2>1, <2>6 DEF TypeOK, Status
    <3>2. misses[c] < policy[c].maxMisses
      BY <3>1 DEF MissesMatchStatus
    <3>3. QED
      BY <2>3, <2>6, <3>2 DEF MissesMatchStatus, TypeOK, Live
  <2>7. CASE misses' = misses /\ status' = [status EXCEPT ![c] = "dead"]
    BY <2>3, <2>7 DEF MissesMatchStatus, TypeOK, Live
  <2>8. QED
    BY <1>4, <2>4, <2>5, <2>6, <2>7, ReadCases
<1>5. CASE Check /\ due /\ CheckAllDeadlines
  <2>1. \A c \in Component : policy[c].maxMisses \in Nat
    BY PolicyFields DEF TypeOK
  <2>2. ASSUME NEW c \in Component
        PROVE  /\ status'[c] \in {"pending", "healthy"} => misses'[c] = 0
               /\ status'[c] = "unhealthy" => misses'[c] > 0
               /\ status'[c] \in Live => misses'[c] < policy'[c].maxMisses
    BY <1>5, <2>1 DEF CheckAllDeadlines, Judged, TimedOut, Exhausted, MissedNow,
                      MissesMatchStatus, TypeOK, Live
  <2>3. QED
    BY <2>2 DEF MissesMatchStatus
<1>6. ASSUME NEW ch \in emit, Deliver(ch)
      PROVE  MissesMatchStatus'
  BY <1>6 DEF Deliver, SetFailed, MissesMatchStatus, TypeOK, Change, Live
<1>7. QED
  BY <1>1, <1>2, <1>3, <1>4, <1>5, <1>6, StepCases

Queue == HandlerIsTold /\ QueueCurrent /\ QueueUnique

\* No step loses a status change between the registry and the handler.
LEMMA StepQueue ==
    ASSUME TypeOK, Queue, DeadUnread, [Next]_vars
    PROVE  Queue'
<1>1. CASE Quiet
  BY <1>1 DEF Quiet, Queue, HandlerIsTold, QueueCurrent, QueueUnique
<1>2. ASSUME NEW c \in Component, NEW k \in Conn, NEW p \in Policies, Register(c, k, p)
      PROVE  Queue'
  BY <1>2 DEF Register, Queue, HandlerIsTold, QueueCurrent, QueueUnique, TypeOK, Change
<1>3. ASSUME NEW c \in Component, Unregister(c)
      PROVE  Queue'
  BY <1>3 DEF Unregister, Queue, HandlerIsTold, QueueCurrent, QueueUnique, TypeOK, Change
<1>4. ASSUME NEW c \in Component, Read(c)
      PROVE  Queue'
  <2>1. ASSUME NEW s \in Status, emit = {}, told' = told, Announce(c, s),
               status' = [status EXCEPT ![c] = s]
        PROVE  Queue'
    BY <2>1 DEF Announce, Queue, HandlerIsTold, QueueCurrent, QueueUnique, TypeOK
  <2>2. CASE UNCHANGED <<status, emit>>
    BY <1>4, <2>2, ReadCases DEF Queue, HandlerIsTold, QueueCurrent, QueueUnique
  <2>3. QED
    BY <1>4, <2>1, <2>2, ReadCases DEF Status, Live
<1>5. CASE Check /\ due /\ CheckAllDeadlines
  <2>1. emit = {} /\ told' = told
    BY <1>5 DEF Check
  <2>2. HandlerIsTold'
    <3>1. SUFFICES ASSUME NEW c \in Component, status'[c] \notin {"absent", "pending"}
                   PROVE  told'[c] = status'[c] \/ [comp |-> c, new |-> status'[c]] \in emit'
      BY DEF HandlerIsTold
    <3>2. status'[c] = Judged(c)
      BY <1>5 DEF CheckAllDeadlines
    <3>3. CASE Judged(c) = status[c]
      BY <2>1, <3>1, <3>2, <3>3 DEF Queue, HandlerIsTold
    <3>4. CASE Judged(c) # status[c]
      BY <1>5, <3>2, <3>4 DEF CheckAllDeadlines
    <3>5. QED
      BY <3>3, <3>4
  <2>3. QueueCurrent' /\ QueueUnique'
    <3>1. \A ch \in emit' : ch.comp \in Component /\ ch = [comp |-> ch.comp, new |-> Judged(ch.comp)]
      BY <1>5 DEF CheckAllDeadlines
    <3>2. \A c \in Component : status'[c] = Judged(c)
      BY <1>5 DEF CheckAllDeadlines
    <3>3. QED
      BY <3>1, <3>2 DEF QueueCurrent, QueueUnique
  <2>4. QED
    BY <2>2, <2>3 DEF Queue
<1>6. ASSUME NEW ch \in emit, Deliver(ch)
      PROVE  Queue'
  <2>1. ch.comp \in Component /\ ch = [comp |-> ch.comp, new |-> ch.new]
    BY DEF TypeOK, Change
  <2>2. emit' = emit \ {ch} /\ \A other \in emit' : other.comp # ch.comp
    BY <1>6 DEF Deliver, Queue, QueueUnique
  <2>3. CASE SetFailed(ch.comp)
    BY <1>6, <2>1, <2>2, <2>3
       DEF SetFailed, Queue, HandlerIsTold, QueueCurrent, QueueUnique, TypeOK, Change
  <2>4. CASE /\ told' = IF Registered(ch.comp) THEN [told EXCEPT ![ch.comp] = ch.new] ELSE told
             /\ UNCHANGED <<status, timeLeft>>
    <3>1. status[ch.comp] \in {ch.new, "pending", "absent"}
      BY DEF Queue, QueueCurrent
    <3>2. HandlerIsTold'
      <4>1. SUFFICES ASSUME NEW c \in Component, status[c] \notin {"absent", "pending"}
                     PROVE  told'[c] = status[c] \/ [comp |-> c, new |-> status[c]] \in emit'
        BY <2>4 DEF HandlerIsTold
      <4>2. CASE c = ch.comp
        BY <2>4, <3>1, <4>1, <4>2 DEF Registered, TypeOK
      <4>3. CASE c # ch.comp
        BY <2>1, <2>2, <2>4, <4>1, <4>3 DEF Queue, HandlerIsTold, TypeOK
      <4>4. QED
        BY <4>2, <4>3
    <3>3. QueueCurrent' /\ QueueUnique'
      BY <2>2, <2>4 DEF Queue, QueueCurrent, QueueUnique
    <3>4. QED
      BY <3>2, <3>3 DEF Queue
  <2>5. QED
    BY <1>6, <2>3, <2>4 DEF Deliver
<1>7. QED
  BY <1>1, <1>2, <1>3, <1>4, <1>5, <1>6, StepCases

\* A connection the loop is about to read does not belong to a dead entry: only
\* the loop itself declares components dead, and not between Wait and Check.
LEMMA StepUnread ==
    ASSUME TypeOK, HasConn, DeadUnread, [Next]_vars
    PROVE  DeadUnread'
<1>1. CASE UNCHANGED <<status, pc, watched, ready>>
  BY <1>1 DEF DeadUnread, Watched
<1>2. CASE Snapshot
  BY <1>2 DEF Snapshot, DeadUnread, Watched, HasConn, TypeOK, Live, registry
<1>3. CASE Wait
  BY <1>3 DEF Wait, DeadUnread, Watched, registry
<1>4. CASE Leave
  BY <1>4 DEF Leave, DeadUnread, Watched, registry
<1>5. CASE Check
  BY <1>5 DEF Check, DeadUnread
<1>6. ASSUME NEW c \in Component, Read(c)
      PROVE  DeadUnread'
  <2>1. ready' = ready \ {c} /\ pc' = "read"
    BY <1>6 DEF Read
  <2>2. \A d \in Component : d # c => status'[d] = status[d]
    BY <1>6, ReadCases DEF TypeOK
  <2>3. QED
    BY <2>1, <2>2 DEF DeadUnread, TypeOK
<1>7. ASSUME NEW c \in Component, NEW s \in {"pending", "absent", "failed"},
             status' = [status EXCEPT ![c] = s], UNCHANGED <<pc, watched, ready>>
      PROVE  DeadUnread'
  BY <1>7 DEF DeadUnread, Watched, TypeOK
<1>8. ASSUME NEW ch \in emit, Deliver(ch)
      PROVE  DeadUnread'
  <2>1. ch.comp \in Component
    BY DEF TypeOK, Change
  <2>2. QED
    BY <1>1, <1>7, <1>8, <2>1 DEF Deliver, SetFailed, thread
<1>9. ASSUME NEW k \in Conn, (\E f \in Frame : Send(k, f)) \/ Exit(k)
      PROVE  DeadUnread'
  BY <1>1, <1>9 DEF Send, Exit, registry, thread
<1>10. CASE Stop \/ Tick \/ UNCHANGED vars
  BY <1>1, <1>10 DEF Stop, Tick, vars, registry, thread
<1>11. ASSUME NEW c \in Component, Unregister(c) \/ \E k \in Conn, p \in Policies : Register(c, k, p)
       PROVE  DeadUnread'
  BY <1>7, <1>11 DEF Unregister, Register, thread
<1>12. QED
  BY <1>2, <1>3, <1>4, <1>5, <1>6, <1>8, <1>9, <1>10, <1>11
     DEF Next, Monitor, Domain, Processes

\* The inductive invariant holds in the beginning,
LEMMA InitInv == Init => IInv /\ HasConn
<1> SUFFICES ASSUME Init PROVE IInv /\ HasConn
  OBVIOUS
<1>1. MissesMatchStatus
  BY PolicyFields, PolicyAssumption DEF Init, MissesMatchStatus, Live
<1>2. HandlerIsTold /\ QueueCurrent /\ QueueUnique /\ DeadUnread
  BY DEF Init, HandlerIsTold, QueueCurrent, QueueUnique, DeadUnread
<1>3. QED
  BY <1>1, <1>2, InitType DEF IInv

\* and every step preserves it.
LEMMA StepInv == IInv /\ HasConn /\ [Next]_vars => IInv' /\ HasConn'
<1> SUFFICES ASSUME IInv, HasConn, [Next]_vars PROVE IInv' /\ HasConn'
  OBVIOUS
<1>1. TypeOK' /\ HasConn'
  BY StepType DEF IInv
<1>2. MissesMatchStatus'
  BY StepMisses DEF IInv
<1>3. HandlerIsTold' /\ QueueCurrent' /\ QueueUnique'
  BY StepQueue DEF IInv, Queue
<1>4. DeadUnread'
  BY StepUnread DEF IInv
<1>5. QED
  BY <1>1, <1>2, <1>3, <1>4 DEF IInv

\* The inductive invariant: types, strikes, the queue of callbacks, and the
\* connections about to be read, together.
THEOREM Invariance == Spec => [](IInv /\ HasConn)
  BY InitInv, StepInv, PTL DEF Spec

\* The strike count agrees with the status, for any policies.
THEOREM MissesCorrect == Spec => []MissesMatchStatus
<1>1. IInv => MissesMatchStatus
  BY DEF IInv
<1>2. QED
  BY <1>1, Invariance, PTL

\* No status change is lost on its way to the handler, however registration,
\* removal, frames and checks interleave.
THEOREM NoChangeLost == Spec => []HandlerIsTold
<1>1. IInv => HandlerIsTold
  BY DEF IInv
<1>2. QED
  BY <1>1, Invariance, PTL

-----------------------------------------------------------------------------
(* HealthMonitor implements HealthStatus.                                  *)

\* A step of the monitor is a step of the status machine, or none.
LEMMA AbstractStep ==
    ASSUME IInv, HasConn, [Next]_vars
    PROVE  [HS!Next]_status
<1>1. CASE Quiet
  BY <1>1 DEF Quiet
<1>2. ASSUME NEW c \in Component, NEW k \in Conn, NEW p \in Policies, Register(c, k, p)
      PROVE  HS!Next
  BY <1>2 DEF Register, HS!Next, HS!Register
<1>3. ASSUME NEW c \in Component, Unregister(c)
      PROVE  HS!Next
  BY <1>3 DEF Unregister, HS!Next, HS!Unregister
<1>4. ASSUME NEW c \in Component, Read(c)
      PROVE  [HS!Next]_status
  <2>1. status[c] # "dead" /\ status[c] \in Status
    BY <1>4 DEF IInv, TypeOK, Read, DeadUnread
  <2>2. CASE UNCHANGED status
    BY <2>2
  <2>3. ASSUME status[c] \notin {"absent", "failed"}, NEW s \in {"healthy", "recovering"},
               status' = [status EXCEPT ![c] = s]
        PROVE  HS!Next
    <3>1. HS!Frame(c)
      BY <2>1, <2>3 DEF HS!Frame, HS!Live, Status, Live
    <3>2. QED
      BY <3>1 DEF HS!Next
  <2>4. CASE status[c] \in Live /\ status' = [status EXCEPT ![c] = "dead"]
    <3>1. HS!Closed(c)
      BY <2>4 DEF HS!Closed, HS!Live, Live
    <3>2. QED
      BY <3>1 DEF HS!Next
  <2>5. QED
    BY <1>4, <2>2, <2>3, <2>4, ReadCases DEF IInv
<1>5. CASE Check /\ due /\ CheckAllDeadlines
  <2>1. \A c \in Component : status'[c] = Judged(c) /\ Judged(c) \in Status
    BY <1>5, JudgedType DEF CheckAllDeadlines, IInv
  <2>2. status' \in [Component -> HS!Status]
    BY <1>5, <2>1 DEF CheckAllDeadlines, HS!Status, HS!Live, Status, Live
  <2>3. ASSUME NEW c \in Component
        PROVE  Judged(c) \in HS!Demoted(status[c])
    <3>1. status[c] \in Status
      BY DEF IInv, TypeOK
    <3>2. QED
      BY <3>1 DEF Judged, TimedOut, Exhausted, MissedNow, HS!Demoted, Status, Live
  <2>4. HS!Check
    BY <2>1, <2>2, <2>3 DEF HS!Check
  <2>5. QED
    BY <2>4 DEF HS!Next
<1>6. ASSUME NEW ch \in emit, Deliver(ch)
      PROVE  [HS!Next]_status
  <2>1. ch.comp \in Component
    BY DEF IInv, TypeOK, Change
  <2>2. QED
    BY <1>6, <2>1 DEF Deliver, SetFailed, Registered, HS!Next, HS!Fail
<1>7. QED
  BY <1>1, <1>2, <1>3, <1>4, <1>5, <1>6, StepCases

\* The monitor keeps the promise of HealthStatus: failed is final until the
\* component is unregistered, a dead one comes back only by a registration, and
\* a check demotes but never promotes.
THEOREM Implementation == Spec => Refines
<1>1. Init => HS!Init
  BY DEF Init, HS!Init
<1>2. IInv /\ HasConn /\ [Next]_vars => [HS!Next]_status
  BY AbstractStep
<1>3. QED
  BY <1>1, <1>2, Invariance, PTL DEF Refines, Spec, HS!Spec
=============================================================================
