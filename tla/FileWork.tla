------------------------------ MODULE FileWork ------------------------------
(***************************************************************************)
(* What tagging is for the rest of the application, without claims,        *)
(* threads, queries, judgements or the pool.  A file is in the hands of    *)
(* one process or of nobody.  What it is marked as changes only while it   *)
(* is in somebody's hands: results before the tag, the tag before the      *)
(* vectors.  A process may go at any time, and what it had is then in      *)
(* nobody's hands.  The last file of a process, whose writes are under     *)
(* way, and the next may be in its hands together, never more.             *)
(*                                                                         *)
(* A file may be begun again after it was tagged: a worker does not look   *)
(* again once it has the claim (worker_discovery_comp.py:113).             *)
(* DiscoveryFleet implements this module as long as only processes that    *)
(* ended are judged dead (ImplementsFileWork there, and a theorem of       *)
(* DiscoveryFleetProofs).                                                  *)
(***************************************************************************)
CONSTANTS File, Proc, Nobody

VARIABLES
    hands,     \* the process that works on each file, or Nobody
    present,   \* files in the library
    known,     \* files whose results are stored, or that have none
    tagged, extracted, errored

marks == <<present, known, tagged, extracted, errored>>

Init ==
    /\ hands = [f \in File |-> Nobody]
    /\ present = File
    /\ known = {} /\ tagged = {} /\ extracted = {} /\ errored = {}

-----------------------------------------------------------------------------
\* Whoever gets the claim of a file, with no more than its last one in hand.
Begin(p, f) ==
    /\ hands[f] = Nobody
    /\ \A g, h \in File : hands[g] = p /\ hands[h] = p => g = h
    /\ hands' = [hands EXCEPT ![f] = p]
    /\ UNCHANGED marks

\* Work on files ends: a claim is given back, or processes are gone.
End(files) ==
    /\ hands' = [f \in File |-> IF f \in files THEN Nobody ELSE hands[f]]
    /\ UNCHANGED marks

\* The workflow had nothing to write, or what it had is stored.
Result(f) ==
    /\ known' = known \cup {f}
    /\ UNCHANGED <<present, tagged, extracted, errored>>

Tag(f) ==
    /\ f \in known
    /\ tagged' = tagged \cup {f}
    /\ UNCHANGED <<present, known, extracted, errored>>

Extract(f) ==
    /\ f \in tagged
    /\ extracted' = extracted \cup {f}
    /\ UNCHANGED <<present, known, tagged, errored>>

Fail(f) ==
    /\ errored' = errored \cup {f}
    /\ UNCHANGED <<present, known, tagged, extracted>>

\* A file that cannot be decoded leaves the library, with what it was marked as.
Remove(f) ==
    /\ known' = known \cup {f}
    /\ present' = present \ {f}
    /\ tagged' = tagged \ {f}
    /\ extracted' = extracted \ {f}
    /\ errored' = errored \ {f}

Work(f) ==
    /\ hands[f] # Nobody
    /\ Result(f) \/ Tag(f) \/ Extract(f) \/ Fail(f) \/ Remove(f)
    /\ UNCHANGED hands

-----------------------------------------------------------------------------
Next ==
    \/ \E f \in File : Work(f) \/ \E p \in Proc : Begin(p, f)
    \/ \E files \in SUBSET File : End(files)

Spec == Init /\ [][Next]_<<hands, marks>>
=============================================================================
