-------------------------- MODULE MC_VramPromises --------------------------
(* An instance of VramPromises. *)
EXTENDS VramPromises, TLC

CONSTANTS w1, w2, head, backbone

\* One worker is like the other, and so is one model: either may be the larger.
MCSymmetry == Permutations({w1, w2}) \cup Permutations({head, backbone})

\* Two bounds: of a worker one model is loaded or unloaded at a time, also when it
\* runs more than one, and the one failure does not meet two checks that overlapped.
Bounded ==
    /\ \A w \in Worker : Cardinality({key \in KeysOf(w) : load[key] # NotLoading}) <= 1
    /\ overlapped => faults = MaxFaults
=============================================================================
