----------------------------- MODULE FileStates -----------------------------
(***************************************************************************)
(* The state graph of one file (persistence/database/file_states_aql.py):  *)
(* an edge to one of the two vertices of each axis.  A file's edges are a  *)
(* set of states, a state is an axis and its side.  The index on the ends  *)
(* of an edge is unique: a second edge to the same state raises, and undoes *)
(* the query.                                                              *)
(***************************************************************************)
CONSTANT Axis   \* the axes looked at: "tagged", "scanned", ...

State == Axis \X BOOLEAN

Is(axis)    == <<axis, TRUE>>
IsNot(axis) == <<axis, FALSE>>

\* The edges of a file on one axis.
Poles(edges, axis) == {state \in edges : state[1] = axis}

\* initialize_file_states: the edges that exist are ignored, those of the other
\* side do not matter.
Initialized(edges) == edges \cup {IsNot(axis) : axis \in Axis}

\* Mutant of Transitioned: the old edge removed and the new one inserted by two
\* queries, of which the second may fail.
MutTransitioned(edges, state) ==
    {edges \ Poles(edges, state[1]), (edges \ Poles(edges, state[1])) \cup {state}}

\* _transition_state replaces the first edge of the axis it finds.  With both
\* there, that may be the one it then inserts, or the other: then it raises.
Transitioned(edges, state) ==
    IF Poles(edges, state[1]) = {Is(state[1]), IsNot(state[1])}
    THEN {edges}
    ELSE {(edges \ Poles(edges, state[1])) \cup {state}}

MayRaise(edges, state) == Poles(edges, state[1]) = {Is(state[1]), IsNot(state[1])}

\* A bulk_set query on the files that have state "from": it raises if one of
\* them has the other state as well.
Opposite(state) == <<state[1], ~state[2]>>

BulkRaises(edges, from) == {from, Opposite(from)} \subseteq edges

BulkSet(edges, from) ==
    IF from \in edges THEN (edges \ {from}) \cup {Opposite(from)} ELSE edges
=============================================================================
