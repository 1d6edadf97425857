--------------------------- MODULE MC_LibraryScan ---------------------------
(* Instances of LibraryScan. *)
EXTENDS LibraryScan, TLC

CONSTANTS a, b

MCAxis == {"tagged", "scanned", "errored"}

\* Without folders in folders, one is like the other.
MCFolders == Permutations({a, b})

\* Two folders side by side, or one in the other.
MCFlat   == [folder \in Folder |-> {}]
MCNested == [folder \in Folder |-> IF folder = a THEN {b} ELSE {}]
=============================================================================
