SPECIFICATION Spec
CONSTANTS
    Song = {s1, s2}
    MaxCrashes = 2
SYMMETRY MCSymmetry
INVARIANTS TypeOK ReferencesKept RecordedIsDone NoFalseProgress
CHECK_DEADLOCK FALSE
