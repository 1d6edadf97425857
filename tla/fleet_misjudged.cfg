SPECIFICATION FairSpec
CONSTANTS
    Workers = 1
    Copies = 2
    Files = 1
    MaxErrors = 1
    MaxFaults = 3
    Misjudges = TRUE
INVARIANTS TaggedIsStored
PROPERTIES OnlyOrphansStarve
CHECK_DEADLOCK FALSE
