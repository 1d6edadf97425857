SPECIFICATION FairSpec
CONSTANTS
    Workers = 2
    Copies = 1
    Files = 2
    MaxErrors = 2
    MaxFaults = 1
    Misjudges = FALSE
INVARIANTS TypeOK ClaimCoversWork TaggedIsStored
PROPERTIES OnlyOrphansStarve ImplementsFileWork
CHECK_DEADLOCK FALSE
