SPECIFICATION FairSpec
CONSTANTS
    MaxInWindow = 1
    MaxLifetime = 2
    Workers = 1
    Copies = 2
    Timers = 2
INVARIANTS RestartBudget
PROPERTIES DeathIsAnswered
