SPECIFICATION Spec
CONSTANTS
    MaxInWindow = 1
    MaxLifetime = 2
    Workers = 2
    Copies = 2
    Timers = 2
CONSTRAINT Tidy
INVARIANTS TypeOK OneRestartOwed
