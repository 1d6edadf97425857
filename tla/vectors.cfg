SPECIFICATION Spec
CONSTANTS
    File = {f1}
    Worker = {w1, w2}
    Api = Api
    NoLock = NoLock
    MaxWrites = 2
    MaxFaults = 1
SYMMETRY MCSymmetry
INVARIANTS TypeOK VectorKept Exclusive IndexRestored
