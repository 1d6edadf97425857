SPECIFICATION Spec
CONSTANTS
    File = {f1}
    Worker = {w1, w2}
    Api = Api
    NoLock = NoLock
    MaxWrites = 2
    MaxFaults = 0

PROPERTIES PromotedIsFound
