\* Two workers with two models each, on a GPU for one of the smallest, one failure.
CONSTANTS
    w1 = w1
    w2 = w2
    head = head
    backbone = backbone
    Worker = {w1, w2}
    Model = {head, backbone}
    Total = 1
    MaxFaults = 1
SPECIFICATION Spec
CONSTRAINT Bounded
INVARIANTS TypeOK NoOvercommit SessionPromised PromiseUsed ModelsLoaded
SYMMETRY MCSymmetry
