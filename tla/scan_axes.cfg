\* A file is changed after it was scanned: it gets both states of an axis.
CONSTANTS
    s1 = s1
    s2 = s2
    a = a
    b = b
    Song = {s1}
    Folder = {a, b}
    Axis <- MCAxis
    Under <- MCFlat
    Short = {}
    Requester = {web, poll}
    NoDoc = NoDoc
    NoFolder = NoFolder
    MaxChanges = 1
    MaxFaults = 0
SPECIFICATION Spec
CHECK_DEADLOCK FALSE
INVARIANT OneEdgePerAxis
