\* Scans of two folders side by side.
CONSTANTS
    s1 = s1
    s2 = s2
    a = a
    b = b
    Song = {s1, s2}
    Folder = {a, b}
    Axis <- MCAxis
    Under <- MCFlat
    Short = {s2}
    Requester = {web}
    NoDoc = NoDoc
    NoFolder = NoFolder
    MaxChanges = 1
    MaxFaults = 1
SPECIFICATION Spec
CHECK_DEADLOCK FALSE
INVARIANTS TypeOK ScanMirrorsDisk SkippedFoldersAreRight MovesKept NoAxisLost
SYMMETRY MCFolders
