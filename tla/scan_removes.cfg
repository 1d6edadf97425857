\* A folder with files in a folder with files: the scan removes documents of files it has not looked at.
CONSTANTS
    s1 = s1
    s2 = s2
    a = a
    b = b
    Song = {s1, s2}
    Folder = {a, b}
    Axis <- MCAxis
    Under <- MCNested
    Short = {}
    Requester = {web}
    NoDoc = NoDoc
    NoFolder = NoFolder
    MaxChanges = 0
    MaxFaults = 0
SPECIFICATION Spec
CHECK_DEADLOCK FALSE
PROPERTY OnlyDeletedRemoved
