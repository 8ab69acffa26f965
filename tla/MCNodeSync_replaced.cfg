SPECIFICATION Spec
CONSTANTS
    a = a
    b = b
    x = x
    y = y
    k = k
    d1 = d1
    d2 = d2
    Absent = Absent
    Devices = {d1, d2}
    Fields = {f}
    Values = {x}
    Rows = {}
    Kinds = {k}
    Literals = {}
    Mask <- FieldsSeen
    Creator <- ByEach
    Provided <- NewNode
    MaxEdits = 4
    MaxBroken = 1
PROPERTY ConflictsKeepLocal
SYMMETRY SameDevices
