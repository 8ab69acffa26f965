SPECIFICATION Spec
CONSTANTS
    a = a
    b = b
    x = x
    y = y
    k = k
    d1 = d1
    d2 = d2
    Absent = Absent
    Devices = {d1, d2}
    Fields = {}
    Values = {x}
    Rows = {a, b}
    Kinds = {k}
    Literals = {}
    Mask <- AllSeen
    Creator <- ByEach
    Provided <- NewNode
    MaxEdits = 2
    MaxBroken = 1
PROPERTY Settles
