SPECIFICATION Spec
CONSTANTS
    a = a
    b = b
    x = x
    y = y
    k = k
    d1 = d1
    d2 = d2
    Absent = Absent
    Devices = {d1, d2}
    Fields = {f}
    Values = {x}
    Rows = {a, b}
    Kinds = {k}
    Literals = {}
    Mask <- OneMasked
    Creator <- ByEach
    Provided <- OneRow
    MaxEdits = 2
    MaxBroken = 1
INVARIANT TypeOK
PROPERTY LocalChangesKept
PROPERTY RowsGoOnlyWhenDeleted
PROPERTY SettlesUnlessMissed
