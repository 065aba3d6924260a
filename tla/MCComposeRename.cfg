CONSTANTS
    Root = Root
    sub = sub
    nested = nested
    f = f
    g = g
    Bad = Bad
    Absent = Absent
    Dir = {Root, sub}
    Parent <- MCParent
    File = {f, g}
    DirOf <- MCDirOf
    Version = {v1}
    UpdateCap = 1
    MaxEdits = 3
    MaxFailures = 1
    Node = {n1, n2}
    Addr = {1, 2}
    Faulty = {2}
    Unknown = unknown
    None = none
    MaxMoves = 2
    MaxFaults = 2
SPECIFICATION Spec

PROPERTY RenamesShown
CHECK_DEADLOCK FALSE
