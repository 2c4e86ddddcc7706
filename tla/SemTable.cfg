SPECIFICATION Spec
CONSTANTS
    p1 = p1
    p2 = p2
    a = a
    b = b
    Proc = {p1, p2}
    Name = {a, b}
    NumSlots = 3
    InitVals = {0, 1}
    GARBAGE = GARBAGE
    NULL = NULL
INVARIANTS
    TableUsable
PROPERTIES
    NameStable
CHECK_DEADLOCK FALSE
