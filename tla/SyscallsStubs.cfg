SPECIFICATION Spec
CONSTANTS
    Proc = {p1}
    Names = {good, bad}
    BadNames = {bad}
    NumFiles = 6
    Counts = {0, 1}
    MaxLength = 1
    NULL = NULL
INVARIANTS
    OneCallPerStub
CHECK_DEADLOCK FALSE
