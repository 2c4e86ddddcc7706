SPECIFICATION Spec
CONSTANTS
    Proc = {p1, p2}
    Names = {good, bad}
    BadNames = {bad}
    NumFiles = 4
    Counts = {0, 2}
    MaxLength = 2
    NULL = NULL
SYMMETRY Symmetry
INVARIANTS
    
    StubReturns
PROPERTIES
    AnswersRight
CHECK_DEADLOCK FALSE
