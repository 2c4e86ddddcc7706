SPECIFICATION Spec
CONSTANTS
    Proc = {p1, p2}
    First = p1
    Programs <- MCPrograms
    PageSize = 2
    NumPhysPages = 6
    UserStackSize = 2
    MEMSIZE = 6
    NULL = NULL
INVARIANTS
    FramesRight
    ProgramsAlike
    OwnState
CHECK_DEADLOCK FALSE
