SPECIFICATION Spec
CONSTANTS
    n1 = n1
    n2 = n2
    c1 = c1
    c2 = c2
    other = other
    Node = {n1, n2}
    Client = {c1, c2, other}
    home <- MChome
    script <- MCscript
    numBoxes = 2
    NULL = NULL
INVARIANTS
    MailKept
    InOrder
    WakeupsKept
PROPERTIES
    Delivered
CHECK_DEADLOCK FALSE
