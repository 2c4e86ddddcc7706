SPECIFICATION FairSpec
CONSTANTS
    main = main
    p1 = p1
    p2 = p2
    p3 = p3
    NULL = NULL
    Proc = {main, p1, p2, p3}
    Main = main
    NumSlots = 3
INVARIANTS
    TableRight
    ChildrenMet
    KernelSafe
    MainEndsLast
PROPERTIES
    EveryoneLeaves
CHECK_DEADLOCK FALSE
