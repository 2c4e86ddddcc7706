SPECIFICATION FairSpec
CONSTANTS
    t1 = t1
    t2 = t2
    t3 = t3
    mutex = mutex
    io = io
    NULL = NULL
    Thread = {t1, t2, t3}
    Main = t1
    Sem = {mutex, io}
    Device = {io}
    initialValue <- MCInitialValue
    Timer = TRUE
    MaxValue = 2
INVARIANTS
    ThreadsAccounted
    NoLostWakeup
    HaltMeansStuck
PROPERTIES
    RefinesSemaphore
    ThreadsProgress
CHECK_DEADLOCK FALSE
