SPECIFICATION FairSpec
CONSTANTS
    t1 = t1
    t2 = t2
    t3 = t3
    NULL = NULL
    Thread = {t1, t2, t3}
    Main = t1
    Device = {"DiskInt"}
    Delay = 4
    PollTicks = 3
    TimerTicks = 2
    UserTick = 1
    SystemTick = 3
INVARIANTS
    PendingRight
    StatusRight
PROPERTIES
    NothingLost
    TimeServes
CHECK_DEADLOCK FALSE
