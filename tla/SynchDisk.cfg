SPECIFICATION Spec
CONSTANTS
    Thread = {t1, t2}
    NumTracks = 2
    SectorsPerTrack = 3
    RotationTime = 2
    SeekTime = 3
    MaxTicks = 24
    NULL = NULL
INVARIANTS
    CompletionsRight
    TimingRight
CHECK_DEADLOCK FALSE
