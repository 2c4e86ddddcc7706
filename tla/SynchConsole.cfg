SPECIFICATION FairSpec
CONSTANTS
    p1 = p1
    p2 = p2
    Proc = {p1, p2}
    MaxBytes = 2
    Keys = {"char", "newline", "ctrlA", "xff"}
    MaxUnits = 2
    NULL = NULL
INVARIANTS
    DeviceRight
    ReadersRight
PROPERTIES
    WriteWhole
    LinesEnd
