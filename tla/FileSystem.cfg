SPECIFICATION Spec
CONSTANTS
    NumSectors = 7
    NumDirEntries = 2
    NumDirect = 2
    SectorSize = 2
    Names = {"a", "a2", "b", "c"}
    Prefix <- MCPrefix
    FileSizes = {0, 1, 4, 5}
    Requests <- MCRequests
    Handles = {h1}
    MaxStops = 1
    NULL = NULL
INVARIANTS
    
    NoLeak
    WriteExact
CHECK_DEADLOCK FALSE
