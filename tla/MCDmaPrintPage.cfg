CONSTANTS
    t1 = t1
    NoThread = NoThread
    Threads <- MCThreads
    Requests <- MCRequests
    PageNumbers <- MCPageNumbers
    Units = 7
    BitmapUnits = 2
    ReservedUnits = 1
    PageUnits = 4
    MaxFrag = 0

SPECIFICATION PageSpec

INVARIANT BitmapEncodesBlocks
CHECK_DEADLOCK FALSE
