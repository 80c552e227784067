CONSTANTS
    t1 = t1
    t2 = t2
    t3 = t3
    NoThread = NoThread
    Threads <- MCTwoThreads
    Requests <- MCFewRequests
    Units = 8
    BitmapUnits = 1
    ReservedUnits = 1
    PageUnits = 4
    MaxFrag = 0

SPECIFICATION FairSpec

PROPERTIES
    HeapSpec
    LockReleased
