CONSTANTS
    t1 = t1
    t2 = t2
    t3 = t3
    NoThread = NoThread
    Threads <- MCThreeThreads
    Requests <- MCRequests
    Units = 8
    BitmapUnits = 2
    ReservedUnits = 1
    PageUnits = 4
    MaxFrag = 7

SPECIFICATION Spec

SYMMETRY Symmetry

INVARIANTS
    TypeOK
    MutualExclusion
    BlocksDisjoint
    BitmapEncodesBlocks
    SegmentStaysMapped

PROPERTY HeldBlocksUntouched
