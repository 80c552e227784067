CONSTANTS
    Disks <- MCDisks
    Paths <- MCPaths
    Ranges <- MCRanges
    PerSector = 4
    Slots = 7

SPECIFICATION Spec

INVARIANTS
    FatTypeOK
    SearchExact
    ListedWhenContiguous
    ListExact
    TreeExact
    ContentExact
    TableExact

PROPERTY WalkEnds
