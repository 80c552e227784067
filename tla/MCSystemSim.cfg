CONSTANTS
    Arguments <- MCArguments
    batch = 2
    burst_len = 2

SPECIFICATION FairSpec

INVARIANTS
    SimTypeOK
    CpuExclusive
    FreedAfterExit
    SelectionOrder

PROPERTIES
    SchedulingSpec
    SimulationEnds
