CONSTANTS
    Arguments <- MCRoundRobin
    batch = 2
    burst_len = 2

SPECIFICATION FairSpec

PROPERTY EverySimulationEnds
