CONSTANTS
    Arguments <- MCAnyAlgorithm
    batch = 2
    burst_len = 2

SPECIFICATION Spec

INVARIANT OwnPcb
