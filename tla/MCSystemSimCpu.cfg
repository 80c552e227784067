CONSTANTS
    Arguments <- MCShortestFirst
    batch = 2
    burst_len = 2

SPECIFICATION Spec

INVARIANT AtMostOneRunning
