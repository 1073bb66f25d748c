SPECIFICATION FairSpec
CONSTANTS
    d1 = d1
    d2 = d2
    c1 = c1
    c2 = c2
    Devices = {d1, d2}
    Calls = {c1, c2}
    Requests <- MCRequests
    DevOf <- MCDevOf
    ChunksOf <- MCChunksOf
    CallOf <- MCCallOf
    NoDirect = {d2}
    Loads <- MCLoads
    DepthFloor = 4
    StreamShare = 2
    MaxFaults = 1
INVARIANT Settled
PROPERTY AllAnswered
CHECK_DEADLOCK FALSE
