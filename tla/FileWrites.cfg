SPECIFICATION FairSpec
CONSTANTS
    p1 = p1
    p2 = p2
    c1 = c1
    c2 = c2
    j1 = j1
    j2 = j2
    j3 = j3
    r1 = r1
    None = None
    Paths = {p1, p2}
    Calls = {c1, c2}
    Jobs = {j1, j2, j3}
    Readers = {r1}
    PathOf <- MCPathOf
    CallOf <- MCCallOf
    NoDirect = {p2}
    Size = 3
    Ends <- MCEnds
    Workers = 2
    Loads <- MCLoads
    MaxFaults = 2
INVARIANTS   ResumeExact
PROPERTY BatchesEnd
CHECK_DEADLOCK FALSE
