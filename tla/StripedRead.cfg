SPECIFICATION FairSpec
CONSTANTS
    n1 = n1
    n2 = n2
    p1 = p1
    p2 = p2
    q1 = q1
    Nodes = {n1, n2}
    Owner <- MCOwner
    ChunkSize = 2
    Threshold = 2
    MaxInflight = 1
    Putters = {p1, p2}
    Streams <- MCStreams
    Configs <- MCConfigs
    MaxGen = 2
    MaxFaults = 1
    Readers = {q1}
    ReadAhead = 1
INVARIANTS CommittedWhole RolledBack 
PROPERTIES KeepsIntact RequestsEnd
CHECK_DEADLOCK FALSE
