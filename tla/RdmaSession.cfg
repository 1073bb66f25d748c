SPECIFICATION FairSpec
CONSTANTS
    c1 = c1
    c2 = c2
    e1 = e1
    None = None
    Conns = {c1, c2}
    Extents = {e1}
    Ops = {"get", "put", "put_if_absent", "put_stripes", "get_descriptor", "get_stripes"}
    MaxOps = 3
    MaxGens = 2
    MaxEvents = 1
INVARIANTS
    InStep
    StoresOwnBytes
    DescriptorBytes
    GetCommitted
PROPERTIES
    OnlyOwnedWritten
    EveryRequestEnds
CHECK_DEADLOCK FALSE
