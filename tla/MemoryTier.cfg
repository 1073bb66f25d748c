SPECIFICATION Spec
CONSTANTS
    k1 = k1
    k2 = k2
    p1 = p1
    p2 = p2
    Keys = {k1, k2}
    Size <- Sizes
    Capacity = 2
    Handlers = {p1, p2}
    Ops = {"put", "put_chunks_if_absent", "put_chunks", "get", "get_batch", "get_stream", "exists", "delete"}
    TtlGens = {1}
    MaxGen = 2
SYMMETRY HandlerSymmetry
INVARIANTS
    SizeAccounted
    EachWithinCapacity
    EvictionFrees
    
PROPERTIES
    OnlyExpiredPurged
    ExpiredOnlyStreamed
