SPECIFICATION Spec
CONSTANTS
    k1 = k1
    k2 = k2
    p1 = p1
    p2 = p2
    Keys = {k1}
    Size <- Sizes
    Capacity = 2
    Handlers = {p1, p2}
    Ops = {"put", "get"}
    TtlGens = {}
    MaxGen = 2
INVARIANTS
    NothingStale
