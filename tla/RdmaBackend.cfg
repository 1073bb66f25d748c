SPECIFICATION Spec
CONSTANTS
    l = l
    s = s
    Loaders = {l}
    Storers = {s}
    CacheLimit = 1
    Fallback = TRUE
    MaxCalls <- CallBound
    MaxFaults = 1
    None = None
INVARIANTS
    
    Healed
CHECK_DEADLOCK FALSE
