SPECIFICATION Spec
CONSTANTS
    n1 = n1
    n2 = n2
    m1 = m1
    m2 = m2
    p1 = p1
    p2 = p2
    Nodes = {n1, n2}
    Mounts = {m1, m2}
    MountOf <- OwnMounts
    GcNodes = {n1}
    Gateways = {n1, n2}
    Handlers = {p1}
    Kinds = {"dist"}
    KindsAt <- Anywhere
    ReadKinds = {}
    GcLimit = 2
    MaxGen = 2
    MaxFaults = 2
INVARIANTS
    CrashSafeQueue
CHECK_DEADLOCK FALSE
