SPECIFICATION FairSpec
CONSTANTS
    n1 = n1
    n2 = n2
    m1 = m1
    m2 = m2
    p1 = p1
    p2 = p2
    Nodes = {n1, n2}
    Mounts = {m1}
    MountOf <- SharedMount
    GcNodes = {n1, n2}
    Gateways = {n1, n2}
    Handlers = {p1}
    Kinds = {"dist"}
    KindsAt <- AtFirst
    ReadKinds = {}
    GcLimit = 2
    MaxGen = 2
    MaxFaults = 1
PROPERTIES
    Reclaimed
CHECK_DEADLOCK FALSE
