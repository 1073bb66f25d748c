SPECIFICATION Spec
CONSTANTS
    n1 = n1
    n2 = n2
    m1 = m1
    m2 = m2
    p1 = p1
    p2 = p2
    Nodes = {n1, n2}
    Mounts = {m1}
    MountOf <- SharedMount
    GcNodes = {n1}
    Gateways = {n2}
    Handlers = {p1, p2}
    Kinds = {"single", "direct"}
    KindsAt <- LocalAtFirst
    ReadKinds = {"get", "exists"}
    GcLimit = 1
    MaxGen = 2
    MaxFaults = 1
SYMMETRY HandlerSymmetry
INVARIANTS
    TypeOK
    CurrentReadable
    OwnershipInv
    RetiredTracked
PROPERTIES
    LiveMetadataKept
    PurgeSparesNewer
CHECK_DEADLOCK FALSE
