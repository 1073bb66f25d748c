SPECIFICATION FairSpec
CONSTANTS
    Callers = {t1, t2, t3}
    Ops = {"plain", "rdma"}
    MaxOutages = 2
INVARIANTS
    TypeOK
    TrialPending

    
CHECK_DEADLOCK FALSE
