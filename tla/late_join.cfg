SPECIFICATION Spec
CONSTANTS
    f1 = f1
    f2 = f2
    j1 = j1
    j2 = j2
    Replicas = {f1, f2, j1}
    Founders = {f1, f2}
    Churn = {}
    UnknownOp = "raise"
    HistoryLen = 2
    SyncIds = {1, 2}
    NoSync = 0
    MaxChatter = 1
    MaxLosses = 0
    MaxOps = 2
CHECK_DEADLOCK FALSE
INVARIANTS TypeOK SteadyFollows CountedInOrder HashesAgree
SYMMETRY Symmetry
