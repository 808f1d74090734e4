SPECIFICATION Spec
CONSTANTS
    f1 = f1
    f2 = f2
    j1 = j1
    j2 = j2
    Replicas = {f1, j1}
    Founders = {f1}
    Churn = {f1}
    UnknownOp = "raise"
    HistoryLen = 0
    SyncIds = {1, 2}
    NoSync = 0
    MaxChatter = 1
    MaxLosses = 1
    MaxOps = 3
CHECK_DEADLOCK FALSE
INVARIANTS HashesAgree
