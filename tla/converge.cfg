SPECIFICATION FairSpec
CONSTANTS
    f1 = f1
    f2 = f2
    j1 = j1
    j2 = j2
    Replicas = {f1, f2, j1}
    Founders = {f1, f2}
    Churn = {}
    UnknownOp = "ignore"
    HistoryLen = 0
    SyncIds = {1, 2}
    NoSync = 0
    MaxChatter = 3
    MaxLosses = 0
    MaxOps = 1
PROPERTIES Converges
