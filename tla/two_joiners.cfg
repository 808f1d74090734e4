SPECIFICATION Spec
CONSTANTS
    f1 = f1
    f2 = f2
    j1 = j1
    j2 = j2
    Replicas = {f1, j1, j2}
    Founders = {f1}
    Churn = {j1, j2}
    UnknownOp = "raise"
    HistoryLen = 0
    SyncIds = {1, 2, 3}
    NoSync = 0
    MaxChatter = 1
    MaxLosses = 1
    MaxOps = 1
CHECK_DEADLOCK FALSE
INVARIANTS OneAnswerPerSync OrderInvariant
PROPERTIES WedgedForGood
SYMMETRY Symmetry
