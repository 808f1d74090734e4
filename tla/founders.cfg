SPECIFICATION Spec
CONSTANTS
    f1 = f1
    f2 = f2
    j1 = j1
    j2 = j2
    Replicas = {f1, f2}
    Founders = {f1, f2}
    Churn = {}
    UnknownOp = "raise"
    HistoryLen = 0
    SyncIds = {1}
    NoSync = 0
    MaxChatter = 2
    MaxLosses = 0
    MaxOps = 3
CHECK_DEADLOCK FALSE
INVARIANTS StatePredicted PendingInFlight
PROPERTIES ImplementsOrderedLog
SYMMETRY Symmetry
