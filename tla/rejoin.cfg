SPECIFICATION FairSpec
CONSTANTS
    p1 = p1
    p2 = p2
    p3 = p3
    People = {p1, p2, p3}
    Churn = {p1}
    Prompt = TRUE
    MaxLosses = 1
CHECK_DEADLOCK FALSE
INVARIANTS TimesOutRefused RoomInvariant
PROPERTIES Rejoins
