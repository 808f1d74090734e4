SPECIFICATION FairSpec
CONSTANTS
    p1 = p1
    p2 = p2
    p3 = p3
    People = {p1, p2, p3}
    Churn = {}
    Prompt = FALSE
    MaxLosses = 0
CHECK_DEADLOCK FALSE
INVARIANTS TypeOK JoinedIsOccupant CreatorCreates
PROPERTIES RoomUnlocks
