SPECIFICATION FairSpec
CONSTANTS
    t1 = t1
    t2 = t2
    t3 = t3
    t4 = t4
    t5 = t5
    Threads = {t1, t2, t3, t4}
    Prompt = TRUE
    TimeLimit = TRUE
    Answered = TRUE
    MaxLosses = 2
    MaxRefusals = 2
    MaxCalls = 2
CHECK_DEADLOCK FALSE
INVARIANTS TypeOK NobodyGivesUp ReconnectInvariant
PROPERTIES ComesBack
