CONSTANTS
    k1 = k1
    t1 = t1  t2 = t2  t3 = t3
    a1 = a1
    NoTurn = NoTurn
    Keys <- OneKey
    Turns <- TwoTurns
    KeyOf <- SameKey
    Aborts <- OneAbort
    MaxAsks = 1
    EarlyLeave = TRUE
SPECIFICATION FairSpec
INVARIANTS AbortReleasesSlot
PROPERTIES TurnsSettle
CHECK_DEADLOCK FALSE
