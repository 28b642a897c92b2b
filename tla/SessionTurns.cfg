CONSTANTS
    k1 = k1
    t1 = t1  t2 = t2  t3 = t3
    a1 = a1
    NoTurn = NoTurn
    Keys <- OneKey
    Turns <- ThreeTurns
    KeyOf <- SameKey
    Aborts <- OneAbort
    MaxAsks = 1
    EarlyLeave = FALSE
SPECIFICATION Spec
SYMMETRY TurnSymmetry
INVARIANTS PromptsFollowTheirTurn
PROPERTIES ImplementsConversation
CHECK_DEADLOCK FALSE
