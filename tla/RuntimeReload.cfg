SPECIFICATION ReloadSpec
CONSTANTS
    k1 = k1
    k2 = k2
    t1 = t1
    t2 = t2
    t3 = t3
    NoTurn = NoTurn
    Keys <- MCKeys
    Turns <- MCTurns
    KeyOf <- MCKeyOf
    MaxEdits = 2
    MaxMcp = 1
INVARIANTS ChangesReachSessions 
CHECK_DEADLOCK FALSE
