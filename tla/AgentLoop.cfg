SPECIFICATION Spec
CONSTANTS
    HeadTurns = 1
    TailTurns = 1
    KeepPercent = 35
    TruncatePercent = 50
    MaxTurns = 2
    MaxSelfCorrect = 1
    MaxInvalid = 2
    MaxPrompts = 2
    MaxRequests = 3
    MaxCompactions = 1
    MaxStrips = 1
    CallSizes <- MCCallSizes
INVARIANTS TypeOK HistoryIsWellFormed RequestsAreAccounted
PROPERTIES SummaryIsFaithful
CHECK_DEADLOCK FALSE
