SPECIFICATION FairSpec
CONSTANTS
    Attempts = 2
    ZeroUsageMax = 2
    TransientMax = 2
    TextPieces = 2
    AnswerPieces = 3
    FewPieces = 1
INVARIANTS RequestsAreBounded AccountedUnlessTold
PROPERTIES ImplementsModelCall AbortIsFinal EveryCallSettles
CHECK_DEADLOCK FALSE
