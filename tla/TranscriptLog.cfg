SPECIFICATION Spec
CONSTANTS
    MaxLines = 8
    MaxTurns = 3
    MaxMessages = 2
    MaxFaults = 2
INVARIANTS MemorySurvivesRestart TurnsReplayWhole SequenceIsOrder
CHECK_DEADLOCK FALSE
