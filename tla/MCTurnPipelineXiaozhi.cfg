SPECIFICATION FairSpec
CONSTANTS
    NumDeltas = 4
    DeltaCap = 2
    QueueCap = 1
    EarlyAudio = FALSE
    Faults = FALSE
PROPERTIES
    TurnSettles
CHECK_DEADLOCK FALSE
