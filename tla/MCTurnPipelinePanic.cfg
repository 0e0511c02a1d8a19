SPECIFICATION FairSpec
CONSTANTS
    NumDeltas = 2
    DeltaCap = 8
    QueueCap = 4
    EarlyAudio = TRUE
    Faults = TRUE
INVARIANTS
    NoServerPanic
CHECK_DEADLOCK FALSE
