SPECIFICATION FairSpec
CONSTANTS
    NumDeltas = 1
    DeltaCap = 8
    QueueCap = 4
    EarlyAudio = TRUE
    Faults = FALSE
INVARIANTS
    TextDeliveredOnce
CHECK_DEADLOCK FALSE
