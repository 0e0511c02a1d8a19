SPECIFICATION FairSpec
CONSTANTS
    NumDeltas = 3
    DeltaCap = 1
    QueueCap = 1
    EarlyAudio = TRUE
    Faults = TRUE
INVARIANTS
    AudioPlayedOnce
    TextDelivered
    PlayedInOrder
    FinishedMeansAllPlayed
PROPERTIES
    FutureSpec
    TurnSettles
CHECK_DEADLOCK FALSE
