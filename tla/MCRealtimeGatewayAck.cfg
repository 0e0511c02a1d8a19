SPECIFICATION FairSpec
CONSTANTS
    SessionIDs = {s1}
    NoID = NoID
    NoBytes = NoBytes
    MaxFrames = 1
    MaxPending = 1
    MaxTurns = 2
    MaxOutputs = 2
    TurnsCrossEnd = FALSE
    PromptExit = TRUE
INVARIANTS
    AckBelongs
CHECK_DEADLOCK FALSE
