SPECIFICATION FairSpec
CONSTANTS
    SessionID = s1
    NoID = NoID
    Bodies = {1}
    MaxFrames = 2
    MaxTurns = 2
    MaxOutputs = 2
    PromptExit = TRUE
PROPERTY
    ListenStopCommits
CHECK_DEADLOCK FALSE
