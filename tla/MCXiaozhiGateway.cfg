SPECIFICATION FairSpec
CONSTANTS
    SessionID = s1
    NoID = NoID
    Bodies = {1}
    MaxFrames = 2
    MaxTurns = 2
    MaxOutputs = 2
    PromptExit = TRUE
INVARIANTS
    AudioIsBracketed
    SpeechIsStopped
    NothingHeardWhileSpeaking
PROPERTIES
    SessionSpec
    ReadLoopReturns
CHECK_DEADLOCK FALSE
