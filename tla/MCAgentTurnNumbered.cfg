SPECIFICATION FairSpec
CONSTANTS
    Sessions = {s1}
    Voice = {s1}
    Device = dev
    Catalog <- MCNumbered
    maxTurns = 2
    MaxSteps = 2
    MaxCalls = 2
    MaxTurns = 3
INVARIANT
    ToolsAnswered
CHECK_DEADLOCK FALSE
