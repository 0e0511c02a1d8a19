SPECIFICATION FairSpec
CONSTANTS
    Sessions = {s1}
    Voice = {s1}
    Device = dev
    Catalog <- MCCatalog
    maxTurns = 2
    MaxSteps = 2
    MaxCalls = 2
    MaxTurns = 3
INVARIANT
    CommandsLeaveNoTrace
CHECK_DEADLOCK FALSE
