SPECIFICATION FairSpec
CONSTANTS
    Sessions = {s1}
    Voice = {s1}
    Device = dev
    Catalog <- MCCatalog
    maxTurns = 2
    MaxSteps = 2
    MaxCalls = 2
    MaxTurns = 3
INVARIANTS
    OneRecordPerTurn
    PrewarmHidesNothing
    ToolsAnswered
    SaidIsSaved
PROPERTIES
    TurnReturns
CHECK_DEADLOCK FALSE
