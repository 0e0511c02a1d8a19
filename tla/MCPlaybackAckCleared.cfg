SPECIFICATION Spec
CONSTANTS
    Turns <- MCTurns
    NoTurn = 0
    Texts <- MCTexts
    Common = 4
    Blanks <- MCBlanks
    Durations = {0, 500, 1200}
    ChunkMs = 400
    MaxTurns = 2
    MaxPlaybacks = 1
    Segments = 2
    TextAfter <- MCTextAfter
    DurationAfter <- MCDurationAfter
    Marks = {250}
    Faults = FALSE
    SoftPolicies = {"backchannel", "duck_only"}
INVARIANT ClearedAnchorsHeard
CHECK_DEADLOCK FALSE
