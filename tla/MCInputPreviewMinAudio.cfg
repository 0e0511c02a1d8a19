CONSTANTS
    MinAudioMs = 80
    SilenceMs = 480
    IncompleteHoldMs = 720
    EndpointHintSilenceMs = 240
    LexicalOff = FALSE
    BargeInMinAudioMs = 80
    BargeInHoldAudioMs = 40
    Replies <- MCReplies
    Judgements <- MCJudgements
    SlotParses <- MCSlotParses
    ChunkMs = 40
    PollMs = 240
    SlowPushMs = 240
    MaxFrames = 2
    MaxChunks = 2
    MaxRequests = 2
SPECIFICATION Spec
INVARIANT CompleteBargeInWaits
