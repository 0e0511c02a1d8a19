SPECIFICATION Spec
CONSTANTS
    SessionIDs = {s1, s2}
    Frames = {f1, f2}
    NoID = NoID
    NoBytes = NoBytes
    MaxFrames = 3
    MaxTurns = 2
CONSTRAINT Bounded
INVARIANTS
    BytesCountAudio
    SnapshotAgrees
    NothingSurvivesReset
PROPERTIES
    BufferSpec
