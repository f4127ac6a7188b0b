SPECIFICATION Spec
CONSTANTS
    ClientKeys = {c1, c2}
    NoKey = NoKey
    MaxFrames = 4
    MaxSignals = 1
    OutCap = 1
SYMMETRY KeySymmetry
CHECK_DEADLOCK FALSE
INVARIANTS
    TypeOK
    DataSealedUnderSessionKey
    OnlyFirstHandshakeAgrees
    KeyAgreed
    RepliesInOrder
    SenderQueueMatchesTasks
PROPERTIES
    StageNeverGoesBack
    ChannelSpec
