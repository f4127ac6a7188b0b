SPECIFICATION FairSpec
CONSTANTS
    Sessions = {s1, s2}
    Workers = 1
    MaxLines = 1
    MaxSignals = 2
CHECK_DEADLOCK FALSE
INVARIANTS
    TypeOK
    NoTornLine
    LogsCoverStage
    StagesAreSignalled
PROPERTIES
    FeedNeverGoesBack
    QuietFeedIsShown
