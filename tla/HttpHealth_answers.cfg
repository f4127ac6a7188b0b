SPECIFICATION FairSpec
CONSTANTS
    Words = {"GET", "POST", "/check-health", "HTTP/1.1"}
    MaxWords = 4
CHECK_DEADLOCK FALSE
INVARIANTS
    TypeOK
    OnlyHealthRequestIsOk
PROPERTIES
    ArrivedIsAnswered
