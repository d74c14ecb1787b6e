SPECIFICATION Spec
CONSTANTS
    QueueCap = 1
    MaxPosts = 2
    MaxBreaks = 1
    MaxTries = 1
    MaxLives = 1
INVARIANTS
    KnownLossesOnly
CHECK_DEADLOCK FALSE
