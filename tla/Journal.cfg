SPECIFICATION SuiteSpec
CONSTANTS
    QueueCap = 2
    MaxPosts = 4
    MaxBreaks = 2
    MaxTries = 1
    MaxLives = 3
    Callers = {"sync", "bell"}
    MaxBoxes = 2
    MaxTokens = 4
    MaxLost = 2
    MaxQueued = 1
    MaxLosses = 1
    MaxLogins = 1
    Backups = {1, 2}
    MaxUploadMishaps = 3
    JournalCalls = {"c"}
    Target = {"a", "b"}
    MaxEvents = 3
    Chunk = 1
    Limit = 1
    ScanLimit = 2
    MaxRows = 4
    MaxTroubles = 1
INVARIANTS
    TypeOK
    ReadersHold
    BellHolds
    UploadHolds
    VoicemailHolds
PROPERTIES
    JournalIsHonest
    CelHolds
    SyncHolds
    AccountHolds
    BackupHolds
    RecoveryHolds
    InboxHolds
    RemindersHold
\* Each component is bounded and may come to rest.
CHECK_DEADLOCK FALSE
