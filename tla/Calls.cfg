SPECIFICATION SuiteSpec
CONSTANTS
    Kitchen = Kitchen
    Den = Den
    NoLeg = NoLeg
    Handset <- MCHandset
    Ladder <- TwoRungs
    Mailbox = TRUE
    QueueCap = 64
    ReplyLoss = FALSE
    WireLoss = FALSE
INVARIANTS
    TypeOK
    NobodyLeftHolding
    OnlyTheWinnerTalks
    WayOutHolds
    WindowHolds
    CreditHolds
    GameHolds
PROPERTIES
    NeverKillsHandedOff
    ForgottenLegsAreGone
    KeepsPromise
    BedtimeHolds
    ListeningHolds
\* Each component is bounded and may come to rest.
CHECK_DEADLOCK FALSE
