SPECIFICATION Spec
CONSTANTS
    Kitchen = Kitchen
    Den = Den
    NoLeg = NoLeg
    Handset <- MCHandset
    Ladder <- OneRung
    Mailbox = FALSE
    QueueCap = 64
    ReplyLoss = FALSE
    WireLoss = FALSE
INVARIANTS
    EveryLegHungUp
