SPECIFICATION Spec
CONSTANTS
    Kitchen = Kitchen
    Den = Den
    NoLeg = NoLeg
    Handset <- MCHandset
    Ladder <- OneRung
    Mailbox = TRUE
    QueueCap = 64
    ReplyLoss = TRUE
    WireLoss = FALSE
PROPERTIES
    NeverKillsHandedOff
