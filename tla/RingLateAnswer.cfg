SPECIFICATION Spec
CONSTANTS
    Kitchen = Kitchen
    Den = Den
    NoLeg = NoLeg
    Handset <- MCHandset
    Ladder <- Relay
    Mailbox = FALSE
    QueueCap = 64
    ReplyLoss = FALSE
    WireLoss = FALSE
INVARIANTS
    LateAnswerNeverWins
