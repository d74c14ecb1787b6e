SPECIFICATION SuiteSpec
CONSTANTS
    c1 = c1
    c2 = c2
    Stranger = Stranger
    Gran = Gran
    Spammer = Spammer
    NoChoice = NoChoice
    Call <- MCCall
    Number <- JustStranger
    Tier <- MCTier
    PinLengths <- TwoLengths
    MaxPinAttempts = 1
    MaxFailures = 2
    Window = 1
    Horizon = 1
    HasMenu = FALSE
    FrontMenu = "front"
    Digit = {"1", "2"}
    Choices <- NoMenus
    Repeat = 1
    MenuMaxPlays = 3
    AnswerDigits = 1
    OnNoInput = "ring-house"
    ChallengeNoInput = TRUE
SYMMETRY Symmetry
INVARIANTS
    MenuHolds
    RulesHold
PROPERTIES
    DoorHolds
\* Each component is bounded and may come to rest.
CHECK_DEADLOCK FALSE
