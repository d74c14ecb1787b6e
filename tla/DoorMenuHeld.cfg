SPECIFICATION HeldSpec
CONSTANTS
    c1 = c1
    c2 = c2
    Stranger = Stranger
    Gran = Gran
    Spammer = Spammer
    NoChoice = NoChoice
    Call <- OneCall
    Number <- JustStranger
    Tier <- MCTier
    PinLengths <- OneLength
    MaxPinAttempts = 1
    MaxFailures = 2
    Window = 1
    Horizon = 1
    HasMenu = TRUE
    FrontMenu = "front"
    Digit = {"1", "2"}
    Choices <- GuardedMenus
    Repeat = 1
    MenuMaxPlays = 3
    AnswerDigits = 2
    OnNoInput = "voicemail"
    ChallengeNoInput = FALSE
PROPERTIES
    MenuEnds
