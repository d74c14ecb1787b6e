SPECIFICATION Spec
CONSTANTS
    Msgs <- MCMsgs
    Backlog <- MCBacklog
    Boxes <- MCBoxes
    Left <- MCLeft
    Conf <- MCConf
    MailTo <- MCMailTo
    Runs <- MCRuns
    Window <- MCWindow
    Days <- MCDays
    MaxTime <- MCMaxTime
    MaxMishaps <- MCMaxMishaps
INVARIANTS
    PlaysItsMessage
CHECK_DEADLOCK FALSE
