SPECIFICATION ContactsSpec
CONSTANTS
    NoLeg = NoLeg
    Fetchers = {"daemon", "check"}
    CardEdits = 1
    CardMishaps = 0
INVARIANTS
    HalfIsNeverSeen
CHECK_DEADLOCK FALSE
