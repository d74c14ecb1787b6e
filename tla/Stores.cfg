SPECIFICATION SuiteSpec
CONSTANTS
    NoLeg = NoLeg
    Fetchers = {"daemon"}
    CardEdits = 2
    CardMishaps = 2
INVARIANTS
    LastGoodHolds
PROPERTIES
    LostEventsHold
    PackHolds
    LibraryHolds
    EpisodesStay
    DeliveryHolds
    BooksHold
    ContactsHold
\* Each component is bounded and may come to rest.
CHECK_DEADLOCK FALSE
