SPECIFICATION SuiteSpec
CONSTANTS
    NoLeg = NoLeg
    NoChoice = NoChoice
PROPERTIES
    CallsEnd
    RowsAreTold
    CloudAnswers
    DaemonCatchesUp
\* Each component is bounded and may come to rest.
CHECK_DEADLOCK FALSE
