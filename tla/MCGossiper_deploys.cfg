SPECIFICATION FairSpec
CONSTANTS
    Items = {d1}
    Peers = {p1, p2, p3}
    InfectionTarget = 2
    SaturationLimitPercent = 40
    IdIsCompleteItem = FALSE
    NoState = NoState
    NoPeer = NoPeer
    MaxArrivals = 2
    MaxResponses = 3
INVARIANTS
    OneEntryOneDeadline
    InFlightBound
    PartialDataHasSource
    PartialDataHasTimer
PROPERTIES
    HeldUntilFinished
    PartialDataResolved
CHECK_DEADLOCK FALSE
