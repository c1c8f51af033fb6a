SPECIFICATION Spec
CONSTANTS
    Items = {d1}
    Peers = {p1, p2}
    InfectionTarget = 2
    SaturationLimitPercent = 40
    IdIsCompleteItem = FALSE
    NoState = NoState
    NoPeer = NoPeer
    MaxArrivals = 2
    MaxResponses = 2

INVARIANT HeldEntryHasEvent
CHECK_DEADLOCK FALSE
