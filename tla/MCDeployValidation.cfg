SPECIFICATION NodeSpec
CONSTANTS
    d1 = d1
    d2 = d2
    None = None
    Deploys = {d1, d2}
    Peers = {p1, p2}
    Blocks = {1, 2, 3, 4}
    Content <- MCContent
    Replayed = {3}
    Kind <- MCKind
    Broken = {d2}
    InvalidIn = {}
    MaxCount <- MCMaxCount
    MaxRequests = 2
INVARIANTS
    FetchesAreServed
    InFlightCounts
    MissingIsFetched
    YesIsValid
PROPERTIES
    RequestsAnswered
CHECK_DEADLOCK FALSE
