SPECIFICATION NodeSpec
CONSTANTS
    d1 = d1
    d2 = d2
    None = None
    Deploys = {d1, d2}
    Peers = {p1, p2}
    Blocks = {1, 2, 3, 4}
    Content <- MCContent
    Replayed = {3}
    Kind <- MCKind
    Broken = {}
    InvalidIn = {}
    MaxCount <- MCMaxCount
    MaxRequests = 2
PROPERTY FailsWhenExhausted
CHECK_DEADLOCK FALSE
