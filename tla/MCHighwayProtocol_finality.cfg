SPECIFICATION Spec
CONSTANTS
    HashRank <- MCHashRank
    None = None
    Faulty = Faulty
    Panic = Panic
    N = 3
    Weight <- MCWeight
    Banned = {}
    CannotPropose = {3}
    Draw <- MCDraw
    Redraw <- MCRedraw
    MinRoundExp = 0
    MaxRoundExp = 0
    EndHeight = 2
    EndTimestamp = 1
    MaxTime = 1
    MaxUnits = 5
    Equivocators = {3}
    Ftt = 2
    TopLevel = 2
    PingTimes = {}
    MaxPending = 0
INVARIANTS
    FinalizedIsChosen
    LatestUnits
CHECK_DEADLOCK FALSE
