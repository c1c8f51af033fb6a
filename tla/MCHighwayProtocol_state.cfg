SPECIFICATION Spec
CONSTANTS
    HashRank <- MCHashRank
    None = None
    Faulty = Faulty
    Panic = Panic
    N = 3
    Weight <- MCWeight
    Banned = {3}
    CannotPropose = {3}
    Draw <- MCDraw
    Redraw <- MCRedraw
    MinRoundExp = 0
    MaxRoundExp = 1
    EndHeight = 2
    EndTimestamp = 1
    MaxTime = 1
    MaxUnits = 3
    Equivocators = {1}
    Ftt = 2
    TopLevel = 2
    PingTimes = {1}
    MaxPending = 1
INVARIANTS
    EquivocationIsFault
    HonestNotAccused
    ValidForever
CHECK_DEADLOCK FALSE
