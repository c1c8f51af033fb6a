SPECIFICATION Spec
CONSTANTS
    OwnRounds = {2, 4}
    PeerRounds = {0}
    RoundExps = {1, 2}
    NumRounds = 1
    NumSlowdown = 0
    NumSpeedup = 0
    Acceleration = 1
    EraEnd = 2
    MaxTime = 6
    MaxStops = 0
    None = None
    Truncated = Truncated
CHECK_DEADLOCK FALSE
INVARIANT ProposedAtRoundStart
