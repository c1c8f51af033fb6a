SPECIFICATION Spec
CONSTANTS
    k1 = k1
    k2 = k2
    k3 = k3
    None = None
    OwnKey = k1
    Keys = {k1, k2}
    EraOf <- MCEraOf
    SwitchBlocks = {1, 2}
    ValidatorWeights <- MCEqualWeights
    AuctionDelay = 1
    UnbondingDelay = 2
    FaultTolerance <- MCFaultTolerance
    MaxPending = 2
    FirstActivation = None
    ActivationPoints = {}
    SignedBlocks = {1, 2}
    ClaimedEras <- MCAnyEra
    MaxRestarts = 0
INVARIANT StoredEraMatches
CHECK_DEADLOCK FALSE
