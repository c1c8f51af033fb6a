SPECIFICATION FairProposerSpec
CONSTANTS
    d1 = d1
    t2 = t2
    Deploys = {d1, t2}
    Transfers = {t2}
    Created <- MCCreated
    Expires <- MCExpires
    Deps <- MCDeps
    Payload <- MCPayload
    BlockTime <- MCBlockTime
    EraStart = 1
    MaxTtl = 2
    DeployDelay = 0
    MaxDeployCount = 1
    MaxTransferCount = 1
    MaxTime = 2
    MaxRequests = 1
    MaxStarts = 1
    Absent = Absent
INVARIANTS
    NoReplay
    DeploysAreKept
PROPERTIES
    RequestsAnswered
CHECK_DEADLOCK FALSE
