SPECIFICATION FairSpec
CONSTANTS
    MaxHeight = 3
    MaxRestarts = 2
    None = None
INVARIANTS
    ExecutedInTurn
PROPERTIES
    ExecutesTheChain
    FinalizedIsStored
CHECK_DEADLOCK FALSE
