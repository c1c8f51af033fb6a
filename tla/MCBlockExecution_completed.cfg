SPECIFICATION Spec
CONSTANTS
    MaxHeight = 2
    MaxRestarts = 1
    None = None
INVARIANTS
    CompletedIsStored
CHECK_DEADLOCK FALSE
