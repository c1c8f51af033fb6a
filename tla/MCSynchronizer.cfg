SPECIFICATION FairSpec
CONSTANTS
    a = a
    c = c
    x = x
    y = y
    z = z
    good = good
    bad = bad
    None = None
    Vertices = {a, c, x, y, z}
    Deps <- MCDeps
    Proposals = {a}
    Invalid = {x}
    Malformed = {z}
    FromFaulty = {a}
    Early = {c}
    Peers = {good, bad}
    Sends <- MCSends
    Answers <- MCAnswers
    MaxRequests = 2
    MaxActions = 2
    MaxFaults = 1
INVARIANTS
    QueueIsServed
    StateIsClosed
    CorrectStayConnected
PROPERTIES
    VerticesAdded
