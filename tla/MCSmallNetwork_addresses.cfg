SPECIFICATION Spec
CONSTANTS
    a1 = a1
    a2 = a2
    p1 = p1
    p2 = p2
    None = None
    Addrs = {a1, a2}
    Peers = {p1, p2}
    NodesAt <- MCBothAddrs
    OwnAddrs = {a2}
    Known = {a1}
    Incoming = {1, 2}
    MaxIncoming = 1
    RetryAttempts = 1
    SyncFlags = {FALSE}
    Conns = {1, 2}
    MaxDials = 2
INVARIANT ConnectedIsRouted
