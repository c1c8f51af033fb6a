--------------------------- MODULE MCSmallNetwork ---------------------------
\* Two addresses; the second may also be the node's own.
EXTENDS SmallNetwork, TLC

CONSTANTS a1, a2, p1, p2

\* A node at each address, and one node at both.
MCNodesAt == a1 :> {p1} @@ a2 :> {p2}
MCBothAddrs == a1 :> {p1} @@ a2 :> {p1}
=============================================================================
