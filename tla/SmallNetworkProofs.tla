------------------------- MODULE SmallNetworkProofs -------------------------
(***************************************************************************)
(* What the outgoing manager believes of its addresses, the routing table  *)
(* and the symmetry of the connections are right, for any number of        *)
(* addresses, peers and connections and any order of late reports.         *)
(***************************************************************************)
EXTENDS SmallNetwork, FiniteSetTheorems, TLAPS

\* Who is connected at an address may be there.
Located ==
    \A a \in Addrs : IsIn(a, "Connected") => outgoing[a].peer \in NodesAt[a]

\* The connections of the manager: what ChangeOutgoingState works on.
Routed ==
    /\ outgoing \in [Addrs -> Outgoing \cup {None}]
    /\ routes \in [Peers -> Addrs \cup {None}]
    /\ Located
    /\ RoutesAreConnections

\* The counters of failed dials, and who still has to report.
Dialed == \A a \in Addrs : IsIn(a, "Connecting") => dials[a] > 0
Open ==
    \A a \in Addrs : IsIn(a, "Connected") =>
        \E s \in senders :
            s.conn = outgoing[a].conn /\ s.addr = a /\ s.peer = outgoing[a].peer

\* The incoming side of the symmetry: with the limit, whose proof needs that
\* the set is finite.
IncomingOK ==
    /\ symmetries \in [Peers -> Symmetry]
    /\ readers \in SUBSET (Peers \X Incoming)
    /\ \A p \in Peers :
           /\ IsFiniteSet(symmetries[p].in)
           /\ symmetries[p].in = {i \in Incoming : <<p, i>> \in readers}
           /\ MaxIncoming # 0 => Cardinality(symmetries[p].in) <= MaxIncoming

\* The outgoing side.
OutgoingMarked ==
    \A p \in Peers : symmetries[p].out => \E s \in senders : s.peer = p

\* All that concerns the addresses and the dials.
Managed == Routed /\ dials \in [Addrs -> Nat] /\ FailuresBounded /\ Dialed

IInv ==
    /\ Managed
    /\ syncing \in SUBSET Peers /\ senders \in SUBSET Sender
    /\ Open /\ IncomingOK /\ OutgoingMarked

\* A step opens no connection, and the ones that stay are the same.
NoneOpened ==
    \A a \in Addrs : IsIn(a, "Connected")' =>
        IsIn(a, "Connected") /\ outgoing'[a] = outgoing[a]

-----------------------------------------------------------------------------
(* The routing table.                                                      *)

\* Every change of an address by change_outgoing_state keeps the routing table
\* right, provided that a new connection is with a node that may be there.
LEMMA ChangeOK ==
    ASSUME Routed, NEW addr \in Addrs, NEW new \in Outgoing,
           new.st = "Connected" => new.peer \in NodesAt[addr],
           ChangeOutgoingState(addr, new)
    PROVE  /\ Routed'
           /\ outgoing'[addr] = new /\ new # None
           /\ \A a \in Addrs \ {addr} : outgoing'[a] = outgoing[a]
<1>1. /\ outgoing \in [Addrs -> Outgoing \cup {None}]
      /\ routes \in [Peers -> Addrs \cup {None}]
      /\ outgoing' = [outgoing EXCEPT ![addr] = new]
      /\ routes' = NewRoutes(addr, new)
      /\ \A a \in Addrs : NodesAt[a] \in SUBSET Peers
      /\ None \notin Addrs
  BY NetworkAssumption DEF Routed, ChangeOutgoingState
<1>2. /\ outgoing' \in [Addrs -> Outgoing \cup {None}]
      /\ outgoing'[addr] = new /\ new # None
      /\ \A a \in Addrs \ {addr} : outgoing'[a] = outgoing[a]
  BY <1>1, NoOutgoingAssumption
<1>3. Located'
  BY <1>1, <1>2 DEF Routed, Located, IsIn
<1>4. IsIn(addr, "Connected") => outgoing[addr].peer \in Peers
  BY <1>1 DEF Routed, Located
<1>5. routes' \in [Peers -> Addrs \cup {None}]
  BY <1>1, <1>4 DEF NewRoutes
<1>6. RoutesAreConnections'
  <2> SUFFICES ASSUME NEW p \in Peers, NEW a \in Addrs, OneNode(a)
               PROVE  /\ routes'[p] = a => ConnectedWith(a, p)'
                      /\ ConnectedWith(a, p)' /\ OneAddress(p) => routes'[p] = a
    BY DEF RoutesAreConnections, OneNode, OneAddress, ConnectedWith, IsIn
  <2>1. /\ routes[p] = a => ConnectedWith(a, p)
        /\ ConnectedWith(a, p) /\ OneAddress(p) => routes[p] = a
    BY DEF Routed, RoutesAreConnections
  <2>2. \A q, r \in NodesAt[a] : q = r
    BY DEF OneNode
  <2>3. OneAddress(p) => \A b, c \in Addrs : p \in NodesAt[b] /\ p \in NodesAt[c] => b = c
    BY DEF OneAddress
  <2>4. \A b \in Addrs : IsIn(b, "Connected") => outgoing[b].peer \in NodesAt[b]
    BY DEF Routed, Located
  <2>5. ConnectedWith(a, p)' <=> (/\ outgoing'[a] # None
                                  /\ outgoing'[a].st = "Connected"
                                  /\ outgoing'[a].peer = p)
    BY DEF ConnectedWith, IsIn
  <2>6. CASE IsIn(addr, "Connected") /\ new.st = "Connected"
    <3>1. routes' = routes
      BY <1>1, <2>6 DEF NewRoutes
    <3>2. a = addr => new.peer = outgoing[addr].peer
      BY <2>2, <2>4, <2>6
    <3>3. QED
      BY <1>2, <2>1, <2>5, <2>6, <3>1, <3>2 DEF ConnectedWith, IsIn
  <2>7. CASE IsIn(addr, "Connected") /\ new.st # "Connected"
    <3>1. routes' = [routes EXCEPT ![outgoing[addr].peer] = None]
      BY <1>1, <2>7 DEF NewRoutes
    <3>2. CASE p = outgoing[addr].peer
      <4>1. routes'[p] # a
        BY <1>1, <3>1, <3>2
      <4>2. ASSUME OneAddress(p), ConnectedWith(a, p)
            PROVE  a = addr
        BY <2>3, <2>4, <2>7, <3>2, <4>2 DEF ConnectedWith
      <4>3. QED
        BY <1>2, <2>5, <2>7, <4>1, <4>2 DEF ConnectedWith, IsIn
    <3>3. CASE p # outgoing[addr].peer
      <4>1. routes'[p] = routes[p]
        BY <1>1, <3>1, <3>3
      <4>2. QED
        BY <1>2, <2>1, <2>5, <2>7, <3>3, <4>1 DEF ConnectedWith, IsIn
    <3>4. QED
      BY <3>2, <3>3
  <2>8. CASE ~ IsIn(addr, "Connected") /\ new.st = "Connected"
    <3>1. routes' = [routes EXCEPT ![new.peer] = addr] /\ new.peer \in Peers
      BY <1>1, <2>8 DEF NewRoutes
    <3>2. CASE p = new.peer
      <4>1. routes'[p] = addr
        BY <1>1, <3>1, <3>2
      <4>2. ASSUME OneAddress(p), ConnectedWith(a, p)
            PROVE  a = addr
        BY <2>3, <2>4, <2>8, <3>2, <4>2 DEF ConnectedWith
      <4>3. QED
        BY <1>2, <2>5, <2>8, <3>2, <4>1, <4>2 DEF ConnectedWith, IsIn
    <3>3. CASE p # new.peer
      <4>1. routes'[p] = routes[p]
        BY <1>1, <3>1, <3>3
      <4>2. QED
        BY <1>2, <2>1, <2>5, <2>8, <3>3, <4>1 DEF ConnectedWith, IsIn
    <3>4. QED
      BY <3>2, <3>3
  <2>9. CASE ~ IsIn(addr, "Connected") /\ new.st # "Connected"
    <3>1. routes' = routes
      BY <1>1, <2>9 DEF NewRoutes
    <3>2. QED
      BY <1>2, <2>1, <2>5, <2>9, <3>1 DEF ConnectedWith, IsIn
  <2>10. QED
    BY <2>6, <2>7, <2>8, <2>9
<1>7. QED
  BY <1>2, <1>3, <1>5, <1>6 DEF Routed

\* Nothing changes if neither the addresses nor the routes do.
LEMMA RoutedStutter ==
    ASSUME Routed, UNCHANGED <<outgoing, routes>>
    PROVE  Routed'
BY DEF Routed, Located, RoutesAreConnections, ConnectedWith, IsIn, OneNode, OneAddress

-----------------------------------------------------------------------------
(* What the handlers do with one address.                                  *)

LEMMA DisconnectedOK ==
    ASSUME NEW st \in {"Connecting", "Waiting", "Blocked", "Loopback"}, NEW n \in Nat,
           NEW keep \in BOOLEAN
    PROVE  /\ Disconnected(st, n, keep) \in Outgoing
           /\ Disconnected(st, n, keep).st = st
           /\ Disconnected(st, n, keep).failures = n
BY DEF Disconnected, Outgoing

LEMMA KeepOK ==
    ASSUME Managed, NEW addr \in Addrs
    PROVE  Keep(addr) \in BOOLEAN
BY DEF Managed, Routed, Keep, Outgoing

\* A new dial may end, in place of another one if there are too many.
LEMMA OneMoreOK ==
    ASSUME NEW n \in Nat
    PROVE  OneMore(n) \in Nat /\ OneMore(n) > 0
BY NetworkAssumption DEF OneMore

\* An address that is not being dialed needs no dial in progress; one that is
\* has one more or at least as many as before.
LEMMA Disconnect ==
    ASSUME Managed, NEW addr \in Addrs, NEW new \in Outgoing,
           new.st # "Connected", new.failures <= RetryAttempts + 1,
           new.st = "Connecting" => new.failures <= RetryAttempts /\ dials'[addr] > 0,
           dials' \in [Addrs -> Nat],
           \A a \in Addrs \ {addr} : dials'[a] = dials[a],
           ChangeOutgoingState(addr, new)
    PROVE  Managed' /\ NoneOpened
<1>1. /\ Routed'
      /\ outgoing'[addr] = new /\ new # None
      /\ \A a \in Addrs \ {addr} : outgoing'[a] = outgoing[a]
  BY ChangeOK DEF Managed
<1>2. FailuresBounded'
  BY <1>1 DEF FailuresBounded, Managed
<1>3. Dialed'
  BY <1>1 DEF Dialed, Managed, IsIn
<1>4. NoneOpened
  BY <1>1 DEF NoneOpened, IsIn
<1>5. QED
  BY <1>1, <1>2, <1>3, <1>4 DEF Managed

\* Nothing changes for the addresses, and the dials of those that are being
\* dialed do not end.
LEMMA SameAddresses ==
    ASSUME Managed, UNCHANGED <<outgoing, routes>>, dials' \in [Addrs -> Nat],
           \A a \in Addrs : IsIn(a, "Connecting") => dials'[a] > 0
    PROVE  Managed' /\ NoneOpened
<1>1. Routed'
  BY RoutedStutter DEF Managed
<1>2. QED
  BY <1>1 DEF Managed, FailuresBounded, Dialed, NoneOpened, IsIn

LEMMA LearnOK ==
    ASSUME Managed, NEW addr \in Addrs, LearnAddr(addr)
    PROVE  Managed' /\ NoneOpened
<1>1. CASE outgoing[addr] = None
  <2>1. ChangeOutgoingState(addr, Disconnected("Connecting", 0, FALSE)) /\ Dial(addr)
    BY <1>1 DEF LearnAddr
  <2>2. /\ dials' \in [Addrs -> Nat] /\ dials'[addr] > 0
        /\ \A a \in Addrs \ {addr} : dials'[a] = dials[a]
    BY <2>1, OneMoreOK DEF Dial, Managed
  <2>3. /\ Disconnected("Connecting", 0, FALSE) \in Outgoing
        /\ Disconnected("Connecting", 0, FALSE).st = "Connecting"
        /\ Disconnected("Connecting", 0, FALSE).failures = 0
    BY DisconnectedOK
  <2>4. 0 <= RetryAttempts /\ 0 <= RetryAttempts + 1
    BY NetworkAssumption
  <2>5. QED
    BY <2>1, <2>2, <2>3, <2>4, Disconnect
<1>2. CASE outgoing[addr] # None
  <2>1. UNCHANGED <<outgoing, routes, dials>>
    BY <1>2 DEF LearnAddr
  <2>2. QED
    BY <2>1, SameAddresses DEF Managed, Dialed
<1>3. QED
  BY <1>1, <1>2

\* block_addr, with or without the end of a dial.
LEMMA BlockOK ==
    ASSUME Managed, NEW addr \in Addrs, BlockAddr(addr),
           dials' \in [Addrs -> Nat],
           \A a \in Addrs \ {addr} : dials'[a] = dials[a]
    PROVE  Managed' /\ NoneOpened
<1>1. CASE IsIn(addr, "Blocked") \/ IsIn(addr, "Loopback")
  <2>1. UNCHANGED <<outgoing, routes>>
    BY <1>1 DEF BlockAddr
  <2>2. ~ IsIn(addr, "Connecting")
    BY <1>1 DEF IsIn
  <2>3. QED
    BY <2>1, <2>2, SameAddresses DEF Managed, Dialed
<1>2. CASE ~ (IsIn(addr, "Blocked") \/ IsIn(addr, "Loopback"))
  <2>1. ChangeOutgoingState(addr, Disconnected("Blocked", 0, Keep(addr)))
    BY <1>2 DEF BlockAddr
  <2>2. /\ Disconnected("Blocked", 0, Keep(addr)) \in Outgoing
        /\ Disconnected("Blocked", 0, Keep(addr)).st = "Blocked"
        /\ Disconnected("Blocked", 0, Keep(addr)).failures = 0
    BY DisconnectedOK, KeepOK
  <2>3. 0 <= RetryAttempts + 1
    BY NetworkAssumption
  <2>4. QED
    BY <2>1, <2>2, <2>3, Disconnect
<1>3. QED
  BY <1>1, <1>2

\* What the end of a dial does to the number of dials.
LEMMA DialEndsOK ==
    ASSUME Managed, NEW addr \in Addrs, DialEnds(addr)
    PROVE  /\ dials' \in [Addrs -> Nat]
           /\ \A a \in Addrs \ {addr} : dials'[a] = dials[a]
BY DEF DialEnds, Managed

\* Connections that are not touched stay open if no sender is dropped.
LEMMA StillOpen ==
    ASSUME Open, NoneOpened, senders \subseteq senders'
    PROVE  Open'
BY DEF Open, NoneOpened, IsIn

-----------------------------------------------------------------------------
(* The events.                                                             *)

\* The symmetry does not change with events that do not concern it.
LEMMA SameSymmetries ==
    ASSUME IncomingOK, OutgoingMarked, UNCHANGED <<symmetries, readers>>,
           senders \subseteq senders'
    PROVE  IncomingOK' /\ OutgoingMarked'
BY DEF IncomingOK, OutgoingMarked

LEMMA PeerAddressReceivedOK ==
    ASSUME IInv, NEW addr \in Addrs, PeerAddressReceived(addr)
    PROVE  IInv'
<1>1. Managed' /\ NoneOpened
  BY LearnOK DEF IInv, PeerAddressReceived
<1>2. UNCHANGED <<symmetries, syncing, senders, readers>>
  BY DEF PeerAddressReceived
<1>3. QED
  BY <1>1, <1>2, StillOpen, SameSymmetries DEF IInv

LEMMA IncomingEstablishedOK ==
    ASSUME IInv, NEW peer \in Peers, NEW in \in Incoming, NEW addr \in Addrs,
           IncomingEstablished(peer, in, addr)
    PROVE  IInv'
<1>1. Managed' /\ NoneOpened
  BY LearnOK DEF IInv, IncomingEstablished
<1>2. /\ UNCHANGED <<syncing, senders>>
      /\ symmetries' = [symmetries EXCEPT ![peer].in = @ \cup {in}]
      /\ readers' = readers \cup {<<peer, in>>}
      /\ MaxIncoming # 0 => Cardinality(symmetries[peer].in) < MaxIncoming
  BY DEF IncomingEstablished, AddIncoming
<1>3. /\ symmetries \in [Peers -> Symmetry]
      /\ readers \in SUBSET (Peers \X Incoming)
      /\ \A p \in Peers : /\ IsFiniteSet(symmetries[p].in)
                          /\ symmetries[p].in = {i \in Incoming : <<p, i>> \in readers}
                          /\ MaxIncoming # 0 => Cardinality(symmetries[p].in) <= MaxIncoming
  BY DEF IInv, IncomingOK
<1>4. /\ symmetries' \in [Peers -> Symmetry]
      /\ \A p \in Peers : symmetries'[p].out = symmetries[p].out
      /\ \A p \in Peers \ {peer} : symmetries'[p] = symmetries[p]
      /\ symmetries'[peer].in = symmetries[peer].in \cup {in}
  BY <1>2, <1>3 DEF Symmetry
<1>5. /\ IsFiniteSet(symmetries[peer].in \cup {in})
      /\ MaxIncoming # 0 => Cardinality(symmetries[peer].in \cup {in}) <= MaxIncoming
  <2>1. IsFiniteSet(symmetries[peer].in) /\ Cardinality(symmetries[peer].in) \in Nat
    BY <1>3, FS_CardinalityType
  <2>2. /\ IsFiniteSet(symmetries[peer].in \cup {in})
        /\ Cardinality(symmetries[peer].in \cup {in}) \in
               {Cardinality(symmetries[peer].in), Cardinality(symmetries[peer].in) + 1}
    BY <2>1, FS_AddElement
  <2>3. QED
    BY <1>2, <2>1, <2>2, NetworkAssumption
<1>6. readers' \in SUBSET (Peers \X Incoming)
  BY <1>2, <1>3
<1>7. \A p \in Peers : symmetries'[p].in = {i \in Incoming : <<p, i>> \in readers'}
  <2> SUFFICES ASSUME NEW p \in Peers
               PROVE  symmetries'[p].in = {i \in Incoming : <<p, i>> \in readers'}
    OBVIOUS
  <2>1. CASE p = peer
    BY <1>2, <1>3, <1>4, <2>1
  <2>2. CASE p # peer
    BY <1>2, <1>3, <1>4, <2>2
  <2>3. QED
    BY <2>1, <2>2
<1>8. IncomingOK'
  BY <1>3, <1>4, <1>5, <1>6, <1>7 DEF IncomingOK
<1>9. OutgoingMarked'
  BY <1>2, <1>4 DEF OutgoingMarked, IInv
<1>10. QED
  BY <1>1, <1>2, <1>8, <1>9, StillOpen DEF IInv

LEMMA IncomingClosedOK ==
    ASSUME IInv, NEW peer \in Peers, NEW in \in Incoming, IncomingClosed(peer, in)
    PROVE  IInv'
<1>1. /\ UNCHANGED <<outgoing, routes, syncing, dials, senders>>
      /\ symmetries' = [symmetries EXCEPT ![peer].in = @ \ {in}]
      /\ readers' = readers \ {<<peer, in>>}
  BY DEF IncomingClosed, RemoveIncoming
<1>2. Managed' /\ NoneOpened
  BY <1>1, SameAddresses DEF IInv, Managed, Dialed
<1>3. /\ symmetries \in [Peers -> Symmetry]
      /\ readers \in SUBSET (Peers \X Incoming)
      /\ \A p \in Peers : /\ IsFiniteSet(symmetries[p].in)
                          /\ symmetries[p].in = {i \in Incoming : <<p, i>> \in readers}
                          /\ MaxIncoming # 0 => Cardinality(symmetries[p].in) <= MaxIncoming
  BY DEF IInv, IncomingOK
<1>4. /\ symmetries' \in [Peers -> Symmetry]
      /\ \A p \in Peers : symmetries'[p].out = symmetries[p].out
      /\ \A p \in Peers \ {peer} : symmetries'[p] = symmetries[p]
      /\ symmetries'[peer].in = symmetries[peer].in \ {in}
  BY <1>1, <1>3 DEF Symmetry
<1>5. /\ IsFiniteSet(symmetries[peer].in \ {in})
      /\ MaxIncoming # 0 => Cardinality(symmetries[peer].in \ {in}) <= MaxIncoming
  <2>1. IsFiniteSet(symmetries[peer].in) /\ Cardinality(symmetries[peer].in) \in Nat
    BY <1>3, FS_CardinalityType
  <2>2. /\ IsFiniteSet(symmetries[peer].in \ {in})
        /\ Cardinality(symmetries[peer].in \ {in}) <= Cardinality(symmetries[peer].in)
        /\ Cardinality(symmetries[peer].in \ {in}) \in Nat
    BY <2>1, FS_Subset, FS_CardinalityType
  <2>3. QED
    BY <1>3, <2>1, <2>2, NetworkAssumption
<1>6. readers' \in SUBSET (Peers \X Incoming)
  BY <1>1, <1>3
<1>7. \A p \in Peers : symmetries'[p].in = {i \in Incoming : <<p, i>> \in readers'}
  <2> SUFFICES ASSUME NEW p \in Peers
               PROVE  symmetries'[p].in = {i \in Incoming : <<p, i>> \in readers'}
    OBVIOUS
  <2>1. CASE p = peer
    BY <1>1, <1>3, <1>4, <2>1
  <2>2. CASE p # peer
    BY <1>1, <1>3, <1>4, <2>2
  <2>3. QED
    BY <2>1, <2>2
<1>8. IncomingOK'
  BY <1>3, <1>4, <1>5, <1>6, <1>7 DEF IncomingOK
<1>9. OutgoingMarked'
  BY <1>1, <1>4 DEF OutgoingMarked, IInv
<1>10. QED
  BY <1>1, <1>2, <1>8, <1>9, StillOpen DEF IInv

LEMMA DialFailedOK ==
    ASSUME IInv, NEW addr \in Addrs, DialFailed(addr)
    PROVE  IInv'
<1>1. /\ dials' \in [Addrs -> Nat]
      /\ \A a \in Addrs \ {addr} : dials'[a] = dials[a]
  BY DialEndsOK DEF IInv, DialFailed
<1>2. Managed' /\ NoneOpened
  <2>1. CASE IsIn(addr, "Connecting")
    <3> DEFINE new == Disconnected("Waiting", outgoing[addr].failures + 1, Keep(addr))
    <3>1. /\ outgoing[addr].failures \in Nat
          /\ outgoing[addr].failures + 1 \in Nat
          /\ outgoing[addr].failures <= RetryAttempts
          /\ outgoing[addr].failures + 1 <= RetryAttempts + 1
      BY <2>1, NetworkAssumption DEF IInv, Managed, Routed, FailuresBounded, IsIn, Outgoing
    <3>2. /\ new \in Outgoing /\ new.st = "Waiting"
          /\ new.failures <= RetryAttempts + 1
      BY <3>1, DisconnectedOK, KeepOK DEF IInv
    <3>3. ChangeOutgoingState(addr, new)
      BY <2>1 DEF DialFailed, Fail
    <3>4. QED
      BY <1>1, <3>2, <3>3, Disconnect DEF IInv
  <2>2. CASE ~ IsIn(addr, "Connecting")
    <3>1. UNCHANGED <<outgoing, routes>>
      BY <2>2 DEF DialFailed, Fail
    <3>2. QED
      BY <1>1, <2>2, <3>1, SameAddresses DEF IInv, Managed, Dialed
  <2>3. QED
    BY <2>1, <2>2
<1>3. UNCHANGED <<symmetries, syncing, senders, readers>>
  BY DEF DialFailed
<1>4. QED
  BY <1>2, <1>3, StillOpen, SameSymmetries DEF IInv

LEMMA DialFailedForGoodOK ==
    ASSUME IInv, NEW addr \in Addrs, DialFailedForGood(addr)
    PROVE  IInv'
<1>1. /\ dials' \in [Addrs -> Nat]
      /\ \A a \in Addrs \ {addr} : dials'[a] = dials[a]
  BY DialEndsOK DEF IInv, DialFailedForGood
<1>2. Managed' /\ NoneOpened
  BY <1>1, BlockOK DEF IInv, DialFailedForGood
<1>3. UNCHANGED <<symmetries, syncing, senders, readers>>
  BY DEF DialFailedForGood
<1>4. QED
  BY <1>2, <1>3, StillOpen, SameSymmetries DEF IInv

LEMMA DialLoopbackOK ==
    ASSUME IInv, NEW addr \in Addrs, DialLoopback(addr)
    PROVE  IInv'
<1>1. /\ dials' \in [Addrs -> Nat]
      /\ \A a \in Addrs \ {addr} : dials'[a] = dials[a]
  BY DialEndsOK DEF IInv, DialLoopback
<1>2. /\ Disconnected("Loopback", 0, Keep(addr)) \in Outgoing
      /\ Disconnected("Loopback", 0, Keep(addr)).st = "Loopback"
      /\ Disconnected("Loopback", 0, Keep(addr)).failures = 0
      /\ 0 <= RetryAttempts + 1
  BY DisconnectedOK, KeepOK, NetworkAssumption DEF IInv
<1>3. Managed' /\ NoneOpened
  BY <1>1, <1>2, Disconnect DEF IInv, DialLoopback
<1>4. UNCHANGED <<symmetries, syncing, senders, readers>>
  BY DEF DialLoopback
<1>5. QED
  BY <1>3, <1>4, StillOpen, SameSymmetries DEF IInv

LEMMA DialSucceededOK ==
    ASSUME IInv, NEW addr \in Addrs, NEW peer \in Peers, NEW conn \in Conns,
           NEW flag \in SyncFlags, DialSucceeded(addr, peer, conn, flag)
    PROVE  IInv'
<1> DEFINE new == ConnectedTo(peer, conn, Keep(addr))
           s == [conn |-> conn, addr |-> addr, peer |-> peer, syncing |-> flag]
<1>1. /\ dials' \in [Addrs -> Nat]
      /\ \A a \in Addrs \ {addr} : dials'[a] = dials[a]
  BY DialEndsOK DEF IInv, DialSucceeded
<1>2. /\ new \in Outgoing /\ new.st = "Connected" /\ new.failures = 0
      /\ new.peer = peer /\ new.conn = conn
  BY KeepOK DEF IInv, ConnectedTo, Outgoing
<1>3. s \in Sender /\ s.conn = conn /\ s.addr = addr /\ s.peer = peer
  BY NetworkAssumption DEF Sender
<1>4. senders' = senders \cup {s} /\ senders' \in SUBSET Sender
  BY <1>3 DEF DialSucceeded, IInv
<1>5. Managed' /\ Open'
  <2>1. CASE IsIn(addr, "Blocked")
    <3>1. UNCHANGED <<outgoing, routes>> /\ ~ IsIn(addr, "Connecting")
      BY <2>1 DEF DialSucceeded, Succeed, IsIn
    <3>2. Managed' /\ NoneOpened
      BY <1>1, <3>1, SameAddresses DEF IInv, Managed, Dialed
    <3>3. QED
      BY <1>4, <3>2, StillOpen DEF IInv
  <2>2. CASE ~ IsIn(addr, "Blocked")
    <3>1. ChangeOutgoingState(addr, new)
      BY <2>2 DEF DialSucceeded, Succeed
    <3>2. /\ Routed'
          /\ outgoing'[addr] = new /\ new # None
          /\ \A a \in Addrs \ {addr} : outgoing'[a] = outgoing[a]
      BY <1>2, <3>1, ChangeOK DEF IInv, Managed, DialSucceeded
    <3>3. FailuresBounded'
      BY <1>2, <3>2, NetworkAssumption DEF IInv, Managed, FailuresBounded
    <3>4. Dialed'
      BY <1>1, <1>2, <3>2 DEF IInv, Managed, Dialed, IsIn
    <3>5. Open'
      BY <1>2, <1>3, <1>4, <3>2 DEF IInv, Open, IsIn
    <3>6. QED
      BY <1>1, <3>2, <3>3, <3>4, <3>5 DEF Managed
  <2>3. QED
    BY <2>1, <2>2
<1>6. symmetries' = [symmetries EXCEPT ![peer].out = TRUE] /\ readers' = readers
  BY DEF DialSucceeded, MarkOutgoing
<1>7. /\ symmetries' \in [Peers -> Symmetry]
      /\ \A p \in Peers : symmetries'[p].in = symmetries[p].in
      /\ \A p \in Peers \ {peer} : symmetries'[p] = symmetries[p]
  BY <1>6 DEF IInv, IncomingOK, Symmetry
<1>8. IncomingOK'
  BY <1>6, <1>7 DEF IInv, IncomingOK
<1>9. OutgoingMarked'
  BY <1>3, <1>4, <1>7 DEF IInv, OutgoingMarked
<1>10. syncing' \in SUBSET Peers
  BY DEF IInv, DialSucceeded, UpdateSyncingNodesSet
<1>11. QED
  BY <1>4, <1>5, <1>8, <1>9, <1>10 DEF IInv

LEMMA OutgoingDroppedOK ==
    ASSUME IInv, NEW s \in senders, OutgoingDropped(s)
    PROVE  IInv'
<1>1. /\ s.addr \in Addrs /\ s.peer \in Peers
      /\ senders' = senders \ {s} /\ senders' \in SUBSET Sender
      /\ UNCHANGED <<syncing, readers>>
  BY DEF IInv, OutgoingDropped, Sender
<1>2. Managed' /\ NoneOpened /\ ~ IsIn(s.addr, "Connected")'
  <2>1. CASE IsIn(s.addr, "Connected")
    <3> DEFINE new == Disconnected("Connecting", 0, Keep(s.addr))
    <3>1. ChangeOutgoingState(s.addr, new) /\ Dial(s.addr)
      BY <2>1 DEF OutgoingDropped, ConnectionDrop
    <3>2. /\ dials' \in [Addrs -> Nat] /\ dials'[s.addr] > 0
          /\ \A a \in Addrs \ {s.addr} : dials'[a] = dials[a]
      BY <1>1, <3>1, OneMoreOK DEF Dial, IInv, Managed
    <3>3. new \in Outgoing /\ new.st = "Connecting" /\ new.failures = 0
      BY <1>1, DisconnectedOK, KeepOK DEF IInv
    <3>4. 0 <= RetryAttempts /\ 0 <= RetryAttempts + 1
      BY NetworkAssumption
    <3>5. Managed' /\ NoneOpened
      BY <1>1, <3>1, <3>2, <3>3, <3>4, Disconnect DEF IInv
    <3>6. outgoing'[s.addr] = new
      BY <1>1, <3>1, <3>3, ChangeOK DEF IInv, Managed
    <3>7. QED
      BY <3>3, <3>5, <3>6 DEF IsIn
  <2>2. CASE ~ IsIn(s.addr, "Connected")
    <3>1. UNCHANGED <<outgoing, routes, dials>>
      BY <2>2 DEF OutgoingDropped, ConnectionDrop
    <3>2. Managed' /\ NoneOpened
      BY <3>1, SameAddresses DEF IInv, Managed, Dialed
    <3>3. QED
      BY <2>2, <3>1, <3>2 DEF IsIn
  <2>3. QED
    BY <2>1, <2>2
<1>3. Open'
  <2> SUFFICES ASSUME NEW a \in Addrs, IsIn(a, "Connected")'
               PROVE  \E x \in senders' : /\ x.conn = outgoing'[a].conn
                                          /\ x.addr = a /\ x.peer = outgoing'[a].peer
    BY DEF Open
  <2>1. IsIn(a, "Connected") /\ outgoing'[a] = outgoing[a]
    BY <1>2 DEF NoneOpened
  <2>2. PICK x \in senders : /\ x.conn = outgoing[a].conn
                             /\ x.addr = a /\ x.peer = outgoing[a].peer
    BY <2>1 DEF IInv, Open
  <2>3. x # s
    BY <1>2, <2>2
  <2>4. QED
    BY <1>1, <2>1, <2>2, <2>3
<1>4. symmetries' = [symmetries EXCEPT ![s.peer].out = FALSE]
  BY DEF OutgoingDropped, UnmarkOutgoing
<1>5. /\ symmetries' \in [Peers -> Symmetry]
      /\ \A p \in Peers : symmetries'[p].in = symmetries[p].in
      /\ \A p \in Peers \ {s.peer} : symmetries'[p] = symmetries[p]
      /\ symmetries'[s.peer].out = FALSE
  BY <1>1, <1>4 DEF IInv, IncomingOK, Symmetry
<1>6. IncomingOK'
  BY <1>1, <1>5 DEF IInv, IncomingOK
<1>7. OutgoingMarked'
  BY <1>1, <1>5 DEF IInv, OutgoingMarked
<1>8. QED
  BY <1>1, <1>2, <1>3, <1>6, <1>7 DEF IInv

LEMMA OffenseCommittedOK ==
    ASSUME IInv, NEW peer \in Peers, OffenseCommitted(peer)
    PROVE  IInv'
<1>1. /\ routes[peer] \in Addrs
      /\ dials' \in [Addrs -> Nat] /\ dials' = dials
      /\ UNCHANGED <<symmetries, syncing, senders, readers>>
  BY DEF IInv, Managed, Routed, OffenseCommitted
<1>2. Managed' /\ NoneOpened
  BY <1>1, BlockOK DEF IInv, OffenseCommitted
<1>3. QED
  BY <1>1, <1>2, StillOpen, SameSymmetries DEF IInv

\* perform_housekeeping keeps connected addresses as they are, connects none,
\* and counts failures no further than by one.
LEMMA SweptOK ==
    ASSUME Managed, NEW addr \in Addrs, NEW due
    PROVE  /\ Swept(addr, due) \in Outgoing \cup {None}
           /\ IsIn(addr, "Connected") => Swept(addr, due) = outgoing[addr]
           /\ Swept(addr, due) # None =>
                  /\ Swept(addr, due).failures <= RetryAttempts + 1
                  /\ Swept(addr, due).st = "Connecting" =>
                         Swept(addr, due).failures <= RetryAttempts
                  /\ Swept(addr, due).st = "Connected" => IsIn(addr, "Connected")
<1> DEFINE o == outgoing[addr]
           w == Swept(addr, due)
<1>1. o \in Outgoing \cup {None} /\ RetryAttempts \in Nat
  BY NetworkAssumption DEF Managed, Routed
<1>2. o # None =>
          /\ o.failures \in Nat /\ o.keep \in BOOLEAN
          /\ o.failures <= RetryAttempts + 1
          /\ o.st = "Connecting" => o.failures <= RetryAttempts
  BY <1>1 DEF Managed, FailuresBounded, Outgoing
<1>3. CASE IsIn(addr, "Waiting") /\ o.failures > RetryAttempts
  <2>1. ~ (o.failures <= RetryAttempts)
    BY <1>1, <1>2, <1>3 DEF IsIn
  <2>2. w = GiveUpOn(o)
    BY <1>3, <2>1 DEF Swept, IsIn
  <2>3. CASE o.keep
    <3>1. w = Disconnected("Connecting", 0, TRUE)
      BY <2>2, <2>3 DEF GiveUpOn
    <3>2. w \in Outgoing /\ w.st = "Connecting" /\ w.failures = 0
      BY <3>1 DEF Disconnected, Outgoing
    <3>3. QED
      BY <1>1, <1>3, <3>2 DEF IsIn
  <2>4. CASE ~ o.keep
    BY <1>3, <2>2, <2>4 DEF GiveUpOn, IsIn
  <2>5. QED
    BY <2>3, <2>4
<1>4. CASE IsIn(addr, "Waiting") /\ o.failures <= RetryAttempts /\ addr \in due
  <2>1. w = Disconnected("Connecting", o.failures, o.keep)
    BY <1>1, <1>2, <1>4 DEF Swept, IsIn
  <2>2. w \in Outgoing /\ w.st = "Connecting" /\ w.failures = o.failures
    BY <1>2, <1>4, <2>1, DisconnectedOK DEF IsIn
  <2>3. QED
    BY <1>1, <1>2, <1>4, <2>2 DEF IsIn
<1>5. CASE IsIn(addr, "Blocked") /\ addr \in due
  <2>1. w = Disconnected("Connecting", 0, o.keep)
    BY <1>5 DEF Swept, IsIn
  <2>2. w \in Outgoing /\ w.st = "Connecting" /\ w.failures = 0
    BY <1>2, <1>5, <2>1, DisconnectedOK DEF IsIn
  <2>3. QED
    BY <1>1, <1>5, <2>2 DEF IsIn
<1>6. CASE IsIn(addr, "Connecting") /\ addr \in due
  <2>1. w = Disconnected("Waiting", o.failures + 1, o.keep)
    BY <1>6 DEF Swept, IsIn
  <2>2. w \in Outgoing /\ w.st = "Waiting" /\ w.failures = o.failures + 1
    BY <1>2, <1>6, <2>1, DisconnectedOK DEF IsIn
  <2>3. QED
    BY <1>1, <1>2, <1>6, <2>2 DEF IsIn
<1>7. CASE /\ ~ (IsIn(addr, "Waiting") /\ o.failures > RetryAttempts)
           /\ ~ (IsIn(addr, "Waiting") /\ o.failures <= RetryAttempts /\ addr \in due)
           /\ ~ (IsIn(addr, "Blocked") /\ addr \in due)
           /\ ~ (IsIn(addr, "Connecting") /\ addr \in due)
  <2>1. w = o
    BY <1>7 DEF Swept
  <2>2. QED
    BY <1>1, <1>2, <2>1 DEF IsIn
<1>8. QED
  BY <1>3, <1>4, <1>5, <1>6, <1>7

LEMMA SweepOutgoingOK ==
    ASSUME IInv, NEW due \in SUBSET Addrs, SweepOutgoing(due)
    PROVE  IInv'
<1> DEFINE dialed == {a \in Addrs : Swept(a, due) # None /\ Swept(a, due).st = "Connecting"
                                     /\ ~ IsIn(a, "Connecting")}
<1>1. /\ outgoing' = [a \in Addrs |-> Swept(a, due)]
      /\ dials' = [a \in Addrs |-> IF a \in dialed THEN OneMore(dials[a]) ELSE dials[a]]
      /\ UNCHANGED <<routes, symmetries, syncing, senders, readers>>
  BY DEF SweepOutgoing
<1>2. \A a \in Addrs : outgoing'[a] = Swept(a, due)
  BY <1>1
<1>3. outgoing' \in [Addrs -> Outgoing \cup {None}]
  BY <1>1, SweptOK DEF IInv
<1>4. \A a \in Addrs : IsIn(a, "Connected")' <=> IsIn(a, "Connected")
  BY <1>2, SweptOK DEF IInv, IsIn
<1>5. \A a \in Addrs : IsIn(a, "Connected") => outgoing'[a] = outgoing[a]
  BY <1>2, SweptOK DEF IInv
<1>6. Routed'
  BY <1>1, <1>3, <1>4, <1>5
     DEF IInv, Managed, Routed, Located, RoutesAreConnections, ConnectedWith, OneNode, OneAddress
<1>7. NoneOpened
  BY <1>4, <1>5 DEF NoneOpened
<1>8. FailuresBounded'
  BY <1>2, SweptOK DEF IInv, FailuresBounded
<1>9. dials \in [Addrs -> Nat]
  BY DEF IInv, Managed
<1>10. dials' \in [Addrs -> Nat]
  BY <1>1, <1>9, OneMoreOK
<1>11. Dialed'
  <2> SUFFICES ASSUME NEW a \in Addrs, outgoing'[a] # None, outgoing'[a].st = "Connecting"
               PROVE  dials'[a] > 0
    BY DEF Dialed, IsIn
  <2>1. CASE a \in dialed
    BY <1>1, <1>9, <2>1, OneMoreOK
  <2>2. CASE a \notin dialed
    <3>1. IsIn(a, "Connecting") /\ dials'[a] = dials[a]
      BY <1>1, <1>2, <1>9, <2>2
    <3>2. QED
      BY <3>1 DEF IInv, Managed, Dialed
  <2>3. QED
    BY <2>1, <2>2
<1>12. QED
  BY <1>1, <1>6, <1>7, <1>8, <1>10, <1>11, StillOpen, SameSymmetries DEF IInv, Managed

-----------------------------------------------------------------------------
(* The theorems.                                                           *)

LEMMA InitOK == Init => IInv
<1> SUFFICES ASSUME Init PROVE IInv
  OBVIOUS
<1>1. \A a \in Addrs : outgoing[a] # None =>
          /\ outgoing[a] \in Outgoing /\ outgoing[a].st = "Connecting"
          /\ outgoing[a].failures = 0 /\ dials[a] = 1
  BY DEF Init, Disconnected, Outgoing
<1>2. /\ outgoing \in [Addrs -> Outgoing \cup {None}]
      /\ routes \in [Peers -> Addrs \cup {None}]
      /\ dials \in [Addrs -> Nat]
  BY <1>1 DEF Init
<1>3. \A a \in Addrs : ~ IsIn(a, "Connected")
  BY <1>1 DEF IsIn
<1>4. \A p \in Peers, a \in Addrs : routes[p] # a
  BY NetworkAssumption DEF Init
<1>5. Routed
  BY <1>2, <1>3, <1>4 DEF Routed, Located, RoutesAreConnections, ConnectedWith
<1>6. FailuresBounded /\ Dialed
  BY <1>1, NetworkAssumption DEF FailuresBounded, Dialed, IsIn
<1>7. Open
  BY <1>3 DEF Open
<1>8. IncomingOK
  <2>1. IsFiniteSet({}) /\ Cardinality({}) = 0
    BY FS_EmptySet
  <2>2. /\ symmetries \in [Peers -> Symmetry] /\ readers = {}
        /\ \A p \in Peers : symmetries[p].in = {}
    BY DEF Init, Symmetry
  <2>3. QED
    <3>1. \A p \in Peers : symmetries[p].in = {i \in Incoming : <<p, i>> \in readers}
      BY <2>2
    <3>2. \A p \in Peers : IsFiniteSet(symmetries[p].in)
      BY <2>1, <2>2
    <3>3. \A p \in Peers : Cardinality(symmetries[p].in) <= MaxIncoming
      <4>1. 0 <= MaxIncoming
        BY NetworkAssumption
      <4>2. QED
        BY <2>1, <2>2, <4>1, Zenon
    <3>4. readers \in SUBSET (Peers \X Incoming)
      BY <2>2
    <3>5. QED
      BY <2>2, <3>1, <3>2, <3>3, <3>4 DEF IncomingOK
<1>9. OutgoingMarked
  BY DEF Init, OutgoingMarked
<1>10. QED
  BY <1>2, <1>5, <1>6, <1>7, <1>8, <1>9 DEF IInv, Managed, Init

LEMMA NextOK == IInv /\ [Next]_vars => IInv'
<1> SUFFICES ASSUME IInv, [Next]_vars PROVE IInv'
  OBVIOUS
<1>1. CASE UNCHANGED vars
  <2>1. Managed' /\ NoneOpened
    BY <1>1, SameAddresses DEF vars, IInv, Managed, Dialed
  <2>2. QED
    BY <1>1, <2>1, StillOpen, SameSymmetries DEF vars, IInv
<1>2. CASE Next
  BY <1>2, PeerAddressReceivedOK, DialFailedOK, DialFailedForGoodOK, DialLoopbackOK,
     DialSucceededOK, IncomingEstablishedOK, IncomingClosedOK, OutgoingDroppedOK,
     OffenseCommittedOK, SweepOutgoingOK
     DEF Next
<1>3. QED
  BY <1>1, <1>2

LEMMA Inductive == Spec => []IInv
BY InitOK, NextOK, PTL DEF Spec

\* A route always leads to a connection with its node, if the address has one node, and
\* a connected node that has no other address always has a route, however reports about
\* dials and connections are delayed (change_outgoing_state).
THEOREM RoutesRight == Spec => []RoutesAreConnections
<1>1. IInv => RoutesAreConnections
  BY DEF IInv, Managed, Routed
<1>2. QED
  BY <1>1, Inductive, PTL

\* What the manager believes of an address is always true, and the number of its
\* failures never exceeds retry_attempts by more than one (handle_dial_outcome,
\* handle_connection_drop, perform_housekeeping).
THEOREM BeliefsRight == Spec => []OutgoingIsTrue
<1>1. IInv => OutgoingIsTrue
  BY DEF IInv, Managed, Routed, IncomingOK, OutgoingIsTrue, TypeOK, Dialed, Open
<1>2. QED
  BY <1>1, Inductive, PTL

\* The symmetry of a peer has exactly its open incoming connections, within the
\* limit, and claims an outgoing one only while there is one (symmetry.rs).
THEOREM SymmetryRight == Spec => []SymmetryIsTrue
<1>1. IInv => SymmetryIsTrue
  BY DEF IInv, IncomingOK, OutgoingMarked, SymmetryIsTrue
<1>2. QED
  BY <1>1, Inductive, PTL
=============================================================================
