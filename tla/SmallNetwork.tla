---------------------------- MODULE SmallNetwork ----------------------------
(***************************************************************************)
(* The connections of a node: the outgoing manager with its routing table, *)
(* the dialing and sending tasks, incoming connections, the symmetry of    *)
(* the connections with a peer, and the set of syncing nodes               *)
(* (node/src/components/small_network.rs, small_network/outgoing.rs,       *)
(* small_network/symmetry.rs).                                             *)
(*                                                                         *)
(* A task that dials ends with one event, whatever has become of the       *)
(* address meanwhile, or hangs for ever; a task that sends over an         *)
(* established connection ends with OutgoingDropped, when the connection   *)
(* breaks or some time after its handle was dropped.  Time is abstract: at *)
(* each sweep any set of addresses may be due.                             *)
(***************************************************************************)
EXTENDS Naturals, FiniteSets

CONSTANTS
    Addrs,          \* socket addresses to dial
    Peers,          \* node IDs
    NodesAt,        \* for every address, the nodes that may answer there
    OwnAddrs,       \* addresses at which the node reaches itself
    Known,          \* known_addresses of the configuration
    Incoming,       \* remote addresses of incoming connections
    MaxIncoming,    \* max_incoming_peer_connections
    RetryAttempts,  \* retry_attempts
    SyncFlags,      \* what a peer may announce as is_syncing
    Conns,          \* bound: names for established connections, 1 .. n
    MaxDials,       \* bound: dials of one address in progress that may still end
    None

ASSUME NetworkAssumption ==
    /\ NodesAt \in [Addrs -> SUBSET Peers]
    /\ OwnAddrs \subseteq Addrs /\ Known \subseteq Addrs
    /\ MaxIncoming \in Nat /\ RetryAttempts \in Nat /\ MaxDials \in Nat \ {0}
    /\ Conns \subseteq Nat /\ SyncFlags \subseteq BOOLEAN
    /\ None \notin Addrs \cup Peers \cup Conns

\* OutgoingState with is_unforgettable; the fields a state does not have are
\* 0 or None.
Outgoing == [st : {"Connecting", "Waiting", "Connected", "Blocked", "Loopback"},
             failures : Nat, peer : Peers \cup {None}, conn : Conns \cup {None},
             keep : BOOLEAN]

ASSUME NoOutgoingAssumption == None \notin Outgoing

\* ConnectionSymmetry: IncomingOnly, OutgoingOnly, Symmetric and Gone are the four
\* combinations of out with an empty and a nonempty set of addresses.
Symmetry == [out : BOOLEAN, in : SUBSET Incoming]

VARIABLES
    outgoing,    \* OutgoingManager::outgoing, None for an unknown address
    routes,      \* OutgoingManager::routes
    symmetries,  \* connection_symmetries
    syncing,     \* syncing_nodes
    dials,       \* how many dialing tasks may still end, by address
    senders,     \* message_sender tasks that have not been reported as dropped
    readers      \* message_reader tasks that have not been reported as closed

vars == <<outgoing, routes, symmetries, syncing, dials, senders, readers>>

Sender == [conn : Conns, addr : Addrs, peer : Peers, syncing : BOOLEAN]

-----------------------------------------------------------------------------
(* Helpers.                                                                *)

IsIn(addr, st) == outgoing[addr] # None /\ outgoing[addr].st = st

Keep(addr) == outgoing[addr] # None /\ outgoing[addr].keep

Disconnected(st, failures, keep) ==
    [st |-> st, failures |-> failures, peer |-> None, conn |-> None, keep |-> keep]
ConnectedTo(peer, conn, keep) ==
    [st |-> "Connected", failures |-> 0, peer |-> peer, conn |-> conn, keep |-> keep]

\* The routing table after change_outgoing_state.  (Mutant: it is left alone when a
\* connected address changes to another state.)
NewRoutesMutant(addr, new) ==
    IF new.st = "Connected" THEN [routes EXCEPT ![new.peer] = addr] ELSE routes
NewRoutes(addr, new) ==
    CASE IsIn(addr, "Connected") /\ new.st = "Connected" -> routes
      [] IsIn(addr, "Connected") /\ new.st # "Connected" ->
             [routes EXCEPT ![outgoing[addr].peer] = None]
      [] ~ IsIn(addr, "Connected") /\ new.st = "Connected" ->
             [routes EXCEPT ![new.peer] = addr]
      [] OTHER -> routes

\* change_outgoing_state
ChangeOutgoingState(addr, new) ==
    /\ outgoing' = [outgoing EXCEPT ![addr] = new]
    /\ routes' = NewRoutes(addr, new)

\* One more dial; as many as are more than MaxDials hang.
OneMore(n) == IF n < MaxDials THEN n + 1 ELSE n

\* process_dial_requests for Dial
Dial(addr) == dials' = [dials EXCEPT ![addr] = OneMore(@)]

\* learn_addr
LearnAddr(addr) ==
    IF outgoing[addr] = None
    THEN ChangeOutgoingState(addr, Disconnected("Connecting", 0, FALSE)) /\ Dial(addr)
    ELSE UNCHANGED <<outgoing, routes, dials>>

\* block_addr
BlockAddr(addr) ==
    IF IsIn(addr, "Blocked") \/ IsIn(addr, "Loopback")
    THEN UNCHANGED <<outgoing, routes>>
    ELSE ChangeOutgoingState(addr, Disconnected("Blocked", 0, Keep(addr)))

\* handle_connection_drop: only a connected address is dialed again.
ConnectionDrop(addr) ==
    IF IsIn(addr, "Connected")
    THEN /\ ChangeOutgoingState(addr, Disconnected("Connecting", 0, Keep(addr)))
         /\ Dial(addr)
    ELSE UNCHANGED <<outgoing, routes, dials>>

\* ConnectionSymmetry's add_incoming, remove_incoming, mark_outgoing, unmark_outgoing.
AddIncoming(peer, in) == symmetries' = [symmetries EXCEPT ![peer].in = @ \cup {in}]
RemoveIncoming(peer, in) == symmetries' = [symmetries EXCEPT ![peer].in = @ \ {in}]
MarkOutgoing(peer) == symmetries' = [symmetries EXCEPT ![peer].out = TRUE]
UnmarkOutgoing(peer) == symmetries' = [symmetries EXCEPT ![peer].out = FALSE]

\* update_syncing_nodes_set, called if mark_outgoing makes the connection symmetric.
UpdateSyncingNodesSet(peer, isSyncing) ==
    syncing' = IF symmetries[peer].out \/ symmetries[peer].in = {} THEN syncing
               ELSE IF isSyncing THEN syncing \cup {peer} ELSE syncing \ {peer}

\* A name for a new connection.
FreeConns == Conns \ ({s.conn : s \in senders} \cup
                      {outgoing[a].conn : a \in {x \in Addrs : outgoing[x] # None}})

-----------------------------------------------------------------------------
\* SmallNetwork::new: the known addresses are learned as unforgettable.
Init ==
    /\ outgoing = [a \in Addrs |->
           IF a \in Known THEN Disconnected("Connecting", 0, TRUE) ELSE None]
    /\ routes = [p \in Peers |-> None]
    /\ symmetries = [p \in Peers |-> [out |-> FALSE, in |-> {}]]
    /\ syncing = {}
    /\ dials = [a \in Addrs |-> IF a \in Known THEN 1 ELSE 0]
    /\ senders = {}
    /\ readers = {}

\* Event::PeerAddressReceived
PeerAddressReceived(addr) ==
    /\ outgoing[addr] = None
    /\ LearnAddr(addr)
    /\ UNCHANGED <<symmetries, syncing, senders, readers>>

\* IncomingConnection::Established from a peer that claims to be at addr.  (Mutant:
\* the limit is compared with one connection too few.)
IncomingEstablishedMutant(peer, in, addr) ==
    /\ in \notin {r[2] : r \in readers}
    /\ MaxIncoming # 0 => Cardinality(symmetries[peer].in) <= MaxIncoming
    /\ LearnAddr(addr)
    /\ AddIncoming(peer, in)
    /\ readers' = readers \cup {<<peer, in>>}
    /\ UNCHANGED <<syncing, senders>>
IncomingEstablished(peer, in, addr) ==
    /\ in \notin {r[2] : r \in readers}
    /\ MaxIncoming # 0 => Cardinality(symmetries[peer].in) < MaxIncoming
    /\ LearnAddr(addr)
    /\ AddIncoming(peer, in)
    /\ readers' = readers \cup {<<peer, in>>}
    /\ UNCHANGED <<syncing, senders>>

\* Event::IncomingClosed
IncomingClosed(peer, in) ==
    /\ <<peer, in>> \in readers
    /\ RemoveIncoming(peer, in)
    /\ readers' = readers \ {<<peer, in>>}
    /\ UNCHANGED <<outgoing, routes, syncing, dials, senders>>

\* A dialing task ends.
DialEnds(addr) ==
    /\ dials[addr] > 0
    /\ dials' = [dials EXCEPT ![addr] = @ - 1]

\* handle_dial_outcome for Successful: a blocked address stays blocked.
Succeed(addr, peer, conn) ==
    IF IsIn(addr, "Blocked") THEN UNCHANGED <<outgoing, routes>>
    ELSE ChangeOutgoingState(addr, ConnectedTo(peer, conn, Keep(addr)))

\* handle_dial_outcome for Failed
Fail(addr) ==
    IF IsIn(addr, "Connecting")
    THEN ChangeOutgoingState(addr,
             Disconnected("Waiting", outgoing[addr].failures + 1, Keep(addr)))
    ELSE UNCHANGED <<outgoing, routes>>

\* OutgoingConnection::Failed or FailedEarly.
DialFailed(addr) ==
    /\ DialEnds(addr)
    /\ Fail(addr)
    /\ UNCHANGED <<symmetries, syncing, senders, readers>>

\* The same with an error that is a blockable offense: the address is blocked first,
\* and a blocked address ignores the failure.
DialFailedForGood(addr) ==
    /\ DialEnds(addr)
    /\ BlockAddr(addr)
    /\ UNCHANGED <<symmetries, syncing, senders, readers>>

\* OutgoingConnection::Loopback
DialLoopback(addr) ==
    /\ addr \in OwnAddrs
    /\ DialEnds(addr)
    /\ ChangeOutgoingState(addr, Disconnected("Loopback", 0, Keep(addr)))
    /\ UNCHANGED <<symmetries, syncing, senders, readers>>

\* OutgoingConnection::Established: also for a blocked address the task that sends is
\* started and the symmetry updated.
DialSucceeded(addr, peer, conn, isSyncing) ==
    /\ peer \in NodesAt[addr]
    /\ conn \in FreeConns /\ \A c \in FreeConns : conn <= c
    /\ DialEnds(addr)
    /\ Succeed(addr, peer, conn)
    /\ MarkOutgoing(peer)
    /\ UpdateSyncingNodesSet(peer, isSyncing)
    /\ senders' = senders \cup
           {[conn |-> conn, addr |-> addr, peer |-> peer, syncing |-> isSyncing]}
    /\ UNCHANGED readers

\* Event::OutgoingDropped: handle_connection_drop and unmark_outgoing.  (Mutant: a
\* drop is ignored while the address is being dialed.)
OutgoingDroppedMutant(s) ==
    /\ s \in senders
    /\ senders' = senders \ {s}
    /\ IF IsIn(s.addr, "Connected") /\ dials[s.addr] = 0
       THEN /\ ChangeOutgoingState(s.addr, Disconnected("Connecting", 0, Keep(s.addr)))
            /\ Dial(s.addr)
       ELSE UNCHANGED <<outgoing, routes, dials>>
    /\ UnmarkOutgoing(s.peer)
    /\ UNCHANGED <<syncing, readers>>
OutgoingDropped(s) ==
    /\ s \in senders
    /\ senders' = senders \ {s}
    /\ ConnectionDrop(s.addr)
    /\ UnmarkOutgoing(s.peer)
    /\ UNCHANGED <<syncing, readers>>

\* BlocklistAnnouncement::OffenseCommitted: the current address of the peer is blocked.
OffenseCommitted(peer) ==
    /\ routes[peer] # None
    /\ BlockAddr(routes[peer])
    /\ UNCHANGED <<symmetries, syncing, dials, senders, readers>>

\* An address had too many failures: it is forgotten, or retried from the start.
GiveUpOn(o) == IF o.keep THEN Disconnected("Connecting", 0, TRUE) ELSE None

\* What perform_housekeeping does with an address whose time has come, or which has
\* no time to wait for.  (Mutant: a connecting address is left to its dial.)
SweptMutant(addr, due) ==
    LET o == outgoing[addr]
    IN CASE IsIn(addr, "Waiting") /\ o.failures > RetryAttempts -> GiveUpOn(o)
         [] IsIn(addr, "Waiting") /\ o.failures <= RetryAttempts /\ addr \in due ->
                Disconnected("Connecting", o.failures, o.keep)
         [] IsIn(addr, "Blocked") /\ addr \in due -> Disconnected("Connecting", 0, o.keep)
         [] OTHER -> o
Swept(addr, due) ==
    LET o == outgoing[addr]
    IN CASE IsIn(addr, "Waiting") /\ o.failures > RetryAttempts -> GiveUpOn(o)
         [] IsIn(addr, "Waiting") /\ o.failures <= RetryAttempts /\ addr \in due ->
                Disconnected("Connecting", o.failures, o.keep)
         [] IsIn(addr, "Blocked") /\ addr \in due -> Disconnected("Connecting", 0, o.keep)
         [] IsIn(addr, "Connecting") /\ addr \in due ->
                Disconnected("Waiting", o.failures + 1, o.keep)
         [] OTHER -> o

\* Event::SweepOutgoing
SweepOutgoing(due) ==
    LET dialed == {a \in Addrs : Swept(a, due) # None /\ Swept(a, due).st = "Connecting"
                                 /\ ~ IsIn(a, "Connecting")}
    IN /\ outgoing' = [a \in Addrs |-> Swept(a, due)]
       /\ dials' = [a \in Addrs |-> IF a \in dialed THEN OneMore(dials[a]) ELSE dials[a]]
       /\ UNCHANGED <<routes, symmetries, syncing, senders, readers>>

Next ==
    \/ \E a \in Addrs :
           \/ PeerAddressReceived(a)
           \/ DialFailed(a) \/ DialFailedForGood(a) \/ DialLoopback(a)
           \/ \E p \in Peers, c \in Conns, f \in SyncFlags : DialSucceeded(a, p, c, f)
    \/ \E p \in Peers, i \in Incoming :
           \/ \E a \in Addrs : IncomingEstablished(p, i, a)
           \/ IncomingClosed(p, i)
    \/ \E s \in senders : OutgoingDropped(s)
    \/ \E p \in Peers : OffenseCommitted(p)
    \/ \E due \in SUBSET Addrs : SweepOutgoing(due)

\* Sweeps go on long enough for every known address to be due.  Nothing is assumed of
\* dials: connecting and the TLS handshake have no timeout (tls_connect).
Fairness ==
    \A a \in Known : WF_vars(\E due \in SUBSET Addrs : a \in due /\ SweepOutgoing(due))

Spec == Init /\ [][Next]_vars
FairSpec == Spec /\ Fairness

-----------------------------------------------------------------------------
(* Properties.                                                             *)

TypeOK ==
    /\ outgoing \in [Addrs -> Outgoing \cup {None}]
    /\ routes \in [Peers -> Addrs \cup {None}]
    /\ symmetries \in [Peers -> Symmetry]
    /\ syncing \in SUBSET Peers
    /\ dials \in [Addrs -> Nat]
    /\ senders \in SUBSET Sender
    /\ readers \in SUBSET (Peers \X Incoming)

\* The number of failures of an address stays within one of retry_attempts, however
\* failed dials, sweeps and drops alternate: the u8 does not overflow.
FailuresBounded ==
    \A a \in Addrs : outgoing[a] # None =>
        /\ outgoing[a].failures <= RetryAttempts + 1
        /\ outgoing[a].st = "Connecting" => outgoing[a].failures <= RetryAttempts

\* There is one node at the address; the node has one address.
OneNode(addr) == \A p, q \in NodesAt[addr] : p = q
OneAddress(peer) == \A a, b \in Addrs : peer \in NodesAt[a] \cap NodesAt[b] => a = b

ConnectedWith(addr, peer) == IsIn(addr, "Connected") /\ outgoing[addr].peer = peer

\* The routing table is a "mapping from node IDs to connected socket addresses", and
\* "a missing entry means that the destination is not connected", also when dials of
\* the same address overlap, late outcomes arrive for addresses that were forgotten,
\* swept or blocked, and drops are reported late (change_outgoing_state).  A route to
\* an address with one node leads to a connection with the node it is for, however
\* many addresses that node has; and a connected node that has no other address has a
\* route.  The addresses of one node share its route, see ConnectedIsRouted.
RoutesAreConnections ==
    \A p \in Peers, a \in Addrs : OneNode(a) =>
        /\ routes[p] = a => ConnectedWith(a, p)
        /\ ConnectedWith(a, p) /\ OneAddress(p) => routes[p] = a

\* Every connected node has a route.  The code does not have this property: when one
\* of two connected addresses of a node is dropped, the route to the other is removed.
ConnectedIsRouted ==
    \A p \in Peers, a \in Addrs : ConnectedWith(a, p) => routes[p] # None

\* What the manager believes of an address is true, though the reports about its
\* dials and connections come late: a connected address has an open connection,
\* which was not reported as dropped, a connecting one a dial in progress ("produce
\* DialOutcomes for every dial"), and the number of failures stays in bounds
\* (handle_connection_drop, handle_dial_outcome, perform_housekeeping).
OutgoingIsTrue ==
    /\ TypeOK /\ FailuresBounded
    /\ \A a \in Addrs :
           /\ IsIn(a, "Connecting") => dials[a] > 0
           /\ IsIn(a, "Connected") =>
                  \E s \in senders :
                      s.conn = outgoing[a].conn /\ s.addr = a /\ s.peer = outgoing[a].peer

\* The symmetry of a peer knows exactly its open incoming connections, never more
\* than the limit, and claims an outgoing one only if there is one.
SymmetryIsTrue ==
    \A p \in Peers :
        /\ symmetries[p].in = {i \in Incoming : <<p, i>> \in readers}
        /\ MaxIncoming # 0 => Cardinality(symmetries[p].in) <= MaxIncoming
        /\ symmetries[p].out => \E s \in senders : s.peer = p

\* The node never gives up on a known address, though its dials may hang: again and
\* again it is connected or a new dial of it begins, unless it turns out to be the
\* node's own ("a connection marked unforgettable will never be evicted", learn_addr).
KnownIsRetried ==
    \A a \in Known :
        \/ []<>(IsIn(a, "Connected") \/ IsIn(a, "Loopback"))
        \/ []<>IsIn(a, "Connecting") /\ []<>~ IsIn(a, "Connecting")

\* syncing_nodes "tracks nodes that have announced themselves as nodes that are
\* syncing": a peer that counts as fully connected and has said so on its only
\* outgoing connection is in the set.
AnnouncedIsSyncing ==
    \A s \in senders :
        (/\ s.syncing
         /\ \A x \in senders : x.peer = s.peer => x = s
         /\ symmetries[s.peer].out /\ symmetries[s.peer].in # {})
        => s.peer \in syncing
=============================================================================
