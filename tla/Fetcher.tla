------------------------------- MODULE Fetcher -------------------------------
(***************************************************************************)
(* The fetcher of deploys and the deploy acceptor it gets them through     *)
(* (node/src/components/fetcher.rs, deploy_acceptor.rs, and the routing of *)
(* their events in node/src/reactor.rs and reactor/participating.rs).      *)
(*                                                                         *)
(* A fetch looks for the item in storage and asks one peer if it is not    *)
(* there.  The result of the lookup is an event of its own, so it can be   *)
(* stale when it is handled.  A deploy that a peer sends goes to the       *)
(* acceptor; only if it is new in storage is the fetcher told about it, by *)
(* an announcement that is another event.  Peers and clients are the       *)
(* environment: any of them sends any item, or that it has none, at any    *)
(* moment or never.  Who asked is an opaque tag; equal fetches are counted.*)
(***************************************************************************)
EXTENDS Naturals, Sequences, FiniteSetsExt

CONSTANTS
    Items,   \* deploy hashes
    Peers,
    Askers   \* who fetches

Fetches == Items \X Peers \X Askers
Results == {"ok", "failed"}

\* utils::Source, without the name of the peer; Ourself is treated like Client.
Sources == {"Peer", "Client"}

VARIABLES
    stored,         \* the deploys in storage
    lookups,        \* fetches whose storage request has not been handled, counted
    absent,         \* GetFromStorageResult events without an item, counted
    responders,     \* responders, the empty sequence where there is no entry
    timers,         \* pending TimeoutPeer events by item and peer, counted
    announcements,  \* AcceptedNewDeploy announcements that are not handled yet
    answers         \* results on their way back to who asked, counted

fetcherVars == <<stored, lookups, absent, responders, timers, announcements, answers>>

Init ==
    /\ stored = {}
    /\ lookups = [f \in Fetches |-> 0]
    /\ absent = [f \in Fetches |-> 0]
    /\ responders = [id \in Items |-> [p \in Peers |-> <<>>]]
    /\ timers = [ip \in Items \X Peers |-> 0]
    /\ announcements = {}
    /\ answers = [a \in Items \X Askers \X Results |-> 0]

-----------------------------------------------------------------------------
(* Helpers.                                                                *)

\* How many of the responders in a sequence belong to an asker.
CountOf(s, asker) == Cardinality({i \in DOMAIN s : s[i] = asker})

\* The responders in the sequences that lost gives for each peer are answered.
Respond(id, lost, result) ==
    answers' = [a \in DOMAIN answers |->
        IF a[1] = id /\ a[3] = result
        THEN answers[a] + SumFunction([p \in Peers |-> CountOf(lost[p], a[2])])
        ELSE answers[a]]

-----------------------------------------------------------------------------
(* The events.                                                             *)

\* Event::Fetch for the pairs of item and asker in new, all from one peer: storage
\* is asked.
Fetch(new, peer) ==
    lookups' = [f \in Fetches |->
        lookups[f] + IF <<f[1], f[3]>> \in new /\ f[2] = peer THEN 1 ELSE 0]

\* Storage has the item: GetFromStorageResult with it, and the responder's answer.
FoundInStorage(f) ==
    /\ lookups[f] > 0
    /\ f[1] \in stored
    /\ lookups' = [lookups EXCEPT ![f] = @ - 1]
    /\ answers' = [answers EXCEPT ![<<f[1], f[3], "ok">>] = @ + 1]
    /\ UNCHANGED <<stored, absent, responders, timers, announcements>>

\* Storage does not have the item: the result is now an event in the queue.
NotInStorage(f) ==
    /\ lookups[f] > 0
    /\ f[1] \notin stored
    /\ lookups' = [lookups EXCEPT ![f] = @ - 1]
    /\ absent' = [absent EXCEPT ![f] = @ + 1]
    /\ UNCHANGED <<stored, responders, timers, announcements, answers>>

\* failed_to_get_from_storage: the responder is kept and the peer is asked, with a
\* timeout.  (Mutant: requests for the same item and peer share one timeout.)
AskPeerMutant(f) ==
    /\ absent[f] > 0
    /\ absent' = [absent EXCEPT ![f] = @ - 1]
    /\ responders' = [responders EXCEPT ![f[1]][f[2]] = Append(@, f[3])]
    /\ timers' = [timers EXCEPT ![<<f[1], f[2]>>] = 1]
    /\ UNCHANGED <<stored, lookups, announcements, answers>>
AskPeer(f) ==
    /\ absent[f] > 0
    /\ absent' = [absent EXCEPT ![f] = @ - 1]
    /\ responders' = [responders EXCEPT ![f[1]][f[2]] = Append(@, f[3])]
    /\ timers' = [timers EXCEPT ![<<f[1], f[2]>>] = @ + 1]
    /\ UNCHANGED <<stored, lookups, announcements, answers>>

\* failed_to_get_from_storage when the message cannot be constructed: everyone who
\* waits for this item and peer fails.
CannotAskPeer(f) ==
    LET all == Append(responders[f[1]][f[2]], f[3])
    IN /\ absent[f] > 0
       /\ absent' = [absent EXCEPT ![f] = @ - 1]
       /\ responders' = [responders EXCEPT ![f[1]][f[2]] = <<>>]
       /\ Respond(f[1], [p \in Peers |-> IF p = f[2] THEN all ELSE <<>>], "failed")
       /\ UNCHANGED <<stored, lookups, timers, announcements>>

\* A deploy arrives and passes the acceptor's checks: put_deploy_to_storage, and an
\* announcement if it was not there.  One that is rejected or already stored leaves
\* no trace here.
PutDeploy(id, source) ==
    /\ id \notin stored
    /\ stored' = stored \cup {id}
    /\ announcements' = announcements \cup {<<id, source>>}
    /\ UNCHANGED <<lookups, absent, responders, timers, answers>>

\* GotRemotely from a peer: respond_to_all.  validate() succeeds: the acceptor has
\* announced the deploy only after the same check (validate_deploy, by is_valid()).
GotRemotely(id, source) ==
    /\ <<id, source>> \in announcements
    /\ source = "Peer"
    /\ announcements' = announcements \ {<<id, source>>}
    /\ responders' = [responders EXCEPT ![id] = [p \in Peers |-> <<>>]]
    /\ Respond(id, responders[id], "ok")
    /\ UNCHANGED <<stored, lookups, absent, timers>>

\* GotRemotely from a client (or ourself): ignored.
GotFromClient(id, source) ==
    /\ <<id, source>> \in announcements
    /\ source # "Peer"
    /\ announcements' = announcements \ {<<id, source>>}
    /\ UNCHANGED <<stored, lookups, absent, responders, timers, answers>>

\* AbsentRemotely: everyone who waits for this item and peer fails.
AbsentRemotely(id, peer) ==
    /\ responders[id][peer] # <<>>
    /\ responders' = [responders EXCEPT ![id][peer] = <<>>]
    /\ Respond(id, [p \in Peers |-> IF p = peer THEN responders[id][p] ELSE <<>>], "failed")
    /\ UNCHANGED <<stored, lookups, absent, timers, announcements>>

\* TimeoutPeer: the first who waits for this item and peer fails, if there is one.
TimeoutPeer(id, peer) ==
    LET waiting == responders[id][peer]
        first == SubSeq(waiting, 1, IF waiting = <<>> THEN 0 ELSE 1)
    IN /\ timers[<<id, peer>>] > 0
       /\ timers' = [timers EXCEPT ![<<id, peer>>] = @ - 1]
       /\ responders' = [responders EXCEPT ![id][peer] = IF @ = <<>> THEN @ ELSE Tail(@)]
       /\ Respond(id, [p \in Peers |-> IF p = peer THEN first ELSE <<>>], "failed")
       /\ UNCHANGED <<stored, lookups, absent, announcements>>

\* A result has reached who asked.
TakeAnswer(id, asker, result) ==
    /\ answers[<<id, asker, result>>] > 0
    /\ answers' = [answers EXCEPT ![<<id, asker, result>>] = @ - 1]

FetcherStep ==
    \/ \E f \in Fetches :
           FoundInStorage(f) \/ NotInStorage(f) \/ AskPeer(f) \/ CannotAskPeer(f)
    \/ \E id \in Items, source \in Sources :
           PutDeploy(id, source) \/ GotRemotely(id, source) \/ GotFromClient(id, source)
    \/ \E id \in Items, peer \in Peers : AbsentRemotely(id, peer) \/ TimeoutPeer(id, peer)

\* The fetcher on its own: anyone fetches anything.
Next ==
    \/ \E id \in Items, asker \in Askers, peer \in Peers :
           /\ Fetch({<<id, asker>>}, peer)
           /\ UNCHANGED <<stored, absent, responders, timers, announcements, answers>>
    \/ FetcherStep
    \/ \E id \in Items, asker \in Askers, result \in Results :
           /\ TakeAnswer(id, asker, result)
           /\ UNCHANGED <<stored, lookups, absent, responders, timers, announcements>>

Spec == Init /\ [][Next]_fetcherVars

-----------------------------------------------------------------------------
(* Properties.                                                             *)

TypeOK ==
    /\ stored \in SUBSET Items
    /\ lookups \in [Fetches -> Nat]
    /\ absent \in [Fetches -> Nat]
    /\ responders \in [Items -> [Peers -> Seq(Askers)]]
    /\ timers \in [Items \X Peers -> Nat]
    /\ announcements \in SUBSET (Items \X Sources)
    /\ answers \in [Items \X Askers \X Results -> Nat]

\* Everyone who waits for a peer will be timed out: there are always as many timers
\* as responders of an item and peer, though a timer takes whichever responder comes
\* first and an answer takes them all and leaves the timers (send_response_from_peer).
EveryResponderTimed ==
    \A id \in Items, p \in Peers : Len(responders[id][p]) <= timers[<<id, p>>]
=============================================================================
