------------------------------ MODULE Gossiper ------------------------------
(***************************************************************************)
(* One node's gossiper component (node/src/components/gossiper.rs) with    *)
(* its gossip table (gossiper/gossip_table.rs).  Every event of the        *)
(* component is one action; an action covers the whole handler, including  *)
(* the update of the table and the effects the handler schedules.          *)
(*                                                                         *)
(* The peers and the network component are the environment.  A gossip      *)
(* request is answered by the network with any set of at most `count`      *)
(* peers outside the exclusion set, because the set of connected peers is  *)
(* arbitrary.  A response comes from any peer at any time: after the       *)
(* message it answers timed out, twice, for a message never sent, or       *)
(* never.                                                                  *)
(*                                                                         *)
(* Time is abstracted: a timer may fire at any moment after it was set,    *)
(* and a purge of the finished entries drops any prefix of the timeout     *)
(* list, which the code keeps sorted by deadline.                          *)
(***************************************************************************)
EXTENDS Naturals, FiniteSets, Sequences

CONSTANTS
    Items,                   \* identifiers of the gossiped data
    Peers,                   \* the other nodes
    InfectionTarget,         \* Config::infection_target
    SaturationLimitPercent,  \* Config::saturation_limit_percent
    IdIsCompleteItem,        \* T::ID_IS_COMPLETE_ITEM
    NoState,                 \* no entry in `current`
    NoPeer,                  \* an item whose source is a client or this node
    MaxArrivals,             \* bound: items and gossip messages received
    MaxResponses             \* bound: gossip responses received

\* GossipTable::new: the number of holders at which gossiping stops.
HoldersLimit == (100 * InfectionTarget) \div (100 - SaturationLimitPercent)

ASSUME ConfigAssumption ==
    /\ InfectionTarget \in Nat \ {0}
    /\ SaturationLimitPercent \in 0 .. 99
    /\ HoldersLimit \in Nat \ {0, 1}
    /\ IdIsCompleteItem \in BOOLEAN
    /\ MaxArrivals \in Nat
    /\ MaxResponses \in Nat

ASSUME PeersAssumption == IsFiniteSet(Peers) /\ NoPeer \notin Peers

VARIABLES
    current,       \* GossipTable::current, NoState where there is no entry
    finished,      \* GossipTable::finished
    timeouts,      \* GossipTable::timeouts, the ids in order of their deadline
    announce,      \* the announcements made by the latest handler
    gossipedTo,    \* pending GossipedTo events, with their multiplicity
    gossipTimers,  \* pending CheckGossipTimeout events per item and peer
    getTimers,     \* pending CheckGetFromPeerTimeout events per item and peer
    holderResults, \* pending GetFromHolderResult events per item
    arrivals,      \* number of items and gossip messages received so far
    responses      \* number of gossip responses received so far

table == <<current, finished, timeouts>>
pending == <<gossipedTo, gossipTimers, getTimers, holderResults>>
vars == <<table, announce, pending, arrivals, responses>>

-----------------------------------------------------------------------------
(* The gossip table.                                                       *)

State == [holders : SUBSET Peers, heldByUs : BOOLEAN,
          infectedByUs : SUBSET Peers, inFlight : Nat]

ASSUME NoStateAssumption == NoState \notin State

EmptyState == [holders |-> {}, heldByUs |-> FALSE,
               infectedByUs |-> {}, inFlight |-> 0]

SaturatingSub(a, b) == IF a > b THEN a - b ELSE 0

\* State::is_finished
IsFinished(s) ==
    \/ Cardinality(s.infectedByUs) >= InfectionTarget
    \/ Cardinality(s.holders) >= HoldersLimit

\* The number of further gossip messages State::action asks for.  (Mutant:
\* the peers already infected are not counted.)
ShortfallMutant(s) == SaturatingSub(InfectionTarget, s.inFlight)
Shortfall(s) ==
    SaturatingSub(InfectionTarget, s.inFlight + Cardinality(s.infectedByUs))

\* State::action: the kind of the resulting GossipAction ...
Action(s, isNew) ==
    IF IsFinished(s) THEN "Noop"
    ELSE IF s.heldByUs
           THEN IF Shortfall(s) > 0 THEN "ShouldGossip" ELSE "Noop"
           ELSE IF isNew THEN "GetRemainder" ELSE "AwaitingRemainder"

\* ... and the entry it leaves behind.
AfterAction(s) ==
    IF ~IsFinished(s) /\ s.heldByUs
      THEN [s EXCEPT !.inFlight = @ + Shortfall(s)]
      ELSE s

\* The closures that the methods of GossipTable apply to an entry.
AddHolderMutant(s, p) == s
AddHolder(s, p) == [s EXCEPT !.holders = @ \cup {p}]

Complete(s, p) ==
    [s EXCEPT !.holders = @ \cup ({p} \ {NoPeer}), !.heldByUs = TRUE]

Infected(s, p, byUs) ==
    IF ~s.heldByUs THEN s
    ELSE [s EXCEPT !.holders = @ \cup {p},
                   !.infectedByUs = @ \cup (IF byUs THEN {p} ELSE {}),
                   !.inFlight = SaturatingSub(@, 1)]

TimedOut(s, p) ==
    IF ~s.heldByUs \/ p \in s.holders THEN s
    ELSE [s EXCEPT !.holders = @ \cup {p},
                   !.inFlight = SaturatingSub(@, 1)]

-----------------------------------------------------------------------------
(* Effects.                                                                *)

GossipCalls == [item : Items, requested : 1 .. InfectionTarget,
                peers : SUBSET Peers]

\* Gossiper::gossip and SmallNetwork::gossip_message: the network chooses the
\* peers, sends them the message and reports them in a GossipedTo event.
Gossip(i, count, exclude) ==
    \E peers \in SUBSET (Peers \ exclude) :
        /\ Cardinality(peers) <= count
        /\ gossipedTo' = [gossipedTo EXCEPT
               ![[item |-> i, requested |-> count, peers |-> peers]] = @ + 1]

NoGossip == UNCHANGED gossipedTo

GossipIf(should, i, s) ==
    IF should THEN Gossip(i, Shortfall(s), s.holders) ELSE NoGossip

FinishedGossiping(i) == <<"FinishedGossiping", i>>
NewCompleteItem(i)   == <<"NewCompleteItem", i>>

\* GossipTable::insert_to_finished for the entry just removed from `current`;
\* fin and tmo are the finished entries and timeouts left by the purge.
InsertToFinished(i, fin, tmo) ==
    /\ current' = [current EXCEPT ![i] = NoState]
    /\ finished' = fin \cup {i}
    /\ timeouts' = Append(tmo, i)

\* GossipTable::update_current, where s is the updated entry.
UpdateCurrent(i, s, fin, tmo) ==
    IF IsFinished(s)
      THEN /\ InsertToFinished(i, fin, tmo)
           /\ announce' = {FinishedGossiping(i)}
           /\ NoGossip
      ELSE /\ current' = [current EXCEPT ![i] = AfterAction(s)]
           /\ finished' = fin
           /\ timeouts' = tmo
           /\ announce' = {}
           /\ GossipIf(Action(s, FALSE) = "ShouldGossip", i, s)

\* A new entry of new_partial_data or new_complete_data.
InsertNew(i, s, fin, tmo) ==
    /\ current' = [current EXCEPT ![i] = AfterAction(s)]
    /\ finished' = fin
    /\ timeouts' = tmo
    /\ GossipIf(Action(s, TRUE) = "ShouldGossip", i, s)

\* GossipTable::purge_finished drops a prefix of the timeouts.
Expired(k) == {timeouts[j] : j \in 1 .. k}
KeptMutant(k) == SubSeq(timeouts, k + 2, Len(timeouts))
Kept(k) == SubSeq(timeouts, k + 1, Len(timeouts))

\* A call on an id that is finished or unknown: nothing happens.
TableNoop == UNCHANGED table /\ announce' = {} /\ NoGossip

SetGetTimerMutant(i, p) == UNCHANGED getTimers
SetGetTimer(i, p) == getTimers' = [getTimers EXCEPT ![i][p] = @ + 1]

Arrive ==
    /\ arrivals < MaxArrivals
    /\ arrivals' = arrivals + 1

-----------------------------------------------------------------------------
(* The event handlers.                                                     *)

\* Gossiper::handle_item_received, for ItemReceived and BeginGossipRequest.
HandleItemReceived(i, source) ==
    /\ Arrive
    /\ \E k \in 0 .. Len(timeouts) :
          LET fin == finished \ Expired(k) IN
          \/ /\ i \in fin
             /\ finished' = fin
             /\ timeouts' = Kept(k)
             /\ announce' = {}
             /\ NoGossip
             /\ UNCHANGED current
          \/ /\ i \notin fin /\ current[i] # NoState
             /\ UpdateCurrent(i, Complete(current[i], source), fin, Kept(k))
          \/ /\ i \notin fin /\ current[i] = NoState
             /\ InsertNew(i, Complete(EmptyState, source), fin, Kept(k))
             /\ announce' = {}
    /\ UNCHANGED <<gossipTimers, getTimers, holderResults, responses>>

\* Gossiper::handle_gossip: the entry that new_complete_data or
\* new_partial_data makes of s.
Heard(s, sender) ==
    IF IdIsCompleteItem THEN Complete(s, sender) ELSE AddHolder(s, sender)

HandleGossip(i, sender) ==
    /\ Arrive
    /\ \E k \in 0 .. Len(timeouts) :
          LET fin == finished \ Expired(k)
              new == Heard(EmptyState, sender)
          IN
          \/ /\ i \in fin
             /\ finished' = fin
             /\ timeouts' = Kept(k)
             /\ announce' = {}
             /\ NoGossip
             /\ UNCHANGED <<current, getTimers>>
          \/ /\ i \notin fin /\ current[i] # NoState
             /\ UpdateCurrent(i, Heard(current[i], sender), fin, Kept(k))
             /\ UNCHANGED getTimers
          \/ /\ i \notin fin /\ current[i] = NoState
             /\ InsertNew(i, new, fin, Kept(k))
             /\ announce' = IF Action(new, TRUE) = "ShouldGossip"
                              THEN {NewCompleteItem(i)} ELSE {}
             /\ IF Action(new, TRUE) = "GetRemainder"
                  THEN SetGetTimer(i, sender)
                  ELSE UNCHANGED getTimers
    /\ UNCHANGED <<gossipTimers, holderResults, responses>>

\* Gossiper::handle_gossip_response.  Nothing in the code ties a response to
\* a message that was sent: it may be late, a repetition or unsolicited.
HandleGossipResponse(i, sender, isAlreadyHeld) ==
    /\ responses < MaxResponses
    /\ responses' = responses + 1
    /\ holderResults' = IF ~isAlreadyHeld /\ ~IdIsCompleteItem
                          THEN [holderResults EXCEPT ![i] = @ + 1]
                          ELSE holderResults
    /\ \/ current[i] = NoState /\ TableNoop
       \/ /\ current[i] # NoState
          /\ UpdateCurrent(i, Infected(current[i], sender, ~isAlreadyHeld),
                           finished, timeouts)
    /\ UNCHANGED <<gossipTimers, getTimers, arrivals>>

\* GossipTable::force_finish followed by the announcement.
ForceFinish(i) ==
    /\ InsertToFinished(i, finished, timeouts)
    /\ announce' = {FinishedGossiping(i)}

\* Gossiper::gossiped_to with GossipTable::reduce_in_flight_count.
GossipedTo(call) ==
    LET i == call.item
        missing == call.requested - Cardinality(call.peers)
        left == SaturatingSub(current[i].inFlight, missing)
    IN
    /\ gossipedTo[call] > 0
    /\ gossipedTo' = [gossipedTo EXCEPT ![call] = @ - 1]
    /\ \/ /\ current[i] = NoState \/ missing = 0
          /\ UNCHANGED table
          /\ announce' = {}
       \/ /\ current[i] # NoState /\ missing > 0 /\ left = 0
          /\ ForceFinish(i)
       \/ /\ current[i] # NoState /\ missing > 0 /\ left > 0
          /\ current' = [current EXCEPT ![i].inFlight = left]
          /\ announce' = {}
          /\ UNCHANGED <<finished, timeouts>>
    /\ gossipTimers' = [gossipTimers EXCEPT
           ![i] = [p \in Peers |-> @[p] + IF p \in call.peers THEN 1 ELSE 0]]
    /\ UNCHANGED <<getTimers, holderResults, arrivals, responses>>

\* Gossiper::check_gossip_timeout with GossipTable::check_timeout.
CheckGossipTimeout(i, peer) ==
    /\ gossipTimers[i][peer] > 0
    /\ gossipTimers' = [gossipTimers EXCEPT ![i][peer] = @ - 1]
    /\ \/ current[i] = NoState /\ TableNoop
       \/ /\ current[i] # NoState
          /\ UpdateCurrent(i, TimedOut(current[i], peer), finished, timeouts)
    /\ UNCHANGED <<getTimers, holderResults, arrivals, responses>>

\* remove_holder_if_unresponsive: nobody is left to get the data from.
GivesUpMutant(s, peer) == s.holders \ {peer} = {}
GivesUp(s, peer) == ~s.heldByUs /\ s.holders \ {peer} = {}

\* Gossiper::check_get_from_peer_timeout with
\* GossipTable::remove_holder_if_unresponsive.  The next holder to ask is any
\* of the remaining ones (the code takes the first of a HashSet).
\* (Mutant: with other holders left, the silent one is kept and asked again.)
CheckGetFromPeerTimeoutMutant(i, peer) ==
    LET s == current[i] IN
    /\ getTimers[i][peer] > 0
    /\ announce' = {}
    /\ current' = IF s # NoState /\ GivesUp(s, peer)
                    THEN [current EXCEPT ![i] = NoState] ELSE current
    /\ getTimers' = IF s = NoState \/ GivesUp(s, peer)
                      THEN [getTimers EXCEPT ![i][peer] = @ - 1] ELSE getTimers
    /\ UNCHANGED <<finished, timeouts, gossipedTo, gossipTimers, holderResults,
                   arrivals, responses>>
CheckGetFromPeerTimeout(i, peer) ==
    LET s == current[i]
        rest == IF s.heldByUs THEN s ELSE [s EXCEPT !.holders = @ \ {peer}]
        fired == [getTimers EXCEPT ![i][peer] = @ - 1]
    IN
    /\ getTimers[i][peer] > 0
    /\ announce' = {}
    /\ \/ /\ s = NoState
          /\ getTimers' = fired
          /\ UNCHANGED current /\ NoGossip
       \/ /\ s # NoState /\ GivesUp(s, peer)
          /\ current' = [current EXCEPT ![i] = NoState]
          /\ getTimers' = fired
          /\ NoGossip
       \/ /\ s # NoState /\ ~GivesUp(s, peer)
          /\ current' = [current EXCEPT ![i] = AfterAction(rest)]
          /\ GossipIf(Action(rest, ~s.heldByUs) = "ShouldGossip", i, rest)
          /\ IF Action(rest, ~s.heldByUs) = "GetRemainder"
               THEN \E holder \in rest.holders :
                       getTimers' = [fired EXCEPT ![i][holder] = @ + 1]
               ELSE getTimers' = fired
    /\ UNCHANGED <<finished, timeouts, gossipTimers, holderResults,
                   arrivals, responses>>

\* Event GetFromHolderResult: got_from_holder only sends the item on,
\* failed_to_get_from_holder gives the item up.
GetFromHolderResult(i, ok) ==
    /\ holderResults[i] > 0
    /\ holderResults' = [holderResults EXCEPT ![i] = @ - 1]
    /\ IF ~ok /\ current[i] # NoState
         THEN ForceFinish(i)
         ELSE UNCHANGED table /\ announce' = {}
    /\ UNCHANGED <<gossipedTo, gossipTimers, getTimers, arrivals,
                   responses>>

-----------------------------------------------------------------------------
Init ==
    /\ current = [i \in Items |-> NoState]
    /\ finished = {}
    /\ timeouts = <<>>
    /\ announce = {}
    /\ gossipedTo = [c \in GossipCalls |-> 0]
    /\ gossipTimers = [i \in Items |-> [p \in Peers |-> 0]]
    /\ getTimers = [i \in Items |-> [p \in Peers |-> 0]]
    /\ holderResults = [i \in Items |-> 0]
    /\ arrivals = 0
    /\ responses = 0

Next ==
    \/ \E i \in Items, src \in Peers \cup {NoPeer} : HandleItemReceived(i, src)
    \/ \E i \in Items, p \in Peers : HandleGossip(i, p)
    \/ \E i \in Items, p \in Peers, held \in BOOLEAN :
          HandleGossipResponse(i, p, held)
    \/ \E c \in GossipCalls : GossipedTo(c)
    \/ \E i \in Items, p \in Peers : CheckGossipTimeout(i, p)
    \/ \E i \in Items, p \in Peers : CheckGetFromPeerTimeout(i, p)
    \/ \E i \in Items, ok \in BOOLEAN : GetFromHolderResult(i, ok)

\* The reactor delivers every scheduled event and every timer.
Fairness ==
    /\ \A c \in GossipCalls : WF_vars(GossipedTo(c))
    /\ \A i \in Items, p \in Peers :
          WF_vars(CheckGossipTimeout(i, p)) /\ WF_vars(CheckGetFromPeerTimeout(i, p))

Spec == Init /\ [][Next]_vars
FairSpec == Spec /\ Fairness

-----------------------------------------------------------------------------
(* Properties.                                                             *)

TypeOK ==
    /\ current \in [Items -> State \cup {NoState}]
    /\ finished \subseteq Items
    /\ timeouts \in Seq(Items)
    /\ announce \subseteq ({"FinishedGossiping", "NewCompleteItem"} \X Items)
    /\ gossipedTo \in [GossipCalls -> Nat]
    /\ gossipTimers \in [Items -> [Peers -> Nat]]
    /\ getTimers \in [Items -> [Peers -> Nat]]
    /\ holderResults \in [Items -> Nat]
    /\ arrivals \in Nat
    /\ responses \in Nat

Partial(i) == current[i] # NoState /\ ~current[i].heldByUs
Held(i) == current[i] # NoState /\ current[i].heldByUs

\* An id is being gossiped or finished, never both, and every finished id has
\* exactly one deadline, so that the purge of an old deadline cannot drop an
\* entry that was finished again later (gossip_table.rs, insert_to_finished).
OneEntryOneDeadline ==
    /\ \A i \in finished : current[i] = NoState
    /\ finished = {timeouts[j] : j \in 1 .. Len(timeouts)}
    /\ \A j, k \in 1 .. Len(timeouts) : timeouts[j] = timeouts[k] => j = k

\* No entry that has reached its target stays in `current`, where nothing
\* would ever announce or purge it (State::action answers Noop for it).
NoFinishedEntryIsCurrent ==
    \A i \in Items : current[i] # NoState => ~IsFinished(current[i])

\* The counter in_flight_count, by which State::action decides how many more
\* peers to gossip to, never exceeds the infections still missing, whichever
\* timeouts and late, repeated or unsolicited responses reduced it before
\* (State::action, infected, check_timeout).  It says nothing of the messages
\* really outstanding: a timeout and a late response of the same peer reduce
\* the counter twice, and both places are filled again.
InFlightBound ==
    \A i \in Items : current[i] # NoState =>
        current[i].inFlight + Cardinality(current[i].infectedByUs)
            <= InfectionTarget

\* Partial data is never gossiped onwards, and it always has a holder to ask:
\* the `expect` in State::action cannot fail.
PartialDataHasSource ==
    \A i \in Items : Partial(i) =>
        /\ current[i].holders # {}
        /\ current[i].inFlight = 0
        /\ current[i].infectedByUs = {}

\* A fetch never stalls: while the full item is missing a timer is pending that
\* moves the request on to the next holder or drops the entry.
PartialDataHasTimer ==
    \A i \in Items : Partial(i) => \E p \in Peers : getTimers[i][p] > 0

\* Once we hold an item we hold it until its gossiping is finished: no late
\* timeout makes us fetch it again or forget it.
HeldUntilFinished ==
    [][\A i \in Items : Held(i) => Held(i)' \/ i \in finished']_vars

\* Every partial entry is completed, finished or dropped in the end.
PartialDataResolved == \A i \in Items : Partial(i) ~> ~Partial(i)

\* An entry that we hold has an event pending that will move it on: it cannot
\* stay in `current` for ever.
HeldEntryHasEvent ==
    \A i \in Items : Held(i) =>
        \/ \E c \in GossipCalls : c.item = i /\ gossipedTo[c] > 0
        \/ \E p \in Peers : gossipTimers[i][p] > 0
=============================================================================
