---------------------------- MODULE BlockProposer ----------------------------
(* The block proposer (block_proposer.rs, block_proposer/deploy_sets.rs,    *)
(* types/appendable_block.rs): it buffers the deploys the node has          *)
(* accepted, follows the finalized blocks and fills the payload of the      *)
(* blocks this node proposes.                                               *)
(*                                                                          *)
(* Around it: consensus finalizes the blocks of the chain in order, asks    *)
(* for a payload on top of some ancestor, and after a restart finalizes the *)
(* blocks of the current era once more; storage has the blocks once they    *)
(* are executed, a few at a time behind; the deploy acceptor delivers       *)
(* deploys that had not expired.  The events of all of them reach the       *)
(* component in any order (inbox).  What is proposed by others is fixed:    *)
(* Payload is the chain.  A context holds the ancestors of the current era  *)
(* only, so that for the deploys of earlier eras the proposer has to know   *)
(* the finalized blocks.                                                    *)
(*                                                                          *)
(* Time is a small clock.  Gas, sizes and approvals are left out: a payload *)
(* is limited by the numbers of deploys and of transfers, and which of the  *)
(* fitting ones are taken is up to the order of a hash map.                 *)
EXTENDS Naturals, Sequences, FiniteSets, FiniteSetsExt

CONSTANTS
    Deploys,
    Transfers,          \* those of them that are transfers
    Created, Expires,   \* [Deploys -> time]: header.timestamp() and header.expires()
    Deps,               \* [Deploys -> set of deploys]: header.dependencies()
    Payload,            \* the deploys of the blocks 1, 2, ..., each a sequence
    BlockTime,          \* the timestamps of the blocks
    EraStart,           \* the switch block: the blocks above it are the next era
    MaxTtl,
    DeployDelay,
    MaxDeployCount, MaxTransferCount,
    MaxTime, MaxRequests, MaxStarts,        \* bounds
    Absent

BlockHeights == 1 .. Len(Payload)
Times == 0 .. MaxTime
DeploysOf(h) == {Payload[h][i] : i \in 1 .. Len(Payload[h])}

\* Times are numbers, and a deploy lives no longer than MaxTtl.
DeploysInTime ==
    /\ Transfers \subseteq Deploys
    /\ Created \in [Deploys -> Nat]
    /\ Expires \in [Deploys -> Nat]
    /\ \A d \in Deploys : Created[d] <= Expires[d] /\ Expires[d] <= Created[d] + MaxTtl

\* What consensus lets through: the deploys of a block are valid at its time,
\* none is in the chain twice (contains_replay and the check of the previous
\* eras), and no block is older than its parent.
ValidChain ==
    /\ Payload \in Seq(Seq(Deploys))
    /\ BlockTime \in Seq(Nat)
    /\ Len(BlockTime) = Len(Payload)
    /\ \A h \in BlockHeights, d \in Deploys :
          d \in DeploysOf(h) => Created[d] <= BlockTime[h] /\ BlockTime[h] <= Expires[d]
    /\ \A h, k \in BlockHeights : h < k => /\ DeploysOf(h) \cap DeploysOf(k) = {}
                                     /\ BlockTime[h] <= BlockTime[k]

NumbersOK ==
    /\ {EraStart, MaxTtl, DeployDelay, MaxTime, MaxRequests, MaxStarts} \subseteq Nat
    /\ Absent \notin Nat

ASSUME DeployAssumption == DeploysInTime
ASSUME ChainAssumption == ValidChain
ASSUME NumbersAssumption == NumbersOK

VARIABLES
    clock,
    lastFinalized,      \* the last block consensus has finalized since the start
    nextHeight,         \* the era supervisor's next_block_height
    storedHeight,       \* the highest block in storage
    accepted,           \* the deploys that the deploy acceptor has stored
    inbox,              \* events on their way to the component
    requested,          \* the number of payloads consensus has asked for
    proposerMode,       \* Initializing, the replay of the postponed events, Ready
    postponed,          \* Initializing's pending: a sequence of events
    nextFinalized,      \* next_finalized
    finalizationQueue,  \* the heights of the queued blocks
    pending,            \* pending_deploys and pending_transfers: [Deploys -> arrival or Absent]
    finalizedExpiry,    \* finalized_deploys, finalized_transfers: [Deploys -> expiry or Absent]
    requestQueue,       \* requests for payloads that have to wait
    cache,              \* the snapshot of pending in the state store
    answers,            \* the payloads given: [id, parent, deploys, at]
    starts

aroundVars == <<clock, lastFinalized, nextHeight, storedHeight, accepted, requested, starts>>
setsVars == <<nextFinalized, finalizationQueue, pending, finalizedExpiry>>
proposerVars ==
    <<clock, lastFinalized, nextHeight, storedHeight, accepted, inbox, requested, proposerMode,
      postponed, nextFinalized, finalizationQueue, pending, finalizedExpiry, requestQueue, cache,
      answers, starts>>

NoDeploys == [d \in Deploys |-> Absent]
Known(map) == {d \in Deploys : map[d] # Absent}
MaxOf(a, b) == IF a > b THEN a ELSE b
MinOf(a, b) == IF a < b THEN a ELSE b
Expired(d, t) == Expires[d] < t
SaturatingDiff(a, b) == IF a > b THEN a - b ELSE 0

ProposerInit ==
    /\ clock = 0
    /\ lastFinalized = 0
    /\ nextHeight = 1
    /\ storedHeight = 0
    /\ accepted = {}
    /\ inbox = {}
    /\ requested = 0
    /\ proposerMode = "initializing"
    /\ postponed = <<>>
    /\ nextFinalized = 1
    /\ finalizationQueue = {}
    /\ pending = NoDeploys
    /\ finalizedExpiry = NoDeploys
    /\ requestQueue = {}
    /\ cache = NoDeploys
    /\ answers = {}
    /\ starts = 0
-----------------------------------------------------------------------------
(* deploy_sets.rs *)

\* prune: what has expired is dropped, of the finalized ones by the expiry that
\* is recorded.
PrunedPending(map, now) == [d \in Deploys |-> IF Expired(d, now) THEN Absent ELSE map[d]]
PrunedFinalized(map, now) ==
    [d \in Deploys |-> IF map[d] # Absent /\ map[d] < now THEN Absent ELSE map[d]]

\* get_finalized_blocks: from the highest block down to the first that is too old.
RecentBlocks(now) ==
    {h \in 1 .. storedHeight : \A i \in h .. storedHeight : now - BlockTime[i] < MaxTtl}

\* The finalized deploys that new takes from storage.
FinalizedIn(blocks) ==
    [d \in Deploys |->
        IF \E h \in blocks : d \in DeploysOf(h)
        THEN MaxTtl + BlockTime[CHOOSE h \in blocks : d \in DeploysOf(h)]
        ELSE Absent]

\* new keeps the deploys of the snapshot that are not finalized.
Unfinalized(map, final) ==
    [d \in Deploys |-> IF final[d] # Absent THEN Absent ELSE map[d]]

\* add_finalized_deploy and add_finalized_transfer: the earliest known expiry.
AddFinalized(map, d, expiry) ==
    [map EXCEPT ![d] = IF @ = Absent THEN expiry ELSE MinOf(expiry, @)]
-----------------------------------------------------------------------------
(* propose_block_payload *)

\* The deploys of the ancestors in the era, the latest block first.
Ancestors(parent) ==
    LET start == IF parent >= EraStart THEN EraStart ELSE 0
        from[h \in 0 .. parent] ==
            IF h <= start THEN <<>> ELSE Payload[h] \o from[h - 1]
    IN  from[parent]

\* past_deploys: the ancestors' deploys up to the first finalized one.
PastDeploys(parent, final) ==
    LET list == Ancestors(parent)
    IN  {list[i] : i \in {n \in 1 .. Len(list) : \A j \in 1 .. n : list[j] \notin final}}

Eligible(request, waiting, final) ==
    LET past == PastDeploys(request.parent, final)
    IN  {d \in Known(waiting) :
            /\ Deps[d] \subseteq past \cup final
            /\ d \notin past
            /\ d \notin final
            /\ SaturatingDiff(request.timestamp, waiting[d]) >= DeployDelay
            /\ Created[d] <= request.timestamp
            /\ ~ Expired(d, request.timestamp)}

\* As many as the block takes, whichever come first.
Fitting(set, max) == kSubset(MinOf(max, Cardinality(set)), set)

\* The payloads that may be proposed: transfers and other deploys.
Proposable(request, waiting, final) ==
    LET all == Eligible(request, waiting, final)
    IN  {t \cup o : t \in Fitting(all \cap Transfers, MaxTransferCount),
                    o \in Fitting(all \ Transfers, MaxDeployCount)}

Answer(request, deploys) ==
    [id |-> request.id, parent |-> request.parent, deploys |-> deploys, at |-> clock]
-----------------------------------------------------------------------------
(* The events of the component in the ready state *)

\* Mutant: a request is answered although blocks it builds on are missing.
MustWaitMutant(request) == FALSE

MustWait(request) == request.next > nextFinalized

HandleRequest(request) ==
    /\ IF MustWait(request)
       THEN /\ requestQueue' = requestQueue \cup {request}
            /\ UNCHANGED answers
       ELSE /\ \E deploys \in Proposable(request, pending, Known(finalizedExpiry)) :
                    answers' = answers \cup {Answer(request, deploys)}
            /\ UNCHANGED requestQueue
    /\ UNCHANGED <<setsVars, cache>>

\* add_deploy.
HandleDeploy(d) ==
    /\ IF finalizedExpiry[d] # Absent
       THEN /\ finalizedExpiry' = AddFinalized(finalizedExpiry, d, Expires[d])
            /\ UNCHANGED pending
       ELSE /\ pending' = [pending EXCEPT ![d] = clock]
            /\ UNCHANGED finalizedExpiry
    /\ UNCHANGED <<nextFinalized, finalizationQueue, requestQueue, cache, answers>>

\* Mutant: the queued blocks are left where they are.
RunEndMutant(h) == h

\* The last block handled when block h is: the queued ones that follow it.
RunEnd(h) == Max({h} \cup {m \in finalizationQueue : m > h /\ h + 1 .. m \subseteq finalizationQueue})

\* The sets after the blocks from h to m: handle_finalized_block for each.
PendingAfter(h, m) ==
    [d \in Deploys |-> IF \E b \in h .. m : d \in DeploysOf(b) THEN Absent ELSE pending[d]]
FinalizedAfter(h, m) ==
    [d \in Deploys |->
        LET in == {b \in h .. m : d \in DeploysOf(b)}
            expiry == IF pending[d] # Absent THEN Expires[d] ELSE BlockTime[Min(in)] + MaxTtl
        IN  IF in = {} THEN finalizedExpiry[d]
            ELSE IF finalizedExpiry[d] = Absent THEN expiry
            ELSE MinOf(expiry, finalizedExpiry[d])]

\* A finalized block: it is queued if an earlier one is missing; else it and
\* the queued ones that follow it are handled in turn, and after each of them
\* the requests that have waited for it.
HandleFinalized(h) ==
    IF h > nextFinalized
    THEN /\ finalizationQueue' = finalizationQueue \cup {h}
         /\ UNCHANGED <<nextFinalized, pending, finalizedExpiry, requestQueue, cache, answers>>
    ELSE LET m   == RunEnd(h)
             due == {r \in requestQueue : r.next > nextFinalized /\ r.next <= m + 1}
         IN  /\ finalizationQueue' = finalizationQueue \ (h .. m)
             /\ nextFinalized' = MaxOf(nextFinalized, m + 1)
             /\ pending' = PendingAfter(h, m)
             /\ finalizedExpiry' = FinalizedAfter(h, m)
             /\ requestQueue' = requestQueue \ due
             /\ \E given \in [due -> SUBSET Deploys] :
                   /\ \A r \in due :
                         given[r] \in Proposable(r, PendingAfter(h, r.next - 1),
                                                 Known(FinalizedAfter(h, r.next - 1)))
                   /\ answers' = answers \cup {Answer(r, given[r]) : r \in due}
             /\ UNCHANGED cache

Handle(event) ==
    CASE event.kind = "request"   -> HandleRequest(event.request)
      [] event.kind = "deploy"    -> HandleDeploy(event.deploy)
      [] event.kind = "finalized" -> HandleFinalized(event.height)
-----------------------------------------------------------------------------
\* Mutant: what comes before the state is loaded is dropped.
PostponeMutant(event) ==
    /\ proposerMode = "initializing"
    /\ inbox' = inbox \ {event}
    /\ UNCHANGED <<aroundVars, proposerMode, postponed, setsVars, requestQueue, cache, answers>>

\* An event arrives before the state is loaded: it is postponed.
Postpone(event) ==
    /\ proposerMode = "initializing"
    /\ inbox' = inbox \ {event}
    /\ postponed' = Append(postponed, event)
    /\ UNCHANGED <<aroundVars, proposerMode, setsVars, requestQueue, cache, answers>>

Receive(event) ==
    /\ proposerMode = "ready"
    /\ inbox' = inbox \ {event}
    /\ Handle(event)
    /\ UNCHANGED <<aroundVars, proposerMode, postponed>>

\* Loaded: the finalized blocks and the snapshot have been read.  The replay of
\* the postponed events belongs to the same event: nothing comes in between.
Loaded ==
    LET final == FinalizedIn(RecentBlocks(clock))
    IN  /\ proposerMode = "initializing"
        /\ finalizedExpiry' = PrunedFinalized(final, clock)
        /\ pending' = PrunedPending(Unfinalized(cache, final), clock)
        /\ cache' = pending'
        /\ proposerMode' = IF postponed = <<>> THEN "ready" ELSE "replaying"
        /\ UNCHANGED <<aroundVars, inbox, postponed, nextFinalized, finalizationQueue,
                       requestQueue, answers>>

Replay ==
    /\ proposerMode = "replaying"
    /\ Handle(Head(postponed))
    /\ postponed' = Tail(postponed)
    /\ proposerMode' = IF postponed' = <<>> THEN "ready" ELSE "replaying"
    /\ UNCHANGED <<aroundVars, inbox>>

\* The timer: prune, and save a snapshot.
Prune ==
    /\ proposerMode = "ready"
    /\ pending' = PrunedPending(pending, clock)
    /\ finalizedExpiry' = PrunedFinalized(finalizedExpiry, clock)
    /\ cache' = pending'
    /\ UNCHANGED <<aroundVars, inbox, proposerMode, postponed, nextFinalized, finalizationQueue,
                   requestQueue, answers>>
-----------------------------------------------------------------------------
(* The node around the component.  Nothing happens within an event. *)

Between == proposerMode # "replaying"
componentVars == <<proposerMode, postponed, setsVars, requestQueue, cache, answers>>

Tick ==
    /\ Between
    /\ clock < MaxTime
    /\ clock' = clock + 1
    /\ UNCHANGED <<lastFinalized, nextHeight, storedHeight, accepted, inbox, requested, starts,
                   componentVars>>

\* Consensus finalizes a block; the next era needs the executed switch block.
FinalizeBlock ==
    LET h == lastFinalized + 1
    IN  /\ Between
        /\ h \in BlockHeights
        /\ BlockTime[h] <= clock
        /\ h > EraStart => storedHeight >= EraStart
        /\ lastFinalized' = h
        /\ nextHeight' = MaxOf(nextHeight, h + 1)
        /\ inbox' = inbox \cup {[kind |-> "finalized", height |-> h]}
        /\ UNCHANGED <<clock, storedHeight, accepted, requested, starts, componentVars>>

\* The next block has been executed and stored.
BlockStored ==
    /\ Between
    /\ storedHeight < lastFinalized
    /\ storedHeight' = storedHeight + 1
    /\ UNCHANGED <<clock, lastFinalized, nextHeight, accepted, inbox, requested, starts,
                   componentVars>>

\* The deploy acceptor has taken a deploy: it announces it when it is new to
\* storage, so that it comes once.
DeployAccepted(d) ==
    /\ Between
    /\ d \notin accepted
    /\ Created[d] <= clock
    /\ ~ Expired(d, clock)
    /\ accepted' = accepted \cup {d}
    /\ inbox' = inbox \cup {[kind |-> "deploy", deploy |-> d]}
    /\ UNCHANGED <<clock, lastFinalized, nextHeight, storedHeight, requested, starts,
                   componentVars>>

\* Consensus asks for the payload of a block on top of parent.
RequestPayload(parent) ==
    /\ Between
    /\ requested < MaxRequests
    /\ parent >= lastFinalized
    /\ parent >= EraStart => storedHeight >= EraStart
    /\ requested' = requested + 1
    /\ inbox' = inbox \cup
          {[kind |-> "request",
            request |-> [id |-> requested + 1, parent |-> parent, timestamp |-> clock,
                         next |-> nextHeight]]}
    /\ UNCHANGED <<clock, lastFinalized, nextHeight, storedHeight, accepted, starts, componentVars>>

\* The node stops and starts again with what is in storage.
RestartNode ==
    /\ starts < MaxStarts
    /\ starts' = starts + 1
    /\ lastFinalized' = IF storedHeight >= EraStart THEN EraStart ELSE 0
    /\ nextHeight' = storedHeight + 1
    /\ inbox' = {}
    /\ proposerMode' = "initializing"
    /\ postponed' = <<>>
    /\ nextFinalized' = storedHeight + 1
    /\ finalizationQueue' = {}
    /\ pending' = NoDeploys
    /\ finalizedExpiry' = NoDeploys
    /\ requestQueue' = {}
    /\ UNCHANGED <<clock, storedHeight, accepted, requested, cache, answers>>
-----------------------------------------------------------------------------
EventHandled == Loaded \/ Replay \/ \E event \in inbox : Postpone(event) \/ Receive(event)

ProposerNext ==
    \/ EventHandled
    \/ Prune
    \/ Tick
    \/ FinalizeBlock
    \/ BlockStored
    \/ \E d \in Deploys : DeployAccepted(d)
    \/ \E parent \in 0 .. Len(Payload) : RequestPayload(parent)
    \/ RestartNode

ProposerSpec == ProposerInit /\ [][ProposerNext]_proposerVars

\* The reactor handles every event in the end, and storage answers.
ProposerFairness ==
    /\ WF_proposerVars(Loaded)
    /\ WF_proposerVars(Replay)
    /\ WF_proposerVars(\E event \in inbox : Receive(event))

FairProposerSpec == ProposerSpec /\ ProposerFairness
-----------------------------------------------------------------------------
Requests == [id : 1 .. MaxRequests, parent : 0 .. Len(Payload), timestamp : Times,
             next : 1 .. Len(Payload) + 1]
Events ==
    [kind : {"finalized"}, height : BlockHeights] \cup [kind : {"deploy"}, deploy : Deploys]
        \cup [kind : {"request"}, request : Requests]

ProposerTypeOK ==
    /\ clock \in Times
    /\ lastFinalized \in 0 .. Len(Payload)
    /\ nextHeight \in 1 .. Len(Payload) + 1
    /\ storedHeight \in 0 .. Len(Payload)
    /\ accepted \subseteq Deploys
    /\ inbox \subseteq Events
    /\ requested \in 0 .. MaxRequests
    /\ proposerMode \in {"initializing", "replaying", "ready"}
    /\ \A i \in 1 .. Len(postponed) : postponed[i] \in Events
    /\ nextFinalized \in 1 .. Len(Payload) + 1
    /\ finalizationQueue \subseteq BlockHeights
    /\ pending \in [Deploys -> Times \cup {Absent}]
    /\ finalizedExpiry \in [Deploys -> (0 .. MaxTime + MaxTtl) \cup {Absent}]
    /\ requestQueue \subseteq Requests
    /\ cache \in [Deploys -> Times \cup {Absent}]
    /\ starts \in 0 .. MaxStarts

\* A payload never repeats a deploy of the chain it is proposed for, in the
\* current era or an earlier one, strictly before the instant at which the deploy
\* expires: not when finalized blocks arrive late, out of order or before the
\* state is loaded, and not after a restart with an old snapshot.  At the very
\* instant it may, see NoReplayUntilExpired.
NoReplay ==
    \A answer \in answers : \A d \in answer.deploys :
        answer.at < Expires[d] => \A h \in 1 .. answer.parent : d \notin DeploysOf(h)

\* The same until the deploy has expired, that is, including the instant
\* Expires[d], when it is still valid.  The code does not have this property:
\* get_finalized_blocks, "blocks that could still have deploys whose TTL hasn't
\* expired yet", leaves out a block that is exactly MaxTtl old (storage.rs:1479).
NoReplayUntilExpired ==
    \A answer \in answers : \A d \in answer.deploys :
        ~ Expired(d, answer.at) => \A h \in 1 .. answer.parent : d \notin DeploysOf(h)

\* Nothing that could be handled is left waiting: the queued blocks lie above
\* the gap, the queued requests wait for a block that has not been handled,
\* and a buffered deploy is not one of those known to be finalized.
NothingOverdue ==
    /\ \A h \in finalizationQueue : h > nextFinalized
    /\ \A r \in requestQueue : r.next > nextFinalized
    /\ \A d \in Deploys : pending[d] = Absent \/ finalizedExpiry[d] = Absent

\* An accepted deploy is not lost while the node runs: it is on its way, can be
\* proposed, is known to be finalized, or has expired; and nothing in the sets
\* or queues is overdue (handle_event, BlockProposerReady).
DeploysAreKept ==
    /\ ProposerTypeOK
    /\ NothingOverdue
    /\ starts = 0 =>
           \A d \in accepted :
               \/ [kind |-> "deploy", deploy |-> d] \in inbox
               \/ \E i \in 1 .. Len(postponed) :
                      postponed[i] = [kind |-> "deploy", deploy |-> d]
               \/ pending[d] # Absent
               \/ finalizedExpiry[d] # Absent
               \/ Expired(d, clock)

\* Consensus gets an answer to every request, unless the node stops: no request
\* stays in a queue that nobody looks into again.
RequestsAnswered ==
    \A id \in 1 .. MaxRequests, n \in 0 .. MaxStarts :
        (starts = n /\ \E event \in inbox : event.kind = "request" /\ event.request.id = id)
            ~> (starts # n \/ \E answer \in answers : answer.id = id)
=============================================================================
