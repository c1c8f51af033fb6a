# A TLA+ verification of casper-node

casper-node is the node software of a proof-of-stake blockchain. Validators agree
on blocks with the Highway consensus protocol, execute them and sign them; the
node gossips deploys and blocks, fetches what it misses, and stops for an upgrade
when the last block before it has been signed.

This directory holds TLA+ models of the parts of the node where concurrency and
the order of messages decide whether it is right, TLC configurations that check
them on small instances, and TLAPS proofs for every value of the constants. Paths
are relative to the repository; `C/` abbreviates `node/src/components/`.

To check a run: `tlc -config MCGossiper_deploys.cfg MCGossiper`. To check proofs:
`tlapm GossiperProofs.tla`.

## 1. Inventory

### How the node runs

A node is a *reactor*: one event loop that hands one event at a time to a
component (`node/src/reactor.rs`). A handler runs to its end, changes the
component's own state and returns *effects*: asynchronous tasks that may wait for
other components or the network and end in further events, in any order. Inside a
component there is thus no data race, but everything read before an effect can be
stale when its answer is handled. That is where the hazards are, and it is what
the models have in common: **a handler is one atomic action; an effect is a piece
of state that finishes at any later moment.**

### Components

| Component | State | Operations | Talks to | Why it is hard | What makes it correct |
|---|---|---|---|---|---|
| Gossiper (`C/gossiper`) | table of current and finished items, with holders, infected peers and in-flight counts; timeouts | item received, gossip, response, gossiped-to, two timers, fetch result, purge | network, storage or acceptor | late, lost and repeated responses; timers that fire after the state changed | never above the infection target; nothing is forgotten or stuck; one announcement per end |
| Highway state (`C/consensus/highway_core`) | units, blocks, panorama, faults, pings | add unit, evidence, ping, mark faulty, drop all but evidence | synchronizer, finality detector | units of equivocators in any order; data computed once and used for ever | every equivocation found, nobody else accused, what was valid stays valid |
| Fork choice (`state/tallies.rs`, `block.rs`) | none (skip lists in the blocks) | fork choice, find ancestor | Highway state | a shortcut over several levels, ties, skip lists | equals the GHOST rule |
| Finality detector | last finalized block | run | Highway state | summits over horizons, quorum with rounding | finalized blocks are a chain and stay in the fork choice |
| Highway protocol handlers (`C/consensus/protocols/highway.rs`) | pending proposals, evidence-only flag | vertices, resolved validity, faults, deactivation | era supervisor, block validator | a proposal waits while the state changes | a proposal stays valid while it waits |
| Highway synchronizer | vertices waiting for time, for a dependency, for addition | schedule, add, purge, request | peers | dependency chains, purges | no vertex lost or waiting for what nobody requests |
| Active validator | next timer, own last unit, unit file | timers, proposals, confirmation units | Highway state, disk | crash between two writes or before a send | no equivocation after a restart |
| Era supervisor | eras, next height | create, activate, deactivate eras, route messages | Highway, contract runtime | blocks of several eras at once | only evidence-relevant eras are kept; finalized blocks in order |
| Linear chain (`C/linear_chain`) | latest block, key blocks, pending signatures, signature cache | finality signature, put block, new block, upgrade point | storage, contract runtime, consensus | each signature is a flow of three awaits; the block arrives meanwhile | no signature lost, none stored that should not be, stop for the upgrade exactly when signed |
| Block validator (`C/block_validator`) | validation states by block, fetch counters | request, deploy found, missing, not convertible | fetcher, consensus | blocks share deploys and fetches | every request answered, "valid" only for valid blocks |
| Fetcher | responders by item and peer | fetch, got locally, got remotely, timeout, rejection | storage, network | timeouts race answers | every responder answered once |
| Block proposer | pending and finalized deploys, queues | buffer, finalized block, request, prune | storage, consensus | events before the state is loaded, blocks out of order | no deploy proposed twice |
| Contract runtime | execution pre-state, execution queue | enqueue, execute | execution engine, storage | a queue shared with running executions | every finalized block executed once, in order |
| Small network | outgoing state per address, routes, symmetry | dial outcomes, drops, blocks, sweeps | peers | late dial outcomes, two addresses of one peer | routes match connections |
| Storage | LMDB, disjoint sequences of complete heights | reads, writes, merges | all | merge of signatures, crash | nothing stored is lost |

`PROJECT.json` also lists what carries no concurrent state of its own: the deploy
acceptor, chainspec loader, servers, types, and the execution engine.

The interactions that the models cross: gossip and fetches (Gossiper); vertices from
peers through the synchronizer's queues and the block validator to the protocol state
(Synchronizer), and from there to finality (HighwayProtocol); a validator's units, its
file, its peers and the block proposer's answers (ActiveValidator); finalized blocks from
consensus through execution to storage (BlockExecution); finalized blocks, deploys and
requests in the block proposer (BlockProposer); blocks and signatures through storage
(LinearChain); a block to be validated, the fetcher, storage and the deploy acceptor
(DeployValidation); dials, connections and the reports about them (SmallNetwork).

## 2. Plan

The order follows the damage a mistake does: agreement first, then what is executed,
stored and signed, then liveness of the helpers.

*Done.* Gossiper; BlockTree, ForkChoiceVotes, HighwayState, FinalityDetector,
HighwayProtocol; LinearChain; BlockValidator, and its composition with Fetcher as
DeployValidation; SmallNetwork; DisjointSequences and BlockExecution, with the abstract
specification ExecutedChain; BlockProposer; RoundSuccessMeter and ActiveValidator;
Synchronizer.

Proofs: GossiperProofs, HighwayProtocolProofs, BlockValidatorProofs (with DeployValidation),
SmallNetworkProofs, BlockExecutionProofs (with the refinement, and BlockProposer), ActiveValidatorProofs,
LinearChainProofs, SynchronizerProofs. HighwayProtocolProofs covers the whole of consensus: the
protocol state, the fork choice with ForkChoiceVotes, and finality. Every invariant that a run
checks is a theorem; the temporal properties under fairness are not.

*Left.*

1. *EraSupervisor*: creation, activation and obsolescence of eras and the routing of
   messages by era, in front of HighwayProtocol.
2. Composition of ActiveValidator with HighwayProtocol, so that `HonestNotAccused` rests
   on `NoEquivocation` instead of the assumption `FollowsProtocol`.

## 3. The models

### Gossiper

| Model | Code |
|---|---|
| `current`, `finished`, `timeouts` | `GossipTable` |
| `State`, `Action`, `AfterAction` | `gossip_table.rs`: `State`, `State::action` |
| `HandleItemReceived` … `GetFromHolderResult` | one per `Event` of `gossiper.rs` |
| `gossipedTo`, `gossipTimers`, `getTimers`, `holderResults` | scheduled events, with multiplicity |
| `responses` | counts the responses; nothing ties one to a message that was sent |

Abstracted: durations (a timer fires at any moment after it was set; a purge drops
any prefix of the deadlines, which the code keeps sorted); the set of connected
peers (the network picks any peers outside the exclusion set). A response may come from
any peer at any time: late, repeated, unsolicited or never. `MaxArrivals` and `MaxResponses`
bound how often items, gossip messages and responses arrive. `ConfigAssumption` excludes the
one degenerate configuration with a holders limit of 1 (`gossip_table.rs:206`), in which an
entry with a holder counts as finished when it is made, and stays.
`InFlightBound` is about the counter `in_flight_count` that `State::action` reads. The messages
really outstanding may be more: a peer's timeout and its late response both reduce the counter.

### Highway

`BlockTree` has the skip lists, tallies and the fork choice as pure operators;
`ForkChoiceVotes` is a state machine that builds every small tree with every vote
to compare them with GHOST. `HighwayState` adds units, panoramas, the validation of
wire units (`pre_validate_unit`, `validate_unit`) and the updates of the state.
`FinalityDetector` has horizons, committees, summits and quorums. `HighwayProtocol`
composes them with the handlers:

| Action | Code |
|---|---|
| `AddVertex`, `AwaitValidity`, `ResolveValidity` | add of a unit; a proposal that first waits for `resolve_validity` |
| `AddEvidenceVertex`, `AddPingVertex` | evidence and pings |
| `MarkValidatorFaulty`, `SetEvidenceOnly` | `mark_faulty`, `set_evidence_only` |

Each handler ends with `DetectFinality`, as in the code. Peers send whatever passes
validation: the inputs of `Next` are *all* well-formed wire units with the
dependencies present. Validators outside `Equivocators` cite their own latest unit
(`FollowsProtocol`), which is what the active validator does.

Abstracted: a hash is the pair of creator and counter, ordered by `HashRank`; the
value of a proposal is not represented; the pseudo-random leader sequence is a
constant function (`Draw`, `Redraw`); the search for a summit starts at `TopLevel`
rather than at 63, from which on the rounded quorum is constant
(`TopLevelAssumption`); a horizon is a number for its members and `None` for the others
(`HorizonAssumption`). Endorsements are collected by the code but nothing reads
them while `ENABLE_ENDORSEMENTS` is false; a fault tolerance that is exceeded has no
effect on the state. Bounds: `MaxUnits`, `MaxTime`, `PingTimes`, `MaxPending`.

Two assumptions of the fork choice (`ChoiceAssumption`, and `VotesAssumption` of
ForkChoiceVotes) are about data that comes from elsewhere. Hashes are totally ordered, which
is how the code breaks ties. And every validator has a positive weight. `State::new` asserts
only that the total is positive (`state.rs:222`); the winners of an auction have a stake, but
the division at `protocols/highway.rs:115`, which has an effect once the stakes together
exceed 64 bits, could make a very small one zero. If only votes of weight zero were left,
`find_decided` would return the same block again and the loop of `fork_choice` would not end.

### Active validator and round success meter

One validator over several runs of its node. `memory` is what a stop erases; the unit
file, the units ever signed and what the peers have survive.

| Action | Code |
|---|---|
| `Activate` | `HighwayProtocol::new_boxed` and `ActiveValidator::new`: the meter of the previous era goes on (`next_era`), or starts anew after a restart; the unit file is read |
| `RequestNewBlock`, `LeaderGivesUp`, `WitnessUnit`, `TimerPings` | `handle_timer` with its outcomes; the timer carries its timestamp and may be late |
| `Propose` | `propose`, with the context that was fixed at the request |
| `AddProposal`, `AddOtherUnit` | `on_new_unit` with the confirmation unit; `add_own_last_unit` |
| `ReceiveOwnUnit`, `ReceiveOwnPing` | own units and pings that come back: `is_doppelganger_vertex` |
| `StopNode`, `StopWhileSigning` | the node stops, also between the two steps of `write_last_unit` and before the unit is sent |

`Measured` is `calculate_new_exponent`; whether a round succeeded is an input. `NextEra` is
`next_era`: an era begins with any exponent and record the previous one may have left, and the
exponent used is always `new_exponent` of the record. The field `asked` of a unit is history: the
exponent for which a block was requested. `SignedUnitsAreValid` covers the checks of
`pre_validate_unit` and `validate_unit` on exponents, citations, numbers and the units of a round;
that a block starts its round holds only while the exponent does not grow between request and
signature (finding 1). Proposals
of other leaders are named by their timestamps; whether enough validators are online is
left open. A unit file that was created and not written ends the validator (`stopped`), as
the `panic!` of `ActiveValidator::new` does; a unit or ping of its own that it did not sign
makes it an `observer`.

### Synchronizer

`noDeps`, `awaiting` and `later` are the three collections of pending vertices,
`requestsSent` and `pendingValues` those of the names in the code. `StartAdding` and
`AddVertex` are `HighwayProtocol::add_vertex` with the loop of
`Synchronizer::pop_vertex_to_add` (which entry the hash map yields is open); `Gossip` and `Answer` are messages of peers with their pre-validation and
dependency handling; `ValueValid` and `ValueInvalid` the answers of the block validator;
`FutureTimer`, `Purge`, `SetEvidenceOnly` the timers and the end of the era, which clears the
protocol state too. A vertex from the future is stored or, if it is too far ahead, dropped. The vertices
and what each peer has are constants. A dependency is named by its hash, so dependencies
have no circles (`HashAssumption`); correct peers send only what is valid and have what
they send, with all its dependencies. The loops that follow dependencies
(`find_transitive_dependency`) and dependents (`invalid_vertices`) are smallest closed sets
(`Reached`, `Chain`).

### Linear chain

A signature goes through `LoadSignatures` → `GetStoredFinalitySignaturesResult` →
`VerifyIfBonded` → `StoreBlockSignatures`, each an element of `effects` that
finishes at any moment; blocks through `StoreBlock` → `PutBlockResult`. So all
interleavings of the flows with each other and with the block are covered.
`Restart` drops everything that is in memory and goes on with what is in storage.
The answer to "is the signer bonded" may be that the era's validators are not found
(`IsBonded`). Abstracted: blocks are their heights; only signatures that verify
cryptographically arrive. Bounds: `SignedBlocks`, `ClaimedEras`, `MaxRestarts`.

### Block execution

The way of a finalized block: `RequestStep` is the era supervisor's
`execute_finalized_block` (is it stored, collect the deploys, enqueue); `EnqueueStep` and
`InsertInQueue` the contract runtime's handler, two steps because it takes two locks;
`TaskStep` the future that clones the pre-state, executes, announces, has the height
marked and looks for the next block; `StoreStep` the linear chain's future; `MarkCompleted`
storage. Each step lies between two awaits; the reactor's queue is first in first out and
handles one event at a time. `Restart` may happen at any step, also of the joining reactor,
whose steps are `SyncHeader` (a header is stored), `SyncState` (the global state of the
highest block is fetched, unless the block was available on the start), then for every further
block `SyncBlock` (it is stored), `SyncExecute` and `SyncMark`, and `Participate`. `states` are
the blocks whose global state is in the trie store: an execution whose parent state is missing
stops the node just as one at the wrong height. The pre-state is the sequence of executed
heights. `DisjointSequences` has the vectors of completed heights with `Insert` and `Truncate`
as in the code; `written` is the copy in the state store, which a restart reads.

`ExecutedChain` is what this promises: a chain that is executed one block after the other on
states the node has; sets of durable blocks, states and complete blocks; a participant makes
only executed blocks durable, a joining node fetches blocks first and takes part when the chain
has caught up. BlockExecution implements it with `chain <- preState`,
`joining <- (mode # "participating")`, `durable <- stored`, `complete <- Heights(completed)`,
`recorded <- Heights(written)`.

### Block proposer

Every event of the component in its two states: `Postpone` while the snapshot is loaded,
`Loaded`, `Replay` of what was postponed, then `Receive`. Finalized blocks, accepted deploys
and requests arrive in any order (`inbox`); storage is behind consensus; a restart loads
the last snapshot and has consensus finalize the era again. A payload takes any fitting
deploys, since the code iterates over hash maps; gas, sizes and approvals are left out.

The chain that consensus finalizes is a constant. What BlockProposer assumes of it is what
consensus has checked before it finalizes a block: a deploy is valid at the time of its block
and lives no longer than the longest time to live (`DeploysInTime`, `ValidChain`), no deploy
is in two blocks (`era_supervisor.rs`: the check against the ancestors of the proposal, and
the one against earlier eras), and the times of blocks do not decrease.

### Block validator and fetcher

| Model | Code |
|---|---|
| `states` | `validation_states` |
| `inFlight`, `EndFetch` | `in_flight`, `KeyedCounter` |
| `AnswerRequest`, `JoinRequest`, `StartRequest` | the three outcomes of `Event::Request` |
| `DeployFound`, `CannotConvertDeploy` | the events of these names |
| `IgnoreMissing`, `GiveUpMissing`, `RetryMissing` | the three outcomes of `Event::DeployMissing` |
| `Fits` | `AppendableBlock::add_deploy`, `add_transfer` |
| Fetcher: `responders`, `timers` | `responders`, the pending `TimeoutPeer` events |
| Fetcher: `FoundInStorage`, `NotInStorage`, `AskPeer`, `CannotAskPeer` | the storage lookup, and its result as an event of its own |
| Fetcher: `GotRemotely`, `GotFromClient`, `AbsentRemotely`, `TimeoutPeer` | announcements, rejections and timeouts |
| Fetcher: `PutDeploy` | the deploy acceptor, as far as the fetcher hears of it |

`fetches` is the number of fetch tasks under way, which the code does not keep, and
`requests` and `asked` record the past for the properties. In BlockValidator alone, on which
the proofs are, a fetch ends at any moment with any outcome. DeployValidation replaces that
assumption by the fetcher: each fetch is a lookup, an event, a responder or an answer. The
order in which `retain` visits the blocks is that of a `HashMap`: `RetryMissing` takes any
block with a source as the first one, and any blocks without a source before it. The limits
of a block are represented by the counts of deploys and transfers; those on gas, size and
approvals accumulate in the same way. `MaxRequests` bounds the requests.

### Small network

`outgoing`, `routes` and `symmetries` are the maps of the code. `dials`, `senders` and
`readers` are the tasks whose ends are still to be reported: a dial ends once, whatever has
become of its address, or hangs for ever (`tls_connect` has no timeout), and a sender's end may be reported while a later connection to the
address is in use. Each event of `small_network.rs` that concerns connections is an action,
with the outgoing manager's part and the symmetry's in one step; `SweepOutgoing` treats any
set of addresses as due. Bounds: `Conns`, and `MaxDials`, the dials of one address that may
still end; any further ones hang.

## 4. What is checked

| Run | Instance | States | Shows |
|---|---|---|---|
| `gossip_deploys` | 1 item, 3 peers, target 2, holders limit 3, 2 arrivals, 3 responses, timers fair | 410 179 | the table's invariants; a held item stays held; a fetch of a partial item always ends |
| `fork_choice` | all trees of 4 blocks, 3 validators, weights 3, 2, 2 | 20 240 | tally algorithm and skip lists = GHOST along the parents; a voter who joins the choice keeps it |
| `highway_state` | 3 validators (one banned, one equivocator), 3 units, 1 pending proposal, ping, 2 round lengths | 61 492 | equivocations are found, honest validators are not accused, validity is permanent |
| `highway_finality` | 3 validators of weight 2, 2, 1, the last equivocates, 5 units, threshold 2 | 31 614 | finalized blocks form a chain and stay chosen; the panorama leads to every unit |
| `synchronizer` | 5 vertices with chains of dependencies, a correct and a faulty peer, 1 lost answer or failed download | 71 259 | the queues are served, the state is closed, correct peers stay connected, what they send gets in |
| `active_validator` | rounds of length 2 and 4, 3 leaders' rounds, 2 stops, any meter from the previous era | 369 036 | no equivocation, no false alarm about a doppelganger, valid units, and voting again after a restart |
| `active_validator_round` | the same without stops | violation | finding 1 |
| `linear_chain_signatures` | 2 blocks in 2 eras, 2 keys, one of them bonded only later, signatures that claim either era, an upgrade, a restart | 1 716 869 | signatures are checked once, not lost, only from validators of the era they claim; a stop is signed |
| `block_execution` | 3 blocks, 2 restarts | 113 507 | implements ExecutedChain; a block never meets the wrong pre-state or a missing state; every finalized block is executed, stored and completed |
| `block_proposer` | 2 deploys, one depending on the other, 2 blocks in 2 eras, 1 request, 1 restart | 287 223 | no payload repeats a deploy before its expiry instant, no accepted deploy is lost, every request is answered |
| `deploy_validation` | 2 requests by 2 peers for 4 blocks that share 2 deploys, one of them listed with two kinds | 301 412 | no fetch lost or answered twice; counters; no stranded block and every request answered, but for a hash with two kinds; only valid blocks called so |
| `network` | 2 addresses, 2 peers, 2 connections, 2 overlapping dials, and more that hang | 27 580 | the routing table and the symmetries are true; known addresses are never given up |

A module's type invariant is the first conjunct of one of the invariants above
(`ForkChoiceIsGhost`, `QueueIsServed`, `SignedUnitsAreValid`, `OneFlowPerSignature`,
`ExecutedInTurn`, `DeploysAreKept`, `FetchesAreServed`, `OutgoingIsTrue`); those of Gossiper,
HighwayProtocol and BlockValidator are theorems of their own (section 5).

*Why the bounds are enough.* The gossip table handles items independently apart
from the purge list. Three peers and a holders limit of 3 give a partial entry a second
holder to fall back on, a holder that is also being gossiped to, and both ways of finishing;
two arrivals let an item finish, be purged and come again; three responses are one in time,
one late and one repeated. For fork choice, four blocks is the least
size with two branches of two blocks, where levels decided together differ from
levels decided one by one. A summit needs two units of each of two validators,
five units leave one for the equivocation. Three units with one waiting proposal
give the equivocator two conflicting units and someone who cites either. The vertices of
`synchronizer` have a dependency that both peers can supply, a proposal in validation, an
invalid vertex that takes a dependent one along, one that is not well formed and one from
the future. The clock of `active_validator` covers one and a half of the longer rounds, so
that the exponent changes and a third unit could fall into a round; two stops can leave a
unit that only the file knows and strike again while the validator catches up. Two blocks
at the end of different eras make the signature cache change its era; one restart can fall
into every gap. Three blocks let one be executed, one be due and one be queued at once,
and completed heights close a gap. In `block_proposer` the first block ends its era, so the
contexts of requests do not show it, and its deploy can only be known from finalized blocks
or the snapshot. In `deploy_validation` two blocks share a deploy, two list a hash
with different kinds, and two requests meet in one block or in two. Two connections to one address, of which the older is reported as
dropped when the newer is in use, are the case `network` is about.

All runs say CHECK_DEADLOCK FALSE except `fork_choice`, `synchronizer` and `network`: the
bounded inputs run out, and a component that has nothing to do stops.

*Fairness.* It is assumed of what the node itself completes, never of peers except where a
property is about correct ones.

- Gossiper: weak fairness of `GossipedTo` and of the timers. They are effects of the reactor
  (`set_timeout`); peers and fetches may never answer.
- DeployValidation: weak fairness of handling events and of the fetcher's timers. No peer
  need ever send a deploy or say that it has none.
- BlockExecution: every future is polled and every event handled. Nothing makes consensus
  finalize, the node restart, or a peer send what a joining node asks for.
- BlockProposer: the snapshot is loaded, and events that arrived are handled.
- SmallNetwork: every known address is due at some later sweep. Dials may hang: only the
  handshake messages have a timeout, connecting and TLS have none (`tasks.rs:92-111`).
- ActiveValidator: the node is started again and what the peers *have* reaches it; that they
  have what the last unit cites is a premise of `VotesAgain`.
- Synchronizer: queued actions are executed, the timers fire, the block validator decides,
  and correct peers repeat their latest state (a timer of theirs) and answer. It is strong
  fairness, because an event is enabled only between two calls of `add_vertex`, and because
  the hash map does not pass over the same entry for ever; lost answers are bounded by
  `MaxFaults`.

*Mutants.* Next to a definition `X` there may be an `XMutant`, a plausible mistake in
the code that `X` models. With it in place of `X`, the property that `PROJECT.json`
names for it fails; the models themselves do not use it.

## 5. What is proved

For all values of the constants that satisfy the named assumptions; nothing else is
assumed.

**GossiperProofs** (`ConfigAssumption`, `PeersAssumption`). The properties are not
inductive one by one: an entry stays below its limits only because its in-flight
count is bounded, a partial entry has a timer only because its holders are peers
whose timers were set, and the list of deadlines has no duplicates only because
nothing finished is current. `IInv` (`TableOK` and the types of the pending events)
joins them; there is one lemma for each operation of the table and one for each
event. The action property `HeldUntilFinished` is proved operation by operation as well:
the one that could lose a held item, the check of a fetch's timer, removes an entry only if
it is partial. Results: `GossiperTyped`, `FinishedOnce`, `FinishedLeaves`,
`NeverOverTarget`, `SourceForPartial`, `TimerForPartial`, `HeldItemsStay`.

**HighwayProtocolProofs** (`StateAssumption`, `ObservationAssumption`, `ProtocolAssumption`;
from the fork choice on also `ChoiceAssumption` and `VotesAssumption`, and for finality
`TopLevelAssumption` and `HorizonAssumption`). *The faults.* That two
units with the same sequence number lead to a fault follows from `Latest`: the
observed unit of a validator that is not known to be faulty has the highest number
and all numbers are unique. That no honest validator is accused needs the pending
proposals as well (`PendingInv`): one that waits still cites the observed unit of
its creator when it is added. Results: `ObservationsKnown` (types: no handler looks
up a unit that is gone), `FaultsAgree`, `EquivocationsFound`, `HonestSafe`,
`EvidenceSafe`.

*The skip lists.* The search along them is right, for chains of any length.
Entry `i` of a list is `2^(i-1)` places back and there are as many as the number has trailing
zeros, and one more (`Skips`). That is so of the list `Unit::new` builds from older ones, since
the unit it looks at has a list that is long enough (`ZerosBelow`, `SkipListOK`); and the
search never passes the number it looks for (`HopOK`), so that it ends at the only unit with
it (`BackFinds`). Both are recursive functions, as is the power of two. That the function
exists is shown for the numbers up to `n` and then for all (`DoublesExist`, `EntriesExist`,
`FindsExist`, each by the lemma `AllNumbers`). With the invariant `Swimlanes`, that lists stay
among the units of one creator, the result is `LatestReached`.

*The fork choice.* In a tree of blocks (`IsTree`) each block ends a line (`Line`), along which
`find_ancestor_proposal` leads to the one block at every lower height; `TreeGrows` says that
`Block::new` keeps this. A tally that is carried down to a height has, for each block there, the
votes for it and all its descendants (`TallyBelow`, `CumulativeIs`; the votes of a block are its
own and those of its children, `VotesOfChildren`). A block with more than half of the votes at
its height leads at every height up to its own (`MajorityLeads`), so that the levels `find_decided`
skips are decided as they would be one by one (`DecidedOK`). Each turn of the loop either ends it
or gets higher in a finite tree (`TurnOK`, `ClimbEnds`), which is where the positive weights are
needed: what remains has votes. What comes out is a block whose whole line leads and above which
nobody voted (`IsChoice`), and there is only one such block (`OneChoice`). GHOST reaches one as
well (`GhostIs`), and so does the fork choice after a vote for it (`JoiningIs`). Results:
`ForkChoiceSafe`, `JoiningSafe`.

*Validity.* Since a choice is determined by lines and votes, it does not change when the tree
grows (`ChoiceStays`, `PanoramaChoiceStays`), nor does what a search in a swimlane finds
(`BackStays`). So each check of `validate_unit` gives the same answer later (`ValidStays`), which
makes `ValidInv` inductive. Result: `ValidityStays`.

*Finality.* There are two halves: a summit is safe, and the detector finds summits only.
`Summit(U, B, b, s)` states, without the detector, what a summit `s` for the block `b` is:
committees, each within the one below, first units of each level, from which on the members
of level 0 vote for `b`, and in each of which a member has seen a quorum of the level below.
`World` is what is needed of the state: units continue the swimlanes of their creators, cite
nothing later, have seen what the units they cite have seen (from `Panorama::validate`), and vote
for a block that continues the fork choice of their panorama (`LaneInv`, `WorldIs`).
A member of level `j` that later deserts `b` has seen validators *exposed*: known to be faulty, or
seen with a unit that conflicts with what the summit saw of them (`Exposed`). Two quorums
overlap in `Overlap` = 2q - total weight, and a deserter of level `j` has seen at least
`Overlap * (1 - 2^-j)` of weight exposed (`Price`, `DesertersPay`): the fork
choice of a unit leaves `b` only if twice the weight of the members of a quorum that it has seen
desert, and the weight it knows to be faulty, make up the overlap (`NotChosen`). Whom a deserter
of level `j` has seen desert is a deserter of level `j - 1`, earlier in the order of citations
(`Ordered`), and has paid already (`PaidStep`). That is the recursion behind the code's
comment "A level-lvl summit with quorum total_w/2 + t has relative FTT 2t(1 - 1/2^lvl)".
So if the fork choice of the node left the summit's block, the faults it knows of would weigh as
much as the threshold (`SummitChosen`; the panorama has the ends of all swimlanes, `TopsAre`).
The second half follows the detector: `OldestOfStreak` climbs a swimlane to the first unit of
a streak (`StreakIs`), `prune_committee` ends with a committee that sees a quorum of itself
(`PruneIs`), horizons rise with the level (`HorizonsRise`), the quorum is rounded up
(`RoundedUp`, `QuorumIs`), and so a candidate that is accepted has a summit (`HasSummitIs`).
`RunIs` shows that the loop of `run` ends and yields children, one after the other, each with a
summit; the candidate is a child of the last finalized block because `SummitChosen` has that one
in the fork choice. A summit remains one while the state grows (`SummitStays`), which makes
`FinalInv` inductive: the finalized blocks are a chain and the last has a summit. Result:
`FinalitySafe`.

**BlockValidatorProofs** (`BlocksAssumption`, `NoStateAssumption`, `PeersAssumption`). Types and
counters (`Counted`) support each other, since a counter is a natural number only
as it is at least the number of fetches that can end. `WaitingIsRegistered` is
inductive with them; all events that drop blocks share the lemma
`DropsKeepRegistered`. For `YesIsValid` the invariant `AllProgress` says that the
deploys of a block are missing or were added and fit so far. `MissingIsFetched`
further needs that only deploys are fetched that a block somebody asked about lists
(`FetchesListed`): `in_flight` is kept by deploy hash, the missing deploys by hash and kind,
so as long as a hash was listed with one kind, its other fetches are for the same deploy.
The property has to except a hash that was listed with both (`TwoKinds`): there the code
does strand a block (finding 10). Results: `ValidatorTyped`, `FetchesCounted`,
`NobodyForgotten`, `OnlyValidBlocks`, `NeverStranded`.

The same module is about DeployValidation. `FetcherServesValidator` proves that the
composition implements BlockValidator with the identity as its mapping: each step of the
fetcher is a fetch that ends, or nothing that the validator sees. So the theorems above hold
of the composition (`NodeIsCorrect`, `NodeNeverStrands`). `FetchesServed` is the other
direction, `FetchesAreServed`: the fetches the validator waits for are exactly the lookups,
storage results, responders and answers in the fetcher, summed over a finite set of peers
(`PeersAssumption`). Its part about timers, `EveryoneTimed`, keeps a fetch from waiting for
ever: as many timers are pending for an item and a peer as there are responders, though an
answer takes all responders and leaves the timers, and a timer takes whichever responder is
first. The other part, `Served`, needs what a sum is: `SumFunction` is a fold, a choice of a
function that satisfies an equation. `FoldExists` and `FoldUnique` show, by the least size of a
set for which they might fail, that there is one such function; then sums add up
(`SumOfSums`), and a change at one peer changes the sum by as much (`OneMore`). Responders
are counted from both ends of their sequence, since requests join at the end and a timeout
takes the first (`CountAppend`, `CountTail`).

**LinearChainProofs** (`LinearChainAssumption`, `SignerAssumption`, `WeightAssumption`). The
invariant follows a signature from one effect to the next. A pending signature has exactly one
flow (`FlowsOK`); what the cache has and what was announced is stored or on its way
(`CacheOK`, `AnnouncedOK`, with `PersistedIn`); the signatures an effect carries are bounded by
that (`EffectsOK`). A merge in storage keeps what was there, so storing two sets that were read
before each other's write loses nothing, and whatever is known, cached, on its way or stored is
from a validator of the era it claims (`ByValidators`). Results: `CheckedOnce`,
`NoSignatureIsLost`, `OnlyValidatorsAreStored` and `UpgradeHasQuorum`, whatever eras peers
claim. What a false claim does break is `StoredEraMatches` (finding 4).

**BlockExecutionProofs** (`HeightAssumption`, `RestartAssumption`, `NoneAssumption`). The first
half is about the vectors of DisjointSequences: `Insert` and `Truncate` keep them ordered and
apart, add one height and remove those above a bound. Then `IInv`: the executed heights are
1, 2, ...; only the next one is spawned or executing, and on the state the last one left
(`OneAtATime`); whatever follows an execution is about an executed block
(`AfterExecution`); the state of the last executed block, of what is about to be marked and of
every completed block is in the trie store (`StatesHeld`), which is why a joining node may skip
the fetch for an available block; and storage is at most one block ahead of the joining node's
chain (`JoinsBehind`). Results: `InTurn`, and `Refinement`: `Spec => ExecutesTheChain`, the
abstract specification under the mapping of section 3.

The last section of the module is about BlockProposer, which it extends too
(`DeployAssumption`, `ChainAssumption`, `NumbersAssumption`). That no payload repeats a
deploy rests on two sources that have to meet: the finalized deploys the component knows, and
the ancestors listed in the request. `PInv` says how far each reaches. The finalized sets
follow the chain up to some block that is at least the one before `nextFinalized`, and lack only
what expired before the last pruning (`Followed`); a deploy is recorded with its own expiry or
a later one; a request of a later era waits until the switch block is known (`RequestOK`); and
the list of ancestors has the deploys of every block of the era, later blocks first (`Covers`), so
that cutting it at a finalized deploy drops only deploys of finalized blocks. The same holds of
the snapshot and of the events that are postponed, which is what a restart needs. Results: `PayloadsDoNotReplay`,
`ProposerKeepsDeploys`, for every chain, any number of deploys and requests and of restarts.

**ActiveValidatorProofs** (`RoundAssumption`, `BoundAssumption`, `NoneAssumption`,
`MeterAssumption`, `PowerAssumption`). Why a restart is safe: the unit file has the last unit
ever signed (`FileIsLatest`), the validator votes only once the unit of the file is in its
state, and a state that has a unit has all units before it (`StateIsClosed`,
`VotesWithEverything`). That a unit is accepted needs the timers as well: the timer is ahead
of every unit but the confirmations, and a proposal asked for builds on a unit from before
its round (`TimerIsAhead`, `ProposalFits`). Results: `NeverEquivocates`, `NeverAlarmed`,
`UnitsAreValid`.

**SynchronizerProofs** (`VertexAssumption`, `HashAssumption`, `BoundAssumption`). A vertex waits
only for what is missing because everything that adds to the state also moves what waits for
it; the state stays closed across the wait for the block validator because the proposals in
validation fit and the state only grows (`ProposalsFit`); a correct peer is never listed with a
vertex it does not have (`SoundQueues`), from which it follows that nobody is disconnected for
dependents of an invalid vertex. Results: `QueueServed`, `StateClosed`, `CorrectPeersStay`.

**SmallNetworkProofs** (`NetworkAssumption`, `NoOutgoingAssumption`). The routing table can
only be right if a connected address has a node that may be there (`Located`), and a late
report can only be told from a new one if the connection is still among the open ones
(`Open`); the symmetry has the incoming connections as a finite set within the limit
(`IncomingOK`). Results: `RoutesRight` (routes are right for any number of addresses of a
node; that there is one only for a node with a single address), `BeliefsRight`,
`SymmetryRight`.

Where an argument needs a least or a greatest number (the highest stored block, the first gap
in a list), it uses that `<` is well founded on the naturals (`LeastElement`,
`GreatestElement`) in place of an induction; loops over a graph are smallest closed sets, of
which a proof needs only that they are closed and contained in every closed set.

*Only model-checked:* liveness (`PartialDataResolved`, `RequestsAnswered`, `VerticesAdded`,
`VotesAgain`, `FinalizedIsStored`, `KnownIsRetried`), which is out of the prover's reach: it needs
fairness and `ENABLED`, which TLAPS does not reason about here.

## 6. Findings

1. *Proposal with an invalid exponent* (`highway_core/active_validator.rs:538`, run
   `active_validator_round`). The round exponent is taken when the proposer's answer is
   signed. If it has grown since the block was requested, the block's timestamp is not the
   start of a round of the new length; the others reject it (`NonLeaderBlock`), and every
   later unit of the validator cites it. `round_exp`'s comment promises an exponent that is
   valid for the timestamp.

Further disagreements of the code with its comments, each reproduced by a configuration of
its own; TLC ends with a trace that violates the one property it names.

2. *Gossip entry stuck* (`gossip_table.rs:384`, `MCGossiper_stuck.cfg`, `HeldEntryHasEvent`).
   A timeout does not reduce the in-flight count if the peer is a holder, since "it has
   previously responded". A peer that gossiped the item to us is a holder without having
   responded; if its response is lost the count stays too high, and when the network later
   finds no peer the entry stays in `current` with no event left.
3. *Late signature* (`linear_chain/state.rs:407`, `MCLinearChain_late.cfg`,
   `WaitsForUnknownBlock`). The cache that marks blocks as known is cleared by the next era;
   a signature checked after that waits for a block that is already stored.
4. *Wrong era* (`linear_chain/state.rs:227`, `MCLinearChain_era.cfg`, `StoredEraMatches`). A
   signature that claims another era and arrives before its block is stored with it; after
   the block it is rejected.
5. *Missed upgrade* (`linear_chain/state.rs:434`, `MCLinearChain_upgrade.cfg`,
   `SignedIsUpgrade`). The quorum for the upgrade is compared with a set read before an
   await; no flow may see all signatures together.
6. *Sources shared by deploys* (`block_validator.rs:380`, `MCDeployValidation_sources.cfg`,
   `FailsWhenExhausted`). A source used for one missing deploy is not asked for another, so
   a block fails before all sources have been asked.
7. *Completed before stored* (`contract_runtime.rs:816`, `MCBlockExecution_completed.cfg`,
   `CompletedIsStored`). `effect.rs:825` says that completion means the block is persisted;
   nothing waits for that. The truncation at a restart repairs it above the highest stored
   block only.
8. *Syncing peer not recorded* (`small_network.rs:742`, `MCSmallNetwork_syncing.cfg`,
   `AnnouncedIsSyncing`). What a peer announces is recorded only when the connection becomes
   symmetric by its outgoing side.
9. *Replay at the instant of expiry* (`storage.rs:1479`, `MCBlockProposer_expiry.cfg`,
   `NoReplayUntilExpired`). `get_finalized_blocks` is to return the "blocks that could still
   have deploys whose TTL hasn't expired yet", but leaves out one that is exactly the maximal
   TTL old. A deploy created at that block's time is valid until that instant included
   (`deploy.rs:422-425`); if a restart falls there, the proposer does not know that the deploy is
   finalized and proposes it once more.
10. *Stranded by the other kind* (`block_validator.rs:365`, `MCDeployValidation_kinds.cfg`,
    `EveryRequestAnswered`). A failed fetch is ignored while "other outstanding requests" of
    the deploy are in flight, counted by hash. If block A lists the hash as a transfer and
    block B as a deploy, A's failure is ignored because of B's fetch, whose end only concerns
    B: nobody fetches the hash for A any more and A's requesters wait for ever.
11. *Shared route removed* (`small_network/outgoing.rs:443`, `MCSmallNetwork_addresses.cfg`,
    `ConnectedIsRouted`). "A missing entry means that the destination is not connected"
    (`outgoing.rs:298`). If a node is connected at two addresses, dropping one removes its
    route, though the other is still connected.

## 7. What is not modelled

- *Execution engine and global state.* A WebAssembly interpreter, a trie and system
  contracts: sequential, recursive over data and far beyond a finite instance. Together with
  the types, the contracts, the servers, the generated and the test support code they are
  the greater part of the repository, so the share of all its lines that a model can stand
  for is small whatever is added here.
- *Chain synchronizer.* Fast sync and the sync to genesis are long sequential procedures of
  fetches with retries; what fast sync leaves behind at each step is in BlockExecution
  (`SyncHeader` to `Participate`), the fetches themselves are not, and neither is the sync to
  genesis.
- *Era supervisor.* Only its part in execution, proposals and restarts; see the plan.
- *Servers, TLS, handshake, serialization, cryptography, metrics, logging* are input and
  output or pure data.
- *Endorsements* are collected, but nothing reads them while `ENABLE_ENDORSEMENTS` is false.
- *Limits of what is stated.* `NoReplay` leaves out the very millisecond of a deploy's expiry
  (finding 9). `DeploysAreKept` is about one run of the
  node: deploys accepted after the last snapshot are lost to the proposer when it stops.
  `RoutesAreConnections` says that a connected node has a route only for nodes with one
  address, as two share one route (finding 11), and says nothing of an address at which
  different nodes answer.
  `VotesAgain` has as a premise that the peers have what the last unit cites: if the unit
  before it was never sent, nothing recovers it. `MissingIsFetched` and
  `RequestsAnswered` except hashes that are listed both as a deploy and as a transfer
  (finding 10).
