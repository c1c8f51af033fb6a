--------------------------- MODULE BlockValidator ---------------------------
(***************************************************************************)
(* The block validator: it fetches the deploys of proposed blocks, checks  *)
(* that they fit into the block and answers everyone who asked about it    *)
(* (node/src/components/block_validator.rs, keyed_counter.rs and           *)
(* node/src/types/appendable_block.rs).                                    *)
(*                                                                         *)
(* A block lists pairs of a deploy hash and a kind.  Fetches run as tasks: *)
(* each ends at any moment with the deploy or without it, from storage or  *)
(* from the peer.  The event a fetch ends with is handled in the same      *)
(* step, as nothing else observes the moment in between.  The limits of an *)
(* AppendableBlock are represented by the maximal number of deploys and of *)
(* transfers; those on gas, size and approvals work the same way.          *)
(***************************************************************************)
EXTENDS Naturals, Sequences, FiniteSets

CONSTANTS
    Deploys,      \* deploy hashes
    Peers,
    Blocks,       \* blocks and proposed blocks
    Content,      \* for every block, the hashes with their kinds
    Replayed,     \* blocks that list a hash twice
    Kind,         \* for every hash, the kind of the deploy that has it
    Broken,       \* deploys that have no valid DeployInfo
    InvalidIn,    \* pairs of a block and a deploy that is not valid at its time
    MaxCount,     \* block_max_deploy_count and block_max_transfer_count, by kind
    MaxRequests,  \* bound: how many validation requests are made
    None

Kinds == {"Deploy", "Transfer"}
DeployOrTransfer == Deploys \X Kinds

ASSUME BlocksAssumption ==
    /\ Content \in [Blocks -> SUBSET DeployOrTransfer]
    /\ Kind \in [Deploys -> Kinds]
    /\ MaxCount \in [Kinds -> Nat]
    /\ MaxRequests \in Nat
    /\ \A b \in Blocks : IsFiniteSet(Content[b])

\* BlockValidationState
State == [missing : SUBSET DeployOrTransfer, added : SUBSET DeployOrTransfer,
          responders : SUBSET (1 .. MaxRequests), sources : Seq(Peers)]

ASSUME NoStateAssumption == None \notin State

VARIABLES
    states,    \* validation_states, None where a block has no entry
    inFlight,  \* in_flight
    fetches,   \* the number of fetches that have not ended, by hash and kind
    requests,  \* all requests so far, with their answers
    asked      \* which peer was asked for what

vars == <<states, inFlight, fetches, requests, asked>>

Init ==
    /\ states = [b \in Blocks |-> None]
    /\ inFlight = [h \in Deploys |-> 0]
    /\ fetches = [dt \in DeployOrTransfer |-> 0]
    /\ requests = <<>>
    /\ asked = {}

-----------------------------------------------------------------------------
(* Helpers.                                                                *)

\* AppendableBlock::add_deploy and add_transfer succeed.
Fits(b, added, dt) ==
    /\ dt[1] \notin {x[1] : x \in added}
    /\ <<b, dt[1]>> \notin InvalidIn
    /\ Cardinality({x \in added : x[2] = dt[2]}) # MaxCount[dt[2]]

\* The blocks that wait for a deploy.
Waiting(dt) == {b \in Blocks : states[b] # None /\ dt \in states[b].missing}

\* BlockValidationState::respond for the blocks in no and in yes.
Respond(no, yes) ==
    requests' = [r \in DOMAIN requests |->
        LET b == requests[r].block
            waits == b \in no \cup yes /\ r \in states[b].responders
        IN IF waits THEN [requests[r] EXCEPT !.answer = IF b \in no THEN "no" ELSE "yes"]
           ELSE requests[r]]

\* The answer that a request gets at once, or "none".
ImmediateAnswer(b) ==
    IF Content[b] = {} THEN "yes"
    ELSE IF b \in Replayed THEN "no"
    ELSE IF states[b] # None /\ states[b].missing = {} THEN "yes"
    ELSE "none"

\* BlockValidationState::add_source
AddSource(sources, peer) ==
    IF \E i \in DOMAIN sources : sources[i] = peer THEN sources ELSE Append(sources, peer)

\* BlockValidationState::source takes the first peer.  (Mutant: the sources rotate.)
SourcesLeftMutant(sources) == Append(Tail(sources), Head(sources))
SourcesLeft(sources) == Tail(sources)

NewRequest(b, sender, answer) ==
    requests' = Append(requests, [block |-> b, sender |-> sender, answer |-> answer])

-----------------------------------------------------------------------------
(* The events.                                                             *)

\* Event::Request that is answered at once.
AnswerRequest(b, sender) ==
    /\ Len(requests) < MaxRequests
    /\ ImmediateAnswer(b) # "none"
    /\ NewRequest(b, sender, ImmediateAnswer(b))
    /\ UNCHANGED <<states, inFlight, fetches, asked>>

\* Event::Request for a block that is being validated.
JoinRequest(b, sender) ==
    /\ Len(requests) < MaxRequests
    /\ ImmediateAnswer(b) = "none"
    /\ states[b] # None
    /\ NewRequest(b, sender, "none")
    /\ states' = [states EXCEPT ![b].responders = @ \cup {Len(requests) + 1},
                                ![b].sources = AddSource(@, sender)]
    /\ UNCHANGED <<inFlight, fetches, asked>>

\* Event::Request for any other block: all its deploys are fetched from the sender.
StartRequest(b, sender) ==
    /\ Len(requests) < MaxRequests
    /\ ImmediateAnswer(b) = "none"
    /\ states[b] = None
    /\ NewRequest(b, sender, "none")
    /\ inFlight' = [h \in Deploys |->
           inFlight[h] + (IF <<h, "Deploy">> \in Content[b] THEN 1 ELSE 0)
                       + (IF <<h, "Transfer">> \in Content[b] THEN 1 ELSE 0)]
    /\ fetches' = [dt \in DeployOrTransfer |->
           fetches[dt] + IF dt \in Content[b] THEN 1 ELSE 0]
    /\ asked' = asked \cup {<<dt, sender>> : dt \in Content[b]}
    /\ states' = [states EXCEPT ![b] =
           [missing |-> Content[b], added |-> {}, responders |-> {Len(requests) + 1},
            sources |-> <<>>]]

\* A fetch has ended; in_flight.dec.
EndFetch(dt) ==
    /\ fetches[dt] > 0
    /\ fetches' = [fetches EXCEPT ![dt] = @ - 1]
    /\ inFlight' = [inFlight EXCEPT ![dt[1]] = @ - 1]

\* The deploy that was fetched is what its hash was listed as, with a valid info.
\* (Mutant: the info is not checked.)
IsConvertibleMutant(dt) == Kind[dt[1]] = dt[2]
IsConvertible(dt) == Kind[dt[1]] = dt[2] /\ dt[1] \notin Broken

\* The blocks that are complete with dt.
CompleteWith(dt) == {b \in Waiting(dt) : states[b].missing = {dt}}

\* Event::DeployFound
DeployFound(dt) ==
    LET invalid == {b \in Waiting(dt) : ~ Fits(b, states[b].added, dt)}
        complete == CompleteWith(dt) \ invalid
    IN /\ IsConvertible(dt)
       /\ EndFetch(dt)
       /\ states' = [b \in Blocks |->
              IF b \in invalid \cup complete THEN None
              ELSE IF b \in Waiting(dt)
              THEN [states[b] EXCEPT !.missing = @ \ {dt}, !.added = @ \cup {dt}]
              ELSE states[b]]
       /\ Respond(invalid, complete)
       /\ UNCHANGED asked

\* Event::CannotConvertDeploy
CannotConvertDeploy(dt) ==
    /\ ~ IsConvertible(dt)
    /\ EndFetch(dt)
    /\ states' = [b \in Blocks |-> IF b \in Waiting(dt) THEN None ELSE states[b]]
    /\ Respond(Waiting(dt), {})
    /\ UNCHANGED asked

\* Event::DeployMissing while other fetches of the deploy go on.  (Mutant: the fetch
\* that has just ended is one of them.)
IgnoreMissingMutant(dt) ==
    /\ inFlight[dt[1]] > 0
    /\ EndFetch(dt)
    /\ UNCHANGED <<states, requests, asked>>
IgnoreMissing(dt) ==
    /\ inFlight[dt[1]] > 1
    /\ EndFetch(dt)
    /\ UNCHANGED <<states, requests, asked>>

\* The blocks that have a source left to ask.
Retriable(dt) == {b \in Waiting(dt) : states[b].sources # <<>>}

\* Event::DeployMissing when no source is left.
GiveUpMissing(dt) ==
    /\ inFlight[dt[1]] = 1
    /\ Retriable(dt) = {}
    /\ EndFetch(dt)
    /\ states' = [b \in Blocks |-> IF b \in Waiting(dt) THEN None ELSE states[b]]
    /\ Respond(Waiting(dt), {})
    /\ UNCHANGED asked

\* Event::DeployMissing when block b is the first one with a source, in the order
\* of a HashMap, and the blocks in failed come before it.  (Mutant: the new fetch
\* is not counted.)
RetryMissingMutant(dt, b, failed) ==
    /\ inFlight[dt[1]] = 1
    /\ fetches[dt] > 0
    /\ asked' = asked \cup {<<dt, Head(states[b].sources)>>}
    /\ states' = [x \in Blocks |->
           IF x \in failed THEN None
           ELSE IF x = b THEN [states[b] EXCEPT !.sources = SourcesLeft(@)]
           ELSE states[x]]
    /\ Respond(failed, {})
    /\ inFlight' = [inFlight EXCEPT ![dt[1]] = @ - 1]
    /\ UNCHANGED fetches
RetryMissing(dt, b, failed) ==
    /\ inFlight[dt[1]] = 1
    /\ fetches[dt] > 0
    /\ asked' = asked \cup {<<dt, Head(states[b].sources)>>}
    /\ states' = [x \in Blocks |->
           IF x \in failed THEN None
           ELSE IF x = b THEN [states[b] EXCEPT !.sources = SourcesLeft(@)]
           ELSE states[x]]
    /\ Respond(failed, {})
    /\ UNCHANGED <<inFlight, fetches>>

FetchEnds(dt) ==
    \/ DeployFound(dt)
    \/ CannotConvertDeploy(dt)
    \/ IgnoreMissing(dt)
    \/ GiveUpMissing(dt)
    \/ \E b \in Retriable(dt), failed \in SUBSET (Waiting(dt) \ Retriable(dt)) :
           RetryMissing(dt, b, failed)

Next ==
    \/ \E b \in Blocks, sender \in Peers :
           AnswerRequest(b, sender) \/ JoinRequest(b, sender) \/ StartRequest(b, sender)
    \/ \E dt \in DeployOrTransfer : FetchEnds(dt)

\* The fairness that makes fetches end is the fetcher's (DeployValidation).
Spec == Init /\ [][Next]_vars

-----------------------------------------------------------------------------
(* Properties.                                                             *)

TypeOK ==
    /\ states \in [Blocks -> State \cup {None}]
    /\ inFlight \in [Deploys -> Nat]
    /\ fetches \in [DeployOrTransfer -> Nat]
    /\ requests \in Seq([block : Blocks, sender : Peers, answer : {"none", "yes", "no"}])
    /\ Len(requests) <= MaxRequests

\* in_flight counts exactly the fetches that have not ended: dec never panics, and
\* a deploy is given up only after the last of them, though blocks are dropped
\* while fetches for them go on (KeyedCounter::dec).
InFlightCounts ==
    \A h \in Deploys :
        inFlight[h] = fetches[<<h, "Deploy">>] + fetches[<<h, "Transfer">>]

\* Some block that was asked about lists the hash with the kind.
Listed(dt) == \E r \in DOMAIN requests : dt \in Content[requests[r].block]

\* The hash is listed as a deploy by one such block and as a transfer by another.
TwoKinds(h) == Listed(<<h, "Deploy">>) /\ Listed(<<h, "Transfer">>)

\* A block never waits for a deploy that nobody fetches ("other outstanding
\* requests" give hope, DeployMissing), unless somebody has listed its hash with
\* the other kind: then the other requests may be for that kind and give no hope,
\* see EveryRequestAnswered.
MissingIsFetched ==
    \A b \in Blocks : states[b] # None =>
        /\ states[b].missing # {}
        /\ \A dt \in states[b].missing : fetches[dt] > 0 \/ TwoKinds(dt[1])

\* Exactly the requests that have no answer are registered, with their own block:
\* no responder is dropped with a block or left behind (validation_states.retain).
WaitingIsRegistered ==
    /\ \A r \in DOMAIN requests :
           LET b == requests[r].block IN
           requests[r].answer = "none" <=> states[b] # None /\ r \in states[b].responders
    /\ \A b \in Blocks : states[b] # None =>
           \A r \in states[b].responders : r \in DOMAIN requests /\ requests[r].block = b

\* What makes a block valid.
Valid(b) ==
    /\ b \notin Replayed \/ Content[b] = {}
    /\ \A dt \in Content[b] :
           /\ Kind[dt[1]] = dt[2] /\ dt[1] \notin Broken
           /\ <<b, dt[1]>> \notin InvalidIn
    /\ \A x, y \in Content[b] : x[1] = y[1] => x = y
    /\ \A kind \in Kinds : Cardinality({x \in Content[b] : x[2] = kind}) <= MaxCount[kind]

\* A block is only called valid if all of its deploys are, whichever blocks they
\* were fetched for.
YesIsValid ==
    \A r \in DOMAIN requests : requests[r].answer = "yes" => Valid(requests[r].block)

IsAnswered(r) == r \in DOMAIN requests /\ requests[r].answer # "none"
HasTwoKinds(r) ==
    r \in DOMAIN requests /\ \E dt \in Content[requests[r].block] : TwoKinds(dt[1])

\* Everyone who asks about a block gets an answer, unless a hash of the block comes
\* to be listed with two kinds: though no peer need answer, fetches are shared by
\* blocks that are dropped meanwhile, and sources run out.
RequestsAnswered ==
    \A r \in 1 .. MaxRequests :
        r \in DOMAIN requests ~> IsAnswered(r) \/ HasTwoKinds(r)

\* Everyone gets an answer.  The code does not have this property: the comment at
\* block_validator.rs:363 takes any other fetch of the hash for hope, but if that
\* fetch was for the other kind its end is of no use to this block.
EveryRequestAnswered == \A r \in 1 .. MaxRequests : r \in DOMAIN requests ~> IsAnswered(r)

\* Several requests for the same block "will eagerly return true if valid, but only
\* fail if all sources have been exhausted": a valid block fails only with a missing
\* deploy that everyone who waits for the answer was asked for in vain.
FailsWhenExhausted ==
    [][\A b \in Blocks :
          (/\ states[b] # None /\ states'[b] = None
           /\ Valid(b)
           /\ \E r \in states[b].responders : requests'[r].answer = "no")
          => \E dt \in states[b].missing :
                 /\ fetches'[dt] = 0
                 /\ \A r \in states[b].responders : <<dt, requests[r].sender>> \in asked]_vars
=============================================================================
