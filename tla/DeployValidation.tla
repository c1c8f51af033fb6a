-------------------------- MODULE DeployValidation --------------------------
(***************************************************************************)
(* The block validator with the fetcher that serves it: fetch_deploy of    *)
(* block_validator.rs sends a FetcherRequest and turns its result into an  *)
(* event.  What BlockValidator assumes of a fetch, that it ends once, is   *)
(* here what the fetcher does.                                             *)
(***************************************************************************)
EXTENDS BlockValidator, FiniteSetsExt

ASSUME PeersAssumption == IsFiniteSet(Peers)

VARIABLES stored, lookups, absent, responders, timers, announcements, answers

F == INSTANCE Fetcher WITH Items <- Deploys, Askers <- Kinds

bvVars == vars
fetcherVars == <<stored, lookups, absent, responders, timers, announcements, answers>>
allVars == <<vars, fetcherVars>>

NodeInit == Init /\ F!Init

-----------------------------------------------------------------------------
\* A request that needs no fetch.
Request(b, sender) ==
    /\ AnswerRequest(b, sender) \/ JoinRequest(b, sender)
    /\ UNCHANGED fetcherVars

\* A request that makes the validator fetch all deploys of the block.
RequestAndFetch(b, sender) ==
    /\ StartRequest(b, sender)
    /\ F!Fetch(Content[b], sender)
    /\ UNCHANGED <<stored, absent, responders, timers, announcements, answers>>

\* The fetcher has answered with the deploy.
FetchSucceeds(dt) ==
    /\ F!TakeAnswer(dt[1], dt[2], "ok")
    /\ DeployFound(dt) \/ CannotConvertDeploy(dt)
    /\ UNCHANGED <<stored, lookups, absent, responders, timers, announcements>>

\* The fetcher has answered with an error, and no other source is asked.
FetchFails(dt) ==
    /\ F!TakeAnswer(dt[1], dt[2], "failed")
    /\ IgnoreMissing(dt) \/ GiveUpMissing(dt)
    /\ UNCHANGED <<stored, lookups, absent, responders, timers, announcements>>

\* The fetcher has answered with an error, and the next source is asked.
FetchAgain(dt, b, failed) ==
    /\ F!TakeAnswer(dt[1], dt[2], "failed")
    /\ RetryMissing(dt, b, failed)
    /\ F!Fetch({dt}, Head(states[b].sources))
    /\ UNCHANGED <<stored, absent, responders, timers, announcements>>

FetchResult(dt) ==
    \/ FetchSucceeds(dt)
    \/ FetchFails(dt)
    \/ \E b \in Retriable(dt), failed \in SUBSET (Waiting(dt) \ Retriable(dt)) :
           FetchAgain(dt, b, failed)

NodeNext ==
    \/ \E b \in Blocks, sender \in Peers : Request(b, sender) \/ RequestAndFetch(b, sender)
    \/ \E dt \in DeployOrTransfer : FetchResult(dt)
    \/ F!FetcherStep /\ UNCHANGED bvVars

\* An event in the queue is handled, or a timer fires.
EventHandled ==
    \/ \E dt \in DeployOrTransfer : FetchResult(dt)
    \/ /\ UNCHANGED bvVars
       /\ \/ \E f \in F!Fetches :
                F!FoundInStorage(f) \/ F!NotInStorage(f) \/ F!AskPeer(f) \/ F!CannotAskPeer(f)
          \/ \E h \in Deploys, source \in F!Sources :
                F!GotRemotely(h, source) \/ F!GotFromClient(h, source)
          \/ \E h \in Deploys, p \in Peers : F!TimeoutPeer(h, p)

\* The reactor does not stop while there are events or timers.  Nothing is assumed of
\* peers: no deploy needs to arrive, and nobody needs to say that it has none.
NodeFairness == WF_allVars(EventHandled)

NodeSpec == NodeInit /\ [][NodeNext]_allVars /\ NodeFairness

-----------------------------------------------------------------------------
(* Properties.                                                             *)

\* Every fetch of the validator is in exactly one place in the fetcher, whatever
\* answers, timeouts and storage results cross: none is dropped with a responder
\* list, none is answered twice, and everyone who waits for a peer will be timed
\* out, whichever responder each timer takes (respond_to_all,
\* send_response_from_peer).
FetchesAreServed ==
    /\ F!TypeOK /\ F!EveryResponderTimed
    /\ \A dt \in DeployOrTransfer :
           fetches[dt] =
                 SumFunction([p \in Peers |->
                     lookups[<<dt[1], p, dt[2]>>] + absent[<<dt[1], p, dt[2]>>]
                     + F!CountOf(responders[dt[1]][p], dt[2])])
               + answers[<<dt[1], dt[2], "ok">>] + answers[<<dt[1], dt[2], "failed">>]
=============================================================================
