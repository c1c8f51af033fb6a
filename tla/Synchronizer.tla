----------------------------- MODULE Synchronizer -----------------------------
(***************************************************************************)
(* How a Highway instance gets the vertices it is sent into its protocol   *)
(* state (synchronizer.rs, with the message, action and validity handlers  *)
(* of protocols/highway.rs that use it).                                   *)
(*                                                                         *)
(* A vertex whose dependency is missing waits while the dependency is      *)
(* requested from the peer that sent the vertex; proposals wait for the    *)
(* block validator, vertices from the future for their time.  Messages get *)
(* lost, peers stay silent or send what is not valid, the block validator  *)
(* may reject a proposal only because it could not fetch its deploys, and  *)
(* from time to time everything that waits for too long is dropped.        *)
(***************************************************************************)
EXTENDS Integers, Sequences, FiniteSetsExt

CONSTANTS
    Vertices,
    Deps,           \* the vertices each vertex depends on, in panorama order
    Proposals,      \* vertices with a value that needs validation
    Invalid,        \* vertices that validate_vertex rejects
    Malformed,      \* vertices that pre_validate_vertex rejects
    FromFaulty,     \* vertices by a validator known to be faulty
    Early,          \* vertices whose timestamp is in the future at first
    Peers,
    Sends,          \* the vertices a peer has and sends on its own
    Answers,        \* the vertices a peer has and sends when asked
    MaxRequests,    \* max_requests_for_vertex
    MaxActions,     \* bound: queued calls of add_vertex
    MaxFaults,      \* bound: lost answers and failed downloads
    None

ASSUME VertexAssumption ==
    /\ Deps \in [Vertices -> Seq(Vertices)]
    /\ Proposals \cup Invalid \cup Malformed \cup FromFaulty \cup Early \subseteq Vertices
    /\ Sends \in [Peers -> SUBSET Vertices] /\ Answers \in [Peers -> SUBSET Vertices]
    /\ None \notin Vertices

\* A vertex names what it depends on by the hash: there are no circles.
ASSUME HashAssumption ==
    \A S \in SUBSET Vertices : S # {} =>
        \E v \in S : \A i \in DOMAIN Deps[v] : Deps[v][i] \notin S

\* A correct peer sends only vertices of its own protocol state: they are valid,
\* and it has what it sends and whatever that depends on.
Correct == {p \in Peers :
    /\ Sends[p] \subseteq Answers[p]
    /\ Answers[p] \cap (Invalid \cup Malformed) = {}
    /\ \A v \in Answers[p] : \A i \in DOMAIN Deps[v] : Deps[v][i] \in Answers[p]}

ASSUME BoundAssumption == MaxRequests \in Nat \ {0} /\ MaxActions \in Nat \ {0} /\ MaxFaults \in Nat

VARIABLES
    state,          \* the vertices in the protocol state
    noDeps,         \* vertices_no_deps: entries [v, p, age]
    awaiting,       \* vertices_awaiting_deps: entries [dep, v, p, age]
    later,          \* vertices_to_be_added_later: entries [v, p, age]
    requestsSent,   \* requests_sent: pairs << dependency, peer >>
    pendingValues,  \* pending_values: pairs << proposal, sender >>
    evidenceOnly,   \* the era is over
    actions,        \* how many calls of add_vertex are queued
    adding,         \* add_vertex is looking for a vertex to add
    asked,          \* requests that will be answered, with their answers
    past,           \* the vertices of Early whose time has come
    connected,      \* the peers that we have not disconnected from
    faults          \* how many answers were lost and downloads failed

queues == << noDeps, awaiting, later, requestsSent, pendingValues >>
vars == << state, queues, evidenceOnly, actions, adding, asked, past, connected, faults >>

\* A pending vertex is 0 purges old, or 1 and dropped at the next one.
Age == {0, 1}
Entry == [v : Vertices, p : Peers, age : Age]
Waiting == [dep : Vertices, v : Vertices, p : Peers, age : Age]

\* PendingVertices::add: an entry for each sender, with the latest time.
Put(S, new) ==
    LET Newest(e) == \A f \in S \cup new :
            [f EXCEPT !.age = 0] = [e EXCEPT !.age = 0] => e.age <= f.age
    IN {e \in S \cup new : Newest(e)}

\* Highway::missing_dependency: the first one that is not in the state.
\* (Mutant: a proposal in validation counts as present.)
MissingMutant(v) ==
    LET missing == {i \in DOMAIN Deps[v] : /\ Deps[v][i] \notin state
                                          /\ \A r \in pendingValues : r[1] # Deps[v][i]}
    IN IF missing = {} THEN None ELSE Deps[v][Min(missing)]
Missing(v) ==
    LET missing == {i \in DOMAIN Deps[v] : Deps[v][i] \notin state} IN
    IF missing = {} THEN None ELSE Deps[v][Min(missing)]

\* What a loop comes by that starts with the vertices of D and follows the pairs
\* of R: the smallest set that has D and is closed under R.
Reached(D, R) ==
    LET all == D \cup {r[2] : r \in R}
        Closed(S) == D \subseteq S /\ \A r \in R : r[1] \in S => r[2] \in S
    IN {x \in all : \A S \in SUBSET all : Closed(S) => x \in S}

\* find_transitive_dependency: as long as the dependency is downloaded and waits
\* itself, the one it waits for; at last the bottom of the chain.  Visited are
\* the queue entries it comes by.
WaitsFor(d) == CHOOSE e \in awaiting : e.v = d
Chain(d) == Reached({d}, {<< e.v, WaitsFor(e.v).dep >> : e \in awaiting})
Transitive(d) == CHOOSE x \in Chain(d) : \A e \in awaiting : e.v # x
Visited(d) ==
    LET chain == Chain(d) IN {e \in awaiting : e.v \in chain /\ e = WaitsFor(e.v)}

\* PendingVertices::add_holder, for all that was visited: the sender of a vertex
\* should have what it depends on.  A known holder keeps its time.
Holders(d, p, age) ==
    {[e EXCEPT !.p = p, !.age = age] : e \in {x \in Visited(d) :
        ~ \E y \in awaiting : y.dep = x.dep /\ y.v = x.v /\ y.p = p}}

-----------------------------------------------------------------------------
(* Parts of the handlers.                                                  *)

\* schedule_add_vertices, called with the queue at S and n calls queued: a call
\* is queued if there is none yet.  (Mutant: it is never queued again.)
QueuedMutant(n, S, new) == n
Queued(n, S, new) == IF S = {} /\ new # {} THEN n + 1 ELSE n

\* The protocol state becomes T, and remove_satisfied_deps moves what waited for
\* that.  The queue was S, with n calls queued and W waiting.
Added(T, S, n, W) ==
    LET ready == {e \in W : e.dep \in T}
        new == {[v |-> e.v, p |-> e.p, age |-> e.age] : e \in ready}
    IN /\ state' = T
       /\ noDeps' = Put(S, new)
       /\ awaiting' = W \ ready
       /\ requestsSent' = {r \in requestsSent : \A e \in ready : r[1] # e.dep}
       /\ actions' = Queued(n, S, new)

\* invalid_vertices: all that waits for a vertex of D, directly or not.
Dependents(W, D) == {e \in W : e.dep \in Reached(D, {<< x.dep, x.v >> : x \in W})}

Senders(E) == {e.p : e \in E}

-----------------------------------------------------------------------------
(* Messages.                                                               *)

\* handle_message(NewVertex).  A vertex from the future is kept until its time, or
\* dropped if that is too far away: how far it is at the moment is left open.
Receive(v, p) ==
    /\ p \in connected
    /\ actions < MaxActions
    /\ IF v \in state \/ evidenceOnly THEN UNCHANGED << queues, actions, connected >>
       ELSE IF v \in Malformed
       THEN LET dropped == Dependents(awaiting, {v}) IN
            /\ awaiting' = awaiting \ dropped
            /\ connected' = connected \ (Senders(dropped) \cup {p})
            /\ UNCHANGED << noDeps, later, requestsSent, pendingValues, actions >>
       ELSE IF v \in FromFaulty /\ ~ \E e \in awaiting : e.dep = v
       THEN UNCHANGED << queues, actions, connected >>
       ELSE IF v \in Early \ past
       THEN /\ later' \in {later, Put(later, {[v |-> v, p |-> p, age |-> 0]})}
            /\ UNCHANGED << noDeps, awaiting, requestsSent, pendingValues, actions, connected >>
       ELSE /\ noDeps' = Put(noDeps, {[v |-> v, p |-> p, age |-> 0]})
            /\ actions' = Queued(actions, noDeps, {v})
            /\ UNCHANGED << awaiting, later, requestsSent, pendingValues, connected >>
    /\ UNCHANGED << state, evidenceOnly, adding, past, faults >>

\* A peer sends a vertex on its own: it is new, or part of its latest state.
Gossip(v, p) == ~ adding /\ v \in Sends[p] /\ Receive(v, p) /\ UNCHANGED asked

\* A peer answers a request, or the request or its answer is lost.
Answer(v, p) ==
    /\ ~ adding
    /\ << v, p >> \in asked
    /\ asked' = asked \ {<< v, p >>}
    /\ Receive(v, p)

LoseAnswer(v, p) ==
    /\ ~ adding
    /\ << v, p >> \in asked
    /\ faults < MaxFaults
    /\ faults' = faults + 1
    /\ asked' = asked \ {<< v, p >>}
    /\ UNCHANGED << state, queues, evidenceOnly, actions, adding, past, connected >>

-----------------------------------------------------------------------------
(* add_vertex, the queued action: pop_vertex_to_add takes entries from the  *)
(* queue, in the order of a hash map, until one can be added.  No other     *)
(* event is handled meanwhile.                                              *)

StartAdding ==
    /\ ~ adding
    /\ actions > 0
    /\ actions' = actions - 1
    /\ adding' = (noDeps # {})
    /\ UNCHANGED << state, queues, evidenceOnly, asked, past, connected, faults >>

\* The next entry is already in the state.
SkipKnown(e) ==
    /\ e.v \in state
    /\ noDeps' = noDeps \ {e}
    /\ adding' = (noDeps' # {})
    /\ UNCHANGED << state, awaiting, later, requestsSent, pendingValues, actions, asked,
                    connected >>

\* The next entry waits for a dependency.  Unless the bottom of the chain is
\* already queued or being validated, or enough peers were asked for it, the
\* sender is asked.  If the block validator has the bottom from somebody else,
\* the sender becomes another source of it and this call of add_vertex ends.
WaitFor(e) ==
    LET dep == Missing(e.v)
        rest == noDeps \ {e}
        bottom == Transitive(dep)
        inQueue == \E x \in rest : x.v = bottom
        inValidation == \E r \in pendingValues : r[1] = bottom
        newSource == ~ inQueue /\ inValidation /\ << bottom, e.p >> \notin pendingValues
        peersAsked == {r \in requestsSent : r[1] = bottom}
        ask == /\ ~ inQueue /\ ~ inValidation
               /\ Cardinality(peersAsked) < MaxRequests
               /\ << bottom, e.p >> \notin requestsSent
    IN /\ e.v \notin state /\ dep # None
       /\ noDeps' = rest
       /\ awaiting' = Put(awaiting \cup Holders(dep, e.p, e.age),
                          {[dep |-> dep, v |-> e.v, p |-> e.p, age |-> e.age]})
       /\ requestsSent' = requestsSent \cup IF ask THEN {<< bottom, e.p >>} ELSE {}
       /\ asked' = asked \cup IF ask /\ bottom \in Answers[e.p] THEN {<< bottom, e.p >>} ELSE {}
       /\ pendingValues' = pendingValues \cup IF newSource THEN {<< bottom, e.p >>} ELSE {}
       /\ adding' = (rest # {} /\ ~ newSource)
       /\ actions' = IF newSource THEN Queued(actions, {}, rest) ELSE actions
       /\ UNCHANGED << state, later, connected >>

\* The next entry can be added: it is validated, by the block validator too if
\* it is a proposal.
AddNext(e) ==
    LET rest == noDeps \ {e}
        dropped == Dependents(awaiting, {e.v})
    IN /\ e.v \notin state /\ Missing(e.v) = None
       /\ adding' = FALSE
       /\ IF e.v \in Invalid
          THEN /\ noDeps' = rest
               /\ awaiting' = awaiting \ dropped
               /\ connected' = connected \ Senders(dropped)
               /\ actions' = Queued(actions, {}, rest)
               /\ UNCHANGED << state, requestsSent, pendingValues >>
          ELSE IF e.v \in Proposals
          THEN /\ noDeps' = rest
               /\ pendingValues' = pendingValues \cup {<< e.v, e.p >>}
               /\ actions' = Queued(actions, {}, rest)
               /\ UNCHANGED << state, awaiting, requestsSent, connected >>
          ELSE /\ Added(state \cup {e.v}, rest, Queued(actions, {}, rest), awaiting)
               /\ UNCHANGED << pendingValues, connected >>
       /\ UNCHANGED << later, asked >>

AddVertex(e) ==
    /\ adding
    /\ SkipKnown(e) \/ WaitFor(e) \/ AddNext(e)
    /\ UNCHANGED << evidenceOnly, past, faults >>

-----------------------------------------------------------------------------
(* Answers of the block validator, timers and the end of the era.          *)

\* resolve_validity(true)
ValueValid(v) ==
    /\ ~ adding
    /\ \E p \in Peers : << v, p >> \in pendingValues
    /\ pendingValues' = {r \in pendingValues : r[1] # v}
    /\ Added(state \cup {v}, noDeps, actions, awaiting)
    /\ UNCHANGED << later, evidenceOnly, adding, asked, past, connected, faults >>

\* resolve_validity(false): the deploys could not be fetched.  The senders stay
\* connected, it may not be their fault.  (Mutant: they do not.)
ValueInvalidMutant(v) ==
    LET dropped == Dependents(awaiting, {v}) IN
    /\ ~ adding
    /\ \E p \in Peers : << v, p >> \in pendingValues
    /\ faults < MaxFaults
    /\ faults' = faults + 1
    /\ pendingValues' = {r \in pendingValues : r[1] # v}
    /\ awaiting' = awaiting \ dropped
    /\ connected' = connected \ Senders(dropped)
    /\ UNCHANGED << state, noDeps, later, requestsSent, evidenceOnly, actions, adding, asked, past >>
ValueInvalid(v) ==
    /\ ~ adding
    /\ \E p \in Peers : << v, p >> \in pendingValues
    /\ faults < MaxFaults
    /\ faults' = faults + 1
    /\ pendingValues' = {r \in pendingValues : r[1] # v}
    /\ awaiting' = awaiting \ Dependents(awaiting, {v})
    /\ UNCHANGED << state, noDeps, later, requestsSent, evidenceOnly, actions, adding, asked,
                    past, connected >>

\* add_past_due_stored_vertices, when the time of v has come.
FutureTimer(v) ==
    LET due == {e \in later : e.v = v} IN
    /\ ~ adding
    /\ v \in Early \ past
    /\ past' = past \cup {v}
    /\ later' = later \ due
    /\ noDeps' = Put(noDeps, due)
    /\ actions' = Queued(actions, noDeps, due)
    /\ UNCHANGED << state, awaiting, requestsSent, pendingValues, evidenceOnly, adding, asked,
                    connected, faults >>

\* purge_vertices: what was there at the last purge is dropped.  The requests
\* are forgotten, so that they can be made again.  (Mutant: they are not.)
\* Purges are minutes apart: one that comes while something is under way is
\* possible, but counts as a fault.
Aged(S) == {[e EXCEPT !.age = 1] : e \in {x \in S : x.age = 0}}
Quiet == noDeps = {} /\ (\A r \in asked : r[2] \notin Correct) /\ pendingValues = {}
PurgeQueues ==
    /\ ~ adding
    /\ noDeps' = Aged(noDeps) /\ awaiting' = Aged(awaiting) /\ later' = Aged(later)
    /\ Quiet \/ faults < MaxFaults
    /\ faults' = IF Quiet THEN faults ELSE faults + 1
    /\ UNCHANGED << state, pendingValues, evidenceOnly, actions, adding, asked, past, connected >>
PurgeMutant == PurgeQueues /\ UNCHANGED requestsSent
Purge == PurgeQueues /\ requestsSent' = {}

\* set_evidence_only: only evidence is kept, and none of the vertices is evidence.
SetEvidenceOnly ==
    /\ ~ adding /\ ~ evidenceOnly
    /\ evidenceOnly' = TRUE
    /\ state' = {}
    /\ noDeps' = {} /\ awaiting' = {} /\ later' = {} /\ requestsSent' = {} /\ pendingValues' = {}
    /\ UNCHANGED << actions, adding, asked, past, connected, faults >>

-----------------------------------------------------------------------------
Init ==
    /\ state = {} /\ noDeps = {} /\ awaiting = {} /\ later = {}
    /\ requestsSent = {} /\ pendingValues = {} /\ evidenceOnly = FALSE
    /\ actions = 0 /\ adding = FALSE /\ asked = {} /\ past = {}
    /\ connected = Peers /\ faults = 0

Next ==
    \/ StartAdding \/ Purge \/ SetEvidenceOnly
    \/ \E e \in noDeps : AddVertex(e)
    \/ \E v \in Vertices :
          \/ ValueValid(v) \/ ValueInvalid(v) \/ FutureTimer(v)
          \/ \E p \in Peers : Gossip(v, p) \/ Answer(v, p) \/ LoseAnswer(v, p)

Spec == Init /\ [][Next]_vars

\* Queued actions are executed, correct peers keep sending their latest state and
\* answer requests, the block validator decides, and the timers fire.  (Strong
\* fairness, since no other event is handled while `adding`; the hash map does
\* not pass over the same entry forever.)
FairSpec ==
    /\ Spec
    /\ WF_vars(StartAdding) /\ SF_vars(Purge)
    /\ WF_vars(\E e \in noDeps : AddVertex(e))
    /\ \A v \in Early : SF_vars(FutureTimer(v))
    /\ \A v \in Proposals : SF_vars(ValueValid(v))
    /\ \A p \in Correct :
          /\ \A v \in Sends[p] : SF_vars(Gossip(v, p))
          /\ \A v \in Answers[p] :
                /\ SF_vars(Answer(v, p))
                /\ SF_vars(\E e \in noDeps : e.v = v /\ e.p = p /\ AddVertex(e))

-----------------------------------------------------------------------------
(* Properties.                                                             *)

\* Every variable has its type, and every pending vertex one entry per sender.
TypeOK ==
    /\ state \subseteq Vertices /\ past \subseteq Early /\ connected \subseteq Peers
    /\ noDeps \subseteq Entry /\ later \subseteq Entry /\ awaiting \subseteq Waiting
    /\ \A S \in {noDeps, awaiting, later} : \A e, f \in S :
          [e EXCEPT !.age = 0] = [f EXCEPT !.age = 0] => e = f
    /\ requestsSent \subseteq Vertices \X Peers /\ asked \subseteq Vertices \X Peers
    /\ pendingValues \subseteq Proposals \X Peers
    /\ evidenceOnly \in BOOLEAN /\ adding \in BOOLEAN
    /\ actions \in Nat /\ faults \in 0 .. MaxFaults

\* Nothing pending is forgotten: as long as a vertex is queued, a call of
\* add_vertex is (the action is queued in four places, and never by a timer), and
\* no vertex waits for a dependency that is already in the state
\* (schedule_add_vertices, remove_satisfied_deps).
QueueIsServed ==
    /\ TypeOK
    /\ noDeps # {} /\ ~ adding => actions > 0
    /\ \A e \in awaiting : e.dep \notin state

\* The state is closed under dependencies, and only valid vertices get into it.
StateIsClosed ==
    \A v \in state : /\ v \notin Invalid \cup Malformed
                     /\ \A i \in DOMAIN Deps[v] : Deps[v][i] \in state

\* Only a peer that sent something invalid, or something that depends on it, is
\* disconnected (invalid_vertices: "those senders must be faulty").
CorrectStayConnected == Correct \subseteq connected

\* What a correct peer keeps sending gets into the state, whatever the others
\* send or keep to themselves, which answers are lost and how often the deploys
\* of a proposal cannot be fetched (requests_sent, purge_vertices).
VerticesAdded ==
    <>(evidenceOnly \/ \A p \in Correct : Sends[p] \subseteq state)

=============================================================================
