------------------------- MODULE SynchronizerProofs -------------------------
(***************************************************************************)
(* The queues of the synchronizer are served, the protocol state is closed *)
(* under dependencies, and no correct peer is disconnected, for any        *)
(* vertices and dependencies, any peers and any loss of messages.          *)
(***************************************************************************)
EXTENDS Synchronizer, WellFoundedInduction, TLAPS

-----------------------------------------------------------------------------
(* The inductive invariant.                                                *)

\* An entry of a queue: the vertex was pre-validated, and a correct peer that is
\* listed as a holder has it.
Sound(e) ==
    /\ e.v \notin Malformed
    /\ e.p \in Correct => e.v \in Answers[e.p]

DependsOn(v, d) == \E i \in DOMAIN Deps[v] : Deps[v][i] = d

SoundQueues ==
    /\ \A e \in noDeps \cup later : Sound(e)
    /\ \A e \in awaiting : Sound(e) /\ DependsOn(e.v, e.dep)

\* Only what a peer has is answered.
AnswersExist == \A r \in asked : r[1] \in Answers[r[2]]

\* What the state may be extended by: it is valid, and nothing is missing.
Fits(v) ==
    /\ v \notin Invalid \cup Malformed
    /\ \A i \in DOMAIN Deps[v] : Deps[v][i] \in state

ProposalsFit == \A r \in pendingValues : Fits(r[1])

IInv ==
    /\ QueueIsServed
    /\ SoundQueues
    /\ AnswersExist
    /\ ProposalsFit
    /\ StateIsClosed
    /\ CorrectStayConnected

-----------------------------------------------------------------------------
(* Entries and Put.                                                        *)

Key(e) == [e EXCEPT !.age = 0]
Unique(S) == \A e, f \in S : Key(e) = Key(f) => e = f

\* Two entries of a vertex and a sender differ only in their age.
LEMMA SameEntry ==
    ASSUME NEW T \in {Entry, Waiting}, NEW e \in T, NEW f \in T,
           Key(e) = Key(f), e.age = f.age
    PROVE  e = f
<1>1. CASE T = Entry
  <2>1. Key(e).v = Key(f).v /\ Key(e).p = Key(f).p
    OBVIOUS
  <2>2. e.v = f.v /\ e.p = f.p
    BY <1>1, <2>1 DEF Key, Entry
  <2>3. QED
    BY <1>1, <2>2 DEF Entry
<1>2. CASE T = Waiting
  <2>1. Key(e).v = Key(f).v /\ Key(e).p = Key(f).p /\ Key(e).dep = Key(f).dep
    OBVIOUS
  <2>2. e.v = f.v /\ e.p = f.p /\ e.dep = f.dep
    BY <1>2, <2>1 DEF Key, Waiting
  <2>3. QED
    BY <1>2, <2>2 DEF Waiting
<1>3. QED
  BY <1>1, <1>2

\* Put invents no entries, and keeps one for each vertex and sender.
LEMMA PutOK ==
    ASSUME NEW T \in {Entry, Waiting}, NEW S \in SUBSET T, NEW new \in SUBSET T
    PROVE  Put(S, new) \subseteq S \cup new /\ Unique(Put(S, new))
<1>1. Put(S, new) \subseteq S \cup new
  BY DEF Put
<1>2. ASSUME NEW e \in Put(S, new), NEW f \in Put(S, new), Key(e) = Key(f)
      PROVE  e = f
  <2>1. e \in T /\ f \in T
    BY <1>1
  <2>2. e.age \in Int /\ f.age \in Int
    <3>1. CASE T = Entry
      BY <2>1, <3>1 DEF Entry, Age
    <3>2. CASE T = Waiting
      BY <2>1, <3>2 DEF Waiting, Age
    <3>3. QED
      BY <3>1, <3>2
  <2>3. e.age <= f.age /\ f.age <= e.age
    BY <1>1, <1>2 DEF Put, Key
  <2>4. e.age = f.age
    BY <2>2, <2>3
  <2>5. QED
    BY <1>2, <2>1, <2>4, SameEntry
<1>3. QED
  BY <1>1, <1>2 DEF Unique

-----------------------------------------------------------------------------
(* Dependencies.                                                           *)

\* Every nonempty set of natural numbers has a least element, which Min finds.
LEMMA LeastElement ==
    ASSUME NEW T \in SUBSET Nat, T # {}
    PROVE  Min(T) \in T
<1>1. IsWellFoundedOn(OpToRel(<, Nat), Nat)
  BY NatLessThanWellFounded
<1>2. PICK x \in T : \A y \in T : ~ (<<y, x>> \in OpToRel(<, Nat))
  BY <1>1, WFMin
<1>3. \A y \in T : ~ (y < x)
  BY <1>2 DEF OpToRel
<1>4. \E z \in T : \A y \in T : z <= y
  BY <1>3
<1>5. QED
  BY <1>4 DEF Min

\* missing_dependency gives none only when all dependencies are there.
LEMMA MissingOK ==
    ASSUME NEW v \in Vertices
    PROVE  /\ Missing(v) = None => \A i \in DOMAIN Deps[v] : Deps[v][i] \in state
           /\ Missing(v) # None => /\ Missing(v) \in Vertices \ state
                                   /\ DependsOn(v, Missing(v))
<1> DEFINE missing == {i \in DOMAIN Deps[v] : Deps[v][i] \notin state}
<1>1. Deps[v] \in Seq(Vertices)
  BY VertexAssumption
<1>2. missing \in SUBSET Nat /\ \A i \in DOMAIN Deps[v] : Deps[v][i] \in Vertices
  BY <1>1
<1>3. Missing(v) = IF missing = {} THEN None ELSE Deps[v][Min(missing)]
  BY DEF Missing
<1>4. CASE missing = {}
  BY <1>3, <1>4
<1>5. CASE missing # {}
  <2>1. Min(missing) \in missing
    BY <1>2, <1>5, LeastElement
  <2>2. Missing(v) = Deps[v][Min(missing)]
    BY <1>3, <1>5
  <2>3. Missing(v) \in Vertices \ state /\ DependsOn(v, Missing(v))
    BY <1>2, <2>1, <2>2 DEF DependsOn
  <2>4. QED
    BY <2>3, VertexAssumption
<1>6. QED
  BY <1>4, <1>5

\* What a loop comes by stays within every closed set that it starts in,
LEMMA ReachedWithin ==
    ASSUME NEW D, NEW R, NEW S, D \subseteq S, \A r \in R : r[1] \in S => r[2] \in S
    PROVE  Reached(D, R) \subseteq S
<1> DEFINE all == D \cup {r[2] : r \in R}
<1>1. S \cap all \in SUBSET all
  OBVIOUS
<1>2. D \subseteq S \cap all /\ \A r \in R : r[1] \in S \cap all => r[2] \in S \cap all
  OBVIOUS
<1>3. QED
  BY <1>1, <1>2 DEF Reached

\* has its start and is closed itself.
LEMMA ReachedClosed ==
    ASSUME NEW D, NEW R
    PROVE  /\ D \subseteq Reached(D, R)
           /\ \A r \in R : r[1] \in Reached(D, R) => r[2] \in Reached(D, R)
BY DEF Reached

\* The entries that wait, as far as the lemmas need them.
WaitingOK ==
    /\ awaiting \subseteq Waiting
    /\ \A e \in awaiting : Sound(e) /\ DependsOn(e.v, e.dep)

\* find_transitive_dependency ends, at a vertex that is not downloaded: by the
\* hashes there is no circle to follow.
LEMMA TransitiveOK ==
    ASSUME WaitingOK, NEW d \in Vertices
    PROVE  Chain(d) \subseteq Vertices /\ Transitive(d) \in Vertices
<1> DEFINE R == {<< e.v, WaitsFor(e.v).dep >> : e \in awaiting}
<1>1. ASSUME NEW e \in awaiting
      PROVE  WaitsFor(e.v) \in awaiting /\ WaitsFor(e.v).v = e.v
  BY <1>1 DEF WaitsFor
<1>2. ASSUME NEW r \in R
      PROVE  r[1] \in Vertices /\ r[2] \in Vertices /\ DependsOn(r[1], r[2])
  <2>1. PICK e \in awaiting : r = << e.v, WaitsFor(e.v).dep >>
    BY <1>2
  <2>2. WaitsFor(e.v) \in Waiting /\ e \in Waiting /\ DependsOn(e.v, WaitsFor(e.v).dep)
    BY <1>1 DEF WaitingOK
  <2>3. QED
    BY <2>1, <2>2 DEF Waiting
<1> HIDE DEF R
<1>3. Chain(d) = Reached({d}, R)
  BY DEF Chain, R
<1>4. Chain(d) \subseteq Vertices
  BY <1>2, <1>3, ReachedWithin
<1>5. d \in Chain(d) /\ \A r \in R : r[1] \in Chain(d) => r[2] \in Chain(d)
  BY <1>3, ReachedClosed
<1>6. PICK v \in Chain(d) : \A i \in DOMAIN Deps[v] : Deps[v][i] \notin Chain(d)
  BY <1>4, <1>5, HashAssumption
<1>7. \A e \in awaiting : e.v # v
  <2> SUFFICES ASSUME NEW e \in awaiting, e.v = v PROVE FALSE
    OBVIOUS
  <2>1. << v, WaitsFor(v).dep >> \in R
    BY DEF R
  <2>2. WaitsFor(v).dep \in Chain(d) /\ DependsOn(v, WaitsFor(v).dep)
    BY <1>2, <1>5, <2>1
  <2>3. QED
    BY <1>6, <2>2 DEF DependsOn
<1>8. Transitive(d) \in Chain(d)
  BY <1>7 DEF Transitive
<1>9. QED
  BY <1>4, <1>8

\* A correct peer has all that a vertex of its own waits for.
LEMMA CorrectHasChain ==
    ASSUME WaitingOK, NEW p \in Correct, NEW d \in Answers[p]
    PROVE  Chain(d) \subseteq Answers[p]
<1> DEFINE R == {<< e.v, WaitsFor(e.v).dep >> : e \in awaiting}
<1>1. ASSUME NEW r \in R PROVE DependsOn(r[1], r[2])
  <2>1. PICK e \in awaiting : r = << e.v, WaitsFor(e.v).dep >>
    BY <1>1
  <2>2. WaitsFor(e.v) \in awaiting /\ WaitsFor(e.v).v = e.v
    BY DEF WaitsFor
  <2>3. DependsOn(e.v, WaitsFor(e.v).dep)
    BY <2>2 DEF WaitingOK
  <2>4. QED
    BY <2>1, <2>3
<1>2. \A r \in R : r[1] \in Answers[p] => r[2] \in Answers[p]
  BY <1>1 DEF DependsOn, Correct
<1> HIDE DEF R
<1>3. Chain(d) = Reached({d}, R)
  BY DEF Chain, R
<1>4. QED
  BY <1>2, <1>3, ReachedWithin

\* Those who sent something that depends on an invalid vertex are not correct.
LEMMA SendersAreFaulty ==
    ASSUME WaitingOK, NEW D, D \subseteq Invalid \cup Malformed, NEW p \in Correct
    PROVE  p \notin Senders(Dependents(awaiting, D))
<1> DEFINE R == {<< x.dep, x.v >> : x \in awaiting}
           S == {v \in Vertices : v \notin Answers[p]}
<1>1. D \subseteq S
  BY VertexAssumption DEF Correct
<1>2. ASSUME NEW r \in R, r[1] \in S PROVE r[2] \in S
  <2>1. PICK x \in awaiting : r = << x.dep, x.v >>
    BY <1>2
  <2>2. x \in Waiting /\ DependsOn(x.v, x.dep)
    BY DEF WaitingOK
  <2>3. QED
    BY <1>2, <2>1, <2>2 DEF DependsOn, Waiting, Correct
<1>3. Reached(D, R) \subseteq S
  <2> HIDE DEF R, S
  <2> QED
    BY <1>1, <1>2, ReachedWithin
<1>4. SUFFICES ASSUME NEW e \in Dependents(awaiting, D), e.p = p PROVE FALSE
  BY DEF Senders
<1>5. e \in awaiting /\ e.dep \in S
  BY <1>3 DEF Dependents
<1>6. e.v \in Answers[p] /\ DependsOn(e.v, e.dep)
  BY <1>4, <1>5 DEF WaitingOK, Sound
<1>7. QED
  BY <1>5, <1>6 DEF DependsOn, Correct

-----------------------------------------------------------------------------
(* Steps.                                                                  *)

\* The types, with the part that Put takes care of named.
LEMMA Types ==
    TypeOK <=>
    /\ state \subseteq Vertices /\ past \subseteq Early /\ connected \subseteq Peers
    /\ noDeps \subseteq Entry /\ later \subseteq Entry /\ awaiting \subseteq Waiting
    /\ Unique(noDeps) /\ Unique(awaiting) /\ Unique(later)
    /\ requestsSent \subseteq Vertices \X Peers /\ asked \subseteq Vertices \X Peers
    /\ pendingValues \subseteq Proposals \X Peers
    /\ evidenceOnly \in BOOLEAN /\ adding \in BOOLEAN
    /\ actions \in Nat /\ faults \in 0 .. MaxFaults
BY DEF TypeOK, Unique, Key

\* The same of the next state.
LEMMA TypesNext ==
    ASSUME state' \subseteq Vertices, past' \subseteq Early, connected' \subseteq Peers,
           noDeps' \subseteq Entry, later' \subseteq Entry, awaiting' \subseteq Waiting,
           Unique(noDeps'), Unique(awaiting'), Unique(later'),
           requestsSent' \subseteq Vertices \X Peers, asked' \subseteq Vertices \X Peers,
           pendingValues' \subseteq Proposals \X Peers,
           evidenceOnly' \in BOOLEAN, adding' \in BOOLEAN,
           actions' \in Nat, faults' \in 0 .. MaxFaults
    PROVE  TypeOK'
BY DEF TypeOK, Unique, Key

\* A smaller queue has still one entry for each vertex and sender.
LEMMA UniqueSubset ==
    ASSUME NEW S, NEW T, T \subseteq S, Unique(S)
    PROVE  Unique(T)
BY DEF Unique

\* At first all queues are empty.
LEMMA InitIInv == Init => IInv
<1> SUFFICES ASSUME Init PROVE IInv
  OBVIOUS
<1>1. TypeOK
  <2>1. Unique(noDeps) /\ Unique(awaiting) /\ Unique(later)
    BY DEF Init, Unique
  <2>2. faults \in 0 .. MaxFaults /\ actions \in Nat
    BY BoundAssumption DEF Init
  <2>3. evidenceOnly \in BOOLEAN /\ adding \in BOOLEAN
    BY DEF Init
  <2>4. QED
    BY <2>1, <2>2, <2>3, Types DEF Init
<1>2. QED
  BY <1>1 DEF Init, IInv, QueueIsServed, SoundQueues, AnswersExist, ProposalsFit,
              StateIsClosed, CorrectStayConnected, Correct

\* What a message does: it is queued, or dropped with all that depends on it.
LEMMA ReceiveIInv ==
    ASSUME IInv, NEW v \in Vertices, NEW p \in Peers, ~ adding,
           p \in Correct => v \in Answers[p],
           Receive(v, p), asked' \subseteq asked
    PROVE  IInv'
<1> DEFINE new == [v |-> v, p |-> p, age |-> 0]
           dropped == Dependents(awaiting, {v})
<1>1. TypeOK
  BY DEF IInv, QueueIsServed
<1>2. WaitingOK
  BY <1>1, Types DEF IInv, SoundQueues, WaitingOK
<1>3. new \in Entry /\ (v \notin Malformed => Sound(new))
  BY DEF Entry, Age, Sound
<1>4. UNCHANGED << state, evidenceOnly, adding, past, faults >> /\ asked' \subseteq asked
  BY DEF Receive
<1>5. ASSUME connected' = connected PROVE CorrectStayConnected'
  BY <1>5 DEF IInv, CorrectStayConnected
<1>6. StateIsClosed' /\ AnswersExist'
  BY <1>4 DEF IInv, StateIsClosed, AnswersExist
<1>7. CASE UNCHANGED << queues, actions, connected >>
  <2>1. TypeOK'
    BY <1>1, <1>4, <1>7 DEF TypeOK, queues
  <2>2. QED
    BY <1>4, <1>5, <1>6, <1>7, <2>1
       DEF IInv, QueueIsServed, SoundQueues, Sound, ProposalsFit, Fits, queues
<1>8. CASE /\ v \in Malformed
           /\ awaiting' = awaiting \ dropped
           /\ connected' = connected \ (Senders(dropped) \cup {p})
           /\ UNCHANGED << noDeps, later, requestsSent, pendingValues, actions >>
  <2>1. Unique(awaiting')
    BY <1>1, <1>8, Types, UniqueSubset
  <2>2. TypeOK'
    <3> HIDE DEF dropped
    <3> QED
      BY <1>1, <1>4, <1>8, <2>1, Types, TypesNext
  <2>3. \A q \in Correct : q \notin Senders(dropped)
    BY <1>2, <1>8, SendersAreFaulty
  <2>4. p \notin Correct
    BY <1>8 DEF Correct
  <2>5. CorrectStayConnected'
    <3> HIDE DEF dropped
    <3> QED
      BY <1>8, <2>3, <2>4 DEF IInv, CorrectStayConnected
  <2> HIDE DEF dropped
  <2>6. QED
    BY <1>4, <1>6, <1>8, <2>2, <2>5
       DEF IInv, QueueIsServed, SoundQueues, Sound, ProposalsFit, Fits
<1>9. CASE /\ v \notin Malformed
           /\ later' = Put(later, {new})
           /\ UNCHANGED << noDeps, awaiting, requestsSent, pendingValues, actions, connected >>
  <2>1. later' \subseteq later \cup {new} /\ Unique(later')
    <3>1. later \in SUBSET Entry /\ {new} \in SUBSET Entry
      BY <1>1, <1>3, Types
    <3> HIDE DEF new
    <3>2. QED
      BY <1>9, <3>1, PutOK
  <2> HIDE DEF new
  <2>2. TypeOK'
    BY <1>1, <1>3, <1>4, <1>9, <2>1, Types, TypesNext
  <2>3. SoundQueues'
    BY <1>3, <1>9, <2>1 DEF IInv, SoundQueues, Sound
  <2>4. QED
    BY <1>4, <1>5, <1>6, <1>9, <2>2, <2>3 DEF IInv, QueueIsServed, ProposalsFit, Fits
<1>10. CASE /\ v \notin Malformed
            /\ noDeps' = Put(noDeps, {new})
            /\ actions' = Queued(actions, noDeps, {v})
            /\ UNCHANGED << awaiting, later, requestsSent, pendingValues, connected >>
  <2>1. noDeps' \subseteq noDeps \cup {new} /\ Unique(noDeps')
    <3>1. noDeps \in SUBSET Entry /\ {new} \in SUBSET Entry
      BY <1>1, <1>3, Types
    <3> HIDE DEF new
    <3>2. QED
      BY <1>10, <3>1, PutOK
  <2> HIDE DEF new
  <2>2. actions' \in Nat /\ actions' > 0
    BY <1>1, <1>10 DEF Queued, IInv, QueueIsServed, TypeOK
  <2>3. TypeOK'
    BY <1>1, <1>3, <1>4, <1>10, <2>1, <2>2, Types, TypesNext
  <2>4. SoundQueues'
    BY <1>3, <1>10, <2>1 DEF IInv, SoundQueues, Sound
  <2>5. QED
    BY <1>4, <1>5, <1>6, <1>10, <2>2, <2>3, <2>4 DEF IInv, QueueIsServed, ProposalsFit, Fits
<1>11. QED
  BY <1>7, <1>8, <1>9, <1>10 DEF Receive, queues

\* What the addition of a vertex to the state does, with the queue S before it.
LEMMA AddedIInv ==
    ASSUME IInv, NEW w \in Vertices, Fits(w), NEW S, S \subseteq noDeps,
           NEW n \in Nat, S # {} => n > 0,
           Added(state \cup {w}, S, n, awaiting),
           pendingValues' \subseteq pendingValues, adding' = FALSE,
           UNCHANGED << later, evidenceOnly, asked, past, connected, faults >>
    PROVE  IInv'
<1> DEFINE T == state \cup {w}
           ready == {e \in awaiting : e.dep \in T}
           new == {[v |-> e.v, p |-> e.p, age |-> e.age] : e \in ready}
<1>1. TypeOK
  BY DEF IInv, QueueIsServed
<1>2. /\ state' = T /\ noDeps' = Put(S, new) /\ awaiting' = awaiting \ ready
      /\ requestsSent' \subseteq requestsSent /\ actions' = Queued(n, S, new)
  BY DEF Added
<1>3. new \subseteq Entry /\ S \subseteq Entry
  BY <1>1 DEF TypeOK, Entry, Waiting
<1>4. \A e \in new : Sound(e)
  BY DEF IInv, SoundQueues, Sound
<1>5. noDeps' \subseteq S \cup new /\ Unique(noDeps')
  BY <1>2, <1>3, PutOK
<1>6. Unique(awaiting')
  BY <1>1, <1>2, Types, UniqueSubset
<1>7. \A e \in awaiting' : e.dep \notin state'
  BY <1>2
<1> HIDE DEF new, ready
<1>8. actions' \in Nat /\ (noDeps' # {} => actions' > 0)
  BY <1>2, <1>5 DEF Queued
<1>9. state' \subseteq Vertices
  BY <1>1, <1>2 DEF TypeOK
<1>10. TypeOK'
  BY <1>1, <1>2, <1>3, <1>5, <1>6, <1>8, <1>9, Types, TypesNext
<1>11. SoundQueues'
  BY <1>2, <1>4, <1>5 DEF IInv, SoundQueues, Sound
<1>12. StateIsClosed'
  BY <1>2 DEF IInv, StateIsClosed, Fits
<1>13. ProposalsFit'
  BY <1>2 DEF IInv, ProposalsFit, Fits
<1>14. AnswersExist' /\ CorrectStayConnected'
  BY DEF IInv, AnswersExist, CorrectStayConnected
<1>15. QED
  BY <1>7, <1>8, <1>10, <1>11, <1>12, <1>13, <1>14 DEF IInv, QueueIsServed

\* An entry whose dependency is missing: the sender becomes a holder of all that
\* the vertex waits for.  If it is correct it has all that.
LEMMA WaitForIInv ==
    ASSUME IInv, NEW e \in noDeps, WaitFor(e), UNCHANGED << evidenceOnly, past, faults >>
    PROVE  IInv'
<1> DEFINE dep == Missing(e.v)
           rest == noDeps \ {e}
           bottom == Transitive(dep)
           held == Holders(dep, e.p, e.age)
           new == [dep |-> dep, v |-> e.v, p |-> e.p, age |-> e.age]
           newSource == /\ ~ \E x \in rest : x.v = bottom
                        /\ \E r \in pendingValues : r[1] = bottom
                        /\ << bottom, e.p >> \notin pendingValues
<1>1. TypeOK
  BY DEF IInv, QueueIsServed
<1>2. WaitingOK
  BY <1>1, Types DEF IInv, SoundQueues, WaitingOK
<1>3. e \in Entry /\ Sound(e) /\ e.v \in Vertices /\ e.p \in Peers /\ e.age \in Age
  BY <1>1 DEF TypeOK, Entry, IInv, SoundQueues
<1>4. dep \in Vertices \ state /\ DependsOn(e.v, dep)
  BY <1>3, MissingOK DEF WaitFor
<1>5. bottom \in Vertices /\ Chain(dep) \subseteq Vertices
  BY <1>2, <1>4, TransitiveOK
<1>6. e.p \in Correct => dep \in Answers[e.p] /\ Chain(dep) \subseteq Answers[e.p]
  <2> SUFFICES ASSUME e.p \in Correct
               PROVE  dep \in Answers[e.p] /\ Chain(dep) \subseteq Answers[e.p]
    OBVIOUS
  <2>1. dep \in Answers[e.p]
    BY <1>3, <1>4 DEF Sound, DependsOn, Correct
  <2> HIDE DEF dep
  <2>2. QED
    BY <1>2, <2>1, CorrectHasChain
<1>7. new \in Waiting /\ Sound(new) /\ DependsOn(new.v, new.dep) /\ new.dep \notin state
  <2> HIDE DEF dep
  <2> QED
    BY <1>3, <1>4 DEF Waiting, Sound
<1>8. ASSUME NEW h \in held
      PROVE  h \in Waiting /\ Sound(h) /\ DependsOn(h.v, h.dep) /\ h.dep \notin state
  <2> HIDE DEF dep
  <2>1. PICK x \in Visited(dep) : h = [x EXCEPT !.p = e.p, !.age = e.age]
    BY <1>8 DEF Holders
  <2>2. x \in awaiting /\ x.v \in Chain(dep)
    BY DEF Visited
  <2>3. x \in Waiting /\ Sound(x) /\ DependsOn(x.v, x.dep) /\ x.dep \notin state
    BY <1>2, <2>2 DEF WaitingOK, IInv, QueueIsServed
  <2>4. h \in Waiting /\ h.v = x.v /\ h.dep = x.dep /\ h.p = e.p
    BY <1>3, <2>1, <2>3 DEF Waiting
  <2>5. e.p \in Correct => x.v \in Answers[e.p]
    BY <1>6, <2>2
  <2>6. QED
    BY <2>3, <2>4, <2>5 DEF Sound
<1>9. /\ noDeps' = rest
      /\ awaiting' = Put(awaiting \cup held, {new})
      /\ requestsSent' \subseteq requestsSent \cup {<< bottom, e.p >>}
      /\ \A r \in asked' : r \in asked \/ (r = << bottom, e.p >> /\ bottom \in Answers[e.p])
      /\ \A r \in pendingValues' : r \in pendingValues \/ (r = << bottom, e.p >> /\ newSource)
      /\ adding' = (rest # {} /\ ~ newSource)
      /\ actions' = IF newSource THEN Queued(actions, {}, rest) ELSE actions
      /\ UNCHANGED << state, later, connected >>
  BY Zenon DEF WaitFor
<1>10. awaiting' \subseteq awaiting \cup held \cup {new} /\ Unique(awaiting')
  <2>1. awaiting \cup held \in SUBSET Waiting /\ {new} \in SUBSET Waiting
    BY <1>2, <1>7, <1>8 DEF WaitingOK
  <2> HIDE DEF held, new
  <2>2. /\ Put(awaiting \cup held, {new}) \subseteq (awaiting \cup held) \cup {new}
        /\ Unique(Put(awaiting \cup held, {new}))
    BY <2>1, PutOK
  <2>3. QED
    BY <1>9, <2>2
<1> HIDE DEF held, new, bottom, dep
<1>11. \A r \in pendingValues' : \E s \in pendingValues : r[1] = s[1] /\ r[2] \in {s[2], e.p}
  BY <1>9
<1>12. pendingValues' \subseteq Proposals \X Peers
  <2> SUFFICES ASSUME NEW r \in pendingValues' PROVE r \in Proposals \X Peers
    OBVIOUS
  <2>1. CASE r \in pendingValues
    BY <1>1, <2>1, Types
  <2>2. CASE r = << bottom, e.p >> /\ newSource
    <3>1. PICK s \in pendingValues : s[1] = bottom
      BY <2>2
    <3>2. bottom \in Proposals
      BY <1>1, <3>1, Types
    <3>3. QED
      BY <1>3, <2>2, <3>2
  <2>3. QED
    BY <1>9, <2>1, <2>2
<1>13. actions' \in Nat /\ (noDeps' # {} /\ ~ adding' => actions' > 0)
  <2>1. actions \in Nat
    BY <1>1, Types
  <2>2. noDeps' = rest /\ adding' = (rest # {} /\ ~ newSource)
        /\ actions' = IF newSource THEN Queued(actions, {}, rest) ELSE actions
    BY <1>9
  <2> HIDE DEF rest, newSource
  <2>3. CASE newSource
    BY <2>1, <2>2, <2>3 DEF Queued
  <2>4. CASE ~ newSource
    BY <2>1, <2>2, <2>4
  <2>5. QED
    BY <2>3, <2>4
<1>14. TypeOK'
  <2>1. noDeps' \subseteq Entry /\ Unique(noDeps') /\ awaiting' \subseteq Waiting
    BY <1>1, <1>7, <1>8, <1>9, <1>10, Types, UniqueSubset
  <2>2. asked' \subseteq Vertices \X Peers /\ requestsSent' \subseteq Vertices \X Peers
    BY <1>1, <1>3, <1>5, <1>9, Types
  <2>3. adding' \in BOOLEAN
    BY <1>9
  <2>4. QED
    BY <1>1, <1>9, <1>10, <1>12, <1>13, <2>1, <2>2, <2>3, Types, TypesNext
<1>15. SoundQueues'
  BY <1>7, <1>8, <1>9, <1>10 DEF IInv, SoundQueues, Sound
<1>16. \A x \in awaiting' : x.dep \notin state'
  BY <1>7, <1>8, <1>9, <1>10 DEF IInv, QueueIsServed
<1>17. ProposalsFit'
  BY <1>9, <1>11 DEF IInv, ProposalsFit, Fits
<1>18. AnswersExist'
  BY <1>9 DEF IInv, AnswersExist
<1>19. StateIsClosed' /\ CorrectStayConnected'
  BY <1>9 DEF IInv, StateIsClosed, CorrectStayConnected
<1>20. QED
  BY <1>13, <1>14, <1>15, <1>16, <1>17, <1>18, <1>19 DEF IInv, QueueIsServed

\* An entry without missing dependencies is dropped, validated or added.
LEMMA AddNextIInv ==
    ASSUME IInv, NEW e \in noDeps, AddNext(e), UNCHANGED << evidenceOnly, past, faults >>
    PROVE  IInv'
<1> DEFINE rest == noDeps \ {e}
           dropped == Dependents(awaiting, {e.v})
<1>1. TypeOK
  BY DEF IInv, QueueIsServed
<1>2. WaitingOK
  BY <1>1, Types DEF IInv, SoundQueues, WaitingOK
<1>3. e.v \in Vertices /\ e.p \in Peers /\ e.v \notin Malformed
  BY <1>1 DEF TypeOK, Entry, IInv, SoundQueues, Sound
<1>4. \A i \in DOMAIN Deps[e.v] : Deps[e.v][i] \in state
  BY <1>3, MissingOK DEF AddNext
<1>5. adding' = FALSE /\ UNCHANGED << later, asked >>
  BY DEF AddNext
<1>6. /\ Queued(actions, {}, rest) \in Nat
      /\ rest # {} => Queued(actions, {}, rest) > 0
  BY <1>1, Types DEF Queued
<1>7. Unique(rest)
  BY <1>1, Types, UniqueSubset
<1>8. CASE e.v \in Invalid
  <2>1. /\ noDeps' = rest
        /\ awaiting' = awaiting \ dropped
        /\ connected' = connected \ Senders(dropped)
        /\ actions' = Queued(actions, {}, rest)
        /\ UNCHANGED << state, requestsSent, pendingValues >>
    BY <1>8 DEF AddNext
  <2>2. \A q \in Correct : q \notin Senders(dropped)
    BY <1>2, <1>8, SendersAreFaulty
  <2> HIDE DEF dropped
  <2>3. Unique(awaiting')
    BY <1>1, <2>1, Types, UniqueSubset
  <2>4. TypeOK'
    BY <1>1, <1>5, <1>6, <1>7, <2>1, <2>3, Types, TypesNext
  <2>5. CorrectStayConnected'
    BY <2>1, <2>2 DEF IInv, CorrectStayConnected
  <2>6. SoundQueues' /\ \A x \in awaiting' : x.dep \notin state'
    BY <1>5, <2>1 DEF IInv, SoundQueues, Sound, QueueIsServed
  <2>7. ProposalsFit' /\ StateIsClosed' /\ AnswersExist'
    BY <1>5, <2>1 DEF IInv, ProposalsFit, Fits, StateIsClosed, AnswersExist
  <2>8. QED
    BY <1>6, <2>1, <2>4, <2>5, <2>6, <2>7 DEF IInv, QueueIsServed
<1>9. CASE e.v \notin Invalid /\ e.v \in Proposals
  <2>1. /\ noDeps' = rest
        /\ pendingValues' = pendingValues \cup {<< e.v, e.p >>}
        /\ actions' = Queued(actions, {}, rest)
        /\ UNCHANGED << state, awaiting, requestsSent, connected >>
    BY <1>9 DEF AddNext
  <2>2. TypeOK'
    <3>1. << e.v, e.p >> \in Proposals \X Peers
      BY <1>3, <1>9
    <3>2. pendingValues' \subseteq Proposals \X Peers
      BY <1>1, <2>1, <3>1, Types
    <3>3. QED
      BY <1>1, <1>5, <1>6, <1>7, <2>1, <3>2, Types, TypesNext
  <2>3. SoundQueues' /\ \A x \in awaiting' : x.dep \notin state'
    BY <1>5, <2>1 DEF IInv, SoundQueues, Sound, QueueIsServed
  <2>4. ProposalsFit'
    BY <1>3, <1>4, <1>9, <2>1 DEF IInv, ProposalsFit, Fits
  <2>5. StateIsClosed' /\ AnswersExist' /\ CorrectStayConnected'
    BY <1>5, <2>1 DEF IInv, StateIsClosed, AnswersExist, CorrectStayConnected
  <2>6. QED
    BY <1>6, <2>1, <2>2, <2>3, <2>4, <2>5 DEF IInv, QueueIsServed
<1>10. CASE e.v \notin Invalid /\ e.v \notin Proposals
  <2>1. Added(state \cup {e.v}, rest, Queued(actions, {}, rest), awaiting)
        /\ UNCHANGED << pendingValues, connected >>
    BY <1>10 DEF AddNext
  <2>2. Fits(e.v)
    BY <1>3, <1>4, <1>10 DEF Fits
  <2>3. QED
    BY <1>3, <1>5, <1>6, <2>1, <2>2, AddedIInv
<1>11. QED
  BY <1>8, <1>9, <1>10

\* A purge changes nothing of the entries that it keeps but their age.
LEMMA AgedOK ==
    ASSUME NEW T \in {Entry, Waiting}, NEW S \in SUBSET T
    PROVE  /\ Aged(S) \subseteq T /\ Unique(Aged(S))
           /\ \A a \in Aged(S) : \E e \in S :
                  a.v = e.v /\ a.p = e.p /\ (T = Waiting => a.dep = e.dep)
<1>1. ASSUME NEW a \in Aged(S)
      PROVE  /\ a \in T /\ a.age = 1
             /\ \E e \in S : a.v = e.v /\ a.p = e.p /\ (T = Waiting => a.dep = e.dep)
  <2>1. PICK e \in S : a = [e EXCEPT !.age = 1]
    BY <1>1 DEF Aged
  <2>2. CASE T = Entry
    <3>1. e \in Entry
      BY <2>2
    <3>2. a \in Entry /\ a.age = 1 /\ a.v = e.v /\ a.p = e.p
      BY <2>1, <3>1 DEF Entry, Age
    <3>3. e \in Waiting => a.dep = e.dep
      BY <2>1 DEF Waiting
    <3>4. QED
      BY <2>2, <3>2, <3>3
  <2>3. CASE T = Waiting
    <3>1. e \in Waiting
      BY <2>3
    <3>2. a \in Waiting /\ a.age = 1 /\ a.v = e.v /\ a.p = e.p /\ a.dep = e.dep
      BY <2>1, <3>1 DEF Waiting, Age
    <3>3. QED
      BY <2>3, <3>2
  <2>4. QED
    BY <2>2, <2>3
<1>2. \A a, b \in Aged(S) : Key(a) = Key(b) => a = b
  BY <1>1, SameEntry
<1>3. QED
  BY <1>1, <1>2 DEF Unique

\* purge_vertices keeps the invariant,
LEMMA PurgeIInv == ASSUME IInv, Purge PROVE IInv'
<1>1. TypeOK
  BY DEF IInv, QueueIsServed
<1>2. noDeps \in SUBSET Entry /\ later \in SUBSET Entry /\ awaiting \in SUBSET Waiting
  BY <1>1, Types
<1>3. /\ noDeps' = Aged(noDeps) /\ awaiting' = Aged(awaiting) /\ later' = Aged(later)
      /\ Quiet \/ faults < MaxFaults
      /\ faults' = IF Quiet THEN faults ELSE faults + 1
      /\ requestsSent' = {}
      /\ UNCHANGED << state, pendingValues, evidenceOnly, actions, adding, asked, past, connected >>
  BY DEF Purge, PurgeQueues
<1>4. /\ noDeps' \subseteq Entry /\ Unique(noDeps')
      /\ \A a \in noDeps' : \E e \in noDeps : a.v = e.v /\ a.p = e.p
  BY <1>2, <1>3, AgedOK
<1>5. /\ later' \subseteq Entry /\ Unique(later')
      /\ \A a \in later' : \E e \in later : a.v = e.v /\ a.p = e.p
  BY <1>2, <1>3, AgedOK
<1>6. /\ awaiting' \subseteq Waiting /\ Unique(awaiting')
      /\ \A a \in awaiting' : \E e \in awaiting : a.v = e.v /\ a.p = e.p /\ a.dep = e.dep
  BY <1>2, <1>3, AgedOK
<1>7. faults' \in 0 .. MaxFaults
  <2> HIDE DEF Quiet
  <2> QED
    BY <1>1, <1>3, Types, BoundAssumption
<1>8. TypeOK'
  BY <1>1, <1>3, <1>4, <1>5, <1>6, <1>7, Types, TypesNext
<1>9. SoundQueues'
  <2>1. \A a \in noDeps' \cup later' : Sound(a)
    BY <1>4, <1>5 DEF IInv, SoundQueues, Sound
  <2>2. \A a \in awaiting' : Sound(a) /\ DependsOn(a.v, a.dep)
    BY <1>6 DEF IInv, SoundQueues, Sound
  <2>3. QED
    BY <2>1, <2>2 DEF SoundQueues, Sound
<1>10. /\ noDeps' # {} => noDeps # {}
       /\ \A a \in awaiting' : a.dep \notin state'
  BY <1>3, <1>4, <1>6 DEF IInv, QueueIsServed
<1>11. ProposalsFit' /\ StateIsClosed' /\ AnswersExist' /\ CorrectStayConnected'
  BY <1>3 DEF IInv, ProposalsFit, Fits, StateIsClosed, AnswersExist, CorrectStayConnected
<1>12. QED
  BY <1>3, <1>8, <1>9, <1>10, <1>11 DEF IInv, QueueIsServed

\* and so does the timer that moves what is no longer in the future.
LEMMA FutureTimerIInv == ASSUME IInv, NEW v \in Vertices, FutureTimer(v) PROVE IInv'
<1> DEFINE due == {e \in later : e.v = v}
<1>1. TypeOK
  BY DEF IInv, QueueIsServed
<1>2. /\ ~ adding /\ v \in Early
      /\ past' = past \cup {v} /\ later' = later \ due
      /\ noDeps' = Put(noDeps, due) /\ actions' = Queued(actions, noDeps, due)
      /\ UNCHANGED << state, awaiting, requestsSent, pendingValues, evidenceOnly, adding, asked,
                      connected, faults >>
  BY DEF FutureTimer
<1>3. due \in SUBSET Entry /\ noDeps \in SUBSET Entry /\ due \subseteq later
  BY <1>1, Types
<1> HIDE DEF due
<1>4. noDeps' \subseteq noDeps \cup due /\ Unique(noDeps')
  BY <1>2, <1>3, PutOK
<1>5. Unique(later')
  BY <1>1, <1>2, Types, UniqueSubset
<1>6. actions' \in Nat /\ (noDeps' # {} => actions' > 0)
  BY <1>1, <1>2, <1>4 DEF IInv, QueueIsServed, Queued, TypeOK
<1>7. TypeOK'
  BY <1>1, <1>2, <1>3, <1>4, <1>5, <1>6, Types, TypesNext
<1>8. SoundQueues' /\ \A e \in awaiting' : e.dep \notin state'
  BY <1>2, <1>3, <1>4 DEF IInv, SoundQueues, Sound, QueueIsServed
<1>9. ProposalsFit' /\ StateIsClosed' /\ AnswersExist' /\ CorrectStayConnected'
  BY <1>2 DEF IInv, ProposalsFit, Fits, StateIsClosed, AnswersExist, CorrectStayConnected
<1>10. QED
  BY <1>6, <1>7, <1>8, <1>9 DEF IInv, QueueIsServed

\* Steps that at most remove what waits.
LEMMA SmallerIInv ==
    ASSUME IInv, noDeps' \subseteq noDeps, awaiting' \subseteq awaiting, later' \subseteq later,
           requestsSent' \subseteq requestsSent, pendingValues' \subseteq pendingValues,
           asked' \subseteq asked, evidenceOnly' \in BOOLEAN, adding' \in BOOLEAN,
           actions' \in Nat, noDeps' # {} /\ ~ adding' => actions' > 0,
           faults' \in 0 .. MaxFaults, UNCHANGED << state, past, connected >>
    PROVE  IInv'
<1>1. TypeOK
  BY DEF IInv, QueueIsServed
<1>2. Unique(noDeps') /\ Unique(awaiting') /\ Unique(later')
  BY <1>1, Types, UniqueSubset
<1>3. TypeOK'
  BY <1>1, <1>2, Types, TypesNext
<1>4. SoundQueues' /\ \A e \in awaiting' : e.dep \notin state'
  BY DEF IInv, SoundQueues, Sound, QueueIsServed
<1>5. ProposalsFit' /\ StateIsClosed' /\ AnswersExist' /\ CorrectStayConnected'
  BY DEF IInv, ProposalsFit, Fits, StateIsClosed, AnswersExist, CorrectStayConnected
<1>6. QED
  BY <1>3, <1>4, <1>5 DEF IInv, QueueIsServed

\* Every step keeps the invariant.
LEMMA NextIInv == IInv /\ [Next]_vars => IInv'
<1> SUFFICES ASSUME IInv, [Next]_vars PROVE IInv'
  OBVIOUS
<1>1. TypeOK
  BY DEF IInv, QueueIsServed
<1>2. /\ evidenceOnly \in BOOLEAN /\ adding \in BOOLEAN
      /\ actions \in Nat /\ faults \in 0 .. MaxFaults
  BY <1>1, Types
<1>3. noDeps # {} /\ ~ adding => actions > 0
  BY DEF IInv, QueueIsServed
<1>4. CASE UNCHANGED vars
  BY <1>2, <1>3, <1>4, SmallerIInv DEF vars, queues
<1>5. CASE StartAdding
  <2>1. /\ ~ adding /\ actions' = actions - 1 /\ actions > 0 /\ adding' = (noDeps # {})
        /\ UNCHANGED << state, queues, evidenceOnly, asked, past, connected, faults >>
    BY <1>5 DEF StartAdding
  <2>2. actions' \in Nat /\ adding' \in BOOLEAN
    BY <1>2, <2>1
  <2>3. noDeps' = noDeps /\ ~ (noDeps' # {} /\ ~ adding')
    BY <2>1 DEF queues
  <2>4. QED
    BY <1>2, <2>1, <2>2, <2>3, SmallerIInv DEF queues
<1>6. CASE Purge
  BY <1>6, PurgeIInv
<1>7. CASE SetEvidenceOnly
  <2>1. /\ state' = {} /\ evidenceOnly' = TRUE /\ ~ adding
        /\ noDeps' = {} /\ awaiting' = {} /\ later' = {} /\ requestsSent' = {}
        /\ pendingValues' = {}
        /\ UNCHANGED << actions, adding, asked, past, connected, faults >>
    BY <1>7 DEF SetEvidenceOnly
  <2>2. Unique(noDeps') /\ Unique(awaiting') /\ Unique(later')
    BY <2>1 DEF Unique
  <2>3. TypeOK'
    BY <1>1, <2>1, <2>2, Types, TypesNext
  <2>4. QED
    BY <2>1, <2>3 DEF IInv, QueueIsServed, SoundQueues, AnswersExist, ProposalsFit,
                      StateIsClosed, CorrectStayConnected
<1>8. ASSUME NEW e \in noDeps, AddVertex(e) PROVE IInv'
  <2>1. adding /\ UNCHANGED << evidenceOnly, past, faults >>
    BY <1>8 DEF AddVertex
  <2>2. CASE SkipKnown(e)
    <3>1. /\ noDeps' = noDeps \ {e} /\ adding' = (noDeps' # {})
          /\ UNCHANGED << state, awaiting, later, requestsSent, pendingValues, actions, asked,
                          connected >>
      BY <2>2 DEF SkipKnown
    <3>2. adding' \in BOOLEAN /\ ~ (noDeps' # {} /\ ~ adding')
      BY <3>1
    <3>3. QED
      BY <1>2, <2>1, <3>1, <3>2, SmallerIInv
  <2>3. CASE WaitFor(e)
    BY <2>1, <2>3, WaitForIInv
  <2>4. CASE AddNext(e)
    BY <2>1, <2>4, AddNextIInv
  <2>5. QED
    BY <1>8, <2>2, <2>3, <2>4 DEF AddVertex
<1>9. ASSUME NEW v \in Vertices, ValueValid(v) PROVE IInv'
  <2>1. PICK p \in Peers : << v, p >> \in pendingValues
    BY <1>9 DEF ValueValid
  <2>2. Fits(v)
    BY <2>1 DEF IInv, ProposalsFit
  <2>3. /\ ~ adding /\ pendingValues' \subseteq pendingValues
        /\ Added(state \cup {v}, noDeps, actions, awaiting)
        /\ UNCHANGED << later, evidenceOnly, adding, asked, past, connected, faults >>
    BY <1>9 DEF ValueValid
  <2>4. adding' = FALSE
    BY <1>2, <2>3
  <2>5. QED
    BY <1>2, <1>3, <2>2, <2>3, <2>4, AddedIInv
<1>10. ASSUME NEW v \in Vertices, ValueInvalid(v) PROVE IInv'
  <2>1. faults' \in 0 .. MaxFaults
    BY <1>2, <1>10, BoundAssumption DEF ValueInvalid
  <2>2. QED
    BY <1>2, <1>3, <1>10, <2>1, SmallerIInv DEF ValueInvalid
<1>11. ASSUME NEW v \in Vertices, FutureTimer(v) PROVE IInv'
  BY <1>11, FutureTimerIInv
<1>12. ASSUME NEW v \in Vertices, NEW p \in Peers, Gossip(v, p) PROVE IInv'
  BY <1>12, ReceiveIInv DEF Gossip, Correct
<1>13. ASSUME NEW v \in Vertices, NEW p \in Peers, Answer(v, p) PROVE IInv'
  <2>1. << v, p >> \in asked /\ ~ adding /\ asked' \subseteq asked /\ Receive(v, p)
    BY <1>13 DEF Answer
  <2>2. v \in Answers[p]
    BY <2>1 DEF IInv, AnswersExist
  <2>3. QED
    BY <2>1, <2>2, ReceiveIInv
<1>14. ASSUME NEW v \in Vertices, NEW p \in Peers, LoseAnswer(v, p) PROVE IInv'
  <2>1. faults' \in 0 .. MaxFaults
    BY <1>2, <1>14, BoundAssumption DEF LoseAnswer
  <2>2. QED
    BY <1>2, <1>3, <1>14, <2>1, SmallerIInv DEF LoseAnswer, queues
<1>15. QED
  BY <1>4, <1>5, <1>6, <1>7, <1>8, <1>9, <1>10, <1>11, <1>12, <1>13, <1>14 DEF Next

-----------------------------------------------------------------------------
(* The theorems.                                                           *)

\* The invariant, from which the others follow: the entries of the queues are
\* what their senders have, and the proposals in validation fit into the state.
THEOREM Invariant == Spec => []IInv
BY InitIInv, NextIInv, PTL DEF Spec

\* QueueIsServed: whenever a vertex is queued a call of add_vertex is, and none
\* waits for what is in the state (schedule_add_vertices, remove_satisfied_deps).
THEOREM QueueServed == Spec => []QueueIsServed
<1>1. IInv => QueueIsServed
  BY DEF IInv
<1>2. QED
  BY <1>1, Invariant, PTL

\* StateIsClosed: no vertex gets into the protocol state before what it depends
\* on, although proposals wait for the block validator meanwhile.
THEOREM StateClosed == Spec => []StateIsClosed
<1>1. IInv => StateIsClosed
  BY DEF IInv
<1>2. QED
  BY <1>1, Invariant, PTL

\* CorrectStayConnected: nobody is disconnected for what others sent, although
\* senders are listed as holders of vertices that they have never sent
\* (find_transitive_dependency, invalid_vertices).
THEOREM CorrectPeersStay == Spec => []CorrectStayConnected
<1>1. IInv => CorrectStayConnected
  BY DEF IInv
<1>2. QED
  BY <1>1, Invariant, PTL
=============================================================================
