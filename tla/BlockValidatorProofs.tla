----------------------- MODULE BlockValidatorProofs -----------------------
(***************************************************************************)
(* Proofs about BlockValidator, for any blocks, deploys, peers and limits, *)
(* and about DeployValidation, which implements it.                        *)
(***************************************************************************)
EXTENDS DeployValidation, SequenceTheorems, FiniteSetTheorems, WellFoundedInduction, TLAPS

Requests == [block : Blocks, sender : Peers, answer : {"none", "yes", "no"}]

\* Types and counters support each other: a counter is a natural number because it
\* is at least the number of the fetches that end.
Counted == TypeOK /\ InFlightCounts

-----------------------------------------------------------------------------
(* Facts about the helpers.                                                *)

\* A sequence of requests is a function on its positions.
LEMMA RequestsAreFunction ==
    ASSUME TypeOK
    PROVE  /\ DOMAIN requests = 1 .. Len(requests)
           /\ Len(requests) \in Nat
           /\ \A r \in DOMAIN requests : requests[r] \in Requests
  <1>1. requests \in Seq(Requests)
    BY DEF TypeOK, Requests
  <1>2. /\ Len(requests) \in Nat
        /\ requests \in [1 .. Len(requests) -> Requests]
        /\ DOMAIN requests = 1 .. Len(requests)
    BY <1>1, LenProperties
  <1> QED
    BY <1>2

\* Answering requests changes nothing but their answers (respond).
LEMMA RespondKeeps ==
    ASSUME TypeOK, NEW no, NEW yes, Respond(no, yes)
    PROVE  /\ requests' \in Seq(Requests)
           /\ Len(requests') = Len(requests)
           /\ DOMAIN requests' = DOMAIN requests
           /\ \A r \in DOMAIN requests : requests'[r].block = requests[r].block
  <1>1. /\ DOMAIN requests = 1 .. Len(requests)
        /\ Len(requests) \in Nat
        /\ \A r \in DOMAIN requests : requests[r] \in Requests
    BY RequestsAreFunction
  <1>2. \A r \in DOMAIN requests :
            requests'[r] \in Requests /\ requests'[r].block = requests[r].block
    BY <1>1 DEF Respond, Requests
  <1>3. requests' \in [1 .. Len(requests) -> Requests]
    BY <1>1, <1>2 DEF Respond
  <1>4. requests' \in Seq(Requests)
    BY <1>1, <1>3, SeqDef
  <1>5. DOMAIN requests' = 1 .. Len(requests)
    BY <1>3
  <1>6. Len(requests') = Len(requests)
    BY <1>1, <1>4, <1>5, LenProperties
  <1> QED
    BY <1>1, <1>2, <1>4, <1>5, <1>6

\* A new request comes last.
LEMMA NewRequestLast ==
    ASSUME TypeOK, Len(requests) < MaxRequests,
           NEW b \in Blocks, NEW sender \in Peers, NEW answer \in {"none", "yes", "no"},
           NewRequest(b, sender, answer)
    PROVE  /\ requests' \in Seq(Requests)
           /\ Len(requests') = Len(requests) + 1
           /\ Len(requests') <= MaxRequests
           /\ Len(requests) + 1 \in 1 .. MaxRequests
           /\ DOMAIN requests' = DOMAIN requests \cup {Len(requests) + 1}
           /\ Len(requests) + 1 \notin DOMAIN requests
           /\ \A r \in DOMAIN requests : requests'[r] = requests[r]
           /\ requests'[Len(requests) + 1] = [block |-> b, sender |-> sender, answer |-> answer]
  <1> DEFINE new == [block |-> b, sender |-> sender, answer |-> answer]
  <1>1. requests \in Seq(Requests) /\ new \in Requests
    BY DEF TypeOK, Requests
  <1>2. requests' = Append(requests, new)
    BY DEF NewRequest
  <1> HIDE DEF new
  <1>3. /\ requests' \in Seq(Requests)
        /\ Len(requests') = Len(requests) + 1
        /\ \A i \in 1 .. Len(requests) : requests'[i] = requests[i]
        /\ requests'[Len(requests) + 1] = new
    BY <1>1, <1>2, AppendProperties
  <1>4. Len(requests) \in Nat /\ DOMAIN requests = 1 .. Len(requests)
        /\ DOMAIN requests' = 1 .. Len(requests')
    BY <1>1, <1>3, LenProperties
  <1>5. DOMAIN requests' = DOMAIN requests \cup {Len(requests) + 1}
    BY <1>3, <1>4
  <1> QED
    BY <1>3, <1>4, <1>5, BlocksAssumption DEF new

\* The end of a fetch, with types and counters.
LEMMA EndFetchCounts ==
    ASSUME Counted, NEW dt \in DeployOrTransfer, EndFetch(dt)
    PROVE  /\ fetches' \in [DeployOrTransfer -> Nat]
           /\ inFlight' \in [Deploys -> Nat]
           /\ InFlightCounts'
  <1>1. dt[1] \in Deploys /\ dt[2] \in Kinds /\ dt = <<dt[1], dt[2]>>
    BY DEF DeployOrTransfer
  <1>2. inFlight[dt[1]] \in Nat /\ inFlight[dt[1]] > 0
    <2> DEFINE d == <<dt[1], "Deploy">>
               t == <<dt[1], "Transfer">>
    <2>1. d \in DeployOrTransfer /\ t \in DeployOrTransfer /\ dt \in {d, t}
      BY <1>1 DEF DeployOrTransfer, Kinds
    <2>2. inFlight[dt[1]] = fetches[d] + fetches[t]
      BY <1>1 DEF Counted, InFlightCounts
    <2> HIDE DEF d, t
    <2> QED
      BY <2>1, <2>2 DEF EndFetch, Counted, TypeOK
  <1>3. inFlight' \in [Deploys -> Nat] /\ fetches' \in [DeployOrTransfer -> Nat]
    BY <1>1, <1>2 DEF Counted, TypeOK, EndFetch
  <1>4. ASSUME NEW h \in Deploys
        PROVE  inFlight'[h] = fetches'[<<h, "Deploy">>] + fetches'[<<h, "Transfer">>]
    <2>1. <<h, "Deploy">> \in DeployOrTransfer /\ <<h, "Transfer">> \in DeployOrTransfer
      BY DEF DeployOrTransfer, Kinds
    <2>2. inFlight[h] = fetches[<<h, "Deploy">>] + fetches[<<h, "Transfer">>]
      BY DEF Counted, InFlightCounts
    <2>3. CASE h # dt[1]
      BY <1>1, <2>1, <2>2, <2>3 DEF EndFetch, Counted, TypeOK
    <2>4. CASE dt = <<h, "Deploy">>
      BY <1>1, <2>1, <2>2, <2>4 DEF EndFetch, Counted, TypeOK
    <2>5. CASE dt = <<h, "Transfer">>
      BY <1>1, <2>1, <2>2, <2>5 DEF EndFetch, Counted, TypeOK
    <2> QED
      BY <1>1, <2>3, <2>4, <2>5 DEF Kinds
  <1> QED
    BY <1>3, <1>4 DEF InFlightCounts

-----------------------------------------------------------------------------
(* Types and counters.                                                     *)

LEMMA CountedStep == Counted /\ [Next]_vars => Counted'
  <1> SUFFICES ASSUME Counted, [Next]_vars PROVE Counted'
    OBVIOUS
  <1>0. TypeOK
    BY DEF Counted
  <1>1. ASSUME NEW b \in Blocks, NEW sender \in Peers, AnswerRequest(b, sender)
        PROVE  Counted'
    <2>1. ImmediateAnswer(b) \in {"none", "yes", "no"}
      BY DEF ImmediateAnswer
    <2>2. requests' \in Seq(Requests) /\ Len(requests') <= MaxRequests
      BY <1>0, <1>1, <2>1, NewRequestLast DEF AnswerRequest
    <2> QED
      BY <1>1, <2>2 DEF AnswerRequest, Counted, TypeOK, InFlightCounts, Requests
  <1>2. ASSUME NEW b \in Blocks, NEW sender \in Peers, JoinRequest(b, sender)
        PROVE  Counted'
    <2>1. /\ requests' \in Seq(Requests)
          /\ Len(requests') <= MaxRequests
          /\ Len(requests) + 1 \in 1 .. MaxRequests
      BY <1>0, <1>2, NewRequestLast DEF JoinRequest
    <2>2. states[b] \in State
      BY <1>2 DEF JoinRequest, Counted, TypeOK
    <2>3. AddSource(states[b].sources, sender) \in Seq(Peers)
      BY <2>2, AppendProperties DEF AddSource, State
    <2>4. states' \in [Blocks -> State \cup {None}]
      BY <1>0, <1>2, <2>1, <2>2, <2>3 DEF JoinRequest, TypeOK, State
    <2> QED
      BY <1>2, <2>1, <2>4 DEF JoinRequest, Counted, TypeOK, InFlightCounts, Requests
  <1>3. ASSUME NEW b \in Blocks, NEW sender \in Peers, StartRequest(b, sender)
        PROVE  Counted'
    <2>1. /\ requests' \in Seq(Requests)
          /\ Len(requests') <= MaxRequests
          /\ Len(requests) + 1 \in 1 .. MaxRequests
      BY <1>0, <1>3, NewRequestLast DEF StartRequest
    <2>2. states' \in [Blocks -> State \cup {None}]
      BY <1>0, <1>3, <2>1, BlocksAssumption, EmptySeq DEF StartRequest, TypeOK, State
    <2>3. fetches' \in [DeployOrTransfer -> Nat] /\ inFlight' \in [Deploys -> Nat]
      BY <1>0, <1>3 DEF StartRequest, TypeOK
    <2>4. ASSUME NEW h \in Deploys
          PROVE  inFlight'[h] = fetches'[<<h, "Deploy">>] + fetches'[<<h, "Transfer">>]
      <3> DEFINE d == <<h, "Deploy">>
                 t == <<h, "Transfer">>
      <3>1. d \in DeployOrTransfer /\ t \in DeployOrTransfer
        BY DEF DeployOrTransfer, Kinds
      <3>2. /\ inFlight'[h] = inFlight[h] + (IF d \in Content[b] THEN 1 ELSE 0)
                                          + (IF t \in Content[b] THEN 1 ELSE 0)
            /\ fetches'[d] = fetches[d] + IF d \in Content[b] THEN 1 ELSE 0
            /\ fetches'[t] = fetches[t] + IF t \in Content[b] THEN 1 ELSE 0
        BY <1>3, <3>1 DEF StartRequest
      <3>3. inFlight[h] = fetches[d] + fetches[t]
        BY DEF Counted, InFlightCounts
      <3>4. inFlight[h] \in Nat /\ fetches[d] \in Nat /\ fetches[t] \in Nat
        BY <1>0, <3>1 DEF TypeOK
      <3> HIDE DEF d, t
      <3>5. inFlight'[h] = fetches'[d] + fetches'[t]
        BY <3>2, <3>3, <3>4
      <3> QED
        BY <3>5 DEF d, t
    <2> QED
      BY <2>1, <2>2, <2>3, <2>4 DEF Counted, TypeOK, InFlightCounts, Requests
  <1>4. ASSUME NEW dt \in DeployOrTransfer, DeployFound(dt)
        PROVE  Counted'
    <2>1. PICK no, yes : Respond(no, yes)
      BY <1>4 DEF DeployFound
    <2>2. requests' \in Seq(Requests) /\ Len(requests') = Len(requests)
      BY <1>0, <2>1, RespondKeeps
    <2>3. states' \in [Blocks -> State \cup {None}]
      BY <1>0, <1>4 DEF DeployFound, TypeOK, State, Waiting
    <2> QED
      BY <1>0, <1>4, <2>2, <2>3, EndFetchCounts DEF DeployFound, Counted, TypeOK, Requests
  <1>5. ASSUME NEW dt \in DeployOrTransfer, CannotConvertDeploy(dt) \/ GiveUpMissing(dt)
        PROVE  Counted'
    <2>1. PICK no, yes : Respond(no, yes)
      BY <1>5 DEF CannotConvertDeploy, GiveUpMissing
    <2>2. requests' \in Seq(Requests) /\ Len(requests') = Len(requests)
      BY <1>0, <2>1, RespondKeeps
    <2>3. states' \in [Blocks -> State \cup {None}]
      BY <1>0, <1>5 DEF CannotConvertDeploy, GiveUpMissing, TypeOK
    <2> QED
      BY <1>0, <1>5, <2>2, <2>3, EndFetchCounts
         DEF CannotConvertDeploy, GiveUpMissing, Counted, TypeOK, Requests
  <1>6. ASSUME NEW dt \in DeployOrTransfer, IgnoreMissing(dt)
        PROVE  Counted'
    BY <1>6, EndFetchCounts DEF IgnoreMissing, Counted, TypeOK
  <1>7. ASSUME NEW dt \in DeployOrTransfer, NEW b \in Retriable(dt),
               NEW failed \in SUBSET (Waiting(dt) \ Retriable(dt)), RetryMissing(dt, b, failed)
        PROVE  Counted'
    <2>1. requests' \in Seq(Requests) /\ Len(requests') = Len(requests)
      BY <1>0, <1>7, RespondKeeps DEF RetryMissing
    <2>2. states[b] \in State /\ states[b].sources # <<>> /\ b \in Blocks
      BY <1>0, <1>7 DEF Retriable, Waiting, TypeOK
    <2>3. SourcesLeft(states[b].sources) \in Seq(Peers)
      BY <2>2, HeadTailProperties DEF SourcesLeft, State
    <2>4. [states[b] EXCEPT !.sources = SourcesLeft(@)] \in State
      BY <2>2, <2>3 DEF State
    <2>5. states' \in [Blocks -> State \cup {None}]
      BY <1>0, <1>7, <2>4 DEF RetryMissing, TypeOK
    <2> QED
      BY <1>7, <2>1, <2>5 DEF RetryMissing, Counted, TypeOK, InFlightCounts, Requests
  <1>8. CASE UNCHANGED vars
    BY <1>8 DEF vars, Counted, TypeOK, InFlightCounts
  <1> QED
    BY <1>1, <1>2, <1>3, <1>4, <1>5, <1>6, <1>7, <1>8 DEF Next, FetchEnds

LEMMA CountedInit == Init => Counted
  <1> SUFFICES ASSUME Init PROVE Counted
    OBVIOUS
  <1>1. requests \in Seq(Requests) /\ Len(requests) = 0
    BY EmptySeq DEF Init
  <1>2. \A h \in Deploys : <<h, "Deploy">> \in DeployOrTransfer /\ <<h, "Transfer">> \in DeployOrTransfer
    BY DEF DeployOrTransfer, Kinds
  <1> QED
    BY <1>1, <1>2, BlocksAssumption DEF Init, Counted, TypeOK, InFlightCounts, Requests

LEMMA AlwaysCounted == Spec => []Counted
  BY CountedInit, CountedStep, PTL DEF Spec

\* Type correctness of the block validator.
THEOREM ValidatorTyped == Spec => []TypeOK
  <1>1. Counted => TypeOK
    BY DEF Counted
  <1> QED
    BY <1>1, AlwaysCounted, PTL

\* in_flight counts the fetches that have not ended, for whatever blocks: the panic
\* of KeyedCounter::dec cannot happen.
THEOREM FetchesCounted == Spec => []InFlightCounts
  <1>1. Counted => InFlightCounts
    BY DEF Counted
  <1> QED
    BY <1>1, AlwaysCounted, PTL

-----------------------------------------------------------------------------
(* Every request is answered once, with its block.                         *)

\* The blocks in no and yes are dropped, all others keep their responders.
Drops(no, yes) ==
    \A b \in Blocks :
        IF b \in no \cup yes THEN states'[b] = None
        ELSE /\ states'[b] = None <=> states[b] = None
             /\ states[b] # None => states'[b].responders = states[b].responders

\* Blocks that are dropped together with an answer leave no requester behind.
LEMMA DropsKeepRegistered ==
    ASSUME TypeOK, WaitingIsRegistered, NEW no, NEW yes, Respond(no, yes), Drops(no, yes)
    PROVE  WaitingIsRegistered'
  <1>1. /\ DOMAIN requests' = DOMAIN requests
        /\ \A r \in DOMAIN requests : requests'[r].block = requests[r].block
    BY RespondKeeps
  <1>2. \A r \in DOMAIN requests : requests[r] \in Requests
    BY RequestsAreFunction
  <1>3. ASSUME NEW r \in DOMAIN requests,
               requests[r].block \in no \cup yes, r \in states[requests[r].block].responders
        PROVE  requests'[r].answer # "none"
    BY <1>2, <1>3 DEF Respond, Requests
  <1>4. ASSUME NEW r \in DOMAIN requests,
               ~ (requests[r].block \in no \cup yes /\ r \in states[requests[r].block].responders)
        PROVE  requests'[r] = requests[r]
    BY <1>4 DEF Respond
  <1>5. ASSUME NEW r \in DOMAIN requests'
        PROVE  requests'[r].answer = "none"
                 <=> /\ states'[requests'[r].block] # None
                     /\ r \in states'[requests'[r].block].responders
    <2> DEFINE b == requests[r].block
    <2>1. b \in Blocks /\ requests'[r].block = b
      BY <1>1, <1>2 DEF Requests
    <2>2. requests[r].answer = "none" <=> states[b] # None /\ r \in states[b].responders
      BY <1>1 DEF WaitingIsRegistered
    <2>3. CASE b \in no \cup yes
      BY <1>1, <1>3, <1>4, <2>1, <2>2, <2>3 DEF Drops
    <2>4. CASE b \notin no \cup yes
      BY <1>1, <1>4, <2>1, <2>2, <2>4 DEF Drops
    <2> QED
      BY <2>3, <2>4
  <1>6. ASSUME NEW b \in Blocks, states'[b] # None, NEW r \in states'[b].responders
        PROVE  r \in DOMAIN requests' /\ requests'[r].block = b
    BY <1>1, <1>6 DEF Drops, WaitingIsRegistered
  <1> QED
    BY <1>5, <1>6 DEF WaitingIsRegistered

Registered == Counted /\ WaitingIsRegistered

LEMMA RegisteredStep == Registered /\ [Next]_vars => WaitingIsRegistered'
  <1> SUFFICES ASSUME Registered, [Next]_vars PROVE WaitingIsRegistered'
    OBVIOUS
  <1>0. TypeOK /\ WaitingIsRegistered
    BY DEF Registered, Counted
  <1>1. ASSUME NEW b \in Blocks, NEW sender \in Peers, AnswerRequest(b, sender)
        PROVE  WaitingIsRegistered'
    <2>1. ImmediateAnswer(b) \in {"yes", "no"}
      BY <1>1 DEF AnswerRequest, ImmediateAnswer
    <2> DEFINE n == Len(requests) + 1
    <2>2. /\ DOMAIN requests' = DOMAIN requests \cup {n}
          /\ n \notin DOMAIN requests
          /\ \A r \in DOMAIN requests : requests'[r] = requests[r]
          /\ requests'[n] = [block |-> b, sender |-> sender, answer |-> ImmediateAnswer(b)]
      BY <1>0, <1>1, <2>1, NewRequestLast DEF AnswerRequest
    <2> HIDE DEF n
    <2> QED
      BY <1>0, <1>1, <2>1, <2>2 DEF AnswerRequest, WaitingIsRegistered
  <1>2. ASSUME NEW b \in Blocks, NEW sender \in Peers,
               JoinRequest(b, sender) \/ StartRequest(b, sender)
        PROVE  WaitingIsRegistered'
    <2> DEFINE n == Len(requests) + 1
    <2>1. /\ DOMAIN requests' = DOMAIN requests \cup {n}
          /\ n \notin DOMAIN requests
          /\ \A r \in DOMAIN requests : requests'[r] = requests[r]
          /\ requests'[n] = [block |-> b, sender |-> sender, answer |-> "none"]
      BY <1>0, <1>2, NewRequestLast DEF JoinRequest, StartRequest
    <2>2. \A r \in DOMAIN requests : requests[r].block \in Blocks
      BY <1>0, RequestsAreFunction DEF Requests
    <2>3. \A x \in Blocks : x # b => states'[x] = states[x]
      BY <1>0, <1>2 DEF JoinRequest, StartRequest, TypeOK
    <2>4. /\ states'[b] # None
          /\ states'[b].responders =
                 (IF states[b] = None THEN {} ELSE states[b].responders) \cup {n}
      <3>1. CASE JoinRequest(b, sender)
        <4>1. states[b] \in State
          BY <1>0, <3>1 DEF JoinRequest, TypeOK
        <4>2. states'[b] = [states[b] EXCEPT !.responders = @ \cup {n},
                                             !.sources = AddSource(@, sender)]
          BY <1>0, <3>1 DEF JoinRequest, TypeOK
        <4>3. states'[b].responders = states[b].responders \cup {n}
          BY <4>1, <4>2 DEF State
        <4>4. states'[b] # None
          <5>1. AddSource(states[b].sources, sender) \in Seq(Peers)
            BY <4>1, AppendProperties DEF AddSource, State
          <5>2. n \in 1 .. MaxRequests
            BY <1>0, <3>1, NewRequestLast DEF JoinRequest
          <5>3. states'[b] \in State
            BY <4>1, <4>2, <5>1, <5>2 DEF State
          <5> QED
            BY <5>3, NoStateAssumption
        <4> QED
          BY <3>1, <4>3, <4>4 DEF JoinRequest
      <3>2. CASE StartRequest(b, sender)
        <4>1. states'[b] = [missing |-> Content[b], added |-> {}, responders |-> {n},
                            sources |-> <<>>]
          BY <1>0, <3>2 DEF StartRequest, TypeOK
        <4>2. n \in 1 .. MaxRequests
          BY <1>0, <3>2, NewRequestLast DEF StartRequest
        <4>3. states'[b] \in State
          BY <4>1, <4>2, BlocksAssumption, EmptySeq DEF State
        <4> QED
          <5>1. states[b] = None
            BY <3>2 DEF StartRequest
          <5>2. states'[b].responders = {n}
            BY <4>1
          <5>3. states'[b] # None
            BY <4>3, NoStateAssumption
          <5> QED
            BY <5>1, <5>2, <5>3
      <3> QED
        BY <1>2, <3>1, <3>2
    <2> HIDE DEF n
    <2>5. ASSUME NEW r \in DOMAIN requests'
          PROVE  requests'[r].answer = "none"
                   <=> /\ states'[requests'[r].block] # None
                       /\ r \in states'[requests'[r].block].responders
      <3>1. CASE r = n
        BY <2>1, <2>4, <3>1
      <3>2. CASE r # n /\ requests[r].block = b
        BY <1>0, <2>1, <2>4, <3>2 DEF WaitingIsRegistered
      <3>3. CASE r # n /\ requests[r].block # b
        BY <1>0, <2>1, <2>2, <2>3, <3>3 DEF WaitingIsRegistered
      <3> QED
        BY <3>1, <3>2, <3>3
    <2>6. ASSUME NEW x \in Blocks, states'[x] # None, NEW r \in states'[x].responders
          PROVE  r \in DOMAIN requests' /\ requests'[r].block = x
      BY <1>0, <2>1, <2>3, <2>4, <2>6 DEF WaitingIsRegistered
    <2> QED
      BY <2>5, <2>6 DEF WaitingIsRegistered
  <1>3. ASSUME NEW dt \in DeployOrTransfer, DeployFound(dt)
        PROVE  WaitingIsRegistered'
    <2> DEFINE no == {b \in Waiting(dt) : ~ Fits(b, states[b].added, dt)}
               yes == CompleteWith(dt) \ no
    <2>1. Respond(no, yes)
      BY <1>3 DEF DeployFound
    <2>2. ASSUME NEW b \in Waiting(dt)
          PROVE  /\ states[b] \in State
                 /\ [states[b] EXCEPT !.missing = @ \ {dt}, !.added = @ \cup {dt}] \in State
                 /\ [states[b] EXCEPT !.missing = @ \ {dt}, !.added = @ \cup {dt}].responders
                      = states[b].responders
      BY <1>0 DEF Waiting, TypeOK, State
    <2>3. /\ no \cup yes \subseteq Waiting(dt)
          /\ \A b \in Blocks : states'[b] =
                 IF b \in no \cup yes THEN None
                 ELSE IF b \in Waiting(dt)
                 THEN [states[b] EXCEPT !.missing = @ \ {dt}, !.added = @ \cup {dt}]
                 ELSE states[b]
      BY <1>3 DEF DeployFound, CompleteWith
    <2>4. \A b \in Waiting(dt) : states[b] # None
      BY DEF Waiting
    <2> HIDE DEF no, yes
    <2>5. Drops(no, yes)
      BY <2>2, <2>3, <2>4, NoStateAssumption DEF Drops
    <2> QED
      BY <1>0, <2>1, <2>5, DropsKeepRegistered
  <1>4. ASSUME NEW dt \in DeployOrTransfer, CannotConvertDeploy(dt) \/ GiveUpMissing(dt)
        PROVE  WaitingIsRegistered'
    <2>1. Respond(Waiting(dt), {})
      BY <1>4 DEF CannotConvertDeploy, GiveUpMissing
    <2>2. Drops(Waiting(dt), {})
      BY <1>4 DEF CannotConvertDeploy, GiveUpMissing, Drops
    <2> QED
      BY <1>0, <2>1, <2>2, DropsKeepRegistered
  <1>5. ASSUME NEW dt \in DeployOrTransfer, IgnoreMissing(dt)
        PROVE  WaitingIsRegistered'
    BY <1>0, <1>5 DEF IgnoreMissing, WaitingIsRegistered
  <1>6. ASSUME NEW dt \in DeployOrTransfer, NEW b \in Retriable(dt),
               NEW failed \in SUBSET (Waiting(dt) \ Retriable(dt)), RetryMissing(dt, b, failed)
        PROVE  WaitingIsRegistered'
    <2>1. states[b] \in State /\ states[b].sources # <<>> /\ states[b] # None /\ b \in Blocks
      BY <1>0, <1>6 DEF Retriable, Waiting, TypeOK
    <2>2. SourcesLeft(states[b].sources) \in Seq(Peers)
      BY <2>1, HeadTailProperties DEF SourcesLeft, State
    <2> DEFINE popped == [states[b] EXCEPT !.sources = SourcesLeft(@)]
    <2>3. popped \in State /\ popped.responders = states[b].responders
      BY <2>1, <2>2 DEF State
    <2>4. \A x \in Blocks : states'[x] =
              IF x \in failed THEN None ELSE IF x = b THEN popped ELSE states[x]
      BY <1>6 DEF RetryMissing
    <2> HIDE DEF popped
    <2>5. Drops(failed, {})
      BY <2>1, <2>3, <2>4, NoStateAssumption DEF Drops
    <2> QED
      BY <1>0, <1>6, <2>5, DropsKeepRegistered DEF RetryMissing
  <1>7. CASE UNCHANGED vars
    BY <1>0, <1>7 DEF vars, WaitingIsRegistered
  <1> QED
    BY <1>1, <1>2, <1>3, <1>4, <1>5, <1>6, <1>7 DEF Next, FetchEnds

\* Every request without an answer is registered with its block and will get the
\* block's answer; no responder is dropped or answered twice.
THEOREM NobodyForgotten == Spec => []WaitingIsRegistered
  <1>1. Init => WaitingIsRegistered
    BY DEF Init, WaitingIsRegistered
  <1>2. Counted /\ WaitingIsRegistered /\ [Next]_vars => WaitingIsRegistered'
    BY RegisteredStep DEF Registered
  <1> QED
    BY <1>1, <1>2, AlwaysCounted, PTL DEF Spec

-----------------------------------------------------------------------------
(* A block that is called valid is valid.                                  *)

\* What is known of the deploys of block b in set added.
Fitting(b, added) ==
    /\ \A x \in added : IsConvertible(x) /\ <<b, x[1]>> \notin InvalidIn
    /\ \A x, y \in added : x[1] = y[1] => x = y
    /\ \A kind \in Kinds : Cardinality({x \in added : x[2] = kind}) <= MaxCount[kind]

\* The deploys of a block in validation are missing or were added, one by one.
Progress(b) ==
    /\ b \notin Replayed
    /\ states[b].missing \cup states[b].added = Content[b]
    /\ Fitting(b, states[b].added)

AllProgress == \A b \in Blocks : states[b] # None => Progress(b)

\* A deploy that fits can be added (add_deploy, add_transfer).
LEMMA FittingGrows ==
    ASSUME NEW b \in Blocks, NEW added \in SUBSET Content[b], NEW dt \in Content[b],
           Fitting(b, added), IsConvertible(dt), Fits(b, added, dt)
    PROVE  Fitting(b, added \cup {dt})
  <1>1. IsFiniteSet(added)
    BY BlocksAssumption, FS_Subset
  <1>2. dt[2] \in Kinds
    BY BlocksAssumption DEF DeployOrTransfer
  <1>3. ASSUME NEW kind \in Kinds
        PROVE  Cardinality({x \in added \cup {dt} : x[2] = kind}) <= MaxCount[kind]
    <2> DEFINE S == {x \in added : x[2] = kind}
    <2>1. IsFiniteSet(S) /\ Cardinality(S) \in Nat /\ Cardinality(S) <= MaxCount[kind]
          /\ MaxCount[kind] \in Nat
      BY <1>1, FS_Subset, FS_CardinalityType, BlocksAssumption DEF Fitting
    <2>2. CASE dt[2] = kind
      <3>1. Cardinality(S) # MaxCount[kind] /\ dt \notin S
        BY <2>2 DEF Fits
      <3> DEFINE T == {x \in added \cup {dt} : x[2] = kind}
      <3>2. T = S \cup {dt}
        BY <2>2
      <3>3. Cardinality(S \cup {dt}) = Cardinality(S) + 1
        BY <2>1, <3>1, FS_AddElement
      <3>4. Cardinality(S) + 1 <= MaxCount[kind]
        <4> HIDE DEF S
        <4> QED
          BY <2>1, <3>1
      <3>5. Cardinality(T) <= MaxCount[kind]
        <4> HIDE DEF S, T
        <4> QED
          BY <3>2, <3>3, <3>4
      <3> QED
        BY <3>5
    <2>3. CASE dt[2] # kind
      <3>1. {x \in added \cup {dt} : x[2] = kind} = S
        BY <2>3
      <3> QED
        BY <2>1, <3>1
    <2> QED
      BY <2>2, <2>3
  <1>4. \A x \in added : x[1] # dt[1]
    BY DEF Fits
  <1>5. \A x, y \in added \cup {dt} : x[1] = y[1] => x = y
    BY <1>4 DEF Fitting
  <1>6. \A x \in added \cup {dt} : IsConvertible(x) /\ <<b, x[1]>> \notin InvalidIn
    BY DEF Fitting, Fits
  <1> QED
    BY <1>3, <1>5, <1>6 DEF Fitting

\* A block without deploys fits.
LEMMA NothingFits ==
    ASSUME NEW b
    PROVE  Fitting(b, {})
  <1>1. \A kind \in Kinds : {x \in {} : x[2] = kind} = {}
    OBVIOUS
  <1>2. Cardinality({}) = 0
    BY FS_EmptySet
  <1> QED
    BY <1>1, <1>2, BlocksAssumption DEF Fitting

\* A block that fits with all its deploys is valid.
LEMMA FittingIsValid ==
    ASSUME NEW b \in Blocks, b \notin Replayed \/ Content[b] = {}, Fitting(b, Content[b])
    PROVE  Valid(b)
  BY DEF Valid, Fitting, IsConvertible

\* The state of a block after dt was added.
With(b, dt) == [states[b] EXCEPT !.missing = @ \ {dt}, !.added = @ \cup {dt}]

LEMMA AllProgressStep == Counted /\ AllProgress /\ [Next]_vars => AllProgress'
  <1> SUFFICES ASSUME Counted, AllProgress, [Next]_vars PROVE AllProgress'
    OBVIOUS
  <1>0. TypeOK
    BY DEF Counted
  <1>1. ASSUME \A b \in Blocks :
                   states'[b] = None \/ states'[b] = states[b]
        PROVE  AllProgress'
    BY <1>1 DEF AllProgress, Progress
  <1>2. ASSUME NEW b \in Blocks, NEW sender \in Peers, JoinRequest(b, sender)
        PROVE  AllProgress'
    <2>1. states[b] \in State /\ states[b] # None
      BY <1>0, <1>2 DEF JoinRequest, TypeOK
    <2>2. states'[b].missing = states[b].missing /\ states'[b].added = states[b].added
      BY <1>0, <1>2, <2>1 DEF JoinRequest, TypeOK, State
    <2>3. \A x \in Blocks : x # b => states'[x] = states[x]
      BY <1>0, <1>2 DEF JoinRequest, TypeOK
    <2> QED
      BY <2>1, <2>2, <2>3 DEF AllProgress, Progress
  <1>3. ASSUME NEW b \in Blocks, NEW sender \in Peers, StartRequest(b, sender)
        PROVE  AllProgress'
    <2>1. states'[b] = [missing |-> Content[b], added |-> {}, responders |-> {Len(requests) + 1},
                        sources |-> <<>>]
      BY <1>0, <1>3 DEF StartRequest, TypeOK
    <2>2. \A x \in Blocks : x # b => states'[x] = states[x]
      BY <1>0, <1>3 DEF StartRequest, TypeOK
    <2>3. b \notin Replayed
      BY <1>3 DEF StartRequest, ImmediateAnswer
    <2>4. states'[b].missing = Content[b] /\ states'[b].added = {}
      BY <2>1
    <2> QED
      BY <2>2, <2>3, <2>4, NothingFits DEF AllProgress, Progress
  <1>4. ASSUME NEW dt \in DeployOrTransfer, DeployFound(dt)
        PROVE  AllProgress'
    <2> SUFFICES ASSUME NEW b \in Blocks, states'[b] # None PROVE Progress(b)'
      BY DEF AllProgress
    <2>1. CASE b \notin Waiting(dt)
      <3>1. states'[b] = states[b]
        BY <1>4, <2>1 DEF DeployFound, CompleteWith
      <3> QED
        BY <3>1 DEF AllProgress, Progress
    <2>2. CASE b \in Waiting(dt)
      <3>1. states'[b] = With(b, dt) /\ Fits(b, states[b].added, dt) /\ IsConvertible(dt)
        BY <1>4, <2>2 DEF DeployFound, With
      <3>2. states[b] \in State /\ states[b] # None /\ dt \in states[b].missing
        BY <1>0, <2>2 DEF Waiting, TypeOK
      <3>3. /\ states'[b].missing = states[b].missing \ {dt}
            /\ states'[b].added = states[b].added \cup {dt}
        BY <3>1, <3>2 DEF With, State
      <3>4. /\ b \notin Replayed
            /\ states[b].missing \cup states[b].added = Content[b]
            /\ Fitting(b, states[b].added)
        BY <3>2 DEF AllProgress, Progress
      <3>5. Fitting(b, states[b].added \cup {dt})
        BY <3>1, <3>2, <3>4, FittingGrows
      <3> QED
        BY <3>2, <3>3, <3>4, <3>5 DEF Progress
    <2> QED
      BY <2>1, <2>2
  <1>5. ASSUME NEW dt \in DeployOrTransfer, NEW b \in Retriable(dt),
               NEW failed \in SUBSET (Waiting(dt) \ Retriable(dt)), RetryMissing(dt, b, failed)
        PROVE  AllProgress'
    <2>1. states[b] \in State /\ states[b] # None /\ b \in Blocks
      BY <1>0, <1>5 DEF Retriable, Waiting, TypeOK
    <2>2. [states[b] EXCEPT !.sources = SourcesLeft(@)].missing = states[b].missing
          /\ [states[b] EXCEPT !.sources = SourcesLeft(@)].added = states[b].added
      BY <2>1 DEF State
    <2>3. \A x \in Blocks : states'[x] # None =>
              states'[x].missing = states[x].missing /\ states'[x].added = states[x].added
              /\ states[x] # None
      BY <1>5, <2>1, <2>2 DEF RetryMissing
    <2> QED
      BY <2>3 DEF AllProgress, Progress
  <1>6. CASE UNCHANGED states
    BY <1>1, <1>6
  <1>7. ASSUME NEW dt \in DeployOrTransfer, CannotConvertDeploy(dt) \/ GiveUpMissing(dt)
        PROVE  AllProgress'
    BY <1>1, <1>7 DEF CannotConvertDeploy, GiveUpMissing
  <1> QED
    BY <1>2, <1>3, <1>4, <1>5, <1>6, <1>7 DEF Next, FetchEnds, AnswerRequest, IgnoreMissing, vars

LEMMA YesIsValidStep ==
    Counted /\ AllProgress /\ YesIsValid /\ [Next]_vars => YesIsValid'
  <1> SUFFICES ASSUME Counted, AllProgress, YesIsValid, [Next]_vars PROVE YesIsValid'
    OBVIOUS
  <1>0. TypeOK
    BY DEF Counted
  <1>1. ASSUME NEW no, NEW yes, Respond(no, yes), \A b \in yes : Valid(b)
        PROVE  YesIsValid'
    <2>1. /\ DOMAIN requests' = DOMAIN requests
          /\ \A r \in DOMAIN requests : requests'[r].block = requests[r].block
      BY <1>0, <1>1, RespondKeeps
    <2>2. \A r \in DOMAIN requests : requests[r] \in Requests
      BY <1>0, RequestsAreFunction
    <2>3. ASSUME NEW r \in DOMAIN requests, requests'[r].answer = "yes"
          PROVE  requests[r].answer = "yes" \/ requests[r].block \in yes
      BY <1>1, <2>2, <2>3 DEF Respond, Requests
    <2> QED
      BY <1>1, <2>1, <2>3 DEF YesIsValid
  <1>2. ASSUME NEW b \in Blocks, NEW sender \in Peers, NEW answer \in {"none", "yes", "no"},
               Len(requests) < MaxRequests, NewRequest(b, sender, answer),
               answer = "yes" => Valid(b)
        PROVE  YesIsValid'
    <2> DEFINE n == Len(requests) + 1
    <2>1. /\ DOMAIN requests' = DOMAIN requests \cup {n}
          /\ n \notin DOMAIN requests
          /\ \A r \in DOMAIN requests : requests'[r] = requests[r]
          /\ requests'[n] = [block |-> b, sender |-> sender, answer |-> answer]
      BY <1>0, <1>2, NewRequestLast
    <2> HIDE DEF n
    <2> QED
      BY <1>2, <2>1 DEF YesIsValid
  <1>3. ASSUME NEW b \in Blocks, NEW sender \in Peers, AnswerRequest(b, sender)
        PROVE  YesIsValid'
    <2>1. ImmediateAnswer(b) \in {"none", "yes", "no"}
      BY DEF ImmediateAnswer
    <2>2. CASE Content[b] = {}
      <3>1. Valid(b)
        BY <2>2, NothingFits, FittingIsValid
      <3> QED
        BY <1>2, <1>3, <2>1, <3>1 DEF AnswerRequest
    <2>3. CASE Content[b] # {} /\ ImmediateAnswer(b) = "yes"
      <3>1. states[b] # None /\ states[b].missing = {}
        BY <2>3 DEF ImmediateAnswer
      <3>2. b \notin Replayed /\ states[b].added = Content[b] /\ Fitting(b, states[b].added)
        BY <3>1 DEF AllProgress, Progress
      <3>3. Valid(b)
        BY <3>2, FittingIsValid
      <3> QED
        BY <1>2, <1>3, <2>1, <3>3 DEF AnswerRequest
    <2>4. CASE ImmediateAnswer(b) # "yes"
      BY <1>2, <1>3, <2>1, <2>4 DEF AnswerRequest
    <2> QED
      BY <2>2, <2>3, <2>4
  <1>4. ASSUME NEW b \in Blocks, NEW sender \in Peers,
               JoinRequest(b, sender) \/ StartRequest(b, sender)
        PROVE  YesIsValid'
    BY <1>2, <1>4 DEF JoinRequest, StartRequest
  <1>5. ASSUME NEW dt \in DeployOrTransfer, DeployFound(dt)
        PROVE  YesIsValid'
    <2> DEFINE no == {b \in Waiting(dt) : ~ Fits(b, states[b].added, dt)}
               yes == CompleteWith(dt) \ no
    <2>1. Respond(no, yes) /\ IsConvertible(dt)
      BY <1>5 DEF DeployFound
    <2>2. ASSUME NEW b \in yes PROVE Valid(b)
      <3>1. b \in Blocks /\ states[b] # None /\ states[b].missing = {dt}
            /\ Fits(b, states[b].added, dt)
        BY DEF CompleteWith, Waiting
      <3>2. /\ b \notin Replayed
            /\ {dt} \cup states[b].added = Content[b]
            /\ Fitting(b, states[b].added)
        BY <3>1 DEF AllProgress, Progress
      <3>3. Fitting(b, states[b].added \cup {dt})
        BY <2>1, <3>1, <3>2, FittingGrows
      <3>4. Fitting(b, Content[b])
        <4>1. states[b].added \cup {dt} = Content[b]
          BY <3>2
        <4> QED
          BY <3>3, <4>1
      <3> QED
        BY <3>1, <3>2, <3>4, FittingIsValid
    <2> QED
      BY <1>1, <2>1, <2>2
  <1>6. ASSUME NEW dt \in DeployOrTransfer, CannotConvertDeploy(dt) \/ GiveUpMissing(dt)
        PROVE  YesIsValid'
    BY <1>1, <1>6 DEF CannotConvertDeploy, GiveUpMissing
  <1>7. ASSUME NEW dt \in DeployOrTransfer, NEW b \in Retriable(dt),
               NEW failed \in SUBSET (Waiting(dt) \ Retriable(dt)), RetryMissing(dt, b, failed)
        PROVE  YesIsValid'
    BY <1>1, <1>7 DEF RetryMissing
  <1>8. CASE UNCHANGED requests
    BY <1>8 DEF YesIsValid
  <1> QED
    BY <1>3, <1>4, <1>5, <1>6, <1>7, <1>8 DEF Next, FetchEnds, IgnoreMissing, vars

\* A block is answered with "valid" only if it has no replay, all its deploys are what
\* they are listed as and valid at the block's time, and they respect the limits.
THEOREM OnlyValidBlocks == Spec => []YesIsValid
  <1>1. Init => AllProgress /\ YesIsValid
    BY DEF Init, AllProgress, YesIsValid
  <1> QED
    BY <1>1, AllProgressStep, YesIsValidStep, AlwaysCounted, PTL DEF Spec

-----------------------------------------------------------------------------
(* A block never waits for a deploy that nobody fetches.                   *)

\* Only deploys that a block somebody asked about lists are fetched.
FetchesListed ==
    \A dt \in DeployOrTransfer : fetches[dt] > 0 => Listed(dt)

\* in_flight is kept by hash and the missing deploys by hash and kind.  While the hash
\* is listed with one kind only, its other fetches are fetches of the same kind.
LEMMA OthersAreSame ==
    ASSUME Counted, FetchesListed, NEW dt \in DeployOrTransfer, fetches[dt] > 0,
           ~ TwoKinds(dt[1])
    PROVE  inFlight[dt[1]] = fetches[dt]
  <1>1. dt[1] \in Deploys /\ dt[2] \in Kinds /\ dt = <<dt[1], dt[2]>>
    BY DEF DeployOrTransfer
  <1> DEFINE d == <<dt[1], "Deploy">>
             t == <<dt[1], "Transfer">>
  <1>2. d \in DeployOrTransfer /\ t \in DeployOrTransfer /\ (dt = d \/ dt = t)
    BY <1>1 DEF DeployOrTransfer, Kinds
  <1>3. inFlight[dt[1]] = fetches[d] + fetches[t] /\ fetches[d] \in Nat /\ fetches[t] \in Nat
    BY <1>1, <1>2 DEF Counted, InFlightCounts, TypeOK
  <1>4. ~ (Listed(d) /\ Listed(t))
    BY DEF TwoKinds
  <1> HIDE DEF d, t
  <1>5. ~ (fetches[d] > 0 /\ fetches[t] > 0)
    BY <1>2, <1>4 DEF FetchesListed
  <1> QED
    BY <1>2, <1>3, <1>5

\* What was listed stays listed: requests are only added and answered.
LEMMA ListedStays ==
    ASSUME Counted, [Next]_vars, NEW dt, Listed(dt)
    PROVE  Listed(dt)'
  <1>0. TypeOK
    BY DEF Counted
  <1>1. ASSUME NEW no, NEW yes, Respond(no, yes)
        PROVE  Listed(dt)'
    BY <1>0, <1>1, RespondKeeps DEF Listed
  <1>2. ASSUME NEW b \in Blocks, NEW sender \in Peers, NEW answer \in {"none", "yes", "no"},
               Len(requests) < MaxRequests, NewRequest(b, sender, answer)
        PROVE  Listed(dt)'
    <2>1. /\ DOMAIN requests \subseteq DOMAIN requests'
          /\ \A r \in DOMAIN requests : requests'[r] = requests[r]
      BY <1>0, <1>2, NewRequestLast
    <2> QED
      BY <2>1 DEF Listed
  <1>3. \A b \in Blocks : ImmediateAnswer(b) \in {"none", "yes", "no"}
    BY DEF ImmediateAnswer
  <1>4. ASSUME NEW b \in Blocks, NEW sender \in Peers,
               AnswerRequest(b, sender) \/ JoinRequest(b, sender) \/ StartRequest(b, sender)
        PROVE  Listed(dt)'
    BY <1>2, <1>3, <1>4 DEF AnswerRequest, JoinRequest, StartRequest
  <1>5. CASE UNCHANGED requests
    BY <1>5 DEF Listed
  <1> QED
    BY <1>1, <1>4, <1>5 DEF Next, FetchEnds, DeployFound, CannotConvertDeploy, IgnoreMissing,
       GiveUpMissing, RetryMissing, vars

LEMMA FetchesListedStep == Counted /\ FetchesListed /\ [Next]_vars => FetchesListed'
  <1> SUFFICES ASSUME Counted, FetchesListed, [Next]_vars,
                      NEW dt \in DeployOrTransfer, fetches'[dt] > 0
               PROVE  Listed(dt)'
    BY DEF FetchesListed
  <1>0. TypeOK /\ fetches \in [DeployOrTransfer -> Nat]
    BY DEF Counted, TypeOK
  <1>1. CASE fetches[dt] > 0
    BY <1>1, ListedStays DEF FetchesListed
  <1>2. ASSUME NEW x \in DeployOrTransfer, EndFetch(x)
        PROVE  fetches[dt] > 0
    BY <1>0, <1>2 DEF EndFetch
  <1>3. ASSUME NEW b \in Blocks, NEW sender \in Peers, StartRequest(b, sender),
               dt \in Content[b]
        PROVE  Listed(dt)'
    <2> DEFINE n == Len(requests) + 1
    <2>1. /\ DOMAIN requests' = DOMAIN requests \cup {n}
          /\ requests'[n] = [block |-> b, sender |-> sender, answer |-> "none"]
      BY <1>0, <1>3, NewRequestLast DEF StartRequest
    <2> HIDE DEF n
    <2>2. n \in DOMAIN requests' /\ requests'[n].block = b
      BY <2>1
    <2> QED
      BY <1>3, <2>2 DEF Listed
  <1>4. ASSUME NEW b \in Blocks, NEW sender \in Peers, StartRequest(b, sender)
        PROVE  fetches[dt] > 0 \/ dt \in Content[b]
    BY <1>0, <1>4 DEF StartRequest
  <1>5. CASE UNCHANGED fetches
    BY <1>1, <1>5
  <1> QED
    BY <1>1, <1>2, <1>3, <1>4, <1>5 DEF Next, FetchEnds, AnswerRequest, JoinRequest, DeployFound,
       CannotConvertDeploy, IgnoreMissing, GiveUpMissing, RetryMissing, vars

\* A hash that was listed with two kinds stays so.
LEMMA TwoKindsStay ==
    ASSUME Counted, [Next]_vars, NEW h, TwoKinds(h)
    PROVE  TwoKinds(h)'
  BY ListedStays DEF TwoKinds

LEMMA MissingStep ==
    Counted /\ AllProgress /\ FetchesListed /\ MissingIsFetched /\ [Next]_vars
        => MissingIsFetched'
  <1> SUFFICES ASSUME Counted, AllProgress, FetchesListed, MissingIsFetched, [Next]_vars
               PROVE  MissingIsFetched'
    OBVIOUS
  <1>0. TypeOK /\ fetches \in [DeployOrTransfer -> Nat]
    BY DEF Counted, TypeOK
  <1>1. ASSUME NEW dt \in DeployOrTransfer, EndFetch(dt),
               \A b \in Blocks : states'[b] # None =>
                   /\ states[b] # None
                   /\ states'[b].missing # {}
                   /\ states'[b].missing \subseteq states[b].missing \ {dt}
        PROVE  MissingIsFetched'
    <2>1. \A x \in DeployOrTransfer : x # dt => fetches'[x] = fetches[x]
      BY <1>0, <1>1 DEF EndFetch
    <2>2. \A b \in Blocks : states[b] # None => states[b].missing \subseteq DeployOrTransfer
      BY <1>0 DEF TypeOK, State
    <2> QED
      BY <1>1, <2>1, <2>2, TwoKindsStay DEF MissingIsFetched
  <1>2. ASSUME NEW b \in Blocks, NEW sender \in Peers, JoinRequest(b, sender)
        PROVE  MissingIsFetched'
    <2>1. states[b] \in State /\ states[b] # None
      BY <1>0, <1>2 DEF JoinRequest, TypeOK
    <2>2. states'[b].missing = states[b].missing
      BY <1>0, <1>2, <2>1 DEF JoinRequest, TypeOK, State
    <2>3. \A x \in Blocks : x # b => states'[x] = states[x]
      BY <1>0, <1>2 DEF JoinRequest, TypeOK
    <2> QED
      BY <1>2, <2>1, <2>2, <2>3, TwoKindsStay DEF JoinRequest, MissingIsFetched
  <1>3. ASSUME NEW b \in Blocks, NEW sender \in Peers, StartRequest(b, sender)
        PROVE  MissingIsFetched'
    <2>1. states'[b].missing = Content[b]
      BY <1>0, <1>3 DEF StartRequest, TypeOK
    <2>2. \A x \in Blocks : x # b => states'[x] = states[x]
      BY <1>0, <1>3 DEF StartRequest, TypeOK
    <2>3. Content[b] # {} /\ Content[b] \subseteq DeployOrTransfer
      BY <1>3, BlocksAssumption DEF StartRequest, ImmediateAnswer
    <2>4. \A dt \in DeployOrTransfer : fetches[dt] \in Nat
             /\ fetches'[dt] = fetches[dt] + IF dt \in Content[b] THEN 1 ELSE 0
      BY <1>0, <1>3 DEF StartRequest
    <2>5. \A dt \in DeployOrTransfer : fetches[dt] > 0 \/ dt \in Content[b] => fetches'[dt] > 0
      BY <2>4
    <2>6. \A x \in Blocks : states[x] # None => states[x].missing \subseteq DeployOrTransfer
      BY <1>0 DEF TypeOK, State
    <2> QED
      BY <2>1, <2>2, <2>3, <2>5, <2>6, TwoKindsStay DEF MissingIsFetched
  <1>4. ASSUME NEW dt \in DeployOrTransfer, DeployFound(dt)
        PROVE  MissingIsFetched'
    <2>1. ASSUME NEW b \in Blocks, states'[b] # None
          PROVE  /\ states[b] # None
                 /\ states'[b].missing # {}
                 /\ states'[b].missing \subseteq states[b].missing \ {dt}
      <3>1. CASE b \notin Waiting(dt)
        <4>1. states'[b] = states[b]
          BY <1>4, <3>1 DEF DeployFound, CompleteWith
        <4> QED
          BY <2>1, <3>1, <4>1 DEF Waiting, MissingIsFetched
      <3>2. CASE b \in Waiting(dt)
        <4>1. states'[b] = With(b, dt) /\ b \notin CompleteWith(dt)
          BY <1>4, <2>1, <3>2 DEF DeployFound, With
        <4>2. states[b] \in State /\ states[b] # None /\ dt \in states[b].missing
          BY <1>0, <3>2 DEF Waiting, TypeOK
        <4>3. states'[b].missing = states[b].missing \ {dt}
          BY <4>1, <4>2 DEF With, State
        <4>4. states[b].missing # {dt}
          BY <3>2, <4>1 DEF CompleteWith
        <4> QED
          BY <4>2, <4>3, <4>4
      <3> QED
        BY <3>1, <3>2
    <2>2. EndFetch(dt)
      BY <1>4 DEF DeployFound
    <2> QED
      BY <1>1, <2>1, <2>2
  <1>5. ASSUME NEW dt \in DeployOrTransfer, CannotConvertDeploy(dt) \/ GiveUpMissing(dt)
        PROVE  MissingIsFetched'
    <2>1. ASSUME NEW b \in Blocks, states'[b] # None
          PROVE  states'[b] = states[b] /\ b \notin Waiting(dt)
      BY <1>5, <2>1 DEF CannotConvertDeploy, GiveUpMissing
    <2>2. EndFetch(dt)
      BY <1>5 DEF CannotConvertDeploy, GiveUpMissing
    <2> QED
      BY <1>1, <2>1, <2>2 DEF Waiting, MissingIsFetched
  <1>6. ASSUME NEW dt \in DeployOrTransfer, IgnoreMissing(dt)
        PROVE  MissingIsFetched'
    <2>1. ASSUME NEW b \in Blocks, states[b] # None, NEW x \in states[b].missing,
                 ~ TwoKinds(x[1])
          PROVE  fetches'[x] > 0
      <3>1. x \in DeployOrTransfer
        BY <1>0, <2>1 DEF TypeOK, State
      <3>2. CASE x # dt
        BY <1>0, <1>6, <2>1, <3>1, <3>2 DEF IgnoreMissing, EndFetch, MissingIsFetched
      <3>3. CASE x = dt
        <4>1. inFlight[dt[1]] = fetches[dt]
          BY <1>6, <2>1, <3>3, OthersAreSame DEF IgnoreMissing, EndFetch
        <4>2. fetches[dt] \in Nat /\ fetches[dt] > 1 /\ fetches'[dt] = fetches[dt] - 1
          BY <1>0, <1>6, <4>1 DEF IgnoreMissing, EndFetch
        <4> QED
          BY <3>3, <4>2
      <3> QED
        BY <3>2, <3>3
    <2> QED
      BY <1>6, <2>1, TwoKindsStay DEF IgnoreMissing, MissingIsFetched
  <1>7. ASSUME NEW dt \in DeployOrTransfer, NEW b \in Retriable(dt),
               NEW failed \in SUBSET (Waiting(dt) \ Retriable(dt)), RetryMissing(dt, b, failed)
        PROVE  MissingIsFetched'
    <2>1. states[b] \in State /\ states[b] # None /\ b \in Blocks
      BY <1>0, <1>7 DEF Retriable, Waiting, TypeOK
    <2>2. [states[b] EXCEPT !.sources = SourcesLeft(@)].missing = states[b].missing
      BY <2>1 DEF State
    <2>3. \A x \in Blocks : states'[x] # None =>
              states'[x].missing = states[x].missing /\ states[x] # None
      BY <1>7, <2>1, <2>2 DEF RetryMissing
    <2> QED
      BY <1>7, <2>3, TwoKindsStay DEF RetryMissing, MissingIsFetched
  <1>8. CASE UNCHANGED <<states, fetches>>
    BY <1>8, TwoKindsStay DEF MissingIsFetched
  <1> QED
    BY <1>2, <1>3, <1>4, <1>5, <1>6, <1>7, <1>8 DEF Next, FetchEnds, AnswerRequest, vars

\* A block in validation always has a fetch under way for each of its missing deploys
\* whose hash was not listed with the other kind too: it cannot be stranded when the
\* failures of shared fetches are ignored.
THEOREM NeverStranded == Spec => []MissingIsFetched
  <1>1. Init => AllProgress /\ FetchesListed /\ MissingIsFetched
    BY DEF Init, AllProgress, FetchesListed, MissingIsFetched
  <1> QED
    BY <1>1, MissingStep, AllProgressStep, FetchesListedStep, AlwaysCounted, PTL DEF Spec

-----------------------------------------------------------------------------
(* The validator with the fetcher.                                         *)

\* Whatever the fetcher does, the validator sees fetches that end one by one:
\* DeployValidation implements BlockValidator.
THEOREM FetcherServesValidator == NodeSpec => Spec
<1>1. NodeInit => Init
  BY DEF NodeInit
<1>2. [NodeNext]_allVars => [Next]_vars
  <2> SUFFICES ASSUME [NodeNext]_allVars PROVE [Next]_vars
    OBVIOUS
  <2>1. CASE UNCHANGED allVars
    BY <2>1 DEF allVars
  <2>2. ASSUME NEW b \in Blocks, NEW sender \in Peers,
               Request(b, sender) \/ RequestAndFetch(b, sender)
        PROVE  Next
    BY <2>2 DEF Request, RequestAndFetch, Next
  <2>3. ASSUME NEW dt \in DeployOrTransfer, FetchResult(dt) PROVE Next
    <3>1. CASE FetchSucceeds(dt) \/ FetchFails(dt)
      BY <3>1 DEF FetchSucceeds, FetchFails, FetchEnds, Next
    <3>2. ASSUME NEW b \in Retriable(dt), NEW failed \in SUBSET (Waiting(dt) \ Retriable(dt)),
                 FetchAgain(dt, b, failed)
          PROVE  Next
      BY <3>2 DEF FetchAgain, FetchEnds, Next
    <3>3. QED
      BY <2>3, <3>1, <3>2 DEF FetchResult
  <2>4. CASE UNCHANGED bvVars
    BY <2>4 DEF bvVars
  <2>5. QED
    BY <2>1, <2>2, <2>3, <2>4 DEF NodeNext
<1>3. QED
  BY <1>1, <1>2, PTL DEF NodeSpec, Spec

\* The fetcher's timers: a responder is registered with a timer of its own.
Timed ==
    /\ responders \in [Deploys -> [Peers -> Seq(Kinds)]]
    /\ timers \in [Deploys \X Peers -> Nat]
    /\ F!EveryResponderTimed

\* Every event of the fetcher keeps as many timers as there are responders.
LEMMA TimedStep == Timed /\ [NodeNext]_allVars => Timed'
<1> SUFFICES ASSUME Timed, [NodeNext]_allVars PROVE Timed'
  OBVIOUS
<1>0. /\ \A id \in Deploys, p \in Peers : responders[id][p] \in Seq(Kinds)
      /\ \A id \in Deploys, p \in Peers : timers[<<id, p>>] \in Nat
      /\ \A id \in Deploys, p \in Peers : Len(responders[id][p]) <= timers[<<id, p>>]
  BY DEF Timed, F!EveryResponderTimed
<1>1. CASE UNCHANGED <<responders, timers>>
  BY <1>1 DEF Timed, F!EveryResponderTimed
<1>2. ASSUME NEW f \in F!Fetches, F!AskPeer(f) PROVE Timed'
  <2>1. f[1] \in Deploys /\ f[2] \in Peers /\ f[3] \in Kinds
    BY DEF F!Fetches
  <2>2. PICK id \in Deploys, q \in Peers, asker \in Kinds :
            f[1] = id /\ f[2] = q /\ f[3] = asker
    BY <2>1
  <2>3. /\ responders' = [responders EXCEPT ![id][q] = Append(@, asker)]
        /\ timers' = [timers EXCEPT ![<<id, q>>] = @ + 1]
    BY <1>2, <2>2 DEF F!AskPeer
  <2>4. /\ Append(responders[id][q], asker) \in Seq(Kinds)
        /\ Len(Append(responders[id][q], asker)) = Len(responders[id][q]) + 1
    BY <1>0, AppendProperties
  <2>5. responders' \in [Deploys -> [Peers -> Seq(Kinds)]]
        /\ timers' \in [Deploys \X Peers -> Nat]
    BY <1>0, <2>3, <2>4 DEF Timed
  <2>6. ASSUME NEW i \in Deploys, NEW p \in Peers
        PROVE  Len(responders'[i][p]) <= timers'[<<i, p>>]
    <3>1. CASE i = id /\ p = q
      <4>1. responders'[i][p] = Append(responders[id][q], asker)
            /\ timers'[<<i, p>>] = timers[<<id, q>>] + 1
        BY <2>3, <3>1 DEF Timed
      <4>2. Len(responders[id][q]) \in Nat /\ timers[<<id, q>>] \in Nat
        BY <1>0, LenProperties
      <4>3. QED
        BY <1>0, <2>4, <4>1, <4>2
    <3>2. CASE ~ (i = id /\ p = q)
      <4>1. responders'[i][p] = responders[i][p] /\ timers'[<<i, p>>] = timers[<<i, p>>]
        BY <2>3, <3>2 DEF Timed
      <4>2. QED
        BY <1>0, <4>1
    <3>3. QED
      BY <3>1, <3>2
  <2>7. QED
    BY <2>5, <2>6 DEF Timed, F!EveryResponderTimed
<1>3. ASSUME NEW id \in Deploys, NEW q \in Peers, F!TimeoutPeer(id, q) PROVE Timed'
  <2> DEFINE waiting == responders[id][q]
             left == IF waiting = <<>> THEN waiting ELSE Tail(waiting)
  <2>1. /\ timers[<<id, q>>] > 0
        /\ responders' = [responders EXCEPT ![id][q] = left]
        /\ timers' = [timers EXCEPT ![<<id, q>>] = @ - 1]
    BY <1>3 DEF F!TimeoutPeer, Timed
  <2>2. left \in Seq(Kinds) /\ Len(left) \in Nat /\ Len(left) <= timers[<<id, q>>] - 1
    <3>1. CASE waiting = <<>>
      BY <1>0, <2>1, <3>1
    <3>2. CASE waiting # <<>>
      BY <1>0, <2>1, <3>2
    <3>3. QED
      BY <3>1, <3>2
  <2> HIDE DEF left, waiting
  <2>3. responders' \in [Deploys -> [Peers -> Seq(Kinds)]]
        /\ timers' \in [Deploys \X Peers -> Nat]
    BY <1>0, <2>1, <2>2 DEF Timed
  <2>4. ASSUME NEW i \in Deploys, NEW p \in Peers
        PROVE  Len(responders'[i][p]) <= timers'[<<i, p>>]
    <3>1. CASE i = id /\ p = q
      BY <2>1, <2>2, <3>1 DEF Timed
    <3>2. CASE ~ (i = id /\ p = q)
      <4>1. responders'[i][p] = responders[i][p] /\ timers'[<<i, p>>] = timers[<<i, p>>]
        BY <2>1, <3>2 DEF Timed
      <4>2. QED
        BY <1>0, <4>1
    <3>3. QED
      BY <3>1, <3>2
  <2>5. QED
    BY <2>3, <2>4 DEF Timed, F!EveryResponderTimed
<1>4. ASSUME NEW id \in Deploys, NEW T \in SUBSET Peers, timers' = timers,
             responders' = [responders EXCEPT ![id] =
                                [p \in Peers |-> IF p \in T THEN <<>> ELSE responders[id][p]]]
      PROVE  Timed'
  <2>1. responders' \in [Deploys -> [Peers -> Seq(Kinds)]]
    BY <1>0, <1>4 DEF Timed
  <2>2. ASSUME NEW i \in Deploys, NEW p \in Peers
        PROVE  Len(responders'[i][p]) <= timers'[<<i, p>>]
    <3>1. responders'[i][p] = <<>> \/ responders'[i][p] = responders[i][p]
      BY <1>4 DEF Timed
    <3>2. QED
      BY <1>0, <1>4, <3>1
  <2>3. QED
    BY <1>4, <2>1, <2>2 DEF Timed, F!EveryResponderTimed
<1>5. ASSUME NEW id \in Deploys, NEW q \in Peers, timers' = timers,
             responders' = [responders EXCEPT ![id][q] = <<>>]
      PROVE  Timed'
  <2> DEFINE T == {q}
  <2>1. responders' = [responders EXCEPT ![id] =
            [p \in Peers |-> IF p \in T THEN <<>> ELSE responders[id][p]]]
    BY <1>5 DEF Timed
  <2>2. T \in SUBSET Peers
    OBVIOUS
  <2> HIDE DEF T
  <2>3. QED
    BY <1>4, <1>5, <2>1, <2>2
<1>6. ASSUME NEW f \in F!Fetches, F!CannotAskPeer(f) PROVE Timed'
  <2>1. f[1] \in Deploys /\ f[2] \in Peers
    BY DEF F!Fetches
  <2>2. timers' = timers /\ responders' = [responders EXCEPT ![f[1]][f[2]] = <<>>]
    BY <1>6 DEF F!CannotAskPeer
  <2>3. QED
    BY <1>5, <2>1, <2>2
<1>7. ASSUME NEW id \in Deploys, NEW q \in Peers, F!AbsentRemotely(id, q) PROVE Timed'
  BY <1>5, <1>7 DEF F!AbsentRemotely
<1>8. ASSUME NEW id \in Deploys, NEW source \in F!Sources, F!GotRemotely(id, source)
      PROVE  Timed'
  <2>1. timers' = timers /\ responders' = [responders EXCEPT ![id] = [p \in Peers |-> <<>>]]
    BY <1>8 DEF F!GotRemotely
  <2>2. responders' = [responders EXCEPT ![id] =
            [p \in Peers |-> IF p \in Peers THEN <<>> ELSE responders[id][p]]]
    BY <2>1
  <2>3. QED
    BY <1>4, <2>1, <2>2
<1>9. CASE F!FetcherStep
  <2>1. ASSUME NEW f \in F!Fetches, F!FoundInStorage(f) \/ F!NotInStorage(f)
        PROVE  UNCHANGED <<responders, timers>>
    BY <2>1 DEF F!FoundInStorage, F!NotInStorage
  <2>2. ASSUME NEW id \in Deploys, NEW source \in F!Sources,
               F!PutDeploy(id, source) \/ F!GotFromClient(id, source)
        PROVE  UNCHANGED <<responders, timers>>
    BY <2>2 DEF F!PutDeploy, F!GotFromClient
  <2>3. QED
    BY <1>1, <1>2, <1>3, <1>6, <1>7, <1>8, <1>9, <2>1, <2>2 DEF F!FetcherStep
<1>10. CASE UNCHANGED allVars
  BY <1>1, <1>10 DEF allVars, fetcherVars
<1>11. ASSUME NEW b \in Blocks, NEW sender \in Peers,
              Request(b, sender) \/ RequestAndFetch(b, sender)
       PROVE  UNCHANGED <<responders, timers>>
  BY <1>11 DEF Request, RequestAndFetch, fetcherVars
<1>12. ASSUME NEW dt \in DeployOrTransfer, FetchResult(dt)
       PROVE  UNCHANGED <<responders, timers>>
  BY <1>12 DEF FetchResult, FetchSucceeds, FetchFails, FetchAgain
<1>13. QED
  BY <1>1, <1>9, <1>10, <1>11, <1>12 DEF NodeNext

\* Everyone who waits for a peer in the fetcher will be timed out: there are as
\* many timers as responders, although an answer takes all responders and leaves
\* the timers, and a timer takes whichever responder comes first.
THEOREM EveryoneTimed == NodeSpec => []F!EveryResponderTimed
<1>1. NodeInit => Timed
  <2> SUFFICES ASSUME NodeInit PROVE Timed
    OBVIOUS
  <2>1. /\ responders = [id \in Deploys |-> [p \in Peers |-> <<>>]]
        /\ timers = [ip \in Deploys \X Peers |-> 0]
    BY DEF NodeInit, F!Init
  <2>2. QED
    BY <2>1 DEF Timed, F!EveryResponderTimed
<1>2. Timed => F!EveryResponderTimed
  BY DEF Timed
<1>3. QED
  BY <1>1, <1>2, TimedStep, PTL DEF NodeSpec

\* The validator keeps its promises with the fetcher that serves it: counters,
\* responders and verdicts (InFlightCounts, WaitingIsRegistered, YesIsValid).
THEOREM NodeIsCorrect ==
    NodeSpec => [](InFlightCounts /\ WaitingIsRegistered /\ YesIsValid)
BY FetcherServesValidator, FetchesCounted, NobodyForgotten, OnlyValidBlocks, PTL

\* And no block is stranded with a deploy whose hash was listed with one kind only
\* (MissingIsFetched).
THEOREM NodeNeverStrands == NodeSpec => []MissingIsFetched
BY FetcherServesValidator, NeverStranded, PTL
-----------------------------------------------------------------------------
(* Sums over a finite set.                                                 *)

\* One step of the fold: an element is taken out of the set.
Taken(s) == CHOOSE x \in s : TRUE
Added(g, h, s) == IF s = {} THEN 0 ELSE g[Taken(s)] + h[s \ {Taken(s)}]

\* h gives the sum of g over every subset of S.
IsFold(g, h, S) == \A s \in SUBSET S : h[s] = Added(g, h, s)

LEMMA TakenOK ==
    ASSUME NEW S, IsFiniteSet(S), NEW s \in SUBSET S, s # {}
    PROVE  /\ Taken(s) \in s /\ s \ {Taken(s)} \in SUBSET S
           /\ Cardinality(s) \in Nat
           /\ Cardinality(s \ {Taken(s)}) = Cardinality(s) - 1
<1>1. Taken(s) \in s
  BY DEF Taken
<1>2. IsFiniteSet(s)
  BY FS_Subset
<1>3. QED
  BY <1>1, <1>2, FS_RemoveElement, FS_CardinalityType

\* A set of natural numbers that has the successors of its elements, and 0, has all:
\* otherwise there would be a least one that it lacks.
LEMMA AllNumbers ==
    ASSUME NEW Q \in SUBSET Nat, 0 \in Q, \A n \in Nat : n \in Q => n + 1 \in Q
    PROVE  Q = Nat
<1> DEFINE T == Nat \ Q
<1>1. SUFFICES ASSUME T # {} PROVE FALSE
  OBVIOUS
<1>2. IsWellFoundedOn(OpToRel(<, Nat), Nat)
  BY NatLessThanWellFounded
<1>3. PICK x \in T : \A y \in T : ~ (<<y, x>> \in OpToRel(<, Nat))
  BY <1>1, <1>2, WFMin
<1>4. \A y \in T : ~ (y < x)
  BY <1>3 DEF OpToRel
<1>5. x # 0 /\ x - 1 \in Nat /\ x - 1 \notin T
  BY <1>4
<1>6. QED
  BY <1>5

\* The function that the fold is defined by exists.
LEMMA FoldExists ==
    ASSUME NEW S, IsFiniteSet(S), NEW g \in [S -> Nat]
    PROVE  \E h \in [SUBSET S -> Nat] : IsFold(g, h, S)
<1> DEFINE Upto(n) == {h \in [SUBSET S -> Nat] :
                          \A s \in SUBSET S : Cardinality(s) <= n => h[s] = Added(g, h, s)}
           Q == {n \in Nat : Upto(n) # {}}
<1>0. \A s \in SUBSET S : IsFiniteSet(s) /\ Cardinality(s) \in Nat /\ (Cardinality(s) = 0 <=> s = {})
  BY FS_Subset, FS_CardinalityType, FS_EmptySet
<1>1. 0 \in Q
  <2>1. [s \in SUBSET S |-> 0] \in Upto(0)
    BY <1>0 DEF Added
  <2>2. QED
    BY <2>1
<1>2. ASSUME NEW n \in Nat, n \in Q PROVE n + 1 \in Q
  <2>1. PICK h \in Upto(n) : TRUE
    BY <1>2
  <2> DEFINE k == [s \in SUBSET S |-> Added(g, h, s)]
  <2>2. k \in [SUBSET S -> Nat]
    <3> SUFFICES ASSUME NEW s \in SUBSET S PROVE Added(g, h, s) \in Nat
      OBVIOUS
    <3>1. CASE s = {}
      BY <3>1 DEF Added
    <3>2. CASE s # {}
      <4>1. g[Taken(s)] \in Nat /\ h[s \ {Taken(s)}] \in Nat
        BY <3>2, TakenOK, <2>1
      <4>2. QED
        BY <4>1, <3>2 DEF Added
    <3>3. QED
      BY <3>1, <3>2
  <2>3. ASSUME NEW s \in SUBSET S, Cardinality(s) <= n + 1 PROVE k[s] = Added(g, k, s)
    <3>1. CASE s = {}
      BY <3>1 DEF Added
    <3>2. CASE s # {}
      <4>1. s \ {Taken(s)} \in SUBSET S /\ Cardinality(s \ {Taken(s)}) <= n
        BY <3>2, <2>3, TakenOK
      <4>2. h[s \ {Taken(s)}] = k[s \ {Taken(s)}]
        BY <4>1, <2>1
      <4>3. QED
        BY <4>2, <3>2 DEF Added
    <3>3. QED
      BY <3>1, <3>2
  <2>4. k \in Upto(n + 1)
    BY <2>2, <2>3
  <2> HIDE DEF k, Upto
  <2>5. QED
    BY <2>4
<1>3. Q = Nat
  <2>0. Q \in SUBSET Nat
    OBVIOUS
  <2>2. \A n \in Nat : n \in Q => n + 1 \in Q
    BY <1>2
  <2> HIDE DEF Q
  <2>1. QED
    BY <1>1, <2>2, <2>0, AllNumbers
<1>4. PICK h \in Upto(Cardinality(S)) : TRUE
  BY <1>3, FS_CardinalityType
<1>5. \A s \in SUBSET S : Cardinality(s) <= Cardinality(S)
  BY FS_Subset
<1>6. IsFold(g, h, S)
  BY <1>4, <1>5 DEF IsFold
<1>7. QED
  BY <1>4, <1>6

\* It is the only one.
LEMMA FoldUnique ==
    ASSUME NEW S, IsFiniteSet(S), NEW g, NEW h, NEW k, IsFold(g, h, S), IsFold(g, k, S)
    PROVE  \A s \in SUBSET S : h[s] = k[s]
<1> DEFINE Q == {n \in Nat : \A s \in SUBSET S : Cardinality(s) = n => h[s] = k[s]}
<1>0. \A s \in SUBSET S : IsFiniteSet(s) /\ Cardinality(s) \in Nat /\ (Cardinality(s) = 0 <=> s = {})
  BY FS_Subset, FS_CardinalityType, FS_EmptySet
<1>1. 0 \in Q
  BY <1>0 DEF Added, IsFold
<1>2. ASSUME NEW n \in Nat, n \in Q PROVE n + 1 \in Q
  <2>1. ASSUME NEW s \in SUBSET S, Cardinality(s) = n + 1 PROVE h[s] = k[s]
    <3>1. s # {}
      BY <1>0, <2>1
    <3>2. s \ {Taken(s)} \in SUBSET S /\ Cardinality(s \ {Taken(s)}) = n
      BY <3>1, <2>1, TakenOK
    <3>3. h[s \ {Taken(s)}] = k[s \ {Taken(s)}]
      BY <3>2, <1>2
    <3>4. QED
      BY <3>1, <3>3 DEF Added, IsFold
  <2>2. QED
    BY <2>1
<1>3. \A n \in Nat : n \in Q => n + 1 \in Q
  BY <1>2
<1>4. Q \in SUBSET Nat
  OBVIOUS
<1>5. Q = Nat
  <2> HIDE DEF Q
  <2>1. QED
    BY <1>1, <1>3, <1>4, AllNumbers
<1>6. QED
  BY <1>0, <1>5

\* The sum over a set is the value of that function.
LEMMA SumByFold ==
    ASSUME NEW S, IsFiniteSet(S), NEW g \in [S -> Nat]
    PROVE  \E h \in [SUBSET S -> Nat] :
              /\ IsFold(g, h, S)
              /\ SumFunction(g) = h[S]
<1>1. PICK h \in [SUBSET S -> Nat] : IsFold(g, h, S)
  BY FoldExists
<1>2. h = [s \in SUBSET S |-> Added(g, h, s)]
  BY <1>1 DEF IsFold
<1> DEFINE iter == CHOOSE k : k = [s \in SUBSET S |-> Added(g, k, s)]
<1>3. SumFunction(g) = iter[S]
  BY DEF SumFunction, SumFunctionOnSet, FoldFunctionOnSet, MapThenFoldSet, Added, Taken
<1>4. iter = [s \in SUBSET S |-> Added(g, iter, s)]
  BY <1>2
<1> HIDE DEF iter
<1>5. IsFold(g, iter, S)
  BY <1>4 DEF IsFold
<1>6. \A s \in SUBSET S : iter[s] = h[s]
  BY <1>1, <1>5, FoldUnique
<1>7. QED
  BY <1>1, <1>3, <1>6

\* A sum of numbers is a number, and sums are added element by element.
LEMMA SumOfSums ==
    ASSUME NEW S, IsFiniteSet(S), NEW g \in [S -> Nat], NEW f \in [S -> Nat]
    PROVE  /\ SumFunction(g) \in Nat
           /\ SumFunction([p \in S |-> g[p] + f[p]]) = SumFunction(g) + SumFunction(f)
<1> DEFINE b == [p \in S |-> g[p] + f[p]]
<1>0. b \in [S -> Nat]
  OBVIOUS
<1>1. PICK h \in [SUBSET S -> Nat] :
          IsFold(g, h, S) /\ SumFunction(g) = h[S]
  BY SumByFold
<1>2. PICK k \in [SUBSET S -> Nat] :
          IsFold(f, k, S) /\ SumFunction(f) = k[S]
  BY SumByFold
<1>3. PICK c \in [SUBSET S -> Nat] :
          IsFold(b, c, S) /\ SumFunction(b) = c[S]
  BY <1>0, SumByFold
<1> DEFINE e == [s \in SUBSET S |-> h[s] + k[s]]
<1>4. ASSUME NEW s \in SUBSET S PROVE e[s] = Added(b, e, s)
  <2>1. CASE s = {}
    <3>1. h[s] = 0 /\ k[s] = 0
      BY <1>1, <1>2, <2>1 DEF Added, IsFold
    <3>2. QED
      BY <3>1, <2>1 DEF Added
  <2>2. CASE s # {}
    <3>1. Taken(s) \in S /\ s \ {Taken(s)} \in SUBSET S
      BY <2>2, TakenOK
    <3>2. h[s] = g[Taken(s)] + h[s \ {Taken(s)}] /\ k[s] = f[Taken(s)] + k[s \ {Taken(s)}]
      BY <1>1, <1>2, <2>2 DEF Added, IsFold
    <3>3. /\ g[Taken(s)] \in Nat /\ f[Taken(s)] \in Nat
          /\ h[s \ {Taken(s)}] \in Nat /\ k[s \ {Taken(s)}] \in Nat
      BY <3>1
    <3>4. h[s] + k[s] = (g[Taken(s)] + f[Taken(s)]) + (h[s \ {Taken(s)}] + k[s \ {Taken(s)}])
      BY <3>2, <3>3
    <3>5. e[s] = b[Taken(s)] + e[s \ {Taken(s)}]
      BY <3>1, <3>4
    <3>6. QED
      BY <3>5, <2>2 DEF Added
  <2>3. QED
    BY <2>1, <2>2
<1> HIDE DEF e, b
<1>5. IsFold(b, e, S)
  BY <1>4 DEF IsFold
<1>6. \A s \in SUBSET S : e[s] = c[s]
  BY <1>3, <1>5, FoldUnique
<1>7. e[S] = h[S] + k[S]
  BY DEF e
<1>8. SumFunction(b) = SumFunction(g) + SumFunction(f)
  BY <1>1, <1>2, <1>3, <1>6, <1>7
<1>9. QED
  BY <1>1, <1>8 DEF b

\* A function that is 0 except at one place.
Only(S, q, n) == [p \in S |-> IF p = q THEN n ELSE 0]

LEMMA SumOfOne ==
    ASSUME NEW S, IsFiniteSet(S), NEW q \in S, NEW n \in Nat
    PROVE  SumFunction(Only(S, q, n)) = n
<1> DEFINE g == Only(S, q, n)
<1>0. g \in [S -> Nat]
  BY DEF Only
<1>1. PICK h \in [SUBSET S -> Nat] :
          IsFold(g, h, S) /\ SumFunction(g) = h[S]
  BY <1>0, SumByFold
<1> DEFINE e == [s \in SUBSET S |-> IF q \in s THEN n ELSE 0]
<1>2. ASSUME NEW s \in SUBSET S PROVE e[s] = Added(g, e, s)
  <2>1. CASE s = {}
    BY <2>1 DEF Added
  <2>2. CASE s # {}
    <3>1. Taken(s) \in s /\ s \ {Taken(s)} \in SUBSET S
      BY <2>2, TakenOK
    <3>2. g[Taken(s)] = IF Taken(s) = q THEN n ELSE 0
      BY <3>1 DEF Only
    <3>3. e[s \ {Taken(s)}] = IF q \in s /\ Taken(s) # q THEN n ELSE 0
      BY <3>1
    <3>4. g[Taken(s)] + e[s \ {Taken(s)}] = IF q \in s THEN n ELSE 0
      BY <3>1, <3>2, <3>3
    <3>5. QED
      BY <3>4, <2>2 DEF Added
  <2>3. QED
    BY <2>1, <2>2
<1> HIDE DEF e, g
<1>3. IsFold(g, e, S)
  BY <1>2 DEF IsFold
<1>4. \A s \in SUBSET S : e[s] = h[s]
  BY <1>1, <1>3, FoldUnique
<1>5. QED
  BY <1>1, <1>4 DEF e, g
-----------------------------------------------------------------------------
(* Where the fetches are.                                                  *)

\* The fetcher counts and adds as the theorems of the library do.
LEMMA SameCardinality == \A S : F!Cardinality(S) = Cardinality(S)
BY DEF F!Cardinality, Cardinality

LEMMA SameSum == \A g : F!SumFunction(g) = SumFunction(g)
BY DEF F!SumFunction, F!SumFunctionOnSet, F!FoldFunctionOnSet, F!MapThenFoldSet,
       SumFunction, SumFunctionOnSet, FoldFunctionOnSet, MapThenFoldSet

\* What CountOf counts.
LEMMA CountIs == \A s, k : F!CountOf(s, k) = Cardinality({i \in DOMAIN s : s[i] = k})
BY SameCardinality DEF F!CountOf

\* Responders are counted one by one, from either end of the sequence.
LEMMA CountEmpty == \A k : F!CountOf(<<>>, k) = 0
<1>1. \A k : {i \in DOMAIN <<>> : <<>>[i] = k} = {}
  OBVIOUS
<1>2. QED
  BY <1>1, FS_EmptySet, CountIs

LEMMA CountType ==
    ASSUME NEW s \in Seq(Kinds), NEW k
    PROVE  F!CountOf(s, k) \in Nat /\ IsFiniteSet({i \in DOMAIN s : s[i] = k})
<1>1. DOMAIN s = 1 .. Len(s) /\ Len(s) \in Nat
  OBVIOUS
<1>2. IsFiniteSet(DOMAIN s)
  BY <1>1, FS_Interval
<1>3. IsFiniteSet({i \in DOMAIN s : s[i] = k})
  BY <1>2, FS_Subset
<1>4. QED
  BY <1>3, FS_CardinalityType, CountIs

LEMMA CountAppend ==
    ASSUME NEW s \in Seq(Kinds), NEW x \in Kinds, NEW k
    PROVE  F!CountOf(Append(s, x), k) = F!CountOf(s, k) + IF x = k THEN 1 ELSE 0
<1> DEFINE A == {i \in DOMAIN s : s[i] = k}
           B == {i \in DOMAIN Append(s, x) : Append(s, x)[i] = k}
<1>1. /\ DOMAIN s = 1 .. Len(s) /\ Len(s) \in Nat
      /\ DOMAIN Append(s, x) = 1 .. Len(s) + 1
      /\ \A i \in 1 .. Len(s) : Append(s, x)[i] = s[i]
      /\ Append(s, x)[Len(s) + 1] = x
  OBVIOUS
<1>2. /\ x = k => B = A \cup {Len(s) + 1}
      /\ x # k => B = A
  <2>1. ASSUME NEW i PROVE i \in B <=> i \in A \/ (i = Len(s) + 1 /\ x = k)
    <3>1. i \in 1 .. Len(s) + 1 <=> i \in 1 .. Len(s) \/ i = Len(s) + 1
      BY <1>1
    <3>2. QED
      BY <3>1, <1>1
  <2> HIDE DEF A, B
  <2>2. QED
    BY <2>1
<1>3. Len(s) + 1 \notin A /\ IsFiniteSet(A)
  <2>1. Len(s) + 1 \notin DOMAIN s
    BY <1>1
  <2>2. IsFiniteSet(A)
    BY CountType
  <2>3. QED
    BY <2>1, <2>2
<1>4. F!CountOf(s, k) = Cardinality(A) /\ F!CountOf(Append(s, x), k) = Cardinality(B)
  BY CountIs
<1> HIDE DEF A, B
<1>5. CASE x = k
  <2>1. B = A \cup {Len(s) + 1}
    BY <1>2, <1>5
  <2>2. QED
    BY <2>1, <1>3, <1>4, <1>5, FS_AddElement
<1>6. CASE x # k
  <2>1. B = A
    BY <1>2, <1>6
  <2>2. F!CountOf(s, k) \in Nat
    BY CountType
  <2>3. QED
    BY <2>1, <2>2, <1>4, <1>6
<1>7. QED
  BY <1>5, <1>6

LEMMA CountTail ==
    ASSUME NEW s \in Seq(Kinds), s # <<>>, NEW k
    PROVE  F!CountOf(s, k) = F!CountOf(SubSeq(s, 1, 1), k) + F!CountOf(Tail(s), k)
<1> DEFINE A == {i \in DOMAIN s : s[i] = k}
           T == {i \in DOMAIN Tail(s) : Tail(s)[i] = k}
           U == {i \in A : i # 1}
           shift == [i \in T |-> i + 1]
<1>1. /\ DOMAIN s = 1 .. Len(s) /\ Len(s) \in Nat /\ Len(s) >= 1
      /\ Tail(s) \in Seq(Kinds) /\ DOMAIN Tail(s) = 1 .. Len(s) - 1
      /\ \A i \in 1 .. Len(s) - 1 : Tail(s)[i] = s[i + 1]
      /\ s[1] \in Kinds
  OBVIOUS
<1>2. SubSeq(s, 1, 1) = Append(<<>>, s[1])
  <2>1. Len(SubSeq(s, 1, 1)) = 1 /\ SubSeq(s, 1, 1) \in Seq(Kinds) /\ SubSeq(s, 1, 1)[1] = s[1]
    BY <1>1, SubSeqProperties
  <2>2. Append(<<>>, s[1]) \in Seq(Kinds) /\ Len(Append(<<>>, s[1])) = 1
        /\ Append(<<>>, s[1])[1] = s[1]
    BY <1>1
  <2>3. \A i \in 1 .. Len(SubSeq(s, 1, 1)) : SubSeq(s, 1, 1)[i] = Append(<<>>, s[1])[i]
    BY <2>1, <2>2
  <2>4. QED
    BY <2>1, <2>2, <2>3, SeqEqual
<1>3. F!CountOf(SubSeq(s, 1, 1), k) = IF s[1] = k THEN 1 ELSE 0
  <2>1. <<>> \in Seq(Kinds)
    OBVIOUS
  <2>2. F!CountOf(Append(<<>>, s[1]), k) = F!CountOf(<<>>, k) + IF s[1] = k THEN 1 ELSE 0
    BY <1>1, <2>1, CountAppend
  <2>3. F!CountOf(<<>>, k) = 0
    BY CountEmpty
  <2>4. F!CountOf(Append(<<>>, s[1]), k) = IF s[1] = k THEN 1 ELSE 0
    <3>1. CASE s[1] = k
      BY <2>2, <2>3, <3>1
    <3>2. CASE s[1] # k
      BY <2>2, <2>3, <3>2
    <3>3. QED
      BY <3>1, <3>2
  <2>5. QED
    BY <2>4, <1>2
<1>4. IsFiniteSet(A) /\ IsFiniteSet(T) /\ Cardinality(T) \in Nat
  BY <1>1, CountType, FS_CardinalityType
<1>5. /\ shift \in [T -> U]
      /\ \A i, j \in T : shift[i] = shift[j] => i = j
      /\ \A j \in U : \E i \in T : shift[i] = j
  <2>1. shift \in [T -> U]
    BY <1>1
  <2>2. \A i, j \in T : shift[i] = shift[j] => i = j
    BY <1>1
  <2>3. ASSUME NEW j \in U PROVE \E i \in T : shift[i] = j
    <3>1. j - 1 \in T
      BY <1>1
    <3>2. shift[j - 1] = j
      BY <3>1, <1>1
    <3>3. QED
      BY <3>1, <3>2
  <2>4. QED
    BY <2>1, <2>2, <2>3
<1>6. ExistsBijection(T, U)
  <2> HIDE DEF shift, T, U
  <2>1. shift \in Bijection(T, U)
    BY <1>5 DEF Bijection, Injection, Surjection, IsInjective
  <2>2. QED
    BY <2>1 DEF ExistsBijection
<1>7. IsFiniteSet(U) /\ Cardinality(U) = Cardinality(T)
  BY <1>4, <1>6, FS_Bijection
<1>8. (s[1] = k => A = U \cup {1}) /\ (s[1] # k => A = U) /\ 1 \notin U
  BY <1>1
<1>9. F!CountOf(s, k) = Cardinality(A) /\ F!CountOf(Tail(s), k) = Cardinality(T)
  BY CountIs
<1> HIDE DEF A, U, T
<1>10. Cardinality(A) = Cardinality(U) + IF s[1] = k THEN 1 ELSE 0
  <2>1. CASE s[1] = k
    BY <2>1, <1>7, <1>8, FS_AddElement
  <2>2. CASE s[1] # k
    <3>1. A = U
      BY <2>2, <1>8
    <3>2. QED
      BY <3>1, <2>2, <1>4, <1>7
  <2>3. QED
    BY <2>1, <2>2
<1>11. QED
  BY <1>3, <1>4, <1>7, <1>9, <1>10

\* The fetches of dt from peer p that are under way.
Place(dt, p) ==
    lookups[<<dt[1], p, dt[2]>>] + absent[<<dt[1], p, dt[2]>>]
    + F!CountOf(responders[dt[1]][p], dt[2])
Places(dt) == [p \in Peers |-> Place(dt, p)]
Answered(dt) == answers[<<dt[1], dt[2], "ok">>] + answers[<<dt[1], dt[2], "failed">>]

\* The count of FetchesAreServed.
Served == \A dt \in DeployOrTransfer :
              fetches[dt] = SumFunction(Places(dt)) + Answered(dt)

LEMMA PlacesType ==
    ASSUME F!TypeOK, NEW dt \in DeployOrTransfer
    PROVE  /\ Places(dt) \in [Peers -> Nat]
           /\ SumFunction(Places(dt)) \in Nat
           /\ Answered(dt) \in Nat
           /\ answers[<<dt[1], dt[2], "ok">>] \in Nat
           /\ answers[<<dt[1], dt[2], "failed">>] \in Nat
<1>1. dt[1] \in Deploys /\ dt[2] \in Kinds
  BY DEF DeployOrTransfer
<1>2. ASSUME NEW p \in Peers PROVE Place(dt, p) \in Nat
  <2>1. responders[dt[1]][p] \in Seq(Kinds)
    BY <1>1 DEF F!TypeOK
  <2>2. F!CountOf(responders[dt[1]][p], dt[2]) \in Nat
    BY <2>1, CountType
  <2>3. /\ lookups[<<dt[1], p, dt[2]>>] \in Nat
        /\ absent[<<dt[1], p, dt[2]>>] \in Nat
    BY <1>1 DEF F!TypeOK, F!Fetches
  <2>4. QED
    BY <2>2, <2>3 DEF Place
<1>3. Places(dt) \in [Peers -> Nat]
  BY <1>2 DEF Places
<1>4. SumFunction(Places(dt)) \in Nat
  BY <1>3, PeersAssumption, SumOfSums
<1>5. /\ answers[<<dt[1], dt[2], "ok">>] \in Nat
      /\ answers[<<dt[1], dt[2], "failed">>] \in Nat
  BY <1>1 DEF F!TypeOK, F!Results
<1>6. QED
  BY <1>3, <1>4, <1>5 DEF Answered

\* Fetches at one peer that are new or have gone change the sum by their number.
LEMMA OneMore ==
    ASSUME NEW g \in [Peers -> Nat], NEW h \in [Peers -> Nat], NEW q \in Peers, NEW n \in Nat,
           \A p \in Peers : h[p] = g[p] + IF p = q THEN n ELSE 0
    PROVE  SumFunction(h) = SumFunction(g) + n
<1> DEFINE o == Only(Peers, q, n)
<1>1. o \in [Peers -> Nat] /\ SumFunction(o) = n
  BY PeersAssumption, SumOfOne DEF Only
<1>2. h = [p \in Peers |-> g[p] + o[p]]
  BY DEF Only
<1> HIDE DEF o
<1>3. QED
  BY <1>1, <1>2, PeersAssumption, SumOfSums

\* The responders that are answered have left their places.
LEMMA RespondType ==
    ASSUME F!TypeOK, NEW id \in Deploys, NEW lost \in [Peers -> Seq(Kinds)],
           NEW result \in F!Results, F!Respond(id, lost, result)
    PROVE  /\ answers' \in [Deploys \X Kinds \X F!Results -> Nat]
           /\ \A k \in Kinds :
                 /\ [p \in Peers |-> F!CountOf(lost[p], k)] \in [Peers -> Nat]
                 /\ SumFunction([p \in Peers |-> F!CountOf(lost[p], k)]) \in Nat
           /\ \A dt \in DeployOrTransfer :
                 Answered(dt)' = Answered(dt) + IF dt[1] = id
                     THEN SumFunction([p \in Peers |-> F!CountOf(lost[p], dt[2])]) ELSE 0
<1>1. ASSUME NEW k \in Kinds
      PROVE  /\ [p \in Peers |-> F!CountOf(lost[p], k)] \in [Peers -> Nat]
             /\ SumFunction([p \in Peers |-> F!CountOf(lost[p], k)]) \in Nat
  <2>1. \A p \in Peers : F!CountOf(lost[p], k) \in Nat
    BY CountType
  <2>2. [p \in Peers |-> F!CountOf(lost[p], k)] \in [Peers -> Nat]
    BY <2>1
  <2>3. QED
    BY <2>2, PeersAssumption, SumOfSums
<1> DEFINE sum(k) == SumFunction([p \in Peers |-> F!CountOf(lost[p], k)])
<1>2. \A k \in Kinds : sum(k) \in Nat
  BY <1>1
<1>3. answers' = [a \in Deploys \X Kinds \X F!Results |->
                     IF a[1] = id /\ a[3] = result THEN answers[a] + sum(a[2]) ELSE answers[a]]
  BY SameSum DEF F!Respond, F!TypeOK
<1> HIDE DEF sum
<1>4. answers' \in [Deploys \X Kinds \X F!Results -> Nat]
  BY <1>2, <1>3 DEF F!TypeOK
<1>5. ASSUME NEW dt \in DeployOrTransfer
      PROVE  Answered(dt)' = Answered(dt) + IF dt[1] = id THEN sum(dt[2]) ELSE 0
  <2>1. dt[1] \in Deploys /\ dt[2] \in Kinds
    BY DEF DeployOrTransfer
  <2>2. ASSUME NEW r \in F!Results
        PROVE  answers'[<<dt[1], dt[2], r>>] = answers[<<dt[1], dt[2], r>>]
                   + IF dt[1] = id /\ r = result THEN sum(dt[2]) ELSE 0
    BY <1>2, <1>3, <2>1 DEF F!TypeOK
  <2>3. answers[<<dt[1], dt[2], "ok">>] \in Nat /\ answers[<<dt[1], dt[2], "failed">>] \in Nat
    BY PlacesType
  <2>4. result = "ok" \/ result = "failed"
    BY DEF F!Results
  <2>5. "ok" \in F!Results /\ "failed" \in F!Results
    BY DEF F!Results
  <2>6. CASE dt[1] = id
    <3>1. sum(dt[2]) \in Nat
      BY <1>2, <2>1
    <3>2. CASE result = "ok"
      <4>1. /\ answers'[<<dt[1], dt[2], "ok">>] = answers[<<dt[1], dt[2], "ok">>] + sum(dt[2])
            /\ answers'[<<dt[1], dt[2], "failed">>] = answers[<<dt[1], dt[2], "failed">>]
        BY <2>2, <2>3, <2>5, <2>6, <3>2
      <4>2. QED
        BY <4>1, <2>3, <2>6, <3>1 DEF Answered
    <3>3. CASE result = "failed"
      <4>1. /\ answers'[<<dt[1], dt[2], "failed">>] = answers[<<dt[1], dt[2], "failed">>] + sum(dt[2])
            /\ answers'[<<dt[1], dt[2], "ok">>] = answers[<<dt[1], dt[2], "ok">>]
        BY <2>2, <2>3, <2>5, <2>6, <3>3
      <4>2. QED
        BY <4>1, <2>3, <2>6, <3>1 DEF Answered
    <3>4. QED
      BY <2>4, <3>2, <3>3
  <2>7. CASE dt[1] # id
    <3>1. /\ answers'[<<dt[1], dt[2], "ok">>] = answers[<<dt[1], dt[2], "ok">>]
          /\ answers'[<<dt[1], dt[2], "failed">>] = answers[<<dt[1], dt[2], "failed">>]
      BY <2>2, <2>3, <2>5, <2>7
    <3>2. QED
      BY <3>1, <2>3, <2>7 DEF Answered
  <2>8. QED
    BY <2>6, <2>7
<1>6. QED
  BY <1>1, <1>4, <1>5 DEF sum

\* Responders that lose their places are answered.
LEMMA MovedOK ==
    ASSUME F!TypeOK, Served, fetches' = fetches, NEW id \in Deploys,
           NEW lost \in [Peers -> Seq(Kinds)], NEW result \in F!Results,
           F!Respond(id, lost, result), F!TypeOK',
           \A dt \in DeployOrTransfer, p \in Peers :
               Place(dt, p) = Place(dt, p)' + IF dt[1] = id THEN F!CountOf(lost[p], dt[2]) ELSE 0
    PROVE  Served'
<1> SUFFICES ASSUME NEW dt \in DeployOrTransfer
             PROVE  fetches[dt] = SumFunction(Places(dt)') + Answered(dt)'
  BY DEF Served
<1> DEFINE left == [p \in Peers |-> F!CountOf(lost[p], dt[2])]
<1>1. fetches[dt] = SumFunction(Places(dt)) + Answered(dt)
  BY DEF Served
<1>2. /\ SumFunction(Places(dt)) \in Nat /\ Answered(dt) \in Nat /\ Places(dt) \in [Peers -> Nat]
  BY PlacesType
<1>3. /\ SumFunction(Places(dt)') \in Nat /\ Places(dt)' \in [Peers -> Nat]
  <2>1. \A g \in [Peers -> Nat] : SumFunction(g) \in Nat
    BY PeersAssumption, SumOfSums
  <2>2. dt[1] \in Deploys /\ dt[2] \in Kinds
    BY DEF DeployOrTransfer
  <2>3. ASSUME NEW p \in Peers PROVE Place(dt, p)' \in Nat
    <3>1. responders'[dt[1]][p] \in Seq(Kinds)
      BY <2>2 DEF F!TypeOK
    <3>2. F!CountOf(responders'[dt[1]][p], dt[2]) \in Nat
      BY <3>1, CountType
    <3>3. /\ lookups'[<<dt[1], p, dt[2]>>] \in Nat
          /\ absent'[<<dt[1], p, dt[2]>>] \in Nat
      BY <2>2 DEF F!TypeOK, F!Fetches
    <3>4. QED
      BY <3>2, <3>3 DEF Place
  <2>4. Places(dt)' \in [Peers -> Nat]
    BY <2>3 DEF Places
  <2>5. QED
    BY <2>1, <2>4
<1>4. /\ left \in [Peers -> Nat] /\ SumFunction(left) \in Nat
      /\ Answered(dt)' = Answered(dt) + IF dt[1] = id THEN SumFunction(left) ELSE 0
  <2>1. dt[2] \in Kinds
    BY DEF DeployOrTransfer
  <2>2. QED
    BY <2>1, RespondType
<1>5. CASE dt[1] = id
  <2>1. Places(dt) = [p \in Peers |-> (Places(dt)')[p] + left[p]]
    BY <1>5 DEF Places
  <2>2. SumFunction(Places(dt)) = SumFunction(Places(dt)') + SumFunction(left)
    <3>1. \A g, h \in [Peers -> Nat] :
              SumFunction([p \in Peers |-> g[p] + h[p]]) = SumFunction(g) + SumFunction(h)
      BY PeersAssumption, SumOfSums
    <3>2. SumFunction([p \in Peers |-> (Places(dt)')[p] + left[p]])
              = SumFunction(Places(dt)') + SumFunction(left)
      <4> DEFINE now == Places(dt)'
      <4>1. now \in [Peers -> Nat] /\ left \in [Peers -> Nat]
        BY <1>3, <1>4
      <4> HIDE DEF now, left
      <4>2. SumFunction([p \in Peers |-> now[p] + left[p]]) = SumFunction(now) + SumFunction(left)
        BY <3>1, <4>1
      <4>3. QED
        BY <4>2 DEF now
    <3>3. QED
      BY <2>1, <3>2
  <2>3. QED
    BY <2>2, <1>1, <1>2, <1>3, <1>4, <1>5
<1>6. CASE dt[1] # id
  <2>1. Places(dt) = Places(dt)'
    <3>1. \A p \in Peers : Place(dt, p)' \in Nat
      BY <1>3 DEF Places
    <3>2. \A p \in Peers : Place(dt, p) = Place(dt, p)'
      BY <3>1, <1>6
    <3>3. QED
      BY <3>2 DEF Places
  <2>2. Answered(dt)' = Answered(dt)
    BY <1>2, <1>4, <1>6
  <2>3. QED
    BY <2>1, <2>2, <1>1
<1>7. QED
  BY <1>5, <1>6

\* Where an event changes the responders of one item and peer only.
LEMMA OtherPlaces ==
    ASSUME F!TypeOK, NEW id \in Deploys, NEW q \in Peers, NEW new \in Seq(Kinds),
           responders' = [responders EXCEPT ![id][q] = new]
    PROVE  /\ responders' \in [Deploys -> [Peers -> Seq(Kinds)]]
           /\ responders'[id][q] = new
           /\ \A i \in Deploys, p \in Peers :
                 ~ (i = id /\ p = q) => responders'[i][p] = responders[i][p]
BY DEF F!TypeOK

\* The fetches of one item from one peer: those in first are answered, those in rest
\* stay, and nothing changes for other items and peers.
Leaves(id, q, first, rest) ==
    /\ absent' \in [F!Fetches -> Nat]
    /\ \A f \in F!Fetches : f[1] # id \/ f[2] # q => absent'[f] = absent[f]
    /\ \A k \in Kinds :
           absent[<<id, q, k>>] + F!CountOf(responders[id][q], k)
               = absent'[<<id, q, k>>] + F!CountOf(rest, k) + F!CountOf(first, k)

LEMMA Balance ==
    \A u, v, w, x, y, z \in Nat : v + x = w + y + z => u + v + x = u + w + y + z
OBVIOUS

\* Responders of one item and peer are answered: the first ones in the sequence, and
\* perhaps a fetch that has just come back from storage.
LEMMA LeaveOK ==
    ASSUME F!TypeOK, Served, fetches' = fetches, NEW id \in Deploys, NEW q \in Peers,
           NEW first \in Seq(Kinds), NEW rest \in Seq(Kinds), NEW result \in F!Results,
           responders' = [responders EXCEPT ![id][q] = rest],
           F!Respond(id, [p \in Peers |-> IF p = q THEN first ELSE <<>>], result),
           UNCHANGED <<stored, lookups, announcements>>,
           timers' \in [Deploys \X Peers -> Nat],
           Leaves(id, q, first, rest)
    PROVE  F!TypeOK' /\ Served'
<1> DEFINE lost == [p \in Peers |-> IF p = q THEN first ELSE <<>>]
<1>1. lost \in [Peers -> Seq(Kinds)]
  OBVIOUS
<1>2. /\ responders' \in [Deploys -> [Peers -> Seq(Kinds)]]
      /\ responders'[id][q] = rest
      /\ \A i \in Deploys, p \in Peers :
            ~ (i = id /\ p = q) => responders'[i][p] = responders[i][p]
  BY OtherPlaces
<1>3. answers' \in [Deploys \X Kinds \X F!Results -> Nat]
  BY <1>1, RespondType
<1>4. F!TypeOK'
  BY <1>2, <1>3 DEF F!TypeOK, Leaves
<1>5. ASSUME NEW dt \in DeployOrTransfer, NEW p \in Peers
      PROVE  Place(dt, p) = Place(dt, p)' + IF dt[1] = id THEN F!CountOf(lost[p], dt[2]) ELSE 0
  <2>1. dt[1] \in Deploys /\ dt[2] \in Kinds /\ <<dt[1], p, dt[2]>> \in F!Fetches
    BY DEF DeployOrTransfer, F!Fetches
  <2> DEFINE f == <<dt[1], p, dt[2]>>
             n == lookups[f]
             a == absent[f]
             b == absent'[f]
             c == F!CountOf(responders[dt[1]][p], dt[2])
             d == F!CountOf(responders'[dt[1]][p], dt[2])
             e == F!CountOf(lost[p], dt[2])
  <2>2. Place(dt, p) = n + a + c /\ Place(dt, p)' = n + b + d
    BY DEF Place
  <2>3. n \in Nat /\ a \in Nat /\ b \in Nat
    BY <2>1 DEF F!TypeOK, Leaves
  <2>4. c \in Nat /\ d \in Nat /\ e \in Nat
    <3>1. /\ responders[dt[1]][p] \in Seq(Kinds) /\ responders'[dt[1]][p] \in Seq(Kinds)
          /\ lost[p] \in Seq(Kinds)
      BY <2>1, <1>1, <1>2 DEF F!TypeOK
    <3>2. QED
      BY <3>1, CountType
  <2>5. CASE dt[1] = id /\ p = q
    <3>1. a + c = b + d + e
      BY <1>2, <2>1, <2>5 DEF Leaves
    <3>2. (IF dt[1] = id THEN F!CountOf(lost[p], dt[2]) ELSE 0) = e
      BY <2>5
    <3> HIDE DEF n, a, b, c, d, e, lost
    <3>3. n + a + c = n + b + d + e
      BY <3>1, <2>3, <2>4, Balance
    <3>4. QED
      BY <3>2, <3>3, <2>2
  <2>6. CASE ~ (dt[1] = id /\ p = q)
    <3>1. a = b /\ c = d
      <4>1. f[1] = dt[1] /\ f[2] = p
        OBVIOUS
      <4>2. QED
        BY <1>2, <2>1, <2>6, <4>1 DEF Leaves
    <3>2. (IF dt[1] = id THEN F!CountOf(lost[p], dt[2]) ELSE 0) = 0
      BY <2>6, CountEmpty
    <3> HIDE DEF n, a, b, c, d, e
    <3>3. QED
      BY <3>1, <3>2, <2>2, <2>3, <2>4
  <2>7. QED
    BY <2>5, <2>6
<1> HIDE DEF lost
<1>6. F!Respond(id, lost, result)
  BY DEF lost
<1>7. QED
  BY <1>1, <1>4, <1>5, <1>6, MovedOK

\* TimeoutPeer: one responder, or none, is answered.
LEMMA TimeoutOK ==
    ASSUME F!TypeOK, Served, fetches' = fetches, NEW id \in Deploys, NEW q \in Peers,
           F!TimeoutPeer(id, q)
    PROVE  F!TypeOK' /\ Served'
<1> DEFINE waiting == responders[id][q]
           first == SubSeq(waiting, 1, IF waiting = <<>> THEN 0 ELSE 1)
           rest == IF waiting = <<>> THEN waiting ELSE Tail(waiting)
<1>1. /\ timers[<<id, q>>] > 0
      /\ timers' = [timers EXCEPT ![<<id, q>>] = @ - 1]
      /\ responders' = [responders EXCEPT ![id][q] = rest]
      /\ F!Respond(id, [p \in Peers |-> IF p = q THEN first ELSE <<>>], "failed")
      /\ UNCHANGED <<stored, lookups, absent, announcements>>
  BY DEF F!TimeoutPeer, F!TypeOK
<1>2. waiting \in Seq(Kinds)
  BY DEF F!TypeOK
<1>3. /\ first \in Seq(Kinds) /\ rest \in Seq(Kinds)
      /\ \A k \in Kinds : F!CountOf(waiting, k) = F!CountOf(rest, k) + F!CountOf(first, k)
  <2> HIDE DEF waiting
  <2>1. CASE waiting = <<>>
    <3>1. first = <<>> /\ rest = <<>>
      BY <2>1
    <3> HIDE DEF first, rest
    <3>2. \A k \in Kinds : F!CountOf(waiting, k) = 0 /\ F!CountOf(rest, k) = 0
                               /\ F!CountOf(first, k) = 0
      BY <3>1, <2>1, CountEmpty
    <3>3. QED
      BY <3>1, <3>2
  <2>2. CASE waiting # <<>>
    <3>1. first = SubSeq(waiting, 1, 1) /\ rest = Tail(waiting)
      BY <2>2
    <3>2. first \in Seq(Kinds) /\ rest \in Seq(Kinds)
      BY <1>2, <2>2, <3>1
    <3>3. \A k \in Kinds : F!CountOf(rest, k) \in Nat /\ F!CountOf(first, k) \in Nat
      BY <3>2, CountType
    <3>4. \A k \in Kinds : F!CountOf(waiting, k) = F!CountOf(first, k) + F!CountOf(rest, k)
      BY <1>2, <2>2, <3>1, CountTail
    <3>5. QED
      BY <3>2, <3>3, <3>4
  <2>3. QED
    BY <2>1, <2>2
<1>4. ASSUME NEW k \in Kinds
      PROVE  absent[<<id, q, k>>] + F!CountOf(responders[id][q], k)
                 = absent'[<<id, q, k>>] + F!CountOf(rest, k) + F!CountOf(first, k)
  <2>1. absent[<<id, q, k>>] \in Nat /\ absent' = absent
    BY <1>1 DEF F!TypeOK, F!Fetches
  <2>2. F!CountOf(rest, k) \in Nat /\ F!CountOf(first, k) \in Nat
    BY <1>3, CountType
  <2>3. F!CountOf(responders[id][q], k) = F!CountOf(rest, k) + F!CountOf(first, k)
    BY <1>3
  <2> HIDE DEF first, rest
  <2>4. QED
    BY <2>1, <2>2, <2>3
<1>5. timers' \in [Deploys \X Peers -> Nat] /\ absent' \in [F!Fetches -> Nat]
  BY <1>1 DEF F!TypeOK
<1>9. Leaves(id, q, first, rest)
  BY <1>1, <1>4, <1>5 DEF Leaves
<1>6. "failed" \in F!Results
  BY DEF F!Results
<1> HIDE DEF first, rest
<1>7. QED
  BY <1>1, <1>3, <1>5, <1>6, <1>9, LeaveOK

\* AbsentRemotely: all responders are answered.
LEMMA AbsentOK ==
    ASSUME F!TypeOK, Served, fetches' = fetches, NEW id \in Deploys, NEW q \in Peers,
           F!AbsentRemotely(id, q)
    PROVE  F!TypeOK' /\ Served'
<1> DEFINE first == responders[id][q]
<1>1. /\ responders' = [responders EXCEPT ![id][q] = <<>>]
      /\ F!Respond(id, [p \in Peers |-> IF p = q THEN responders[id][p] ELSE <<>>], "failed")
      /\ UNCHANGED <<stored, lookups, absent, timers, announcements>>
  BY DEF F!AbsentRemotely
<1>2. [p \in Peers |-> IF p = q THEN responders[id][p] ELSE <<>>]
          = [p \in Peers |-> IF p = q THEN first ELSE <<>>]
  OBVIOUS
<1>3. first \in Seq(Kinds) /\ <<>> \in Seq(Kinds)
  BY DEF F!TypeOK
<1>4. ASSUME NEW k \in Kinds
      PROVE  absent[<<id, q, k>>] + F!CountOf(responders[id][q], k)
                 = absent'[<<id, q, k>>] + F!CountOf(<<>>, k) + F!CountOf(first, k)
  <2>1. absent[<<id, q, k>>] \in Nat /\ absent' = absent
    BY <1>1 DEF F!TypeOK, F!Fetches
  <2>2. F!CountOf(<<>>, k) = 0 /\ F!CountOf(first, k) \in Nat
    BY <1>3, CountEmpty, CountType
  <2>3. QED
    BY <2>1, <2>2
<1>5. timers' \in [Deploys \X Peers -> Nat] /\ absent' \in [F!Fetches -> Nat]
  BY <1>1 DEF F!TypeOK
<1>9. Leaves(id, q, first, <<>>)
  BY <1>1, <1>4, <1>5 DEF Leaves
<1>6. "failed" \in F!Results
  BY DEF F!Results
<1>7. F!Respond(id, [p \in Peers |-> IF p = q THEN first ELSE <<>>], "failed")
  BY <1>1, <1>2
<1> HIDE DEF first
<1>8. QED
  BY <1>1, <1>3, <1>5, <1>6, <1>7, <1>9, LeaveOK

\* A fetch, taken apart.
LEMMA FetchParts ==
    ASSUME NEW f \in F!Fetches
    PROVE  /\ f[1] \in Deploys /\ f[2] \in Peers /\ f[3] \in Kinds
           /\ f = <<f[1], f[2], f[3]>>
           /\ \A i, p, k : f = <<i, p, k>> <=> i = f[1] /\ p = f[2] /\ k = f[3]
BY DEF F!Fetches

\* failed_to_get_from_storage without a message: all responders and the new one are
\* answered.
LEMMA CannotAskOK ==
    ASSUME F!TypeOK, Served, fetches' = fetches, NEW f \in F!Fetches, F!CannotAskPeer(f)
    PROVE  F!TypeOK' /\ Served'
<1>0. PICK id \in Deploys, q \in Peers, asker \in Kinds :
          f = <<id, q, asker>> /\ f[1] = id /\ f[2] = q /\ f[3] = asker
  BY FetchParts
<1> DEFINE waiting == responders[id][q]
           first == Append(waiting, asker)
<1>1. /\ absent[f] > 0
      /\ absent' = [absent EXCEPT ![f] = @ - 1]
      /\ responders' = [responders EXCEPT ![id][q] = <<>>]
      /\ F!Respond(id, [p \in Peers |-> IF p = q THEN first ELSE <<>>], "failed")
      /\ UNCHANGED <<stored, lookups, timers, announcements>>
  BY <1>0 DEF F!CannotAskPeer
<1>2. waiting \in Seq(Kinds) /\ <<>> \in Seq(Kinds) /\ first \in Seq(Kinds)
  BY DEF F!TypeOK
<1>3. ASSUME NEW k \in Kinds
      PROVE  absent[<<id, q, k>>] + F!CountOf(waiting, k)
                 = absent'[<<id, q, k>>] + F!CountOf(<<>>, k) + F!CountOf(first, k)
  <2>1. <<id, q, k>> \in F!Fetches /\ absent[<<id, q, k>>] \in Nat
    BY DEF F!TypeOK, F!Fetches
  <2>2. <<id, q, k>> = f <=> k = asker
    BY <1>0
  <2>3. /\ k = asker => absent'[<<id, q, k>>] = absent[<<id, q, k>>] - 1
        /\ k # asker => absent'[<<id, q, k>>] = absent[<<id, q, k>>]
    BY <1>1, <2>1, <2>2 DEF F!TypeOK
  <2>4. F!CountOf(first, k) = F!CountOf(waiting, k) + IF asker = k THEN 1 ELSE 0
    BY <1>2, CountAppend
  <2>5. F!CountOf(<<>>, k) = 0 /\ F!CountOf(waiting, k) \in Nat
    BY <1>2, CountEmpty, CountType
  <2> HIDE DEF first, waiting
  <2>6. QED
    BY <2>1, <2>3, <2>4, <2>5
<1>4. absent' \in [F!Fetches -> Nat] /\ timers' \in [Deploys \X Peers -> Nat]
  BY <1>1 DEF F!TypeOK
<1>5. \A g \in F!Fetches : g[1] # id \/ g[2] # q => absent'[g] = absent[g]
  BY <1>0, <1>1 DEF F!TypeOK
<1>6. Leaves(id, q, first, <<>>)
  BY <1>3, <1>4, <1>5 DEF Leaves
<1>7. "failed" \in F!Results
  BY DEF F!Results
<1> HIDE DEF first, waiting
<1>8. QED
  BY <1>1, <1>2, <1>4, <1>6, <1>7, LeaveOK

\* GotRemotely: everyone who waits for the item is answered.
LEMMA GotOK ==
    ASSUME F!TypeOK, Served, fetches' = fetches, NEW id \in Deploys, NEW source \in F!Sources,
           F!GotRemotely(id, source)
    PROVE  F!TypeOK' /\ Served'
<1> DEFINE lost == responders[id]
<1>1. /\ announcements' = announcements \ {<<id, source>>}
      /\ responders' = [responders EXCEPT ![id] = [p \in Peers |-> <<>>]]
      /\ F!Respond(id, lost, "ok")
      /\ UNCHANGED <<stored, lookups, absent, timers>>
  BY DEF F!GotRemotely
<1>2. lost \in [Peers -> Seq(Kinds)]
  BY DEF F!TypeOK
<1>3. "ok" \in F!Results
  BY DEF F!Results
<1>4. /\ responders' \in [Deploys -> [Peers -> Seq(Kinds)]]
      /\ \A p \in Peers : responders'[id][p] = <<>>
      /\ \A i \in Deploys \ {id} : responders'[i] = responders[i]
  BY <1>1 DEF F!TypeOK
<1>5. answers' \in [Deploys \X Kinds \X F!Results -> Nat]
  BY <1>1, <1>2, <1>3, RespondType
<1>6. F!TypeOK'
  BY <1>1, <1>4, <1>5 DEF F!TypeOK
<1>7. ASSUME NEW dt \in DeployOrTransfer, NEW p \in Peers
      PROVE  Place(dt, p) = Place(dt, p)' + IF dt[1] = id THEN F!CountOf(lost[p], dt[2]) ELSE 0
  <2>1. dt[1] \in Deploys /\ dt[2] \in Kinds
    BY DEF DeployOrTransfer
  <2> DEFINE n == lookups[<<dt[1], p, dt[2]>>] + absent[<<dt[1], p, dt[2]>>]
             c == F!CountOf(responders[dt[1]][p], dt[2])
             d == F!CountOf(responders'[dt[1]][p], dt[2])
  <2>2. Place(dt, p) = n + c /\ Place(dt, p)' = n + d
    BY <1>1 DEF Place
  <2>3. n \in Nat
    BY <2>1 DEF F!TypeOK, F!Fetches
  <2>4. c \in Nat
    <3>1. responders[dt[1]][p] \in Seq(Kinds)
      BY <2>1 DEF F!TypeOK
    <3>2. QED
      BY <3>1, CountType
  <2>5. CASE dt[1] = id
    <3>1. d = 0 /\ (IF dt[1] = id THEN F!CountOf(lost[p], dt[2]) ELSE 0) = c
      BY <1>4, <2>5, CountEmpty
    <3> HIDE DEF n, c, d, lost
    <3>2. QED
      BY <3>1, <2>2, <2>3, <2>4
  <2>6. CASE dt[1] # id
    <3>1. c = d /\ (IF dt[1] = id THEN F!CountOf(lost[p], dt[2]) ELSE 0) = 0
      BY <1>4, <2>1, <2>6
    <3> HIDE DEF n, c, d, lost
    <3>2. QED
      BY <3>1, <2>2, <2>3, <2>4
  <2>7. QED
    BY <2>5, <2>6
<1> HIDE DEF lost
<1>8. QED
  BY <1>1, <1>2, <1>3, <1>6, <1>7, MovedOK

\* Nothing moves.
LEMMA StillServed ==
    ASSUME Served, fetches' = fetches, answers' = answers,
           \A dt \in DeployOrTransfer, p \in Peers : Place(dt, p)' = Place(dt, p)
    PROVE  Served'
<1> SUFFICES ASSUME NEW dt \in DeployOrTransfer
             PROVE  fetches[dt] = SumFunction(Places(dt)') + Answered(dt)'
  BY DEF Served
<1>1. Places(dt)' = Places(dt)
  BY DEF Places
<1>2. Answered(dt)' = Answered(dt)
  BY DEF Answered
<1>3. QED
  BY <1>1, <1>2 DEF Served

LEMMA NotInStorageOK ==
    ASSUME F!TypeOK, Served, fetches' = fetches, NEW f \in F!Fetches, F!NotInStorage(f)
    PROVE  F!TypeOK' /\ Served'
<1>1. /\ lookups[f] > 0
      /\ lookups' = [lookups EXCEPT ![f] = @ - 1]
      /\ absent' = [absent EXCEPT ![f] = @ + 1]
      /\ UNCHANGED <<stored, responders, timers, announcements, answers>>
  BY DEF F!NotInStorage
<1>2. F!TypeOK'
  BY <1>1 DEF F!TypeOK
<1>3. ASSUME NEW dt \in DeployOrTransfer, NEW p \in Peers PROVE Place(dt, p)' = Place(dt, p)
  <2> DEFINE g == <<dt[1], p, dt[2]>>
             c == F!CountOf(responders[dt[1]][p], dt[2])
  <2>1. g \in F!Fetches
    BY DEF DeployOrTransfer, F!Fetches
  <2>2. Place(dt, p) = lookups[g] + absent[g] + c /\ Place(dt, p)' = lookups'[g] + absent'[g] + c
    BY <1>1 DEF Place
  <2> HIDE DEF g, c
  <2>3. lookups[g] \in Nat /\ absent[g] \in Nat
    BY <2>1 DEF F!TypeOK
  <2>4. lookups'[g] + absent'[g] = lookups[g] + absent[g]
    BY <1>1, <2>1, <2>3 DEF F!TypeOK
  <2>5. QED
    BY <2>2, <2>4
<1>4. QED
  BY <1>1, <1>2, <1>3, StillServed

\* failed_to_get_from_storage: the fetch becomes a responder.
LEMMA AskOK ==
    ASSUME F!TypeOK, Served, fetches' = fetches, NEW f \in F!Fetches, F!AskPeer(f)
    PROVE  F!TypeOK' /\ Served'
<1>0. PICK id \in Deploys, q \in Peers, asker \in Kinds :
          f = <<id, q, asker>> /\ f[1] = id /\ f[2] = q /\ f[3] = asker
  BY FetchParts
<1> DEFINE waiting == responders[id][q]
           new == Append(waiting, asker)
<1>1. /\ absent[f] > 0
      /\ absent' = [absent EXCEPT ![f] = @ - 1]
      /\ responders' = [responders EXCEPT ![id][q] = Append(@, asker)]
      /\ timers' = [timers EXCEPT ![<<id, q>>] = @ + 1]
      /\ UNCHANGED <<stored, lookups, announcements, answers>>
  BY <1>0 DEF F!AskPeer
<1>2. waiting \in Seq(Kinds) /\ new \in Seq(Kinds)
  BY DEF F!TypeOK
<1>3. responders' = [responders EXCEPT ![id][q] = new]
  BY <1>1 DEF F!TypeOK
<1>4. /\ responders' \in [Deploys -> [Peers -> Seq(Kinds)]]
      /\ responders'[id][q] = new
      /\ \A i \in Deploys, p \in Peers :
            ~ (i = id /\ p = q) => responders'[i][p] = responders[i][p]
  <2> HIDE DEF new
  <2>1. QED
    BY <1>2, <1>3, OtherPlaces
<1>5. F!TypeOK'
  BY <1>1, <1>4 DEF F!TypeOK
<1>6. ASSUME NEW dt \in DeployOrTransfer, NEW p \in Peers PROVE Place(dt, p)' = Place(dt, p)
  <2> DEFINE g == <<dt[1], p, dt[2]>>
             c == F!CountOf(responders[dt[1]][p], dt[2])
             d == F!CountOf(responders'[dt[1]][p], dt[2])
  <2>1. dt[1] \in Deploys /\ dt[2] \in Kinds /\ g \in F!Fetches
    BY DEF DeployOrTransfer, F!Fetches
  <2>2. Place(dt, p) = lookups[g] + absent[g] + c /\ Place(dt, p)' = lookups[g] + absent'[g] + d
    BY <1>1 DEF Place
  <2>3. lookups[g] \in Nat /\ absent[g] \in Nat /\ absent'[g] \in Nat
    BY <2>1, <1>5 DEF F!TypeOK
  <2>4. g = f <=> dt[1] = id /\ p = q /\ dt[2] = asker
    BY <1>0
  <2>5. CASE dt[1] = id /\ p = q
    <3>1. c = F!CountOf(waiting, dt[2]) /\ d = F!CountOf(new, dt[2])
      BY <1>4, <2>5
    <3>2. F!CountOf(new, dt[2]) = F!CountOf(waiting, dt[2]) + IF asker = dt[2] THEN 1 ELSE 0
      BY <1>2, CountAppend
    <3>3. F!CountOf(waiting, dt[2]) \in Nat
      BY <1>2, CountType
    <3>4. /\ asker = dt[2] => absent'[g] = absent[g] - 1
          /\ asker # dt[2] => absent'[g] = absent[g]
      BY <1>1, <2>1, <2>4, <2>5 DEF F!TypeOK
    <3> HIDE DEF g, c, d, new, waiting
    <3>5. CASE asker = dt[2]
      BY <3>1, <3>2, <3>3, <3>4, <3>5, <2>2, <2>3
    <3>6. CASE asker # dt[2]
      BY <3>1, <3>2, <3>3, <3>4, <3>6, <2>2, <2>3
    <3>7. QED
      BY <3>5, <3>6
  <2>6. CASE ~ (dt[1] = id /\ p = q)
    <3>1. c = d
      BY <1>4, <2>1, <2>6
    <3>2. absent'[g] = absent[g]
      BY <1>1, <2>1, <2>4, <2>6 DEF F!TypeOK
    <3>3. QED
      BY <3>1, <3>2, <2>2
  <2>7. QED
    BY <2>5, <2>6
<1>7. QED
  BY <1>1, <1>5, <1>6, StillServed

\* What is left of a count when there is one more, or one less, at one place.
LEMMA OneAnswer ==
    ASSUME F!TypeOK, NEW dt \in DeployOrTransfer, NEW r \in F!Results, NEW n \in {1, 0 - 1},
           answers[<<dt[1], dt[2], r>>] + n \in Nat,
           answers' = [answers EXCEPT ![<<dt[1], dt[2], r>>] = @ + n]
    PROVE  /\ answers' \in [Deploys \X Kinds \X F!Results -> Nat]
           /\ Answered(dt)' = Answered(dt) + n
           /\ \A d \in DeployOrTransfer \ {dt} : Answered(d)' = Answered(d)
<1>1. dt[1] \in Deploys /\ dt[2] \in Kinds
  BY DEF DeployOrTransfer
<1>2. answers' \in [Deploys \X Kinds \X F!Results -> Nat]
  BY DEF F!TypeOK
<1>3. ASSUME NEW d \in DeployOrTransfer, NEW x \in F!Results
      PROVE  answers'[<<d[1], d[2], x>>] =
                 IF d = dt /\ x = r THEN answers[<<d[1], d[2], x>>] + n
                 ELSE answers[<<d[1], d[2], x>>]
  <2>1. d[1] \in Deploys /\ d[2] \in Kinds /\ (d = dt <=> d[1] = dt[1] /\ d[2] = dt[2])
    BY DEF DeployOrTransfer
  <2>2. <<d[1], d[2], x>> = <<dt[1], dt[2], r>> <=> d = dt /\ x = r
    BY <2>1
  <2>3. QED
    BY <2>1, <2>2 DEF F!TypeOK
<1>4. /\ answers[<<dt[1], dt[2], "ok">>] \in Nat
      /\ answers[<<dt[1], dt[2], "failed">>] \in Nat
  BY PlacesType
<1>5. "ok" \in F!Results /\ "failed" \in F!Results /\ r \in {"ok", "failed"}
  BY DEF F!Results
<1>6. Answered(dt)' = Answered(dt) + n
  <2>1. CASE r = "ok"
    <3>1. /\ answers'[<<dt[1], dt[2], "ok">>] = answers[<<dt[1], dt[2], "ok">>] + n
          /\ answers'[<<dt[1], dt[2], "failed">>] = answers[<<dt[1], dt[2], "failed">>]
      BY <1>3, <1>5, <2>1
    <3>2. QED
      BY <3>1, <1>4 DEF Answered
  <2>2. CASE r = "failed"
    <3>1. /\ answers'[<<dt[1], dt[2], "failed">>] = answers[<<dt[1], dt[2], "failed">>] + n
          /\ answers'[<<dt[1], dt[2], "ok">>] = answers[<<dt[1], dt[2], "ok">>]
      BY <1>3, <1>5, <2>2
    <3>2. QED
      BY <3>1, <1>4 DEF Answered
  <2>3. QED
    BY <1>5, <2>1, <2>2
<1>7. \A d \in DeployOrTransfer \ {dt} : Answered(d)' = Answered(d)
  BY <1>3, <1>5 DEF Answered
<1>8. QED
  BY <1>2, <1>6, <1>7

\* Fetch: every pair in new has one more lookup.
LEMMA FetchOK ==
    ASSUME F!TypeOK, NEW new \in SUBSET DeployOrTransfer, NEW q \in Peers, F!Fetch(new, q),
           UNCHANGED <<absent, responders>>
    PROVE  /\ lookups' \in [F!Fetches -> Nat]
           /\ \A dt \in DeployOrTransfer :
                 SumFunction(Places(dt)') = SumFunction(Places(dt)) + IF dt \in new THEN 1 ELSE 0
<1>1. lookups' = [f \in F!Fetches |->
          lookups[f] + IF <<f[1], f[3]>> \in new /\ f[2] = q THEN 1 ELSE 0]
  BY DEF F!Fetch
<1>2. lookups' \in [F!Fetches -> Nat]
  BY <1>1 DEF F!TypeOK
<1>3. ASSUME NEW dt \in DeployOrTransfer
      PROVE  SumFunction(Places(dt)') = SumFunction(Places(dt)) + IF dt \in new THEN 1 ELSE 0
  <2> DEFINE n == IF dt \in new THEN 1 ELSE 0
             g == Places(dt)
             h == Places(dt)'
  <2>1. g \in [Peers -> Nat]
    BY PlacesType
  <2>2. ASSUME NEW p \in Peers PROVE h[p] = g[p] + IF p = q THEN n ELSE 0
    <3> DEFINE f == <<dt[1], p, dt[2]>>
               c == F!CountOf(responders[dt[1]][p], dt[2])
    <3>1. f \in F!Fetches /\ <<f[1], f[3]>> = dt /\ f[2] = p
      BY DEF DeployOrTransfer, F!Fetches
    <3>2. lookups'[f] = lookups[f] + IF p = q THEN n ELSE 0
      <4>1. lookups'[f] = lookups[f] + IF <<f[1], f[3]>> \in new /\ f[2] = q THEN 1 ELSE 0
        BY <1>1, <3>1
      <4>2. QED
        BY <4>1, <3>1
    <3>3. g[p] = lookups[f] + absent[f] + c /\ h[p] = lookups'[f] + absent[f] + c
      BY DEF Places, Place
    <3>4. lookups[f] \in Nat /\ absent[f] \in Nat /\ c \in Nat
      <4>1. responders[dt[1]][p] \in Seq(Kinds)
        BY DEF F!TypeOK, DeployOrTransfer
      <4>2. QED
        BY <3>1, <4>1, CountType DEF F!TypeOK
    <3>5. n \in Nat
      OBVIOUS
    <3> HIDE DEF n, g, h, f, c
    <3>6. QED
      BY <3>2, <3>3, <3>4, <3>5
  <2>3. h \in [Peers -> Nat]
    <3>1. h = [p \in Peers |-> h[p]]
      BY DEF Places
    <3>2. n \in Nat
      OBVIOUS
    <3> HIDE DEF n, g, h
    <3>3. \A p \in Peers : h[p] \in Nat
      BY <2>1, <2>2, <3>2
    <3>4. QED
      BY <3>1, <3>3
  <2>4. n \in Nat
    OBVIOUS
  <2> HIDE DEF n, g, h
  <2>5. SumFunction(h) = SumFunction(g) + n
    BY <2>1, <2>2, <2>3, <2>4, OneMore
  <2>6. QED
    BY <2>5 DEF n, g, h
<1>4. QED
  BY <1>2, <1>3

\* FoundInStorage: the fetch is answered.
LEMMA FoundOK ==
    ASSUME F!TypeOK, Served, fetches' = fetches, NEW f \in F!Fetches, F!FoundInStorage(f)
    PROVE  F!TypeOK' /\ Served'
<1>0. PICK id \in Deploys, q \in Peers, asker \in Kinds :
          f = <<id, q, asker>> /\ f[1] = id /\ f[2] = q /\ f[3] = asker
  BY FetchParts
<1> DEFINE of == <<id, asker>>
<1>1. /\ lookups[f] > 0
      /\ lookups' = [lookups EXCEPT ![f] = @ - 1]
      /\ answers' = [answers EXCEPT ![<<of[1], of[2], "ok">>] = @ + 1]
      /\ UNCHANGED <<stored, absent, responders, timers, announcements>>
  BY <1>0 DEF F!FoundInStorage
<1>2. of \in DeployOrTransfer /\ "ok" \in F!Results
  BY DEF DeployOrTransfer, F!Results
<1>3. /\ answers' \in [Deploys \X Kinds \X F!Results -> Nat]
      /\ Answered(of)' = Answered(of) + 1
      /\ \A d \in DeployOrTransfer \ {of} : Answered(d)' = Answered(d)
  <2>1. answers[<<of[1], of[2], "ok">>] \in Nat
    BY <1>2, PlacesType
  <2>2. answers[<<of[1], of[2], "ok">>] + 1 \in Nat
    BY <2>1
  <2> HIDE DEF of
  <2>3. QED
    BY <1>1, <1>2, <2>2, OneAnswer
<1>4. lookups' \in [F!Fetches -> Nat]
  BY <1>1 DEF F!TypeOK
<1>5. F!TypeOK'
  BY <1>1, <1>3, <1>4 DEF F!TypeOK
<1>6. ASSUME NEW dt \in DeployOrTransfer
      PROVE  fetches[dt] = SumFunction(Places(dt)') + Answered(dt)'
  <2> DEFINE g == Places(dt)
             h == Places(dt)'
  <2>1. /\ g \in [Peers -> Nat] /\ SumFunction(g) \in Nat /\ Answered(dt) \in Nat
        /\ fetches[dt] = SumFunction(g) + Answered(dt)
    BY PlacesType DEF Served
  <2>2. ASSUME NEW p \in Peers
        PROVE  h[p] \in Nat /\ g[p] = h[p] + IF p = q THEN (IF dt = of THEN 1 ELSE 0) ELSE 0
    <3> DEFINE x == <<dt[1], p, dt[2]>>
               c == F!CountOf(responders[dt[1]][p], dt[2])
    <3>1. x \in F!Fetches /\ (x = f <=> p = q /\ dt = of)
      BY <1>0 DEF DeployOrTransfer, F!Fetches
    <3>2. g[p] = lookups[x] + absent[x] + c /\ h[p] = lookups'[x] + absent[x] + c
      BY <1>1 DEF Places, Place
    <3>3. lookups[x] \in Nat /\ lookups'[x] \in Nat /\ absent[x] \in Nat /\ c \in Nat
      <4>1. responders[dt[1]][p] \in Seq(Kinds)
        BY DEF F!TypeOK, DeployOrTransfer
      <4>2. QED
        BY <1>4, <3>1, <4>1, CountType DEF F!TypeOK
    <3>4. /\ lookups'[f] = lookups[f] - 1
          /\ \A y \in F!Fetches : y # f => lookups'[y] = lookups[y]
      BY <1>1 DEF F!TypeOK
    <3> HIDE DEF g, h, x, c, of
    <3>5. CASE p = q /\ dt = of
      <4>1. x = f
        BY <3>1, <3>5
      <4>2. lookups'[x] = lookups[x] - 1
        BY <3>4, <4>1
      <4>3. QED
        BY <3>2, <3>3, <3>5, <4>2
    <3>6. CASE ~ (p = q /\ dt = of)
      <4>1. x # f
        BY <3>1, <3>6
      <4>2. lookups'[x] = lookups[x]
        BY <3>1, <3>4, <4>1
      <4>3. QED
        BY <3>2, <3>3, <3>6, <4>2
    <3>7. QED
      BY <3>5, <3>6
  <2>3. h \in [Peers -> Nat]
    BY <2>2 DEF Places
  <2>4. SumFunction(h) \in Nat
    BY <2>3, PeersAssumption, SumOfSums
  <2> DEFINE n == IF dt = of THEN 1 ELSE 0
  <2>5. n \in Nat /\ \A p \in Peers : g[p] = h[p] + IF p = q THEN n ELSE 0
    BY <2>2
  <2>6. Answered(dt)' = Answered(dt) + n
    BY <1>3, <2>1
  <2> HIDE DEF g, h, n
  <2>7. SumFunction(g) = SumFunction(h) + n
    BY <2>1, <2>3, <2>5, OneMore
  <2>8. fetches[dt] = SumFunction(h) + Answered(dt)'
    BY <2>1, <2>4, <2>5, <2>6, <2>7
  <2>9. QED
    BY <2>8 DEF h
<1>7. QED
  BY <1>5, <1>6 DEF Served

\* Every event of the fetcher keeps the count.
LEMMA FetcherStepOK ==
    ASSUME F!TypeOK, Served, fetches' = fetches, F!FetcherStep
    PROVE  F!TypeOK' /\ Served'
<1>1. ASSUME NEW f \in F!Fetches,
             F!FoundInStorage(f) \/ F!NotInStorage(f) \/ F!AskPeer(f) \/ F!CannotAskPeer(f)
      PROVE  F!TypeOK' /\ Served'
  BY <1>1, FoundOK, NotInStorageOK, AskOK, CannotAskOK
<1>2. ASSUME NEW id \in Deploys, NEW source \in F!Sources,
             F!PutDeploy(id, source) \/ F!GotFromClient(id, source)
      PROVE  F!TypeOK' /\ Served'
  <2>1. UNCHANGED <<lookups, absent, responders, timers, answers>>
    BY <1>2 DEF F!PutDeploy, F!GotFromClient
  <2>2. stored' \in SUBSET Deploys /\ announcements' \in SUBSET (Deploys \X F!Sources)
    BY <1>2 DEF F!PutDeploy, F!GotFromClient, F!TypeOK
  <2>3. F!TypeOK'
    BY <2>1, <2>2 DEF F!TypeOK
  <2>4. \A dt \in DeployOrTransfer, p \in Peers : Place(dt, p)' = Place(dt, p)
    BY <2>1 DEF Place
  <2>5. QED
    BY <2>1, <2>3, <2>4, StillServed
<1>3. ASSUME NEW id \in Deploys, NEW source \in F!Sources, F!GotRemotely(id, source)
      PROVE  F!TypeOK' /\ Served'
  BY <1>3, GotOK
<1>4. ASSUME NEW id \in Deploys, NEW q \in Peers,
             F!AbsentRemotely(id, q) \/ F!TimeoutPeer(id, q)
      PROVE  F!TypeOK' /\ Served'
  BY <1>4, AbsentOK, TimeoutOK
<1>5. QED
  BY <1>1, <1>2, <1>3, <1>4 DEF F!FetcherStep

\* A fetch has ended, and the validator takes its answer.
LEMMA TakeOK ==
    ASSUME TypeOK, F!TypeOK, Served, NEW dt \in DeployOrTransfer, NEW r \in F!Results,
           F!TakeAnswer(dt[1], dt[2], r), EndFetch(dt),
           UNCHANGED <<stored, lookups, absent, responders, timers, announcements>>
    PROVE  F!TypeOK' /\ Served'
<1>1. dt[1] \in Deploys /\ dt[2] \in Kinds
  BY DEF DeployOrTransfer
<1>2. /\ answers[<<dt[1], dt[2], r>>] + (0 - 1) \in Nat
      /\ answers' = [answers EXCEPT ![<<dt[1], dt[2], r>>] = @ + (0 - 1)]
  <2>1. answers[<<dt[1], dt[2], r>>] \in Nat
    BY <1>1 DEF F!TypeOK
  <2>2. /\ answers[<<dt[1], dt[2], r>>] > 0
        /\ answers' = [answers EXCEPT ![<<dt[1], dt[2], r>>] = @ - 1]
    BY DEF F!TakeAnswer
  <2> DEFINE k == <<dt[1], dt[2], r>>
             n == answers[k]
  <2>3. n - 1 = n + (0 - 1) /\ n + (0 - 1) \in Nat
    BY <2>1, <2>2
  <2>4. [answers EXCEPT ![k] = n - 1] = [answers EXCEPT ![k] = n + (0 - 1)]
    <3> HIDE DEF k, n
    <3>1. QED
      BY <2>3
  <2>5. QED
    BY <2>2, <2>3, <2>4
<1>3. /\ answers' \in [Deploys \X Kinds \X F!Results -> Nat]
      /\ Answered(dt)' = Answered(dt) + (0 - 1)
      /\ \A d \in DeployOrTransfer \ {dt} : Answered(d)' = Answered(d)
  BY <1>2, OneAnswer
<1>4. F!TypeOK'
  BY <1>3 DEF F!TypeOK
<1>5. ASSUME NEW d \in DeployOrTransfer
      PROVE  fetches'[d] = SumFunction(Places(d)') + Answered(d)'
  <2>1. Places(d)' = Places(d)
    BY DEF Places, Place
  <2>2. /\ SumFunction(Places(d)) \in Nat /\ Answered(d) \in Nat
        /\ fetches[d] = SumFunction(Places(d)) + Answered(d)
    BY PlacesType DEF Served
  <2>3. CASE d = dt
    <3>1. fetches'[d] = fetches[d] - 1
      BY <2>3 DEF EndFetch, TypeOK
    <3>2. QED
      BY <1>3, <2>1, <2>2, <2>3, <3>1
  <2>4. CASE d # dt
    <3>1. fetches'[d] = fetches[d]
      BY <2>4 DEF EndFetch, TypeOK
    <3>2. QED
      BY <1>3, <2>1, <2>2, <2>4, <3>1
  <2>5. QED
    BY <2>3, <2>4
<1>6. QED
  BY <1>4, <1>5 DEF Served

\* An answer is taken, and the deploy is fetched again.
LEMMA AgainOK ==
    ASSUME F!TypeOK, Served, fetches' = fetches, NEW dt \in DeployOrTransfer, NEW q \in Peers,
           F!TakeAnswer(dt[1], dt[2], "failed"), F!Fetch({dt}, q),
           UNCHANGED <<stored, absent, responders, timers, announcements>>
    PROVE  F!TypeOK' /\ Served'
<1>0. dt[1] \in Deploys /\ dt[2] \in Kinds /\ "failed" \in F!Results
  BY DEF DeployOrTransfer, F!Results
<1>1. /\ answers[<<dt[1], dt[2], "failed">>] + (0 - 1) \in Nat
      /\ answers' = [answers EXCEPT ![<<dt[1], dt[2], "failed">>] = @ + (0 - 1)]
  <2>1. answers[<<dt[1], dt[2], "failed">>] \in Nat
    BY <1>0 DEF F!TypeOK
  <2>2. /\ answers[<<dt[1], dt[2], "failed">>] > 0
        /\ answers' = [answers EXCEPT ![<<dt[1], dt[2], "failed">>] = @ - 1]
    BY DEF F!TakeAnswer
  <2> DEFINE k == <<dt[1], dt[2], "failed">>
             n == answers[k]
  <2>3. n - 1 = n + (0 - 1) /\ n + (0 - 1) \in Nat
    BY <2>1, <2>2
  <2>4. [answers EXCEPT ![k] = n - 1] = [answers EXCEPT ![k] = n + (0 - 1)]
    <3> HIDE DEF k, n
    <3>1. QED
      BY <2>3
  <2>5. QED
    BY <2>2, <2>3, <2>4
<1>2. /\ answers' \in [Deploys \X Kinds \X F!Results -> Nat]
      /\ Answered(dt)' = Answered(dt) + (0 - 1)
      /\ \A d \in DeployOrTransfer \ {dt} : Answered(d)' = Answered(d)
  BY <1>0, <1>1, OneAnswer
<1>3. /\ lookups' \in [F!Fetches -> Nat]
      /\ \A d \in DeployOrTransfer :
            SumFunction(Places(d)') = SumFunction(Places(d)) + IF d \in {dt} THEN 1 ELSE 0
  <2>1. {dt} \in SUBSET DeployOrTransfer
    OBVIOUS
  <2>2. QED
    BY <2>1, FetchOK
<1>4. F!TypeOK'
  BY <1>2, <1>3 DEF F!TypeOK
<1>5. ASSUME NEW d \in DeployOrTransfer
      PROVE  fetches[d] = SumFunction(Places(d)') + Answered(d)'
  <2>1. /\ SumFunction(Places(d)) \in Nat /\ Answered(d) \in Nat
        /\ fetches[d] = SumFunction(Places(d)) + Answered(d)
    BY PlacesType DEF Served
  <2>2. CASE d = dt
    BY <1>2, <1>3, <2>1, <2>2
  <2>3. CASE d # dt
    BY <1>2, <1>3, <2>1, <2>3
  <2>4. QED
    BY <2>2, <2>3
<1>6. QED
  BY <1>4, <1>5 DEF Served

\* All deploys of a block are fetched.
LEMMA StartOK ==
    ASSUME TypeOK, F!TypeOK, Served, NEW b \in Blocks, NEW sender \in Peers,
           RequestAndFetch(b, sender)
    PROVE  F!TypeOK' /\ Served'
<1>1. /\ fetches' = [dt \in DeployOrTransfer |->
             fetches[dt] + IF dt \in Content[b] THEN 1 ELSE 0]
      /\ F!Fetch(Content[b], sender)
      /\ UNCHANGED <<stored, absent, responders, timers, announcements, answers>>
  BY DEF RequestAndFetch, StartRequest
<1>2. /\ lookups' \in [F!Fetches -> Nat]
      /\ \A d \in DeployOrTransfer :
            SumFunction(Places(d)') = SumFunction(Places(d)) + IF d \in Content[b] THEN 1 ELSE 0
  <2>1. Content[b] \in SUBSET DeployOrTransfer
    BY BlocksAssumption
  <2>2. QED
    BY <1>1, <2>1, FetchOK
<1>3. F!TypeOK'
  BY <1>1, <1>2 DEF F!TypeOK
<1>4. ASSUME NEW d \in DeployOrTransfer
      PROVE  fetches'[d] = SumFunction(Places(d)') + Answered(d)'
  <2>1. /\ SumFunction(Places(d)) \in Nat /\ Answered(d) \in Nat
        /\ fetches[d] = SumFunction(Places(d)) + Answered(d)
    BY PlacesType DEF Served
  <2>2. Answered(d)' = Answered(d)
    BY <1>1 DEF Answered
  <2>3. fetches'[d] = fetches[d] + IF d \in Content[b] THEN 1 ELSE 0
    BY <1>1
  <2>4. CASE d \in Content[b]
    BY <1>2, <2>1, <2>2, <2>3, <2>4
  <2>5. CASE d \notin Content[b]
    BY <1>2, <2>1, <2>2, <2>3, <2>5
  <2>6. QED
    BY <2>4, <2>5
<1>5. QED
  BY <1>3, <1>4 DEF Served

LEMMA ServedStep ==
    TypeOK /\ F!TypeOK /\ Served /\ [NodeNext]_allVars => F!TypeOK' /\ Served'
<1> SUFFICES ASSUME TypeOK, F!TypeOK, Served, [NodeNext]_allVars PROVE F!TypeOK' /\ Served'
  OBVIOUS
<1>1. CASE UNCHANGED <<fetches, fetcherVars>>
  <2>1. F!TypeOK'
    BY <1>1 DEF F!TypeOK, fetcherVars
  <2>2. \A dt \in DeployOrTransfer, p \in Peers : Place(dt, p)' = Place(dt, p)
    BY <1>1 DEF Place, fetcherVars
  <2>3. fetches' = fetches /\ answers' = answers
    BY <1>1 DEF fetcherVars
  <2>4. QED
    BY <2>1, <2>2, <2>3, StillServed
<1>2. ASSUME NEW b \in Blocks, NEW sender \in Peers, Request(b, sender)
      PROVE  UNCHANGED <<fetches, fetcherVars>>
  BY <1>2 DEF Request, AnswerRequest, JoinRequest
<1>3. ASSUME NEW b \in Blocks, NEW sender \in Peers, RequestAndFetch(b, sender)
      PROVE  F!TypeOK' /\ Served'
  BY <1>3, StartOK
<1>4. ASSUME NEW dt \in DeployOrTransfer, FetchResult(dt)
      PROVE  F!TypeOK' /\ Served'
  <2>1. "ok" \in F!Results /\ "failed" \in F!Results
    BY DEF F!Results
  <2>2. CASE FetchSucceeds(dt)
    <3>1. /\ F!TakeAnswer(dt[1], dt[2], "ok") /\ EndFetch(dt)
          /\ UNCHANGED <<stored, lookups, absent, responders, timers, announcements>>
      BY <2>2 DEF FetchSucceeds, DeployFound, CannotConvertDeploy
    <3>2. QED
      BY <2>1, <3>1, TakeOK
  <2>3. CASE FetchFails(dt)
    <3>1. /\ F!TakeAnswer(dt[1], dt[2], "failed") /\ EndFetch(dt)
          /\ UNCHANGED <<stored, lookups, absent, responders, timers, announcements>>
      BY <2>3 DEF FetchFails, IgnoreMissing, GiveUpMissing
    <3>2. QED
      BY <2>1, <3>1, TakeOK
  <2>4. ASSUME NEW b \in Retriable(dt), NEW failed \in SUBSET (Waiting(dt) \ Retriable(dt)),
               FetchAgain(dt, b, failed)
        PROVE  F!TypeOK' /\ Served'
    <3>1. /\ b \in Blocks /\ states[b] # None /\ states[b].sources # <<>>
      BY DEF Retriable, Waiting
    <3>2. states[b].sources \in Seq(Peers)
      BY <3>1 DEF TypeOK, State
    <3>3. Head(states[b].sources) \in Peers
      BY <3>1, <3>2
    <3>4. /\ F!TakeAnswer(dt[1], dt[2], "failed") /\ F!Fetch({dt}, Head(states[b].sources))
          /\ UNCHANGED <<stored, absent, responders, timers, announcements>>
          /\ fetches' = fetches
      BY <2>4 DEF FetchAgain, RetryMissing
    <3>5. QED
      BY <3>3, <3>4, AgainOK
  <2>5. QED
    BY <1>4, <2>2, <2>3, <2>4 DEF FetchResult
<1>5. CASE F!FetcherStep /\ UNCHANGED bvVars
  <2>1. fetches' = fetches
    BY <1>5 DEF bvVars, vars
  <2>2. QED
    BY <1>5, <2>1, FetcherStepOK
<1>6. CASE UNCHANGED allVars
  <2>1. UNCHANGED <<fetches, fetcherVars>>
    BY <1>6 DEF allVars, vars
  <2>2. QED
    BY <1>1, <2>1
<1>7. QED
  BY <1>1, <1>2, <1>3, <1>4, <1>5, <1>6 DEF NodeNext

LEMMA ServedInit == NodeInit => F!TypeOK /\ Served
<1> SUFFICES ASSUME NodeInit PROVE F!TypeOK /\ Served
  OBVIOUS
<1>1. /\ stored = {}
      /\ lookups = [f \in F!Fetches |-> 0]
      /\ absent = [f \in F!Fetches |-> 0]
      /\ responders = [id \in Deploys |-> [p \in Peers |-> <<>>]]
      /\ timers = [ip \in Deploys \X Peers |-> 0]
      /\ announcements = {}
      /\ answers = [a \in Deploys \X Kinds \X F!Results |-> 0]
      /\ fetches = [dt \in DeployOrTransfer |-> 0]
  BY DEF NodeInit, F!Init, Init
<1>2. F!TypeOK
  BY <1>1 DEF F!TypeOK
<1>3. ASSUME NEW dt \in DeployOrTransfer PROVE fetches[dt] = SumFunction(Places(dt)) + Answered(dt)
  <2>1. dt[1] \in Deploys /\ dt[2] \in Kinds
    BY DEF DeployOrTransfer
  <2>2. ASSUME NEW p \in Peers PROVE Place(dt, p) = 0
    <3>1. responders[dt[1]][p] = <<>>
      BY <1>1, <2>1
    <3>2. <<dt[1], p, dt[2]>> \in F!Fetches
      BY <2>1 DEF F!Fetches
    <3>3. lookups[<<dt[1], p, dt[2]>>] = 0 /\ absent[<<dt[1], p, dt[2]>>] = 0
      BY <1>1, <3>2
    <3>4. F!CountOf(<<>>, dt[2]) = 0
      BY CountEmpty
    <3>5. QED
      BY <3>1, <3>3, <3>4 DEF Place
  <2> DEFINE g == Places(dt)
  <2>3. g \in [Peers -> Nat] /\ SumFunction(g) \in Nat /\ \A p \in Peers : g[p] = 0
    BY <1>2, <2>2, PlacesType DEF Places
  <2> HIDE DEF g
  <2>4. SumFunction([p \in Peers |-> g[p] + g[p]]) = SumFunction(g) + SumFunction(g)
    BY <2>3, PeersAssumption, SumOfSums
  <2>5. SumFunction(g) = 0
    <3> DEFINE n == SumFunction(g)
    <3>1. g = [p \in Peers |-> g[p] + g[p]]
      BY <2>3
    <3>2. n \in Nat /\ n = n + n
      BY <2>3, <2>4, <3>1
    <3> HIDE DEF n
    <3>3. n = 0
      BY <3>2
    <3>4. QED
      BY <3>3 DEF n
  <2>6. SumFunction(Places(dt)) = 0
    BY <2>5 DEF g
  <2>7. "ok" \in F!Results /\ "failed" \in F!Results
    BY DEF F!Results
  <2>8. Answered(dt) = 0
    BY <1>1, <2>1, <2>7 DEF Answered
  <2>9. QED
    BY <1>1, <2>6, <2>8
<1>4. QED
  BY <1>2, <1>3 DEF Served

\* Every fetch of the validator is in exactly one place in the fetcher, whatever
\* answers, timeouts and storage results cross, and everyone who waits for a peer
\* will be timed out (FetchesAreServed).
THEOREM FetchesServed == NodeSpec => []FetchesAreServed
<1>1. F!TypeOK /\ Served /\ F!EveryResponderTimed => FetchesAreServed
  <2> SUFFICES ASSUME F!TypeOK, Served, F!EveryResponderTimed PROVE FetchesAreServed
    OBVIOUS
  <2>1. ASSUME NEW dt \in DeployOrTransfer
        PROVE  fetches[dt] =
                   SumFunction([p \in Peers |->
                       lookups[<<dt[1], p, dt[2]>>] + absent[<<dt[1], p, dt[2]>>]
                       + F!CountOf(responders[dt[1]][p], dt[2])])
                 + answers[<<dt[1], dt[2], "ok">>] + answers[<<dt[1], dt[2], "failed">>]
    <3> DEFINE n == SumFunction(Places(dt))
    <3>1. n = SumFunction([p \in Peers |->
                  lookups[<<dt[1], p, dt[2]>>] + absent[<<dt[1], p, dt[2]>>]
                  + F!CountOf(responders[dt[1]][p], dt[2])])
      BY DEF Places, Place
    <3>2. /\ n \in Nat
          /\ answers[<<dt[1], dt[2], "ok">>] \in Nat
          /\ answers[<<dt[1], dt[2], "failed">>] \in Nat
          /\ fetches[dt] = n + (answers[<<dt[1], dt[2], "ok">>]
                                + answers[<<dt[1], dt[2], "failed">>])
      BY PlacesType DEF Served, Answered
    <3> HIDE DEF n
    <3>3. fetches[dt] = n + answers[<<dt[1], dt[2], "ok">>] + answers[<<dt[1], dt[2], "failed">>]
      BY <3>2
    <3>4. QED
      BY <3>1, <3>3
  <2>2. QED
    BY <2>1 DEF FetchesAreServed
<1>2. NodeSpec => []TypeOK
  BY FetcherServesValidator, ValidatorTyped, PTL
<1>3. QED
  BY <1>1, <1>2, ServedInit, ServedStep, EveryoneTimed, PTL DEF NodeSpec
=============================================================================
