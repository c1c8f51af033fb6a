--------------------------- MODULE GossiperProofs ---------------------------
(***************************************************************************)
(* The gossip table's invariants, for any number of items and peers and    *)
(* any configuration with at least one infection and two holders allowed.  *)
(***************************************************************************)
EXTENDS Gossiper, FiniteSetTheorems, TLAPS

\* What every entry of `current` satisfies on its own.
EntryOK(s) ==
    /\ s \in State
    /\ s.inFlight + Cardinality(s.infectedByUs) <= InfectionTarget
    /\ ~s.heldByUs => s.holders # {} /\ s.inFlight = 0 /\ s.infectedByUs = {}

\* A duplicate-free list of deadlines for exactly the finished ids.
DeadlinesOK(fin, tmo) ==
    /\ tmo \in Seq(Items)
    /\ fin = {tmo[j] : j \in 1 .. Len(tmo)}
    /\ \A j, k \in 1 .. Len(tmo) : tmo[j] = tmo[k] => j = k

\* Sets of peers are finite and have a cardinality.
LEMMA PeerSets ==
    ASSUME NEW S \in SUBSET Peers
    PROVE  IsFiniteSet(S) /\ Cardinality(S) \in Nat
<1>1. IsFiniteSet(S)
  BY PeersAssumption, FS_Subset
<1>2. QED
  BY <1>1, FS_CardinalityType

\* Adding a peer to a set grows its cardinality by at most one.
LEMMA AddPeer ==
    ASSUME NEW S \in SUBSET Peers, NEW p \in Peers
    PROVE  /\ Cardinality(S \cup {p}) \in Nat
           /\ Cardinality(S \cup {p}) <= Cardinality(S) + 1
<1>1. IsFiniteSet(S) /\ Cardinality(S) \in Nat
  BY PeerSets
<1>2. /\ p \in S => Cardinality(S \cup {p}) = Cardinality(S)
      /\ p \notin S => Cardinality(S \cup {p}) = Cardinality(S) + 1
  BY <1>1, FS_AddElement
<1>3. QED
  BY <1>1, <1>2

LEMMA NoPeersNoInfection == Cardinality({}) = 0
BY FS_EmptySet

\* State::action keeps an unfinished entry well formed and unfinished.
LEMMA AfterActionOK ==
    ASSUME NEW s \in State, EntryOK(s), ~IsFinished(s)
    PROVE  /\ EntryOK(AfterAction(s))
           /\ ~IsFinished(AfterAction(s))
           /\ AfterAction(s).heldByUs = s.heldByUs
           /\ Action(s, FALSE) = "ShouldGossip" => Shortfall(s) \in 1 .. InfectionTarget
           /\ Action(s, TRUE) = "ShouldGossip" => Shortfall(s) \in 1 .. InfectionTarget
<1>1. s \in State /\ Cardinality(s.infectedByUs) \in Nat
  BY PeerSets DEF EntryOK, State
<1>2. Shortfall(s) \in Nat
      /\ s.inFlight + Cardinality(s.infectedByUs) + Shortfall(s) = InfectionTarget
      /\ Shortfall(s) <= InfectionTarget
  BY <1>1, ConfigAssumption DEF EntryOK, State, Shortfall, SaturatingSub
<1>3. CASE s.heldByUs
  <2>1. AfterAction(s) = [s EXCEPT !.inFlight = s.inFlight + Shortfall(s)]
    BY <1>3 DEF AfterAction
  <2>2. AfterAction(s) \in State /\ AfterAction(s).heldByUs = s.heldByUs
        /\ AfterAction(s).infectedByUs = s.infectedByUs
        /\ AfterAction(s).holders = s.holders
        /\ AfterAction(s).inFlight = s.inFlight + Shortfall(s)
    BY <2>1, <1>2 DEF State
  <2>3. EntryOK(AfterAction(s)) /\ ~IsFinished(AfterAction(s))
    BY <2>2, <1>1, <1>2, <1>3, ConfigAssumption DEF EntryOK, IsFinished, State
  <2>4. Action(s, FALSE) = "ShouldGossip" => Shortfall(s) > 0
    BY <1>3 DEF Action
  <2>5. Action(s, TRUE) = "ShouldGossip" => Shortfall(s) > 0
    BY <1>3 DEF Action
  <2>6. QED
    <3>1. Shortfall(s) > 0 => Shortfall(s) \in 1 .. InfectionTarget
      BY <1>2, ConfigAssumption
    <3>2. QED
      BY <3>1, <2>2, <2>3, <2>4, <2>5
<1>4. CASE ~s.heldByUs
  <2>1. AfterAction(s) = s
    BY <1>4 DEF AfterAction
  <2>2. Action(s, FALSE) = "AwaitingRemainder" /\ Action(s, TRUE) = "GetRemainder"
    BY <1>4 DEF Action
  <2>3. QED
    BY <2>1, <2>2
<1>5. QED
  BY <1>3, <1>4, <1>1 DEF State

-----------------------------------------------------------------------------
(* The closures applied to an entry.                                       *)

LEMMA CompleteOK ==
    ASSUME NEW s \in State, NEW p \in Peers \cup {NoPeer},
           s.inFlight + Cardinality(s.infectedByUs) <= InfectionTarget
    PROVE  EntryOK(Complete(s, p)) /\ Complete(s, p).heldByUs
<1>1. {p} \ {NoPeer} \subseteq Peers
  OBVIOUS
<1>2. QED
  BY <1>1 DEF Complete, EntryOK, State

LEMMA AddHolderOK ==
    ASSUME NEW s \in State, NEW p \in Peers,
           s.inFlight + Cardinality(s.infectedByUs) <= InfectionTarget,
           ~s.heldByUs => s.inFlight = 0 /\ s.infectedByUs = {}
    PROVE  EntryOK(AddHolder(s, p)) /\ AddHolder(s, p).heldByUs = s.heldByUs
BY DEF AddHolder, EntryOK, State

LEMMA InfectedOK ==
    ASSUME NEW s \in State, NEW p \in Peers, NEW byUs \in BOOLEAN,
           EntryOK(s), ~IsFinished(s)
    PROVE  EntryOK(Infected(s, p, byUs)) /\ Infected(s, p, byUs).heldByUs = s.heldByUs
<1>1. CASE ~s.heldByUs
  BY <1>1 DEF Infected
<1>2. CASE s.heldByUs
  <2> DEFINE new == s.infectedByUs \cup (IF byUs THEN {p} ELSE {})
             left == SaturatingSub(s.inFlight, 1)
  <2>1. Cardinality(s.infectedByUs) \in Nat /\ Cardinality(s.infectedByUs) < InfectionTarget
    BY PeerSets, ConfigAssumption DEF State, IsFinished
  <2>2. /\ Cardinality(new) \in Nat
        /\ Cardinality(new) <= Cardinality(s.infectedByUs) + 1
    <3>1. CASE byUs
      <4>1. new = s.infectedByUs \cup {p} /\ s.infectedByUs \in SUBSET Peers
        BY <3>1 DEF State
      <4>2. /\ Cardinality(s.infectedByUs \cup {p}) \in Nat
            /\ Cardinality(s.infectedByUs \cup {p}) <= Cardinality(s.infectedByUs) + 1
        BY <4>1, AddPeer
      <4> HIDE DEF new
      <4>3. QED
        BY <4>1, <4>2
    <3>2. CASE ~byUs
      <4>1. new = s.infectedByUs
        BY <3>2
      <4> HIDE DEF new
      <4>2. QED
        BY <4>1, <2>1
    <3>3. QED
      BY <3>1, <3>2
  <2>3. left \in Nat /\ (s.inFlight > 0 => left = s.inFlight - 1)
        /\ (s.inFlight = 0 => left = 0)
    BY DEF State, SaturatingSub
  <2>4. left + Cardinality(new) <= InfectionTarget
    <3>1. s.inFlight \in Nat /\ s.inFlight + Cardinality(s.infectedByUs) <= InfectionTarget
      BY DEF EntryOK, State
    <3>2. CASE s.inFlight = 0
      BY <3>1, <3>2, <2>1, <2>2, <2>3, ConfigAssumption
    <3>3. CASE s.inFlight > 0
      BY <3>1, <3>3, <2>1, <2>2, <2>3, ConfigAssumption
    <3>4. QED
      BY <3>1, <3>2, <3>3
  <2>5. Infected(s, p, byUs) =
           [s EXCEPT !.holders = s.holders \cup {p}, !.infectedByUs = new, !.inFlight = left]
    BY <1>2 DEF Infected
  <2>6. new \subseteq Peers
    BY DEF State
  <2> HIDE DEF new, left
  <2>7. /\ Infected(s, p, byUs) \in State
        /\ Infected(s, p, byUs).heldByUs = s.heldByUs
        /\ Infected(s, p, byUs).infectedByUs = new
        /\ Infected(s, p, byUs).inFlight = left
    BY <2>5, <2>6, <2>3 DEF State
  <2>8. QED
    BY <2>7, <2>4, <1>2 DEF EntryOK
<1>3. QED
  BY <1>1, <1>2 DEF State

LEMMA TimedOutOK ==
    ASSUME NEW s \in State, NEW p \in Peers, EntryOK(s)
    PROVE  EntryOK(TimedOut(s, p)) /\ TimedOut(s, p).heldByUs = s.heldByUs
<1>1. CASE ~s.heldByUs \/ p \in s.holders
  BY <1>1 DEF TimedOut
<1>2. CASE s.heldByUs /\ p \notin s.holders
  <2> DEFINE left == SaturatingSub(s.inFlight, 1)
  <2>1. left \in Nat /\ left <= s.inFlight
    BY DEF State, SaturatingSub
  <2>2. TimedOut(s, p) = [s EXCEPT !.holders = s.holders \cup {p}, !.inFlight = left]
    BY <1>2 DEF TimedOut
  <2> HIDE DEF left
  <2>3. /\ TimedOut(s, p) \in State
        /\ TimedOut(s, p).heldByUs = s.heldByUs
        /\ TimedOut(s, p).infectedByUs = s.infectedByUs
        /\ TimedOut(s, p).inFlight = left
    BY <2>1, <2>2 DEF State
  <2>4. Cardinality(s.infectedByUs) \in Nat
    BY PeerSets DEF State
  <2>5. QED
    BY <2>1, <2>3, <2>4, <1>2, ConfigAssumption DEF EntryOK, State
<1>3. QED
  BY <1>1, <1>2 DEF State

-----------------------------------------------------------------------------
(* The table as a whole.                                                   *)

\* What the invariants say of the table, of its parts taken as parameters so
\* that it can be stated of the table before and after the purge.
TableOK(cur, fin, tmo, timers) ==
    /\ cur \in [Items -> State \cup {NoState}]
    /\ \A i \in Items : cur[i] # NoState => EntryOK(cur[i]) /\ ~IsFinished(cur[i])
    /\ \A i \in Items : cur[i] # NoState /\ ~cur[i].heldByUs =>
          \E p \in Peers : timers[i][p] > 0
    /\ DeadlinesOK(fin, tmo)
    /\ \A i \in fin : cur[i] = NoState

\* The purge keeps the remaining deadlines those of the remaining ids.
LEMMA PurgeOK ==
    ASSUME NEW k \in 0 .. Len(timeouts), NEW timers,
           TableOK(current, finished, timeouts, timers)
    PROVE  TableOK(current, finished \ Expired(k), Kept(k), timers)
<1> DEFINE fin == finished \ Expired(k)
           tmo == Kept(k)
<1>1. /\ timeouts \in Seq(Items)
      /\ finished = {timeouts[j] : j \in 1 .. Len(timeouts)}
      /\ \A j, m \in 1 .. Len(timeouts) : timeouts[j] = timeouts[m] => j = m
  BY DEF TableOK, DeadlinesOK
<1>2. /\ tmo \in Seq(Items)
      /\ Len(tmo) = Len(timeouts) - k
      /\ \A j \in 1 .. Len(tmo) : tmo[j] = timeouts[k + j]
  BY <1>1 DEF Kept
<1>3. fin = {tmo[j] : j \in 1 .. Len(tmo)}
  <2>1. ASSUME NEW x \in fin PROVE x \in {tmo[j] : j \in 1 .. Len(tmo)}
    <3>1. PICK j \in 1 .. Len(timeouts) : x = timeouts[j]
      BY <1>1
    <3>2. j \notin 1 .. k
      BY <3>1 DEF Expired
    <3>3. j - k \in 1 .. Len(tmo) /\ k + (j - k) = j
      BY <3>1, <3>2, <1>2, <1>1
    <3>4. tmo[j - k] = x
      BY <3>3, <3>1, <1>2
    <3>5. QED
      BY <3>3, <3>4
  <2>2. ASSUME NEW j \in 1 .. Len(tmo) PROVE tmo[j] \in fin
    <3>1. k + j \in 1 .. Len(timeouts) /\ k + j \notin 1 .. k
      BY <1>1, <1>2
    <3>2. tmo[j] = timeouts[k + j]
      BY <1>2
    <3>3. timeouts[k + j] \notin Expired(k)
      BY <3>1, <1>1 DEF Expired
    <3>4. QED
      BY <3>1, <3>2, <3>3, <1>1
  <2>3. QED
    BY <2>1, <2>2
<1>4. \A j, m \in 1 .. Len(tmo) : tmo[j] = tmo[m] => j = m
  BY <1>1, <1>2
<1>5. QED
  BY <1>2, <1>3, <1>4 DEF TableOK, DeadlinesOK

LEMMA InsertToFinishedOK ==
    ASSUME NEW i \in Items, NEW fin, NEW tmo, NEW timers,
           TableOK(current, fin, tmo, timers), i \notin fin,
           InsertToFinished(i, fin, tmo)
    PROVE  TableOK(current', finished', timeouts', timers)
<1>1. /\ tmo \in Seq(Items)
      /\ fin = {tmo[j] : j \in 1 .. Len(tmo)}
      /\ \A j, m \in 1 .. Len(tmo) : tmo[j] = tmo[m] => j = m
  BY DEF TableOK, DeadlinesOK
<1>2. /\ timeouts' \in Seq(Items)
      /\ Len(timeouts') = Len(tmo) + 1
      /\ \A j \in 1 .. Len(tmo) : timeouts'[j] = tmo[j]
      /\ timeouts'[Len(tmo) + 1] = i
  BY <1>1 DEF InsertToFinished
<1>3. finished' = {timeouts'[j] : j \in 1 .. Len(timeouts')}
  <2>1. ASSUME NEW x \in finished' PROVE \E j \in 1 .. Len(timeouts') : x = timeouts'[j]
    BY <1>1, <1>2 DEF InsertToFinished
  <2>2. ASSUME NEW j \in 1 .. Len(timeouts') PROVE timeouts'[j] \in finished'
    <3>1. j \in 1 .. Len(tmo) \/ j = Len(tmo) + 1
      BY <1>1, <1>2
    <3>2. QED
      BY <3>1, <1>1, <1>2 DEF InsertToFinished
  <2>3. QED
    BY <2>1, <2>2
<1>4. ASSUME NEW j \in 1 .. Len(timeouts'), NEW m \in 1 .. Len(timeouts'),
             timeouts'[j] = timeouts'[m]
      PROVE  j = m
  <2>1. /\ j \in 1 .. Len(tmo) \/ j = Len(tmo) + 1
        /\ m \in 1 .. Len(tmo) \/ m = Len(tmo) + 1
    BY <1>1, <1>2
  <2>2. \A n \in 1 .. Len(tmo) : tmo[n] # i
    BY <1>1
  <2>3. CASE j \in 1 .. Len(tmo) /\ m \in 1 .. Len(tmo)
    <3>1. tmo[j] = tmo[m]
      BY <2>3, <1>2, <1>4
    <3>2. QED
      BY <3>1, <2>3, <1>1
  <2>4. CASE j \in 1 .. Len(tmo) /\ m = Len(tmo) + 1
    <3>1. tmo[j] = i
      BY <2>4, <1>2, <1>4
    <3>2. QED
      BY <3>1, <2>4, <2>2
  <2>5. CASE j = Len(tmo) + 1 /\ m \in 1 .. Len(tmo)
    <3>1. tmo[m] = i
      BY <2>5, <1>2, <1>4
    <3>2. QED
      BY <3>1, <2>5, <2>2
  <2>6. QED
    BY <2>1, <2>3, <2>4, <2>5
<1>5. DeadlinesOK(finished', timeouts')
  BY <1>2, <1>3, <1>4 DEF DeadlinesOK
<1>6. current' = [current EXCEPT ![i] = NoState] /\ finished' = fin \cup {i}
  BY DEF InsertToFinished
<1>7. QED
  BY <1>5, <1>6 DEF TableOK

\* An entry is replaced by a well-formed, unfinished one, or dropped, while the
\* timers of the other entries keep running.
LEMMA ReplaceEntryOK ==
    ASSUME NEW i \in Items, NEW s \in State \cup {NoState}, NEW fin, NEW tmo,
           NEW old, NEW new,
           TableOK(current, fin, tmo, old), i \notin fin \/ s = NoState,
           s # NoState => EntryOK(s) /\ ~IsFinished(s),
           s # NoState => s.heldByUs \/ \E p \in Peers : new[i][p] > 0,
           \A j \in Items \ {i}, p \in Peers : old[j][p] > 0 => new[j][p] > 0
    PROVE  TableOK([current EXCEPT ![i] = s], fin, tmo, new)
<1> DEFINE cur == [current EXCEPT ![i] = s]
<1>1. cur \in [Items -> State \cup {NoState}] /\ cur[i] = s
      /\ \A j \in Items \ {i} : cur[j] = current[j]
  BY DEF TableOK
<1>2. DeadlinesOK(fin, tmo) /\ \A j \in fin : j \in Items
  <2>1. \A n \in 1 .. Len(tmo) : tmo[n] \in Items
    BY DEF TableOK, DeadlinesOK
  <2>2. QED
    BY <2>1 DEF TableOK, DeadlinesOK
<1> HIDE DEF cur
<1>3. \A j \in fin : cur[j] = NoState
  BY <1>1, <1>2 DEF TableOK
<1>4. \A j \in Items : cur[j] # NoState => EntryOK(cur[j]) /\ ~IsFinished(cur[j])
  BY <1>1 DEF TableOK
<1>5. ASSUME NEW j \in Items, cur[j] # NoState, ~cur[j].heldByUs
      PROVE  \E p \in Peers : new[j][p] > 0
  <2>1. CASE j = i
    BY <2>1, <1>1, <1>5
  <2>2. CASE j # i
    <3>1. PICK p \in Peers : old[j][p] > 0
      BY <2>2, <1>1, <1>5 DEF TableOK
    <3>2. QED
      BY <3>1, <2>2
  <2>3. QED
    BY <2>1, <2>2
<1>6. TableOK(cur, fin, tmo, new)
  BY <1>1, <1>2, <1>3, <1>4, <1>5 DEF TableOK
<1>7. QED
  BY <1>6 DEF cur

-----------------------------------------------------------------------------
(* The type of everything outside the table.                               *)

AnnounceOK(a) == a \subseteq ({"FinishedGossiping", "NewCompleteItem"} \X Items)
MessagesOK(calls) ==
    calls \in [GossipCalls -> Nat]
TimersOK(timers) == timers \in [Items -> [Peers -> Nat]]

LEMMA AnnouncementsOK ==
    /\ AnnounceOK({})
    /\ \A i \in Items : AnnounceOK({FinishedGossiping(i)}) /\ AnnounceOK({NewCompleteItem(i)})
BY DEF AnnounceOK, FinishedGossiping, NewCompleteItem

\* A timer is set for some of the peers of an item.
LEMMA AddTimersOK ==
    ASSUME NEW t, TimersOK(t), NEW i \in Items, NEW S \in SUBSET Peers
    PROVE  TimersOK([t EXCEPT ![i] = [p \in Peers |-> @[p] + IF p \in S THEN 1 ELSE 0]])
<1>1. [p \in Peers |-> t[i][p] + IF p \in S THEN 1 ELSE 0] \in [Peers -> Nat]
  BY DEF TimersOK
<1>2. QED
  BY <1>1 DEF TimersOK

LEMMA GossipIfOK ==
    ASSUME NEW i \in Items, NEW s \in State, NEW b \in BOOLEAN,
           b => Shortfall(s) \in 1 .. InfectionTarget,
           MessagesOK(gossipedTo), GossipIf(b, i, s)
    PROVE  MessagesOK(gossipedTo')
<1>1. CASE b
  <2>1. PICK peers \in SUBSET (Peers \ s.holders) :
          gossipedTo' = [gossipedTo EXCEPT
               ![[item |-> i, requested |-> Shortfall(s), peers |-> peers]] = @ + 1]
    BY <1>1 DEF GossipIf, Gossip
  <2>2. [item |-> i, requested |-> Shortfall(s), peers |-> peers] \in GossipCalls
    BY <1>1 DEF GossipCalls
  <2>3. QED
    BY <2>1, <2>2 DEF MessagesOK
<1>2. CASE ~b
  BY <1>2 DEF GossipIf, NoGossip, MessagesOK
<1>3. QED
  BY <1>1, <1>2

-----------------------------------------------------------------------------
(* The methods of the table that several handlers share.                   *)

LEMMA UpdateCurrentOK ==
    ASSUME NEW i \in Items, NEW s \in State, NEW fin, NEW tmo, NEW timers,
           TableOK(current, fin, tmo, timers), i \notin fin, EntryOK(s),
           s.heldByUs \/ \E p \in Peers : timers[i][p] > 0,
           MessagesOK(gossipedTo),
           UpdateCurrent(i, s, fin, tmo)
    PROVE  /\ TableOK(current', finished', timeouts', timers)
           /\ AnnounceOK(announce')
           /\ MessagesOK(gossipedTo')
<1>1. CASE IsFinished(s)
  <2>1. InsertToFinished(i, fin, tmo) /\ announce' = {FinishedGossiping(i)} /\ NoGossip
    BY <1>1 DEF UpdateCurrent
  <2>2. TableOK(current', finished', timeouts', timers)
    BY <2>1, InsertToFinishedOK
  <2>3. QED
    BY <2>1, <2>2, AnnouncementsOK DEF NoGossip, MessagesOK
<1>2. CASE ~IsFinished(s)
  <2>1. /\ current' = [current EXCEPT ![i] = AfterAction(s)]
        /\ finished' = fin /\ timeouts' = tmo /\ announce' = {}
        /\ GossipIf(Action(s, FALSE) = "ShouldGossip", i, s)
    BY <1>2 DEF UpdateCurrent
  <2>2. /\ EntryOK(AfterAction(s)) /\ ~IsFinished(AfterAction(s))
        /\ AfterAction(s).heldByUs = s.heldByUs
        /\ Action(s, FALSE) = "ShouldGossip" => Shortfall(s) \in 1 .. InfectionTarget
    BY <1>2, AfterActionOK
  <2>3. AfterAction(s) \in State
    BY <2>2 DEF EntryOK
  <2>4. TableOK(current', finished', timeouts', timers)
    BY <2>1, <2>2, <2>3, ReplaceEntryOK
  <2>5. MessagesOK(gossipedTo')
    BY <2>1, <2>2, GossipIfOK
  <2>6. QED
    BY <2>1, <2>4, <2>5, AnnouncementsOK
<1>3. QED
  BY <1>1, <1>2

LEMMA InsertNewOK ==
    ASSUME NEW i \in Items, NEW s \in State, NEW fin, NEW tmo, NEW old, NEW new,
           TableOK(current, fin, tmo, old), i \notin fin, EntryOK(s), ~IsFinished(s),
           s.heldByUs \/ \E p \in Peers : new[i][p] > 0,
           \A j \in Items \ {i}, p \in Peers : old[j][p] > 0 => new[j][p] > 0,
           MessagesOK(gossipedTo),
           InsertNew(i, s, fin, tmo)
    PROVE  /\ TableOK(current', finished', timeouts', new)
           /\ MessagesOK(gossipedTo')
<1>1. /\ current' = [current EXCEPT ![i] = AfterAction(s)]
      /\ finished' = fin /\ timeouts' = tmo
      /\ GossipIf(Action(s, TRUE) = "ShouldGossip", i, s)
  BY DEF InsertNew
<1>2. /\ EntryOK(AfterAction(s)) /\ ~IsFinished(AfterAction(s))
      /\ AfterAction(s).heldByUs = s.heldByUs
      /\ Action(s, TRUE) = "ShouldGossip" => Shortfall(s) \in 1 .. InfectionTarget
  BY AfterActionOK
<1>3. AfterAction(s) \in State
  BY <1>2 DEF EntryOK
<1>4. TableOK(current', finished', timeouts', new)
  BY <1>1, <1>2, <1>3, ReplaceEntryOK
<1>5. MessagesOK(gossipedTo')
  BY <1>1, <1>2, GossipIfOK
<1>6. QED
  BY <1>4, <1>5

\* A first entry is below both limits.
LEMMA FirstEntryOK ==
    ASSUME NEW p \in Peers \cup {NoPeer}
    PROVE  /\ Complete(EmptyState, p) \in State
           /\ EntryOK(Complete(EmptyState, p))
           /\ ~IsFinished(Complete(EmptyState, p))
           /\ Complete(EmptyState, p).heldByUs
           /\ p \in Peers => /\ AddHolder(EmptyState, p) \in State
                             /\ EntryOK(AddHolder(EmptyState, p))
                             /\ ~IsFinished(AddHolder(EmptyState, p))
                             /\ AddHolder(EmptyState, p).heldByUs = FALSE
<1>1. EmptyState \in State /\ EmptyState.infectedByUs = {} /\ EmptyState.holders = {}
      /\ EmptyState.inFlight = 0 /\ EmptyState.heldByUs = FALSE
  BY DEF EmptyState, State
<1> HIDE DEF EmptyState
<1>2. EmptyState.inFlight + Cardinality(EmptyState.infectedByUs) <= InfectionTarget
  BY <1>1, NoPeersNoInfection, ConfigAssumption
<1>3. EntryOK(Complete(EmptyState, p)) /\ Complete(EmptyState, p).heldByUs
  BY <1>1, <1>2, CompleteOK
<1>4. p \in Peers => EntryOK(AddHolder(EmptyState, p)) /\ AddHolder(EmptyState, p).heldByUs = FALSE
  BY <1>1, <1>2, AddHolderOK
<1>5. Cardinality({}) = 0 /\ Cardinality({p}) = 1
  BY FS_EmptySet, FS_Singleton
<1>6. /\ Complete(EmptyState, p).infectedByUs = {}
      /\ Complete(EmptyState, p).holders = {} \/ Complete(EmptyState, p).holders = {p}
  BY <1>1 DEF Complete, State
<1>7. ~IsFinished(Complete(EmptyState, p))
  BY <1>5, <1>6, ConfigAssumption DEF IsFinished
<1>8. AddHolder(EmptyState, p).infectedByUs = {} /\ AddHolder(EmptyState, p).holders = {p}
  BY <1>1 DEF AddHolder, State
<1>9. ~IsFinished(AddHolder(EmptyState, p))
  BY <1>5, <1>8, ConfigAssumption DEF IsFinished
<1>10. QED
  BY <1>3, <1>4, <1>7, <1>9 DEF EntryOK

-----------------------------------------------------------------------------
(* One step per event handler.                                             *)

IInv ==
    /\ TableOK(current, finished, timeouts, getTimers)
    /\ AnnounceOK(announce)
    /\ MessagesOK(gossipedTo)
    /\ TimersOK(gossipTimers)
    /\ TimersOK(getTimers)
    /\ holderResults \in [Items -> Nat]
    /\ arrivals \in Nat
    /\ responses \in Nat

\* Facts every step starts from.
LEMMA IInvFacts ==
    ASSUME IInv, NEW i \in Items
    PROVE  /\ current[i] # NoState => /\ current[i] \in State
                                      /\ EntryOK(current[i])
                                      /\ ~IsFinished(current[i])
                                      /\ i \notin finished
           /\ current[i] # NoState =>
                 current[i].heldByUs \/ \E p \in Peers : getTimers[i][p] > 0
           /\ \A k \in 0 .. Len(timeouts) :
                 TableOK(current, finished \ Expired(k), Kept(k), getTimers)
<1>1. TableOK(current, finished, timeouts, getTimers)
  BY DEF IInv
<1>2. QED
  BY <1>1, PurgeOK DEF TableOK

LEMMA HandleItemReceivedOK ==
    ASSUME IInv, NEW i \in Items, NEW src \in Peers \cup {NoPeer},
           HandleItemReceived(i, src)
    PROVE  IInv'
<1>1. /\ arrivals' \in Nat
      /\ UNCHANGED <<gossipTimers, getTimers, holderResults, responses>>
  BY DEF HandleItemReceived, Arrive, IInv
<1>2. PICK k \in 0 .. Len(timeouts) :
        \/ /\ i \in finished \ Expired(k)
           /\ finished' = finished \ Expired(k)
           /\ timeouts' = Kept(k) /\ announce' = {} /\ NoGossip /\ UNCHANGED current
        \/ /\ i \notin finished \ Expired(k) /\ current[i] # NoState
           /\ UpdateCurrent(i, Complete(current[i], src), finished \ Expired(k), Kept(k))
        \/ /\ i \notin finished \ Expired(k) /\ current[i] = NoState
           /\ InsertNew(i, Complete(EmptyState, src), finished \ Expired(k), Kept(k))
           /\ announce' = {}
  BY DEF HandleItemReceived
<1> DEFINE fin == finished \ Expired(k)
<1>3. TableOK(current, fin, Kept(k), getTimers) /\ MessagesOK(gossipedTo)
  BY IInvFacts DEF IInv
<1>4. /\ TableOK(current', finished', timeouts', getTimers)
      /\ AnnounceOK(announce') /\ MessagesOK(gossipedTo')
  <2>1. CASE i \in fin
    BY <2>1, <1>2, <1>3, AnnouncementsOK DEF NoGossip, MessagesOK
  <2>2. CASE i \notin fin /\ current[i] # NoState
    <3>1. UpdateCurrent(i, Complete(current[i], src), fin, Kept(k))
      BY <2>2, <1>2
    <3>2. current[i] \in State /\ EntryOK(current[i])
      BY <2>2, IInvFacts
    <3>3. EntryOK(Complete(current[i], src)) /\ Complete(current[i], src).heldByUs
      BY <3>2, CompleteOK DEF EntryOK
    <3>4. Complete(current[i], src) \in State
      BY <3>3 DEF EntryOK
    <3> HIDE DEF fin
    <3>5. QED
      BY <3>1, <3>3, <3>4, <2>2, <1>3, UpdateCurrentOK
  <2>3. CASE i \notin fin /\ current[i] = NoState
    <3>1. InsertNew(i, Complete(EmptyState, src), fin, Kept(k)) /\ announce' = {}
      BY <2>3, <1>2
    <3> HIDE DEF fin
    <3>2. QED
      BY <3>1, <2>3, <1>3, FirstEntryOK, InsertNewOK, AnnouncementsOK
  <2>4. QED
    BY <2>1, <2>2, <2>3
<1>5. QED
  BY <1>1, <1>4 DEF IInv

LEMMA HandleGossipOK ==
    ASSUME IInv, NEW i \in Items, NEW p \in Peers, HandleGossip(i, p)
    PROVE  IInv'
<1>1. /\ arrivals' \in Nat
      /\ UNCHANGED <<gossipTimers, holderResults, responses>>
  BY DEF HandleGossip, Arrive, IInv
<1> DEFINE new == Heard(EmptyState, p)
<1>2. PICK k \in 0 .. Len(timeouts) :
        \/ /\ i \in finished \ Expired(k)
           /\ finished' = finished \ Expired(k)
           /\ timeouts' = Kept(k) /\ announce' = {} /\ NoGossip
           /\ UNCHANGED <<current, getTimers>>
        \/ /\ i \notin finished \ Expired(k) /\ current[i] # NoState
           /\ UpdateCurrent(i, Heard(current[i], p), finished \ Expired(k), Kept(k))
           /\ UNCHANGED getTimers
        \/ /\ i \notin finished \ Expired(k) /\ current[i] = NoState
           /\ InsertNew(i, new, finished \ Expired(k), Kept(k))
           /\ announce' = IF Action(new, TRUE) = "ShouldGossip"
                            THEN {NewCompleteItem(i)} ELSE {}
           /\ IF Action(new, TRUE) = "GetRemainder"
                THEN SetGetTimer(i, p) ELSE UNCHANGED getTimers
  BY DEF HandleGossip
<1> DEFINE fin == finished \ Expired(k)
<1>3. TableOK(current, fin, Kept(k), getTimers) /\ MessagesOK(gossipedTo)
      /\ TimersOK(getTimers)
  BY IInvFacts DEF IInv
<1>4. /\ TableOK(current', finished', timeouts', getTimers')
      /\ AnnounceOK(announce') /\ MessagesOK(gossipedTo') /\ TimersOK(getTimers')
  <2>1. CASE i \in fin
    BY <2>1, <1>2, <1>3, AnnouncementsOK DEF NoGossip, MessagesOK
  <2>2. CASE i \notin fin /\ current[i] # NoState
    <3>1. UpdateCurrent(i, Heard(current[i], p), fin, Kept(k)) /\ getTimers' = getTimers
      BY <2>2, <1>2
    <3>2. current[i] \in State /\ EntryOK(current[i])
      BY <2>2, IInvFacts
    <3>3. /\ EntryOK(Heard(current[i], p))
          /\ Heard(current[i], p).heldByUs \/ Heard(current[i], p).heldByUs = current[i].heldByUs
      BY <3>2, CompleteOK, AddHolderOK DEF EntryOK, Heard
    <3>4. Heard(current[i], p) \in State
      BY <3>3 DEF EntryOK
    <3>5. Heard(current[i], p).heldByUs \/ \E q \in Peers : getTimers[i][q] > 0
      BY <3>3, <2>2, IInvFacts
    <3> HIDE DEF fin
    <3>6. QED
      BY <3>1, <3>3, <3>4, <3>5, <2>2, <1>3, UpdateCurrentOK
  <2>3. CASE i \notin fin /\ current[i] = NoState
    <3>1. /\ InsertNew(i, new, fin, Kept(k))
          /\ announce' = {} \/ announce' = {NewCompleteItem(i)}
          /\ IF Action(new, TRUE) = "GetRemainder"
               THEN SetGetTimer(i, p) ELSE getTimers' = getTimers
      BY <2>3, <1>2
    <3>2. /\ new \in State /\ EntryOK(new) /\ ~IsFinished(new)
          /\ new.heldByUs \/ new.heldByUs = FALSE
      BY FirstEntryOK DEF Heard
    <3> HIDE DEF fin, new
    <3>3. ~new.heldByUs => Action(new, TRUE) = "GetRemainder"
      BY <3>2 DEF Action
    <3>4. SetGetTimer(i, p) => /\ TimersOK(getTimers') /\ getTimers'[i][p] > 0
                               /\ \A j \in Items \ {i} : getTimers'[j] = getTimers[j]
      BY <1>3 DEF SetGetTimer, TimersOK
    <3>5. /\ new.heldByUs \/ \E q \in Peers : getTimers'[i][q] > 0
          /\ \A j \in Items \ {i} : getTimers'[j] = getTimers[j]
          /\ TimersOK(getTimers')
      BY <3>1, <3>3, <3>4, <1>3
    <3>6. QED
      BY <3>1, <3>2, <3>5, <2>3, <1>3, InsertNewOK, AnnouncementsOK
  <2>4. QED
    BY <2>1, <2>2, <2>3
<1>5. QED
  BY <1>1, <1>4 DEF IInv

LEMMA HandleGossipResponseOK ==
    ASSUME IInv, NEW i \in Items, NEW p \in Peers, NEW held \in BOOLEAN,
           HandleGossipResponse(i, p, held)
    PROVE  IInv'
<1>1. /\ responses' \in Nat
      /\ holderResults' \in [Items -> Nat]
      /\ UNCHANGED <<gossipTimers, getTimers, arrivals>>
  BY DEF HandleGossipResponse, IInv
<1>2. TableOK(current, finished, timeouts, getTimers) /\ MessagesOK(gossipedTo)
  BY DEF IInv
<1>3. /\ TableOK(current', finished', timeouts', getTimers)
      /\ AnnounceOK(announce') /\ MessagesOK(gossipedTo')
  <2>1. CASE current[i] = NoState
    BY <2>1, <1>2, AnnouncementsOK DEF HandleGossipResponse, TableNoop, table, NoGossip, MessagesOK
  <2>2. CASE current[i] # NoState
    <3>1. UpdateCurrent(i, Infected(current[i], p, ~held), finished, timeouts)
      BY <2>2 DEF HandleGossipResponse
    <3>2. /\ current[i] \in State /\ EntryOK(current[i]) /\ ~IsFinished(current[i])
          /\ i \notin finished
          /\ current[i].heldByUs \/ \E q \in Peers : getTimers[i][q] > 0
      BY <2>2, IInvFacts
    <3>3. /\ EntryOK(Infected(current[i], p, ~held))
          /\ Infected(current[i], p, ~held).heldByUs = current[i].heldByUs
      BY <3>2, InfectedOK
    <3>4. Infected(current[i], p, ~held) \in State
      BY <3>3 DEF EntryOK
    <3>5. QED
      BY <3>1, <3>2, <3>3, <3>4, <1>2, UpdateCurrentOK
  <2>3. QED
    BY <2>1, <2>2
<1>4. QED
  BY <1>1, <1>3 DEF IInv

LEMMA ForceFinishOK ==
    ASSUME IInv, NEW i \in Items, current[i] # NoState, ForceFinish(i)
    PROVE  TableOK(current', finished', timeouts', getTimers) /\ AnnounceOK(announce')
<1>1. i \notin finished /\ TableOK(current, finished, timeouts, getTimers)
  BY IInvFacts DEF IInv
<1>2. QED
  BY <1>1, InsertToFinishedOK, AnnouncementsOK DEF ForceFinish

LEMMA GossipedToOK ==
    ASSUME IInv, NEW c \in GossipCalls, GossipedTo(c)
    PROVE  IInv'
<1> DEFINE i == c.item
           missing == c.requested - Cardinality(c.peers)
           left == SaturatingSub(current[i].inFlight, missing)
<1>1. i \in Items /\ c.peers \in SUBSET Peers /\ c.requested \in Nat
  BY ConfigAssumption DEF GossipCalls
<1>2. /\ gossipedTo' = [gossipedTo EXCEPT ![c] = @ - 1] /\ gossipedTo[c] > 0
      /\ gossipTimers' = [gossipTimers EXCEPT
             ![i] = [p \in Peers |-> @[p] + IF p \in c.peers THEN 1 ELSE 0]]
      /\ UNCHANGED <<getTimers, holderResults, arrivals, responses>>
  BY DEF GossipedTo
<1>3. TimersOK(gossipTimers')
  BY <1>1, <1>2, AddTimersOK DEF IInv
<1>4. MessagesOK(gossipedTo')
  BY <1>2 DEF IInv, MessagesOK
<1>5. TableOK(current, finished, timeouts, getTimers)
  BY DEF IInv
<1>6. TableOK(current', finished', timeouts', getTimers) /\ AnnounceOK(announce')
  <2>1. CASE current[i] = NoState \/ missing = 0
    <3>1. UNCHANGED table /\ announce' = {}
      BY <2>1 DEF GossipedTo
    <3>2. QED
      BY <3>1, <1>5, AnnouncementsOK DEF table
  <2>2. CASE current[i] # NoState /\ missing > 0 /\ left = 0
    <3>1. ForceFinish(i)
      BY <2>2 DEF GossipedTo
    <3>2. QED
      BY <3>1, <2>2, <1>1, ForceFinishOK
  <2>3. CASE current[i] # NoState /\ missing > 0 /\ left > 0
    <3> DEFINE s == current[i]
               t == [s EXCEPT !.inFlight = left]
    <3>1. /\ current' = [current EXCEPT ![i].inFlight = left]
          /\ announce' = {} /\ finished' = finished /\ timeouts' = timeouts
      BY <2>3 DEF GossipedTo
    <3>2. /\ s \in State /\ EntryOK(s) /\ ~IsFinished(s) /\ i \notin finished
          /\ s.heldByUs \/ \E q \in Peers : getTimers[i][q] > 0
      BY <2>3, <1>1, IInvFacts
    <3>3. current' = [current EXCEPT ![i] = t]
      BY <3>1, <1>1, <1>5 DEF TableOK
    <3>4. Cardinality(c.peers) \in Nat /\ Cardinality(s.infectedByUs) \in Nat
      BY <1>1, <3>2, PeerSets DEF State
    <3>5. left \in Nat /\ left <= s.inFlight
      BY <3>2, <3>4, <1>1, <2>3 DEF State, SaturatingSub
    <3> HIDE DEF left, s, i, missing
    <3>6. /\ t \in State /\ t.inFlight = left /\ t.heldByUs = s.heldByUs
          /\ t.holders = s.holders /\ t.infectedByUs = s.infectedByUs
      BY <3>2, <3>5 DEF State
    <3>7. EntryOK(t) /\ ~IsFinished(t)
      BY <3>2, <3>4, <3>5, <3>6, ConfigAssumption DEF EntryOK, IsFinished, State
    <3>8. t.heldByUs \/ \E q \in Peers : getTimers[i][q] > 0
      BY <3>2, <3>6
    <3> HIDE DEF t
    <3>9. TableOK([current EXCEPT ![i] = t], finished, timeouts, getTimers)
      BY <3>2, <3>6, <3>7, <3>8, <1>1, <1>5, ReplaceEntryOK
    <3>10. QED
      BY <3>1, <3>3, <3>9, AnnouncementsOK
  <2>4. QED
    BY <2>1, <2>2, <2>3 DEF GossipedTo
<1>7. QED
  BY <1>2, <1>3, <1>4, <1>6 DEF IInv

LEMMA CheckGossipTimeoutOK ==
    ASSUME IInv, NEW i \in Items, NEW p \in Peers, CheckGossipTimeout(i, p)
    PROVE  IInv'
<1>1. /\ TimersOK(gossipTimers')
      /\ UNCHANGED <<getTimers, holderResults, arrivals, responses>>
  BY DEF CheckGossipTimeout, IInv, TimersOK
<1>2. TableOK(current, finished, timeouts, getTimers) /\ MessagesOK(gossipedTo)
  BY DEF IInv
<1>3. /\ TableOK(current', finished', timeouts', getTimers)
      /\ AnnounceOK(announce') /\ MessagesOK(gossipedTo')
  <2>1. CASE current[i] = NoState
    BY <2>1, <1>2, AnnouncementsOK DEF CheckGossipTimeout, TableNoop, table, NoGossip, MessagesOK
  <2>2. CASE current[i] # NoState
    <3>1. UpdateCurrent(i, TimedOut(current[i], p), finished, timeouts)
      BY <2>2 DEF CheckGossipTimeout
    <3>2. /\ current[i] \in State /\ EntryOK(current[i]) /\ i \notin finished
          /\ current[i].heldByUs \/ \E q \in Peers : getTimers[i][q] > 0
      BY <2>2, IInvFacts
    <3>3. /\ EntryOK(TimedOut(current[i], p))
          /\ TimedOut(current[i], p).heldByUs = current[i].heldByUs
      BY <3>2, TimedOutOK
    <3>4. TimedOut(current[i], p) \in State
      BY <3>3 DEF EntryOK
    <3>5. QED
      BY <3>1, <3>2, <3>3, <3>4, <1>2, UpdateCurrentOK
  <2>3. QED
    BY <2>1, <2>2
<1>4. QED
  BY <1>1, <1>3 DEF IInv

\* Forgetting a holder leaves an entry unfinished.
LEMMA FewerHolders ==
    ASSUME NEW s \in State, NEW p \in Peers, EntryOK(s), ~IsFinished(s),
           ~s.heldByUs, s.holders \ {p} # {}
    PROVE  LET t == [s EXCEPT !.holders = s.holders \ {p}] IN
           /\ t \in State /\ EntryOK(t) /\ ~IsFinished(t)
           /\ t.heldByUs = s.heldByUs /\ t.holders = s.holders \ {p}
<1> DEFINE t == [s EXCEPT !.holders = s.holders \ {p}]
<1>1. /\ t \in State /\ t.holders = s.holders \ {p} /\ t.heldByUs = s.heldByUs
      /\ t.infectedByUs = s.infectedByUs /\ t.inFlight = s.inFlight
  BY DEF State
<1> HIDE DEF t
<1>2. /\ Cardinality(s.holders) \in Nat /\ IsFiniteSet(s.holders)
      /\ Cardinality(s.holders \ {p}) \in Nat
      /\ Cardinality(s.infectedByUs) \in Nat
  BY PeerSets DEF State
<1>3. Cardinality(s.holders \ {p}) <= Cardinality(s.holders)
  BY <1>2, FS_Subset
<1>4. EntryOK(t)
  BY <1>1 DEF EntryOK
<1>5. ~IsFinished(t)
  BY <1>1, <1>2, <1>3, ConfigAssumption DEF IsFinished
<1>6. QED
  BY <1>1, <1>4, <1>5 DEF t

LEMMA CheckGetFromPeerTimeoutOK ==
    ASSUME IInv, NEW i \in Items, NEW p \in Peers, CheckGetFromPeerTimeout(i, p)
    PROVE  IInv'
<1> DEFINE s == current[i]
           rest == IF s.heldByUs THEN s ELSE [s EXCEPT !.holders = s.holders \ {p}]
           fired == [getTimers EXCEPT ![i][p] = getTimers[i][p] - 1]
<1>1. /\ announce' = {} /\ finished' = finished /\ timeouts' = timeouts
      /\ UNCHANGED <<gossipTimers, holderResults, arrivals, responses>>
      /\ getTimers[i][p] > 0
  BY DEF CheckGetFromPeerTimeout
<1>2. /\ TableOK(current, finished, timeouts, getTimers)
      /\ MessagesOK(gossipedTo) /\ TimersOK(getTimers)
  BY DEF IInv
<1>3. TimersOK(fired) /\ \A j \in Items \ {i} : fired[j] = getTimers[j]
  BY <1>1, <1>2 DEF TimersOK
<1>4. /\ TableOK(current', finished, timeouts, getTimers')
      /\ MessagesOK(gossipedTo') /\ TimersOK(getTimers')
  <2>1. CASE s = NoState \/ (s # NoState /\ GivesUp(s, p))
    <3>1. current' = [current EXCEPT ![i] = NoState] /\ getTimers' = fired /\ NoGossip
      BY <2>1, <1>2 DEF CheckGetFromPeerTimeout, TableOK
    <3> HIDE DEF fired
    <3>2. TableOK([current EXCEPT ![i] = NoState], finished, timeouts, fired)
      BY <1>2, <1>3, ReplaceEntryOK
    <3>3. QED
      BY <3>1, <3>2, <1>2, <1>3 DEF NoGossip, MessagesOK
  <2>2. CASE s # NoState /\ ~GivesUp(s, p)
    <3>1. /\ current' = [current EXCEPT ![i] = AfterAction(rest)]
          /\ GossipIf(Action(rest, ~s.heldByUs) = "ShouldGossip", i, rest)
          /\ IF Action(rest, ~s.heldByUs) = "GetRemainder"
               THEN \E holder \in rest.holders :
                       getTimers' = [fired EXCEPT ![i][holder] = fired[i][holder] + 1]
               ELSE getTimers' = fired
      BY <2>2 DEF CheckGetFromPeerTimeout
    <3>2. s \in State /\ EntryOK(s) /\ ~IsFinished(s) /\ i \notin finished
      BY <2>2, IInvFacts
    <3>3. /\ rest \in State /\ EntryOK(rest) /\ ~IsFinished(rest)
          /\ rest.heldByUs = s.heldByUs
      BY <2>2, <3>2, FewerHolders DEF GivesUp
    <3> HIDE DEF rest, fired, s
    <3>4. /\ EntryOK(AfterAction(rest)) /\ ~IsFinished(AfterAction(rest))
          /\ AfterAction(rest).heldByUs = rest.heldByUs
          /\ Action(rest, FALSE) = "ShouldGossip" => Shortfall(rest) \in 1 .. InfectionTarget
          /\ Action(rest, TRUE) = "ShouldGossip" => Shortfall(rest) \in 1 .. InfectionTarget
      BY <3>3, AfterActionOK
    <3>5. AfterAction(rest) \in State
      BY <3>4 DEF EntryOK
    <3>6. MessagesOK(gossipedTo')
      <4>1. CASE s.heldByUs
        <5>1. GossipIf(Action(rest, FALSE) = "ShouldGossip", i, rest)
          BY <3>1, <4>1
        <5>2. QED
          BY <5>1, <3>3, <3>4, <1>2, GossipIfOK
      <4>2. CASE ~s.heldByUs
        <5>1. GossipIf(Action(rest, TRUE) = "ShouldGossip", i, rest)
          BY <3>1, <4>2
        <5>2. QED
          BY <5>1, <3>3, <3>4, <1>2, GossipIfOK
      <4>3. QED
        BY <4>1, <4>2
    <3>7. /\ TimersOK(getTimers') /\ \A j \in Items \ {i} : getTimers'[j] = getTimers[j]
          /\ s.heldByUs \/ \E q \in Peers : getTimers'[i][q] > 0
      <4>1. CASE s.heldByUs
        <5>1. Action(rest, FALSE) # "GetRemainder"
          BY <4>1, <3>3 DEF Action
        <5>2. getTimers' = fired
          BY <5>1, <4>1, <3>1
        <5>3. QED
          BY <5>2, <4>1, <1>3
      <4>2. CASE ~s.heldByUs
        <5>1. Action(rest, TRUE) = "GetRemainder"
          BY <4>2, <3>3 DEF Action
        <5>2. PICK holder \in rest.holders :
                 getTimers' = [fired EXCEPT ![i][holder] = fired[i][holder] + 1]
          BY <5>1, <4>2, <3>1
        <5>3. holder \in Peers
          BY <5>2, <3>3 DEF State
        <5>4. getTimers'[i][holder] = fired[i][holder] + 1 /\ fired[i][holder] \in Nat
          BY <5>2, <5>3, <1>3 DEF TimersOK
        <5>5. TimersOK(getTimers') /\ \A j \in Items \ {i} : getTimers'[j] = getTimers[j]
          BY <5>2, <5>3, <1>3 DEF TimersOK
        <5>6. QED
          BY <5>3, <5>4, <5>5
      <4>3. QED
        BY <4>1, <4>2
    <3>8. TableOK([current EXCEPT ![i] = AfterAction(rest)], finished, timeouts, getTimers')
      BY <3>2, <3>3, <3>4, <3>5, <3>7, <1>2, ReplaceEntryOK
    <3>9. QED
      BY <3>1, <3>6, <3>7, <3>8
  <2>3. QED
    BY <2>1, <2>2 DEF CheckGetFromPeerTimeout
<1>5. QED
  BY <1>1, <1>4, AnnouncementsOK DEF IInv

LEMMA GetFromHolderResultOK ==
    ASSUME IInv, NEW i \in Items, NEW ok \in BOOLEAN, GetFromHolderResult(i, ok)
    PROVE  IInv'
<1>1. /\ holderResults' \in [Items -> Nat]
      /\ UNCHANGED <<gossipedTo, gossipTimers, getTimers, arrivals, responses>>
  BY DEF GetFromHolderResult, IInv
<1>2. TableOK(current', finished', timeouts', getTimers) /\ AnnounceOK(announce')
  <2>1. CASE ~ok /\ current[i] # NoState
    BY <2>1, ForceFinishOK DEF GetFromHolderResult
  <2>2. CASE ok \/ current[i] = NoState
    BY <2>2, AnnouncementsOK DEF GetFromHolderResult, table, IInv
  <2>3. QED
    BY <2>1, <2>2
<1>3. QED
  BY <1>1, <1>2 DEF IInv

-----------------------------------------------------------------------------
(* The theorems.                                                           *)

LEMMA InitOK == Init => IInv
<1> SUFFICES ASSUME Init PROVE IInv
  OBVIOUS
<1>1. DeadlinesOK(finished, timeouts)
  BY DEF Init, DeadlinesOK
<1>2. TableOK(current, finished, timeouts, getTimers)
  BY <1>1 DEF Init, TableOK
<1>3. QED
  BY <1>2 DEF Init, IInv, AnnounceOK, MessagesOK, TimersOK

LEMMA NextOK == IInv /\ [Next]_vars => IInv'
<1> SUFFICES ASSUME IInv, [Next]_vars PROVE IInv'
  OBVIOUS
<1>1. CASE UNCHANGED vars
  BY <1>1 DEF vars, table, pending, IInv
<1>2. CASE Next
  BY <1>2, HandleItemReceivedOK, HandleGossipOK, HandleGossipResponseOK,
     GossipedToOK, CheckGossipTimeoutOK, CheckGetFromPeerTimeoutOK,
     GetFromHolderResultOK DEF Next
<1>3. QED
  BY <1>1, <1>2

LEMMA Inductive == Spec => []IInv
BY InitOK, NextOK, PTL DEF Spec

\* Every variable of the gossiper keeps its type, for all configurations.
THEOREM GossiperTyped == Spec => []TypeOK
<1>1. IInv => TypeOK
  <2> SUFFICES ASSUME IInv PROVE TypeOK
    OBVIOUS
  <2>1. timeouts \in Seq(Items) /\ finished = {timeouts[j] : j \in 1 .. Len(timeouts)}
    BY DEF IInv, TableOK, DeadlinesOK
  <2>2. \A j \in 1 .. Len(timeouts) : timeouts[j] \in Items
    BY <2>1
  <2>3. finished \subseteq Items
    BY <2>1, <2>2
  <2>4. QED
    BY <2>1, <2>3 DEF IInv, TableOK, AnnounceOK, MessagesOK, TimersOK, TypeOK
<1>2. QED
  BY <1>1, Inductive, PTL

\* The table's bookkeeping of finished ids: one entry, one deadline.
THEOREM FinishedOnce == Spec => []OneEntryOneDeadline
<1>1. IInv => OneEntryOneDeadline
  BY DEF IInv, TableOK, DeadlinesOK, OneEntryOneDeadline
<1>2. QED
  BY <1>1, Inductive, PTL

\* No finished entry is left in `current`.
THEOREM FinishedLeaves == Spec => []NoFinishedEntryIsCurrent
<1>1. IInv => NoFinishedEntryIsCurrent
  BY DEF IInv, TableOK, NoFinishedEntryIsCurrent
<1>2. QED
  BY <1>1, Inductive, PTL

\* In-flight messages and infections together never exceed the target.
THEOREM NeverOverTarget == Spec => []InFlightBound
<1>1. IInv => InFlightBound
  BY DEF IInv, TableOK, EntryOK, InFlightBound
<1>2. QED
  BY <1>1, Inductive, PTL

\* A partial entry always has a holder to ask, and is not gossiped.
THEOREM SourceForPartial == Spec => []PartialDataHasSource
<1>1. IInv => PartialDataHasSource
  BY DEF IInv, TableOK, EntryOK, PartialDataHasSource, Partial
<1>2. QED
  BY <1>1, Inductive, PTL

\* A partial entry always has a timer pending that moves the fetch on.
THEOREM TimerForPartial == Spec => []PartialDataHasTimer
<1>1. IInv => PartialDataHasTimer
  BY DEF IInv, TableOK, PartialDataHasTimer, Partial
<1>2. QED
  BY <1>1, Inductive, PTL

-----------------------------------------------------------------------------
(* What is held stays held.                                                *)

StaysHeld == \A j \in Items : Held(j) => Held(j)' \/ j \in finished'

\* An entry that is replaced by one that we hold, if we held it before.
LEMMA ReplacedStaysHeld ==
    ASSUME IInv, NEW i \in Items, NEW s,
           current' = [current EXCEPT ![i] = s],
           Held(i) => (s # NoState /\ s.heldByUs) \/ i \in finished'
    PROVE  StaysHeld
<1>1. current \in [Items -> State \cup {NoState}]
  BY DEF IInv, TableOK
<1>2. QED
  BY <1>1 DEF StaysHeld, Held

\* update_current either finishes the entry or keeps it, as the closure left it.
LEMMA UpdatedStaysHeld ==
    ASSUME IInv, NEW i \in Items, NEW s \in State, NEW fin, NEW tmo, EntryOK(s),
           Held(i) => s.heldByUs, UpdateCurrent(i, s, fin, tmo)
    PROVE  StaysHeld
<1>1. CASE IsFinished(s)
  BY <1>1, ReplacedStaysHeld DEF UpdateCurrent, InsertToFinished
<1>2. CASE ~ IsFinished(s)
  <2>1. current' = [current EXCEPT ![i] = AfterAction(s)]
    BY <1>2 DEF UpdateCurrent
  <2>2. AfterAction(s) \in State /\ AfterAction(s).heldByUs = s.heldByUs
    BY <1>2, AfterActionOK DEF EntryOK
  <2>3. AfterAction(s) # NoState
    BY <2>2, NoStateAssumption
  <2>4. QED
    BY <2>1, <2>2, <2>3, ReplacedStaysHeld
<1>3. QED
  BY <1>1, <1>2

\* No handler forgets an item that we hold without finishing it.
LEMMA HeldStep == IInv /\ [Next]_vars => StaysHeld
<1> SUFFICES ASSUME IInv, [Next]_vars PROVE StaysHeld
  OBVIOUS
<1>1. ASSUME UNCHANGED current PROVE StaysHeld
  BY <1>1 DEF StaysHeld, Held
<1>2. ASSUME NEW i \in Items, current[i] # NoState
      PROVE  /\ current[i] \in State /\ EntryOK(current[i]) /\ ~ IsFinished(current[i])
             /\ current[i].inFlight + Cardinality(current[i].infectedByUs) <= InfectionTarget
             /\ ~ current[i].heldByUs =>
                    current[i].inFlight = 0 /\ current[i].infectedByUs = {}
  BY <1>2, IInvFacts DEF EntryOK
<1>3. ASSUME NEW i \in Items, NEW src \in Peers \cup {NoPeer}, HandleItemReceived(i, src)
      PROVE  StaysHeld
  <2>1. CASE UNCHANGED current
    BY <1>1, <2>1
  <2>2. ASSUME current[i] # NoState, NEW fin, NEW tmo,
               UpdateCurrent(i, Complete(current[i], src), fin, tmo)
        PROVE  StaysHeld
    <3>1. EntryOK(Complete(current[i], src)) /\ Complete(current[i], src).heldByUs
      BY <1>2, <2>2, CompleteOK
    <3>2. Complete(current[i], src) \in State
      BY <3>1 DEF EntryOK
    <3>3. QED
      BY <2>2, <3>1, <3>2, UpdatedStaysHeld
  <2>3. ASSUME current[i] = NoState, NEW fin, NEW tmo,
               InsertNew(i, Complete(EmptyState, src), fin, tmo)
        PROVE  StaysHeld
    BY <2>3, ReplacedStaysHeld DEF InsertNew, Held
  <2>4. QED
    BY <1>3, <2>1, <2>2, <2>3 DEF HandleItemReceived
<1>4. ASSUME NEW i \in Items, NEW p \in Peers, HandleGossip(i, p) PROVE StaysHeld
  <2>1. CASE UNCHANGED current
    BY <1>1, <2>1
  <2>2. ASSUME current[i] # NoState, NEW fin, NEW tmo,
               UpdateCurrent(i, Heard(current[i], p), fin, tmo)
        PROVE  StaysHeld
    <3>1. /\ EntryOK(Complete(current[i], p)) /\ Complete(current[i], p).heldByUs
          /\ EntryOK(AddHolder(current[i], p))
          /\ AddHolder(current[i], p).heldByUs = current[i].heldByUs
      BY <1>2, <2>2, CompleteOK, AddHolderOK
    <3>2. EntryOK(Heard(current[i], p)) /\ (Held(i) => Heard(current[i], p).heldByUs)
      BY <3>1 DEF Heard, Held
    <3>3. Heard(current[i], p) \in State
      BY <3>2 DEF EntryOK
    <3>4. QED
      BY <2>2, <3>2, <3>3, UpdatedStaysHeld
  <2>3. ASSUME current[i] = NoState, NEW fin, NEW tmo,
               InsertNew(i, Heard(EmptyState, p), fin, tmo)
        PROVE  StaysHeld
    BY <2>3, ReplacedStaysHeld DEF InsertNew, Held
  <2>4. QED
    BY <1>4, <2>1, <2>2, <2>3 DEF HandleGossip
<1>5. ASSUME NEW i \in Items, NEW p \in Peers, NEW held \in BOOLEAN,
             HandleGossipResponse(i, p, held)
      PROVE  StaysHeld
  <2>1. CASE current[i] = NoState
    BY <1>1, <1>5, <2>1 DEF HandleGossipResponse, TableNoop, table
  <2>2. CASE current[i] # NoState
    <3>1. UpdateCurrent(i, Infected(current[i], p, ~ held), finished, timeouts)
      BY <1>5, <2>2 DEF HandleGossipResponse
    <3>2. /\ EntryOK(Infected(current[i], p, ~ held))
          /\ Infected(current[i], p, ~ held).heldByUs = current[i].heldByUs
      BY <1>2, <2>2, InfectedOK
    <3>3. Infected(current[i], p, ~ held) \in State
      BY <3>2 DEF EntryOK
    <3>4. QED
      BY <3>1, <3>2, <3>3, UpdatedStaysHeld DEF Held
  <2>3. QED
    BY <2>1, <2>2
<1>6. ASSUME NEW c \in GossipCalls, GossipedTo(c) PROVE StaysHeld
  <2> DEFINE i == c.item
  <2>1. i \in Items
    BY DEF GossipCalls
  <2>2. CASE UNCHANGED table
    BY <1>1, <2>2 DEF table
  <2>3. CASE ForceFinish(i)
    BY <2>1, <2>3, ReplacedStaysHeld DEF ForceFinish, InsertToFinished
  <2>4. ASSUME NEW left \in Nat, current[i] # NoState,
               current' = [current EXCEPT ![i].inFlight = left]
        PROVE  StaysHeld
    <3> DEFINE t == [current[i] EXCEPT !.inFlight = left]
    <3>1. current[i] \in State /\ current \in [Items -> State \cup {NoState}]
      BY <1>2, <2>1, <2>4 DEF IInv, TableOK
    <3>2. t \in State /\ t.heldByUs = current[i].heldByUs
      BY <3>1 DEF State
    <3>3. t # NoState
      BY <3>2, NoStateAssumption
    <3>4. current' = [current EXCEPT ![i] = t]
      BY <2>1, <2>4, <3>1
    <3> HIDE DEF t, i
    <3>5. QED
      BY <2>1, <3>2, <3>3, <3>4, ReplacedStaysHeld DEF Held
  <2>5. ASSUME current[i] # NoState
        PROVE  SaturatingSub(current[i].inFlight, c.requested - Cardinality(c.peers)) \in Nat
    <3>1. current[i].inFlight \in Nat /\ c.requested \in Nat /\ c.peers \in SUBSET Peers
      BY <1>2, <2>1, <2>5, ConfigAssumption DEF State, GossipCalls
    <3>2. Cardinality(c.peers) \in Nat
      BY <3>1, PeerSets
    <3>3. QED
      BY <3>1, <3>2 DEF SaturatingSub
  <2>6. QED
    BY <1>6, <2>2, <2>3, <2>4, <2>5 DEF GossipedTo
<1>7. ASSUME NEW i \in Items, NEW p \in Peers, CheckGossipTimeout(i, p) PROVE StaysHeld
  <2>1. CASE current[i] = NoState
    BY <1>1, <1>7, <2>1 DEF CheckGossipTimeout, TableNoop, table
  <2>2. CASE current[i] # NoState
    <3>1. UpdateCurrent(i, TimedOut(current[i], p), finished, timeouts)
      BY <1>7, <2>2 DEF CheckGossipTimeout
    <3>2. EntryOK(TimedOut(current[i], p)) /\ TimedOut(current[i], p).heldByUs = current[i].heldByUs
      BY <1>2, <2>2, TimedOutOK
    <3>3. TimedOut(current[i], p) \in State
      BY <3>2 DEF EntryOK
    <3>4. QED
      BY <3>1, <3>2, <3>3, UpdatedStaysHeld DEF Held
  <2>3. QED
    BY <2>1, <2>2
<1>8. ASSUME NEW i \in Items, NEW p \in Peers, CheckGetFromPeerTimeout(i, p) PROVE StaysHeld
  <2>1. CASE ~ Held(i)
    <3>1. \E s : current' = [current EXCEPT ![i] = s] \/ UNCHANGED current
      BY <1>8 DEF CheckGetFromPeerTimeout
    <3>2. QED
      BY <1>1, <2>1, <3>1, ReplacedStaysHeld
  <2>2. CASE Held(i)
    <3>1. current' = [current EXCEPT ![i] = AfterAction(current[i])]
      BY <1>8, <2>2 DEF CheckGetFromPeerTimeout, GivesUp, Held
    <3>2. AfterAction(current[i]) \in State /\ AfterAction(current[i]).heldByUs
      BY <1>2, <2>2, AfterActionOK DEF EntryOK, Held
    <3>3. QED
      BY <3>1, <3>2, ReplacedStaysHeld, NoStateAssumption
  <2>3. QED
    BY <2>1, <2>2
<1>9. ASSUME NEW i \in Items, NEW ok \in BOOLEAN, GetFromHolderResult(i, ok) PROVE StaysHeld
  <2>1. CASE ForceFinish(i)
    BY <2>1, ReplacedStaysHeld DEF ForceFinish, InsertToFinished
  <2>2. CASE UNCHANGED table
    BY <1>1, <2>2 DEF table
  <2>3. QED
    BY <1>9, <2>1, <2>2 DEF GetFromHolderResult
<1>10. CASE UNCHANGED vars
  BY <1>1, <1>10 DEF vars, table
<1>11. QED
  BY <1>3, <1>4, <1>5, <1>6, <1>7, <1>8, <1>9, <1>10 DEF Next

\* HeldUntilFinished: an item that we hold is held until its gossiping is
\* finished; no late timeout makes us fetch it again or forget it
\* (remove_holder_if_unresponsive, check_timeout).
THEOREM HeldItemsStay == Spec => HeldUntilFinished
<1>1. IInv /\ [Next]_vars => [\A i \in Items : Held(i) => Held(i)' \/ i \in finished']_vars
  BY HeldStep DEF StaysHeld
<1>2. QED
  BY <1>1, Inductive, PTL DEF Spec, HeldUntilFinished
=============================================================================
