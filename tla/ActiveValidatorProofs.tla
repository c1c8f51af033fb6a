------------------------ MODULE ActiveValidatorProofs ------------------------
(***************************************************************************)
(* A validator that stops at any point and forgets what is in memory signs *)
(* no two units with the same number, takes none of its own units or pings *)
(* for another node's, and signs only units that the others accept, for    *)
(* any rounds, round lengths and number of restarts.                       *)
(***************************************************************************)
EXTENDS ActiveValidator, SequenceTheorems, WellFoundedInduction, TLAPS

-----------------------------------------------------------------------------
(* The inductive invariant.                                                *)

\* The unit file has the last unit that was signed, and is only empty when there
\* is none.
FileIsLatest ==
    /\ unitFile = None => signed = {}
    /\ unitFile \in signed => \A w \in signed : w.seq <= unitFile.seq

\* Whatever a unit of ours in the state cites is in the state.
StateIsClosed ==
    \A u \in have :
        /\ u.sees \subseteq seen
        /\ \A n \in 0 .. u.seq : \E w \in have : w.seq = n

\* As long as the unit of the file has not been added the validator waits for it;
\* once it has been, nothing that was signed is missing in the state.
VotesWithEverything ==
    /\ mode = "down" => have = {} /\ nextProposal = None
    /\ mode = "active" =>
           /\ unitFile # Truncated
           /\ ownLastUnit \in {None, unitFile}
           /\ ownLastUnit \notin have
           /\ ownLastUnit = None => signed \subseteq have

\* No ping of ours is later than the latest one in the state.
KnowsItsPings ==
    /\ pinged <= clock
    /\ mode = "active" => pinged <= ping

\* A block that has been asked for: the timer has gone on, and the unit it builds
\* on is from before the round.
ProposalFits ==
    nextProposal # None =>
        /\ nextProposal.timestamp < nextTimer
        /\ nextProposal.timestamp <= clock
        /\ nextProposal.timestamp = RoundId(nextProposal.timestamp, nextProposal.exp)
        /\ nextProposal.own # None =>
               /\ nextProposal.own.sees \subseteq nextProposal.sees
               /\ nextProposal.own.timestamp
                      < RoundId(nextProposal.timestamp, nextProposal.own.roundExp)

\* The timer is ahead of every unit, except for confirmations, which are in the
\* rounds of other leaders.
TimerIsAhead ==
    /\ \A u \in signed : u.timestamp <= clock
    /\ mode = "active" =>
           \A u \in signed :
               \/ u.timestamp < nextTimer
               \/ u.timestamp = RoundId(u.timestamp, u.roundExp) => u.timestamp \notin OwnRounds

IInv ==
    /\ TypeOK
    /\ NoEquivocation
    /\ NoFalseAlarm
    /\ CitesThePast
    /\ TwoUnitsPerRound
    /\ BlocksStartRounds
    /\ FileIsLatest
    /\ StateIsClosed
    /\ VotesWithEverything
    /\ KnowsItsPings
    /\ ProposalFits
    /\ TimerIsAhead

-----------------------------------------------------------------------------
(* Rounds.                                                                 *)

\* Every nonempty set of natural numbers below a bound has a greatest element.
LEMMA GreatestElement ==
    ASSUME NEW n \in Nat, NEW T \in SUBSET (0 .. n), T # {}
    PROVE  Max(T) \in T /\ \A y \in T : Max(T) >= y
<1> DEFINE R == {n - x : x \in T}
<1>1. \A x \in T : x \in Nat /\ n - x \in Nat
  OBVIOUS
<1>2. R \in SUBSET Nat /\ R # {}
  BY <1>1
<1>3. IsWellFoundedOn(OpToRel(<, Nat), Nat)
  BY NatLessThanWellFounded
<1>4. PICK m \in R : \A y \in R : ~ (<<y, m>> \in OpToRel(<, Nat))
  BY <1>2, <1>3, WFMin
<1>5. \A y \in R : ~ (y < m)
  BY <1>2, <1>4 DEF OpToRel
<1>6. PICK x \in T : m = n - x
  BY <1>4
<1>7. \A y \in T : x >= y
  <2> SUFFICES ASSUME NEW y \in T PROVE x >= y
    OBVIOUS
  <2>1. n - y \in R
    OBVIOUS
  <2>2. ~ (n - y < n - x)
    BY <1>5, <1>6, <2>1
  <2>3. QED
    BY <1>1, <2>2
<1>8. QED
  BY <1>7 DEF Max

LEMMA MaxOfTwo ==
    ASSUME NEW a \in Int, NEW b \in Int
    PROVE  Max({a, b}) = IF a >= b THEN a ELSE b
<1>1. \E x \in {a, b} : \A y \in {a, b} : x >= y
  OBVIOUS
<1>2. Max({a, b}) \in {a, b} /\ \A y \in {a, b} : Max({a, b}) >= y
  BY <1>1 DEF Max
<1>3. QED
  BY <1>2

\* The exponents are the numbers from the least to the greatest.
LEMMA ExpRange ==
    /\ MinRoundExp \in RoundExps /\ MaxRoundExp \in RoundExps
    /\ RoundExps \subseteq Nat
    /\ \A e \in RoundExps : e <= MaxRoundExp /\ MinRoundExp <= e
    /\ \A e \in Int : MinRoundExp <= e /\ e <= MaxRoundExp => e \in RoundExps
BY MeterAssumption

\* A round has a positive length and starts at or before each of its times.
LEMMA RoundBounds ==
    ASSUME NEW t \in Nat, NEW e \in RoundExps
    PROVE  /\ RoundLen(e) \in Nat \ {0}
           /\ RoundId(t, e) \in Nat
           /\ RoundId(t, e) <= t
           /\ t < RoundId(t, e) + RoundLen(e)
           /\ RoundId(RoundId(t, e), e) = RoundId(t, e)
           /\ RoundIndex(t, e) \in Nat
<1> DEFINE L == 2^e
<1>1. L \in Nat \ {0}
  BY PowerAssumption
<1>2. RoundLen(e) = L /\ RoundId(t, e) = (t \div L) * L /\ RoundIndex(t, e) = t \div L
      /\ RoundId(RoundId(t, e), e) = (((t \div L) * L) \div L) * L
  BY DEF RoundLen, RoundId, RoundIndex
<1> HIDE DEF L
<1>3. /\ t \div L \in Nat /\ (t \div L) * L <= t /\ t < (t \div L) * L + L
      /\ (t \div L) * L \in Nat
  BY <1>1
<1>4. ((t \div L) * L) \div L = t \div L
  BY <1>1, <1>3
<1>5. QED
  BY <1>1, <1>2, <1>3, <1>4

\* Rounds of the same length are in the order of the times, and a time that is
\* not in a round before it is in a later one.
LEMMA RoundOrder ==
    ASSUME NEW s \in Nat, NEW t \in Nat, NEW e \in RoundExps
    PROVE  /\ s <= t => RoundId(s, e) <= RoundId(t, e)
           /\ RoundId(s, e) + RoundLen(e) <= t => RoundId(s, e) < RoundId(t, e)
<1> DEFINE L == 2^e
           q == s \div L
           r == t \div L
<1>1. L \in Nat \ {0}
  BY PowerAssumption
<1>2. RoundLen(e) = L /\ RoundId(s, e) = q * L /\ RoundId(t, e) = r * L
  BY DEF RoundLen, RoundId
<1> HIDE DEF L
<1>3. /\ q \in Nat /\ r \in Nat /\ q * L \in Nat /\ r * L \in Nat
      /\ q * L <= s /\ s < q * L + L /\ r * L <= t /\ t < r * L + L
  BY <1>1
<1>4. s <= t => q <= r
  BY <1>1
<1> HIDE DEF q, r
<1>5. q <= r => q * L <= r * L
  BY <1>1, <1>3
<1>6. q * L + L <= t => q * L < r * L
  BY <1>1, <1>3
<1>7. QED
  BY <1>2, <1>4, <1>5, <1>6

\* A longer round that a time is in starts no later than a shorter one.
LEMMA LongerRound ==
    ASSUME NEW t \in Nat, NEW e \in RoundExps, NEW f \in RoundExps, e <= f
    PROVE  RoundId(t, f) <= RoundId(t, e)
<1> DEFINE E == 2^e
           F == 2^f
           k == F \div E
           q == t \div F
           r == t \div E
<1>1. E \in Nat \ {0} /\ F \in Nat \ {0} /\ F = k * E
  BY PowerAssumption
<1>2. RoundId(t, f) = q * F /\ RoundId(t, e) = r * E
  BY DEF RoundId
<1> HIDE DEF E, F
<1>3. q \in Nat /\ r \in Nat /\ k \in Nat /\ q * F <= t /\ t < r * E + E
  BY <1>1
<1> HIDE DEF k, q, r
<1>4. q * F = (q * k) * E /\ q * k \in Nat
  BY <1>1, <1>3
<1> DEFINE n == q * k
<1>5. n \in Nat /\ n * E <= t /\ q * F = n * E
  BY <1>3, <1>4
<1> HIDE DEF n
<1>6. n * E < r * E + E
  BY <1>1, <1>3, <1>5
<1>7. n < r + 1
  BY <1>1, <1>3, <1>5, <1>6
<1>8. n * E <= r * E
  BY <1>1, <1>3, <1>5, <1>7
<1>9. QED
  BY <1>2, <1>5, <1>8

\* The start of a long round is the start of a shorter one.
LEMMA RoundStart ==
    ASSUME NEW t \in Nat, NEW e \in RoundExps, NEW f \in RoundExps, e <= f, t = RoundId(t, f)
    PROVE  t = RoundId(t, e)
<1>1. RoundId(t, f) <= RoundId(t, e)
  BY LongerRound
<1>2. RoundId(t, e) \in Nat /\ RoundId(t, e) <= t
  BY RoundBounds
<1>3. QED
  BY <1>1, <1>2

-----------------------------------------------------------------------------
(* The round success meter.                                                *)

\* A meter: its round is one of its exponent, and it remembers a bounded number
\* of rounds.
IsMeter(m) ==
    /\ m \in [exp : RoundExps, round : Nat, rounds : Seq(BOOLEAN)]
    /\ m.round = RoundId(m.round, m.exp)
    /\ Len(m.rounds) <= NumRounds

LEMMA MinOfTwo ==
    ASSUME NEW a \in Int, NEW b \in Int
    PROVE  Min({a, b}) = IF a <= b THEN a ELSE b
<1>1. \E x \in {a, b} : \A y \in {a, b} : x <= y
  OBVIOUS
<1>2. Min({a, b}) \in {a, b} /\ \A y \in {a, b} : Min({a, b}) <= y
  BY <1>1 DEF Min
<1>3. QED
  BY <1>2

LEMMA NewMeterOK ==
    ASSUME NEW e \in RoundExps, NEW t \in Nat
    PROVE  IsMeter(NewMeter(e, t)) /\ NewMeter(e, t).exp = e
<1>1. RoundId(t, e) \in Nat /\ RoundId(RoundId(t, e), e) = RoundId(t, e)
  BY RoundBounds
<1>2. << >> \in Seq(BOOLEAN) /\ Len(<< >>) = 0 /\ 0 <= NumRounds
  BY MeterAssumption
<1>3. QED
  BY <1>1, <1>2 DEF NewMeter, IsMeter

\* The exponent moves by one at most and stays between the bounds.
LEMMA NewExponentOK ==
    ASSUME NEW m \in [exp : RoundExps, round : Nat, rounds : Seq(BOOLEAN)]
    PROVE  NewExponent(m) \in RoundExps
<1>1. m.exp \in RoundExps /\ m.exp \in Nat /\ MinRoundExp \in Nat /\ MaxRoundExp \in Nat
  BY ExpRange
<1>2. m.exp < MaxRoundExp => m.exp + 1 \in RoundExps
  BY <1>1, ExpRange
<1>3. m.exp > MinRoundExp => m.exp - 1 \in RoundExps
  BY <1>1, ExpRange
<1>4. NewExponent(m) \in {m.exp} \cup {x \in {m.exp + 1} : m.exp < MaxRoundExp}
                                 \cup {x \in {m.exp - 1} : m.exp > MinRoundExp}
  BY DEF NewExponent
<1>5. QED
  BY <1>1, <1>2, <1>3, <1>4

\* next_era begins with a meter.
LEMMA NextEraOK ==
    ASSUME NEW t \in Nat, NEW m \in NextEra(t)
    PROVE  IsMeter(m)
<1>1. /\ m \in [exp : RoundExps, round : {RoundId(t, e) : e \in RoundExps},
                rounds : SeqOf(BOOLEAN, NumRounds)]
      /\ m.round = RoundId(t, m.exp)
  BY DEF NextEra
<1>2. RoundId(t, m.exp) \in Nat /\ RoundId(RoundId(t, m.exp), m.exp) = RoundId(t, m.exp)
  BY <1>1, RoundBounds
<1>3. m.rounds \in Seq(BOOLEAN) /\ Len(m.rounds) <= NumRounds
  <2>1. PICK n \in 0 .. NumRounds : m.rounds \in [1 .. n -> BOOLEAN]
    BY <1>1 DEF SeqOf
  <2>2. NumRounds \in Nat
    BY MeterAssumption
  <2>3. QED
    BY <2>1, <2>2
<1>4. QED
  BY <1>1, <1>2, <1>3 DEF IsMeter

\* calculate_new_exponent leaves a meter behind.
LEMMA MeasuredOK ==
    ASSUME NEW m, IsMeter(m), NEW t \in Nat, NEW ok \in BOOLEAN
    PROVE  IsMeter(Measured(m, t, ok)) /\ NewExponent(Measured(m, t, ok)) \in RoundExps
<1> DEFINE missed == Minus(RoundIndex(t, m.exp) - RoundIndex(m.round, m.exp), 1)
           failed == [i \in 1 .. missed |-> FALSE]
           all == failed \o << ok >> \o m.rounds
           k == Min({Len(all), NumRounds})
           id == RoundId(t, m.exp)
           next == [m EXCEPT !.round = id, !.rounds = SubSeq(all, 1, k)]
<1>1. /\ m.exp \in RoundExps /\ m.round \in Nat /\ m.rounds \in Seq(BOOLEAN)
      /\ m \in [exp : RoundExps, round : Nat, rounds : Seq(BOOLEAN)]
  BY DEF IsMeter
<1>2. missed \in Nat
  <2> DEFINE a == RoundIndex(t, m.exp) - RoundIndex(m.round, m.exp)
  <2>0. \A s \in Nat, e \in RoundExps : RoundIndex(s, e) \in Nat
    BY RoundBounds
  <2>1. a \in Int
    <3>1. RoundIndex(t, m.exp) \in Nat
      BY <1>1, <2>0
    <3>2. RoundIndex(m.round, m.exp) \in Nat
      BY <1>1, <2>0
    <3>3. QED
      BY <3>1, <3>2
  <2>2. Max({0, a - 1}) = IF 0 >= a - 1 THEN 0 ELSE a - 1
    BY <2>1, MaxOfTwo
  <2> HIDE DEF a
  <2>3. Minus(a, 1) \in Nat
    BY <2>1, <2>2 DEF Minus
  <2>4. QED
    BY <2>3 DEF a
<1> HIDE DEF missed
<1>3. failed \in Seq(BOOLEAN)
  BY <1>2
<1>4. all \in Seq(BOOLEAN) /\ Len(all) \in Nat
  <2> HIDE DEF failed
  <2>1. << ok >> \in Seq(BOOLEAN)
    OBVIOUS
  <2>2. QED
    BY <1>1, <1>3, <2>1
<1> HIDE DEF all, failed
<1>5. k \in Nat /\ k <= Len(all) /\ k <= NumRounds
  <2>1. NumRounds \in Nat
    BY MeterAssumption
  <2>2. k = IF Len(all) <= NumRounds THEN Len(all) ELSE NumRounds
    BY <1>4, <2>1, MinOfTwo
  <2>3. QED
    BY <1>4, <2>1, <2>2
<1> HIDE DEF k
<1>6. SubSeq(all, 1, k) \in Seq(BOOLEAN) /\ Len(SubSeq(all, 1, k)) <= NumRounds
  <2>1. \A i \in 1 .. k : all[i] \in BOOLEAN
    BY <1>4, <1>5
  <2>2. /\ SubSeq(all, 1, k) \in Seq(BOOLEAN)
        /\ Len(SubSeq(all, 1, k)) = IF 1 <= k THEN k - 1 + 1 ELSE 0
    BY <1>5, <2>1, SubSeqProperties
  <2>3. QED
    BY <1>5, <2>2
<1>7. id \in Nat /\ RoundId(id, m.exp) = id
  BY <1>1, RoundBounds
<1>8. IsMeter(next) /\ next \in [exp : RoundExps, round : Nat, rounds : Seq(BOOLEAN)]
      /\ next.exp = m.exp
  <2> HIDE DEF id
  <2>1. /\ next \in [exp : RoundExps, round : Nat, rounds : Seq(BOOLEAN)]
        /\ next.exp = m.exp /\ next.round = id /\ next.rounds = SubSeq(all, 1, k)
    BY <1>1, <1>6, <1>7
  <2>2. QED
    BY <1>6, <1>7, <2>1 DEF IsMeter
<1> HIDE DEF next
<1>9. NewExponent(next) \in RoundExps
  BY <1>8, NewExponentOK
<1>10. \/ Measured(m, t, ok) = m
       \/ Measured(m, t, ok) = next
       \/ Measured(m, t, ok) = NewMeter(NewExponent(next), t)
  BY DEF Measured, next, k, all, failed, missed
<1>11. IsMeter(Measured(m, t, ok))
  BY <1>1, <1>8, <1>9, <1>10, NewMeterOK
<1>12. QED
  BY <1>11, NewExponentOK DEF IsMeter

-----------------------------------------------------------------------------
(* Units and timers.                                                       *)

\* latest_unit finds a unit with the greatest number.
LEMMA LatestOK ==
    ASSUME NEW H \in SUBSET Unit, NEW n \in Nat, \A u \in H : u.seq <= n
    PROVE  /\ H = {} => LatestOf(H) = None
           /\ H # {} => /\ LatestOf(H) \in H
                        /\ \A w \in H : w.seq <= LatestOf(H).seq
<1>1. CASE H = {}
  BY <1>1 DEF LatestOf
<1>2. CASE H # {}
  <2> DEFINE T == {u.seq : u \in H}
  <2>1. \A u \in H : u.seq \in Nat
    BY DEF Unit
  <2>2. T \in SUBSET (0 .. n) /\ T # {}
    BY <1>2, <2>1
  <2>3. Max(T) \in T /\ \A y \in T : Max(T) >= y
    BY <2>2, GreatestElement
  <2>4. PICK u \in H : u.seq = Max(T)
    BY <2>3
  <2>5. \A w \in H : w.seq <= u.seq
    <3> SUFFICES ASSUME NEW w \in H PROVE w.seq <= u.seq
      OBVIOUS
    <3>1. w.seq \in T
      OBVIOUS
    <3>2. QED
      BY <2>1, <2>3, <2>4, <3>1
  <2>6. QED
    BY <1>2, <2>5 DEF LatestOf
<1>3. QED
  BY <1>1, <1>2

LEMMA RoundExpOK ==
    ASSUME NEW H, LatestOf(H) \in {None} \cup Unit, NEW next \in RoundExps, NEW t
    PROVE  RoundExp(H, next, t) \in RoundExps
BY DEF RoundExp, Unit

LEMMA OffsetOK ==
    ASSUME NEW e \in RoundExps
    PROVE  WitnessOffset(e) \in Nat
<1>1. RoundLen(e) \in Nat
  BY PowerAssumption DEF RoundLen
<1>2. QED
  BY <1>1 DEF WitnessOffset

\* The next timer is later than the one that fires.
LEMMA TimerAfterOK ==
    ASSUME NEW H, LatestOf(H) \in {None} \cup Unit, NEW next \in RoundExps, NEW t \in Nat
    PROVE  TimerAfter(H, next, t) \in Nat /\ TimerAfter(H, next, t) > t
<1> DEFINE exp == RoundExp(H, next, t)
           witness == RoundId(t, exp) + WitnessOffset(exp)
           nextId == RoundId(t, exp) + RoundLen(exp)
<1>1. exp \in RoundExps /\ RoundExp(H, next, nextId) \in RoundExps
  BY RoundExpOK
<1> HIDE DEF exp
<1>2. RoundLen(exp) \in Nat /\ RoundId(t, exp) \in Nat /\ t < nextId
  BY <1>1, RoundBounds
<1>3. WitnessOffset(exp) \in Nat /\ WitnessOffset(RoundExp(H, next, nextId)) \in Nat
  BY <1>1, OffsetOK
<1>4. /\ nextId \in Nat /\ witness \in Nat
      /\ nextId + WitnessOffset(RoundExp(H, next, nextId)) \in Nat
      /\ nextId + WitnessOffset(RoundExp(H, next, nextId)) > t
  BY <1>2, <1>3
<1>5. TimerAfter(H, next, t) \in
          {x \in {witness} : t < witness}
          \cup {nextId, nextId + WitnessOffset(RoundExp(H, next, nextId))}
  BY DEF TimerAfter, exp
<1>6. QED
  BY <1>2, <1>4, <1>5

\* The units in the state of a validator that runs, and the latest of them.
LEMMA ActiveLatest ==
    ASSUME IInv, mode = "active"
    PROVE  /\ have \subseteq Unit /\ None \notin have
           /\ Latest \in {None} \cup Unit
           /\ Latest = None <=> have = {}
           /\ Latest # None => Latest \in have /\ \A w \in have : w.seq <= Latest.seq
<1>1. have \subseteq signed /\ signed \subseteq Unit /\ have \subseteq Unit /\ None \notin have
  BY NoneAssumption DEF IInv, TypeOK
<1>2. \E n \in Nat : \A u \in have : u.seq <= n
  <2>1. unitFile \in {None} \cup signed
    BY DEF IInv, TypeOK, VotesWithEverything
  <2>2. CASE unitFile = None
    <3>1. have = {}
      BY <1>1, <2>2 DEF IInv, FileIsLatest
    <3>2. QED
      BY <3>1
  <2>3. CASE unitFile \in signed
    <3>1. unitFile.seq \in Nat /\ \A u \in have : u.seq <= unitFile.seq
      BY <1>1, <2>3 DEF IInv, FileIsLatest, Unit
    <3>2. QED
      BY <3>1
  <2>4. QED
    BY <2>1, <2>2, <2>3
<1>3. /\ have = {} => Latest = None
      /\ have # {} => Latest \in have /\ \A w \in have : w.seq <= Latest.seq
  BY <1>1, <1>2, LatestOK DEF Latest
<1>4. QED
  BY <1>1, <1>3

\* A validator that may vote has everything it signed in its state.
LEMMA VotesKnowingly ==
    ASSUME IInv, mode = "active", CanVote
    PROVE  /\ ownLastUnit = None /\ signed = have
           /\ Latest = None => signed = {}
           /\ Latest # None => Latest \in signed /\ \A w \in signed : w.seq <= Latest.seq
<1>1. ownLastUnit = None
  BY DEF CanVote, IInv, VotesWithEverything
<1>2. signed = have
  BY <1>1 DEF IInv, TypeOK, VotesWithEverything
<1>3. QED
  BY <1>1, <1>2, ActiveLatest

\* earliest_unit_time is not before the latest unit, nor before the end of the
\* round of the unit before it.
LEMMA EarliestOK ==
    ASSUME IInv, mode = "active", Latest # None
    PROVE  /\ EarliestUnitTime \in Nat
           /\ Latest.timestamp <= EarliestUnitTime
           /\ \A w \in have : w.seq = Latest.seq - 1 =>
                  RoundId(w.timestamp, w.roundExp) + RoundLen(w.roundExp) <= EarliestUnitTime
<1> DEFINE P == {w \in have : w.seq = Latest.seq - 1}
           prev == Previous(have, Latest)
           end == RoundId(prev.timestamp, prev.roundExp) + RoundLen(prev.roundExp)
<1>1. /\ have \subseteq Unit /\ Latest \in Unit /\ Latest \in have
      /\ Latest.seq \in Nat /\ Latest.timestamp \in Nat
  BY ActiveLatest, BoundAssumption DEF Unit, Time
<1>2. prev = LatestOf(P)
  BY DEF Previous
<1>3. P \in SUBSET Unit /\ \A u \in P : u.seq <= Latest.seq
  BY <1>1
<1>4. /\ P = {} => prev = None
      /\ P # {} => prev \in P
  BY <1>1, <1>2, <1>3, LatestOK
<1> HIDE DEF prev
<1>5. \A w \in P : prev \in P /\ w = prev
  <2> SUFFICES ASSUME NEW w \in P PROVE prev \in P /\ w = prev
    OBVIOUS
  <2>1. prev \in P /\ prev.seq = w.seq
    BY <1>4
  <2>2. w \in signed /\ prev \in signed
    BY <2>1 DEF IInv, TypeOK
  <2>3. QED
    BY <2>1, <2>2 DEF IInv, NoEquivocation
<1>6. CASE prev = None
  <2>1. EarliestUnitTime = Latest.timestamp
    BY <1>6, Zenon DEF EarliestUnitTime, prev
  <2>2. P = {}
    BY <1>3, <1>5, <1>6, NoneAssumption
  <2>3. QED
    BY <1>1, <2>1, <2>2
<1>7. CASE prev # None
  <2>1. EarliestUnitTime = Max({Latest.timestamp, end})
    BY <1>7, Zenon DEF EarliestUnitTime, prev
  <2>2. prev \in Unit /\ prev.timestamp \in Nat /\ prev.roundExp \in RoundExps
    BY <1>1, <1>3, <1>4, <1>7, BoundAssumption DEF Unit, Time
  <2>3. end \in Nat
    <3>1. RoundId(prev.timestamp, prev.roundExp) \in Nat /\ RoundLen(prev.roundExp) \in Nat
      BY <2>2, RoundBounds
    <3>2. QED
      BY <3>1
  <2> HIDE DEF end
  <2>4. EarliestUnitTime = IF Latest.timestamp >= end THEN Latest.timestamp ELSE end
    BY <1>1, <2>1, <2>3, MaxOfTwo
  <2>5. EarliestUnitTime \in Nat /\ Latest.timestamp <= EarliestUnitTime /\ end <= EarliestUnitTime
    BY <1>1, <2>3, <2>4
  <2>6. QED
    BY <1>5, <2>5 DEF end
<1>8. QED
  BY <1>6, <1>7

-----------------------------------------------------------------------------
(* Signing a unit.                                                         *)

\* The times of three units in a row, from the first to the last, with their
\* exponents: the first and the last one are in different rounds.
LEMMA ThreeInARow ==
    ASSUME NEW s \in Nat, NEW t \in Nat, NEW r \in Nat,
           NEW e \in RoundExps, NEW f \in RoundExps, NEW g \in RoundExps,
           s <= t, t <= r,
           RoundId(s, e) + RoundLen(e) <= r,
           e # f => RoundId(s, Max({f, e})) # RoundId(t, Max({f, e})),
           g # f => t < RoundId(r, Max({g, f}))
    PROVE  RoundId(s, e) # RoundId(r, g)
<1>1. e \in Nat /\ f \in Nat /\ g \in Nat
  BY ExpRange
<1>2. RoundId(s, e) \in Nat /\ RoundId(s, e) <= s /\ RoundId(r, g) \in Nat
  BY RoundBounds
<1>3. CASE g <= e
  <2>1. RoundId(s, e) < RoundId(r, e)
    BY RoundOrder
  <2>2. RoundId(r, e) <= RoundId(r, g)
    BY <1>3, LongerRound
  <2>3. RoundId(r, e) \in Nat
    BY RoundBounds
  <2>4. QED
    BY <1>2, <2>1, <2>2, <2>3
<1>4. CASE g > e /\ g # f
  <2> DEFINE m == Max({g, f})
  <2>1. m \in RoundExps /\ g <= m
    <3>1. m = IF g >= f THEN g ELSE f
      BY <1>1, MaxOfTwo
    <3>2. QED
      BY <1>1, <3>1
  <2>2. t < RoundId(r, m)
    BY <1>4
  <2> HIDE DEF m
  <2>3. RoundId(r, m) <= RoundId(r, g) /\ RoundId(r, m) \in Nat
    BY <2>1, LongerRound, RoundBounds
  <2>4. QED
    BY <1>2, <2>2, <2>3
<1>5. CASE g > e /\ g = f
  <2>1. Max({f, e}) = f
    <3>1. Max({f, e}) = IF f >= e THEN f ELSE e
      BY <1>1, MaxOfTwo
    <3>2. QED
      BY <1>1, <1>5, <3>1
  <2>2. RoundId(s, f) # RoundId(t, f)
    BY <1>1, <1>5, <2>1
  <2>3. /\ RoundId(s, f) \in Nat /\ RoundId(t, f) \in Nat
        /\ RoundId(RoundId(t, f), f) = RoundId(t, f)
    BY RoundBounds
  <2>4. RoundId(s, f) <= RoundId(t, f) /\ RoundId(t, f) <= RoundId(r, f)
    BY RoundOrder
  <2>5. RoundId(t, f) <= s => RoundId(t, f) <= RoundId(s, f)
    BY <2>3, RoundOrder
  <2>6. s < RoundId(t, f)
    BY <2>2, <2>3, <2>4, <2>5
  <2>7. QED
    BY <1>2, <1>5, <2>3, <2>4, <2>6
<1>6. QED
  BY <1>1, <1>3, <1>4, <1>5

\* A unit that may follow unit w.
Follows(u, w) ==
    /\ w.timestamp <= u.timestamp
    /\ w.sees \subseteq u.sees
    /\ u.roundExp # w.roundExp =>
           w.timestamp < RoundId(u.timestamp, Max({u.roundExp, w.roundExp}))
    /\ u.proposal => w.timestamp < RoundId(u.timestamp, u.roundExp)

\* What is true of a unit when it is signed.
Signable(u) ==
    /\ u \in Unit /\ u.timestamp <= clock
    /\ CanVote
    /\ u.seq = IF Latest = None THEN 0 ELSE Latest.seq + 1
    /\ u.proposal \/ u.sees # {} \/ Latest # None
    /\ \A p \in u.sees : p <= u.timestamp
    /\ u.proposal => u.timestamp \in OwnRounds
    /\ u.proposal /\ u.roundExp <= u.asked => u.timestamp = RoundId(u.timestamp, u.roundExp)
    /\ EarliestUnitTime <= u.timestamp
    /\ Latest # None => Follows(u, Latest)

\* A unit that is signed has a number of its own.
LEMMA NewNumber ==
    ASSUME IInv, mode = "active", NEW u, Signable(u)
    PROVE  /\ signed \subseteq Unit /\ u.seq \in Nat
           /\ \A w \in signed : w.seq \in Nat /\ w.seq < u.seq
           /\ \A w \in signed : w.seq = u.seq - 1 => w = Latest /\ Latest # None
           /\ Latest # None => Latest \in signed /\ Latest \in have /\ signed = have
                               /\ Latest.seq = u.seq - 1
<1>1. CanVote /\ u \in Unit /\ u.seq = IF Latest = None THEN 0 ELSE Latest.seq + 1
  BY DEF Signable
<1>2. /\ signed = have
      /\ Latest = None => signed = {}
      /\ Latest # None => Latest \in signed /\ \A w \in signed : w.seq <= Latest.seq
  BY <1>1, VotesKnowingly
<1>3. signed \subseteq Unit /\ \A w \in signed : w.seq \in Nat
  BY DEF IInv, TypeOK, Unit
<1>4. u.seq \in Nat
  BY <1>1 DEF Unit
<1>5. \A w \in signed : Latest # None /\ Latest \in signed /\ w.seq <= Latest.seq
                        /\ Latest.seq \in Nat /\ u.seq = Latest.seq + 1
  BY <1>1, <1>2, <1>3
<1>6. \A w \in signed : w.seq = u.seq - 1 => w = Latest
  <2> SUFFICES ASSUME NEW w \in signed, w.seq = u.seq - 1 PROVE w = Latest
    OBVIOUS
  <2>1. w.seq = Latest.seq
    BY <1>3, <1>5
  <2>2. QED
    BY <1>5, <2>1 DEF IInv, NoEquivocation
<1>7. \A w \in signed : w.seq < u.seq
  BY <1>3, <1>4, <1>5
<1>8. Latest # None => Latest.seq = u.seq - 1
  BY <1>2, <1>5
<1>9. QED
  BY <1>2, <1>3, <1>4, <1>5, <1>6, <1>7, <1>8

\* With a unit that may be signed, all units together are still valid.
LEMMA SignedOK ==
    ASSUME IInv, mode = "active", NEW u, Signable(u), signed' = signed \cup {u}
    PROVE  /\ signed' \subseteq Unit
           /\ NoEquivocation' /\ CitesThePast' /\ TwoUnitsPerRound' /\ BlocksStartRounds'
<1>1. /\ signed \subseteq Unit /\ u.seq \in Nat
      /\ \A w \in signed : w.seq \in Nat /\ w.seq < u.seq
      /\ \A w \in signed : w.seq = u.seq - 1 => w = Latest /\ Latest # None
      /\ Latest # None => Latest \in signed /\ Latest \in have /\ signed = have
                          /\ Latest.seq = u.seq - 1
  BY NewNumber
<1>2. u \in Unit
  BY DEF Signable
<1>3. /\ u.timestamp \in Nat /\ u.roundExp \in RoundExps
      /\ \A w \in signed : w.timestamp \in Nat /\ w.roundExp \in RoundExps
  BY <1>1, <1>2, BoundAssumption DEF Unit, Time
<1>4. NoEquivocation'
  <2> SUFFICES ASSUME NEW v \in signed \cup {u}, NEW w \in signed \cup {u}, v.seq = w.seq
               PROVE v = w
    BY DEF NoEquivocation
  <2>1. CASE v \in signed /\ w \in signed
    BY <2>1 DEF IInv, NoEquivocation
  <2>2. CASE v = u \/ w = u
    BY <1>1, <2>2
  <2>3. QED
    BY <2>1, <2>2
<1>5. CitesThePast'
  <2> SUFFICES ASSUME NEW v \in signed \cup {u}
               PROVE  /\ v.proposal \/ v.sees # {} \/ v.seq > 0
                      /\ \A p \in v.sees : p <= v.timestamp
                      /\ v.proposal => v.timestamp \in OwnRounds
                      /\ \A w \in signed \cup {u} : w.seq = v.seq - 1 =>
                             LET maxExp == Max({v.roundExp, w.roundExp}) IN
                             /\ w.timestamp <= v.timestamp
                             /\ w.sees \subseteq v.sees
                             /\ w.roundExp # v.roundExp =>
                                    RoundId(w.timestamp, maxExp) # RoundId(v.timestamp, maxExp)
    BY DEF CitesThePast
  <2>1. CASE v \in signed
    <3>1. u.seq # v.seq - 1
      BY <1>1, <2>1
    <3>2. QED
      BY <2>1, <3>1 DEF IInv, CitesThePast
  <2>2. CASE v = u
    <3>1. u.proposal \/ u.sees # {} \/ u.seq > 0
      <4>1. Latest # None => u.seq > 0
        BY <1>1
      <4>2. QED
        BY <4>1 DEF Signable
    <3>2. (\A p \in u.sees : p <= u.timestamp) /\ (u.proposal => u.timestamp \in OwnRounds)
      BY DEF Signable
    <3>3. u.seq # u.seq - 1
      BY <1>1
    <3>4. ASSUME NEW w \in signed, w.seq = u.seq - 1
          PROVE  /\ w.timestamp <= u.timestamp
                 /\ w.sees \subseteq u.sees
                 /\ w.roundExp # u.roundExp =>
                        RoundId(w.timestamp, Max({u.roundExp, w.roundExp}))
                            # RoundId(u.timestamp, Max({u.roundExp, w.roundExp}))
      <4> DEFINE m == Max({u.roundExp, w.roundExp})
      <4>1. w = Latest /\ Follows(u, w)
        BY <1>1, <3>4 DEF Signable
      <4>2. m \in RoundExps
        <5>0. \A e \in RoundExps : e \in Int
          BY ExpRange
        <5>1. u.roundExp \in Int /\ w.roundExp \in Int
          <6>1. u.roundExp \in RoundExps /\ w.roundExp \in RoundExps
            BY <1>3, <3>4
          <6>2. QED
            BY <5>0, <6>1
        <5>2. m = IF u.roundExp >= w.roundExp THEN u.roundExp ELSE w.roundExp
          BY <5>1, MaxOfTwo
        <5>3. QED
          BY <1>3, <3>4, <5>2
      <4>3. w.roundExp # u.roundExp => w.timestamp < RoundId(u.timestamp, m)
        BY <4>1 DEF Follows
      <4> HIDE DEF m
      <4>4. /\ RoundId(w.timestamp, m) \in Nat /\ RoundId(w.timestamp, m) <= w.timestamp
            /\ RoundId(u.timestamp, m) \in Nat
        BY <1>3, <3>4, <4>2, RoundBounds
      <4>5. w.roundExp # u.roundExp => RoundId(w.timestamp, m) # RoundId(u.timestamp, m)
        BY <1>3, <3>4, <4>3, <4>4
      <4>6. QED
        BY <4>1, <4>5 DEF Follows, m
    <3>5. QED
      BY <2>2, <3>1, <3>2, <3>3, <3>4
  <2>3. QED
    BY <2>1, <2>2
<1>6. TwoUnitsPerRound'
  <2> SUFFICES ASSUME NEW v \in signed \cup {u}, NEW w \in signed \cup {u},
                      (v.proposal /\ w.seq = v.seq - 1) \/ w.seq = v.seq - 2
               PROVE  RoundId(w.timestamp, w.roundExp) # RoundId(v.timestamp, v.roundExp)
    BY DEF TwoUnitsPerRound
  <2>1. CASE v \in signed /\ w \in signed
    BY <2>1 DEF IInv, TwoUnitsPerRound
  <2>2. ~ (w = u)
    BY <1>1
  <2>3. CASE v = u /\ w \in signed /\ w.seq = u.seq - 1 /\ u.proposal
    <3>1. w.timestamp < RoundId(u.timestamp, u.roundExp)
      BY <1>1, <2>3 DEF Signable, Follows
    <3>2. RoundId(w.timestamp, w.roundExp) \in Nat /\ RoundId(w.timestamp, w.roundExp) <= w.timestamp
          /\ RoundId(u.timestamp, u.roundExp) \in Nat
      BY <1>3, <2>3, RoundBounds
    <3>3. QED
      BY <1>3, <2>3, <3>1, <3>2
  <2>4. CASE v = u /\ w \in signed /\ w.seq = u.seq - 2
    <3>1. Latest # None /\ Latest \in signed /\ signed = have /\ w.seq = Latest.seq - 1
      <4>1. CanVote
        BY DEF Signable
      <4>2. Latest # None
        BY <2>4, <4>1, VotesKnowingly
      <4>3. QED
        BY <1>1, <2>4, <4>2
    <3>2. /\ EarliestUnitTime \in Nat
          /\ RoundId(w.timestamp, w.roundExp) + RoundLen(w.roundExp) <= EarliestUnitTime
      BY <2>4, <3>1, EarliestOK
    <3>3. RoundId(w.timestamp, w.roundExp) \in Nat /\ RoundLen(w.roundExp) \in Nat
      BY <1>3, <2>4, RoundBounds
    <3>4. RoundId(w.timestamp, w.roundExp) + RoundLen(w.roundExp) <= u.timestamp
      BY <1>3, <3>2, <3>3 DEF Signable
    <3>5. /\ w.timestamp <= Latest.timestamp
          /\ w.roundExp # Latest.roundExp =>
                 RoundId(w.timestamp, Max({Latest.roundExp, w.roundExp}))
                    # RoundId(Latest.timestamp, Max({Latest.roundExp, w.roundExp}))
      BY <2>4, <3>1 DEF IInv, CitesThePast
    <3>6. /\ Latest.timestamp <= u.timestamp
          /\ u.roundExp # Latest.roundExp =>
                 Latest.timestamp < RoundId(u.timestamp, Max({u.roundExp, Latest.roundExp}))
      BY <3>1 DEF Signable, Follows
    <3>7. /\ Latest.timestamp \in Nat /\ Latest.roundExp \in RoundExps
          /\ w.timestamp \in Nat /\ w.roundExp \in RoundExps
      BY <1>3, <2>4, <3>1
    <3>8. QED
      BY <1>3, <2>4, <3>4, <3>5, <3>6, <3>7, ThreeInARow
  <2>5. QED
    BY <2>1, <2>2, <2>3, <2>4
<1>7. BlocksStartRounds'
  BY DEF IInv, BlocksStartRounds, Signable
<1>8. QED
  BY <1>1, <1>2, <1>4, <1>5, <1>6, <1>7

\* new_unit signs no other units: the exponent is the one of the latest unit, or
\* the latest unit is from before the round, whichever exponent gives it.
LEMMA NewUnitOK ==
    ASSUME IInv, mode = "active",
           NEW own, NEW sees \in SUBSET PeerRounds, NEW t \in Nat, NEW proposal \in BOOLEAN,
           NEW next \in RoundExps, NEW asked \in RoundExps,
           MaySign(own, sees, t, proposal),
           t <= clock, EarliestUnitTime <= t,
           Latest # None => Latest.sees \subseteq sees,
           proposal => t \in OwnRounds,
           proposal => t = RoundId(t, asked),
           proposal /\ Latest # None => Latest.timestamp < RoundId(t, Latest.roundExp)
    PROVE  Signable(NewUnit(own, sees, t, proposal, next, asked))
<1> DEFINE u == NewUnit(own, sees, t, proposal, next, asked)
           e == RoundExp(have, next, t)
<1>1. /\ own = Latest /\ CanVote
      /\ proposal \/ sees # {} \/ Latest # None
      /\ \A p \in sees : p <= t
      /\ Latest # None => Latest.timestamp <= t
  BY DEF MaySign
<1>2. Latest \in {None} \cup Unit /\ Latest = LatestOf(have)
  BY ActiveLatest DEF Latest
<1>3. e \in RoundExps
  BY <1>2, RoundExpOK
<1>4. t \in Time
  BY BoundAssumption DEF IInv, TypeOK, Time
<1>5. /\ u.seq = (IF Latest = None THEN 0 ELSE Latest.seq + 1)
      /\ u.timestamp = t /\ u.roundExp = e /\ u.proposal = proposal /\ u.sees = sees
      /\ u.asked = asked
  BY <1>1 DEF NewUnit
<1>6. u \in Unit
  <2>1. (IF Latest = None THEN 0 ELSE Latest.seq + 1) \in Nat
    BY <1>2 DEF Unit
  <2>2. QED
    BY <1>1, <1>3, <1>4, <2>1 DEF NewUnit, Unit
<1>7. ASSUME Latest # None
      PROVE  Follows(u, Latest)
  <2>1. Latest.roundExp \in RoundExps /\ Latest.timestamp \in Nat
    BY <1>2, <1>7, BoundAssumption DEF Unit, Time
  <2>2. e # Latest.roundExp => e = next /\ Latest.timestamp < RoundId(t, Max({e, Latest.roundExp}))
    BY <1>2, <1>7 DEF RoundExp
  <2>3. ASSUME e # Latest.roundExp
        PROVE  Latest.timestamp < RoundId(t, e)
    <3> DEFINE m == Max({e, Latest.roundExp})
    <3>0. \A x \in RoundExps : x \in Int
      BY ExpRange
    <3>1. e \in Int /\ Latest.roundExp \in Int
      BY <1>3, <2>1, <3>0
    <3>2. m = IF e >= Latest.roundExp THEN e ELSE Latest.roundExp
      BY <3>1, MaxOfTwo
    <3>3. m \in RoundExps /\ e <= m
      BY <1>3, <2>1, <3>1, <3>2
    <3>4. Latest.timestamp < RoundId(t, m)
      BY <2>2, <2>3
    <3> HIDE DEF m, e
    <3>5. RoundId(t, m) <= RoundId(t, e) /\ RoundId(t, m) \in Nat /\ RoundId(t, e) \in Nat
      BY <1>3, <3>3, LongerRound, RoundBounds
    <3>6. QED
      BY <2>1, <3>4, <3>5
  <2>4. proposal => Latest.timestamp < RoundId(t, e)
    BY <1>7, <2>3
  <2> HIDE DEF u, e
  <2>5. QED
    BY <1>1, <1>5, <1>7, <2>2, <2>4 DEF Follows
<1> HIDE DEF u, e
<1>8. u.proposal /\ u.roundExp <= u.asked => u.timestamp = RoundId(u.timestamp, u.roundExp)
  BY <1>3, <1>5, RoundStart
<1>9. QED
  BY <1>1, <1>5, <1>6, <1>7, <1>8 DEF Signable, u

\* What panorama_at gives has all that the latest unit saw.
LEMMA PanoramaOK ==
    ASSUME IInv, mode = "active", NEW t
    PROVE  /\ PanoramaAt(t) \subseteq seen /\ PanoramaAt(t) \subseteq PeerRounds
           /\ Latest # None => Latest.sees \subseteq PanoramaAt(t)
<1>1. seen \subseteq PeerRounds
  BY DEF IInv, TypeOK
<1>2. Latest # None => Latest.sees \subseteq seen
  BY ActiveLatest DEF IInv, StateIsClosed
<1>3. QED
  BY <1>1, <1>2 DEF PanoramaAt

\* handle_timer, with or without a block.
LEMMA TimerUnitOK ==
    ASSUME IInv, mode = "active", nextTimer <= clock, TimerSigns
    PROVE  Signable(TimerUnit)
<1>1. /\ PanoramaAt(nextTimer) \in SUBSET PeerRounds
      /\ Latest # None => Latest.sees \subseteq PanoramaAt(nextTimer)
  BY PanoramaOK
<1>2. MaySign(Latest, PanoramaAt(nextTimer), nextTimer, FALSE)
  BY DEF TimerSigns
<1>3. nextTimer \in Nat /\ NewExponent(meter) \in RoundExps /\ clock \in Nat
  BY BoundAssumption, NewExponentOK DEF IInv, TypeOK, Time
<1>4. EarliestUnitTime <= nextTimer
  <2>1. EarliestUnitTime \in Nat
    <3>1. CASE Latest = None
      BY <3>1, Zenon DEF EarliestUnitTime
    <3>2. CASE Latest # None
      BY <3>2, EarliestOK
    <3>3. QED
      BY <3>1, <3>2
  <2>2. QED
    BY <1>3, <2>1 DEF TimerSigns, TimerOutdated
<1>5. QED
  <2>1. RoundExp(have, NewExponent(meter), nextTimer) \in RoundExps
    BY <1>3, ActiveLatest, RoundExpOK DEF Latest
  <2>2. QED
    BY <1>1, <1>2, <1>3, <1>4, <2>1, NewUnitOK DEF TimerUnit, NewVote

\* propose.
LEMMA ProposalOK ==
    ASSUME IInv, mode = "active", NEW t \in requests, Proposes(t)
    PROVE  Signable(ProposalOf(nextProposal))
<1>1. nextProposal # None /\ nextProposal.timestamp = t /\ EarliestUnitTime <= t
      /\ MaySign(nextProposal.own, nextProposal.sees, t, TRUE)
  BY DEF Proposes
<1>2. nextProposal.own = Latest
  BY <1>1 DEF MaySign
<1>3. /\ t <= clock /\ t = RoundId(t, nextProposal.exp)
      /\ Latest # None => /\ Latest.sees \subseteq nextProposal.sees
                          /\ Latest.timestamp < RoundId(t, Latest.roundExp)
  BY <1>1, <1>2 DEF IInv, ProposalFits
<1>4. nextProposal.sees \in SUBSET PeerRounds /\ nextProposal.exp \in RoundExps
  BY <1>1 DEF IInv, TypeOK
<1>5. t \in OwnRounds /\ t \in Nat /\ NewExponent(meter) \in RoundExps
  BY RoundAssumption, NewExponentOK DEF IInv, TypeOK
<1>6. QED
  BY <1>1, <1>3, <1>4, <1>5, NewUnitOK DEF ProposalOf

\* on_new_unit of a proposal.
LEMMA ConfirmationOK ==
    ASSUME IInv, mode = "active", NEW p \in proposals, NEW next \in RoundExps, Confirms(p, next)
    PROVE  Signable(Confirmation(p, next))
<1> DEFINE sees == {p} \cup (IF Latest = None THEN {} ELSE Latest.sees)
<1>1. EarliestUnitTime <= clock /\ MaySign(Latest, sees, clock, FALSE)
  BY DEF Confirms
<1>2. Latest # None => Latest.sees \subseteq seen
  BY ActiveLatest DEF IInv, StateIsClosed
<1>3. sees \in SUBSET PeerRounds /\ (Latest # None => Latest.sees \subseteq sees)
  BY <1>2 DEF IInv, TypeOK
<1>4. clock \in Nat /\ clock <= clock
  BY BoundAssumption DEF IInv, TypeOK, Time
<1> HIDE DEF sees
<1>5. Signable(NewVote(sees, clock, next))
  <2>1. RoundExp(have, next, clock) \in RoundExps
    BY <1>4, ActiveLatest, RoundExpOK DEF Latest
  <2>2. QED
    BY <1>1, <1>3, <1>4, <2>1, NewUnitOK DEF NewVote
<1>6. QED
  BY <1>5 DEF Confirmation, sees

-----------------------------------------------------------------------------
(* The steps.                                                              *)

\* The parts of the state that have everything they cite.
Closed(S, H) ==
    \A u \in H :
        /\ u.sees \subseteq S
        /\ \A n \in 0 .. u.seq : \E w \in H : w.seq = n

LEMMA ClosedWith ==
    ASSUME NEW S, NEW T, S \subseteq T, NEW H \in SUBSET Unit, Closed(S, H),
           NEW u \in Unit, PanoramaSync(u, T, H)
    PROVE  Closed(T, H \cup {u})
<1> SUFFICES ASSUME NEW v \in H \cup {u}
             PROVE  /\ v.sees \subseteq T
                    /\ \A n \in 0 .. v.seq : \E w \in H \cup {u} : w.seq = n
  BY DEF Closed
<1>1. CASE v \in H
  BY <1>1 DEF Closed
<1>2. CASE v = u
  <2>1. u.sees \subseteq T /\ u.seq \in Nat
    BY DEF PanoramaSync, Unit
  <2>2. ASSUME NEW n \in 0 .. u.seq
        PROVE  \E w \in H \cup {u} : w.seq = n
    <3>1. CASE n = u.seq
      BY <3>1
    <3>2. CASE n # u.seq
      <4>1. u.seq > 0 /\ n \in 0 .. u.seq - 1
        BY <2>1, <2>2, <3>2
      <4>2. PICK x \in H : x.seq = u.seq - 1
        BY <4>1 DEF PanoramaSync
      <4>3. n \in 0 .. x.seq
        BY <4>1, <4>2
      <4>4. QED
        BY <4>3 DEF Closed
    <3>3. QED
      BY <3>1, <3>2
  <2>3. QED
    BY <1>2, <2>1, <2>2
<1>3. QED
  BY <1>1, <1>2

\* A step that signs u and goes on.
SignStep(u) ==
    /\ mode = "active"
    /\ Signable(u)
    /\ Sign(u)
    /\ UNCHANGED clock
    /\ IsMeter(meter')
    /\ nextTimer' \in Nat /\ nextTimer <= nextTimer'
    /\ \/ u.timestamp < nextTimer'
       \/ u.timestamp = RoundId(u.timestamp, u.roundExp) => u.timestamp \notin OwnRounds
    /\ requests' \subseteq OwnRounds
    /\ seen \subseteq seen' /\ seen' \subseteq proposals /\ u.sees \subseteq seen'

LEMMA SignStepOK ==
    ASSUME IInv, NEW u, SignStep(u)
    PROVE  IInv'
<1>1. /\ mode = "active" /\ Signable(u)
      /\ unitFile' = u /\ signed' = signed \cup {u} /\ have' = have \cup {u}
      /\ ping' = Max({ping, u.timestamp}) /\ nextProposal' = None
      /\ mode' = mode /\ stops' = stops /\ ownLastUnit' = ownLastUnit /\ clock' = clock
      /\ proposals' = proposals /\ peersHave' = peersHave /\ pinged' = pinged
      /\ IsMeter(meter')
      /\ nextTimer' \in Nat /\ nextTimer <= nextTimer'
      /\ \/ u.timestamp < nextTimer'
         \/ u.timestamp = RoundId(u.timestamp, u.roundExp) => u.timestamp \notin OwnRounds
      /\ requests' \subseteq OwnRounds
      /\ seen \subseteq seen' /\ seen' \subseteq proposals /\ u.sees \subseteq seen'
  BY DEF SignStep, Sign, outside
<1>2. u \in Unit /\ CanVote /\ u.timestamp <= clock
  BY <1>1 DEF Signable
<1>3. ownLastUnit = None /\ signed = have
  BY <1>1, <1>2, VotesKnowingly
<1>4. signed' \subseteq Unit /\ NoEquivocation' /\ CitesThePast' /\ TwoUnitsPerRound' /\ BlocksStartRounds'
  BY <1>1, SignedOK
<1>5. /\ u.seq \in Nat
      /\ \A w \in signed : w.seq \in Nat /\ w.seq < u.seq
      /\ Latest # None => Latest \in have /\ Latest.seq = u.seq - 1
  BY <1>1, NewNumber
<1>6. ping' \in Time /\ ping <= ping' /\ ping \in Nat
  <2>1. ping \in Time /\ u.timestamp \in Time
    BY <1>2 DEF IInv, TypeOK, Unit
  <2>2. ping \in Int /\ u.timestamp \in Int
    BY <2>1, BoundAssumption DEF Time
  <2>3. Max({ping, u.timestamp}) = IF ping >= u.timestamp THEN ping ELSE u.timestamp
    BY <2>2, MaxOfTwo
  <2>4. QED
    BY <1>1, <2>1, <2>2, <2>3, BoundAssumption DEF Time
<1>7. TypeOK'
  BY <1>1, <1>3, <1>4, <1>6 DEF IInv, TypeOK, IsMeter
<1>8. NoFalseAlarm'
  BY <1>1 DEF NoFalseAlarm
<1>9. FileIsLatest'
  <2>1. u # None
    BY <1>2, NoneAssumption
  <2>2. \A w \in signed \cup {u} : w.seq <= u.seq
    BY <1>5
  <2>3. QED
    BY <1>1, <2>1, <2>2 DEF FileIsLatest
<1>10. StateIsClosed'
  <2>1. Closed(seen, have)
    BY DEF IInv, StateIsClosed, Closed
  <2>2. PanoramaSync(u, seen', have)
    <3>1. u.seq > 0 => Latest # None
      BY <1>1, <1>5 DEF Signable
    <3>2. QED
      BY <1>1, <1>5, <3>1 DEF PanoramaSync
  <2>3. have \in SUBSET Unit
    BY <1>1, ActiveLatest
  <2>4. Closed(seen', have \cup {u})
    BY <1>1, <1>2, <2>1, <2>2, <2>3, ClosedWith
  <2>5. QED
    BY <1>1, <2>4 DEF Closed, StateIsClosed
<1>11. VotesWithEverything'
  <2>1. u # Truncated /\ None \notin have'
    BY <1>1, <1>2, ActiveLatest, NoneAssumption
  <2>2. QED
    BY <1>1, <1>3, <2>1 DEF VotesWithEverything
<1>12. KnowsItsPings'
  <2>1. pinged <= clock /\ pinged <= ping /\ pinged \in Nat
    BY <1>1, BoundAssumption DEF IInv, KnowsItsPings, TypeOK, Time
  <2>2. ping' \in Nat
    BY <1>6, BoundAssumption DEF Time
  <2>3. pinged <= ping'
    BY <1>6, <2>1, <2>2
  <2>4. QED
    BY <1>1, <2>1, <2>3 DEF KnowsItsPings
<1>13. ProposalFits'
  BY <1>1 DEF ProposalFits
<1>14. TimerIsAhead'
  <2>1. \A w \in signed \cup {u} : w.timestamp <= clock
    BY <1>2 DEF IInv, TimerIsAhead
  <2>2. ASSUME NEW w \in signed
        PROVE  \/ w.timestamp < nextTimer'
               \/ w.timestamp = RoundId(w.timestamp, w.roundExp) => w.timestamp \notin OwnRounds
    <3>1. w.timestamp \in Nat /\ nextTimer \in Nat
      BY <2>2, BoundAssumption DEF IInv, TypeOK, Unit, Time
    <3>2. \/ w.timestamp < nextTimer
          \/ w.timestamp = RoundId(w.timestamp, w.roundExp) => w.timestamp \notin OwnRounds
      BY <1>1, <2>2 DEF IInv, TimerIsAhead
    <3>3. w.timestamp < nextTimer => w.timestamp < nextTimer'
      BY <1>1, <3>1
    <3>4. QED
      BY <3>2, <3>3
  <2>3. QED
    BY <1>1, <2>1, <2>2 DEF TimerIsAhead
<1>15. QED
  BY <1>4, <1>7, <1>8, <1>9, <1>10, <1>11, <1>12, <1>13, <1>14 DEF IInv

\* A step that stops the node, possibly while it signs u.
StopStep(u) ==
    /\ mode = "active"
    /\ Stop
    /\ UNCHANGED clock
    /\ \/ UNCHANGED << unitFile, signed >>
       \/ unitFile' = Truncated /\ UNCHANGED signed
       \/ Signable(u) /\ unitFile' = u /\ signed' = signed \cup {u}

LEMMA StopStepOK ==
    ASSUME IInv, NEW u, StopStep(u)
    PROVE  IInv'
<1>1. /\ mode = "active" /\ mode' = "down" /\ clock' = clock
      /\ stops < MaxStops /\ stops' = stops + 1
      /\ seen' = {} /\ have' = {} /\ requests' = {} /\ nextProposal' = None
      /\ meter' = NewMeter(MinRoundExp, 0) /\ nextTimer' = 0
      /\ ownLastUnit' = None /\ ping' = 0
      /\ proposals' = proposals /\ peersHave' = peersHave /\ pinged' = pinged
  BY DEF StopStep, Stop, outside
<1>2. /\ signed \subseteq signed' /\ signed' \subseteq Unit
      /\ NoEquivocation' /\ CitesThePast' /\ TwoUnitsPerRound' /\ BlocksStartRounds'
      /\ unitFile' \in {None, Truncated} \cup signed'
      /\ FileIsLatest'
      /\ \A w \in signed' : w.timestamp <= clock
  <2>1. CASE Signable(u) /\ unitFile' = u /\ signed' = signed \cup {u}
    <3>1. signed' \subseteq Unit /\ NoEquivocation' /\ CitesThePast' /\ TwoUnitsPerRound' /\ BlocksStartRounds'
      BY <1>1, <2>1, SignedOK
    <3>2. u.timestamp <= clock /\ u # None
      BY <2>1, NoneAssumption DEF Signable
    <3>3. u.seq \in Nat /\ \A w \in signed : w.seq \in Nat /\ w.seq < u.seq
      BY <1>1, <2>1, NewNumber
    <3>4. \A w \in signed \cup {u} : w.seq <= u.seq
      BY <3>3
    <3>5. FileIsLatest'
      BY <2>1, <3>2, <3>4 DEF FileIsLatest
    <3>6. QED
      BY <2>1, <3>1, <3>2, <3>5 DEF IInv, TimerIsAhead
  <2>2. CASE UNCHANGED << unitFile, signed >>
    BY <2>2 DEF IInv, TypeOK, NoEquivocation, CitesThePast, TwoUnitsPerRound, BlocksStartRounds, FileIsLatest,
                TimerIsAhead
  <2>3. CASE unitFile' = Truncated /\ UNCHANGED signed
    <3>1. FileIsLatest'
      <4>1. Truncated # None /\ Truncated \notin signed
        BY NoneAssumption DEF IInv, TypeOK
      <4>2. QED
        BY <2>3, <4>1 DEF FileIsLatest
    <3>2. QED
      BY <2>3, <3>1 DEF IInv, TypeOK, NoEquivocation, CitesThePast, TwoUnitsPerRound, BlocksStartRounds, TimerIsAhead
  <2>4. QED
    BY <2>1, <2>2, <2>3 DEF StopStep
<1>3. IsMeter(meter') /\ stops' \in 0 .. MaxStops /\ ping' \in Time
  <2>1. MinRoundExp \in RoundExps
    BY ExpRange
  <2>2. IsMeter(meter')
    BY <1>1, <2>1, NewMeterOK
  <2>3. stops' \in 0 .. MaxStops /\ ping' \in Time
    BY <1>1, BoundAssumption DEF IInv, TypeOK, Time
  <2>4. QED
    BY <2>2, <2>3
<1>4. TypeOK'
  BY <1>1, <1>2, <1>3 DEF IInv, TypeOK, IsMeter
<1>5. NoFalseAlarm' /\ StateIsClosed' /\ VotesWithEverything' /\ ProposalFits'
  BY <1>1 DEF NoFalseAlarm, StateIsClosed, VotesWithEverything, ProposalFits
<1>6. KnowsItsPings' /\ TimerIsAhead'
  BY <1>1, <1>2 DEF IInv, KnowsItsPings, TimerIsAhead
<1>7. QED
  BY <1>2, <1>4, <1>5, <1>6 DEF IInv

\* A step that adds units of this or of other validators, H to the units of ours
\* and S to the proposals.
AddStep(S, H) ==
    /\ mode = "active"
    /\ AddUnits(S, H)
    /\ seen \subseteq S /\ S \subseteq proposals
    /\ have \subseteq H /\ H \subseteq signed
    /\ Closed(S, H)
    /\ IsMeter(meter')
    /\ UNCHANGED << clock, mode, nextTimer, nextProposal, requests, outside,
                    unitFile, signed, stops >>

LEMMA AddStepOK ==
    ASSUME IInv, NEW S, NEW H, AddStep(S, H)
    PROVE  IInv'
<1>1. /\ mode = "active" /\ mode' = mode
      /\ seen \subseteq S /\ S \subseteq proposals
      /\ have \subseteq H /\ H \subseteq signed
      /\ Closed(S, H) /\ IsMeter(meter')
      /\ clock' = clock /\ nextTimer' = nextTimer /\ nextProposal' = nextProposal
      /\ requests' = requests /\ unitFile' = unitFile /\ signed' = signed /\ stops' = stops
      /\ proposals' = proposals /\ peersHave' = peersHave /\ pinged' = pinged
      /\ seen' = S
  BY DEF AddStep, AddUnits, outside
<1>2. /\ ping' = Max({ping} \cup {u.timestamp : u \in have'})
      /\ \/ /\ ownLastUnit # None /\ PanoramaSync(ownLastUnit, S, H)
            /\ have' = H \cup {ownLastUnit} /\ ownLastUnit' = None
         \/ /\ ownLastUnit # None => ~ PanoramaSync(ownLastUnit, S, H)
            /\ have' = H /\ ownLastUnit' = ownLastUnit
  <2>1. CASE ownLastUnit # None /\ PanoramaSync(ownLastUnit, S, H)
    BY <2>1 DEF AddStep, AddUnits
  <2>2. CASE ~ (ownLastUnit # None /\ PanoramaSync(ownLastUnit, S, H))
    BY <2>2 DEF AddStep, AddUnits
  <2>3. QED
    BY <2>1, <2>2
<1>3. /\ signed \subseteq Unit /\ None \notin signed /\ H \in SUBSET Unit
      /\ ownLastUnit \in {None} \cup signed
  BY <1>1, NoneAssumption DEF IInv, TypeOK
<1>4. /\ have' \subseteq signed /\ H \subseteq have' /\ Closed(S, have')
      /\ ownLastUnit' \in {None} \cup signed
  <2>1. CASE /\ ownLastUnit # None /\ PanoramaSync(ownLastUnit, S, H)
             /\ have' = H \cup {ownLastUnit} /\ ownLastUnit' = None
    <3>1. ownLastUnit \in signed /\ ownLastUnit \in Unit
      BY <1>3, <2>1
    <3>2. Closed(S, H \cup {ownLastUnit})
      BY <1>1, <1>3, <2>1, <3>1, ClosedWith
    <3>3. QED
      BY <1>1, <2>1, <3>1, <3>2
  <2>2. CASE have' = H /\ ownLastUnit' = ownLastUnit
    BY <1>1, <1>3, <2>2
  <2>3. QED
    BY <1>2, <2>1, <2>2
<1>5. ping' \in Time /\ ping <= ping' /\ ping' \in Nat
  <2> DEFINE T == {ping} \cup {u.timestamp : u \in have'}
  <2>1. T \in SUBSET (0 .. MaxTime) /\ ping \in T
    BY <1>3, <1>4 DEF IInv, TypeOK, Unit, Time
  <2>2. MaxTime \in Nat
    BY BoundAssumption
  <2>3. Max(T) \in T /\ \A y \in T : Max(T) >= y
    <3> HIDE DEF T
    <3>1. T # {}
      BY <2>1
    <3>2. QED
      BY <2>1, <2>2, <3>1, GreatestElement
  <2>4. ping' = Max(T)
    BY <1>2
  <2> HIDE DEF T
  <2>5. ping' \in T /\ ping' >= ping
    BY <2>1, <2>3, <2>4
  <2>6. ping' \in 0 .. MaxTime /\ ping \in 0 .. MaxTime
    BY <2>1, <2>5
  <2>7. QED
    BY <2>2, <2>5, <2>6 DEF Time
<1>6. TypeOK'
  <2>1. have \subseteq have'
    BY <1>1, <1>4
  <2>2. nextProposal # None =>
           /\ nextProposal.timestamp \in requests
           /\ nextProposal.own \in {None} \cup have'
           /\ nextProposal.sees \subseteq S /\ nextProposal.exp \in RoundExps
    BY <1>1, <2>1 DEF IInv, TypeOK
  <2>3. QED
    BY <1>1, <1>4, <1>5, <2>2 DEF IInv, TypeOK, IsMeter
<1>7. NoEquivocation' /\ NoFalseAlarm' /\ CitesThePast' /\ TwoUnitsPerRound' /\ BlocksStartRounds' /\ FileIsLatest'
  BY <1>1 DEF IInv, NoEquivocation, NoFalseAlarm, CitesThePast, TwoUnitsPerRound, BlocksStartRounds, FileIsLatest
<1>8. StateIsClosed'
  BY <1>1, <1>4 DEF StateIsClosed, Closed
<1>9. VotesWithEverything'
  <2>1. unitFile # Truncated /\ ownLastUnit \in {None, unitFile}
        /\ ownLastUnit \notin have /\ (ownLastUnit = None => signed \subseteq have)
    BY <1>1 DEF IInv, VotesWithEverything
  <2>2. CASE /\ ownLastUnit # None /\ PanoramaSync(ownLastUnit, S, H)
             /\ have' = H \cup {ownLastUnit} /\ ownLastUnit' = None
    <3>1. unitFile \in signed /\ unitFile \in have'
      BY <1>3, <2>1, <2>2
    <3>2. \A w \in signed : w.seq <= unitFile.seq
      BY <3>1 DEF IInv, FileIsLatest
    <3>3. ASSUME NEW w \in signed PROVE w \in have'
      <4>1. w.seq \in 0 .. unitFile.seq
        BY <1>3, <3>1, <3>2 DEF Unit
      <4>2. PICK x \in have' : x.seq = w.seq
        BY <1>4, <3>1, <4>1 DEF Closed
      <4>3. x = w
        BY <1>4, <4>2 DEF IInv, NoEquivocation
      <4>4. QED
        BY <4>2, <4>3
    <3>4. None \notin have'
      BY <1>3, <1>4
    <3>5. QED
      BY <1>1, <2>1, <2>2, <3>3, <3>4 DEF VotesWithEverything
  <2>3. CASE /\ ownLastUnit # None => ~ PanoramaSync(ownLastUnit, S, H)
             /\ have' = H /\ ownLastUnit' = ownLastUnit
    <3>1. ownLastUnit = None => signed \subseteq have'
      BY <1>1, <2>1, <2>3
    <3>2. ownLastUnit \notin H
      <4>1. SUFFICES ASSUME ownLastUnit \in H PROVE FALSE
        OBVIOUS
      <4>2. ownLastUnit \in Unit /\ ownLastUnit # None /\ ownLastUnit.seq \in Nat
        BY <1>1, <1>3, <4>1 DEF Unit
      <4>3. ownLastUnit.sees \subseteq S
        BY <1>1, <4>1 DEF Closed
      <4>4. ownLastUnit.seq > 0 => \E w \in H : w.seq = ownLastUnit.seq - 1
        <5>1. ownLastUnit.seq > 0 => ownLastUnit.seq - 1 \in 0 .. ownLastUnit.seq
          BY <4>2
        <5>2. QED
          BY <1>1, <4>1, <5>1 DEF Closed
      <4>5. QED
        BY <2>3, <4>2, <4>3, <4>4 DEF PanoramaSync
    <3>3. QED
      BY <1>1, <2>1, <2>3, <3>1, <3>2 DEF VotesWithEverything
  <2>4. QED
    BY <1>2, <2>2, <2>3
<1>10. KnowsItsPings'
  <2>1. pinged <= clock /\ pinged <= ping /\ pinged \in Nat /\ ping \in Nat
    BY <1>1, BoundAssumption DEF IInv, KnowsItsPings, TypeOK, Time
  <2>2. pinged <= ping'
    BY <1>5, <2>1
  <2>3. QED
    BY <1>1, <2>1, <2>2 DEF KnowsItsPings
<1>11. ProposalFits' /\ TimerIsAhead'
  BY <1>1 DEF IInv, ProposalFits, TimerIsAhead
<1>12. QED
  BY <1>6, <1>7, <1>8, <1>9, <1>10, <1>11 DEF IInv

\* A timer that fires is followed by a later one.
LEMMA TimerMoves ==
    ASSUME IInv, TimerFires
    PROVE  /\ mode = "active" /\ nextTimer <= clock
           /\ nextTimer \in Nat /\ nextTimer' \in Nat /\ nextTimer < nextTimer'
<1>1. mode = "active" /\ nextTimer <= clock /\ nextTimer' = TimerAfter(have, NewExponent(meter), nextTimer)
  BY DEF TimerFires
<1>2. LatestOf(have) \in {None} \cup Unit
  BY <1>1, ActiveLatest DEF Latest
<1>3. nextTimer \in Nat /\ NewExponent(meter) \in RoundExps
  BY NewExponentOK DEF IInv, TypeOK
<1>4. QED
  BY <1>1, <1>2, <1>3, TimerAfterOK

\* The meter stays one whatever is measured.
LEMMA MeasureOK ==
    ASSUME IInv, NEW ok \in BOOLEAN, Measure(ok)
    PROVE  IsMeter(meter') /\ NewExponent(meter') \in RoundExps
<1>1. IsMeter(meter) /\ clock \in Nat
  BY BoundAssumption DEF IInv, TypeOK, IsMeter, Time
<1>2. QED
  BY <1>1, MeasuredOK DEF Measure

LEMMA WitnessUnitOK ==
    ASSUME IInv, NEW ok \in BOOLEAN, WitnessUnit(ok)
    PROVE  IInv'
<1>1. /\ mode = "active" /\ nextTimer <= clock
      /\ nextTimer \in Nat /\ nextTimer' \in Nat /\ nextTimer < nextTimer'
  BY TimerMoves DEF WitnessUnit
<1>2. TimerSigns /\ Sign(TimerUnit) /\ clock' = clock /\ seen' = seen /\ requests' = requests
  BY DEF WitnessUnit
<1>3. IsMeter(meter')
  BY MeasureOK DEF WitnessUnit
<1>4. Signable(TimerUnit)
  BY <1>1, <1>2, TimerUnitOK
<1>5. TimerUnit.timestamp = nextTimer /\ TimerUnit.sees = PanoramaAt(nextTimer)
  BY DEF TimerUnit, NewVote, NewUnit
<1>6. TimerUnit.sees \subseteq seen
  BY <1>1, <1>5, PanoramaOK
<1>7. seen \subseteq proposals /\ requests \subseteq OwnRounds
  BY DEF IInv, TypeOK
<1>8. nextTimer <= nextTimer'
  BY <1>1
<1>9. SignStep(TimerUnit)
  BY <1>1, <1>2, <1>3, <1>4, <1>5, <1>6, <1>7, <1>8 DEF SignStep
<1>10. QED
  BY <1>9, SignStepOK

LEMMA ProposeOK ==
    ASSUME IInv, NEW t, NEW ok \in BOOLEAN, Propose(t, ok)
    PROVE  IInv'
<1>1. /\ mode = "active" /\ t \in requests /\ requests' = requests \ {t}
      /\ clock' = clock /\ seen' = seen /\ nextTimer' = nextTimer
  BY DEF Propose
<1>2. CASE Proposes(t)
  <2> DEFINE u == ProposalOf(nextProposal)
  <2>1. Sign(u) /\ Measure(ok)
    BY <1>2 DEF Propose
  <2>2. Signable(u)
    BY <1>1, <1>2, ProposalOK
  <2>3. IsMeter(meter')
    BY <2>1, MeasureOK
  <2>4. nextProposal # None /\ u.timestamp = nextProposal.timestamp /\ u.sees = nextProposal.sees
    BY <1>2 DEF Proposes, ProposalOf, NewUnit
  <2>5. u.timestamp < nextTimer' /\ u.sees \subseteq seen'
    BY <1>1, <2>4 DEF IInv, ProposalFits, TypeOK
  <2>6. /\ seen' \subseteq proposals /\ requests' \subseteq OwnRounds
        /\ nextTimer' \in Nat /\ nextTimer <= nextTimer'
    BY <1>1 DEF IInv, TypeOK
  <2> HIDE DEF u
  <2>7. SignStep(u)
    BY <1>1, <2>1, <2>2, <2>3, <2>5, <2>6 DEF SignStep
  <2>8. QED
    BY <2>7, SignStepOK
<1>3. CASE ~ Proposes(t)
  <2>1. /\ nextProposal' = None
        /\ mode' = mode /\ have' = have /\ meter' = meter /\ ownLastUnit' = ownLastUnit
        /\ ping' = ping /\ unitFile' = unitFile /\ signed' = signed /\ stops' = stops
        /\ proposals' = proposals /\ peersHave' = peersHave /\ pinged' = pinged
    BY <1>3 DEF Propose, outside
  <2>2. TypeOK'
    BY <1>1, <2>1 DEF IInv, TypeOK
  <2>3. NoEquivocation' /\ NoFalseAlarm' /\ CitesThePast' /\ TwoUnitsPerRound' /\ BlocksStartRounds' /\ FileIsLatest'
    BY <1>1, <2>1 DEF IInv, NoEquivocation, NoFalseAlarm, CitesThePast, TwoUnitsPerRound, BlocksStartRounds, FileIsLatest
  <2>4. StateIsClosed' /\ VotesWithEverything' /\ KnowsItsPings' /\ ProposalFits' /\ TimerIsAhead'
    BY <1>1, <2>1 DEF IInv, StateIsClosed, VotesWithEverything, KnowsItsPings, ProposalFits, TimerIsAhead
  <2>5. QED
    BY <2>2, <2>3, <2>4 DEF IInv
<1>4. QED
  BY <1>2, <1>3

LEMMA AddProposalOK ==
    ASSUME IInv, NEW p, NEW ok \in BOOLEAN, AddProposal(p, ok)
    PROVE  IInv'
<1>1. /\ mode = "active" /\ p \in proposals \ seen /\ Measure(ok)
      /\ clock' = clock /\ nextTimer' = nextTimer /\ requests' = requests
  BY DEF AddProposal
<1>2. IsMeter(meter') /\ NewExponent(meter') \in RoundExps
  BY <1>1, MeasureOK
<1>3. /\ seen \subseteq proposals /\ proposals \subseteq PeerRounds /\ requests \subseteq OwnRounds
      /\ nextTimer \in Nat /\ clock \in Nat /\ have \subseteq signed /\ signed \subseteq Unit
  BY BoundAssumption DEF IInv, TypeOK, Time
<1>4. CASE Confirms(p, NewExponent(meter'))
  <2> DEFINE exp == NewExponent(meter')
             u == Confirmation(p, exp)
  <2>1. Sign(u) /\ seen' = seen \cup {p}
    BY <1>4 DEF AddProposal
  <2>2. Signable(u)
    BY <1>1, <1>2, <1>4, ConfirmationOK
  <2>3. /\ u.timestamp = clock /\ u.roundExp = RoundExp(have, exp, clock)
        /\ u.sees = {p} \cup (IF Latest = None THEN {} ELSE Latest.sees)
    BY DEF Confirmation, NewVote, NewUnit
  <2>4. u.sees \subseteq seen'
    <3>1. Latest # None => Latest.sees \subseteq seen
      BY <1>1, ActiveLatest DEF IInv, StateIsClosed
    <3>2. QED
      BY <2>1, <2>3, <3>1
  <2>5. u.timestamp = RoundId(u.timestamp, u.roundExp) => u.timestamp \notin OwnRounds
    <3>1. RoundId(u.timestamp, u.roundExp) = p
      BY <1>4, <2>3 DEF Confirms
    <3>2. p \in PeerRounds
      BY <1>1, <1>3
    <3>3. QED
      BY <3>1, <3>2, RoundAssumption
  <2>6. /\ nextTimer' \in Nat /\ nextTimer <= nextTimer' /\ requests' \subseteq OwnRounds
        /\ seen \subseteq seen' /\ seen' \subseteq proposals
    BY <1>1, <1>3, <2>1
  <2> HIDE DEF u, exp
  <2>7. SignStep(u)
    BY <1>1, <1>2, <2>1, <2>2, <2>4, <2>5, <2>6 DEF SignStep
  <2>8. QED
    BY <2>7, SignStepOK
<1>5. CASE ~ Confirms(p, NewExponent(meter'))
  <2>1. /\ AddUnits(seen \cup {p}, have)
        /\ UNCHANGED << mode, nextProposal, outside, unitFile, signed, stops >>
    BY <1>5 DEF AddProposal
  <2>2. Closed(seen \cup {p}, have)
    BY DEF IInv, StateIsClosed, Closed
  <2>3. AddStep(seen \cup {p}, have)
    BY <1>1, <1>2, <1>3, <2>1, <2>2 DEF AddStep
  <2>4. QED
    BY <2>3, AddStepOK
<1>6. QED
  BY <1>4, <1>5

LEMMA AddOtherUnitOK ==
    ASSUME IInv, NEW ok \in BOOLEAN, AddOtherUnit(ok)
    PROVE  IInv'
<1>1. IsMeter(meter')
  BY MeasureOK DEF AddOtherUnit
<1>2. Closed(seen, have)
  BY DEF IInv, StateIsClosed, Closed
<1>3. seen \subseteq proposals /\ have \subseteq signed
  BY DEF IInv, TypeOK
<1>4. AddStep(seen, have)
  BY <1>1, <1>2, <1>3 DEF AddOtherUnit, AddStep
<1>5. QED
  BY <1>4, AddStepOK

\* A unit of ours that comes back is no alarm: a validator that may vote has it.
LEMMA ReceiveOwnUnitOK ==
    ASSUME IInv, NEW u, NEW ok \in BOOLEAN, ReceiveOwnUnit(u, ok)
    PROVE  IInv'
<1>1. /\ mode = "active" /\ u \in peersHave \ have /\ PanoramaSync(u, seen, have)
      /\ AddUnits(seen, have \cup {u})
      /\ UNCHANGED << clock, nextTimer, nextProposal, requests, outside, unitFile, signed, stops >>
  BY DEF ReceiveOwnUnit
<1>2. IsMeter(meter')
  BY MeasureOK DEF ReceiveOwnUnit
<1>3. /\ seen \subseteq proposals /\ have \subseteq signed /\ u \in signed
      /\ u \in Unit /\ have \in SUBSET Unit
  BY <1>1 DEF IInv, TypeOK
<1>4. ~ IsDoppelganger(u)
  <2>1. CanVote => signed = have
    BY <1>1, VotesKnowingly
  <2>2. QED
    BY <1>1, <1>3, <2>1 DEF IsDoppelganger
<1>5. mode' = mode
  BY <1>4 DEF ReceiveOwnUnit
<1>6. Closed(seen, have \cup {u})
  <2>1. Closed(seen, have)
    BY DEF IInv, StateIsClosed, Closed
  <2>2. QED
    BY <1>1, <1>3, <2>1, ClosedWith
<1>7. AddStep(seen, have \cup {u})
  BY <1>1, <1>2, <1>3, <1>5, <1>6 DEF AddStep
<1>8. QED
  BY <1>7, AddStepOK

LEMMA StopNodeOK ==
    ASSUME IInv, StopNode
    PROVE  IInv'
<1>1. mode = "active" /\ clock' = clock
  BY DEF StopNode
<1>2. CASE Stop /\ UNCHANGED << unitFile, signed >>
  <2>1. StopStep(None)
    BY <1>1, <1>2 DEF StopStep
  <2>2. QED
    BY <2>1, StopStepOK
<1>3. CASE nextTimer <= clock /\ TimerSigns /\ StopWhileSigning(TimerUnit)
  <2>1. Signable(TimerUnit)
    BY <1>1, <1>3, TimerUnitOK
  <2>2. StopStep(TimerUnit)
    BY <1>1, <1>3, <2>1 DEF StopStep, StopWhileSigning
  <2>3. QED
    BY <2>2, StopStepOK
<1>4. CASE \E t \in requests : Proposes(t) /\ StopWhileSigning(ProposalOf(nextProposal))
  <2>1. Signable(ProposalOf(nextProposal))
    BY <1>1, <1>4, ProposalOK
  <2>2. StopStep(ProposalOf(nextProposal))
    BY <1>1, <1>4, <2>1 DEF StopStep, StopWhileSigning
  <2>3. QED
    BY <2>2, StopStepOK
<1>5. CASE \E p \in proposals \ seen, ok \in BOOLEAN :
               Confirms(p, NewExponent(Measured(meter, clock, ok)))
               /\ StopWhileSigning(Confirmation(p, NewExponent(Measured(meter, clock, ok))))
  <2>1. PICK p \in proposals \ seen, ok \in BOOLEAN :
             Confirms(p, NewExponent(Measured(meter, clock, ok)))
             /\ StopWhileSigning(Confirmation(p, NewExponent(Measured(meter, clock, ok))))
    BY <1>5
  <2> DEFINE exp == NewExponent(Measured(meter, clock, ok))
  <2>2. exp \in RoundExps
    <3>1. IsMeter(meter) /\ clock \in Nat
      BY BoundAssumption DEF IInv, TypeOK, IsMeter, Time
    <3>2. QED
      BY <3>1, MeasuredOK
  <2>3. Confirms(p, exp) /\ StopWhileSigning(Confirmation(p, exp))
    BY <2>1
  <2> HIDE DEF exp
  <2>4. Signable(Confirmation(p, exp))
    BY <1>1, <2>2, <2>3, ConfirmationOK
  <2>5. StopStep(Confirmation(p, exp))
    BY <1>1, <2>3, <2>4 DEF StopStep, StopWhileSigning
  <2>6. QED
    BY <2>5, StopStepOK
<1>6. QED
  BY <1>2, <1>3, <1>4, <1>5 DEF StopNode

\* The timer stays ahead of the units when it is put off.
LEMMA StaysAhead ==
    ASSUME IInv, mode = "active", nextTimer' \in Nat, nextTimer <= nextTimer',
           clock' = clock, signed' = signed
    PROVE  TimerIsAhead'
<1>1. ASSUME NEW w \in signed
      PROVE  \/ w.timestamp < nextTimer'
             \/ w.timestamp = RoundId(w.timestamp, w.roundExp) => w.timestamp \notin OwnRounds
  <2>1. w.timestamp \in Nat /\ nextTimer \in Nat
    BY <1>1, BoundAssumption DEF IInv, TypeOK, Unit, Time
  <2>2. \/ w.timestamp < nextTimer
        \/ w.timestamp = RoundId(w.timestamp, w.roundExp) => w.timestamp \notin OwnRounds
    BY <1>1 DEF IInv, TimerIsAhead
  <2>3. w.timestamp < nextTimer => w.timestamp < nextTimer'
    BY <2>1
  <2>4. QED
    BY <2>2, <2>3
<1>2. QED
  BY <1>1 DEF IInv, TimerIsAhead

\* A ping is not later than the clock.
LEMMA PingOK ==
    ASSUME IInv, NEW t \in Nat, t <= clock, SendPing(t)
    PROVE  /\ ping' \in Time /\ pinged' \in Time
           /\ pinged' <= clock
           /\ pinged <= ping \/ pinged <= t => pinged' <= ping'
<1>1. ping \in Time /\ pinged \in Time /\ clock \in Time /\ pinged <= clock
  BY DEF IInv, TypeOK, KnowsItsPings
<1>2. ping \in Int /\ pinged \in Int /\ t \in Int
  BY <1>1 DEF Time
<1>3. /\ Max({ping, t}) = IF ping >= t THEN ping ELSE t
      /\ Max({pinged, t}) = IF pinged >= t THEN pinged ELSE t
  BY <1>2, MaxOfTwo
<1>4. /\ ping' = IF ping >= t THEN ping ELSE t
      /\ pinged' = IF pinged >= t THEN pinged ELSE t
  BY <1>3 DEF SendPing
<1>5. QED
  BY <1>1, <1>4, BoundAssumption DEF Time

LEMMA ActivateOK ==
    ASSUME IInv, Activate
    PROVE  IInv'
<1>1. /\ mode = "down" /\ clock' = clock /\ unitFile' = unitFile /\ signed' = signed
      /\ stops' = stops
  BY DEF Activate
<1>2. NoEquivocation' /\ CitesThePast' /\ TwoUnitsPerRound' /\ BlocksStartRounds' /\ FileIsLatest'
  BY <1>1 DEF IInv, NoEquivocation, CitesThePast, TwoUnitsPerRound, BlocksStartRounds, FileIsLatest
<1>3. CASE unitFile = Truncated
  <2>1. /\ mode' = "stopped" /\ UNCHANGED << memory, outside >>
    BY <1>3 DEF Activate
  <2>2. TypeOK'
    BY <1>1, <2>1 DEF IInv, TypeOK, memory, outside
  <2>3. /\ NoFalseAlarm' /\ StateIsClosed' /\ VotesWithEverything' /\ KnowsItsPings'
        /\ ProposalFits' /\ TimerIsAhead'
    BY <1>1, <2>1 DEF IInv, NoFalseAlarm, StateIsClosed, VotesWithEverything, KnowsItsPings,
                      ProposalFits, TimerIsAhead, memory, outside
  <2>4. QED
    BY <1>2, <2>2, <2>3 DEF IInv
<1>4. CASE unitFile # Truncated
  <2>1. /\ mode' = "active" /\ ownLastUnit' = unitFile
        /\ meter' \in NextEra(clock) \cup {NewMeter(MinRoundExp, clock)}
        /\ nextTimer' = TimerAfter({}, NewExponent(meter'), clock)
        /\ SendPing(clock)
        /\ seen' = seen /\ have' = have /\ nextProposal' = nextProposal /\ requests' = requests
        /\ proposals' = proposals /\ peersHave' = peersHave
    BY <1>4 DEF Activate
  <2>2. clock \in Nat /\ clock \in Time /\ pinged <= clock /\ clock <= clock
    BY BoundAssumption DEF IInv, TypeOK, KnowsItsPings, Time
  <2>3. have = {} /\ nextProposal = None
    BY <1>1 DEF IInv, VotesWithEverything
  <2>4. ping' \in Time /\ pinged' \in Time /\ pinged' <= clock /\ pinged' <= ping'
    BY <2>1, <2>2, PingOK
  <2>5. IsMeter(meter') /\ nextTimer' \in Nat /\ nextTimer' > clock
    <3>1. IsMeter(meter') /\ NewExponent(meter') \in RoundExps
      <4>1. MinRoundExp \in RoundExps
        BY ExpRange
      <4>2. IsMeter(meter')
        BY <2>1, <2>2, <4>1, NewMeterOK, NextEraOK
      <4>3. QED
        BY <4>2, NewExponentOK DEF IsMeter
    <3>2. LatestOf({}) \in {None} \cup Unit
      BY DEF LatestOf
    <3>3. QED
      BY <2>1, <2>2, <3>1, <3>2, TimerAfterOK
  <2>6. TypeOK'
    <3>1. unitFile \in {None} \cup signed
      BY <1>4 DEF IInv, TypeOK
    <3>2. QED
      BY <1>1, <2>1, <2>3, <2>4, <2>5, <3>1 DEF IInv, TypeOK, IsMeter
  <2>7. VotesWithEverything'
    <3>1. unitFile = None => signed = {}
      BY DEF IInv, FileIsLatest
    <3>2. QED
      BY <1>1, <1>4, <2>1, <2>3, <3>1 DEF VotesWithEverything
  <2>8. TimerIsAhead'
    <3>1. \A u \in signed : u.timestamp \in Nat /\ u.timestamp <= clock
      BY BoundAssumption DEF IInv, TypeOK, TimerIsAhead, Unit, Time
    <3>2. \A u \in signed : u.timestamp < nextTimer'
      BY <2>2, <2>5, <3>1
    <3>3. QED
      BY <1>1, <3>1, <3>2 DEF TimerIsAhead
  <2>9. NoFalseAlarm' /\ StateIsClosed' /\ KnowsItsPings' /\ ProposalFits'
    BY <1>1, <2>1, <2>3, <2>4 DEF NoFalseAlarm, StateIsClosed, KnowsItsPings, ProposalFits
  <2>10. QED
    BY <1>2, <2>6, <2>7, <2>8, <2>9 DEF IInv
<1>5. QED
  BY <1>3, <1>4

\* request_new_block: the latest unit is from before the round of the block.
LEMMA RequestOK ==
    ASSUME IInv, RequestNewBlock, Latest # None
    PROVE  Latest.timestamp < RoundId(nextTimer, Latest.roundExp)
<1> DEFINE t == nextTimer
           e == RoundExp(have, NewExponent(meter), t)
           f == Latest.roundExp
           m == Max({NewExponent(meter), f})
<1>1. mode = "active" /\ nextTimer \in Nat /\ ~ TimerOutdated /\ LeaderTimer
  BY TimerMoves DEF RequestNewBlock
<1>2. Latest \in signed /\ Latest \in Unit /\ Latest.timestamp \in Nat /\ f \in RoundExps
  BY <1>1, ActiveLatest, BoundAssumption DEF IInv, TypeOK, Unit, Time
<1>3. NewExponent(meter) \in RoundExps
  BY NewExponentOK DEF IInv, TypeOK
<1>4. t = RoundId(t, e) /\ t \in OwnRounds
  BY <1>1 DEF LeaderTimer, TimerRound
<1>5. Latest.timestamp <= t
  <2>1. EarliestUnitTime \in Nat /\ Latest.timestamp <= EarliestUnitTime
    BY <1>1, EarliestOK
  <2>2. EarliestUnitTime <= t
    BY <1>1, <2>1 DEF TimerOutdated
  <2>3. QED
    BY <1>1, <1>2, <2>1, <2>2
<1>6. CASE Latest.timestamp < RoundId(t, m)
  <2>0. \A x \in RoundExps : x \in Int
    BY ExpRange
  <2>1. NewExponent(meter) \in Int /\ f \in Int
    BY <1>2, <1>3, <2>0
  <2>2. m = IF NewExponent(meter) >= f THEN NewExponent(meter) ELSE f
    BY <2>1, MaxOfTwo
  <2>3. m \in RoundExps /\ f <= m
    BY <1>2, <1>3, <2>1, <2>2
  <2> HIDE DEF m
  <2>4. RoundId(t, m) <= RoundId(t, f) /\ RoundId(t, m) \in Nat /\ RoundId(t, f) \in Nat
    BY <1>1, <1>2, <2>3, LongerRound, RoundBounds
  <2>5. QED
    BY <1>2, <1>6, <2>4
<1>7. CASE ~ (Latest.timestamp < RoundId(t, m))
  <2>1. e = f
    BY <1>7 DEF RoundExp, Latest
  <2>2. Latest.timestamp # t
    <3>1. \/ Latest.timestamp < t
          \/ Latest.timestamp = RoundId(Latest.timestamp, f) => Latest.timestamp \notin OwnRounds
      BY <1>1, <1>2 DEF IInv, TimerIsAhead
    <3>2. QED
      BY <1>1, <1>4, <2>1, <3>1
  <2>3. Latest.timestamp < t
    BY <1>1, <1>2, <1>5, <2>2
  <2>4. QED
    BY <1>4, <2>1, <2>3
<1>8. QED
  BY <1>6, <1>7

LEMMA RequestNewBlockOK ==
    ASSUME IInv, RequestNewBlock
    PROVE  IInv'
<1> DEFINE sees == PanoramaAt(nextTimer)
           exp == RoundExp(have, NewExponent(meter), nextTimer)
<1>1. /\ mode = "active" /\ nextTimer <= clock
      /\ nextTimer \in Nat /\ nextTimer' \in Nat /\ nextTimer < nextTimer'
  BY TimerMoves DEF RequestNewBlock
<1>2. /\ nextProposal' = [timestamp |-> nextTimer, own |-> Latest, sees |-> sees, exp |-> exp]
      /\ nextTimer = RoundId(nextTimer, exp)
      /\ requests' = requests \cup {nextTimer} /\ nextTimer \in OwnRounds
      /\ clock' = clock /\ mode' = mode /\ seen' = seen /\ have' = have /\ meter' = meter
      /\ ownLastUnit' = ownLastUnit /\ ping' = ping /\ unitFile' = unitFile
      /\ signed' = signed /\ stops' = stops
      /\ proposals' = proposals /\ peersHave' = peersHave /\ pinged' = pinged
  BY DEF RequestNewBlock, LeaderTimer, TimerRound, outside
<1>3. /\ nextProposal'.timestamp = nextTimer /\ nextProposal'.own = Latest
      /\ nextProposal'.sees = sees /\ nextProposal'.exp = exp
  BY <1>2
<1>4. /\ Latest \in {None} \cup have /\ sees \subseteq seen
      /\ Latest # None => Latest.sees \subseteq sees
  BY <1>1, ActiveLatest, PanoramaOK
<1>5. Latest # None => Latest.timestamp < RoundId(nextTimer, Latest.roundExp)
  BY RequestOK
<1>0. exp \in RoundExps
  <2>1. NewExponent(meter) \in RoundExps
    BY NewExponentOK DEF IInv, TypeOK
  <2>2. QED
    BY <1>1, <2>1, ActiveLatest, RoundExpOK DEF Latest
<1> HIDE DEF sees, exp
<1>6. TypeOK'
  <2>1. requests' \subseteq OwnRounds /\ nextTimer \in requests'
    BY <1>2 DEF IInv, TypeOK
  <2>2. /\ nextProposal'.timestamp \in requests'
        /\ nextProposal'.own \in {None} \cup have'
        /\ nextProposal'.sees \subseteq seen' /\ nextProposal'.exp \in RoundExps
    BY <1>0, <1>2, <1>3, <1>4, <2>1
  <2>3. QED
    BY <1>1, <1>2, <2>1, <2>2 DEF IInv, TypeOK
<1>7. NoEquivocation' /\ NoFalseAlarm' /\ CitesThePast' /\ TwoUnitsPerRound' /\ BlocksStartRounds' /\ FileIsLatest'
  BY <1>2 DEF IInv, NoEquivocation, NoFalseAlarm, CitesThePast, TwoUnitsPerRound, BlocksStartRounds, FileIsLatest
<1>8. StateIsClosed' /\ VotesWithEverything' /\ KnowsItsPings'
  BY <1>1, <1>2 DEF IInv, StateIsClosed, VotesWithEverything, KnowsItsPings
<1>9. ProposalFits'
  BY <1>1, <1>2, <1>3, <1>4, <1>5 DEF ProposalFits
<1>10. TimerIsAhead'
  BY <1>1, <1>2, StaysAhead
<1>11. QED
  BY <1>6, <1>7, <1>8, <1>9, <1>10 DEF IInv

LEMMA LeaderGivesUpOK ==
    ASSUME IInv, LeaderGivesUp
    PROVE  IInv'
<1>1. /\ mode = "active" /\ nextTimer <= clock
      /\ nextTimer \in Nat /\ nextTimer' \in Nat /\ nextTimer < nextTimer'
  BY TimerMoves DEF LeaderGivesUp
<1>2. /\ nextProposal' = None
      /\ clock' = clock /\ mode' = mode /\ seen' = seen /\ have' = have /\ meter' = meter
      /\ ownLastUnit' = ownLastUnit /\ requests' = requests /\ ping' = ping
      /\ unitFile' = unitFile /\ signed' = signed /\ stops' = stops
      /\ proposals' = proposals /\ peersHave' = peersHave /\ pinged' = pinged
  BY DEF LeaderGivesUp, outside
<1>3. TypeOK'
  BY <1>1, <1>2 DEF IInv, TypeOK
<1>4. NoEquivocation' /\ NoFalseAlarm' /\ CitesThePast' /\ TwoUnitsPerRound' /\ BlocksStartRounds' /\ FileIsLatest'
  BY <1>2 DEF IInv, NoEquivocation, NoFalseAlarm, CitesThePast, TwoUnitsPerRound, BlocksStartRounds, FileIsLatest
<1>5. StateIsClosed' /\ VotesWithEverything' /\ KnowsItsPings' /\ ProposalFits'
  BY <1>1, <1>2 DEF IInv, StateIsClosed, VotesWithEverything, KnowsItsPings, ProposalFits
<1>6. TimerIsAhead'
  BY <1>1, <1>2, StaysAhead
<1>7. QED
  BY <1>3, <1>4, <1>5, <1>6 DEF IInv

LEMMA TimerPingsOK ==
    ASSUME IInv, NEW ok \in BOOLEAN, TimerPings(ok)
    PROVE  IInv'
<1>1. /\ mode = "active" /\ nextTimer <= clock
      /\ nextTimer \in Nat /\ nextTimer' \in Nat /\ nextTimer < nextTimer'
  BY TimerMoves DEF TimerPings
<1>2. /\ clock' = clock /\ mode' = mode /\ seen' = seen /\ have' = have
      /\ nextProposal' = nextProposal /\ ownLastUnit' = ownLastUnit /\ requests' = requests
      /\ proposals' = proposals /\ peersHave' = peersHave
      /\ unitFile' = unitFile /\ signed' = signed /\ stops' = stops
  BY DEF TimerPings
<1>3. /\ ping' \in Time /\ pinged' \in Time /\ pinged' <= clock /\ pinged' <= ping'
      /\ IsMeter(meter')
  <2>1. pinged <= clock /\ pinged <= ping
    BY <1>1 DEF IInv, KnowsItsPings
  <2>2. CASE ~ TimerOutdated /\ PingDue
    <3>1. SendPing(nextTimer) /\ Measure(ok)
      BY <2>2 DEF TimerPings
    <3>2. QED
      BY <1>1, <2>1, <3>1, PingOK, MeasureOK
  <2>3. CASE ~ (~ TimerOutdated /\ PingDue)
    <3>1. ping' = ping /\ pinged' = pinged /\ meter' = meter
      BY <2>3 DEF TimerPings
    <3>2. QED
      BY <2>1, <3>1 DEF IInv, TypeOK, IsMeter
  <2>4. QED
    BY <2>2, <2>3
<1>4. TypeOK'
  BY <1>1, <1>2, <1>3 DEF IInv, TypeOK, IsMeter
<1>5. NoEquivocation' /\ NoFalseAlarm' /\ CitesThePast' /\ TwoUnitsPerRound' /\ BlocksStartRounds' /\ FileIsLatest'
  BY <1>2 DEF IInv, NoEquivocation, NoFalseAlarm, CitesThePast, TwoUnitsPerRound, BlocksStartRounds, FileIsLatest
<1>6. StateIsClosed' /\ VotesWithEverything' /\ KnowsItsPings'
  BY <1>1, <1>2, <1>3 DEF IInv, StateIsClosed, VotesWithEverything, KnowsItsPings
<1>7. ProposalFits'
  <2>1. ASSUME nextProposal # None
        PROVE  nextProposal.timestamp < nextTimer'
    <3>1. nextProposal.timestamp \in Nat /\ nextProposal.timestamp < nextTimer
      BY <2>1, RoundAssumption DEF IInv, TypeOK, ProposalFits
    <3>2. QED
      BY <1>1, <3>1
  <2>2. QED
    BY <1>2, <2>1 DEF IInv, ProposalFits
<1>8. TimerIsAhead'
  BY <1>1, <1>2, StaysAhead
<1>9. QED
  BY <1>4, <1>5, <1>6, <1>7, <1>8 DEF IInv

\* A ping of ours that comes back is no alarm either.
LEMMA ReceiveOwnPingOK ==
    ASSUME IInv, ReceiveOwnPing
    PROVE  IInv'
<1>1. /\ mode = "active" /\ ping' = Max({ping, pinged})
      /\ mode' = (IF CanVote /\ ping < pinged THEN "observer" ELSE mode)
      /\ clock' = clock /\ seen' = seen /\ have' = have /\ meter' = meter
      /\ nextTimer' = nextTimer /\ nextProposal' = nextProposal
      /\ ownLastUnit' = ownLastUnit /\ requests' = requests
      /\ unitFile' = unitFile /\ signed' = signed /\ stops' = stops
      /\ proposals' = proposals /\ peersHave' = peersHave /\ pinged' = pinged
  BY DEF ReceiveOwnPing, outside
<1>2. ping \in Time /\ ping \in Int /\ pinged \in Int /\ pinged <= ping
  BY <1>1 DEF IInv, TypeOK, KnowsItsPings, Time
<1>3. ping' = ping
  <2>1. Max({ping, pinged}) = IF ping >= pinged THEN ping ELSE pinged
    BY <1>2, MaxOfTwo
  <2>2. QED
    BY <1>1, <1>2, <2>1
<1>4. mode' = mode
  BY <1>1, <1>2
<1>5. TypeOK'
  BY <1>1, <1>3, <1>4 DEF IInv, TypeOK
<1>6. NoEquivocation' /\ NoFalseAlarm' /\ CitesThePast' /\ TwoUnitsPerRound' /\ BlocksStartRounds' /\ FileIsLatest'
  BY <1>1, <1>4 DEF IInv, NoEquivocation, NoFalseAlarm, CitesThePast, TwoUnitsPerRound, BlocksStartRounds, FileIsLatest
<1>7. StateIsClosed' /\ VotesWithEverything' /\ KnowsItsPings' /\ ProposalFits' /\ TimerIsAhead'
  BY <1>1, <1>3, <1>4 DEF IInv, StateIsClosed, VotesWithEverything, KnowsItsPings, ProposalFits,
                          TimerIsAhead
<1>8. QED
  BY <1>5, <1>6, <1>7 DEF IInv

LEMMA TickOK ==
    ASSUME IInv, Tick
    PROVE  IInv'
<1>1. /\ clock < MaxTime /\ clock' = clock + 1
      /\ UNCHANGED << mode, memory, outside, unitFile, signed, stops >>
  BY DEF Tick
<1>2. clock \in Nat /\ clock' \in Time /\ clock' \in Nat
  BY <1>1, BoundAssumption DEF IInv, TypeOK, Time
<1>3. TypeOK'
  BY <1>1, <1>2 DEF IInv, TypeOK, memory, outside
<1>4. NoEquivocation' /\ NoFalseAlarm' /\ CitesThePast' /\ TwoUnitsPerRound' /\ BlocksStartRounds' /\ FileIsLatest'
  BY <1>1 DEF IInv, NoEquivocation, NoFalseAlarm, CitesThePast, TwoUnitsPerRound, BlocksStartRounds, FileIsLatest
<1>5. StateIsClosed' /\ VotesWithEverything'
  BY <1>1 DEF IInv, StateIsClosed, VotesWithEverything, memory, outside
<1>6. KnowsItsPings'
  <2>1. pinged \in Nat /\ pinged <= clock
    BY BoundAssumption DEF IInv, KnowsItsPings, TypeOK, Time
  <2>2. pinged <= clock'
    BY <1>1, <1>2, <2>1
  <2>3. QED
    BY <1>1, <2>2 DEF IInv, KnowsItsPings, memory, outside
<1>7. ProposalFits'
  <2>1. ASSUME nextProposal # None
        PROVE  nextProposal.timestamp <= clock'
    <3>1. nextProposal.timestamp \in Nat /\ nextProposal.timestamp <= clock
      BY <2>1, RoundAssumption DEF IInv, TypeOK, ProposalFits
    <3>2. QED
      BY <1>1, <1>2, <3>1
  <2>2. QED
    BY <1>1, <2>1 DEF IInv, ProposalFits, memory
<1>8. TimerIsAhead'
  <2>1. ASSUME NEW u \in signed
        PROVE  u.timestamp <= clock'
    <3>1. u.timestamp \in Nat /\ u.timestamp <= clock
      BY <2>1, BoundAssumption DEF IInv, TypeOK, TimerIsAhead, Unit, Time
    <3>2. QED
      BY <1>1, <1>2, <3>1
  <2>2. QED
    BY <1>1, <2>1 DEF IInv, TimerIsAhead, memory
<1>9. QED
  BY <1>3, <1>4, <1>5, <1>6, <1>7, <1>8 DEF IInv

LEMMA PeersOK ==
    ASSUME IInv, \/ \E p \in PeerRounds : PeerProposes(p)
                 \/ \E u \in signed : PeerReceives(u)
    PROVE  IInv'
<1>1. /\ UNCHANGED << clock, mode, memory, pinged, unitFile, signed, stops >>
      /\ proposals \subseteq proposals' /\ proposals' \subseteq PeerRounds
      /\ peersHave' \subseteq signed
  BY DEF PeerProposes, PeerReceives, IInv, TypeOK
<1>2. TypeOK'
  BY <1>1 DEF IInv, TypeOK, memory
<1>3. NoEquivocation' /\ NoFalseAlarm' /\ CitesThePast' /\ TwoUnitsPerRound' /\ BlocksStartRounds' /\ FileIsLatest'
  BY <1>1 DEF IInv, NoEquivocation, NoFalseAlarm, CitesThePast, TwoUnitsPerRound, BlocksStartRounds, FileIsLatest
<1>4. StateIsClosed' /\ VotesWithEverything' /\ KnowsItsPings' /\ ProposalFits' /\ TimerIsAhead'
  BY <1>1 DEF IInv, StateIsClosed, VotesWithEverything, KnowsItsPings, ProposalFits,
              TimerIsAhead, memory
<1>5. QED
  BY <1>2, <1>3, <1>4 DEF IInv

-----------------------------------------------------------------------------
(* The theorems.                                                           *)

LEMMA InitOK ==
    ASSUME Init
    PROVE  IInv
<1>1. IsMeter(meter) /\ 0 \in Time
  <2>1. MinRoundExp \in RoundExps /\ 0 \in Nat
    BY ExpRange
  <2>2. IsMeter(meter)
    BY <2>1, NewMeterOK DEF Init
  <2>3. QED
    BY <2>2, BoundAssumption DEF Time
<1>2. TypeOK
  BY <1>1, BoundAssumption DEF Init, TypeOK, IsMeter
<1>3. NoEquivocation /\ NoFalseAlarm /\ CitesThePast /\ TwoUnitsPerRound /\ BlocksStartRounds /\ FileIsLatest
  BY NoneAssumption DEF Init, NoEquivocation, NoFalseAlarm, CitesThePast, TwoUnitsPerRound, BlocksStartRounds, FileIsLatest
<1>4. StateIsClosed /\ VotesWithEverything /\ KnowsItsPings /\ ProposalFits /\ TimerIsAhead
  BY DEF Init, StateIsClosed, VotesWithEverything, KnowsItsPings, ProposalFits, TimerIsAhead
<1>5. QED
  BY <1>2, <1>3, <1>4 DEF IInv

\* The invariant is inductive: no step of the validator, of its timers, of the
\* peers, and no stop of the node leaves it.
LEMMA StepOK ==
    ASSUME IInv, [Next]_vars
    PROVE  IInv'
<1>1. CASE UNCHANGED vars
  <2>1. UNCHANGED << clock, mode, memory, outside, unitFile, signed, stops >>
    BY <1>1 DEF vars
  <2>2. TypeOK'
    BY <2>1 DEF IInv, TypeOK, memory, outside
  <2>3. NoEquivocation' /\ NoFalseAlarm' /\ CitesThePast' /\ TwoUnitsPerRound' /\ BlocksStartRounds' /\ FileIsLatest'
    BY <2>1 DEF IInv, NoEquivocation, NoFalseAlarm, CitesThePast, TwoUnitsPerRound, BlocksStartRounds, FileIsLatest
  <2>4. StateIsClosed' /\ VotesWithEverything' /\ KnowsItsPings' /\ ProposalFits' /\ TimerIsAhead'
    BY <2>1 DEF IInv, StateIsClosed, VotesWithEverything, KnowsItsPings, ProposalFits,
                TimerIsAhead, memory, outside
  <2>5. QED
    BY <2>2, <2>3, <2>4 DEF IInv
<1>2. CASE Activate
  BY <1>2, ActivateOK
<1>3. CASE RequestNewBlock
  BY <1>3, RequestNewBlockOK
<1>4. CASE LeaderGivesUp
  BY <1>4, LeaderGivesUpOK
<1>5. CASE ReceiveOwnPing
  BY <1>5, ReceiveOwnPingOK
<1>6. CASE Tick
  BY <1>6, TickOK
<1>7. CASE StopNode
  BY <1>7, StopNodeOK
<1>8. ASSUME NEW ok \in BOOLEAN,
             \/ WitnessUnit(ok) \/ TimerPings(ok) \/ AddOtherUnit(ok)
             \/ \E t \in OwnRounds : Propose(t, ok)
             \/ \E p \in PeerRounds : AddProposal(p, ok)
             \/ \E u \in signed : ReceiveOwnUnit(u, ok)
      PROVE  IInv'
  <2>1. CASE WitnessUnit(ok)
    BY <2>1, WitnessUnitOK
  <2>2. CASE TimerPings(ok)
    BY <2>2, TimerPingsOK
  <2>3. CASE AddOtherUnit(ok)
    BY <2>3, AddOtherUnitOK
  <2>4. ASSUME NEW t \in OwnRounds, Propose(t, ok) PROVE IInv'
    BY <2>4, ProposeOK
  <2>5. ASSUME NEW p \in PeerRounds, AddProposal(p, ok) PROVE IInv'
    BY <2>5, AddProposalOK
  <2>6. ASSUME NEW u \in signed, ReceiveOwnUnit(u, ok) PROVE IInv'
    BY <2>6, ReceiveOwnUnitOK
  <2>7. QED
    BY <1>8, <2>1, <2>2, <2>3, <2>4, <2>5, <2>6
<1>9. CASE \/ \E p \in PeerRounds : PeerProposes(p)
           \/ \E u \in signed : PeerReceives(u)
  BY <1>9, PeersOK
<1>10. QED
  BY <1>1, <1>2, <1>3, <1>4, <1>5, <1>6, <1>7, <1>8, <1>9 DEF Next

\* Init and every step establish the inductive invariant.
THEOREM Invariant == Spec => []IInv
BY InitOK, StepOK, PTL DEF Spec

\* A validator never signs two units with the same number, however often the node
\* stops, while it signs or in between (can_vote, write_last_unit, new_unit).
THEOREM NeverEquivocates == Spec => []NoEquivocation
<1>1. IInv => NoEquivocation
  BY DEF IInv
<1>2. QED
  BY <1>1, Invariant, PTL

\* A node that is alone with its key never takes a unit or a ping that comes back
\* for one of a doppelganger (is_doppelganger_vertex).
THEOREM NeverAlarmed == Spec => []NoFalseAlarm
<1>1. IInv => NoFalseAlarm
  BY DEF IInv
<1>2. QED
  BY <1>1, Invariant, PTL

\* Every unit a validator signs is one that the others accept, whatever the timers,
\* the late answers of the block proposer and the changes of the exponent do
\* (new_unit against validate_unit).
THEOREM UnitsAreValid == Spec => []SignedUnitsAreValid
<1>1. IInv => SignedUnitsAreValid
  BY DEF IInv, SignedUnitsAreValid
<1>2. QED
  BY <1>1, Invariant, PTL
=============================================================================
