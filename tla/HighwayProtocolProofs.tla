----------------------- MODULE HighwayProtocolProofs -----------------------
(***************************************************************************)
(* The protocol state of Highway, for any number of validators and units.  *)
(* The faults: what is recorded as a fault, and that nobody else is.  The  *)
(* skip lists: that find_in_swimlane leads from the latest unit of a       *)
(* validator to all its others.  The fork choice: that the tallies of      *)
(* fork_choice give the GHOST rule on every tree of blocks.  The validity: *)
(* that it lasts, and with it the vote of every unit.  The finality: that  *)
(* a summit is safe, and that the detector finds summits only.             *)
(***************************************************************************)
EXTENDS HighwayProtocol, ForkChoiceVotes, FiniteSetTheorems, WellFoundedInduction, TLAPS

\* The latest unit of a validator that is not known to be faulty has the highest
\* sequence number, and no other unit of it has the same one.
Latest ==
    \A h \in DOMAIN units :
        LET v == units[h].creator IN
        panorama[v] # Faulty =>
            /\ panorama[v] \in DOMAIN units
            /\ units[panorama[v]].creator = v
            /\ units[h].seq <= units[panorama[v]].seq
            /\ \A g \in DOMAIN units :
                   units[g].creator = v /\ units[g].seq = units[h].seq => g = h

\* An observation of the node is of a unit by the observed validator.
OwnUnits ==
    \A v \in Validators : panorama[v] \in DOMAIN units => units[panorama[v]].creator = v

\* What validation leaves of a wire unit that the bookkeeping depends on.
Extends(w) ==
    /\ w.panorama[w.creator] # Faulty
    /\ \A v \in Validators :
           w.panorama[v] \in Hashes =>
               w.panorama[v] \in DOMAIN units /\ units[w.panorama[v]].creator = v
    /\ w.seq = NextSeqNum(units, w.panorama, w.creator)

Honest == Validators \ (Equivocators \cup Banned)

PendingInv ==
    \A p \in pendingValues :
        /\ p.unit \in WireUnits
        /\ p.hash \in Hashes
        /\ Extends(p.unit)
        /\ p.unit.creator \in Honest =>
               /\ p.unit.panorama[p.unit.creator] = panorama[p.unit.creator]
               /\ \A q \in pendingValues : q.unit.creator = p.unit.creator => q = p

Finite == IsFiniteSet(DOMAIN units) /\ IsFiniteSet(pendingValues)

Core == TypeOK /\ FaultsMatchPanorama /\ Latest /\ OwnUnits

\* The inductive invariant.
IInv == Core /\ PendingInv /\ Finite /\ HonestNotAccused

-----------------------------------------------------------------------------
(* One unit is added.                                                      *)

\* The units afterwards: the known ones as before, and the new one as signed.
LEMMA UnitsGrow ==
    ASSUME NEW w \in WireUnits, NEW h \in Hashes, AddValidUnit(w, h)
    PROVE  /\ h \notin DOMAIN units
           /\ DOMAIN units' = DOMAIN units \cup {h}
           /\ \A x \in DOMAIN units : units'[x] = units[x]
           /\ units'[h].creator = w.creator
           /\ units'[h].seq = w.seq
           /\ units'[h].timestamp = w.timestamp
           /\ units'[h].panorama = w.panorama
           /\ DOMAIN blocks' \subseteq DOMAIN blocks \cup {h}
<1>1. /\ h \notin DOMAIN units
      /\ units' = [x \in DOMAIN units \cup {h} |-> IF x = h THEN NewUnit(w, h) ELSE units[x]]
    BY DEF AddValidUnit
<1>2. units'[h] = NewUnit(w, h)
    BY <1>1
<1>3. /\ NewUnit(w, h).creator = w.creator
      /\ NewUnit(w, h).seq = w.seq
      /\ NewUnit(w, h).timestamp = w.timestamp
      /\ NewUnit(w, h).panorama = w.panorama
    BY DEF NewUnit
<1>4. DOMAIN blocks' \subseteq DOMAIN blocks \cup {h}
    BY DEF AddValidUnit
<1> QED BY <1>1, <1>2, <1>3, <1>4

\* What add_valid_unit records of the creator, in the four cases of its match.
LEMMA Observed ==
    ASSUME Core, NEW w \in WireUnits, NEW h \in Hashes, Extends(w), AddValidUnit(w, h)
    PROVE  /\ \A v \in Validators \ {w.creator} :
                  panorama'[v] = panorama[v] /\ faults'[v] = faults[v]
           /\ \/ /\ panorama'[w.creator] = Faulty
                 /\ faults'[w.creator] \in {"Banned", "Direct", "Indirect"}
              \/ /\ panorama[w.creator] # Faulty
                 /\ w.panorama[w.creator] = panorama[w.creator]
                 /\ panorama'[w.creator] = h
                 /\ faults'[w.creator] = faults[w.creator]
           /\ panorama[w.creator] # Faulty /\ w.panorama[w.creator] = panorama[w.creator]
                  => panorama'[w.creator] = h /\ faults' = faults
           /\ faults' \in [Validators -> {"none", "Banned", "Direct", "Indirect"}]
           /\ DOMAIN panorama' = Validators
           /\ faults[w.creator] \in {"Banned", "Direct"} => faults'[w.creator] = faults[w.creator]
           /\ faults[w.creator] # "none" => faults'[w.creator] # "none"
<1> DEFINE c == w.creator
<1>0. c \in Validators
    BY DEF WireUnits
<1>1. /\ panorama \in [Validators -> DOMAIN units \cup {None, Faulty}]
      /\ faults \in [Validators -> {"none", "Banned", "Direct", "Indirect"}]
      /\ DOMAIN units \subseteq Hashes
    BY DEF Core, TypeOK
<1>2. /\ panorama' = [panorama EXCEPT ![c] = NewObservation(w, h)]
      /\ faults' = IF panorama'[c] = Faulty /\ panorama[c] # Faulty
                   THEN [faults EXCEPT ![c] = FaultWithEvidence(@)] ELSE faults
    BY DEF AddValidUnit
<1>3. panorama'[c] = NewObservation(w, h)
    BY <1>0, <1>1, <1>2
<1>4. panorama[c] # Faulty /\ w.panorama[c] # panorama[c] => panorama[c] # None
  <2> SUFFICES ASSUME panorama[c] = None, w.panorama[c] # None PROVE FALSE
      BY ObservationAssumption
  <2>1. w.panorama[c] \in Hashes
      BY <1>0 DEF WireUnits, Panoramas, Observations, Extends
  <2>2. w.panorama[c] \in DOMAIN units /\ units[w.panorama[c]].creator = c
      BY <2>1, <1>0 DEF Extends
  <2>3. panorama[c] \in DOMAIN units
      BY <2>2, ObservationAssumption DEF Core, Latest
  <2> QED BY <2>3, <1>1, ObservationAssumption
<1>5. faults[c] # "none" <=> panorama[c] = Faulty
    BY <1>0 DEF Core, FaultsMatchPanorama
<1>6. h # Faulty
    BY ObservationAssumption
<1>7. CASE panorama[c] = Faulty
  <2>1. panorama'[c] = Faulty /\ faults' = faults
      BY <1>7, <1>3, <1>2 DEF NewObservation
  <2> QED BY <2>1, <1>7, <1>0, <1>1, <1>2, <1>5
<1>8. CASE panorama[c] # Faulty /\ w.panorama[c] = panorama[c]
  <2>1. panorama'[c] = h /\ faults' = faults
      BY <1>8, <1>3, <1>2, <1>6 DEF NewObservation
  <2> QED BY <2>1, <1>8, <1>0, <1>1, <1>2, <1>5
<1>9. CASE panorama[c] # Faulty /\ w.panorama[c] # panorama[c]
  <2>1. panorama'[c] = Faulty
      BY <1>9, <1>3, <1>4 DEF NewObservation
  <2>2. faults' = [faults EXCEPT ![c] = "Direct"]
      BY <2>1, <1>9, <1>2, <1>5, <1>0, <1>1 DEF FaultWithEvidence
  <2> QED BY <2>1, <2>2, <1>9, <1>0, <1>1, <1>2, <1>5
<1> QED BY <1>7, <1>8, <1>9

\* The invariants of the state alone survive the new unit.
LEMMA CoreAdd ==
    ASSUME Core, NEW w \in WireUnits, NEW h \in Hashes, Extends(w), AddValidUnit(w, h),
           evidenceOnly' \in BOOLEAN
    PROVE  Core'
<1> DEFINE c == w.creator
<1>0. /\ c \in Validators /\ w.seq \in Nat /\ w.timestamp \in Times
      /\ w.panorama \in [Validators -> Hashes \cup {None, Faulty}]
    BY DEF WireUnits, Panoramas, Observations
<1>1. /\ h \notin DOMAIN units
      /\ DOMAIN units' = DOMAIN units \cup {h}
      /\ \A x \in DOMAIN units : units'[x] = units[x]
      /\ units'[h].creator = c
      /\ units'[h].seq = w.seq
      /\ units'[h].timestamp = w.timestamp
      /\ units'[h].panorama = w.panorama
      /\ DOMAIN blocks' \subseteq DOMAIN blocks \cup {h}
    BY UnitsGrow
<1>2. /\ \A v \in Validators \ {c} : panorama'[v] = panorama[v] /\ faults'[v] = faults[v]
      /\ \/ /\ panorama'[c] = Faulty
            /\ faults'[c] \in {"Banned", "Direct", "Indirect"}
         \/ /\ panorama[c] # Faulty
            /\ w.panorama[c] = panorama[c]
            /\ panorama'[c] = h
            /\ faults'[c] = faults[c]
      /\ faults' \in [Validators -> {"none", "Banned", "Direct", "Indirect"}]
      /\ DOMAIN panorama' = Validators
    BY Observed
<1>3. TypeOK
    BY DEF Core
<1>4. pings' \in [Validators -> Times]
    BY <1>0, <1>3 DEF TypeOK, AddValidUnit, PingAt
<1>5. DOMAIN panorama' = Validators /\ panorama' = [v \in Validators |-> panorama'[v]]
  <2>1. panorama' = [panorama EXCEPT ![c] = NewObservation(w, h)]
      BY DEF AddValidUnit
  <2> QED BY <2>1, <1>3, <1>0 DEF TypeOK
<1>6. panorama' \in [Validators -> DOMAIN units' \cup {None, Faulty}]
  <2>1. \A v \in Validators : panorama'[v] \in DOMAIN units' \cup {None, Faulty}
      BY <1>0, <1>1, <1>2, <1>3 DEF TypeOK
  <2> QED BY <2>1, <1>5
<1>7. TypeOK'
  <2>1. \A x \in DOMAIN units' :
            /\ units'[x].creator \in Validators
            /\ units'[x].seq \in Nat
            /\ units'[x].timestamp \in Times
      BY <1>0, <1>1, <1>3 DEF TypeOK
  <2>2. \A x \in DOMAIN units' :
            units'[x].panorama \in [Validators -> DOMAIN units' \cup {None, Faulty}]
    <3> SUFFICES ASSUME NEW x \in DOMAIN units'
                 PROVE units'[x].panorama \in [Validators -> DOMAIN units' \cup {None, Faulty}]
        OBVIOUS
    <3>1. CASE x = h
      <4>1. \A v \in Validators : w.panorama[v] \in DOMAIN units \cup {None, Faulty}
          BY <1>0 DEF Extends
      <4> QED BY <4>1, <3>1, <1>0, <1>1
    <3>2. CASE x \in DOMAIN units
        BY <3>2, <1>1, <1>3 DEF TypeOK
    <3> QED BY <3>1, <3>2, <1>1
  <2>3. DOMAIN units' \subseteq Hashes /\ DOMAIN blocks' \subseteq DOMAIN units'
      BY <1>1, <1>3 DEF TypeOK
  <2> QED BY <2>1, <2>2, <2>3, <1>2, <1>4, <1>6 DEF TypeOK
<1>8. FaultsMatchPanorama'
  <2>1. h # Faulty
      BY ObservationAssumption
  <2> QED BY <2>1, <1>0, <1>2 DEF Core, FaultsMatchPanorama
<1>9. OwnUnits'
  <2> SUFFICES ASSUME NEW v \in Validators, panorama'[v] \in DOMAIN units'
               PROVE units'[panorama'[v]].creator = v
      BY DEF OwnUnits
  <2>1. CASE v = c
      BY <2>1, <1>1, <1>2, <1>3, ObservationAssumption DEF TypeOK
  <2>2. CASE v # c
    <3>1. panorama'[v] = panorama[v]
        BY <2>2, <1>2
    <3>2. panorama[v] # h
        BY <1>1, <1>3, ObservationAssumption DEF TypeOK
    <3> QED BY <3>1, <3>2, <1>1 DEF Core, OwnUnits
  <2> QED BY <2>1, <2>2
<1>10. Latest'
  <2> SUFFICES ASSUME NEW x \in DOMAIN units', panorama'[units'[x].creator] # Faulty
               PROVE  /\ panorama'[units'[x].creator] \in DOMAIN units'
                      /\ units'[panorama'[units'[x].creator]].creator = units'[x].creator
                      /\ units'[x].seq <= units'[panorama'[units'[x].creator]].seq
                      /\ \A g \in DOMAIN units' :
                             units'[g].creator = units'[x].creator /\ units'[g].seq = units'[x].seq
                                 => g = x
      BY DEF Latest
  <2> DEFINE v == units'[x].creator
  <2>0. v \in Validators
      BY <1>7 DEF TypeOK
  <2>1. CASE v # c
    <3>1. x \in DOMAIN units /\ units[x].creator = v /\ panorama'[v] = panorama[v]
        BY <2>1, <2>0, <1>1, <1>2
    <3>2. /\ panorama[v] \in DOMAIN units
          /\ units[panorama[v]].creator = v
          /\ units[x].seq <= units[panorama[v]].seq
          /\ \A g \in DOMAIN units :
                 units[g].creator = v /\ units[g].seq = units[x].seq => g = x
        BY <3>1 DEF Core, Latest
    <3> QED BY <3>1, <3>2, <2>1, <1>1
  <2>2. CASE v = c
    <3>1. panorama[c] # Faulty /\ w.panorama[c] = panorama[c] /\ panorama'[c] = h
        BY <2>2, <1>2
    <3>2. \A y \in DOMAIN units : units[y].creator = c => units[y].seq < w.seq
      <4> SUFFICES ASSUME NEW y \in DOMAIN units, units[y].creator = c
                   PROVE units[y].seq < w.seq
          OBVIOUS
      <4>1. panorama[c] \in DOMAIN units /\ units[y].seq <= units[panorama[c]].seq
          BY <3>1 DEF Core, Latest
      <4>2. w.seq = units[panorama[c]].seq + 1
          BY <4>1, <3>1, <1>3 DEF Extends, NextSeqNum, IsCorrect, TypeOK
      <4> QED BY <4>1, <4>2, <1>3 DEF TypeOK
    <3>3. \A y \in DOMAIN units : units[y].creator = c =>
              \A g \in DOMAIN units : units[g].creator = c /\ units[g].seq = units[y].seq => g = y
        BY <3>1 DEF Core, Latest
    <3>4. \A y \in DOMAIN units : units[y].seq \in Nat
        BY <1>3 DEF TypeOK
    <3>5. CASE x = h
        BY <3>5, <3>1, <3>2, <3>4, <2>2, <1>0, <1>1
    <3>6. CASE x \in DOMAIN units
        BY <3>6, <3>1, <3>2, <3>3, <3>4, <2>2, <1>0, <1>1
    <3> QED BY <3>5, <3>6, <1>1
  <2> QED BY <2>1, <2>2
<1> QED BY <1>7, <1>8, <1>9, <1>10 DEF Core

\* Pending proposals stay addable when another unit is added.
LEMMA ExtendsStays ==
    ASSUME Core, NEW w \in WireUnits, NEW h \in Hashes, AddValidUnit(w, h),
           NEW u \in WireUnits, Extends(u)
    PROVE  Extends(u)'
<1>1. /\ DOMAIN units' = DOMAIN units \cup {h}
      /\ \A x \in DOMAIN units : units'[x] = units[x]
    BY UnitsGrow
<1>2. u.creator \in Validators
    BY DEF WireUnits
<1>3. \A v \in Validators : u.panorama[v] \in Hashes =>
          /\ u.panorama[v] \in DOMAIN units'
          /\ units'[u.panorama[v]] = units[u.panorama[v]]
    BY <1>1 DEF Extends
<1>4. u.seq = NextSeqNum(units', u.panorama, u.creator)
    BY <1>2, <1>3 DEF Extends, NextSeqNum, IsCorrect
<1> QED BY <1>3, <1>4 DEF Extends

\* A unit that passes the validation.
LEMMA ValidExtends ==
    ASSUME IInv, NEW pan \in CitablePanoramas, NEW v \in Validators, NEW t \in Times,
           NEW re \in MinRoundExp .. MaxRoundExp, NEW proposal \in BOOLEAN,
           IsValid(WireUnit(v, pan, t, re, proposal))
    PROVE  /\ WireUnit(v, pan, t, re, proposal) \in WireUnits
           /\ Extends(WireUnit(v, pan, t, re, proposal))
           /\ WireUnit(v, pan, t, re, proposal).creator = v
           /\ WireUnit(v, pan, t, re, proposal).panorama = pan
           /\ NextHash(v) \in Hashes
<1> DEFINE w == WireUnit(v, pan, t, re, proposal)
<1>1. /\ w.creator = v /\ w.panorama = pan /\ w.seq = NextSeqNum(units, pan, v)
      /\ w = [creator |-> v, seq |-> NextSeqNum(units, pan, v), panorama |-> pan,
              timestamp |-> t, roundExp |-> re, proposal |-> proposal]
    BY DEF WireUnit
<1>2. TypeOK
    BY DEF IInv, Core
<1>3. /\ pan \in [Validators -> DOMAIN units \cup {None, Faulty}]
      /\ \A x \in Validators : pan[x] \in Hashes =>
             pan[x] \in DOMAIN units /\ units[pan[x]].creator = x
  <2>1. pan \in [Validators -> DOMAIN units \cup {None, Faulty}]
      BY DEF CitablePanoramas
  <2>2. \A x \in CorrectIn(pan) : units[pan[x]].creator = x
      BY DEF CitablePanoramas
  <2> QED BY <2>1, <2>2, ObservationAssumption DEF CorrectIn, IsCorrect
<1>4. NextSeqNum(units, pan, v) \in Nat
    BY <1>3, <1>2 DEF NextSeqNum, IsCorrect, TypeOK
<1>5. pan \in Panoramas
    BY <1>3, <1>2 DEF Panoramas, Observations, TypeOK
<1>6. re \in Nat
    BY StateAssumption
<1>7. w \in WireUnits
    BY <1>1, <1>4, <1>5, <1>6 DEF WireUnits
<1>8. w.panorama[w.creator] # Faulty
    BY DEF IsValid, PreValidateUnit
<1>9. Extends(w)
    BY <1>1, <1>3, <1>8 DEF Extends
<1>10. NextHash(v) \in Hashes
  <2>1. UnitsBy(v) \subseteq DOMAIN units /\ PendingBy(v) \subseteq pendingValues
      BY DEF UnitsBy, PendingBy
  <2>2. IsFiniteSet(UnitsBy(v)) /\ IsFiniteSet(PendingBy(v))
      BY <2>1, FS_Subset DEF IInv, Finite
  <2>3. Cardinality(UnitsBy(v)) \in Nat /\ Cardinality(PendingBy(v)) \in Nat
      BY <2>2, FS_CardinalityType
  <2> QED BY <2>3 DEF NextHash, Hashes
<1> QED BY <1>1, <1>7, <1>9, <1>10

\* A unit of a validator that follows the protocol cites its latest unit.
LEMMA HonestCites ==
    ASSUME IInv, NEW w \in WireUnits, w.creator \in Honest, FollowsProtocol(w)
    PROVE  w.panorama[w.creator] = panorama[w.creator] /\ panorama[w.creator] # Faulty
<1> DEFINE c == w.creator
<1>0. c \in Validators
    BY DEF WireUnits
<1>1. panorama[c] # Faulty
    BY <1>0 DEF IInv, Core, HonestNotAccused, FaultsMatchPanorama, Honest
<1>2. TypeOK /\ OwnUnits /\ Latest
    BY DEF IInv, Core
<1>3. CASE UnitsBy(c) = {}
  <2>1. w.panorama[c] = None
      BY <1>3 DEF FollowsProtocol
  <2>2. panorama[c] \notin DOMAIN units
      BY <1>0, <1>2, <1>3 DEF OwnUnits, UnitsBy
  <2> QED BY <2>1, <2>2, <1>0, <1>1, <1>2 DEF TypeOK
<1>4. CASE UnitsBy(c) # {}
  <2>1. /\ w.panorama[c] \in UnitsBy(c)
        /\ \A x \in UnitsBy(c) : units[x].seq <= units[w.panorama[c]].seq
      BY <1>4 DEF FollowsProtocol
  <2>2. w.panorama[c] \in DOMAIN units /\ units[w.panorama[c]].creator = c
      BY <2>1 DEF UnitsBy
  <2>3. /\ panorama[c] \in DOMAIN units
        /\ units[panorama[c]].creator = c
        /\ units[w.panorama[c]].seq <= units[panorama[c]].seq
        /\ \A g \in DOMAIN units : units[g].creator = c
               /\ units[g].seq = units[w.panorama[c]].seq => g = w.panorama[c]
      BY <2>2, <1>1, <1>2 DEF Latest
  <2>4. units[panorama[c]].seq <= units[w.panorama[c]].seq
      BY <2>1, <2>3 DEF UnitsBy
  <2>5. units[panorama[c]].seq \in Nat /\ units[w.panorama[c]].seq \in Nat
      BY <2>2, <2>3, <1>2 DEF TypeOK
  <2>6. units[panorama[c]].seq = units[w.panorama[c]].seq
      BY <2>3, <2>4, <2>5
  <2> QED BY <2>3, <2>6, <1>1
<1> QED BY <1>3, <1>4

-----------------------------------------------------------------------------
(* The handlers preserve the invariant.                                    *)

\* A unit is added and the pending proposals are among the earlier ones, none of
\* them by the same validator if that follows the protocol.
LEMMA AddStep ==
    ASSUME IInv, NEW w \in WireUnits, NEW h \in Hashes, Extends(w), AddValidUnit(w, h),
           evidenceOnly' = evidenceOnly,
           pendingValues' \subseteq pendingValues,
           w.creator \in Honest => w.panorama[w.creator] = panorama[w.creator],
           w.creator \in Honest => \A q \in pendingValues' : q.unit.creator # w.creator
    PROVE  IInv'
<1>1. evidenceOnly' \in BOOLEAN /\ Core
    BY DEF IInv, Core, TypeOK
<1>2. Core'
    BY <1>1, CoreAdd
<1>3. /\ \A v \in Validators \ {w.creator} :
             panorama'[v] = panorama[v] /\ faults'[v] = faults[v]
      /\ panorama[w.creator] # Faulty /\ w.panorama[w.creator] = panorama[w.creator]
             => panorama'[w.creator] = h /\ faults' = faults
    BY <1>1, Observed
<1>4. w.creator \in Validators
    BY DEF WireUnits
<1>5. HonestNotAccused'
  <2>1. w.creator \in Honest => panorama[w.creator] # Faulty
      BY <1>4 DEF IInv, Core, HonestNotAccused, FaultsMatchPanorama, Honest
  <2>2. w.creator \in Honest => faults' = faults
      BY <2>1, <1>3
  <2> QED BY <2>2, <1>3, <1>4 DEF IInv, HonestNotAccused, Honest
<1>6. PendingInv'
  <2> SUFFICES ASSUME NEW p \in pendingValues'
               PROVE  /\ p.unit \in WireUnits
                      /\ p.hash \in Hashes
                      /\ Extends(p.unit)'
                      /\ p.unit.creator \in Honest =>
                             /\ p.unit.panorama[p.unit.creator] = panorama'[p.unit.creator]
                             /\ \A q \in pendingValues' : q.unit.creator = p.unit.creator => q = p
      BY DEF PendingInv, Honest
  <2>1. /\ p.unit \in WireUnits /\ p.hash \in Hashes /\ Extends(p.unit)
        /\ p.unit.creator \in Honest =>
               /\ p.unit.panorama[p.unit.creator] = panorama[p.unit.creator]
               /\ \A q \in pendingValues : q.unit.creator = p.unit.creator => q = p
      BY DEF IInv, PendingInv
  <2>2. Extends(p.unit)'
      BY <2>1, <1>1, ExtendsStays
  <2>3. p.unit.creator \in Validators
      BY <2>1 DEF WireUnits
  <2> QED BY <2>1, <2>2, <2>3, <1>3
<1>7. Finite'
  <2>1. DOMAIN units' = DOMAIN units \cup {h}
      BY UnitsGrow
  <2>2. IsFiniteSet(DOMAIN units')
      BY <2>1, FS_AddElement DEF IInv, Finite
  <2>3. IsFiniteSet(pendingValues')
      BY FS_Subset DEF IInv, Finite
  <2> QED BY <2>2, <2>3 DEF Finite
<1> QED BY <1>2, <1>5, <1>6, <1>7 DEF IInv

\* A fault of a validator that does not follow the protocol is recorded.
LEMMA FaultStep ==
    ASSUME IInv, NEW v \in Equivocators, UNCHANGED <<units, blocks, pings, pendingValues, evidenceOnly>>,
           panorama' = [panorama EXCEPT ![v] = Faulty],
           faults' \in [Validators -> {"none", "Banned", "Direct", "Indirect"}],
           faults'[v] # "none",
           \A x \in Validators \ {v} : faults'[x] = faults[x]
    PROVE  IInv'
<1>0. v \in Validators /\ v \notin Honest
    BY StateAssumption DEF Honest
<1>1. Core
    BY DEF IInv
<1>2. /\ panorama' \in [Validators -> DOMAIN units' \cup {None, Faulty}]
      /\ panorama'[v] = Faulty
      /\ \A x \in Validators \ {v} : panorama'[x] = panorama[x]
    BY <1>0, <1>1 DEF Core, TypeOK
<1>3. TypeOK'
    BY <1>1, <1>2 DEF Core, TypeOK
<1>4. FaultsMatchPanorama'
    BY <1>0, <1>1, <1>2 DEF Core, FaultsMatchPanorama
<1>5. Latest'
  <2> SUFFICES ASSUME NEW h \in DOMAIN units, panorama'[units[h].creator] # Faulty
               PROVE  /\ panorama'[units[h].creator] = panorama[units[h].creator]
                      /\ panorama[units[h].creator] # Faulty
      BY <1>1 DEF Core, Latest
  <2>1. units[h].creator \in Validators
      BY <1>1 DEF Core, TypeOK
  <2> QED BY <2>1, <1>2
<1>6. OwnUnits'
  <2> SUFFICES ASSUME NEW x \in Validators, panorama'[x] \in DOMAIN units
               PROVE  units[panorama'[x]].creator = x
      BY DEF OwnUnits
  <2>1. Faulty \notin DOMAIN units
      BY <1>1, ObservationAssumption DEF Core, TypeOK
  <2>2. x # v
      BY <2>1, <1>2
  <2> QED BY <2>2, <1>1, <1>2 DEF Core, OwnUnits
<1>7. HonestNotAccused'
    BY <1>0 DEF IInv, HonestNotAccused, Honest
<1>8. PendingInv'
  <2>1. \A p \in pendingValues : p.unit.creator \in Validators
      BY DEF IInv, PendingInv, WireUnits
  <2>2. \A p \in pendingValues : Extends(p.unit)' <=> Extends(p.unit)
      BY DEF Extends, NextSeqNum
  <2> QED BY <2>1, <2>2, <1>0, <1>2 DEF IInv, PendingInv
<1> QED BY <1>1, <1>3, <1>4, <1>5, <1>6, <1>7, <1>8 DEF IInv, Core, Finite

\* A unit from a peer is added.
LEMMA StepAddVertex ==
    ASSUME IInv, NEW pan \in CitablePanoramas, NEW v \in Validators, NEW t \in Times,
           NEW re \in MinRoundExp .. MaxRoundExp, NEW proposal \in BOOLEAN,
           AddVertex(WireUnit(v, pan, t, re, proposal))
    PROVE  IInv'
<1> DEFINE w == WireUnit(v, pan, t, re, proposal)
<1>1. IsValid(w) /\ AddValidUnit(w, NextHash(w.creator))
    BY DEF AddVertex
<1>2. w \in WireUnits /\ Extends(w) /\ w.creator = v /\ NextHash(v) \in Hashes
    BY <1>1, ValidExtends
<1>3. w.creator \in Honest => FollowsProtocol(w)
    BY <1>1 DEF IsValid, Honest
<1>4. w.creator \in Honest => w.panorama[w.creator] = panorama[w.creator]
    BY <1>2, <1>3, HonestCites
<1>5. w.creator \in Honest => \A q \in pendingValues : q.unit.creator # w.creator
    BY <1>3 DEF FollowsProtocol, PendingBy
<1>6. evidenceOnly' = evidenceOnly /\ pendingValues' = pendingValues
    BY DEF AddVertex
<1> HIDE DEF w
<1> QED BY <1>1, <1>2, <1>4, <1>5, <1>6, AddStep

\* A proposal waits for its value to be validated.
LEMMA StepAwaitValidity ==
    ASSUME IInv, NEW pan \in CitablePanoramas, NEW v \in Validators, NEW t \in Times,
           NEW re \in MinRoundExp .. MaxRoundExp, NEW proposal \in BOOLEAN,
           AwaitValidity(WireUnit(v, pan, t, re, proposal))
    PROVE  IInv'
<1> DEFINE w == WireUnit(v, pan, t, re, proposal)
           new == [unit |-> w, hash |-> NextHash(w.creator)]
<1>1. /\ IsValid(w) /\ pendingValues' = pendingValues \cup {new}
      /\ UNCHANGED <<units, blocks, faults, panorama, pings, evidenceOnly>>
    BY DEF AwaitValidity, stateVars
<1>2. w \in WireUnits /\ Extends(w) /\ w.creator = v /\ NextHash(v) \in Hashes
    BY <1>1, ValidExtends
<1>3. w.creator \in Honest => FollowsProtocol(w)
    BY <1>1 DEF IsValid, Honest
<1>4. w.creator \in Honest => w.panorama[w.creator] = panorama[w.creator]
    BY <1>2, <1>3, HonestCites
<1>5. w.creator \in Honest => \A q \in pendingValues : q.unit.creator # w.creator
    BY <1>3 DEF FollowsProtocol, PendingBy
<1>6. new.unit = w /\ new.hash = NextHash(w.creator)
    OBVIOUS
<1> HIDE DEF w, new
<1>7. PendingInv'
  <2> SUFFICES ASSUME NEW p \in pendingValues'
               PROVE  /\ p.unit \in WireUnits
                      /\ p.hash \in Hashes
                      /\ Extends(p.unit)
                      /\ p.unit.creator \in Honest =>
                             /\ p.unit.panorama[p.unit.creator] = panorama[p.unit.creator]
                             /\ \A q \in pendingValues' : q.unit.creator = p.unit.creator => q = p
      BY <1>1 DEF PendingInv, Extends, NextSeqNum, Honest
  <2> QED BY <1>1, <1>2, <1>4, <1>5, <1>6 DEF IInv, PendingInv
<1>8. Finite'
    BY <1>1, FS_AddElement DEF IInv, Finite
<1>9. Core' /\ HonestNotAccused'
    BY <1>1 DEF IInv, Core, TypeOK, FaultsMatchPanorama, Latest, OwnUnits, HonestNotAccused
<1> QED BY <1>7, <1>8, <1>9 DEF IInv

\* The value of a pending proposal was validated, or is invalid.
LEMMA StepResolveValidity ==
    ASSUME IInv, NEW p \in pendingValues, NEW valid \in BOOLEAN, ResolveValidity(p, valid)
    PROVE  IInv'
<1>1. /\ pendingValues' = pendingValues \ {p} /\ evidenceOnly' = evidenceOnly
      /\ valid => AddValidUnit(p.unit, p.hash)
      /\ ~ valid => UNCHANGED <<units, blocks, faults, panorama, pings>>
    BY DEF ResolveValidity, stateVars
<1>2. /\ p.unit \in WireUnits /\ p.hash \in Hashes /\ Extends(p.unit)
      /\ p.unit.creator \in Honest =>
             /\ p.unit.panorama[p.unit.creator] = panorama[p.unit.creator]
             /\ \A q \in pendingValues : q.unit.creator = p.unit.creator => q = p
    BY DEF IInv, PendingInv
<1>3. CASE valid
    BY <1>1, <1>2, <1>3, AddStep
<1>4. CASE ~ valid
  <2>1. PendingInv'
      BY <1>1, <1>4 DEF IInv, PendingInv, Extends, NextSeqNum, Honest
  <2>2. Finite'
      BY <1>1, <1>4, FS_Subset DEF IInv, Finite
  <2>3. Core' /\ HonestNotAccused'
      BY <1>1, <1>4 DEF IInv, Core, TypeOK, FaultsMatchPanorama, Latest, OwnUnits, HonestNotAccused
  <2> QED BY <2>1, <2>2, <2>3 DEF IInv
<1> QED BY <1>3, <1>4

\* Evidence arrives.
LEMMA StepAddEvidenceVertex ==
    ASSUME IInv, NEW v \in Validators, AddEvidenceVertex(v)
    PROVE  IInv'
<1>1. /\ v \in Equivocators /\ faults[v] # "Direct"
      /\ faults' = [faults EXCEPT ![v] = FaultWithEvidence(@)]
      /\ panorama' = [panorama EXCEPT ![v] =
                         IF faults[v] \in {"Banned", "Direct"} THEN @ ELSE Faulty]
      /\ UNCHANGED <<units, blocks, pings, pendingValues, evidenceOnly>>
    BY DEF AddEvidenceVertex, AddEvidence
<1>2. /\ faults \in [Validators -> {"none", "Banned", "Direct", "Indirect"}]
      /\ panorama \in [Validators -> DOMAIN units \cup {None, Faulty}]
      /\ faults[v] # "none" <=> panorama[v] = Faulty
    BY DEF IInv, Core, TypeOK, FaultsMatchPanorama
<1>3. panorama' = [panorama EXCEPT ![v] = Faulty]
    BY <1>1, <1>2
<1>4. faults' \in [Validators -> {"none", "Banned", "Direct", "Indirect"}] /\ faults'[v] # "none"
    BY <1>1, <1>2 DEF FaultWithEvidence
<1>5. \A x \in Validators \ {v} : faults'[x] = faults[x]
    BY <1>1, <1>2
<1> QED BY <1>1, <1>3, <1>4, <1>5, FaultStep

\* A validator was found faulty in another era.
LEMMA StepMarkFaulty ==
    ASSUME IInv, NEW v \in Validators, MarkValidatorFaulty(v)
    PROVE  IInv'
<1>1. /\ v \in Equivocators
      /\ panorama' = [panorama EXCEPT ![v] = Faulty]
      /\ faults' = [faults EXCEPT ![v] = IF @ = "none" THEN "Indirect" ELSE @]
      /\ UNCHANGED <<units, blocks, pings, pendingValues, evidenceOnly>>
    BY DEF MarkValidatorFaulty, MarkFaulty
<1>2. faults \in [Validators -> {"none", "Banned", "Direct", "Indirect"}]
    BY DEF IInv, Core, TypeOK
<1>3. /\ faults' \in [Validators -> {"none", "Banned", "Direct", "Indirect"}]
      /\ faults'[v] # "none"
      /\ \A x \in Validators \ {v} : faults'[x] = faults[x]
    BY <1>1, <1>2
<1> QED BY <1>1, <1>3, FaultStep

\* A ping arrives.
LEMMA StepAddPing ==
    ASSUME IInv, NEW v \in Validators, NEW t \in PingTimes, AddPingVertex(v, t)
    PROVE  IInv'
<1>1. /\ pings' = PingAt(v, t)
      /\ UNCHANGED <<units, blocks, faults, panorama, pendingValues, evidenceOnly>>
    BY DEF AddPingVertex, AddPing
<1>2. t \in Times
    BY ProtocolAssumption
<1>3. pings' \in [Validators -> Times]
    BY <1>1, <1>2 DEF PingAt, IInv, Core, TypeOK
<1>4. TypeOK'
    BY <1>1, <1>3 DEF IInv, Core, TypeOK
<1>5. FaultsMatchPanorama' /\ Latest' /\ OwnUnits' /\ HonestNotAccused'
    BY <1>1 DEF IInv, Core, FaultsMatchPanorama, Latest, OwnUnits, HonestNotAccused
<1>6. PendingInv' /\ Finite'
    BY <1>1 DEF IInv, PendingInv, Finite, Extends, NextSeqNum, Honest
<1> QED BY <1>4, <1>5, <1>6 DEF IInv, Core

\* Everything but the evidence is dropped.
LEMMA StepSetEvidenceOnly ==
    ASSUME IInv, SetEvidenceOnly
    PROVE  IInv'
<1>1. /\ DOMAIN units' = {} /\ DOMAIN blocks' = {} /\ pendingValues' = {}
      /\ panorama' = [v \in Validators |-> IF panorama[v] \in Hashes THEN None ELSE panorama[v]]
      /\ faults' = faults /\ pings' = pings /\ evidenceOnly' = TRUE
    BY DEF SetEvidenceOnly, RetainEvidenceOnly, IsCorrect
<1>2. /\ DOMAIN units \subseteq Hashes
      /\ panorama \in [Validators -> DOMAIN units \cup {None, Faulty}]
    BY DEF IInv, Core, TypeOK
<1>3. panorama' \in [Validators -> {None, Faulty}]
    BY <1>1, <1>2
<1>4. \A v \in Validators : panorama'[v] = Faulty <=> panorama[v] = Faulty
    BY <1>1, <1>2, ObservationAssumption
<1>5. TypeOK'
    BY <1>1, <1>3 DEF IInv, Core, TypeOK
<1>6. FaultsMatchPanorama'
    BY <1>1, <1>4 DEF IInv, Core, FaultsMatchPanorama
<1>7. Latest' /\ OwnUnits' /\ PendingInv'
    BY <1>1 DEF Latest, OwnUnits, PendingInv
<1>8. Finite'
    BY <1>1, FS_EmptySet DEF Finite
<1>9. HonestNotAccused'
    BY <1>1 DEF IInv, HonestNotAccused
<1> QED BY <1>5, <1>6, <1>7, <1>8, <1>9 DEF IInv, Core

-----------------------------------------------------------------------------
(* The theorems.                                                           *)

\* The invariant holds at first.
LEMMA InitInv ==
    ASSUME ProtocolInit PROVE IInv
<1>1. /\ DOMAIN units = {} /\ DOMAIN blocks = {} /\ pendingValues = {} /\ evidenceOnly = FALSE
      /\ faults = [v \in Validators |-> IF v \in Banned THEN "Banned" ELSE "none"]
      /\ panorama = [v \in Validators |-> IF v \in Banned THEN Faulty ELSE None]
      /\ pings = [v \in Validators |-> 0]
    BY DEF ProtocolInit, Init
<1>2. 0 \in Times
    BY StateAssumption DEF Times
<1>3. TypeOK
    BY <1>1, <1>2 DEF TypeOK
<1>4. FaultsMatchPanorama /\ HonestNotAccused
    BY <1>1, ObservationAssumption DEF FaultsMatchPanorama, HonestNotAccused
<1>5. Latest /\ OwnUnits /\ PendingInv
    BY <1>1 DEF Latest, OwnUnits, PendingInv
<1>6. Finite
    BY <1>1, FS_EmptySet DEF Finite
<1> QED BY <1>3, <1>4, <1>5, <1>6 DEF IInv, Core

\* The invariant is inductive.
LEMMA NextInv ==
    ASSUME IInv, [Next]_vars PROVE IInv'
<1>1. CASE \E pan \in CitablePanoramas, v \in Validators, t \in Times,
              re \in MinRoundExp .. MaxRoundExp, proposal \in BOOLEAN :
                  \/ AddVertex(WireUnit(v, pan, t, re, proposal))
                  \/ AwaitValidity(WireUnit(v, pan, t, re, proposal))
    BY <1>1, StepAddVertex, StepAwaitValidity
<1>2. CASE \E p \in pendingValues, valid \in BOOLEAN : ResolveValidity(p, valid)
    BY <1>2, StepResolveValidity
<1>3. CASE \E v \in Validators : AddEvidenceVertex(v)
    BY <1>3, StepAddEvidenceVertex
<1>4. CASE \E v \in Validators : MarkValidatorFaulty(v)
    BY <1>4, StepMarkFaulty
<1>5. CASE \E v \in Validators, t \in PingTimes : AddPingVertex(v, t)
    BY <1>5, StepAddPing
<1>6. CASE SetEvidenceOnly
    BY <1>6, StepSetEvidenceOnly
<1>7. CASE UNCHANGED vars
  <2>1. UNCHANGED <<units, blocks, faults, panorama, pings, pendingValues, evidenceOnly>>
      BY <1>7 DEF vars
  <2>2. Core' /\ HonestNotAccused'
      BY <2>1 DEF IInv, Core, TypeOK, FaultsMatchPanorama, Latest, OwnUnits, HonestNotAccused
  <2>3. PendingInv' /\ Finite'
      BY <2>1 DEF IInv, PendingInv, Finite, Extends, NextSeqNum, Honest
  <2> QED BY <2>2, <2>3 DEF IInv
<1> QED BY <1>1, <1>2, <1>3, <1>4, <1>5, <1>6, <1>7 DEF Next

\* The inductive invariant of the bookkeeping of faults (State::add_valid_unit,
\* State::add_evidence, State::mark_faulty, State::retain_evidence_only).
THEOREM Invariance == Spec => []IInv
<1>1. ProtocolInit => IInv
    BY InitInv
<1>2. IInv /\ [Next]_vars => IInv'
    BY NextInv
<1> QED BY <1>1, <1>2, PTL DEF Spec

\* Every observation refers to a unit that is known, through additions, faults and
\* the end of the era (State::panorama, Unit::panorama).
THEOREM ObservationsKnown == Spec => []TypeOK
<1>1. IInv => TypeOK
    BY DEF IInv, Core
<1> QED BY <1>1, Invariance, PTL

\* A validator is observed as faulty exactly if its fault is recorded
\* (State::panorama, State::faults).
THEOREM FaultsAgree == Spec => []FaultsMatchPanorama
<1>1. IInv => FaultsMatchPanorama
    BY DEF IInv, Core
<1> QED BY <1>1, Invariance, PTL

\* Two units of one validator with the same sequence number make it faulty, in
\* whatever order they arrive (State::add_valid_unit).
THEOREM EquivocationsFound == Spec => []EquivocationIsFault
<1>1. IInv => EquivocationIsFault
  <2> SUFFICES ASSUME IInv, NEW g \in DOMAIN units, NEW h \in DOMAIN units, g # h,
                      units[g].creator = units[h].creator, units[g].seq = units[h].seq,
                      faults[units[g].creator] = "none"
               PROVE  FALSE
      BY DEF EquivocationIsFault
  <2>1. units[g].creator \in Validators
      BY DEF IInv, Core, TypeOK
  <2>2. panorama[units[g].creator] # Faulty
      BY <2>1 DEF IInv, Core, FaultsMatchPanorama
  <2> QED BY <2>2 DEF IInv, Core, Latest
<1> QED BY <1>1, Invariance, PTL

\* A validator whose units continue its own swimlane is never taken for an
\* equivocator (State::add_valid_unit, HighwayProtocol::resolve_validity).
THEOREM HonestSafe == Spec => []HonestNotAccused
<1>1. IInv => HonestNotAccused
    BY DEF IInv
<1> QED BY <1>1, Invariance, PTL

\* No step forgets a fault or replaces evidence (State::add_evidence,
\* State::mark_faulty, State::retain_evidence_only).
THEOREM EvidenceSafe == Spec => EvidenceIsKept
<1> DEFINE Kept == \A v \in Validators :
               /\ faults[v] # "none" => faults'[v] # "none"
               /\ faults[v] \in {"Banned", "Direct"} => faults'[v] = faults[v]
<1>1. ASSUME IInv, [Next]_vars PROVE Kept
  <2>0. Core /\ faults \in [Validators -> {"none", "Banned", "Direct", "Indirect"}]
      BY <1>1 DEF IInv, Core, TypeOK
  <2>1. ASSUME NEW w \in WireUnits, NEW h \in Hashes, Extends(w), AddValidUnit(w, h)
        PROVE  Kept
    <3>1. /\ \A v \in Validators \ {w.creator} : faults'[v] = faults[v]
          /\ faults[w.creator] \in {"Banned", "Direct"} => faults'[w.creator] = faults[w.creator]
          /\ faults[w.creator] # "none" => faults'[w.creator] # "none"
        BY <2>0, <2>1, Observed
    <3> QED BY <3>1
  <2>2. ASSUME UNCHANGED faults PROVE Kept
      BY <2>2
  <2>3. CASE \E pan \in CitablePanoramas, v \in Validators, t \in Times,
                re \in MinRoundExp .. MaxRoundExp, proposal \in BOOLEAN :
                    \/ AddVertex(WireUnit(v, pan, t, re, proposal))
                    \/ AwaitValidity(WireUnit(v, pan, t, re, proposal))
    <3>1. PICK pan \in CitablePanoramas, v \in Validators, t \in Times,
               re \in MinRoundExp .. MaxRoundExp, proposal \in BOOLEAN :
                   \/ AddVertex(WireUnit(v, pan, t, re, proposal))
                   \/ AwaitValidity(WireUnit(v, pan, t, re, proposal))
        BY <2>3
    <3> DEFINE w == WireUnit(v, pan, t, re, proposal)
    <3>2. CASE AddVertex(w)
      <4>1. IsValid(w) /\ AddValidUnit(w, NextHash(w.creator))
          BY <3>2 DEF AddVertex
      <4>2. w \in WireUnits /\ Extends(w) /\ w.creator = v /\ NextHash(v) \in Hashes
          BY <4>1, <1>1, ValidExtends
      <4> HIDE DEF w, Kept
      <4> QED BY <4>1, <4>2, <2>1
    <3>3. CASE AwaitValidity(w)
        BY <3>3, <2>2 DEF AwaitValidity, stateVars
    <3> QED BY <3>1, <3>2, <3>3
  <2>4. CASE \E p \in pendingValues, valid \in BOOLEAN : ResolveValidity(p, valid)
    <3>1. PICK p \in pendingValues, valid \in BOOLEAN : ResolveValidity(p, valid)
        BY <2>4
    <3>2. p.unit \in WireUnits /\ p.hash \in Hashes /\ Extends(p.unit)
        BY <1>1 DEF IInv, PendingInv
    <3>3. AddValidUnit(p.unit, p.hash) \/ UNCHANGED faults
        BY <3>1 DEF ResolveValidity, stateVars
    <3> HIDE DEF Kept
    <3> QED BY <3>2, <3>3, <2>1, <2>2
  <2>5. CASE \E v \in Validators : AddEvidenceVertex(v)
      BY <2>5, <2>0 DEF AddEvidenceVertex, AddEvidence, FaultWithEvidence
  <2>6. CASE \E v \in Validators : MarkValidatorFaulty(v)
      BY <2>6, <2>0 DEF MarkValidatorFaulty, MarkFaulty
  <2>7. CASE \E v \in Validators, t \in PingTimes : AddPingVertex(v, t)
      BY <2>7, <2>2 DEF AddPingVertex, AddPing
  <2>8. CASE SetEvidenceOnly \/ UNCHANGED vars
      BY <2>8, <2>2 DEF SetEvidenceOnly, RetainEvidenceOnly, vars
  <2> HIDE DEF Kept
  <2> QED BY <1>1, <2>3, <2>4, <2>5, <2>6, <2>7, <2>8 DEF Next
<1>2. IInv /\ [Next]_vars => [Kept]_vars
    BY <1>1
<1> QED BY <1>2, Invariance, PTL DEF Spec, EvidenceIsKept

-----------------------------------------------------------------------------
(* Numbers.                                                                *)

\* A set of natural numbers that has the successors of its elements, and 0, has all:
\* otherwise there would be a least one that it lacks.
LEMMA AllNumbers ==
    ASSUME NEW Q \in SUBSET Nat, 0 \in Q, \A n \in Nat : n \in Q => n + 1 \in Q
    PROVE  Q = Nat
<1> DEFINE T == Nat \ Q
<1>1. SUFFICES ASSUME T # {} PROVE FALSE
  OBVIOUS
<1>2. IsWellFoundedOn(OpToRel(<, Nat), Nat)
  BY NatLessThanWellFounded
<1>3. PICK x \in T : \A y \in T : ~ (<<y, x>> \in OpToRel(<, Nat))
  BY <1>1, <1>2, WFMin
<1>4. \A y \in T : ~ (y < x)
  BY <1>3 DEF OpToRel
<1>5. x # 0 /\ x - 1 \in Nat /\ x - 1 \notin T
  BY <1>4
<1>6. QED
  BY <1>5

\* A set of natural numbers that is not empty has a least element.
LEMMA LeastNumber ==
    ASSUME NEW T \in SUBSET Nat, T # {}
    PROVE  \E x \in T : \A y \in T : x <= y
<1>1. IsWellFoundedOn(OpToRel(<, Nat), Nat)
  BY NatLessThanWellFounded
<1>2. PICK x \in T : \A y \in T : ~ (<<y, x>> \in OpToRel(<, Nat))
  BY <1>1, WFMin
<1>3. \A y \in T : ~ (y < x)
  BY <1>2 DEF OpToRel
<1>4. QED
  BY <1>3

-----------------------------------------------------------------------------
(* Powers of two.                                                          *)

\* f doubles from 1 on, up to n.
Doubles(f, n) == \A m \in 0 .. n : f[m] = IF m = 0 THEN 1 ELSE 2 * f[m - 1]

\* The powers of two are determined by their recursion.
LEMMA DoublesUnique ==
    ASSUME NEW n \in Nat, NEW f \in [Nat -> Nat], NEW g \in [Nat -> Nat],
           Doubles(f, n), Doubles(g, n)
    PROVE  f[n] = g[n]
<1> DEFINE Q == {m \in Nat : m <= n => f[m] = g[m]}
<1>1. 0 \in Q
  BY DEF Doubles
<1>2. ASSUME NEW m \in Nat, m \in Q PROVE m + 1 \in Q
  BY <1>2 DEF Doubles
<1>3. Q = Nat
  <2> HIDE DEF Q
  <2>0. Q \in SUBSET Nat
    BY DEF Q
  <2>1. QED
    BY <1>1, <1>2, <2>0, AllNumbers
<1>4. QED
  BY <1>3

\* There are as many powers of two as needed.
LEMMA DoublesExist ==
    ASSUME NEW n \in Nat
    PROVE  \E f \in [Nat -> Nat] : Doubles(f, n)
<1> DEFINE Q == {m \in Nat : \E f \in [Nat -> Nat] : Doubles(f, m)}
<1>1. 0 \in Q
  <2>1. [m \in Nat |-> 1] \in [Nat -> Nat] /\ Doubles([m \in Nat |-> 1], 0)
    BY DEF Doubles
  <2>2. QED
    BY <2>1
<1>2. ASSUME NEW m \in Nat, m \in Q PROVE m + 1 \in Q
  <2>1. PICK f \in [Nat -> Nat] : Doubles(f, m)
    BY <1>2
  <2> DEFINE g == [i \in Nat |-> IF i <= m THEN f[i] ELSE 2 * f[m]]
  <2>2. g \in [Nat -> Nat]
    OBVIOUS
  <2>3. Doubles(g, m + 1)
    BY <2>1 DEF Doubles
  <2> HIDE DEF g
  <2>4. QED
    BY <2>2, <2>3
<1>3. Q = Nat
  <2> HIDE DEF Q
  <2>0. Q \in SUBSET Nat
    BY DEF Q
  <2>1. QED
    BY <1>1, <1>2, <2>0, AllNumbers
<1>4. QED
  BY <1>3

\* Pow2 obeys its recursion.
LEMMA PowIs ==
    /\ Pow2[0] = 1
    /\ \A n \in Nat : Pow2[n] \in Nat /\ Pow2[n + 1] = 2 * Pow2[n]
<1> DEFINE to(n) == CHOOSE f \in [Nat -> Nat] : Doubles(f, n)
           p == [n \in Nat |-> to(n)[n]]
<1>1. \A n \in Nat : to(n) \in [Nat -> Nat] /\ Doubles(to(n), n)
  BY DoublesExist
<1> HIDE DEF to
<1>2. p[0] = 1
  <2>1. 0 \in Nat /\ 0 \in 0 .. 0
    OBVIOUS
  <2>2. to(0)[0] = 1
    BY <1>1, <2>1 DEF Doubles
  <2>3. QED
    BY <2>2
<1>3. ASSUME NEW n \in Nat PROVE p[n + 1] = 2 * p[n]
  <2>1. to(n + 1)[n + 1] = 2 * to(n + 1)[n]
    BY <1>1 DEF Doubles
  <2>2. to(n + 1) \in [Nat -> Nat] /\ Doubles(to(n + 1), n)
    <3>1. n + 1 \in Nat /\ \A m \in 0 .. n : m \in 0 .. n + 1
      OBVIOUS
    <3>2. to(n + 1) \in [Nat -> Nat] /\ Doubles(to(n + 1), n + 1)
      BY <1>1, <3>1
    <3>3. QED
      BY <3>1, <3>2 DEF Doubles
  <2>3. to(n + 1)[n] = to(n)[n]
    BY <1>1, <2>2, DoublesUnique
  <2>4. QED
    BY <2>1, <2>3
<1>4. p = [n \in Nat |-> IF n = 0 THEN 1 ELSE 2 * p[n - 1]]
  <2> SUFFICES ASSUME NEW n \in Nat PROVE p[n] = IF n = 0 THEN 1 ELSE 2 * p[n - 1]
    OBVIOUS
  <2>1. CASE n = 0
    BY <1>2, <2>1
  <2>2. CASE n # 0
    <3>1. n - 1 \in Nat /\ (n - 1) + 1 = n
      BY <2>2
    <3>2. p[(n - 1) + 1] = 2 * p[n - 1]
      BY <1>3, <3>1
    <3> HIDE DEF p
    <3>3. QED
      BY <3>1, <3>2, <2>2
  <2>3. QED
    BY <2>1, <2>2
<1> HIDE DEF p
<1>5. Pow2 = [n \in Nat |-> IF n = 0 THEN 1 ELSE 2 * Pow2[n - 1]]
  BY <1>4 DEF Pow2
<1>6. Pow2[0] = 1 /\ \A n \in Nat : Pow2[n + 1] = 2 * Pow2[n]
  BY <1>5
<1> DEFINE Q == {n \in Nat : Pow2[n] \in Nat}
<1>7. 0 \in Q /\ \A n \in Nat : n \in Q => n + 1 \in Q
  BY <1>6
<1>8. Q = Nat
  <2> HIDE DEF Q
  <2>0. Q \in SUBSET Nat
    BY DEF Q
  <2>1. QED
    BY <1>7, <2>0, AllNumbers
<1>9. QED
  BY <1>6, <1>8

\* A power of two is greater than its exponent.
LEMMA PowGrows ==
    ASSUME NEW n \in Nat PROVE Pow2[n] \in Nat /\ Pow2[n] > n
<1> DEFINE Q == {m \in Nat : Pow2[m] > m}
<1>1. 0 \in Q /\ \A m \in Nat : m \in Q => m + 1 \in Q
  BY PowIs
<1>2. Q = Nat
  <2> HIDE DEF Q
  <2>0. Q \in SUBSET Nat
    BY DEF Q
  <2>1. QED
    BY <1>1, <2>0, AllNumbers
<1>3. QED
  BY <1>2, PowIs

\* A power of two divides the greater ones.
LEMMA PowDivides ==
    ASSUME NEW m \in Nat, NEW n \in Nat, m <= n
    PROVE  \E q \in Nat \ {0} : Pow2[n] = Pow2[m] * q
<1> DEFINE Q == {k \in Nat : \E q \in Nat \ {0} : Pow2[m + k] = Pow2[m] * q}
<1>0. Pow2[m] \in Nat
  BY PowIs
<1>1. 0 \in Q
  <2>1. Pow2[m + 0] = Pow2[m] * 1
    BY <1>0
  <2>2. QED
    BY <2>1
<1>2. ASSUME NEW k \in Nat, k \in Q PROVE k + 1 \in Q
  <2>1. PICK q \in Nat \ {0} : Pow2[m + k] = Pow2[m] * q
    BY <1>2
  <2>2. Pow2[m + (k + 1)] = 2 * Pow2[m + k]
    BY PowIs
  <2>3. 2 * (Pow2[m] * q) = Pow2[m] * (2 * q) /\ 2 * q \in Nat \ {0}
    BY <1>0
  <2>4. QED
    BY <2>1, <2>2, <2>3
<1>3. Q = Nat
  <2> HIDE DEF Q
  <2>0. Q \in SUBSET Nat
    BY DEF Q
  <2>1. QED
    BY <1>1, <1>2, <2>0, AllNumbers
<1>4. n - m \in Nat /\ m + (n - m) = n
  OBVIOUS
<1>5. n - m \in Q
  <2> HIDE DEF Q
  <2>1. QED
    BY <1>3, <1>4
<1>6. \E q \in Nat \ {0} : Pow2[m + (n - m)] = Pow2[m] * q
  BY <1>5
<1>7. QED
  BY <1>4, <1>6

\* The powers of two grow.
LEMMA PowMonotone ==
    ASSUME NEW m \in Nat, NEW n \in Nat, m <= n
    PROVE  Pow2[m] <= Pow2[n]
<1>1. PICK q \in Nat \ {0} : Pow2[n] = Pow2[m] * q
  BY PowDivides
<1>2. Pow2[m] \in Nat
  BY PowIs
<1>3. \A p \in Nat : p <= p * q
  OBVIOUS
<1>4. QED
  BY <1>1, <1>2, <1>3

\* state::log2
LEMMA Log2OK ==
    ASSUME NEW x \in Nat \ {0}
    PROVE  Log2(x) \in 0 .. x /\ Pow2[Log2(x)] <= x
<1> DEFINE T == {i \in Nat : Pow2[i + 1] > x}
<1>1. x \in T
  <2>1. Pow2[x + 1] > x + 1 /\ Pow2[x + 1] \in Nat
    BY PowGrows
  <2>2. QED
    BY <2>1
<1>2. PICK i \in T : \A j \in T : i <= j
  <2> HIDE DEF T
  <2>1. T \in SUBSET Nat
    BY DEF T
  <2>2. QED
    BY <1>1, <2>1, LeastNumber
<1>3. i \in 0 .. x /\ Pow2[i + 1] > x
  BY <1>1, <1>2
<1>4. Pow2[i] <= x
  <2>1. CASE i = 0
    BY <2>1, PowIs
  <2>2. CASE i # 0
    <3>1. i - 1 \in Nat /\ i - 1 \notin T /\ (i - 1) + 1 = i
      BY <1>2, <2>2
    <3>2. Pow2[i] \in Nat
      BY <1>3, PowIs
    <3>3. QED
      BY <3>1, <3>2
  <2>3. QED
    BY <2>1, <2>2
<1>5. \E k \in 0 .. x : Pow2[k] <= x /\ Pow2[k + 1] > x
  BY <1>3, <1>4
<1>6. QED
  BY <1>5 DEF Log2

\* A number has no remainder exactly if it is a multiple.
LEMMA Multiple ==
    ASSUME NEW x \in Nat, NEW d \in Nat \ {0}
    PROVE  x % d = 0 <=> \E q \in Nat : x = d * q
<1>1. ASSUME x % d = 0 PROVE \E q \in Nat : x = d * q
  <2>1. x = d * (x \div d) + (x % d)
    OBVIOUS
  <2>2. x \div d \in Nat
    OBVIOUS
  <2>3. x = d * (x \div d)
    BY <1>1, <2>1, <2>2
  <2>4. QED
    BY <2>2, <2>3
<1>2. ASSUME NEW q \in Nat, x = d * q PROVE x % d = 0
  <2>1. (d * q) % d = 0
    OBVIOUS
  <2>2. QED
    BY <1>2, <2>1
<1>3. QED
  BY <1>1, <1>2

\* TrailingZeros is the exponent of the greatest power of two that divides x.
LEMMA ZerosOK ==
    ASSUME NEW x \in Nat \ {0}
    PROVE  /\ TrailingZeros(x) \in Nat
           /\ x % Pow2[TrailingZeros(x)] = 0
           /\ x % Pow2[TrailingZeros(x) + 1] # 0
<1> DEFINE T == {i \in Nat : x % Pow2[i + 1] # 0}
<1>1. x \in T
  <2>1. Pow2[x + 1] > x + 1 /\ Pow2[x + 1] \in Nat
    BY PowGrows
  <2>2. \A p \in Nat : p > x => x % p = x
    OBVIOUS
  <2>3. x % Pow2[x + 1] = x
    BY <2>1, <2>2
  <2>4. QED
    BY <2>3
<1>2. PICK i \in T : \A j \in T : i <= j
  <2> HIDE DEF T
  <2>1. T \in SUBSET Nat
    BY DEF T
  <2>2. QED
    BY <1>1, <2>1, LeastNumber
<1>3. i \in 0 .. x /\ x % Pow2[i + 1] # 0
  BY <1>1, <1>2
<1>4. x % Pow2[i] = 0
  <2>1. CASE i = 0
    <3>1. x % 1 = 0
      OBVIOUS
    <3>2. QED
      BY <2>1, <3>1, PowIs
  <2>2. CASE i # 0
    BY <1>2, <2>2
  <2>3. QED
    BY <2>1, <2>2
<1>5. \E k \in 0 .. x : x % Pow2[k] = 0 /\ x % Pow2[k + 1] # 0
  BY <1>3, <1>4
<1>6. QED
  BY <1>5 DEF TrailingZeros

\* The powers of two that divide x.
LEMMA ZerosGreatest ==
    ASSUME NEW x \in Nat \ {0}, NEW j \in Nat
    PROVE  x % Pow2[j] = 0 <=> j <= TrailingZeros(x)
<1> DEFINE z == TrailingZeros(x)
<1>1. z \in Nat /\ x % Pow2[z] = 0 /\ x % Pow2[z + 1] # 0
  BY ZerosOK
<1>2. \A n \in Nat : Pow2[n] \in Nat \ {0}
  BY PowGrows
<1> HIDE DEF z
<1>3. ASSUME NEW a \in Nat, NEW b \in Nat, a <= b, x % Pow2[b] = 0 PROVE x % Pow2[a] = 0
  <2>1. PICK q \in Nat : x = Pow2[b] * q
    BY <1>2, <1>3, Multiple
  <2>2. PICK r \in Nat \ {0} : Pow2[b] = Pow2[a] * r
    BY <1>3, PowDivides
  <2>3. (Pow2[a] * r) * q = Pow2[a] * (r * q) /\ r * q \in Nat
    BY <1>2
  <2>4. x = Pow2[a] * (r * q)
    BY <2>1, <2>2, <2>3
  <2>5. QED
    BY <1>2, <2>3, <2>4, Multiple
<1>4. ASSUME j <= z PROVE x % Pow2[j] = 0
  BY <1>1, <1>3, <1>4
<1>5. ASSUME x % Pow2[j] = 0, ~ (j <= z) PROVE FALSE
  <2>1. z + 1 <= j /\ z + 1 \in Nat
    BY <1>1, <1>5
  <2>2. QED
    BY <1>1, <1>3, <1>5, <2>1
<1>6. QED
  BY <1>4, <1>5 DEF z

\* The entry of a skip list that is used to find the next one has a list that is
\* long enough.
LEMMA ZerosBelow ==
    ASSUME NEW x \in Nat \ {0}, NEW i \in Nat, i + 1 <= TrailingZeros(x), NEW y \in Nat,
           y + Pow2[i] = x
    PROVE  y # 0 /\ i <= TrailingZeros(y)
<1>0. Pow2[i] \in Nat \ {0} /\ Pow2[i + 1] = 2 * Pow2[i] /\ Pow2[i + 1] \in Nat \ {0}
  BY PowGrows, PowIs
<1>1. x % Pow2[i + 1] = 0
  BY ZerosGreatest
<1>2. PICK q \in Nat : x = Pow2[i + 1] * q
  BY <1>0, <1>1, Multiple
<1> DEFINE p == Pow2[i]
<1>3. p \in Nat \ {0} /\ y + p = (2 * p) * q
  BY <1>0, <1>2
<1> HIDE DEF p
<1>4. q # 0
  BY <1>3
<1>5. y = p * (2 * q - 1) /\ 2 * q - 1 \in Nat \ {0}
  <2>1. (2 * p) * q - p = p * (2 * q - 1)
    BY <1>3
  <2>2. QED
    BY <1>3, <1>4, <2>1
<1>6. y # 0
  BY <1>3, <1>5
<1>7. y % p = 0
  BY <1>3, <1>5, Multiple
<1>8. QED
  BY <1>6, <1>7, ZerosGreatest DEF p

-----------------------------------------------------------------------------
(* Skip lists: of units by sequence number, and of blocks by height.       *)

\* Every entry points to the entries that are 1, 2, 4, ... places before it, as many
\* as its index has trailing zeros, and the first.
Skips(D, lists, index) ==
    /\ DOMAIN lists = D
    /\ \A x \in D :
           /\ index[x] \in Nat
           /\ lists[x] \in Seq(D)
           /\ Len(lists[x]) = IF index[x] = 0 THEN 0 ELSE TrailingZeros(index[x]) + 1
           /\ \A i \in 1 .. Len(lists[x]) : index[lists[x][i]] + Pow2[i - 1] = index[x]

\* The lists stay within E.
Within(E, lists) == \A x \in E : \A i \in 1 .. Len(lists[x]) : lists[x][i] \in E

\* Where the search goes on from x.
Hop(lists, index, x, target) == lists[x][Min({Log2(index[x] - target) + 1, Len(lists[x])})]

\* What the search finds at x if f is what it finds elsewhere.
Find(lists, index, target, f, x) ==
    IF index[x] < target THEN None
    ELSE IF index[x] = target THEN x
    ELSE f[Hop(lists, index, x, target)]

\* The lesser of two numbers.
LEMMA MinOfTwo ==
    ASSUME NEW a \in Nat, NEW b \in Nat
    PROVE  Min({a, b}) \in {a, b} /\ Min({a, b}) <= a /\ Min({a, b}) <= b
<1>1. \E x \in {a, b} : \A y \in {a, b} : x <= y
  <2>1. CASE a <= b
    BY <2>1
  <2>2. CASE b <= a
    BY <2>2
  <2>3. QED
    BY <2>1, <2>2
<1>2. Min({a, b}) = CHOOSE x \in {a, b} : \A y \in {a, b} : x <= y
  BY DEF Min
<1> DEFINE m == CHOOSE x \in {a, b} : \A y \in {a, b} : x <= y
<1>3. m \in {a, b} /\ \A y \in {a, b} : m <= y
  BY <1>1
<1> HIDE DEF m
<1>4. QED
  BY <1>2, <1>3 DEF m

\* The search goes back, never past the index it looks for.
LEMMA HopOK ==
    ASSUME NEW D, NEW lists, NEW index, Skips(D, lists, index), NEW target \in Nat, NEW x \in D,
           ~ (index[x] < target), index[x] # target
    PROVE  /\ \E i \in 1 .. Len(lists[x]) : Hop(lists, index, x, target) = lists[x][i]
           /\ Hop(lists, index, x, target) \in D
           /\ index[Hop(lists, index, x, target)] \in Nat
           /\ target <= index[Hop(lists, index, x, target)]
           /\ index[Hop(lists, index, x, target)] < index[x]
<1>1. /\ index[x] \in Nat
      /\ lists[x] \in Seq(D)
      /\ Len(lists[x]) = IF index[x] = 0 THEN 0 ELSE TrailingZeros(index[x]) + 1
      /\ \A i \in 1 .. Len(lists[x]) : index[lists[x][i]] + Pow2[i - 1] = index[x]
  BY DEF Skips
<1> DEFINE d == index[x] - target
           m == Min({Log2(d) + 1, Len(lists[x])})
<1>2. d \in Nat \ {0} /\ index[x] \in Nat \ {0}
  BY <1>1
<1>3. Log2(d) \in Nat /\ Pow2[Log2(d)] <= d
  BY <1>2, Log2OK
<1>4. Len(lists[x]) \in Nat \ {0}
  <2>1. TrailingZeros(index[x]) \in Nat
    BY <1>2, ZerosOK
  <2>2. QED
    BY <1>1, <1>2, <2>1
<1>5. m \in 1 .. Len(lists[x]) /\ m - 1 <= Log2(d) /\ m - 1 \in Nat
  <2> HIDE DEF d
  <2>1. m \in {Log2(d) + 1, Len(lists[x])} /\ m <= Log2(d) + 1 /\ m <= Len(lists[x])
    BY <1>3, <1>4, MinOfTwo
  <2>2. QED
    BY <1>3, <1>4, <2>1
<1>6. Hop(lists, index, x, target) = lists[x][m]
  BY DEF Hop
<1> HIDE DEF m
<1> DEFINE y == lists[x][m]
<1>7. y \in D /\ index[y] + Pow2[m - 1] = index[x]
  BY <1>1, <1>5
<1>8. index[y] \in Nat
  BY <1>7 DEF Skips
<1>9. Pow2[m - 1] <= Pow2[Log2(d)] /\ Pow2[m - 1] \in Nat \ {0} /\ Pow2[Log2(d)] \in Nat
  <2> HIDE DEF d
  <2>1. QED
    BY <1>3, <1>5, PowMonotone, PowGrows
<1>10. target <= index[y] /\ index[y] < index[x]
  <2>1. Pow2[m - 1] <= d
    <3> HIDE DEF d
    <3>1. QED
      BY <1>2, <1>3, <1>9
  <2> HIDE DEF y
  <2>2. QED
    BY <1>1, <1>2, <1>7, <1>8, <1>9, <2>1
<1>11. QED
  BY <1>5, <1>6, <1>7, <1>8, <1>10

\* f is what the search finds at the entries with an index of at most n.
FindsTo(D, lists, index, target, f, n) ==
    \A x \in D : index[x] <= n => f[x] = Find(lists, index, target, f, x)

\* Two searches that obey the recursion find the same.
LEMMA FindsUnique ==
    ASSUME NEW D, NEW lists, NEW index, Skips(D, lists, index), NEW target \in Nat, NEW n \in Nat,
           NEW f, NEW g, FindsTo(D, lists, index, target, f, n),
           FindsTo(D, lists, index, target, g, n)
    PROVE  \A x \in D : index[x] <= n => f[x] = g[x]
<1> DEFINE Q == {k \in Nat : \A x \in D : index[x] < k /\ index[x] <= n => f[x] = g[x]}
<1>0. \A x \in D : index[x] \in Nat
  BY DEF Skips
<1>1. 0 \in Q
  BY <1>0
<1>2. ASSUME NEW k \in Nat, k \in Q PROVE k + 1 \in Q
  <2> SUFFICES ASSUME NEW x \in D, index[x] < k + 1, index[x] <= n PROVE f[x] = g[x]
    OBVIOUS
  <2>1. /\ f[x] = Find(lists, index, target, f, x)
        /\ g[x] = Find(lists, index, target, g, x)
    BY DEF FindsTo
  <2>2. CASE index[x] < target \/ index[x] = target
    BY <2>1, <2>2 DEF Find
  <2>3. CASE ~ (index[x] < target) /\ index[x] # target
    <3> DEFINE y == Hop(lists, index, x, target)
    <3>1. y \in D /\ index[y] \in Nat /\ index[y] < index[x]
      BY <2>3, HopOK
    <3>2. f[x] = f[y] /\ g[x] = g[y]
      BY <2>1, <2>3 DEF Find
    <3> HIDE DEF y
    <3>3. index[y] < k /\ index[y] <= n
      BY <1>0, <3>1
    <3>4. QED
      BY <1>2, <3>1, <3>2, <3>3
  <2>4. QED
    BY <2>2, <2>3
<1>3. Q = Nat
  <2> HIDE DEF Q
  <2>0. Q \in SUBSET Nat
    BY DEF Q
  <2>1. QED
    BY <1>1, <1>2, <2>0, AllNumbers
<1>4. ASSUME NEW x \in D, index[x] <= n PROVE f[x] = g[x]
  <2>1. index[x] + 1 \in Q /\ index[x] < index[x] + 1
    <3> HIDE DEF Q
    <3>1. QED
      BY <1>0, <1>3
  <2>2. QED
    BY <1>4, <2>1
<1>5. QED
  BY <1>4

\* There is a search that obeys the recursion.
LEMMA FindsExist ==
    ASSUME NEW D, NEW lists, NEW index, Skips(D, lists, index), NEW target \in Nat, NEW n \in Nat
    PROVE  \E f : FindsTo(D, lists, index, target, f, n)
<1> DEFINE Q == {k \in Nat : \E f : FindsTo(D, lists, index, target, f, k)}
<1>0. \A x \in D : index[x] \in Nat
  BY DEF Skips
<1>1. 0 \in Q
  <2> DEFINE f == [x \in D |-> Find(lists, index, target, [y \in D |-> None], x)]
  <2>1. ASSUME NEW x \in D, index[x] <= 0 PROVE f[x] = Find(lists, index, target, f, x)
    <3>1. index[x] < target \/ index[x] = target
      BY <1>0, <2>1
    <3>2. QED
      BY <3>1 DEF Find
  <2>2. FindsTo(D, lists, index, target, f, 0)
    <3> HIDE DEF f
    <3>1. QED
      BY <2>1 DEF FindsTo
  <2>3. QED
    BY <2>2
<1>2. ASSUME NEW k \in Nat, k \in Q PROVE k + 1 \in Q
  <2>1. PICK f : FindsTo(D, lists, index, target, f, k)
    BY <1>2
  <2> DEFINE g == [x \in D |-> Find(lists, index, target, f, x)]
  <2>2. ASSUME NEW x \in D, index[x] <= k + 1 PROVE g[x] = Find(lists, index, target, g, x)
    <3>1. g[x] = Find(lists, index, target, f, x)
      OBVIOUS
    <3>2. CASE index[x] < target \/ index[x] = target
      BY <3>1, <3>2 DEF Find
    <3>3. CASE ~ (index[x] < target) /\ index[x] # target
      <4> DEFINE y == Hop(lists, index, x, target)
      <4>1. y \in D /\ index[y] \in Nat /\ index[y] < index[x]
        BY <3>3, HopOK
      <4>2. Find(lists, index, target, f, x) = f[y] /\ Find(lists, index, target, g, x) = g[y]
        BY <3>3 DEF Find
      <4>3. g[y] = Find(lists, index, target, f, y)
        BY <4>1
      <4> HIDE DEF y, g
      <4>4. index[y] <= k
        BY <1>0, <2>2, <4>1
      <4>5. f[y] = Find(lists, index, target, f, y)
        BY <2>1, <4>1, <4>4 DEF FindsTo
      <4>6. QED
        BY <3>1, <4>2, <4>3, <4>5
    <3>4. QED
      BY <3>2, <3>3
  <2>3. FindsTo(D, lists, index, target, g, k + 1)
    <3> HIDE DEF g
    <3>1. QED
      BY <2>2 DEF FindsTo
  <2>4. QED
    BY <2>3
<1>3. Q = Nat
  <2> HIDE DEF Q
  <2>0. Q \in SUBSET Nat
    BY DEF Q
  <2>1. QED
    BY <1>1, <1>2, <2>0, AllNumbers
<1>4. QED
  BY <1>3

\* Back is the search along the lists: the function that it is defined by exists.
LEMMA BackIs ==
    ASSUME NEW D, NEW lists, NEW index, Skips(D, lists, index), NEW target \in Nat
    PROVE  \E f : /\ \A x \in D : f[x] = Find(lists, index, target, f, x)
                 /\ \A h : Back(lists, index, h, target) = f[h]
<1> DEFINE to(n) == CHOOSE f : FindsTo(D, lists, index, target, f, n)
           p == [x \in D |-> to(index[x])[x]]
<1>0. \A x \in D : index[x] \in Nat
  BY DEF Skips
<1>1. \A n \in Nat : FindsTo(D, lists, index, target, to(n), n)
  BY FindsExist
<1> HIDE DEF to
<1>2. ASSUME NEW x \in D PROVE p[x] = Find(lists, index, target, p, x)
  <2>1. p[x] = to(index[x])[x]
    OBVIOUS
  <2>2. to(index[x])[x] = Find(lists, index, target, to(index[x]), x)
    BY <1>0, <1>1 DEF FindsTo
  <2>3. CASE index[x] < target \/ index[x] = target
    BY <2>1, <2>2, <2>3 DEF Find
  <2>4. CASE ~ (index[x] < target) /\ index[x] # target
    <3> DEFINE y == Hop(lists, index, x, target)
    <3>1. y \in D /\ index[y] \in Nat /\ index[y] < index[x]
      BY <2>4, HopOK
    <3>2. /\ Find(lists, index, target, to(index[x]), x) = to(index[x])[y]
          /\ Find(lists, index, target, p, x) = p[y]
      BY <2>4 DEF Find
    <3>3. p[y] = to(index[y])[y]
      BY <3>1
    <3> HIDE DEF y, p
    <3>4. FindsTo(D, lists, index, target, to(index[x]), index[y])
      <4>1. \A z \in D : index[z] <= index[y] => index[z] <= index[x]
        BY <1>0, <3>1
      <4>2. FindsTo(D, lists, index, target, to(index[x]), index[x])
        BY <1>0, <1>1
      <4>3. QED
        BY <4>1, <4>2 DEF FindsTo
    <3>5. FindsTo(D, lists, index, target, to(index[y]), index[y]) /\ index[y] <= index[y]
      BY <1>1, <3>1
    <3>6. to(index[x])[y] = to(index[y])[y]
      BY <3>1, <3>4, <3>5, FindsUnique
    <3>7. QED
      BY <2>1, <2>2, <3>2, <3>3, <3>6
  <2>5. QED
    BY <2>3, <2>4
<1>3. p = [x \in D |-> Find(lists, index, target, p, x)]
  <2>1. p = [x \in D |-> p[x]]
    OBVIOUS
  <2> HIDE DEF p
  <2>2. QED
    BY <1>2, <2>1
<1> HIDE DEF p
<1> DEFINE find == CHOOSE k : k = [x \in D |-> Find(lists, index, target, k, x)]
<1>4. find = [x \in D |-> Find(lists, index, target, find, x)]
  BY <1>3
<1>5. ASSUME NEW h PROVE Back(lists, index, h, target) = find[h]
  BY DEF Back, Find, Hop, Skips
<1> HIDE DEF find
<1>6. QED
  BY <1>4, <1>5

\* The search from an entry of E finds the only entry of E with the index.
LEMMA BackFinds ==
    ASSUME NEW D, NEW lists, NEW index, Skips(D, lists, index),
           NEW E \in SUBSET D, Within(E, lists), NEW h \in E, NEW x \in E,
           index[h] <= index[x],
           \A g \in E : index[g] = index[h] => g = h
    PROVE  Back(lists, index, x, index[h]) = h
<1> DEFINE target == index[h]
<1>0. \A y \in D : index[y] \in Nat
  BY DEF Skips
<1>1. target \in Nat
  BY <1>0
<1>2. PICK f : /\ \A y \in D : f[y] = Find(lists, index, target, f, y)
               /\ \A y : Back(lists, index, y, target) = f[y]
  <2> HIDE DEF target
  <2>1. QED
    BY <1>1, BackIs
<1> DEFINE Q == {k \in Nat : \A y \in E : index[y] < k /\ target <= index[y] => f[y] = h}
<1>3. 0 \in Q
  BY <1>0
<1>4. ASSUME NEW k \in Nat, k \in Q PROVE k + 1 \in Q
  <2> SUFFICES ASSUME NEW y \in E, index[y] < k + 1, target <= index[y] PROVE f[y] = h
    OBVIOUS
  <2>1. f[y] = Find(lists, index, target, f, y) /\ index[y] \in Nat
    BY <1>0, <1>2
  <2>2. CASE index[y] = target
    <3>1. y = h
      BY <2>2
    <3>2. ~ (index[y] < target)
      BY <1>1, <2>2
    <3>3. QED
      BY <2>1, <2>2, <3>1, <3>2 DEF Find
  <2>3. CASE index[y] # target
    <3>0. ~ (index[y] < target)
      BY <1>1, <2>1
    <3> DEFINE z == Hop(lists, index, y, target)
    <3> HIDE DEF target
    <3>1. /\ \E i \in 1 .. Len(lists[y]) : z = lists[y][i]
          /\ z \in D /\ index[z] \in Nat /\ target <= index[z] /\ index[z] < index[y]
      BY <1>1, <2>3, <3>0, HopOK
    <3>2. z \in E
      BY <3>1 DEF Within
    <3>3. f[y] = f[z]
      BY <2>1, <2>3, <3>0 DEF Find
    <3> HIDE DEF z
    <3>4. index[z] < k
      BY <2>1, <3>1
    <3>5. QED
      BY <1>4, <3>1, <3>2, <3>3, <3>4
  <2>4. QED
    BY <2>2, <2>3
<1>5. Q = Nat
  <2> HIDE DEF Q
  <2>0. Q \in SUBSET Nat
    BY DEF Q
  <2>1. QED
    BY <1>3, <1>4, <2>0, AllNumbers
<1>6. index[x] \in Nat /\ index[x] + 1 \in Q /\ index[x] < index[x] + 1
  <2> HIDE DEF Q
  <2>1. QED
    BY <1>0, <1>5
<1>7. f[x] = h
  BY <1>6
<1>8. QED
  BY <1>2, <1>7

\* The entries that SkipList follows one after the other.
Follows(lists, prev, f, n) == f = [i \in 0 .. n |-> IF i = 0 THEN prev ELSE lists[f[i - 1]][i]]

\* There are entries that obey the recursion of SkipList.
LEMMA EntriesExist ==
    ASSUME NEW lists, NEW prev, NEW n \in Nat
    PROVE  \E f : Follows(lists, prev, f, n)
<1> DEFINE Q == {k \in Nat : \E f : Follows(lists, prev, f, k)}
<1>1. 0 \in Q
  <2> DEFINE f == [i \in 0 .. 0 |-> prev]
  <2>1. Follows(lists, prev, f, 0)
    BY DEF Follows
  <2>2. QED
    BY <2>1
<1>2. ASSUME NEW k \in Nat, k \in Q PROVE k + 1 \in Q
  <2>1. PICK f : Follows(lists, prev, f, k)
    BY <1>2
  <2> DEFINE g == [i \in 0 .. k + 1 |-> IF i <= k THEN f[i] ELSE lists[f[k]][k + 1]]
  <2>2. ASSUME NEW i \in 0 .. k + 1
        PROVE  g[i] = IF i = 0 THEN prev ELSE lists[g[i - 1]][i]
    <3>1. CASE i = 0
      BY <2>1, <3>1 DEF Follows
    <3>2. CASE i # 0 /\ i <= k
      <4>1. g[i] = f[i] /\ g[i - 1] = f[i - 1] /\ i \in 0 .. k
        BY <3>2
      <4>2. f[i] = lists[f[i - 1]][i]
        BY <2>1, <3>2, <4>1 DEF Follows
      <4>3. QED
        BY <3>2, <4>1, <4>2
    <3>3. CASE i = k + 1
      <4>1. g[k] = f[k] /\ g[i] = lists[f[k]][k + 1] /\ i - 1 = k /\ i # 0
        BY <3>3
      <4>2. QED
        BY <3>3, <4>1
    <3>4. QED
      BY <3>1, <3>2, <3>3
  <2>3. g = [i \in 0 .. k + 1 |-> g[i]]
    OBVIOUS
  <2> HIDE DEF g
  <2>4. Follows(lists, prev, g, k + 1)
    BY <2>2, <2>3 DEF Follows
  <2>5. QED
    BY <2>4
<1>3. Q = Nat
  <2> HIDE DEF Q
  <2>0. Q \in SUBSET Nat
    BY DEF Q
  <2>1. QED
    BY <1>1, <1>2, <2>0, AllNumbers
<1>4. QED
  BY <1>3

\* The skip list of a new entry after prev.
LEMMA SkipListOK ==
    ASSUME NEW D, NEW lists, NEW index, Skips(D, lists, index),
           NEW E \in SUBSET D, Within(E, lists), NEW prev \in E
    PROVE  LET s == SkipList(lists, prev, index[prev] + 1) IN
           /\ s \in Seq(E)
           /\ Len(s) = TrailingZeros(index[prev] + 1) + 1
           /\ \A i \in 1 .. Len(s) : index[s[i]] + Pow2[i - 1] = index[prev] + 1
<1> DEFINE new == index[prev] + 1
           z == TrailingZeros(new)
<1>0. \A y \in D : index[y] \in Nat
  BY DEF Skips
<1>1. new \in Nat \ {0} /\ index[prev] \in Nat
  BY <1>0
<1>2. z \in Nat
  BY <1>1, ZerosOK
<1> DEFINE entry == CHOOSE f : f = [i \in 0 .. z |-> IF i = 0 THEN prev ELSE lists[f[i - 1]][i]]
<1>3. entry = [i \in 0 .. z |-> IF i = 0 THEN prev ELSE lists[entry[i - 1]][i]]
  <2> HIDE DEF z, entry
  <2>1. PICK g : Follows(lists, prev, g, z)
    BY <1>2, EntriesExist
  <2>2. g = [i \in 0 .. z |-> IF i = 0 THEN prev ELSE lists[g[i - 1]][i]]
    BY <2>1 DEF Follows
  <2>3. QED
    BY <2>2 DEF entry
<1>4. SkipList(lists, prev, new) = [i \in 1 .. z + 1 |-> entry[i - 1]]
  BY DEF SkipList
<1> HIDE DEF entry, z
<1> DEFINE Q == {i \in Nat : i <= z => entry[i] \in E /\ index[entry[i]] + Pow2[i] = new}
<1>5. 0 \in Q
  <2>1. entry[0] = prev
    BY <1>2, <1>3
  <2>2. QED
    BY <2>1, PowIs
<1>6. ASSUME NEW i \in Nat, i \in Q PROVE i + 1 \in Q
  <2> SUFFICES ASSUME i + 1 <= z
               PROVE  entry[i + 1] \in E /\ index[entry[i + 1]] + Pow2[i + 1] = new
    OBVIOUS
  <2> DEFINE e == entry[i]
             y == index[e]
  <2>1. e \in E /\ y + Pow2[i] = new /\ y \in Nat
    <3>1. i <= z
      BY <1>2
    <3>2. QED
      BY <1>0, <1>6, <3>1
  <2>2. y # 0 /\ i <= TrailingZeros(y)
    <3> HIDE DEF y, new
    <3>1. QED
      BY <1>1, <2>1, ZerosBelow DEF z
  <2>3. entry[i + 1] = lists[e][i + 1]
    <3>1. i + 1 \in 0 .. z /\ i + 1 # 0 /\ (i + 1) - 1 = i
      BY <1>2
    <3>2. entry[i + 1] = IF i + 1 = 0 THEN prev ELSE lists[entry[(i + 1) - 1]][i + 1]
      BY <1>3, <3>1
    <3>3. QED
      BY <3>1, <3>2
  <2>4. /\ Len(lists[e]) = TrailingZeros(y) + 1
        /\ \A j \in 1 .. Len(lists[e]) : index[lists[e][j]] + Pow2[j - 1] = y
    BY <2>1, <2>2 DEF Skips
  <2>5. i + 1 \in 1 .. Len(lists[e]) /\ (i + 1) - 1 = i
    <3>1. TrailingZeros(y) \in Nat
      <4> HIDE DEF y
      <4>1. QED
        BY <2>1, <2>2, ZerosOK
    <3> HIDE DEF y, e
    <3>2. QED
      BY <2>2, <2>4, <3>1
  <2>6. entry[i + 1] \in E
    BY <2>1, <2>3, <2>5 DEF Within
  <2>7. index[entry[i + 1]] + Pow2[i] = y
    <3>1. index[lists[e][i + 1]] + Pow2[(i + 1) - 1] = y
      BY <2>4, <2>5
    <3>2. QED
      BY <2>3, <2>5, <3>1
  <2>8. Pow2[i] \in Nat /\ Pow2[i + 1] = 2 * Pow2[i] /\ index[entry[i + 1]] \in Nat
    BY <1>0, <2>6, PowIs
  <2> HIDE DEF y, e, new
  <2>9. QED
    BY <2>1, <2>6, <2>7, <2>8
<1>7. Q = Nat
  <2> HIDE DEF Q
  <2>0. Q \in SUBSET Nat
    BY DEF Q
  <2>1. QED
    BY <1>5, <1>6, <2>0, AllNumbers
<1> DEFINE s == [i \in 1 .. z + 1 |-> entry[i - 1]]
<1>8. \A i \in 1 .. z + 1 : s[i] \in E /\ index[s[i]] + Pow2[i - 1] = new
  <2> SUFFICES ASSUME NEW i \in 1 .. z + 1
               PROVE  s[i] \in E /\ index[s[i]] + Pow2[i - 1] = new
    OBVIOUS
  <2>1. i - 1 \in Nat /\ i - 1 <= z /\ s[i] = entry[i - 1]
    BY <1>2
  <2>2. i - 1 \in Q
    <3> HIDE DEF Q
    <3>1. QED
      BY <1>7, <2>1
  <2> HIDE DEF s, new
  <2>3. QED
    BY <2>1, <2>2
<1>9. s \in Seq(E) /\ Len(s) = z + 1
  <2>1. \A i \in 1 .. z + 1 : entry[i - 1] \in E
    BY <1>8
  <2> HIDE DEF Q
  <2>2. z + 1 \in Nat
    BY <1>2
  <2>3. QED
    BY <2>1, <2>2
<1> HIDE DEF s
<1>10. QED
  BY <1>4, <1>8, <1>9 DEF s, z

-----------------------------------------------------------------------------
(* The swimlanes of the validators.                                        *)

SkipLists == [x \in DOMAIN units |-> units[x].skip]
SeqNumbers == [x \in DOMAIN units |-> units[x].seq]

\* The skip list of a unit has older units of its creator.
Swimlanes ==
    /\ Skips(DOMAIN units, SkipLists, SeqNumbers)
    /\ \A v \in Validators : Within(UnitsBy(v), SkipLists)

\* Unit::new: the skip list of a new unit.
LEMMA SwimlanesAdd ==
    ASSUME Core, Swimlanes, NEW w \in WireUnits, NEW h \in Hashes, Extends(w), AddValidUnit(w, h)
    PROVE  Swimlanes'
<1> DEFINE c == w.creator
           prev == w.panorama[c]
           D == DOMAIN units
           skip == units'[h].skip
<1>0. c \in Validators /\ w.seq \in Nat
  BY DEF WireUnits
<1>1. /\ h \notin D
      /\ DOMAIN units' = D \cup {h}
      /\ \A x \in D : units'[x] = units[x]
      /\ units'[h].creator = c
      /\ units'[h].seq = w.seq
  BY UnitsGrow
<1>2. skip = IF IsCorrect(prev) THEN SkipList(SkipLists, prev, w.seq) ELSE <<>>
  <2>1. units'[h] = NewUnit(w, h)
    BY DEF AddValidUnit
  <2>2. QED
    BY <2>1 DEF NewUnit, SkipLists
<1>3. \A x \in D : SkipLists[x] = units[x].skip /\ SeqNumbers[x] = units[x].seq
  BY DEF SkipLists, SeqNumbers
<1>4. /\ DOMAIN SkipLists' = D \cup {h}
      /\ \A x \in D : SkipLists'[x] = SkipLists[x] /\ SeqNumbers'[x] = SeqNumbers[x]
      /\ SkipLists'[h] = skip /\ SeqNumbers'[h] = w.seq
  BY <1>1 DEF SkipLists, SeqNumbers
<1>5. \A x \in D : SeqNumbers[x] \in Nat
  BY DEF Swimlanes, Skips
\* The list of the new unit.
<1>6. /\ skip \in Seq(UnitsBy(c))
      /\ Len(skip) = IF w.seq = 0 THEN 0 ELSE TrailingZeros(w.seq) + 1
      /\ \A i \in 1 .. Len(skip) : SeqNumbers[skip[i]] + Pow2[i - 1] = w.seq
  <2>1. CASE IsCorrect(prev)
    <3>1. prev \in D /\ units[prev].creator = c /\ w.seq = units[prev].seq + 1
      BY <1>0, <2>1 DEF Extends, IsCorrect, NextSeqNum
    <3>2. prev \in UnitsBy(c) /\ UnitsBy(c) \in SUBSET D
      BY <3>1 DEF UnitsBy
    <3>3. w.seq = SeqNumbers[prev] + 1 /\ w.seq # 0
      BY <1>3, <1>5, <3>1
    <3>4. Skips(D, SkipLists, SeqNumbers) /\ Within(UnitsBy(c), SkipLists)
      BY <1>0 DEF Swimlanes
    <3> DEFINE s == SkipList(SkipLists, prev, SeqNumbers[prev] + 1)
    <3>5. /\ s \in Seq(UnitsBy(c))
          /\ Len(s) = TrailingZeros(SeqNumbers[prev] + 1) + 1
          /\ \A i \in 1 .. Len(s) : SeqNumbers[s[i]] + Pow2[i - 1] = SeqNumbers[prev] + 1
      <4> HIDE DEF D, prev, c
      <4>1. QED
        BY <3>2, <3>4, SkipListOK
    <3>6. skip = s
      BY <1>2, <2>1, <3>3
    <3> HIDE DEF skip, s
    <3>7. QED
      BY <3>3, <3>5, <3>6
  <2>2. CASE ~ IsCorrect(prev)
    <3>1. skip = <<>> /\ w.seq = 0
      BY <1>2, <2>2 DEF Extends, NextSeqNum
    <3> HIDE DEF skip
    <3>2. QED
      BY <3>1
  <2>3. QED
    BY <2>1, <2>2
<1> HIDE DEF skip
<1>7. Skips(D \cup {h}, SkipLists', SeqNumbers')
  <2>1. ASSUME NEW x \in D \cup {h}
        PROVE  /\ SeqNumbers'[x] \in Nat
               /\ SkipLists'[x] \in Seq(D \cup {h})
               /\ Len(SkipLists'[x]) =
                      IF SeqNumbers'[x] = 0 THEN 0 ELSE TrailingZeros(SeqNumbers'[x]) + 1
               /\ \A i \in 1 .. Len(SkipLists'[x]) :
                      SeqNumbers'[SkipLists'[x][i]] + Pow2[i - 1] = SeqNumbers'[x]
    <3>1. CASE x = h
      <4>1. skip \in Seq(D) /\ skip \in Seq(D \cup {h})
        BY <1>6 DEF UnitsBy
      <4>2. \A i \in 1 .. Len(skip) : SeqNumbers'[skip[i]] = SeqNumbers[skip[i]]
        BY <1>4, <4>1
      <4>3. QED
        BY <1>0, <1>4, <1>6, <3>1, <4>1, <4>2
    <3>2. CASE x \in D
      <4>1. /\ SkipLists[x] \in Seq(D)
            /\ Len(SkipLists[x]) =
                   IF SeqNumbers[x] = 0 THEN 0 ELSE TrailingZeros(SeqNumbers[x]) + 1
            /\ \A i \in 1 .. Len(SkipLists[x]) :
                   SeqNumbers[SkipLists[x][i]] + Pow2[i - 1] = SeqNumbers[x]
        BY <3>2 DEF Swimlanes, Skips
      <4>2. \A i \in 1 .. Len(SkipLists[x]) :
                SeqNumbers'[SkipLists[x][i]] = SeqNumbers[SkipLists[x][i]]
        BY <1>4, <4>1
      <4>3. SkipLists[x] \in Seq(D \cup {h})
        BY <4>1
      <4>4. SkipLists'[x] = SkipLists[x] /\ SeqNumbers'[x] = SeqNumbers[x]
        BY <1>4, <3>2
      <4>5. QED
        BY <1>5, <3>2, <4>1, <4>2, <4>3, <4>4
    <3>3. QED
      BY <3>1, <3>2
  <2>2. QED
    BY <1>4, <2>1 DEF Skips
<1>8. ASSUME NEW v \in Validators PROVE Within(UnitsBy(v)', SkipLists')
  <2>1. UnitsBy(v)' = {x \in D \cup {h} : units'[x].creator = v}
    BY <1>1 DEF UnitsBy
  <2>2. UnitsBy(v) \subseteq UnitsBy(v)'
    BY <1>1, <2>1 DEF UnitsBy
  <2>3. ASSUME NEW x \in UnitsBy(v)', NEW i \in 1 .. Len(SkipLists'[x])
        PROVE  SkipLists'[x][i] \in UnitsBy(v)'
    <3>1. CASE x = h
      <4>1. v = c
        BY <1>1, <2>1, <3>1
      <4>2. SkipLists'[x] = skip
        BY <1>4, <3>1
      <4>3. skip[i] \in UnitsBy(v)
        BY <1>6, <4>1, <4>2
      <4>4. QED
        BY <2>2, <4>2, <4>3
    <3>2. CASE x \in D
      <4>1. x \in UnitsBy(v)
        BY <1>1, <2>1, <3>2 DEF UnitsBy
      <4>2. SkipLists'[x] = SkipLists[x]
        BY <1>4, <3>2
      <4>3. SkipLists[x][i] \in UnitsBy(v)
        BY <4>1, <4>2 DEF Swimlanes, Within
      <4>4. QED
        BY <2>2, <4>2, <4>3
    <3>3. QED
      BY <2>1, <3>1, <3>2
  <2>4. QED
    BY <2>3 DEF Within
<1>9. QED
  BY <1>1, <1>7, <1>8 DEF Swimlanes

\* The swimlanes survive every step.
LEMMA SwimlanesStep == IInv /\ Swimlanes /\ [Next]_vars => Swimlanes'
<1> SUFFICES ASSUME IInv, Swimlanes, [Next]_vars PROVE Swimlanes'
  OBVIOUS
<1>0. Core
  BY DEF IInv
<1>1. CASE UNCHANGED units
  BY <1>1 DEF Swimlanes, SkipLists, SeqNumbers, UnitsBy
<1>2. ASSUME NEW pan \in CitablePanoramas, NEW v \in Validators, NEW t \in Times,
             NEW re \in MinRoundExp .. MaxRoundExp, NEW proposal \in BOOLEAN,
             AddVertex(WireUnit(v, pan, t, re, proposal))
      PROVE  Swimlanes'
  <2> DEFINE w == WireUnit(v, pan, t, re, proposal)
  <2>1. IsValid(w) /\ AddValidUnit(w, NextHash(w.creator))
    BY <1>2 DEF AddVertex
  <2>2. w \in WireUnits /\ Extends(w) /\ w.creator = v /\ NextHash(v) \in Hashes
    BY <2>1, ValidExtends
  <2> HIDE DEF w
  <2>3. QED
    BY <1>0, <2>1, <2>2, SwimlanesAdd
<1>3. ASSUME NEW pan \in CitablePanoramas, NEW v \in Validators, NEW t \in Times,
             NEW re \in MinRoundExp .. MaxRoundExp, NEW proposal \in BOOLEAN,
             AwaitValidity(WireUnit(v, pan, t, re, proposal))
      PROVE  UNCHANGED units
  BY <1>3 DEF AwaitValidity, stateVars
<1>4. ASSUME NEW p \in pendingValues, NEW valid \in BOOLEAN, ResolveValidity(p, valid)
      PROVE  Swimlanes'
  <2>1. p.unit \in WireUnits /\ p.hash \in Hashes /\ Extends(p.unit)
    BY DEF IInv, PendingInv
  <2>2. AddValidUnit(p.unit, p.hash) \/ UNCHANGED units
    BY <1>4 DEF ResolveValidity, stateVars
  <2>3. QED
    BY <1>0, <1>1, <2>1, <2>2, SwimlanesAdd
<1>5. ASSUME NEW v \in Validators, AddEvidenceVertex(v) \/ MarkValidatorFaulty(v)
      PROVE  UNCHANGED units
  BY <1>5 DEF AddEvidenceVertex, AddEvidence, MarkValidatorFaulty, MarkFaulty
<1>6. ASSUME NEW v \in Validators, NEW t \in PingTimes, AddPingVertex(v, t)
      PROVE  UNCHANGED units
  BY <1>6 DEF AddPingVertex, AddPing
<1>7. CASE SetEvidenceOnly
  <2>1. DOMAIN units' = {}
    BY <1>7 DEF SetEvidenceOnly, RetainEvidenceOnly
  <2>2. QED
    BY <2>1 DEF Swimlanes, Skips, Within, SkipLists, SeqNumbers, UnitsBy
<1>8. CASE UNCHANGED vars
  BY <1>1, <1>8 DEF vars
<1>9. QED
  BY <1>1, <1>2, <1>3, <1>4, <1>5, <1>6, <1>7, <1>8 DEF Next

\* The swimlanes are always right.
LEMMA SwimlanesHold == Spec => []Swimlanes
<1>1. ProtocolInit => Swimlanes
  <2> SUFFICES ASSUME ProtocolInit PROVE Swimlanes
    OBVIOUS
  <2>1. DOMAIN units = {}
    BY DEF ProtocolInit, Init
  <2> QED
    BY <2>1 DEF Swimlanes, Skips, Within, SkipLists, SeqNumbers, UnitsBy
<1> QED
  BY <1>1, Invariance, SwimlanesStep, PTL DEF Spec

\* The panorama has the latest unit of every validator that is not known to be
\* faulty, and find_in_swimlane gets from it to each of the others, along the skip
\* lists that add_valid_unit builds (LatestUnits).
THEOREM LatestReached == Spec => []LatestUnits
<1>2. IInv /\ Swimlanes => LatestUnits
  <2> SUFFICES ASSUME IInv, Swimlanes, NEW h \in DOMAIN units,
                      panorama[units[h].creator] # Faulty
               PROVE  LET v == units[h].creator IN
                      /\ panorama[v] # None
                      /\ units[panorama[v]].creator = v
                      /\ units[h].seq <= units[panorama[v]].seq
                      /\ FindInSwimlane(units, panorama[v], units[h].seq) = h
    BY DEF LatestUnits
  <2> DEFINE v == units[h].creator
             latest == panorama[v]
             D == DOMAIN units
             E == UnitsBy(v)
  <2>1. /\ latest \in D
        /\ units[latest].creator = v
        /\ units[h].seq <= units[latest].seq
        /\ \A g \in D : units[g].creator = v /\ units[g].seq = units[h].seq => g = h
    BY DEF IInv, Core, Latest
  <2>2. latest # None /\ v \in Validators
    BY <2>1, ObservationAssumption DEF IInv, Core, TypeOK
  <2>3. E \in SUBSET D /\ h \in E /\ latest \in E
    BY <2>1 DEF UnitsBy
  <2>4. Skips(D, SkipLists, SeqNumbers) /\ Within(E, SkipLists)
    BY <2>2 DEF Swimlanes
  <2>5. \A x \in D : SeqNumbers[x] = units[x].seq
    BY DEF SeqNumbers
  <2>6. /\ SeqNumbers[h] <= SeqNumbers[latest]
        /\ \A g \in E : SeqNumbers[g] = SeqNumbers[h] => g = h
    BY <2>1, <2>5 DEF UnitsBy
  <2>7. Back(SkipLists, SeqNumbers, latest, SeqNumbers[h]) = h
    <3> HIDE DEF D, E, latest, v
    <3>1. QED
      BY <2>3, <2>4, <2>6, BackFinds
  <2>8. FindInSwimlane(units, latest, units[h].seq) = h
    BY <2>5, <2>7 DEF FindInSwimlane, SkipLists, SeqNumbers
  <2>9. QED
    BY <2>1, <2>2, <2>8
<1>3. QED
  BY <1>2, Invariance, SwimlanesHold, PTL

-----------------------------------------------------------------------------
(* Finite sets and sums over them.                                         *)

\* Induction over the subsets of a finite set.
LEMMA FiniteInduction ==
    ASSUME NEW S, IsFiniteSet(S), NEW P \in SUBSET SUBSET S, {} \in P,
           \A T \in P : \A x \in S \ T : T \cup {x} \in P
    PROVE  S \in P
<1> DEFINE Q == {n \in Nat : \A T \in SUBSET S : Cardinality(T) = n => T \in P}
<1>0. \A T \in SUBSET S : IsFiniteSet(T) /\ Cardinality(T) \in Nat /\ (Cardinality(T) = 0 <=> T = {})
  BY FS_Subset, FS_CardinalityType, FS_EmptySet
<1>1. 0 \in Q
  BY <1>0
<1>2. ASSUME NEW n \in Nat, n \in Q PROVE n + 1 \in Q
  <2> SUFFICES ASSUME NEW T \in SUBSET S, Cardinality(T) = n + 1 PROVE T \in P
    OBVIOUS
  <2>1. PICK x \in T : TRUE
    BY <1>0
  <2>2. T \ {x} \in SUBSET S /\ Cardinality(T \ {x}) = n
    <3>1. IsFiniteSet(T)
      BY <1>0
    <3>2. Cardinality(T \ {x}) = Cardinality(T) - 1
      BY <2>1, <3>1, FS_RemoveElement
    <3> QED
      BY <3>2
  <2>3. T \ {x} \in P /\ x \in S \ (T \ {x})
    BY <1>2, <2>1, <2>2
  <2>4. T = (T \ {x}) \cup {x}
    BY <2>1
  <2> QED
    BY <2>3, <2>4
<1>3. Q = Nat
  <2>0. Q \in SUBSET Nat
    OBVIOUS
  <2> HIDE DEF Q
  <2> QED
    BY <1>1, <1>2, <2>0, AllNumbers
<1> QED
  BY <1>0, <1>3

\* The values of g in S are natural numbers.
Numbers(g, S) == \A x \in S : g[x] \in Nat

\* One step of the fold: an element is taken out of the set.
Taken(s) == CHOOSE x \in s : TRUE
Added(g, h, s) == IF s = {} THEN 0 ELSE g[Taken(s)] + h[s \ {Taken(s)}]

\* h gives the sum of g over every subset of S.
IsFold(g, h, S) == \A s \in SUBSET S : h[s] = Added(g, h, s)

\* An element is taken from a finite set.
LEMMA TakenOK ==
    ASSUME NEW S, IsFiniteSet(S), NEW s \in SUBSET S, s # {}
    PROVE  /\ Taken(s) \in s /\ s \ {Taken(s)} \in SUBSET S
           /\ Cardinality(s) \in Nat
           /\ Cardinality(s \ {Taken(s)}) = Cardinality(s) - 1
<1>1. Taken(s) \in s
  BY DEF Taken
<1>2. IsFiniteSet(s)
  BY FS_Subset
<1>3. QED
  BY <1>1, <1>2, FS_RemoveElement, FS_CardinalityType

\* The function that the fold is defined by exists.
LEMMA FoldExists ==
    ASSUME NEW S, IsFiniteSet(S), NEW g, Numbers(g, S)
    PROVE  \E h \in [SUBSET S -> Nat] : IsFold(g, h, S)
<1> DEFINE Upto(n) == {h \in [SUBSET S -> Nat] :
                          \A s \in SUBSET S : Cardinality(s) <= n => h[s] = Added(g, h, s)}
           Q == {n \in Nat : Upto(n) # {}}
<1>0. \A s \in SUBSET S : IsFiniteSet(s) /\ Cardinality(s) \in Nat /\ (Cardinality(s) = 0 <=> s = {})
  BY FS_Subset, FS_CardinalityType, FS_EmptySet
<1>1. 0 \in Q
  <2>1. [s \in SUBSET S |-> 0] \in Upto(0)
    BY <1>0 DEF Added
  <2>2. QED
    BY <2>1
<1>2. ASSUME NEW n \in Nat, n \in Q PROVE n + 1 \in Q
  <2>1. PICK h \in Upto(n) : TRUE
    BY <1>2
  <2> DEFINE k == [s \in SUBSET S |-> Added(g, h, s)]
  <2>2. k \in [SUBSET S -> Nat]
    <3> SUFFICES ASSUME NEW s \in SUBSET S PROVE Added(g, h, s) \in Nat
      OBVIOUS
    <3>1. CASE s = {}
      BY <3>1 DEF Added
    <3>2. CASE s # {}
      <4>1. g[Taken(s)] \in Nat /\ h[s \ {Taken(s)}] \in Nat
        BY <3>2, TakenOK, <2>1 DEF Numbers
      <4>2. QED
        BY <4>1, <3>2 DEF Added
    <3>3. QED
      BY <3>1, <3>2
  <2>3. ASSUME NEW s \in SUBSET S, Cardinality(s) <= n + 1 PROVE k[s] = Added(g, k, s)
    <3>1. CASE s = {}
      BY <3>1 DEF Added
    <3>2. CASE s # {}
      <4>1. s \ {Taken(s)} \in SUBSET S /\ Cardinality(s \ {Taken(s)}) <= n
        BY <3>2, <2>3, TakenOK
      <4>2. h[s \ {Taken(s)}] = k[s \ {Taken(s)}]
        BY <4>1, <2>1
      <4>3. QED
        BY <4>2, <3>2 DEF Added
    <3>3. QED
      BY <3>1, <3>2
  <2>4. k \in Upto(n + 1)
    BY <2>2, <2>3
  <2> HIDE DEF k, Upto
  <2>5. QED
    BY <2>4
<1>3. Q = Nat
  <2>0. Q \in SUBSET Nat
    OBVIOUS
  <2>2. \A n \in Nat : n \in Q => n + 1 \in Q
    BY <1>2
  <2> HIDE DEF Q
  <2>1. QED
    BY <1>1, <2>2, <2>0, AllNumbers
<1>4. PICK h \in Upto(Cardinality(S)) : TRUE
  BY <1>3, FS_CardinalityType
<1>5. \A s \in SUBSET S : Cardinality(s) <= Cardinality(S)
  BY FS_Subset
<1>6. IsFold(g, h, S)
  BY <1>4, <1>5 DEF IsFold
<1>7. QED
  BY <1>4, <1>6

\* It is the only one.
LEMMA FoldUnique ==
    ASSUME NEW S, IsFiniteSet(S), NEW g, NEW h, NEW k, IsFold(g, h, S), IsFold(g, k, S)
    PROVE  \A s \in SUBSET S : h[s] = k[s]
<1> DEFINE Q == {n \in Nat : \A s \in SUBSET S : Cardinality(s) = n => h[s] = k[s]}
<1>0. \A s \in SUBSET S : IsFiniteSet(s) /\ Cardinality(s) \in Nat /\ (Cardinality(s) = 0 <=> s = {})
  BY FS_Subset, FS_CardinalityType, FS_EmptySet
<1>1. 0 \in Q
  BY <1>0 DEF Added, IsFold
<1>2. ASSUME NEW n \in Nat, n \in Q PROVE n + 1 \in Q
  <2>1. ASSUME NEW s \in SUBSET S, Cardinality(s) = n + 1 PROVE h[s] = k[s]
    <3>1. s # {}
      BY <1>0, <2>1
    <3>2. s \ {Taken(s)} \in SUBSET S /\ Cardinality(s \ {Taken(s)}) = n
      BY <3>1, <2>1, TakenOK
    <3>3. h[s \ {Taken(s)}] = k[s \ {Taken(s)}]
      BY <3>2, <1>2
    <3>4. QED
      BY <3>1, <3>3 DEF Added, IsFold
  <2>2. QED
    BY <2>1
<1>3. \A n \in Nat : n \in Q => n + 1 \in Q
  BY <1>2
<1>4. Q \in SUBSET Nat
  OBVIOUS
<1>5. Q = Nat
  <2> HIDE DEF Q
  <2>1. QED
    BY <1>1, <1>3, <1>4, AllNumbers
<1>6. QED
  BY <1>0, <1>5

\* h has the sums over all subsets of S.
Sums(g, h, S) == \A T \in SUBSET S : SumFunctionOnSet(g, T) = h[T]

\* The sums over all subsets of a set are the values of one such function.
LEMMA SumByFold ==
    ASSUME NEW S, IsFiniteSet(S), NEW g, Numbers(g, S)
    PROVE  \E h \in [SUBSET S -> Nat] : IsFold(g, h, S) /\ Sums(g, h, S)
<1>1. PICK h \in [SUBSET S -> Nat] : IsFold(g, h, S)
  BY FoldExists
<1>2. ASSUME NEW T \in SUBSET S PROVE SumFunctionOnSet(g, T) = h[T]
  <2> DEFINE iter == CHOOSE k : k = [s \in SUBSET T |-> Added(g, k, s)]
             low == [s \in SUBSET T |-> h[s]]
  <2>1. SumFunctionOnSet(g, T) = iter[T]
    BY DEF SumFunctionOnSet, FoldFunctionOnSet, MapThenFoldSet, Added, Taken
  <2>2. IsFiniteSet(T) /\ SUBSET T \subseteq SUBSET S
    BY FS_Subset
  <2>3. \A s \in SUBSET T : low[s] = Added(g, low, s)
    <3> SUFFICES ASSUME NEW s \in SUBSET T PROVE low[s] = Added(g, low, s)
      OBVIOUS
    <3>1. h[s] = Added(g, h, s)
      BY <1>1, <2>2 DEF IsFold
    <3>2. s \ {Taken(s)} \in SUBSET T
      OBVIOUS
    <3> QED
      BY <3>1, <3>2 DEF Added
  <2>4. low = [s \in SUBSET T |-> Added(g, low, s)]
    BY <2>3
  <2> HIDE DEF low
  <2>5. iter = [s \in SUBSET T |-> Added(g, iter, s)]
    BY <2>4
  <2> HIDE DEF iter
  <2>6. IsFold(g, iter, T) /\ IsFold(g, low, T)
    BY <2>3, <2>5 DEF IsFold
  <2>7. iter[T] = low[T]
    BY <2>2, <2>6, FoldUnique
  <2> QED
    BY <2>1, <2>7 DEF low
<1>3. Sums(g, h, S)
  BY <1>2 DEF Sums
<1> QED
  BY <1>1, <1>3

\* It does not matter which element is taken.
AnyFirst(g, h, S) == \A T \in SUBSET S : \A x \in T : h[T] = g[x] + h[T \ {x}]

\* The order in which a sum is formed does not matter.
LEMMA FoldAnyElement ==
    ASSUME NEW S, IsFiniteSet(S), NEW g, Numbers(g, S),
           NEW h \in [SUBSET S -> Nat], IsFold(g, h, S)
    PROVE  AnyFirst(g, h, S)
<1> DEFINE Q == {n \in Nat : \A T \in SUBSET S : Cardinality(T) = n =>
                                \A x \in T : h[T] = g[x] + h[T \ {x}]}
<1>0. \A s \in SUBSET S : IsFiniteSet(s) /\ Cardinality(s) \in Nat /\ (Cardinality(s) = 0 <=> s = {})
  BY FS_Subset, FS_CardinalityType, FS_EmptySet
<1>1. 0 \in Q
  BY <1>0
<1>2. ASSUME NEW n \in Nat, n \in Q PROVE n + 1 \in Q
  <2> SUFFICES ASSUME NEW T \in SUBSET S, Cardinality(T) = n + 1, NEW x \in T
               PROVE  h[T] = g[x] + h[T \ {x}]
    OBVIOUS
  <2> DEFINE y == Taken(T)
  <2>1. y \in T /\ T \ {y} \in SUBSET S /\ Cardinality(T \ {y}) = n
    BY TakenOK
  <2>2. h[T] = g[y] + h[T \ {y}]
    BY DEF IsFold, Added
  <2> HIDE DEF y
  <2>3. CASE x = y
    BY <2>2, <2>3
  <2>4. CASE x # y
    <3> DEFINE r == (T \ {y}) \ {x}
    <3>1. h[T \ {y}] = g[x] + h[r]
      BY <1>2, <2>1, <2>4
    <3>2. T \ {x} \in SUBSET S /\ Cardinality(T \ {x}) = n
      BY <1>0, FS_RemoveElement
    <3>3. h[T \ {x}] = g[y] + h[(T \ {x}) \ {y}]
      BY <1>2, <2>1, <2>4, <3>2
    <3>4. (T \ {x}) \ {y} = r
      OBVIOUS
    <3>5. h[r] \in Nat /\ g[x] \in Nat /\ g[y] \in Nat
      <4>1. r \in SUBSET S
        OBVIOUS
      <4> HIDE DEF r
      <4> QED
        BY <2>1, <4>1 DEF Numbers
    <3> DEFINE p == h[T \ {x}]
               q == h[T \ {y}]
    <3>6. h[T] = g[y] + q /\ q = g[x] + h[r] /\ p = g[y] + h[r]
      BY <2>2, <3>1, <3>3, <3>4
    <3> HIDE DEF r, p, q
    <3>7. h[T] = g[x] + p
      BY <3>5, <3>6
    <3> QED
      BY <3>7 DEF p
  <2> QED
    BY <2>3, <2>4
<1>3. Q = Nat
  <2>0. Q \in SUBSET Nat
    OBVIOUS
  <2> HIDE DEF Q
  <2> QED
    BY <1>1, <1>2, <2>0, AllNumbers
<1> QED
  BY <1>0, <1>3 DEF AnyFirst

\* Sums are numbers, and an element more adds its value.
LEMMA SumIs ==
    ASSUME NEW S, IsFiniteSet(S), NEW g, Numbers(g, S)
    PROVE  /\ SumFunctionOnSet(g, {}) = 0
           /\ \A T \in SUBSET S : SumFunctionOnSet(g, T) \in Nat
           /\ \A T \in SUBSET S : \A x \in S \ T :
                  SumFunctionOnSet(g, T \cup {x}) = g[x] + SumFunctionOnSet(g, T)
<1>1. PICK h \in [SUBSET S -> Nat] : IsFold(g, h, S) /\ Sums(g, h, S)
  BY SumByFold
<1>0. \A T \in SUBSET S : SumFunctionOnSet(g, T) = h[T]
  BY <1>1 DEF Sums
<1>2. h[{}] = 0
  BY <1>1 DEF IsFold, Added
<1>3. ASSUME NEW T \in SUBSET S, NEW x \in S \ T
      PROVE  SumFunctionOnSet(g, T \cup {x}) = g[x] + SumFunctionOnSet(g, T)
  <2>1. T \cup {x} \in SUBSET S /\ (T \cup {x}) \ {x} = T
    OBVIOUS
  <2>2. h[T \cup {x}] = g[x] + h[T]
    <3>1. AnyFirst(g, h, S)
      BY <1>1, FoldAnyElement
    <3> QED
      BY <2>1, <3>1 DEF AnyFirst
  <2> QED
    BY <1>0, <2>1, <2>2
<1>4. {} \in SUBSET S /\ \A T \in SUBSET S : h[T] \in Nat
  OBVIOUS
<1> QED
  BY <1>0, <1>2, <1>3, <1>4

\* The sum over two sets that have nothing in common.
LEMMA SumOfTwo ==
    ASSUME NEW A, NEW B, IsFiniteSet(A), IsFiniteSet(B), A \cap B = {},
           NEW g, Numbers(g, A \cup B)
    PROVE  SumFunctionOnSet(g, A \cup B) = SumFunctionOnSet(g, A) + SumFunctionOnSet(g, B)
<1> DEFINE P == {T \in SUBSET B : SumFunctionOnSet(g, A \cup T)
                                  = SumFunctionOnSet(g, A) + SumFunctionOnSet(g, T)}
<1>1. IsFiniteSet(A \cup B)
  BY FS_Union
<1>2. /\ SumFunctionOnSet(g, {}) = 0
      /\ \A T \in SUBSET (A \cup B) : SumFunctionOnSet(g, T) \in Nat
      /\ \A T \in SUBSET (A \cup B) : \A x \in (A \cup B) \ T :
              SumFunctionOnSet(g, T \cup {x}) = g[x] + SumFunctionOnSet(g, T)
  BY <1>1, SumIs
<1>3. {} \in P
  <2>1. A \cup {} = A /\ A \in SUBSET (A \cup B)
    OBVIOUS
  <2>2. SumFunctionOnSet(g, A) \in Nat
    BY <1>2, <2>1
  <2>3. SumFunctionOnSet(g, A) = SumFunctionOnSet(g, A) + 0
    BY <2>2
  <2> QED
    BY <1>2, <2>1, <2>3
<1>4. ASSUME NEW T \in P, NEW x \in B \ T PROVE T \cup {x} \in P
  <2>1. /\ A \cup (T \cup {x}) = (A \cup T) \cup {x}
        /\ A \cup T \in SUBSET (A \cup B) /\ x \in (A \cup B) \ (A \cup T)
        /\ T \in SUBSET (A \cup B) /\ x \in (A \cup B) \ T /\ A \in SUBSET (A \cup B)
    OBVIOUS
  <2>2. SumFunctionOnSet(g, A \cup (T \cup {x})) = g[x] + SumFunctionOnSet(g, A \cup T)
    BY <1>2, <2>1
  <2>3. SumFunctionOnSet(g, T \cup {x}) = g[x] + SumFunctionOnSet(g, T)
    BY <1>2, <2>1
  <2>4. SumFunctionOnSet(g, A \cup T) = SumFunctionOnSet(g, A) + SumFunctionOnSet(g, T)
    OBVIOUS
  <2>5. g[x] \in Nat /\ SumFunctionOnSet(g, A) \in Nat /\ SumFunctionOnSet(g, T) \in Nat
    BY <1>2, <2>1 DEF Numbers
  <2>6. SumFunctionOnSet(g, A \cup (T \cup {x})) = SumFunctionOnSet(g, A) + SumFunctionOnSet(g, T \cup {x})
    BY <2>2, <2>3, <2>4, <2>5
  <2> QED
    BY <2>6
<1>5. P \in SUBSET SUBSET B
  OBVIOUS
<1>6. B \in P
  <2> HIDE DEF P
  <2> QED
    BY <1>3, <1>4, <1>5, FiniteInduction
<1> QED
  BY <1>6

\* A larger set has no smaller sum, and one with a positive value a positive sum.
LEMMA SumGrows ==
    ASSUME NEW A, NEW B, IsFiniteSet(B), A \subseteq B, NEW g, Numbers(g, B)
    PROVE  /\ SumFunctionOnSet(g, A) \in Nat /\ SumFunctionOnSet(g, B) \in Nat
           /\ SumFunctionOnSet(g, A) <= SumFunctionOnSet(g, B)
           /\ \A x \in B : g[x] <= SumFunctionOnSet(g, B)
<1>1. IsFiniteSet(A) /\ IsFiniteSet(B \ A) /\ A \cup (B \ A) = B /\ A \cap (B \ A) = {}
  BY FS_Subset
<1>2. \A T \in SUBSET B : SumFunctionOnSet(g, T) \in Nat
  BY SumIs
<1>3. SumFunctionOnSet(g, B) = SumFunctionOnSet(g, A) + SumFunctionOnSet(g, B \ A)
  <2>1. Numbers(g, A \cup (B \ A))
    BY <1>1
  <2>2. SumFunctionOnSet(g, A \cup (B \ A)) = SumFunctionOnSet(g, A) + SumFunctionOnSet(g, B \ A)
    BY <1>1, <2>1, SumOfTwo
  <2> QED
    BY <1>1, <2>2
<1>4. ASSUME NEW x \in B PROVE g[x] <= SumFunctionOnSet(g, B)
  <2>1. B \ {x} \in SUBSET B /\ x \in B \ (B \ {x}) /\ (B \ {x}) \cup {x} = B
    OBVIOUS
  <2>2. SumFunctionOnSet(g, (B \ {x}) \cup {x}) = g[x] + SumFunctionOnSet(g, B \ {x})
    BY <2>1, SumIs
  <2>3. SumFunctionOnSet(g, B \ {x}) \in Nat /\ g[x] \in Nat
    BY <1>2, <2>1 DEF Numbers
  <2>4. SumFunctionOnSet(g, B) = g[x] + SumFunctionOnSet(g, B \ {x})
    BY <2>1, <2>2
  <2>5. g[x] <= g[x] + SumFunctionOnSet(g, B \ {x})
    BY <2>3
  <2> QED
    BY <2>4, <2>5
<1>5. SumFunctionOnSet(g, A) \in Nat /\ SumFunctionOnSet(g, B) \in Nat /\ SumFunctionOnSet(g, B \ A) \in Nat
  BY <1>2
<1>6. SumFunctionOnSet(g, A) <= SumFunctionOnSet(g, A) + SumFunctionOnSet(g, B \ A)
  BY <1>5
<1> QED
  BY <1>3, <1>4, <1>5, <1>6

\* The sum of the values of a set is the sum of those of its parts, which F tells
\* apart.
LEMMA SumOfParts ==
    ASSUME NEW A, IsFiniteSet(A), NEW T, IsFiniteSet(T), NEW F, \A a \in A : F[a] \in T,
           NEW f, Numbers(f, A),
           NEW g, \A x \in T : g[x] = SumFunctionOnSet(f, {a \in A : F[a] = x})
    PROVE  SumFunctionOnSet(g, T) = SumFunctionOnSet(f, A)
<1> DEFINE part(U) == {a \in A : F[a] \in U}
           P == {U \in SUBSET T : SumFunctionOnSet(g, U) = SumFunctionOnSet(f, part(U))}
<1>1. \A U : IsFiniteSet(part(U)) /\ part(U) \in SUBSET A
  BY FS_Subset
<1>2. Numbers(g, T)
  <2> SUFFICES ASSUME NEW x \in T PROVE g[x] \in Nat
    BY DEF Numbers
  <2>1. {a \in A : F[a] = x} \in SUBSET A
    OBVIOUS
  <2>2. \A B \in SUBSET A : SumFunctionOnSet(f, B) \in Nat
    BY SumIs
  <2>3. g[x] = SumFunctionOnSet(f, {a \in A : F[a] = x})
    OBVIOUS
  <2> QED
    BY <2>1, <2>2, <2>3
<1>3. /\ SumFunctionOnSet(g, {}) = 0
      /\ \A U \in SUBSET T : \A x \in T \ U :
              SumFunctionOnSet(g, U \cup {x}) = g[x] + SumFunctionOnSet(g, U)
  BY <1>2, SumIs
<1>4. SumFunctionOnSet(f, {}) = 0 /\ \A B \in SUBSET A : SumFunctionOnSet(f, B) \in Nat
  BY SumIs
<1>5. {} \in P
  <2>1. part({}) = {}
    OBVIOUS
  <2> HIDE DEF part
  <2> QED
    BY <1>3, <1>4, <2>1
<1>6. ASSUME NEW U \in P, NEW x \in T \ U PROVE U \cup {x} \in P
  <2> DEFINE B == {a \in A : F[a] = x}
  <2>1. part(U \cup {x}) = part(U) \cup B /\ part(U) \cap B = {} /\ B \in SUBSET A
    OBVIOUS
  <2>2. IsFiniteSet(B) /\ Numbers(f, part(U) \cup B)
    BY FS_Subset DEF Numbers
  <2>3. g[x] = SumFunctionOnSet(f, B)
    OBVIOUS
  <2> HIDE DEF B, part
  <2>4. SumFunctionOnSet(f, part(U) \cup B) = SumFunctionOnSet(f, part(U)) + SumFunctionOnSet(f, B)
    BY <1>1, <2>1, <2>2, SumOfTwo
  <2>5. SumFunctionOnSet(g, U \cup {x}) = g[x] + SumFunctionOnSet(g, U)
    BY <1>3
  <2>6. SumFunctionOnSet(g, U) = SumFunctionOnSet(f, part(U))
    OBVIOUS
  <2>7. SumFunctionOnSet(f, part(U)) \in Nat /\ SumFunctionOnSet(f, B) \in Nat
    BY <1>1, <1>4, <2>1
  <2>8. SumFunctionOnSet(g, U \cup {x}) = SumFunctionOnSet(f, part(U \cup {x}))
    <3>1. SumFunctionOnSet(g, U \cup {x}) = SumFunctionOnSet(f, B) + SumFunctionOnSet(f, part(U))
      BY <2>3, <2>5, <2>6
    <3>2. SumFunctionOnSet(f, part(U \cup {x})) = SumFunctionOnSet(f, part(U)) + SumFunctionOnSet(f, B)
      BY <2>1, <2>4
    <3> QED
      BY <2>7, <3>1, <3>2
  <2> QED
    BY <2>8
<1>7. P \in SUBSET SUBSET T
  OBVIOUS
<1>8. T \in P
  <2> HIDE DEF P
  <2> QED
    BY <1>5, <1>6, <1>7, FiniteInduction
<1>9. part(T) = A
  OBVIOUS
<1> QED
  BY <1>8, <1>9

\* The greatest of finitely many natural numbers, which Max finds.
LEMMA GreatestNumber ==
    ASSUME NEW S \in SUBSET Nat, IsFiniteSet(S), S # {}
    PROVE  Max(S) \in S /\ \A y \in S : y <= Max(S)
<1> DEFINE P == {T \in SUBSET S : T # {} => \E x \in T : \A y \in T : x >= y}
<1>1. {} \in P /\ P \in SUBSET SUBSET S
  OBVIOUS
<1>2. ASSUME NEW T \in P, NEW x \in S \ T PROVE T \cup {x} \in P
  <2>1. CASE T = {}
    BY <2>1
  <2>2. CASE T # {}
    <3>1. PICK z \in T : \A y \in T : z >= y
      BY <2>2
    <3>2. CASE z >= x
      BY <3>1, <3>2
    <3>3. CASE ~ (z >= x)
      <4>1. \A y \in T \cup {x} : x >= y
        BY <3>1, <3>3
      <4> QED
        BY <4>1
    <3> QED
      BY <3>2, <3>3
  <2> QED
    BY <2>1, <2>2
<1>3. S \in P
  <2> HIDE DEF P
  <2> QED
    BY <1>1, <1>2, FiniteInduction
<1>4. \E x \in S : \A y \in S : x >= y
  BY <1>3
<1> DEFINE m == CHOOSE x \in S : \A y \in S : x >= y
<1>5. m \in S /\ \A y \in S : m >= y
  BY <1>4
<1>6. Max(S) = m
  BY DEF Max
<1> HIDE DEF m
<1> QED
  BY <1>5, <1>6

-----------------------------------------------------------------------------
(* The tree of blocks.                                                     *)

BlockLists(t) == [x \in DOMAIN t |-> t[x].skip]
BlockHeights(t) == [x \in DOMAIN t |-> t[x].height]

\* E has b and blocks below it, one at a height, and their skip lists stay in it.
IsLine(t, b, E) ==
    /\ b \in E /\ E \subseteq DOMAIN t
    /\ Within(E, BlockLists(t))
    /\ \A x, y \in E : t[x].height = t[y].height => x = y
    /\ \A x \in E : t[x].height <= t[b].height

\* The blocks of a tree: each is the end of a line.
IsTree(t) ==
    /\ IsFiniteSet(DOMAIN t)
    /\ None \notin DOMAIN t
    /\ Skips(DOMAIN t, BlockLists(t), BlockHeights(t))
    /\ \A b \in DOMAIN t : \E E : IsLine(t, b, E)

\* Heights and parents.
LEMMA TreeBasics ==
    ASSUME NEW t, IsTree(t), NEW b \in DOMAIN t
    PROVE  /\ t[b].height \in Nat
           /\ b # None
           /\ t[b].height = 0 => Parent(t, b) = None
           /\ t[b].height # 0 => /\ Parent(t, b) \in DOMAIN t
                                 /\ t[Parent(t, b)].height = t[b].height - 1
                                 /\ Len(t[b].skip) \in Nat /\ Len(t[b].skip) > 0
                                 /\ Parent(t, b) = t[b].skip[1]
<1> DEFINE D == DOMAIN t
           lists == BlockLists(t)
           index == BlockHeights(t)
<1>1. /\ index[b] \in Nat
      /\ lists[b] \in Seq(D)
      /\ Len(lists[b]) = IF index[b] = 0 THEN 0 ELSE TrailingZeros(index[b]) + 1
      /\ \A i \in 1 .. Len(lists[b]) : index[lists[b][i]] + Pow2[i - 1] = index[b]
  BY DEF IsTree, Skips
<1>2. lists[b] = t[b].skip /\ index[b] = t[b].height
  BY DEF BlockLists, BlockHeights
<1>3. CASE t[b].height = 0
  <2>1. t[b].skip = <<>>
    BY <1>1, <1>2, <1>3
  <2> QED
    BY <1>1, <1>2, <1>3, <2>1 DEF Parent, IsTree
<1>4. CASE t[b].height # 0
  <2>1. TrailingZeros(t[b].height) \in Nat
    BY <1>1, <1>2, <1>4, ZerosOK
  <2>2. Len(t[b].skip) \in Nat /\ Len(t[b].skip) > 0
    BY <1>1, <1>2, <1>4, <2>1
  <2>3. t[b].skip # <<>> /\ 1 \in 1 .. Len(t[b].skip)
    BY <2>2
  <2>4. Parent(t, b) = t[b].skip[1] /\ t[b].skip[1] \in D
    BY <1>1, <1>2, <2>3 DEF Parent
  <2>5. index[t[b].skip[1]] + Pow2[0] = index[b] /\ Pow2[0] = 1
    <3>1. index[lists[b][1]] + Pow2[1 - 1] = index[b]
      BY <1>1, <1>2, <2>3
    <3> QED
      BY <1>2, <3>1, PowIs
  <2>6. index[t[b].skip[1]] = t[Parent(t, b)].height /\ index[t[b].skip[1]] \in Nat
    BY <2>4 DEF BlockHeights, IsTree, Skips
  <2>7. t[Parent(t, b)].height = t[b].height - 1
    <3> HIDE DEF index
    <3> QED
      BY <1>1, <1>2, <2>5, <2>6
  <2> QED
    BY <1>1, <1>2, <1>4, <2>2, <2>4, <2>7 DEF IsTree
<1> QED
  BY <1>3, <1>4

\* A line has a block at every height from that of its end down.
LEMMA LineReaches ==
    ASSUME NEW t, IsTree(t), NEW b, NEW E, IsLine(t, b, E), NEW x \in E, NEW h \in Nat, h <= t[x].height
    PROVE  \E y \in E : t[y].height = h
<1> DEFINE Q == {n \in Nat : n <= t[x].height => \E y \in E : t[y].height = t[x].height - n}
<1>0. \A y \in E : y \in DOMAIN t /\ t[y].height \in Nat
  BY TreeBasics DEF IsLine
<1>1. 0 \in Q
  BY <1>0
<1>2. ASSUME NEW n \in Nat, n \in Q PROVE n + 1 \in Q
  <2> SUFFICES ASSUME n + 1 <= t[x].height PROVE \E y \in E : t[y].height = t[x].height - (n + 1)
    OBVIOUS
  <2>1. PICK y \in E : t[y].height = t[x].height - n
    BY <1>0, <1>2
  <2>2. t[y].height # 0 /\ y \in DOMAIN t
    BY <1>0, <2>1
  <2>3. /\ t[Parent(t, y)].height = t[y].height - 1
        /\ Len(t[y].skip) \in Nat /\ Len(t[y].skip) > 0 /\ Parent(t, y) = t[y].skip[1]
    BY <2>2, TreeBasics
  <2>4. Parent(t, y) \in E
    <3>1. 1 \in 1 .. Len(t[y].skip) /\ BlockLists(t)[y] = t[y].skip
      BY <2>2, <2>3 DEF BlockLists
    <3> QED
      BY <2>3, <3>1 DEF IsLine, Within
  <2>5. t[Parent(t, y)].height = t[x].height - (n + 1)
    BY <1>0, <2>1, <2>3
  <2> QED
    BY <2>4, <2>5
<1>3. Q = Nat
  <2>0. Q \in SUBSET Nat
    OBVIOUS
  <2> HIDE DEF Q
  <2> QED
    BY <1>1, <1>2, <2>0, AllNumbers
<1>4. t[x].height - h \in Nat /\ t[x].height - (t[x].height - h) = h /\ t[x].height - h <= t[x].height
  BY <1>0
<1>5. t[x].height - h \in Q
  <2> HIDE DEF Q
  <2> QED
    BY <1>3, <1>4
<1> QED
  BY <1>4, <1>5

\* The search finds the block of the line.
LEMMA LineFinds ==
    ASSUME NEW t, IsTree(t), NEW b, NEW E, IsLine(t, b, E), NEW x \in E, NEW y \in E,
           t[y].height <= t[x].height
    PROVE  FindAncestorProposal(t, x, t[y].height) = y
<1> DEFINE D == DOMAIN t
           lists == BlockLists(t)
           index == BlockHeights(t)
<1>1. Skips(D, lists, index) /\ E \in SUBSET D /\ Within(E, lists)
  BY DEF IsTree, IsLine
<1>2. \A z \in E : index[z] = t[z].height
  BY DEF IsLine, BlockHeights
<1>3. index[y] <= index[x] /\ \A g \in E : index[g] = index[y] => g = y
  BY <1>2 DEF IsLine
<1>4. Back(lists, index, x, index[y]) = y
  <2> HIDE DEF lists, index, D
  <2> QED
    BY <1>1, <1>3, BackFinds
<1> QED
  BY <1>2, <1>4 DEF FindAncestorProposal, BlockLists, BlockHeights

\* No block is found above.
LEMMA NoneAbove ==
    ASSUME NEW t, IsTree(t), NEW b \in DOMAIN t, NEW h \in Nat, h > t[b].height
    PROVE  FindAncestorProposal(t, b, h) = None
<1> DEFINE D == DOMAIN t
           lists == BlockLists(t)
           index == BlockHeights(t)
<1>1. Skips(D, lists, index)
  BY DEF IsTree
<1>2. PICK f : /\ \A x \in D : f[x] = Find(lists, index, h, f, x)
               /\ \A x : Back(lists, index, x, h) = f[x]
  <2> HIDE DEF lists, index, D
  <2> QED
    BY <1>1, BackIs
<1>3. index[b] = t[b].height /\ t[b].height \in Nat
  BY TreeBasics DEF BlockHeights
<1>4. index[b] < h
  BY <1>3
<1>5. f[b] = None
  BY <1>2, <1>4 DEF Find
<1> QED
  BY <1>2, <1>5 DEF FindAncestorProposal, BlockLists, BlockHeights

\* The blocks from the first one to b.
Line(t, b) == {x \in DOMAIN t : FindAncestorProposal(t, b, t[x].height) = x}

\* A line has one block at every height up to its end.
LEMMA LineIs ==
    ASSUME NEW t, IsTree(t), NEW b \in DOMAIN t, NEW E, IsLine(t, b, E), NEW c \in E
    PROVE  Line(t, c) = {x \in E : t[x].height <= t[c].height}
<1>0. \A y \in E : y \in DOMAIN t /\ t[y].height \in Nat
  BY TreeBasics DEF IsLine
<1>1. ASSUME NEW x \in E, t[x].height <= t[c].height PROVE x \in Line(t, c)
  BY <1>0, <1>1, LineFinds DEF Line
<1>2. ASSUME NEW x \in Line(t, c) PROVE x \in E /\ t[x].height <= t[c].height
  <2>1. x \in DOMAIN t /\ FindAncestorProposal(t, c, t[x].height) = x
    BY DEF Line
  <2>2. t[x].height \in Nat /\ x # None
    BY <2>1, TreeBasics
  <2>3. t[x].height <= t[c].height
    <3> SUFFICES ASSUME t[x].height > t[c].height PROVE FALSE
      BY <1>0, <2>2
    <3>1. FindAncestorProposal(t, c, t[x].height) = None
      BY <1>0, <2>2, NoneAbove
    <3> QED
      BY <2>1, <2>2, <3>1
  <2>4. PICK y \in E : t[y].height = t[x].height
    BY <2>2, <2>3, LineReaches
  <2>5. FindAncestorProposal(t, c, t[y].height) = y
    BY <2>3, <2>4, LineFinds
  <2> QED
    BY <2>1, <2>3, <2>4, <2>5
<1> QED
  BY <1>1, <1>2

\* What there is to know of the blocks below a block.
LEMMA LineFacts ==
    ASSUME NEW t, IsTree(t), NEW b \in DOMAIN t
    PROVE  /\ Line(t, b) \subseteq DOMAIN t
           /\ b \in Line(t, b)
           /\ \A x \in Line(t, b) : t[x].height \in Nat /\ t[x].height <= t[b].height
           /\ \A x \in Line(t, b) : t[x].height = t[b].height => x = b
           /\ \A x, y \in Line(t, b) : t[x].height = t[y].height => x = y
           /\ \A x, y \in Line(t, b) : t[x].height <= t[y].height => x \in Line(t, y)
           /\ \A y \in Line(t, b) : Line(t, y) \subseteq Line(t, b)
           /\ \A h \in Nat : h <= t[b].height =>
                  /\ FindAncestorProposal(t, b, h) \in Line(t, b)
                  /\ t[FindAncestorProposal(t, b, h)].height = h
<1>1. PICK E : IsLine(t, b, E)
  BY DEF IsTree
<1>2. \A c \in E : Line(t, c) = {x \in E : t[x].height <= t[c].height}
  BY <1>1, LineIs
<1>3. b \in E /\ E \subseteq DOMAIN t /\ \A x, y \in E : t[x].height = t[y].height => x = y
  BY <1>1 DEF IsLine
<1>4. \A x \in DOMAIN t : t[x].height \in Nat
  BY TreeBasics
<1>5. ASSUME NEW h \in Nat, h <= t[b].height
      PROVE  /\ FindAncestorProposal(t, b, h) \in Line(t, b)
             /\ t[FindAncestorProposal(t, b, h)].height = h
  <2>1. PICK y \in E : t[y].height = h
    BY <1>1, <1>3, <1>5, LineReaches
  <2>2. FindAncestorProposal(t, b, h) = y
    BY <1>1, <1>3, <1>5, <2>1, LineFinds
  <2> QED
    BY <1>2, <1>3, <1>5, <2>1, <2>2
<1>6. \A x \in E : t[x].height <= t[b].height
  BY <1>1 DEF IsLine
<1>7. Line(t, b) = E
  BY <1>2, <1>3, <1>6
<1>8. \A x \in E : x \in DOMAIN t /\ t[x].height \in Nat
  BY <1>3, <1>4
<1>9. \A y \in E : Line(t, y) \subseteq E
  BY <1>2
<1>10. \A x, y \in E : t[x].height <= t[y].height => x \in Line(t, y)
  BY <1>2
<1> QED
  BY <1>3, <1>5, <1>6, <1>7, <1>8, <1>9, <1>10

\* The line of a block is that of its parent, and the block.
LEMMA LineOfParent ==
    ASSUME NEW t, IsTree(t), NEW b \in DOMAIN t
    PROVE  Line(t, b) = {b} \cup IF Parent(t, b) = None THEN {} ELSE Line(t, Parent(t, b))
<1> DEFINE p == Parent(t, b)
<1>1. PICK E : IsLine(t, b, E)
  BY DEF IsTree
<1>2. b \in E /\ E \subseteq DOMAIN t /\ \A x, y \in E : t[x].height = t[y].height => x = y
  BY <1>1 DEF IsLine
<1>3. Line(t, b) = {x \in E : t[x].height <= t[b].height}
  BY <1>1, <1>2, LineIs
<1>4. \A x \in E : t[x].height \in Nat
  BY <1>2, TreeBasics
<1>5. CASE t[b].height = 0
  <2>1. p = None
    BY <1>5, TreeBasics
  <2>2. Line(t, b) = {b}
    BY <1>2, <1>3, <1>4, <1>5
  <2> QED
    BY <2>1, <2>2
<1>6. CASE t[b].height # 0
  <2>1. /\ p \in DOMAIN t /\ t[p].height = t[b].height - 1
        /\ Len(t[b].skip) \in Nat /\ Len(t[b].skip) > 0 /\ p = t[b].skip[1]
    BY <1>6, TreeBasics
  <2>2. p # None
    BY <2>1, TreeBasics
  <2>3. p \in E
    <3>1. 1 \in 1 .. Len(t[b].skip) /\ BlockLists(t)[b] = t[b].skip
      BY <2>1 DEF BlockLists
    <3> QED
      BY <1>1, <1>2, <2>1, <3>1 DEF IsLine, Within
  <2>4. Line(t, p) = {x \in E : t[x].height <= t[p].height}
    BY <1>1, <2>3, LineIs
  <2>5. \A x \in E : t[x].height <= t[b].height <=> x = b \/ t[x].height <= t[p].height
    <3> SUFFICES ASSUME NEW x \in E PROVE t[x].height <= t[b].height <=> x = b \/ t[x].height <= t[p].height
      OBVIOUS
    <3>1. t[x].height = t[b].height <=> x = b
      BY <1>2
    <3>2. t[x].height \in Nat /\ t[b].height \in Nat /\ t[p].height \in Nat
      BY <1>2, <1>4, <2>3
    <3> QED
      BY <2>1, <3>1, <3>2
  <2>6. Line(t, b) = {b} \cup Line(t, p)
    BY <1>2, <1>3, <2>4, <2>5
  <2> QED
    BY <2>2, <2>6
<1> QED
  BY <1>5, <1>6

\* A block below b is the parent of another one.
LEMMA LineChild ==
    ASSUME NEW t, IsTree(t), NEW b \in DOMAIN t, NEW x \in Line(t, b), x # b
    PROVE  \E y \in Line(t, b) : Parent(t, y) = x /\ t[y].height = t[x].height + 1
<1>1. /\ t[x].height \in Nat /\ t[x].height <= t[b].height /\ t[x].height # t[b].height
      /\ t[b].height \in Nat
  BY LineFacts, TreeBasics
<1> DEFINE h == t[x].height + 1
           y == FindAncestorProposal(t, b, h)
<1>2. h \in Nat /\ h <= t[b].height
  BY <1>1
<1>3. y \in Line(t, b) /\ t[y].height = h
  <2> HIDE DEF h
  <2> QED
    BY <1>2, LineFacts
<1>4. y \in DOMAIN t /\ t[y].height # 0 /\ t[y].height - 1 = t[x].height
  <2>1. Line(t, b) \subseteq DOMAIN t
    BY LineFacts
  <2>2. t[y].height = t[x].height + 1
    BY <1>3
  <2> HIDE DEF y
  <2> QED
    BY <1>1, <1>3, <2>1, <2>2
<1> HIDE DEF y, h
<1>5. Parent(t, y) \in DOMAIN t /\ t[Parent(t, y)].height = t[x].height /\ Parent(t, y) # None
  BY <1>4, TreeBasics
<1>6. Parent(t, y) \in Line(t, y)
  BY <1>4, <1>5, LineOfParent, LineFacts
<1>7. Parent(t, y) \in Line(t, b)
  BY <1>3, <1>6, LineFacts
<1>8. Parent(t, y) = x
  BY <1>5, <1>7, LineFacts
<1> QED
  BY <1>3, <1>8 DEF h

-----------------------------------------------------------------------------
(* Tallies.                                                                *)

\* Every entry has votes.
IsTally(t, tally) ==
    /\ DOMAIN tally \subseteq DOMAIN t
    /\ \A b \in DOMAIN tally : tally[b] \in Nat \ {0}

\* The votes for x and the blocks above it.
Support(t, tally, x) == {b \in DOMAIN tally : x \in Line(t, b)}
Votes(t, tally, x) == SumFunctionOnSet(tally, Support(t, tally, x))

\* The blocks with votes, all or at one height, with their votes.
Voted(t, tally) == {x \in DOMAIN t : Support(t, tally, x) # {}}
VotedAt(t, tally, h) == {x \in Voted(t, tally) : t[x].height = h}
AtHeight(t, tally, h) == [x \in VotedAt(t, tally, h) |-> Votes(t, tally, x)]

TopHeight(t, tally) == Max({t[b].height : b \in DOMAIN tally})

\* The supporters of a block are finitely many.
LEMMA SupportFinite ==
    ASSUME NEW t, IsTree(t), NEW tally, IsTally(t, tally)
    PROVE  /\ IsFiniteSet(DOMAIN tally) /\ Numbers(tally, DOMAIN tally)
           /\ \A x : /\ IsFiniteSet(Support(t, tally, x))
                     /\ Support(t, tally, x) \subseteq DOMAIN tally
                     /\ Numbers(tally, Support(t, tally, x))
                     /\ Votes(t, tally, x) \in Nat
           /\ IsFiniteSet(Voted(t, tally)) /\ \A h : IsFiniteSet(VotedAt(t, tally, h))
<1>1. IsFiniteSet(DOMAIN tally) /\ Numbers(tally, DOMAIN tally)
  BY FS_Subset DEF IsTree, IsTally, Numbers
<1>2. ASSUME NEW x PROVE /\ IsFiniteSet(Support(t, tally, x))
                         /\ Support(t, tally, x) \subseteq DOMAIN tally
                         /\ Numbers(tally, Support(t, tally, x))
                         /\ Votes(t, tally, x) \in Nat
  <2>1. Support(t, tally, x) \in SUBSET DOMAIN tally
    BY DEF Support
  <2>2. IsFiniteSet(Support(t, tally, x)) /\ Numbers(tally, Support(t, tally, x))
    BY <1>1, <2>1, FS_Subset DEF Numbers
  <2>3. \A T \in SUBSET DOMAIN tally : SumFunctionOnSet(tally, T) \in Nat
    BY <1>1, SumIs
  <2> QED
    BY <2>1, <2>2, <2>3 DEF Votes
<1>3. Voted(t, tally) \in SUBSET DOMAIN t /\ \A h : VotedAt(t, tally, h) \in SUBSET DOMAIN t
  BY DEF Voted, VotedAt
<1>4. IsFiniteSet(Voted(t, tally)) /\ \A h : IsFiniteSet(VotedAt(t, tally, h))
  BY <1>3, FS_Subset DEF IsTree
<1> QED
  BY <1>1, <1>2, <1>4

\* The greatest height of a vote.
LEMMA TopOK ==
    ASSUME NEW t, IsTree(t), NEW tally, IsTally(t, tally), DOMAIN tally # {}
    PROVE  /\ TopHeight(t, tally) \in Nat
           /\ \E b \in DOMAIN tally : t[b].height = TopHeight(t, tally)
           /\ \A b \in DOMAIN tally : t[b].height <= TopHeight(t, tally)
<1> DEFINE S == {t[b].height : b \in DOMAIN tally}
<1>1. \A b \in DOMAIN tally : b \in DOMAIN t /\ t[b].height \in Nat
  BY TreeBasics DEF IsTally
<1>2. S \in SUBSET Nat /\ S # {}
  BY <1>1
<1>3. IsFiniteSet(S)
  <2>1. IsFiniteSet(DOMAIN tally)
    BY SupportFinite
  <2> DEFINE f == [b \in DOMAIN tally |-> t[b].height]
  <2>2. S = {f[b] : b \in DOMAIN tally}
    OBVIOUS
  <2>3. f \in Surjection(DOMAIN tally, S)
    BY DEF Surjection
  <2> HIDE DEF f, S
  <2> QED
    BY <2>1, <2>3, FS_Surjection
<1>4. Max(S) \in S /\ \A y \in S : y <= Max(S)
  <2> HIDE DEF S
  <2> QED
    BY <1>2, <1>3, GreatestNumber
<1> QED
  BY <1>2, <1>4 DEF TopHeight

\* At the greatest height the votes are those for the blocks themselves.
LEMMA TallyAtTop ==
    ASSUME NEW t, IsTree(t), NEW tally, IsTally(t, tally), NEW top \in Nat,
           \A b \in DOMAIN tally : t[b].height <= top
    PROVE  Level(t, tally, top) = AtHeight(t, tally, top)
<1> DEFINE S == {b \in DOMAIN tally : t[b].height = top}
<1>0. \A b \in DOMAIN tally : b \in DOMAIN t /\ t[b].height \in Nat
  BY TreeBasics DEF IsTally
<1>1. ASSUME NEW b \in DOMAIN tally, NEW x \in Line(t, b), t[x].height = top PROVE x = b
  <2>1. t[x].height <= t[b].height /\ (t[x].height = t[b].height => x = b)
    BY <1>0, LineFacts
  <2>2. t[x].height = t[b].height
    BY <1>0, <1>1, <2>1
  <2> QED
    BY <2>1, <2>2
<1>2. \A b \in DOMAIN tally : b \in Line(t, b)
  BY <1>0, LineFacts
<1>3. VotedAt(t, tally, top) = S
  BY <1>0, <1>1, <1>2 DEF VotedAt, Voted, Support
<1>4. ASSUME NEW x \in S PROVE Votes(t, tally, x) = tally[x]
  <2>1. Support(t, tally, x) = {x}
    BY <1>1, <1>2 DEF Support
  <2>2. {} \cup {x} = {x} /\ {} \in SUBSET DOMAIN tally /\ x \in DOMAIN tally \ {}
    OBVIOUS
  <2>3. /\ SumFunctionOnSet(tally, {}) = 0
        /\ SumFunctionOnSet(tally, {} \cup {x}) = tally[x] + SumFunctionOnSet(tally, {})
    BY <2>2, SupportFinite, SumIs
  <2>4. tally[x] \in Nat /\ tally[x] = tally[x] + 0
    BY DEF IsTally
  <2>5. SumFunctionOnSet(tally, {x}) = tally[x]
    BY <2>2, <2>3, <2>4
  <2> QED
    BY <2>1, <2>5 DEF Votes
<1> QED
  BY <1>3, <1>4 DEF Level, AtHeight, Restrict

\* One level lower the votes are those of the children, and for the block itself.
LEMMA VotesOfChildren ==
    ASSUME NEW t, IsTree(t), NEW tally, IsTally(t, tally), NEW x \in DOMAIN t
    PROVE  Votes(t, tally, x)
             = SumFunctionOnSet(AtHeight(t, tally, t[x].height + 1),
                                {c \in VotedAt(t, tally, t[x].height + 1) : Parent(t, c) = x})
               + IF x \in DOMAIN tally THEN tally[x] ELSE 0
<1> DEFINE h == t[x].height
           up == AtHeight(t, tally, h + 1)
           T == {c \in VotedAt(t, tally, h + 1) : Parent(t, c) = x}
           A == Support(t, tally, x) \ {x}
           F == [b \in A |-> FindAncestorProposal(t, b, h + 1)]
<1>0. h \in Nat /\ \A b \in DOMAIN tally : b \in DOMAIN t
  BY TreeBasics DEF IsTally
<1>1. ASSUME NEW b \in A
      PROVE  F[b] \in T /\ \A c \in T : c \in Line(t, b) <=> F[b] = c
  <2>1. b \in DOMAIN tally /\ b \in DOMAIN t /\ x \in Line(t, b) /\ x # b
    BY <1>0 DEF Support
  <2>2. PICK y \in Line(t, b) : Parent(t, y) = x /\ t[y].height = h + 1
    BY <2>1, LineChild
  <2>3. y \in DOMAIN t /\ FindAncestorProposal(t, b, t[y].height) = y
    BY <2>2 DEF Line
  <2>4. F[b] = y
    BY <2>2, <2>3
  <2>5. y \in T
    BY <2>1, <2>2, <2>3 DEF VotedAt, Voted, Support
  <2>6. ASSUME NEW c \in T PROVE c \in Line(t, b) <=> y = c
    <3>1. c \in DOMAIN t /\ t[c].height = h + 1
      BY DEF VotedAt, Voted
    <3> QED
      BY <2>2, <2>3, <3>1 DEF Line
  <2> QED
    BY <2>4, <2>5, <2>6
<1>2. ASSUME NEW c \in T PROVE Support(t, tally, c) = {b \in A : F[b] = c}
  <2>1. c \in DOMAIN t /\ t[c].height = h + 1 /\ Parent(t, c) = x
    BY DEF VotedAt, Voted
  <2>2. x \in Line(t, c) /\ c # x
    <3>1. x # None /\ t[c].height # t[x].height
      BY <1>0, <2>1, TreeBasics
    <3>2. x \in Line(t, x)
      BY LineFacts
    <3>3. Line(t, c) = {c} \cup Line(t, x)
      BY <2>1, <3>1, LineOfParent
    <3> QED
      BY <3>1, <3>2, <3>3
  <2>3. ASSUME NEW b \in DOMAIN tally, c \in Line(t, b) PROVE b \in A
    <3>1. x \in Line(t, b)
      BY <1>0, <2>2, <2>3, LineFacts
    <3>2. b # x
      <4>1. t[c].height <= t[b].height /\ t[c].height \in Nat
        BY <1>0, <2>3, LineFacts
      <4> QED
        BY <1>0, <2>1, <4>1
    <3> QED
      BY <3>1, <3>2 DEF Support
  <2>4. \A b \in A : b \in DOMAIN tally /\ (c \in Line(t, b) <=> F[b] = c)
    BY <1>1 DEF Support
  <2> HIDE DEF A, F
  <2> QED
    BY <2>3, <2>4 DEF Support
<1>3. /\ IsFiniteSet(Support(t, tally, x)) /\ Support(t, tally, x) \subseteq DOMAIN tally
      /\ Numbers(tally, Support(t, tally, x)) /\ Votes(t, tally, x) \in Nat
      /\ IsFiniteSet(VotedAt(t, tally, h + 1))
      /\ IsFiniteSet(DOMAIN tally) /\ Numbers(tally, DOMAIN tally)
  BY SupportFinite
<1>4. IsFiniteSet(A) /\ Numbers(tally, A) /\ IsFiniteSet(T) /\ A \in SUBSET DOMAIN tally
  BY <1>3, FS_Subset DEF Numbers
<1>5. \A c \in T : up[c] = SumFunctionOnSet(tally, {b \in A : F[b] = c})
  <2> SUFFICES ASSUME NEW c \in T PROVE up[c] = SumFunctionOnSet(tally, {b \in A : F[b] = c})
    OBVIOUS
  <2>1. up[c] = SumFunctionOnSet(tally, Support(t, tally, c))
    BY DEF AtHeight, Votes
  <2> QED
    BY <1>2, <2>1
<1>6. \A b \in A : F[b] \in T
  BY <1>1
<1>7. SumFunctionOnSet(up, T) = SumFunctionOnSet(tally, A)
  <2> HIDE DEF up, T, A, F
  <2> QED
    BY <1>4, <1>5, <1>6, SumOfParts
<1>8. x \in Line(t, x)
  BY LineFacts
<1>9. CASE x \in DOMAIN tally
  <2>1. A \cup {x} = Support(t, tally, x) /\ x \in DOMAIN tally \ A
    BY <1>8, <1>9 DEF Support
  <2> HIDE DEF A
  <2>2. SumFunctionOnSet(tally, A \cup {x}) = tally[x] + SumFunctionOnSet(tally, A)
    BY <1>3, <1>4, <2>1, SumIs
  <2>3. tally[x] \in Nat /\ SumFunctionOnSet(tally, A) \in Nat
    BY <1>3, <1>4, <1>9, SumIs DEF Numbers
  <2>4. Votes(t, tally, x) = SumFunctionOnSet(tally, A) + tally[x]
    <3>1. Votes(t, tally, x) = tally[x] + SumFunctionOnSet(tally, A)
      BY <2>1, <2>2 DEF Votes
    <3>2. tally[x] + SumFunctionOnSet(tally, A) = SumFunctionOnSet(tally, A) + tally[x]
      BY <2>3
    <3> QED
      BY <3>1, <3>2
  <2> QED
    BY <1>7, <1>9, <2>4
<1>10. CASE x \notin DOMAIN tally
  <2>1. A = Support(t, tally, x)
    BY <1>10 DEF Support
  <2> HIDE DEF A
  <2>2. Votes(t, tally, x) = SumFunctionOnSet(tally, A) /\ SumFunctionOnSet(tally, A) \in Nat
    BY <1>3, <2>1 DEF Votes
  <2>3. SumFunctionOnSet(tally, A) = SumFunctionOnSet(tally, A) + 0
    BY <2>2
  <2> QED
    BY <1>7, <1>10, <2>2, <2>3
<1> QED
  BY <1>9, <1>10

\* Tally::parents and extend.
LEMMA TallyBelow ==
    ASSUME NEW t, IsTree(t), NEW tally, IsTally(t, tally), NEW h \in Nat
    PROVE  ParentsWith(t, AtHeight(t, tally, h + 1), Level(t, tally, h)) = AtHeight(t, tally, h)
<1> DEFINE up == AtHeight(t, tally, h + 1)
           low == Level(t, tally, h)
           S == {b \in DOMAIN tally : t[b].height = h}
<1>0. \A b \in DOMAIN tally : b \in DOMAIN t
  BY DEF IsTally
<1>1. DOMAIN up = VotedAt(t, tally, h + 1) /\ DOMAIN low = S /\ \A b \in S : low[b] = tally[b]
  BY DEF AtHeight, Level, Restrict
<1>2. {Parent(t, c) : c \in DOMAIN up} \cup DOMAIN low = VotedAt(t, tally, h)
  <2>1. ASSUME NEW c \in DOMAIN up PROVE Parent(t, c) \in VotedAt(t, tally, h)
    <3>1. c \in DOMAIN t /\ t[c].height = h + 1 /\ Support(t, tally, c) # {}
      BY <1>1 DEF VotedAt, Voted
    <3>2. PICK b \in DOMAIN tally : c \in Line(t, b)
      BY <3>1 DEF Support
    <3>3. t[c].height # 0 /\ t[c].height - 1 = h
      BY <3>1
    <3>4. Parent(t, c) \in DOMAIN t /\ t[Parent(t, c)].height = h /\ Parent(t, c) # None
      BY <3>1, <3>3, TreeBasics
    <3>5. Parent(t, c) \in Line(t, c)
      BY <3>1, <3>4, LineOfParent, LineFacts
    <3>6. Parent(t, c) \in Line(t, b)
      BY <1>0, <3>2, <3>5, LineFacts
    <3> QED
      BY <3>2, <3>4, <3>6 DEF VotedAt, Voted, Support
  <2>2. ASSUME NEW b \in S PROVE b \in VotedAt(t, tally, h)
    <3>1. b \in DOMAIN t /\ b \in Line(t, b) /\ t[b].height = h
      BY <1>0, LineFacts
    <3> QED
      BY <3>1 DEF VotedAt, Voted, Support
  <2>3. ASSUME NEW x \in VotedAt(t, tally, h), x \notin S
        PROVE  \E c \in DOMAIN up : x = Parent(t, c)
    <3>1. x \in DOMAIN t /\ t[x].height = h /\ Support(t, tally, x) # {}
      BY DEF VotedAt, Voted
    <3>2. PICK b \in DOMAIN tally : x \in Line(t, b)
      BY <3>1 DEF Support
    <3>3. b # x
      BY <2>3, <3>1
    <3>4. PICK y \in Line(t, b) : Parent(t, y) = x /\ t[y].height = t[x].height + 1
      BY <1>0, <3>2, <3>3, LineChild
    <3>5. y \in DOMAIN t
      BY <3>4 DEF Line
    <3>6. y \in VotedAt(t, tally, h + 1)
      BY <3>1, <3>2, <3>4, <3>5 DEF VotedAt, Voted, Support
    <3> QED
      BY <1>1, <3>4, <3>6
  <2> HIDE DEF up, low, S
  <2> QED
    BY <1>1, <2>1, <2>2, <2>3
<1>3. ASSUME NEW x \in VotedAt(t, tally, h)
      PROVE  Votes(t, tally, x) = SumFunctionOnSet(up, {c \in DOMAIN up : Parent(t, c) = x})
                                  + IF x \in DOMAIN low THEN low[x] ELSE 0
  <2>1. x \in DOMAIN t /\ t[x].height = h
    BY DEF VotedAt, Voted
  <2>2. Votes(t, tally, x)
             = SumFunctionOnSet(AtHeight(t, tally, t[x].height + 1),
                                {c \in VotedAt(t, tally, t[x].height + 1) : Parent(t, c) = x})
               + IF x \in DOMAIN tally THEN tally[x] ELSE 0
    BY <2>1, VotesOfChildren
  <2>3. (IF x \in DOMAIN tally THEN tally[x] ELSE 0) = (IF x \in DOMAIN low THEN low[x] ELSE 0)
    BY <1>1, <2>1
  <2> QED
    BY <1>1, <2>1, <2>2, <2>3
<1> DEFINE sum(x) == SumFunctionOnSet(up, {c \in DOMAIN up : Parent(t, c) = x})
                     + IF x \in DOMAIN low THEN low[x] ELSE 0
<1>4. AtHeight(t, tally, h) = [x \in VotedAt(t, tally, h) |-> sum(x)]
  <2>1. \A x \in VotedAt(t, tally, h) : Votes(t, tally, x) = sum(x)
    BY <1>3
  <2> HIDE DEF sum
  <2> QED
    BY <2>1 DEF AtHeight
<1> HIDE DEF up, low
<1>5. ParentsWith(t, up, low) = [x \in VotedAt(t, tally, h) |-> sum(x)]
  BY <1>2 DEF ParentsWith
<1> QED
  BY <1>4, <1>5 DEF up, low

\* One step of the recursion of CumulativeTo.
LevelFrom(t, tally, top, f, h) ==
    IF h = top THEN Level(t, tally, h) ELSE ParentsWith(t, f[h + 1], Level(t, tally, h))

\* The tallies of Tallies::find_decided have the votes at every height.
LEMMA CumulativeIs ==
    ASSUME NEW t, IsTree(t), NEW tally, IsTally(t, tally), DOMAIN tally # {}
    PROVE  Cumulative(t, tally) = [h \in 0 .. TopHeight(t, tally) |-> AtHeight(t, tally, h)]
<1> DEFINE top == TopHeight(t, tally)
           g == [h \in 0 .. top |-> AtHeight(t, tally, h)]
           f == CHOOSE above : above = [h \in 0 .. top |-> LevelFrom(t, tally, top, above, h)]
<1>1. top \in Nat /\ \A b \in DOMAIN tally : t[b].height <= top
  BY TopOK
<1>2. Cumulative(t, tally) = f
  BY DEF Cumulative, CumulativeTo, LevelFrom, TopHeight
<1>3. Level(t, tally, top) = AtHeight(t, tally, top)
  <2> HIDE DEF top
  <2> QED
    BY <1>1, TallyAtTop
<1> HIDE DEF top
<1>4. \A h \in 0 .. top : g[h] = LevelFrom(t, tally, top, g, h)
  <2> SUFFICES ASSUME NEW h \in 0 .. top PROVE g[h] = LevelFrom(t, tally, top, g, h)
    OBVIOUS
  <2>1. CASE h = top
    BY <1>3, <2>1 DEF LevelFrom
  <2>2. CASE h # top
    <3>1. h + 1 \in 0 .. top /\ h \in Nat
      BY <1>1, <2>2
    <3>2. ParentsWith(t, AtHeight(t, tally, h + 1), Level(t, tally, h)) = AtHeight(t, tally, h)
      BY <3>1, TallyBelow
    <3>3. g[h + 1] = AtHeight(t, tally, h + 1) /\ g[h] = AtHeight(t, tally, h)
      BY <3>1
    <3> HIDE DEF g
    <3> QED
      BY <2>2, <3>2, <3>3 DEF LevelFrom
  <2> QED
    BY <2>1, <2>2
<1>5. g = [h \in 0 .. top |-> LevelFrom(t, tally, top, g, h)]
  BY <1>4
<1>6. f = [h \in 0 .. top |-> LevelFrom(t, tally, top, f, h)]
  <2> HIDE DEF g
  <2> QED
    BY <1>5
<1> HIDE DEF f
<1> DEFINE Q == {n \in Nat : n <= top => f[top - n] = AtHeight(t, tally, top - n)}
<1>7. 0 \in Q
  <2>1. top \in 0 .. top /\ top - 0 = top
    BY <1>1
  <2>2. f[top] = LevelFrom(t, tally, top, f, top)
    BY <1>6, <2>1
  <2>3. f[top] = AtHeight(t, tally, top)
    BY <1>3, <2>2 DEF LevelFrom
  <2> QED
    BY <2>1, <2>3
<1>8. ASSUME NEW n \in Nat, n \in Q PROVE n + 1 \in Q
  <2> SUFFICES ASSUME n + 1 <= top PROVE f[top - (n + 1)] = AtHeight(t, tally, top - (n + 1))
    OBVIOUS
  <2> DEFINE h == top - (n + 1)
  <2>1. h \in 0 .. top /\ h \in Nat /\ h # top /\ h + 1 = top - n /\ n <= top
    BY <1>1
  <2>2. f[h + 1] = AtHeight(t, tally, h + 1)
    BY <1>8, <2>1
  <2> HIDE DEF h
  <2>3. f[h] = ParentsWith(t, f[h + 1], Level(t, tally, h))
    <3>1. f[h] = LevelFrom(t, tally, top, f, h)
      BY <1>6, <2>1
    <3> QED
      BY <2>1, <3>1 DEF LevelFrom
  <2>4. ParentsWith(t, AtHeight(t, tally, h + 1), Level(t, tally, h)) = AtHeight(t, tally, h)
    BY <2>1, TallyBelow
  <2>5. f[h] = AtHeight(t, tally, h)
    BY <2>2, <2>3, <2>4
  <2> QED
    BY <2>5 DEF h
<1>9. Q = Nat
  <2>0. Q \in SUBSET Nat
    OBVIOUS
  <2> HIDE DEF Q
  <2> QED
    BY <1>7, <1>8, <2>0, AllNumbers
<1>10. \A h \in 0 .. top : f[h] = AtHeight(t, tally, h)
  <2> SUFFICES ASSUME NEW h \in 0 .. top PROVE f[h] = AtHeight(t, tally, h)
    OBVIOUS
  <2>1. top - h \in Nat /\ top - h <= top /\ top - (top - h) = h
    BY <1>1
  <2>2. top - h \in Q
    <3> HIDE DEF Q
    <3> QED
      BY <1>9, <2>1
  <2> QED
    BY <2>1, <2>2
<1>11. f = g
  BY <1>6, <1>10
<1> QED
  BY <1>2, <1>11 DEF top

-----------------------------------------------------------------------------
(* The block with the most votes.                                          *)

\* HashRank is a total order on the hashes of D.
Ranked(D) ==
    /\ \A x \in D : HashRank(x) \in Int
    /\ \A x, y \in D : HashRank(x) = HashRank(y) => x = y

\* a votes and the hash x are preferred to b and y.
Preferred(a, x, b, y) == a > b \/ (a = b /\ HashRank(x) >= HashRank(y))

\* Among finitely many blocks one is preferred to all.
LEMMA PreferredExists ==
    ASSUME NEW S, IsFiniteSet(S), S # {}, NEW f, Numbers(f, S), Ranked(S)
    PROVE  \E x \in S : \A y \in S : Preferred(f[x], x, f[y], y)
<1> DEFINE P == {T \in SUBSET S : T # {} => \E x \in T : \A y \in T : Preferred(f[x], x, f[y], y)}
<1>0. \A x \in S : f[x] \in Nat /\ HashRank(x) \in Int
  BY DEF Numbers, Ranked
<1>1. {} \in P /\ P \in SUBSET SUBSET S
  OBVIOUS
<1>2. ASSUME NEW T \in P, NEW x \in S \ T PROVE T \cup {x} \in P
  <2>0. Preferred(f[x], x, f[x], x)
    BY <1>0 DEF Preferred
  <2>1. CASE T = {}
    BY <2>0, <2>1
  <2>2. CASE T # {}
    <3>1. PICK z \in T : \A y \in T : Preferred(f[z], z, f[y], y)
      BY <2>2
    <3>2. CASE Preferred(f[z], z, f[x], x)
      BY <3>1, <3>2
    <3>3. CASE ~ Preferred(f[z], z, f[x], x)
      <4>1. ASSUME NEW y \in T PROVE Preferred(f[x], x, f[y], y)
        <5>1. /\ f[x] \in Nat /\ f[y] \in Nat /\ f[z] \in Nat
              /\ HashRank(x) \in Int /\ HashRank(y) \in Int /\ HashRank(z) \in Int
          BY <1>0
        <5>2. Preferred(f[z], z, f[y], y)
          BY <3>1
        <5> QED
          BY <3>3, <5>1, <5>2 DEF Preferred
      <4> QED
        BY <2>0, <4>1
    <3> QED
      BY <3>2, <3>3
  <2> QED
    BY <2>1, <2>2
<1>3. S \in P
  <2> HIDE DEF P
  <2> QED
    BY <1>1, <1>2, FiniteInduction
<1> QED
  BY <1>3

\* Tally::max_bhash and Tally::max_w.
LEMMA MaxBlockOK ==
    ASSUME NEW f, IsFiniteSet(DOMAIN f), DOMAIN f # {}, Numbers(f, DOMAIN f), Ranked(DOMAIN f)
    PROVE  /\ MaxBlock(f) \in DOMAIN f
           /\ \A y \in DOMAIN f : Preferred(f[MaxBlock(f)], MaxBlock(f), f[y], y)
           /\ Max(Range(f)) = f[MaxBlock(f)]
<1>1. \E x \in DOMAIN f : \A y \in DOMAIN f : Preferred(f[x], x, f[y], y)
  BY PreferredExists
<1> DEFINE m == CHOOSE x \in DOMAIN f : \A y \in DOMAIN f : Preferred(f[x], x, f[y], y)
<1>2. MaxBlock(f) = m
  BY DEF MaxBlock, Preferred
<1>3. m \in DOMAIN f /\ \A y \in DOMAIN f : Preferred(f[m], m, f[y], y)
  BY <1>1
<1> HIDE DEF m
<1>4. \A y \in DOMAIN f : f[y] \in Nat /\ f[m] >= f[y]
  BY <1>3 DEF Preferred, Numbers
<1>5. Max(Range(f)) = f[m]
  <2>1. f[m] \in Range(f) /\ \A y \in Range(f) : f[m] >= y
    BY <1>3, <1>4 DEF Range
  <2>2. Range(f) \subseteq Nat
    BY <1>4 DEF Range
  <2> DEFINE k == CHOOSE x \in Range(f) : \A y \in Range(f) : x >= y
  <2>3. k \in Range(f) /\ \A y \in Range(f) : k >= y
    BY <2>1
  <2>4. Max(Range(f)) = k
    BY DEF Max
  <2> HIDE DEF k
  <2>5. k \in Nat /\ f[m] \in Nat /\ k >= f[m] /\ f[m] >= k
    BY <2>1, <2>2, <2>3
  <2>6. k = f[m]
    BY <2>5
  <2> QED
    BY <2>4, <2>6
<1> QED
  BY <1>2, <1>3, <1>5

\* More than half.
LEMMA MajorityIs ==
    ASSUME NEW a \in Nat, NEW b \in Nat
    PROVE  Majority(a, b) <=> a + a > b
<1>1. b = 2 * (b \div 2) + (b % 2) /\ b \div 2 \in Nat /\ b % 2 \in 0 .. 1
  OBVIOUS
<1> DEFINE q == b \div 2
           r == b % 2
<1>2. Majority(a, b) <=> a > q
  BY DEF Majority
<1> HIDE DEF q, r
<1>3. b = 2 * q + r /\ q \in Nat /\ r \in 0 .. 1
  BY <1>1 DEF q, r
<1> QED
  BY <1>2, <1>3

\* y has votes, and is preferred to the other blocks with the same parent.
Leads(t, tally, y) ==
    /\ y \in Voted(t, tally)
    /\ \A z \in Voted(t, tally) : Parent(t, z) = Parent(t, y) =>
           Preferred(Votes(t, tally, y), y, Votes(t, tally, z), z)

\* The total of a tally is the sum of its votes.
LEMMA TotalIs ==
    ASSUME NEW t, IsTree(t), NEW tally, IsTally(t, tally)
    PROVE  /\ Total(tally) \in Nat
           /\ Total(tally) = SumFunctionOnSet(tally, DOMAIN tally)
           /\ \A x : Votes(t, tally, x) <= Total(tally)
<1>1. Total(tally) = SumFunctionOnSet(tally, DOMAIN tally)
  BY DEF Total, SumFunction, SumFunctionOnSet, FoldFunction
<1>2. IsFiniteSet(DOMAIN tally) /\ Numbers(tally, DOMAIN tally)
      /\ \A x : Support(t, tally, x) \subseteq DOMAIN tally
  BY SupportFinite
<1>3. \A x : /\ SumFunctionOnSet(tally, Support(t, tally, x)) <= SumFunctionOnSet(tally, DOMAIN tally)
  BY <1>2, SumGrows
<1>4. SumFunctionOnSet(tally, DOMAIN tally) \in Nat
  BY <1>2, SumGrows
<1> QED
  BY <1>1, <1>3, <1>4 DEF Votes

\* Two blocks at one height share no votes.
LEMMA VotesOfTwo ==
    ASSUME NEW t, IsTree(t), NEW tally, IsTally(t, tally), NEW x, NEW y,
           x # y, t[x].height = t[y].height
    PROVE  Votes(t, tally, x) + Votes(t, tally, y) <= Total(tally)
<1> DEFINE A == Support(t, tally, x)
           B == Support(t, tally, y)
<1>1. /\ IsFiniteSet(DOMAIN tally) /\ Numbers(tally, DOMAIN tally)
      /\ IsFiniteSet(A) /\ IsFiniteSet(B) /\ A \subseteq DOMAIN tally /\ B \subseteq DOMAIN tally
  BY SupportFinite
<1>2. A \cap B = {}
  <2>1. ASSUME NEW b \in DOMAIN tally, x \in Line(t, b), y \in Line(t, b) PROVE FALSE
    <3>1. b \in DOMAIN t
      BY DEF IsTally
    <3> QED
      BY <2>1, <3>1, LineFacts
  <2> QED
    BY <2>1 DEF Support
<1>3. A \cup B \subseteq DOMAIN tally /\ Numbers(tally, A \cup B)
  BY <1>1 DEF Numbers
<1> HIDE DEF A, B
<1>4. SumFunctionOnSet(tally, A \cup B) = SumFunctionOnSet(tally, A) + SumFunctionOnSet(tally, B)
  BY <1>1, <1>2, <1>3, SumOfTwo
<1>5. SumFunctionOnSet(tally, A \cup B) <= SumFunctionOnSet(tally, DOMAIN tally)
  BY <1>1, <1>3, SumGrows
<1>6. SumFunctionOnSet(tally, A) + SumFunctionOnSet(tally, B) <= Total(tally)
  BY <1>4, <1>5, TotalIs
<1> QED
  BY <1>6 DEF A, B, Votes

\* A block with votes has them from below, and fewer than its ancestors.
LEMMA VotedBelow ==
    ASSUME NEW t, IsTree(t), NEW tally, IsTally(t, tally), NEW x \in DOMAIN t, NEW y \in Line(t, x)
    PROVE  /\ Support(t, tally, x) \subseteq Support(t, tally, y)
           /\ Votes(t, tally, x) <= Votes(t, tally, y)
           /\ x \in Voted(t, tally) => y \in Voted(t, tally)
<1>1. Support(t, tally, x) \subseteq Support(t, tally, y)
  <2> SUFFICES ASSUME NEW b \in DOMAIN tally, x \in Line(t, b) PROVE y \in Line(t, b)
    BY DEF Support
  <2>1. b \in DOMAIN t
    BY DEF IsTally
  <2> QED
    BY <2>1, LineFacts
<1>2. IsFiniteSet(Support(t, tally, y)) /\ Numbers(tally, Support(t, tally, y))
  BY SupportFinite
<1>3. Votes(t, tally, x) <= Votes(t, tally, y)
  BY <1>1, <1>2, SumGrows DEF Votes
<1>4. y \in DOMAIN t
  BY DEF Line
<1> QED
  BY <1>1, <1>3, <1>4 DEF Voted

\* A block with votes has some.
LEMMA VotedHas ==
    ASSUME NEW t, IsTree(t), NEW tally, IsTally(t, tally), NEW x \in DOMAIN t
    PROVE  Votes(t, tally, x) > 0 <=> x \in Voted(t, tally)
<1> DEFINE S == Support(t, tally, x)
<1>1. IsFiniteSet(S) /\ Numbers(tally, S) /\ S \subseteq DOMAIN tally /\ IsFiniteSet(DOMAIN tally)
      /\ Numbers(tally, DOMAIN tally) /\ Votes(t, tally, x) \in Nat
  BY SupportFinite
<1>2. CASE S = {}
  <2>1. SumFunctionOnSet(tally, S) = 0
    BY <1>1, <1>2, SumIs
  <2>2. Votes(t, tally, x) = 0
    BY <2>1 DEF Votes
  <2> QED
    BY <1>2, <2>2 DEF Voted
<1>3. CASE S # {}
  <2>1. PICK b \in S : TRUE
    BY <1>3
  <2>2. tally[b] \in Nat \ {0}
    BY <1>1, <2>1 DEF IsTally
  <2>3. tally[b] <= SumFunctionOnSet(tally, S)
    <3> HIDE DEF S
    <3> QED
      BY <1>1, <2>1, SumGrows
  <2>4. tally[b] <= Votes(t, tally, x)
    BY <2>3 DEF Votes
  <2>5. Votes(t, tally, x) > 0
    BY <1>1, <2>2, <2>4
  <2> QED
    BY <1>3, <2>5 DEF Voted
<1> QED
  BY <1>2, <1>3

\* Blocks with the same parent are at one height.
LEMMA SiblingHeight ==
    ASSUME NEW t, IsTree(t), NEW y \in DOMAIN t, NEW z \in DOMAIN t, Parent(t, z) = Parent(t, y)
    PROVE  t[z].height = t[y].height
<1>1. /\ t[z].height \in Nat /\ t[y].height \in Nat
      /\ t[z].height = 0 => Parent(t, z) = None
      /\ t[y].height = 0 => Parent(t, y) = None
      /\ t[z].height # 0 => Parent(t, z) \in DOMAIN t /\ t[Parent(t, z)].height = t[z].height - 1
      /\ t[y].height # 0 => Parent(t, y) \in DOMAIN t /\ t[Parent(t, y)].height = t[y].height - 1
  BY TreeBasics
<1>2. None \notin DOMAIN t
  BY DEF IsTree
<1>3. t[z].height = 0 <=> t[y].height = 0
  BY <1>1, <1>2
<1>4. CASE t[z].height = 0
  BY <1>3, <1>4
<1>5. CASE t[z].height # 0
  <2>1. t[z].height - 1 = t[y].height - 1
    BY <1>1, <1>3, <1>5
  <2> QED
    BY <1>1, <2>1
<1> QED
  BY <1>4, <1>5

\* A block with a majority leads, and so do the blocks below it.
LEMMA MajorityLeads ==
    ASSUME NEW t, IsTree(t), NEW tally, IsTally(t, tally), Ranked(DOMAIN t), NEW x \in DOMAIN t,
           Votes(t, tally, x) + Votes(t, tally, x) > Total(tally), NEW y \in Line(t, x)
    PROVE  Leads(t, tally, y)
<1>1. \A z : Votes(t, tally, z) \in Nat
  BY SupportFinite
<1>2. Total(tally) \in Nat /\ Votes(t, tally, x) <= Votes(t, tally, y)
  BY TotalIs, VotedBelow
<1>3. Votes(t, tally, y) > 0 /\ Votes(t, tally, y) + Votes(t, tally, y) > Total(tally)
  BY <1>1, <1>2
<1>4. y \in DOMAIN t
  BY DEF Line
<1>5. y \in Voted(t, tally)
  BY <1>3, <1>4, VotedHas
<1>6. ASSUME NEW z \in Voted(t, tally), Parent(t, z) = Parent(t, y)
      PROVE  Preferred(Votes(t, tally, y), y, Votes(t, tally, z), z)
  <2>1. z \in DOMAIN t
    BY DEF Voted
  <2>2. CASE z = y
    BY <1>1, <1>4, <2>2 DEF Preferred, Ranked
  <2>3. CASE z # y
    <3>1. t[z].height = t[y].height
      BY <1>4, <1>6, <2>1, SiblingHeight
    <3>2. Votes(t, tally, y) + Votes(t, tally, z) <= Total(tally)
      BY <2>3, <3>1, VotesOfTwo
    <3>3. Votes(t, tally, y) > Votes(t, tally, z)
      BY <1>1, <1>2, <1>3, <3>2
    <3> QED
      BY <3>3 DEF Preferred
  <2> QED
    BY <2>2, <2>3
<1> QED
  BY <1>5, <1>6 DEF Leads

\* The tally at a height up to that of the highest vote.
LEMMA LevelOK ==
    ASSUME NEW t, IsTree(t), NEW tally, IsTally(t, tally), DOMAIN tally # {}, Ranked(DOMAIN t),
           NEW h \in 0 .. TopHeight(t, tally)
    PROVE  LET f == AtHeight(t, tally, h) IN
           /\ IsFiniteSet(DOMAIN f) /\ DOMAIN f # {} /\ Numbers(f, DOMAIN f) /\ Ranked(DOMAIN f)
           /\ DOMAIN f = VotedAt(t, tally, h)
           /\ \A x \in DOMAIN f : f[x] = Votes(t, tally, x)
<1> DEFINE f == AtHeight(t, tally, h)
<1>1. DOMAIN f = VotedAt(t, tally, h) /\ \A x \in DOMAIN f : f[x] = Votes(t, tally, x)
  BY DEF AtHeight
<1>2. IsFiniteSet(DOMAIN f) /\ Numbers(f, DOMAIN f)
  <2>1. IsFiniteSet(VotedAt(t, tally, h)) /\ \A x : Votes(t, tally, x) \in Nat
    BY SupportFinite
  <2> QED
    BY <1>1, <2>1 DEF Numbers
<1>3. Ranked(DOMAIN f)
  BY <1>1 DEF Ranked, VotedAt, Voted
<1>4. DOMAIN f # {}
  <2>1. TopHeight(t, tally) \in Nat
    BY TopOK
  <2>2. PICK b \in DOMAIN tally : t[b].height = TopHeight(t, tally)
    BY TopOK
  <2>3. b \in DOMAIN t /\ h \in Nat /\ h <= t[b].height
    BY <2>1, <2>2 DEF IsTally
  <2> DEFINE x == FindAncestorProposal(t, b, h)
  <2>4. x \in Line(t, b) /\ t[x].height = h
    BY <2>3, LineFacts
  <2>5. x \in VotedAt(t, tally, h)
    <3> HIDE DEF x
    <3> QED
      BY <2>4 DEF VotedAt, Voted, Support, Line
  <2> QED
    BY <1>1, <2>5
<1> QED
  BY <1>1, <1>2, <1>3, <1>4

\* The heights at which a block has the majority.
Decisive(t, tally) ==
    {h \in 0 .. TopHeight(t, tally) :
        /\ h + 1 \in 0 .. TopHeight(t, tally)
        /\ Majority(Max(Range(AtHeight(t, tally, h))), Total(tally))}

\* Tallies::find_decided decides at the highest height with a majority.
LEMMA DecidedIs ==
    ASSUME NEW t, IsTree(t), NEW tally, IsTally(t, tally), DOMAIN tally # {}
    PROVE  LET H == Max(Decisive(t, tally))
               b == MaxBlock(AtHeight(t, tally, H))
           IN FindDecided(t, tally) =
                  IF Decisive(t, tally) = {} THEN MaxBlock(AtHeight(t, tally, 0))
                  ELSE MaxOr(Descendants(t, AtHeight(t, tally, H + 1), H, b), b)
<1> DEFINE top == TopHeight(t, tally)
           above == [h \in 0 .. top |-> AtHeight(t, tally, h)]
           S == Decisive(t, tally)
<1>1. Cumulative(t, tally) = above
  BY CumulativeIs
<1>2. top \in Nat
  BY TopOK
<1>3. FindDecided(t, tally) = Decide(t, above, Total(tally))
  BY <1>1 DEF FindDecided
<1>4. \A h \in 0 .. top : above[h] = AtHeight(t, tally, h)
  OBVIOUS
<1>5. DOMAIN above = 0 .. top
  OBVIOUS
<1>6. S = {h \in 0 .. top : h + 1 \in 0 .. top /\ Majority(Max(Range(above[h])), Total(tally))}
  BY <1>4 DEF Decisive
<1>7. 0 \in 0 .. top
  BY <1>2
<1>8. Decide(t, above, Total(tally)) = DecideAt(t, above, S)
  <2> HIDE DEF above, top, S
  <2> QED
    BY <1>5, <1>6 DEF Decide
<1>9. CASE S = {}
  <2>1. DecideAt(t, above, S) = MaxBlock(above[0])
    <3> HIDE DEF above, top, S
    <3> QED
      BY <1>9 DEF DecideAt
  <2>2. above[0] = AtHeight(t, tally, 0)
    BY <1>4, <1>7
  <2> HIDE DEF above, top
  <2> QED
    BY <1>3, <1>8, <1>9, <2>1, <2>2
<1>10. CASE S # {}
  <2>1. IsFiniteSet(S) /\ S \in SUBSET Nat
    <3>1. IsFiniteSet(0 .. top)
      <4> HIDE DEF top
      <4> QED
        BY <1>2, FS_Interval
    <3>2. S \in SUBSET (0 .. top)
      BY DEF Decisive
    <3>3. 0 .. top \in SUBSET Nat
      OBVIOUS
    <3> HIDE DEF S, top
    <3> QED
      BY <3>1, <3>2, <3>3, FS_Subset
  <2>2. Max(S) \in S
    <3> HIDE DEF S
    <3> QED
      BY <1>10, <2>1, GreatestNumber
  <2>3. Max(S) \in 0 .. top /\ Max(S) + 1 \in 0 .. top
    <3> HIDE DEF above, top, S
    <3> QED
      BY <1>6, <2>2
  <2>4. above[Max(S)] = AtHeight(t, tally, Max(S)) /\ above[Max(S) + 1] = AtHeight(t, tally, Max(S) + 1)
    <3> HIDE DEF above, top, S
    <3> QED
      BY <1>4, <2>3
  <2>5. DecideAt(t, above, S) = DecideChild(t, above, Max(S), MaxBlock(above[Max(S)]))
    <3> HIDE DEF above, top, S
    <3> QED
      BY <1>10 DEF DecideAt
  <2> HIDE DEF above, top
  <2> QED
    BY <1>3, <1>8, <1>10, <2>4, <2>5 DEF DecideChild
<1> QED
  BY <1>9, <1>10

\* A block above which all votes are has the majority at its height.
LEMMA AllAreDecisive ==
    ASSUME NEW t, IsTree(t), NEW tally, IsTally(t, tally), DOMAIN tally # {}, Ranked(DOMAIN t),
           NEW b \in DOMAIN t, \A c \in DOMAIN tally : b \in Line(t, c) /\ b # c
    PROVE  t[b].height \in Decisive(t, tally)
<1> DEFINE h == t[b].height
           f == AtHeight(t, tally, h)
<1>1. TopHeight(t, tally) \in Nat /\ \A c \in DOMAIN tally : t[c].height <= TopHeight(t, tally)
  BY TopOK
<1>2. PICK c \in DOMAIN tally : TRUE
  OBVIOUS
<1>3. c \in DOMAIN t
  BY DEF IsTally
<1>4. h \in Nat /\ t[c].height \in Nat /\ h <= t[c].height /\ h # t[c].height
  <2>1. t[b].height \in Nat /\ t[c].height \in Nat
    BY <1>3, TreeBasics
  <2>2. t[b].height <= t[c].height /\ t[b].height # t[c].height
    BY <1>3, LineFacts
  <2> QED
    BY <2>1, <2>2
<1>5. h \in 0 .. TopHeight(t, tally) /\ h + 1 \in 0 .. TopHeight(t, tally)
  BY <1>1, <1>4
<1>6. Support(t, tally, b) = DOMAIN tally
  BY DEF Support
<1>7. Votes(t, tally, b) = Total(tally) /\ Total(tally) \in Nat
  BY <1>6, TotalIs DEF Votes
<1>8. b \in Voted(t, tally)
  BY <1>6 DEF Voted
<1>9. Total(tally) > 0
  BY <1>7, <1>8, VotedHas
<1>10. /\ IsFiniteSet(DOMAIN f) /\ DOMAIN f # {} /\ Numbers(f, DOMAIN f) /\ Ranked(DOMAIN f)
       /\ DOMAIN f = VotedAt(t, tally, h)
       /\ \A x \in DOMAIN f : f[x] = Votes(t, tally, x)
  <2> HIDE DEF h
  <2> QED
    BY <1>5, LevelOK
<1>11. b \in DOMAIN f
  <2>1. b \in VotedAt(t, tally, h)
    BY <1>8 DEF VotedAt
  <2> QED
    BY <1>10, <2>1
<1>12. /\ MaxBlock(f) \in DOMAIN f
       /\ Preferred(f[MaxBlock(f)], MaxBlock(f), f[b], b)
       /\ Max(Range(f)) = f[MaxBlock(f)]
  <2> HIDE DEF f
  <2> QED
    BY <1>10, <1>11, MaxBlockOK
<1>13. f[MaxBlock(f)] \in Nat /\ f[b] = Total(tally)
  <2> HIDE DEF f
  <2> QED
    BY <1>7, <1>10, <1>11, <1>12 DEF Numbers
<1>14. f[MaxBlock(f)] >= f[b]
  <2> HIDE DEF f
  <2> QED
    BY <1>7, <1>12, <1>13 DEF Preferred
<1>15. Majority(Max(Range(f)), Total(tally))
  <2> DEFINE m == f[MaxBlock(f)]
  <2>1. m \in Nat /\ m >= Total(tally) /\ Total(tally) \in Nat /\ Total(tally) > 0
    BY <1>7, <1>9, <1>13, <1>14
  <2> HIDE DEF m
  <2>2. m + m > Total(tally)
    BY <2>1
  <2>3. Majority(m, Total(tally))
    BY <2>1, <2>2, MajorityIs
  <2> QED
    BY <1>12, <2>3 DEF m
<1> QED
  BY <1>5, <1>15 DEF Decisive

\* What Tallies::find_decided promises: the blocks up to the decided one lead, and
\* it is above every block that all votes are above.
LEMMA DecidedOK ==
    ASSUME NEW t, IsTree(t), NEW tally, IsTally(t, tally), DOMAIN tally # {}, Ranked(DOMAIN t)
    PROVE  LET d == FindDecided(t, tally) IN
           /\ d \in Voted(t, tally)
           /\ \A y \in Line(t, d) : Leads(t, tally, y)
           /\ \A b \in DOMAIN t :
                  (\A c \in DOMAIN tally : b \in Line(t, c) /\ b # c) => b \in Line(t, d) /\ b # d
<1> DEFINE S == Decisive(t, tally)
           d == FindDecided(t, tally)
<1>0. \A x \in Voted(t, tally) : x \in DOMAIN t
  BY DEF Voted
<1>1. CASE S = {}
  <2> DEFINE f == AtHeight(t, tally, 0)
  <2>1. 0 \in 0 .. TopHeight(t, tally)
    BY TopOK
  <2>2. /\ IsFiniteSet(DOMAIN f) /\ DOMAIN f # {} /\ Numbers(f, DOMAIN f) /\ Ranked(DOMAIN f)
        /\ DOMAIN f = VotedAt(t, tally, 0)
        /\ \A x \in DOMAIN f : f[x] = Votes(t, tally, x)
    BY <2>1, LevelOK
  <2>3. d = MaxBlock(f)
    BY <1>1, DecidedIs
  <2>4. d \in DOMAIN f /\ \A y \in DOMAIN f : Preferred(f[d], d, f[y], y)
    <3> HIDE DEF f, d
    <3> QED
      BY <2>2, <2>3, MaxBlockOK
  <2> HIDE DEF d
  <2>5. d \in Voted(t, tally) /\ d \in DOMAIN t /\ t[d].height = 0
    BY <2>2, <2>4 DEF VotedAt, Voted
  <2>6. Leads(t, tally, d)
    <3> SUFFICES ASSUME NEW z \in Voted(t, tally), Parent(t, z) = Parent(t, d)
                 PROVE  Preferred(Votes(t, tally, d), d, Votes(t, tally, z), z)
      BY <2>5 DEF Leads
    <3>1. t[z].height = 0
      BY <1>0, <2>5, SiblingHeight
    <3>2. z \in DOMAIN f
      BY <2>2, <3>1 DEF VotedAt
    <3> HIDE DEF f
    <3> QED
      BY <2>2, <2>4, <3>2
  <2>7. Line(t, d) = {d}
    <3>1. Parent(t, d) = None
      BY <2>5, TreeBasics
    <3> QED
      BY <2>5, <3>1, LineOfParent
  <2>8. ASSUME NEW b \in DOMAIN t, \A c \in DOMAIN tally : b \in Line(t, c) /\ b # c PROVE FALSE
    BY <1>1, <2>8, AllAreDecisive
  <2> QED
    BY <2>5, <2>6, <2>7, <2>8 DEF d
<1>2. CASE S # {}
  <2> DEFINE H == Max(S)
             f == AtHeight(t, tally, H)
             m == MaxBlock(f)
             g == AtHeight(t, tally, H + 1)
             k == Descendants(t, g, H, m)
  <2>1. IsFiniteSet(S) /\ S \in SUBSET Nat
    <3>1. TopHeight(t, tally) \in Nat
      BY TopOK
    <3>2. S \in SUBSET (0 .. TopHeight(t, tally))
      BY DEF Decisive
    <3>3. IsFiniteSet(0 .. TopHeight(t, tally)) /\ 0 .. TopHeight(t, tally) \in SUBSET Nat
      BY <3>1, FS_Interval
    <3> HIDE DEF S
    <3> QED
      BY <3>2, <3>3, FS_Subset
  <2>2. H \in S /\ \A h \in S : h <= H
    <3> HIDE DEF S
    <3> QED
      BY <1>2, <2>1, GreatestNumber
  <2>3. H \in Nat /\ H \in 0 .. TopHeight(t, tally) /\ H + 1 \in 0 .. TopHeight(t, tally)
        /\ Majority(Max(Range(f)), Total(tally))
    <3>1. H \in Decisive(t, tally)
      BY <2>2
    <3> HIDE DEF H
    <3> QED
      BY <3>1 DEF Decisive
  <2>4. d = MaxOr(k, m)
    BY <1>2, DecidedIs
  <2> HIDE DEF H, d
  <2>5. /\ IsFiniteSet(DOMAIN f) /\ DOMAIN f # {} /\ Numbers(f, DOMAIN f) /\ Ranked(DOMAIN f)
        /\ DOMAIN f = VotedAt(t, tally, H)
        /\ \A x \in DOMAIN f : f[x] = Votes(t, tally, x)
    BY <2>3, LevelOK
  <2>6. /\ IsFiniteSet(DOMAIN g) /\ Numbers(g, DOMAIN g) /\ Ranked(DOMAIN g)
        /\ DOMAIN g = VotedAt(t, tally, H + 1)
        /\ \A x \in DOMAIN g : g[x] = Votes(t, tally, x)
    <3> DEFINE h == H + 1
    <3>1. h \in 0 .. TopHeight(t, tally)
      BY <2>3
    <3>2. LET e == AtHeight(t, tally, h) IN
           /\ IsFiniteSet(DOMAIN e) /\ DOMAIN e # {} /\ Numbers(e, DOMAIN e) /\ Ranked(DOMAIN e)
           /\ DOMAIN e = VotedAt(t, tally, h)
           /\ \A x \in DOMAIN e : e[x] = Votes(t, tally, x)
      <4> HIDE DEF h
      <4> QED
        BY <3>1, LevelOK
    <3> QED
      BY <3>2
  <2>7. m \in DOMAIN f /\ Max(Range(f)) = f[m]
    <3> HIDE DEF f
    <3> QED
      BY <2>5, MaxBlockOK
  <2>8. m \in Voted(t, tally) /\ m \in DOMAIN t /\ t[m].height = H /\ f[m] = Votes(t, tally, m)
    <3> HIDE DEF f, m
    <3> QED
      BY <2>5, <2>7 DEF VotedAt, Voted
  <2>9. Votes(t, tally, m) + Votes(t, tally, m) > Total(tally)
    <3>1. Votes(t, tally, m) \in Nat /\ Total(tally) \in Nat
      BY SupportFinite, TotalIs
    <3>2. Majority(Votes(t, tally, m), Total(tally))
      <4> HIDE DEF f, m
      <4> QED
        BY <2>3, <2>7, <2>8
    <3> QED
      BY <3>1, <3>2, MajorityIs
  <2>10. \A y \in Line(t, m) : Leads(t, tally, y)
    <3> HIDE DEF m
    <3> QED
      BY <2>8, <2>9, MajorityLeads
  <2> HIDE DEF m
  <2>11. \A c \in VotedAt(t, tally, H + 1) : FindAncestorProposal(t, c, H) = m <=> Parent(t, c) = m
    <3> SUFFICES ASSUME NEW c \in VotedAt(t, tally, H + 1)
                 PROVE  FindAncestorProposal(t, c, H) = m <=> Parent(t, c) = m
      OBVIOUS
    <3>1. c \in DOMAIN t /\ t[c].height = H + 1
      BY DEF VotedAt, Voted
    <3>2. t[c].height # 0 /\ t[c].height - 1 = H
      BY <2>3, <3>1
    <3>3. Parent(t, c) \in DOMAIN t /\ t[Parent(t, c)].height = H /\ Parent(t, c) # None
      BY <3>1, <3>2, TreeBasics
    <3>4. Parent(t, c) \in Line(t, c)
      BY <3>1, <3>3, LineOfParent, LineFacts
    <3>5. FindAncestorProposal(t, c, H) = Parent(t, c)
      BY <3>3, <3>4 DEF Line
    <3> QED
      BY <3>5
  <2>12. /\ DOMAIN k = {c \in VotedAt(t, tally, H + 1) : Parent(t, c) = m}
         /\ \A c \in DOMAIN k : k[c] = Votes(t, tally, c)
    <3>1. DOMAIN k = {c \in DOMAIN g : FindAncestorProposal(t, c, H) = m} /\ \A c \in DOMAIN k : k[c] = g[c]
      BY DEF Descendants, Restrict
    <3> HIDE DEF g, k
    <3> QED
      BY <2>6, <2>11, <3>1
  <2>13. CASE DOMAIN k = {}
    <3>1. d = m
      BY <2>4, <2>13 DEF MaxOr
    <3>2. ASSUME NEW b \in DOMAIN t, \A c \in DOMAIN tally : b \in Line(t, c) /\ b # c
          PROVE  b \in Line(t, d) /\ b # d
      <4>1. t[b].height \in S /\ t[b].height <= H
        BY <2>2, <3>2, AllAreDecisive
      <4>2. PICK c \in DOMAIN tally : m \in Line(t, c)
        BY <2>8 DEF Voted, Support
      <4>3. c \in DOMAIN t /\ b \in Line(t, c)
        BY <3>2 DEF IsTally
      <4>4. b \in Line(t, m)
        BY <2>8, <4>1, <4>2, <4>3, LineFacts
      <4>5. b # m
        <5> SUFFICES ASSUME b = m PROVE FALSE
          OBVIOUS
        <5>1. PICK y \in Line(t, c) : Parent(t, y) = m /\ t[y].height = t[m].height + 1
          BY <3>2, <4>2, <4>3, LineChild
        <5>2. y \in VotedAt(t, tally, H + 1)
          BY <2>8, <5>1 DEF VotedAt, Voted, Support, Line
        <5> QED
          BY <2>12, <2>13, <5>1, <5>2
      <4> QED
        BY <3>1, <4>4, <4>5
    <3> QED
      BY <2>8, <2>10, <3>1, <3>2 DEF d
  <2>14. CASE DOMAIN k # {}
    <3>1. d = MaxBlock(k)
      BY <2>4, <2>14 DEF MaxOr
    <3>2. IsFiniteSet(DOMAIN k) /\ Numbers(k, DOMAIN k) /\ Ranked(DOMAIN k)
      <4>1. DOMAIN k \subseteq VotedAt(t, tally, H + 1)
        BY <2>12
      <4>2. IsFiniteSet(VotedAt(t, tally, H + 1)) /\ \A x : Votes(t, tally, x) \in Nat
        BY SupportFinite
      <4> HIDE DEF k
      <4> QED
        BY <2>12, <4>1, <4>2, FS_Subset DEF Numbers, Ranked, VotedAt, Voted
    <3>3. d \in DOMAIN k /\ \A y \in DOMAIN k : Preferred(k[d], d, k[y], y)
      <4> HIDE DEF k
      <4> QED
        BY <2>14, <3>1, <3>2, MaxBlockOK
    <3>4. d \in Voted(t, tally) /\ d \in DOMAIN t /\ t[d].height = H + 1 /\ Parent(t, d) = m
          /\ k[d] = Votes(t, tally, d)
      <4> HIDE DEF k
      <4> QED
        BY <2>12, <3>3 DEF VotedAt, Voted
    <3>5. Leads(t, tally, d)
      <4> SUFFICES ASSUME NEW z \in Voted(t, tally), Parent(t, z) = Parent(t, d)
                   PROVE  Preferred(Votes(t, tally, d), d, Votes(t, tally, z), z)
        BY <3>4 DEF Leads
      <4>1. t[z].height = H + 1
        BY <1>0, <3>4, SiblingHeight
      <4>2. z \in DOMAIN k
        BY <2>12, <3>4, <4>1 DEF VotedAt
      <4> HIDE DEF k
      <4> QED
        BY <2>12, <3>3, <3>4, <4>2
    <3>6. Line(t, d) = {d} \cup Line(t, m)
      <4>1. m # None
        BY <2>8 DEF IsTree
      <4> QED
        BY <3>4, <4>1, LineOfParent
    <3>7. ASSUME NEW b \in DOMAIN t, \A c \in DOMAIN tally : b \in Line(t, c) /\ b # c
          PROVE  b \in Line(t, d) /\ b # d
      <4>1. t[b].height \in S /\ t[b].height <= H
        BY <2>2, <3>7, AllAreDecisive
      <4>2. PICK c \in DOMAIN tally : m \in Line(t, c)
        BY <2>8 DEF Voted, Support
      <4>3. c \in DOMAIN t /\ b \in Line(t, c)
        BY <3>7 DEF IsTally
      <4>4. b \in Line(t, m)
        BY <2>8, <4>1, <4>2, <4>3, LineFacts
      <4>5. t[b].height \in Nat
        BY TreeBasics
      <4>6. t[b].height # H + 1
        BY <2>3, <4>1, <4>5
      <4> QED
        BY <3>4, <3>6, <4>4, <4>6
    <3> QED
      BY <2>10, <3>4, <3>5, <3>6, <3>7 DEF d
  <2> QED
    BY <2>13, <2>14
<1> QED
  BY <1>1, <1>2

-----------------------------------------------------------------------------
(* The loop of the fork choice.                                            *)

\* Steps that climb end.
Climbs(S, Onward, Stop, rank, m) ==
    /\ \A b \in S : rank[b] \in Nat /\ rank[b] <= m
    /\ \A b \in S : b \notin Stop => Onward[b] \in S /\ rank[Onward[b]] > rank[b]

Climb(Onward, Stop, f, b) == IF b \in Stop THEN b ELSE f[Onward[b]]

\* There is a climb that obeys its recursion.
LEMMA ClimbExists ==
    ASSUME NEW S, NEW Onward, NEW Stop, NEW rank, NEW m \in Nat, Climbs(S, Onward, Stop, rank, m)
    PROVE  \E f : f = [b \in S |-> Climb(Onward, Stop, f, b)]
<1> DEFINE Upto(n) == {f \in [S -> S] :
                          \A b \in S : rank[b] + n > m => f[b] = Climb(Onward, Stop, f, b)}
           Q == {n \in Nat : Upto(n) # {}}
<1>0. /\ \A b \in S : rank[b] \in Nat /\ rank[b] <= m
      /\ \A b \in S : b \notin Stop => Onward[b] \in S /\ rank[Onward[b]] > rank[b]
  BY DEF Climbs
<1>1. 0 \in Q
  <2>1. [b \in S |-> b] \in Upto(0)
    <3>1. \A b \in S : ~(rank[b] + 0 > m)
      BY <1>0
    <3> QED
      BY <3>1
  <2> QED
    BY <2>1
<1>2. ASSUME NEW n \in Nat, n \in Q PROVE n + 1 \in Q
  <2>1. PICK f \in [S -> S] : \A b \in S : rank[b] + n > m => f[b] = Climb(Onward, Stop, f, b)
    BY <1>2
  <2> DEFINE g == [b \in S |-> IF rank[b] + n > m THEN f[b] ELSE Climb(Onward, Stop, f, b)]
  <2>2. g \in [S -> S]
    BY <1>0 DEF Climb
  <2>3. ASSUME NEW b \in S, rank[b] + (n + 1) > m PROVE g[b] = Climb(Onward, Stop, g, b)
    <3>1. g[b] = Climb(Onward, Stop, f, b)
      BY <2>1
    <3>2. CASE b \in Stop
      BY <3>1, <3>2 DEF Climb
    <3>3. CASE b \notin Stop
      <4>1. Onward[b] \in S /\ rank[Onward[b]] > rank[b] /\ rank[Onward[b]] \in Nat /\ rank[b] \in Nat
        BY <1>0, <3>3
      <4>2. rank[Onward[b]] + n > m
        BY <2>3, <4>1
      <4>3. g[Onward[b]] = f[Onward[b]]
        BY <4>1, <4>2
      <4> HIDE DEF g
      <4> QED
        BY <3>1, <3>3, <4>3 DEF Climb
    <3> QED
      BY <3>2, <3>3
  <2>4. g \in Upto(n + 1)
    <3> HIDE DEF g
    <3> QED
      BY <2>2, <2>3
  <2> HIDE DEF Upto
  <2> QED
    BY <2>4
<1>3. Q = Nat
  <2>0. Q \in SUBSET Nat
    OBVIOUS
  <2> HIDE DEF Q
  <2> QED
    BY <1>1, <1>2, <2>0, AllNumbers
<1>4. m + 1 \in Q
  <2> HIDE DEF Q
  <2> QED
    BY <1>3
<1>5. PICK f \in [S -> S] : \A b \in S : rank[b] + (m + 1) > m => f[b] = Climb(Onward, Stop, f, b)
  BY <1>4
<1>6. \A b \in S : f[b] = Climb(Onward, Stop, f, b)
  <2> SUFFICES ASSUME NEW b \in S PROVE f[b] = Climb(Onward, Stop, f, b)
    OBVIOUS
  <2>1. rank[b] \in Nat
    BY <1>0
  <2>2. rank[b] + (m + 1) > m
    BY <2>1
  <2> QED
    BY <1>5, <2>2
<1>7. f = [b \in S |-> Climb(Onward, Stop, f, b)]
  BY <1>6
<1> QED
  BY <1>7

\* A climb ends, and stays in what its steps stay in.
LEMMA ClimbEnds ==
    ASSUME NEW S, NEW Onward, NEW Stop, NEW rank, NEW m \in Nat, Climbs(S, Onward, Stop, rank, m),
           NEW f, f = [b \in S |-> Climb(Onward, Stop, f, b)],
           NEW W \in SUBSET S, \A b \in W : b \notin Stop => Onward[b] \in W
    PROVE  \A b \in W : f[b] \in W /\ f[b] \in Stop
<1> DEFINE Q == {n \in Nat : \A b \in W : rank[b] + n > m => f[b] \in W /\ f[b] \in Stop}
<1>0. /\ \A b \in W : b \in S /\ rank[b] \in Nat /\ rank[b] <= m
      /\ \A b \in W : b \notin Stop => Onward[b] \in W /\ rank[Onward[b]] > rank[b]
  BY DEF Climbs
<1>1. 0 \in Q
  <2>1. \A b \in W : ~(rank[b] + 0 > m)
    BY <1>0
  <2> QED
    BY <2>1
<1>2. ASSUME NEW n \in Nat, n \in Q PROVE n + 1 \in Q
  <2> SUFFICES ASSUME NEW b \in W, rank[b] + (n + 1) > m PROVE f[b] \in W /\ f[b] \in Stop
    OBVIOUS
  <2>1. f[b] = Climb(Onward, Stop, f, b)
    <3>1. b \in S
      BY <1>0
    <3> QED
      BY <3>1
  <2>2. CASE b \in Stop
    BY <2>1, <2>2 DEF Climb
  <2>3. CASE b \notin Stop
    <3>1. Onward[b] \in W /\ rank[Onward[b]] > rank[b] /\ rank[Onward[b]] \in Nat /\ rank[b] \in Nat
      BY <1>0, <2>3
    <3>2. rank[Onward[b]] + n > m
      BY <3>1
    <3> QED
      BY <1>2, <2>1, <2>3, <3>1, <3>2 DEF Climb
  <2> QED
    BY <2>2, <2>3
<1>3. Q = Nat
  <2>0. Q \in SUBSET Nat
    OBVIOUS
  <2> HIDE DEF Q
  <2> QED
    BY <1>1, <1>2, <2>0, AllNumbers
<1> SUFFICES ASSUME NEW b \in W PROVE f[b] \in W /\ f[b] \in Stop
  OBVIOUS
<1>4. m + 1 \in Q
  <2> HIDE DEF Q
  <2> QED
    BY <1>3
<1>5. rank[b] + (m + 1) > m
  BY <1>0
<1> QED
  BY <1>4, <1>5

\* The blocks up to b lead.
Wins(t, tally, b) == b # None => \A y \in Line(t, b) : Leads(t, tally, y)

\* No block on top of b has votes.
IsLast(t, tally, b) == \A y \in Voted(t, tally) : Parent(t, y) # b

\* GHOST: from the first block on, the leading one, to the last that has votes.
IsChoice(t, tally, c) ==
    c \in DOMAIN t \cup {None} /\ Wins(t, tally, c) /\ IsLast(t, tally, c)

\* Two blocks that lead among the same ones are one.
LEMMA OneLeader ==
    ASSUME NEW t, IsTree(t), NEW tally, IsTally(t, tally), Ranked(DOMAIN t),
           NEW x, NEW y, Leads(t, tally, x), Leads(t, tally, y), Parent(t, x) = Parent(t, y)
    PROVE  x = y
<1>1. x \in DOMAIN t /\ y \in DOMAIN t
  BY DEF Leads, Voted
<1>2. /\ Preferred(Votes(t, tally, x), x, Votes(t, tally, y), y)
      /\ Preferred(Votes(t, tally, y), y, Votes(t, tally, x), x)
  BY DEF Leads
<1>3. Votes(t, tally, x) \in Nat /\ Votes(t, tally, y) \in Nat
  BY SupportFinite
<1>4. HashRank(x) \in Int /\ HashRank(y) \in Int
  BY <1>1 DEF Ranked
<1>5. HashRank(x) = HashRank(y)
  BY <1>2, <1>3, <1>4 DEF Preferred
<1> QED
  BY <1>1, <1>5 DEF Ranked

\* The lower of two winning blocks is below the other.
LEMMA OneLine ==
    ASSUME NEW t, IsTree(t), NEW tally, IsTally(t, tally), Ranked(DOMAIN t),
           NEW c \in DOMAIN t, NEW d \in DOMAIN t, Wins(t, tally, c), Wins(t, tally, d),
           t[c].height <= t[d].height
    PROVE  c \in Line(t, d)
<1> DEFINE at(x, h) == FindAncestorProposal(t, x, h)
           Q == {h \in Nat : h <= t[c].height => at(c, h) = at(d, h)}
<1>0. t[c].height \in Nat /\ t[d].height \in Nat /\ c # None /\ d # None
  BY TreeBasics
<1>1. ASSUME NEW h \in Nat, h <= t[c].height
      PROVE  /\ at(c, h) \in Line(t, c) /\ t[at(c, h)].height = h
             /\ at(d, h) \in Line(t, d) /\ t[at(d, h)].height = h
             /\ Leads(t, tally, at(c, h)) /\ Leads(t, tally, at(d, h))
             /\ at(c, h) \in DOMAIN t /\ at(d, h) \in DOMAIN t
  <2>1. h <= t[d].height
    BY <1>0, <1>1
  <2>2. /\ at(c, h) \in Line(t, c) /\ t[at(c, h)].height = h
        /\ at(d, h) \in Line(t, d) /\ t[at(d, h)].height = h
    BY <1>1, <2>1, LineFacts
  <2> HIDE DEF at
  <2> QED
    BY <1>0, <2>2 DEF Wins, Line
<1>2. 0 \in Q
  <2>0. 0 <= t[c].height
    BY <1>0
  <2>1. Parent(t, at(c, 0)) = None /\ Parent(t, at(d, 0)) = None
    <3>1. t[at(c, 0)].height = 0 /\ t[at(d, 0)].height = 0 /\ at(c, 0) \in DOMAIN t /\ at(d, 0) \in DOMAIN t
      BY <1>1, <2>0
    <3> HIDE DEF at
    <3> QED
      BY <3>1, TreeBasics
  <2>2. Leads(t, tally, at(c, 0)) /\ Leads(t, tally, at(d, 0))
    BY <1>1, <2>0
  <2>3. at(c, 0) = at(d, 0)
    <3> HIDE DEF at
    <3> QED
      BY <2>1, <2>2, OneLeader
  <2> QED
    BY <2>3
<1>3. ASSUME NEW h \in Nat, h \in Q PROVE h + 1 \in Q
  <2> SUFFICES ASSUME h + 1 <= t[c].height PROVE at(c, h + 1) = at(d, h + 1)
    OBVIOUS
  <2> DEFINE i == h + 1
  <2>1. i \in Nat /\ i <= t[c].height /\ h <= t[c].height /\ i # 0 /\ i - 1 = h
    BY <1>0
  <2>2. at(c, h) = at(d, h)
    BY <1>3, <2>1
  <2> HIDE DEF at, i
  <2>3. /\ at(c, i) \in Line(t, c) /\ t[at(c, i)].height = i
        /\ at(d, i) \in Line(t, d) /\ t[at(d, i)].height = i
        /\ Leads(t, tally, at(c, i)) /\ Leads(t, tally, at(d, i))
        /\ at(c, i) \in DOMAIN t /\ at(d, i) \in DOMAIN t
    BY <1>1, <2>1
  <2>4. ASSUME NEW x \in DOMAIN t, at(x, i) \in Line(t, x), t[at(x, i)].height = i, at(x, i) \in DOMAIN t
        PROVE  Parent(t, at(x, i)) = at(x, h)
    <3> DEFINE y == at(x, i)
               p == Parent(t, y)
    <3>1. p \in DOMAIN t /\ t[p].height = h /\ p # None
      BY <2>1, <2>4, TreeBasics
    <3>2. p \in Line(t, y)
      BY <2>4, <3>1, LineOfParent, LineFacts
    <3>3. p \in Line(t, x)
      BY <2>4, <3>2, LineFacts
    <3> QED
      BY <3>1, <3>3 DEF at, Line
  <2>5. Parent(t, at(c, i)) = Parent(t, at(d, i))
    BY <2>2, <2>3, <2>4
  <2>6. at(c, i) = at(d, i)
    BY <2>3, <2>5, OneLeader
  <2> QED
    BY <2>6 DEF i
<1>4. Q = Nat
  <2>0. Q \in SUBSET Nat
    OBVIOUS
  <2> HIDE DEF Q
  <2> QED
    BY <1>2, <1>3, <2>0, AllNumbers
<1>5. t[c].height \in Q
  <2> HIDE DEF Q
  <2> QED
    BY <1>0, <1>4
<1>6. at(c, t[c].height) = at(d, t[c].height)
  BY <1>0, <1>5
<1>7. at(c, t[c].height) = c
  <2>1. c \in Line(t, c)
    BY LineFacts
  <2> QED
    BY <2>1 DEF Line
<1> QED
  BY <1>6, <1>7 DEF Line

\* There is only one choice.
LEMMA OneChoice ==
    ASSUME NEW t, IsTree(t), NEW tally, IsTally(t, tally), Ranked(DOMAIN t),
           NEW c, IsChoice(t, tally, c), NEW d, IsChoice(t, tally, d)
    PROVE  c = d
<1>1. ASSUME NEW x, IsChoice(t, tally, x), NEW y, IsChoice(t, tally, y),
             x \in DOMAIN t, y \in DOMAIN t, t[x].height <= t[y].height
      PROVE  x = y
  <2>1. x \in Line(t, y)
    BY <1>1, OneLine DEF IsChoice
  <2> SUFFICES ASSUME x # y PROVE FALSE
    OBVIOUS
  <2>2. PICK z \in Line(t, y) : Parent(t, z) = x
    BY <1>1, <2>1, LineChild
  <2>3. y # None
    BY <1>1 DEF IsTree
  <2> QED
    BY <1>1, <2>2, <2>3 DEF IsChoice, Wins, IsLast, Leads
<1>2. ASSUME NEW x, IsChoice(t, tally, x), NEW y, IsChoice(t, tally, y), x \in DOMAIN t, y = None
      PROVE  FALSE
  <2>1. t[x].height \in Nat /\ 0 <= t[x].height /\ x # None
    BY <1>2, TreeBasics
  <2> DEFINE r == FindAncestorProposal(t, x, 0)
  <2>2. r \in Line(t, x) /\ t[r].height = 0
    BY <1>2, <2>1, LineFacts
  <2> HIDE DEF r
  <2>3. r \in DOMAIN t
    BY <2>2 DEF Line
  <2>4. Parent(t, r) = None
    BY <2>2, <2>3, TreeBasics
  <2> QED
    BY <1>2, <2>1, <2>2, <2>4 DEF IsChoice, Wins, IsLast, Leads
<1>3. c \in DOMAIN t \/ c = None
  BY DEF IsChoice
<1>4. d \in DOMAIN t \/ d = None
  BY DEF IsChoice
<1>5. CASE c \in DOMAIN t /\ d \in DOMAIN t
  <2>1. t[c].height \in Nat /\ t[d].height \in Nat
    BY <1>5, TreeBasics
  <2>2. t[c].height <= t[d].height \/ t[d].height <= t[c].height
    BY <2>1
  <2> QED
    BY <1>1, <1>5, <2>2
<1> QED
  BY <1>2, <1>3, <1>4, <1>5

\* Sums of equal numbers are equal.
LEMMA SumSame ==
    ASSUME NEW S, IsFiniteSet(S), NEW f, Numbers(f, S), NEW g, \A x \in S : g[x] = f[x]
    PROVE  SumFunctionOnSet(g, S) = SumFunctionOnSet(f, S)
<1> DEFINE F == [x \in S |-> x]
<1>1. \A a \in S : F[a] \in S
  OBVIOUS
<1>2. \A x \in S : g[x] = SumFunctionOnSet(f, {a \in S : F[a] = x})
  <2> SUFFICES ASSUME NEW x \in S PROVE g[x] = SumFunctionOnSet(f, {a \in S : F[a] = x})
    OBVIOUS
  <2>1. {a \in S : F[a] = x} = {} \cup {x} /\ {} \in SUBSET S /\ x \in S \ {}
    OBVIOUS
  <2>2. SumFunctionOnSet(f, {}) = 0 /\ SumFunctionOnSet(f, {} \cup {x}) = f[x] + SumFunctionOnSet(f, {})
    BY <2>1, SumIs
  <2>3. f[x] \in Nat /\ f[x] + 0 = f[x]
    BY DEF Numbers
  <2>4. SumFunctionOnSet(f, {} \cup {x}) = g[x]
    BY <2>2, <2>3
  <2> QED
    BY <2>1, <2>4
<1> HIDE DEF F
<1> QED
  BY <1>1, <1>2, SumOfParts

\* x is on top of b, at any distance.
Over(t, b, x) == b = None \/ (b \in Line(t, x) /\ b # x)

\* Tallies::filter_descendants leaves the votes for the blocks above b.
LEMMA HigherIs ==
    ASSUME NEW t, IsTree(t), NEW tally, IsTally(t, tally), NEW b \in DOMAIN t \cup {None}
    PROVE  LET left == Higher(t, tally, b) IN
           /\ DOMAIN left = {c \in DOMAIN tally : Over(t, b, c)}
           /\ \A c \in DOMAIN left : left[c] = tally[c]
           /\ IsTally(t, left)
<1> DEFINE left == Higher(t, tally, b)
<1>1. CASE b = None
  BY <1>1 DEF Higher, Over
<1>2. CASE b # None
  <2>1. b \in DOMAIN t
    BY <1>2
  <2> DEFINE up == Restrict(tally, {c \in DOMAIN tally : t[c].height > t[b].height})
  <2>2. left = Descendants(t, up, t[b].height, b)
    BY <1>2 DEF Higher
  <2>3. DOMAIN up = {c \in DOMAIN tally : t[c].height > t[b].height} /\ \A c \in DOMAIN up : up[c] = tally[c]
    BY DEF Restrict
  <2> HIDE DEF up, left
  <2>4. /\ DOMAIN left = {c \in DOMAIN up : FindAncestorProposal(t, c, t[b].height) = b}
        /\ \A c \in DOMAIN left : left[c] = up[c]
    BY <2>2 DEF Descendants, Restrict
  <2>5. ASSUME NEW c \in DOMAIN tally
        PROVE  t[c].height > t[b].height /\ FindAncestorProposal(t, c, t[b].height) = b <=> Over(t, b, c)
    <3>1. c \in DOMAIN t /\ t[c].height \in Nat /\ t[b].height \in Nat
      BY <2>1, TreeBasics DEF IsTally
    <3>2. b \in Line(t, c) <=> FindAncestorProposal(t, c, t[b].height) = b
      BY <2>1 DEF Line
    <3>3. b \in Line(t, c) => t[b].height <= t[c].height /\ (t[b].height = t[c].height => b = c)
      BY <3>1, LineFacts
    <3> QED
      BY <1>2, <3>1, <3>2, <3>3 DEF Over
  <2>6. DOMAIN left = {c \in DOMAIN tally : Over(t, b, c)} /\ \A c \in DOMAIN left : left[c] = tally[c]
    BY <2>3, <2>4, <2>5
  <2>7. IsTally(t, left)
    BY <2>6 DEF IsTally
  <2> QED
    BY <2>6, <2>7 DEF left
<1> QED
  BY <1>1, <1>2

\* For a block above b they are all its votes.
LEMMA HigherVotes ==
    ASSUME NEW t, IsTree(t), NEW tally, IsTally(t, tally), NEW b \in DOMAIN t \cup {None},
           NEW x \in DOMAIN t, Over(t, b, x)
    PROVE  LET left == Higher(t, tally, b) IN
           /\ Votes(t, left, x) = Votes(t, tally, x)
           /\ x \in Voted(t, left) <=> x \in Voted(t, tally)
<1> DEFINE left == Higher(t, tally, b)
<1>1. /\ DOMAIN left = {c \in DOMAIN tally : Over(t, b, c)}
      /\ \A c \in DOMAIN left : left[c] = tally[c]
      /\ IsTally(t, left)
  BY HigherIs, Zenon
<1> HIDE DEF left
<1>2. ASSUME NEW c \in DOMAIN tally, x \in Line(t, c) PROVE Over(t, b, c)
  <2>1. c \in DOMAIN t
    BY DEF IsTally
  <2>2. CASE b = None
    BY <2>2 DEF Over
  <2>3. CASE b # None
    <3>1. b \in DOMAIN t /\ b \in Line(t, x) /\ b # x
      BY <2>3 DEF Over
    <3>2. b \in Line(t, c)
      BY <1>2, <2>1, <3>1, LineFacts
    <3>3. t[b].height <= t[x].height /\ t[b].height # t[x].height /\ t[x].height <= t[c].height
      BY <1>2, <2>1, <3>1, LineFacts
    <3>4. t[b].height \in Nat /\ t[x].height \in Nat /\ t[c].height \in Nat
      BY <2>1, <3>1, TreeBasics
    <3>5. t[b].height # t[c].height
      BY <3>3, <3>4
    <3> QED
      BY <3>2, <3>5 DEF Over
  <2> QED
    BY <2>2, <2>3
<1>3. Support(t, left, x) = Support(t, tally, x)
  BY <1>1, <1>2 DEF Support
<1>4. IsFiniteSet(Support(t, tally, x)) /\ Numbers(tally, Support(t, tally, x))
  BY SupportFinite
<1>5. \A c \in Support(t, tally, x) : left[c] = tally[c]
  BY <1>1, <1>3 DEF Support
<1>6. SumFunctionOnSet(left, Support(t, tally, x)) = SumFunctionOnSet(tally, Support(t, tally, x))
  BY <1>4, <1>5, SumSame
<1>7. Votes(t, left, x) = Votes(t, tally, x)
  BY <1>3, <1>6 DEF Votes
<1>8. x \in Voted(t, left) <=> x \in Voted(t, tally)
  BY <1>3 DEF Voted
<1> QED
  BY <1>7, <1>8 DEF left

\* A turn of the loop goes on above b, and the blocks up to the decided one lead if
\* those up to b do.
LEMMA TurnOK ==
    ASSUME NEW t, IsTree(t), NEW tally, IsTally(t, tally), Ranked(DOMAIN t),
           NEW b \in DOMAIN t \cup {None}, DOMAIN Higher(t, tally, b) # {}
    PROVE  LET d == FindDecided(t, Higher(t, tally, b)) IN
           /\ d \in DOMAIN t
           /\ Over(t, b, d)
           /\ Wins(t, tally, b) => Wins(t, tally, d)
<1> DEFINE left == Higher(t, tally, b)
           d == FindDecided(t, left)
<1>1. /\ DOMAIN left = {c \in DOMAIN tally : Over(t, b, c)}
      /\ IsTally(t, left)
  BY HigherIs
<1>2. ASSUME NEW x \in DOMAIN t, Over(t, b, x)
      PROVE  Votes(t, left, x) = Votes(t, tally, x) /\ (x \in Voted(t, left) <=> x \in Voted(t, tally))
  BY <1>2, HigherVotes
<1> HIDE DEF left
<1>3. /\ d \in Voted(t, left)
      /\ \A y \in Line(t, d) : Leads(t, left, y)
      /\ \A x \in DOMAIN t :
             (\A c \in DOMAIN left : x \in Line(t, c) /\ x # c) => x \in Line(t, d) /\ x # d
  <2>1. DOMAIN left # {}
    BY DEF left
  <2> QED
    BY <1>1, <2>1, DecidedOK
<1> HIDE DEF d
<1>4. d \in DOMAIN t
  BY <1>3 DEF Voted
<1>5. Over(t, b, d)
  <2>1. CASE b = None
    BY <2>1 DEF Over
  <2>2. CASE b # None
    <3>1. b \in DOMAIN t /\ \A c \in DOMAIN left : b \in Line(t, c) /\ b # c
      BY <1>1, <2>2 DEF Over
    <3> QED
      BY <1>3, <3>1 DEF Over
  <2> QED
    BY <2>1, <2>2
<1>6. ASSUME Wins(t, tally, b), NEW y \in Line(t, d) PROVE Leads(t, tally, y)
  <2>1. y \in DOMAIN t
    BY DEF Line
  <2>2. CASE b # None /\ y \in Line(t, b)
    BY <1>6, <2>2 DEF Wins
  <2>3. CASE ~(b # None /\ y \in Line(t, b))
    <3>1. Over(t, b, y)
      <4>1. CASE b = None
        BY <4>1 DEF Over
      <4>2. CASE b # None
        <5>1. b \in DOMAIN t /\ b \in Line(t, d)
          BY <1>5, <4>2 DEF Over
        <5>2. t[b].height \in Nat /\ t[y].height \in Nat
          BY <2>1, <5>1, TreeBasics
        <5>3. t[y].height <= t[b].height => y \in Line(t, b)
          BY <1>4, <5>1, LineFacts
        <5>4. ~(t[y].height <= t[b].height)
          BY <2>3, <4>2, <5>3
        <5>5. t[b].height <= t[y].height /\ b # y
          BY <5>2, <5>4
        <5>6. b \in Line(t, y)
          BY <1>4, <5>1, <5>5, LineFacts
        <5> QED
          BY <5>5, <5>6 DEF Over
      <4> QED
        BY <4>1, <4>2
    <3>2. Leads(t, left, y)
      BY <1>3
    <3>3. y \in Voted(t, tally)
      BY <1>2, <2>1, <3>1, <3>2 DEF Leads
    <3>4. ASSUME NEW z \in Voted(t, tally), Parent(t, z) = Parent(t, y)
          PROVE  Preferred(Votes(t, tally, y), y, Votes(t, tally, z), z)
      <4>0. z \in DOMAIN t
        BY DEF Voted
      <4>1. Over(t, b, z)
        <5>1. CASE b = None
          BY <5>1 DEF Over
        <5>2. CASE b # None
          <6>1. b \in Line(t, y) /\ b # y /\ b \in DOMAIN t
            BY <3>1, <5>2 DEF Over
          <6>2. Parent(t, y) # None /\ b \in Line(t, Parent(t, y))
            BY <2>1, <6>1, LineOfParent
          <6>3. b \in Line(t, z)
            BY <3>4, <4>0, <6>2, LineOfParent
          <6>4. t[z].height = t[y].height
            BY <2>1, <3>4, <4>0, SiblingHeight
          <6>5. t[b].height # t[y].height
            BY <2>1, <6>1, LineFacts
          <6> QED
            BY <6>3, <6>4, <6>5 DEF Over
        <5> QED
          BY <5>1, <5>2
      <4>2. z \in Voted(t, left) /\ Votes(t, left, z) = Votes(t, tally, z) /\ Votes(t, left, y) = Votes(t, tally, y)
        BY <1>2, <2>1, <3>1, <4>0, <4>1
      <4>3. Preferred(Votes(t, left, y), y, Votes(t, left, z), z)
        BY <3>2, <3>4, <4>2 DEF Leads
      <4> QED
        BY <4>2, <4>3
    <3> QED
      BY <3>3, <3>4 DEF Leads
  <2> QED
    BY <2>2, <2>3
<1>7. Wins(t, tally, b) => Wins(t, tally, d)
  BY <1>6 DEF Wins
<1> QED
  BY <1>4, <1>5, <1>7 DEF d, left

\* The heights of all blocks are bounded.
LEMMA TreeTop ==
    ASSUME NEW t, IsTree(t)
    PROVE  \E m \in Nat : \A b \in DOMAIN t : t[b].height <= m
<1> DEFINE tally == [b \in DOMAIN t |-> 1]
<1>1. IsTally(t, tally)
  BY DEF IsTally
<1>2. CASE DOMAIN t = {}
  BY <1>2
<1>3. CASE DOMAIN t # {}
  <2>1. DOMAIN tally = DOMAIN t
    OBVIOUS
  <2> HIDE DEF tally
  <2> QED
    BY <1>1, <1>3, <2>1, TopOK
<1> QED
  BY <1>2, <1>3

\* State::fork_choice chooses as GHOST.
LEMMA DecideAllIs ==
    ASSUME NEW t, IsTree(t), NEW tally, IsTally(t, tally), Ranked(DOMAIN t)
    PROVE  IsChoice(t, tally, DecideAll(t, tally))
<1> DEFINE S == DOMAIN t \cup {None}
           Onward == [b \in S |-> FindDecided(t, Higher(t, tally, b))]
           Stop == {b \in S : DOMAIN Higher(t, tally, b) = {}}
           rank == [b \in S |-> IF b = None THEN 0 ELSE t[b].height + 1]
           W == {b \in S : Wins(t, tally, b)}
           choose == CHOOSE f : f = [b \in S |-> DecideNext(t, f, Higher(t, tally, b), b)]
<1>1. PICK n \in Nat : \A b \in DOMAIN t : t[b].height <= n
  BY TreeTop
<1> DEFINE m == n + 1
<1>2. \A b \in S \ Stop : Onward[b] \in DOMAIN t /\ Over(t, b, Onward[b]) /\ (b \in W => Onward[b] \in W)
  <2> SUFFICES ASSUME NEW b \in S, b \notin Stop
               PROVE  Onward[b] \in DOMAIN t /\ Over(t, b, Onward[b]) /\ (b \in W => Onward[b] \in W)
    OBVIOUS
  <2>1. Onward[b] = FindDecided(t, Higher(t, tally, b)) /\ DOMAIN Higher(t, tally, b) # {}
    OBVIOUS
  <2> HIDE DEF Onward
  <2> QED
    BY <2>1, TurnOK
<1>3. Climbs(S, Onward, Stop, rank, m)
  <2>1. ASSUME NEW b \in S PROVE rank[b] \in Nat /\ rank[b] <= m
    <3>1. CASE b = None
      BY <3>1
    <3>2. CASE b # None
      <4>1. t[b].height \in Nat /\ t[b].height <= n
        BY <1>1, <3>2, TreeBasics
      <4> QED
        BY <3>2, <4>1
    <3> QED
      BY <3>1, <3>2
  <2>2. ASSUME NEW b \in S, b \notin Stop PROVE Onward[b] \in S /\ rank[Onward[b]] > rank[b]
    <3> DEFINE d == Onward[b]
    <3>1. d \in DOMAIN t /\ Over(t, b, d)
      BY <1>2, <2>2
    <3> HIDE DEF d
    <3>2. d # None /\ t[d].height \in Nat /\ d \in S
      BY <3>1, TreeBasics
    <3>3. rank[d] = t[d].height + 1
      BY <3>2
    <3>4. rank[d] > rank[b]
      <4>1. CASE b = None
        BY <3>2, <3>3, <4>1
      <4>2. CASE b # None
        <5>1. b \in DOMAIN t /\ b \in Line(t, d) /\ b # d
          BY <3>1, <4>2 DEF Over
        <5>2. t[b].height \in Nat /\ t[b].height <= t[d].height /\ t[b].height # t[d].height
          BY <3>1, <5>1, LineFacts
        <5>3. rank[b] = t[b].height + 1
          BY <4>2
        <5> HIDE DEF rank
        <5> QED
          BY <3>2, <3>3, <5>2, <5>3
      <4> QED
        BY <4>1, <4>2
    <3> QED
      BY <3>2, <3>4 DEF d
  <2> HIDE DEF S, Onward, Stop, rank, m
  <2> QED
    BY <2>1, <2>2 DEF Climbs
<1>4. \E f : f = [b \in S |-> Climb(Onward, Stop, f, b)]
  <2>1. m \in Nat
    OBVIOUS
  <2> HIDE DEF S, Onward, Stop, rank, m
  <2> QED
    BY <1>3, <2>1, ClimbExists
<1>5. ASSUME NEW f
      PROVE  [b \in S |-> Climb(Onward, Stop, f, b)]
             = [b \in S |-> DecideNext(t, f, Higher(t, tally, b), b)]
  <2>1. ASSUME NEW b \in S
        PROVE  Climb(Onward, Stop, f, b) = DecideNext(t, f, Higher(t, tally, b), b)
    <3>1. Onward[b] = FindDecided(t, Higher(t, tally, b))
      OBVIOUS
    <3>2. b \in Stop <=> DOMAIN Higher(t, tally, b) = {}
      OBVIOUS
    <3> HIDE DEF Onward, Stop
    <3> QED
      BY <3>1, <3>2 DEF Climb, DecideNext
  <2> HIDE DEF Onward, Stop, S
  <2> QED
    BY <2>1
<1>6. choose = [b \in S |-> Climb(Onward, Stop, choose, b)]
  <2>1. PICK f : f = [b \in S |-> Climb(Onward, Stop, f, b)]
    BY <1>4
  <2>2. f = [b \in S |-> DecideNext(t, f, Higher(t, tally, b), b)]
    <3> HIDE DEF Onward, Stop, S
    <3> QED
      BY <1>5, <2>1
  <2>3. choose = [b \in S |-> DecideNext(t, choose, Higher(t, tally, b), b)]
    <3> HIDE DEF Onward, Stop, S
    <3> QED
      BY <2>2
  <2> HIDE DEF choose, Onward, Stop, S
  <2> QED
    BY <1>5, <2>3
<1>7. DecideAll(t, tally) = choose[None]
  BY DEF DecideAll
<1>8. None \in W
  BY DEF Wins
<1>9. choose[None] \in W /\ choose[None] \in Stop
  <2>1. m \in Nat /\ W \in SUBSET S /\ \A b \in W : b \notin Stop => Onward[b] \in W
    <3>1. m \in Nat /\ W \in SUBSET S
      OBVIOUS
    <3> HIDE DEF S, Onward, Stop, W, m
    <3> QED
      BY <1>2, <3>1
  <2> HIDE DEF choose, S, Onward, Stop, rank, m, W
  <2>2. \A b \in W : choose[b] \in W /\ choose[b] \in Stop
    BY <1>3, <1>6, <2>1, ClimbEnds
  <2> QED
    BY <1>8, <2>2
<1> DEFINE c == choose[None]
<1>10. c \in DOMAIN t \cup {None} /\ Wins(t, tally, c) /\ DOMAIN Higher(t, tally, c) = {}
  BY <1>9
<1> HIDE DEF choose, c
<1>11. ASSUME NEW y \in Voted(t, tally), Parent(t, y) = c PROVE FALSE
  <2>1. y \in DOMAIN t
    BY DEF Voted
  <2>2. Over(t, c, y)
    <3>1. CASE c = None
      BY <3>1 DEF Over
    <3>2. CASE c # None
      <4>1. c \in DOMAIN t /\ t[y].height # 0
        BY <1>10, <1>11, <2>1, <3>2, TreeBasics
      <4>2. t[c].height = t[y].height - 1 /\ t[y].height \in Nat
        BY <1>11, <2>1, <4>1, TreeBasics
      <4>3. c # y
        BY <4>2
      <4>4. c \in Line(t, y)
        BY <1>11, <2>1, <3>2, <4>1, LineOfParent, LineFacts
      <4> QED
        BY <4>3, <4>4 DEF Over
    <3> QED
      BY <3>1, <3>2
  <2>3. y \in Voted(t, Higher(t, tally, c))
    BY <1>10, <2>1, <2>2, HigherVotes
  <2> QED
    BY <1>10, <2>3 DEF Voted, Support
<1> QED
  BY <1>7, <1>10, <1>11 DEF IsChoice, IsLast, c

-----------------------------------------------------------------------------
(* Trees that grow.                                                        *)

Continues(t, u) == DOMAIN t \subseteq DOMAIN u /\ \A b \in DOMAIN t : u[b] = t[b]

\* A line of a tree is one of the trees that it grows to.
LEMMA SameLine ==
    ASSUME NEW t, NEW u, Continues(t, u), NEW b, NEW E, IsLine(t, b, E)
    PROVE  IsLine(u, b, E)
<1>1. /\ b \in E /\ E \subseteq DOMAIN t /\ Within(E, BlockLists(t))
      /\ \A x, y \in E : t[x].height = t[y].height => x = y
      /\ \A x \in E : t[x].height <= t[b].height
  BY DEF IsLine
<1>2. E \subseteq DOMAIN u /\ \A x \in E : u[x] = t[x]
  BY <1>1 DEF Continues
<1>3. \A x \in E : BlockLists(u)[x] = BlockLists(t)[x]
  BY <1>1, <1>2 DEF BlockLists
<1>4. Within(E, BlockLists(u))
  BY <1>1, <1>3 DEF Within
<1> QED
  BY <1>1, <1>2, <1>4 DEF IsLine

\* The blocks of a tree keep their lines when it grows.
LEMMA SameLines ==
    ASSUME NEW t, NEW u, IsTree(t), IsTree(u), Continues(t, u), NEW b \in DOMAIN t
    PROVE  Line(u, b) = Line(t, b) /\ Parent(u, b) = Parent(t, b)
<1>1. PICK E : IsLine(t, b, E)
  BY DEF IsTree
<1>2. IsLine(u, b, E) /\ b \in DOMAIN u
  BY <1>1, SameLine DEF Continues
<1>3. b \in E /\ E \subseteq DOMAIN t
  BY <1>1 DEF IsLine
<1>4. Line(t, b) = {x \in E : t[x].height <= t[b].height}
  BY <1>1, <1>3, LineIs
<1>5. Line(u, b) = {x \in E : u[x].height <= u[b].height}
  BY <1>2, <1>3, LineIs
<1>6. \A x \in E : u[x] = t[x]
  BY <1>3 DEF Continues
<1>7. Line(u, b) = Line(t, b)
  BY <1>3, <1>4, <1>5, <1>6
<1>8. u[b] = t[b]
  BY DEF Continues
<1> QED
  BY <1>7, <1>8 DEF Parent

\* No blocks.
LEMMA EmptyTree == ASSUME NEW t, DOMAIN t = {} PROVE IsTree(t)
  BY FS_EmptySet DEF IsTree, Skips, BlockLists

\* Block::new
LEMMA TreeGrows ==
    ASSUME NEW t, IsTree(t), NEW parent \in DOMAIN t \cup {None}, NEW b, b \notin DOMAIN t, b # None,
           NEW u, u = [c \in DOMAIN t \cup {b} |-> IF c = b THEN NewBlock(t, parent) ELSE t[c]]
    PROVE  IsTree(u) /\ Continues(t, u) /\ Parent(u, b) = parent
<1> DEFINE D == DOMAIN t
           lists == BlockLists(t)
           index == BlockHeights(t)
           new == NewBlock(t, parent)
<1>1. DOMAIN u = D \cup {b} /\ u[b] = new /\ \A c \in D : u[c] = t[c]
  OBVIOUS
<1>2. Continues(t, u)
  BY <1>1 DEF Continues
<1>3. Skips(D, lists, index)
  BY DEF IsTree
<1>4. \A x \in D : lists[x] = t[x].skip /\ index[x] = t[x].height
  BY DEF BlockLists, BlockHeights
\* The list of the new block, within a line to its parent.
<1>5. \E E \in SUBSET D :
        /\ new.height \in Nat
        /\ new.skip \in Seq(E)
        /\ Len(new.skip) = IF new.height = 0 THEN 0 ELSE TrailingZeros(new.height) + 1
        /\ \A i \in 1 .. Len(new.skip) : index[new.skip[i]] + Pow2[i - 1] = new.height
        /\ Within(E, lists)
        /\ \A x, y \in E : t[x].height = t[y].height => x = y
        /\ \A x \in E : t[x].height < new.height
        /\ Parent(u, b) = parent
  <2>1. CASE parent = None
    <3>1. new = [height |-> 0, skip |-> <<>>]
      BY <2>1 DEF NewBlock
    <3>2. Parent(u, b) = None
      BY <1>1, <3>1 DEF Parent
    <3>3. {} \in SUBSET D /\ new.height = 0 /\ new.skip = <<>>
      BY <3>1
    <3>4. Within({}, lists) /\ <<>> \in Seq({}) /\ Len(<<>>) = 0
      BY DEF Within
    <3> HIDE DEF new
    <3> QED
      BY <2>1, <3>2, <3>3, <3>4
  <2>2. CASE parent # None
    <3>0. parent \in D
      BY <2>2
    <3>1. PICK E : IsLine(t, parent, E)
      BY <3>0 DEF IsTree
    <3>2. E \in SUBSET D /\ parent \in E /\ Within(E, lists)
          /\ (\A x, y \in E : t[x].height = t[y].height => x = y)
          /\ (\A x \in E : t[x].height <= t[parent].height)
      BY <3>1 DEF IsLine
    <3>3. t[parent].height = index[parent] /\ t[parent].height \in Nat
      BY <1>4, <3>0, TreeBasics
    <3> DEFINE s == SkipList(lists, parent, index[parent] + 1)
    <3>4. /\ s \in Seq(E)
          /\ Len(s) = TrailingZeros(index[parent] + 1) + 1
          /\ \A i \in 1 .. Len(s) : index[s[i]] + Pow2[i - 1] = index[parent] + 1
      <4>1. E \in SUBSET D /\ parent \in E /\ Within(E, lists)
        BY <3>2
      <4> HIDE DEF D, lists, index
      <4> QED
        BY <1>3, <4>1, SkipListOK
    <3>5. new.height = index[parent] + 1 /\ new.skip = s
      BY <2>2, <3>3 DEF NewBlock, BlockLists
    <3> HIDE DEF s, new
    <3>6. TrailingZeros(index[parent] + 1) \in Nat
      <4>1. index[parent] + 1 \in Nat \ {0}
        BY <3>3
      <4> QED
        BY <4>1, ZerosOK
    <3>7. new.height \in Nat /\ new.height # 0 /\ \A x \in E : t[x].height < new.height
      <4>1. \A x \in E : t[x].height \in Nat
        BY <3>2, TreeBasics
      <4> HIDE DEF index
      <4> QED
        BY <3>2, <3>3, <3>5, <4>1
    <3>8. Parent(u, b) = parent
      <4>1. Len(s) > 0 /\ s # <<>>
        <5> HIDE DEF index
        <5> QED
          BY <3>4, <3>6
      <4>2. 0 \in 0 .. TrailingZeros(index[parent] + 1) /\ 1 \in 1 .. Len(s)
        <5> HIDE DEF index
        <5> QED
          BY <3>4, <3>6
      <4>3. index[s[1]] + Pow2[1 - 1] = index[parent] + 1 /\ s[1] \in E
        BY <3>4, <4>2
      <4>4. index[s[1]] = index[parent]
        <5>1. Pow2[1 - 1] = 1
          BY PowIs
        <5>2. index[s[1]] \in Nat
          BY <1>4, <3>2, <4>3, TreeBasics
        <5> HIDE DEF index
        <5> QED
          BY <3>3, <4>3, <5>1, <5>2
      <4>5. s[1] = parent
        BY <1>4, <3>2, <4>3, <4>4
      <4> QED
        BY <1>1, <3>5, <4>1, <4>5 DEF Parent
    <3> HIDE DEF index, lists
    <3> QED
      BY <3>2, <3>4, <3>5, <3>7, <3>8
  <2> QED
    BY <2>1, <2>2
<1>6. PICK E \in SUBSET D :
        /\ new.height \in Nat
        /\ new.skip \in Seq(E)
        /\ Len(new.skip) = IF new.height = 0 THEN 0 ELSE TrailingZeros(new.height) + 1
        /\ \A i \in 1 .. Len(new.skip) : index[new.skip[i]] + Pow2[i - 1] = new.height
        /\ Within(E, lists)
        /\ \A x, y \in E : t[x].height = t[y].height => x = y
        /\ \A x \in E : t[x].height < new.height
        /\ Parent(u, b) = parent
  BY <1>5
<1> DEFINE lists2 == BlockLists(u)
           index2 == BlockHeights(u)
<1>7. /\ DOMAIN lists2 = D \cup {b}
      /\ lists2[b] = new.skip /\ index2[b] = new.height
      /\ \A x \in D : lists2[x] = lists[x] /\ index2[x] = index[x]
  BY <1>1 DEF BlockLists, BlockHeights
<1> HIDE DEF new, lists, index, lists2, index2
<1>8. Skips(D \cup {b}, lists2, index2)
  <2>1. ASSUME NEW x \in D \cup {b}
        PROVE  /\ index2[x] \in Nat
               /\ lists2[x] \in Seq(D \cup {b})
               /\ Len(lists2[x]) = IF index2[x] = 0 THEN 0 ELSE TrailingZeros(index2[x]) + 1
               /\ \A i \in 1 .. Len(lists2[x]) : index2[lists2[x][i]] + Pow2[i - 1] = index2[x]
    <3>1. CASE x = b
      <4>1. new.skip \in Seq(D) /\ new.skip \in Seq(D \cup {b})
        BY <1>6
      <4>2. \A i \in 1 .. Len(new.skip) : index2[new.skip[i]] = index[new.skip[i]]
        BY <1>7, <4>1
      <4> QED
        BY <1>6, <1>7, <3>1, <4>1, <4>2
    <3>2. CASE x \in D
      <4>1. /\ index[x] \in Nat /\ lists[x] \in Seq(D)
            /\ Len(lists[x]) = IF index[x] = 0 THEN 0 ELSE TrailingZeros(index[x]) + 1
            /\ \A i \in 1 .. Len(lists[x]) : index[lists[x][i]] + Pow2[i - 1] = index[x]
        BY <1>3, <3>2 DEF Skips
      <4>2. \A i \in 1 .. Len(lists[x]) : index2[lists[x][i]] = index[lists[x][i]]
        BY <1>7, <4>1
      <4>3. lists[x] \in Seq(D \cup {b})
        BY <4>1
      <4>4. lists2[x] = lists[x] /\ index2[x] = index[x]
        BY <1>7, <3>2
      <4> QED
        BY <4>1, <4>2, <4>3, <4>4
    <3> QED
      BY <3>1, <3>2
  <2> QED
    BY <1>7, <2>1 DEF Skips
<1>9. IsLine(u, b, E \cup {b})
  <2>1. \A x \in E : x \in D /\ x # b /\ u[x] = t[x] /\ t[x].height < new.height /\ t[x].height \in Nat
    BY <1>1, <1>6, TreeBasics
  <2>2. u[b].height = new.height
    BY <1>1 DEF new
  <2>3. \A x \in E \cup {b} : u[x].height <= u[b].height
    <3>1. new.height \in Nat
      BY <1>6
    <3>2. u[b].height <= u[b].height
      BY <2>2, <3>1
    <3>3. \A x \in E : u[x].height <= u[b].height
      BY <2>1, <2>2, <3>1
    <3> QED
      BY <3>2, <3>3
  <2>4. \A x, y \in E \cup {b} : u[x].height = u[y].height => x = y
    <3>1. \A x, y \in E : u[x].height = u[y].height => x = y
      BY <1>6, <2>1
    <3>2. new.height \in Nat /\ \A x \in E : u[x].height # u[b].height
      BY <1>6, <2>1, <2>2
    <3> QED
      BY <3>1, <3>2
  <2>5. Within(E \cup {b}, lists2)
    <3> SUFFICES ASSUME NEW x \in E \cup {b}, NEW i \in 1 .. Len(lists2[x]) PROVE lists2[x][i] \in E
      BY DEF Within
    <3>1. CASE x = b
      BY <1>6, <1>7, <3>1
    <3>2. CASE x \in E
      <4>1. lists2[x] = lists[x]
        BY <1>7, <2>1, <3>2
      <4> QED
        BY <1>6, <3>2, <4>1 DEF Within
    <3> QED
      BY <3>1, <3>2
  <2> QED
    BY <1>1, <2>3, <2>4, <2>5 DEF IsLine, lists2
<1>10. \A c \in DOMAIN u : \E F : IsLine(u, c, F)
  <2>1. \A c \in D : \E F : IsLine(t, c, F)
    BY DEF IsTree
  <2>2. \A c \in D : \E F : IsLine(u, c, F)
    BY <1>2, <2>1, SameLine
  <2> QED
    BY <1>1, <1>9, <2>2
<1>11. IsFiniteSet(DOMAIN u) /\ None \notin DOMAIN u
  BY <1>1, FS_AddElement DEF IsTree
<1> QED
  BY <1>1, <1>2, <1>6, <1>8, <1>10, <1>11 DEF IsTree, lists2, index2

-----------------------------------------------------------------------------
(* The votes of the validators.                                            *)

AreVotes(t, votes, weight) ==
    /\ IsFiniteSet(DOMAIN votes)
    /\ \A v \in DOMAIN votes : votes[v] \in DOMAIN t /\ weight[v] \in Nat \ {0}

\* The validators that vote for x or a block above it.
Backers(t, votes, x) == {v \in DOMAIN votes : x \in Line(t, votes[v])}

\* The voters for a block and its descendants.
LEMMA BackersOK ==
    ASSUME NEW t, IsTree(t), NEW votes, NEW weight, AreVotes(t, votes, weight)
    PROVE  /\ Numbers(weight, DOMAIN votes)
           /\ \A x : /\ IsFiniteSet(Backers(t, votes, x)) /\ Numbers(weight, Backers(t, votes, x))
                     /\ Backers(t, votes, x) \subseteq DOMAIN votes
<1>1. Numbers(weight, DOMAIN votes)
  BY DEF Numbers, AreVotes
<1>2. \A x : Backers(t, votes, x) \subseteq DOMAIN votes
  BY DEF Backers
<1> QED
  BY <1>1, <1>2, FS_Subset DEF AreVotes, Numbers

\* Tallies::new
LEMMA TalliesOK ==
    ASSUME NEW t, IsTree(t), NEW votes, NEW weight, AreVotes(t, votes, weight)
    PROVE  LET tally == Tallies(votes, weight) IN
           /\ IsTally(t, tally)
           /\ \A x : Votes(t, tally, x) = SumFunctionOnSet(weight, Backers(t, votes, x))
           /\ \A x \in DOMAIN t : x \in Voted(t, tally) <=> Backers(t, votes, x) # {}
<1> DEFINE tally == Tallies(votes, weight)
           of(b) == {v \in DOMAIN votes : votes[v] = b}
<1>1. DOMAIN tally = {votes[v] : v \in DOMAIN votes}
      /\ \A b \in DOMAIN tally : tally[b] = SumFunctionOnSet(weight, of(b))
  BY DEF Tallies, Range
<1>2. Numbers(weight, DOMAIN votes) /\ IsFiniteSet(DOMAIN votes)
  BY BackersOK DEF AreVotes
<1> HIDE DEF tally
<1>3. ASSUME NEW b \in DOMAIN tally PROVE b \in DOMAIN t /\ tally[b] \in Nat \ {0}
  <2>1. PICK v \in DOMAIN votes : votes[v] = b
    BY <1>1
  <2>2. of(b) \subseteq DOMAIN votes /\ v \in of(b)
    BY <2>1
  <2>3. IsFiniteSet(of(b)) /\ Numbers(weight, of(b))
    BY <1>2, <2>2, FS_Subset DEF Numbers
  <2>4. weight[v] <= SumFunctionOnSet(weight, of(b)) /\ SumFunctionOnSet(weight, of(b)) \in Nat
    <3> HIDE DEF of
    <3> QED
      BY <2>2, <2>3, SumGrows
  <2>5. weight[v] \in Nat \ {0} /\ b \in DOMAIN t
    BY <2>1 DEF AreVotes
  <2>6. tally[b] = SumFunctionOnSet(weight, of(b))
    BY <1>1
  <2> HIDE DEF of
  <2> QED
    BY <2>4, <2>5, <2>6
<1>4. IsTally(t, tally)
  BY <1>3 DEF IsTally
<1>5. ASSUME NEW x PROVE Votes(t, tally, x) = SumFunctionOnSet(weight, Backers(t, votes, x))
  <2> DEFINE A == Backers(t, votes, x)
             T == Support(t, tally, x)
             F == [v \in A |-> votes[v]]
  <2>1. IsFiniteSet(A) /\ Numbers(weight, A)
    BY BackersOK
  <2>2. IsFiniteSet(T)
    BY <1>4, SupportFinite
  <2>3. \A v \in A : F[v] \in T
    BY <1>1 DEF Backers, Support
  <2>4. \A b \in T : tally[b] = SumFunctionOnSet(weight, {v \in A : F[v] = b})
    <3> SUFFICES ASSUME NEW b \in T PROVE tally[b] = SumFunctionOnSet(weight, {v \in A : F[v] = b})
      OBVIOUS
    <3>1. b \in DOMAIN tally /\ x \in Line(t, b)
      BY DEF Support
    <3>2. {v \in A : F[v] = b} = of(b)
      BY <3>1 DEF Backers
    <3> QED
      BY <1>1, <3>1, <3>2
  <2> HIDE DEF A, T, F
  <2>5. SumFunctionOnSet(tally, T) = SumFunctionOnSet(weight, A)
    BY <2>1, <2>2, <2>3, <2>4, SumOfParts
  <2> QED
    BY <2>5 DEF Votes, A, T
<1>6. ASSUME NEW x \in DOMAIN t PROVE x \in Voted(t, tally) <=> Backers(t, votes, x) # {}
  BY <1>1 DEF Voted, Support, Backers
<1> QED
  BY <1>4, <1>5, <1>6 DEF tally

\* State::fork_choice finds the choice.
LEMMA ForkChoiceIs ==
    ASSUME NEW t, IsTree(t), Ranked(DOMAIN t), NEW votes, NEW weight, AreVotes(t, votes, weight)
    PROVE  IsChoice(t, Tallies(votes, weight), ForkChoice(t, votes, weight))
<1>1. IsTally(t, Tallies(votes, weight))
  BY TalliesOK
<1>2. IsChoice(t, Tallies(votes, weight), DecideAll(t, Tallies(votes, weight)))
  BY <1>1, DecideAllIs
<1> QED
  BY <1>2 DEF ForkChoice

\* A validator that votes for the choice does not change it.
LEMMA JoiningIs ==
    ASSUME NEW t, IsTree(t), Ranked(DOMAIN t), NEW votes, NEW weight, AreVotes(t, votes, weight),
           NEW c, c = ForkChoice(t, votes, weight), c # None,
           NEW v, NEW joined, joined = [w \in DOMAIN votes \cup {v} |-> IF w = v THEN c ELSE votes[w]],
           AreVotes(t, joined, weight)
    PROVE  ForkChoice(t, joined, weight) = c
<1> DEFINE tally == Tallies(votes, weight)
           tally2 == Tallies(joined, weight)
           A(x) == Backers(t, votes, x)
           B(x) == Backers(t, joined, x)
<1>1. IsChoice(t, tally, c) /\ IsChoice(t, tally2, ForkChoice(t, joined, weight))
  BY ForkChoiceIs
<1>2. c \in DOMAIN t
  BY <1>1 DEF IsChoice
<1>3. /\ IsTally(t, tally)
      /\ \A x : Votes(t, tally, x) = SumFunctionOnSet(weight, A(x))
      /\ \A x \in DOMAIN t : x \in Voted(t, tally) <=> A(x) # {}
  BY TalliesOK
<1>4. /\ IsTally(t, tally2)
      /\ \A x : Votes(t, tally2, x) = SumFunctionOnSet(weight, B(x))
      /\ \A x \in DOMAIN t : x \in Voted(t, tally2) <=> B(x) # {}
  BY TalliesOK
<1>5. \A x \in Line(t, c) : A(x) \subseteq B(x) /\ v \in B(x)
  BY DEF Backers
<1>6. \A x : x \notin Line(t, c) => B(x) \subseteq A(x)
  BY DEF Backers
<1>7. \A x : /\ IsFiniteSet(A(x)) /\ Numbers(weight, A(x))
             /\ IsFiniteSet(B(x)) /\ Numbers(weight, B(x))
  BY BackersOK
<1> HIDE DEF A, B, tally, tally2
<1>8. \A x \in Line(t, c) : Votes(t, tally, x) <= Votes(t, tally2, x)
  BY <1>3, <1>4, <1>5, <1>7, SumGrows
<1>9. \A x : x \notin Line(t, c) => Votes(t, tally2, x) <= Votes(t, tally, x)
  BY <1>3, <1>4, <1>6, <1>7, SumGrows
<1>10. ASSUME NEW y \in Line(t, c) PROVE Leads(t, tally2, y)
  <2>0. y \in DOMAIN t
    BY DEF Line
  <2>1. Leads(t, tally, y)
    BY <1>1 DEF IsChoice, Wins
  <2>2. y \in Voted(t, tally2)
    BY <1>4, <1>5, <2>0
  <2>3. ASSUME NEW z \in Voted(t, tally2), Parent(t, z) = Parent(t, y)
        PROVE  Preferred(Votes(t, tally2, y), y, Votes(t, tally2, z), z)
    <3>0. z \in DOMAIN t
      BY DEF Voted
    <3>1. CASE z = y
      <4>1. Votes(t, tally2, y) \in Nat /\ HashRank(y) \in Int
        BY <1>4, <2>0, SupportFinite DEF Ranked
      <4> QED
        BY <3>1, <4>1 DEF Preferred
    <3>2. CASE z # y
      <4>1. z \notin Line(t, c)
        <5>1. t[z].height = t[y].height
          BY <2>0, <2>3, <3>0, SiblingHeight
        <5> QED
          BY <1>2, <3>2, <5>1, LineFacts
      <4>2. z \in Voted(t, tally)
        BY <1>3, <1>4, <1>6, <3>0, <4>1
      <4>3. Preferred(Votes(t, tally, y), y, Votes(t, tally, z), z)
        BY <2>1, <2>3, <4>2 DEF Leads
      <4>4. Votes(t, tally, y) <= Votes(t, tally2, y) /\ Votes(t, tally2, z) <= Votes(t, tally, z)
        BY <1>8, <1>9, <4>1
      <4>5. /\ Votes(t, tally, y) \in Nat /\ Votes(t, tally2, y) \in Nat
            /\ Votes(t, tally, z) \in Nat /\ Votes(t, tally2, z) \in Nat
        BY <1>3, <1>4, SupportFinite
      <4>6. HashRank(y) \in Int /\ HashRank(z) \in Int
        BY <2>0, <3>0 DEF Ranked
      <4> QED
        BY <4>3, <4>4, <4>5, <4>6 DEF Preferred
    <3> QED
      BY <3>1, <3>2
  <2> QED
    BY <2>2, <2>3 DEF Leads
<1>11. ASSUME NEW y \in Voted(t, tally2), Parent(t, y) = c PROVE FALSE
  <2>0. y \in DOMAIN t
    BY DEF Voted
  <2>1. y \notin Line(t, c)
    <3>1. t[y].height # 0
      BY <1>11, <2>0, TreeBasics
    <3>2. t[c].height = t[y].height - 1 /\ t[y].height \in Nat
      BY <1>11, <2>0, <3>1, TreeBasics
    <3>3. ~(t[y].height <= t[c].height)
      BY <3>2
    <3> QED
      BY <1>2, <3>3, LineFacts
  <2>2. y \in Voted(t, tally)
    BY <1>3, <1>4, <1>6, <2>0, <2>1
  <2> QED
    BY <1>1, <1>11, <2>2 DEF IsChoice, IsLast
<1>12. IsChoice(t, tally2, c)
  BY <1>2, <1>10, <1>11 DEF IsChoice, Wins, IsLast
<1> QED
  BY <1>1, <1>4, <1>12, OneChoice

-----------------------------------------------------------------------------
(* The fork choice of ForkChoiceVotes.                                     *)

VotesInv == VotesTypeOK /\ IsTree(tree)

\* A branch of the abstract tree is a line.
LEMMA BranchIs ==
    ASSUME IsTree(tree), NEW b \in DOMAIN tree
    PROVE  Branch(b) = Line(tree, b)
<1> DEFINE D == DOMAIN tree
           step(f, c) == {c} \cup IF Parent(tree, c) = None THEN {} ELSE f[Parent(tree, c)]
           branch == CHOOSE f : f = [c \in D |-> step(f, c)]
           g == [c \in D |-> Line(tree, c)]
<1>1. Branch(b) = branch[b]
  BY DEF Branch
<1>0. \A c \in D : Parent(tree, c) = None \/ Parent(tree, c) \in D
  BY TreeBasics
<1>2. \A c \in D : g[c] = step(g, c)
  <2> SUFFICES ASSUME NEW c \in D PROVE g[c] = step(g, c)
    OBVIOUS
  <2>1. Line(tree, c) = {c} \cup IF Parent(tree, c) = None THEN {} ELSE Line(tree, Parent(tree, c))
    BY LineOfParent
  <2> QED
    BY <1>0, <2>1
<1>3. g = [c \in D |-> step(g, c)]
  BY <1>2
<1>4. branch = [c \in D |-> step(branch, c)]
  <2> HIDE DEF g, step
  <2> QED
    BY <1>3
<1> HIDE DEF branch
<1> DEFINE Q == {n \in Nat : \A c \in D : tree[c].height = n => branch[c] = Line(tree, c)}
<1>5. ASSUME NEW n \in Nat, n = 0 \/ n - 1 \in Q PROVE n \in Q
  <2> SUFFICES ASSUME NEW c \in D, tree[c].height = n PROVE branch[c] = Line(tree, c)
    OBVIOUS
  <2>1. branch[c] = step(branch, c)
    BY <1>4
  <2>2. Line(tree, c) = {c} \cup IF Parent(tree, c) = None THEN {} ELSE Line(tree, Parent(tree, c))
    BY LineOfParent
  <2>3. CASE Parent(tree, c) = None
    BY <2>1, <2>2, <2>3
  <2>4. CASE Parent(tree, c) # None
    <3>1. n # 0
      BY <2>4, TreeBasics
    <3>2. Parent(tree, c) \in D /\ tree[Parent(tree, c)].height = n - 1
      BY <3>1, TreeBasics
    <3>3. branch[Parent(tree, c)] = Line(tree, Parent(tree, c))
      BY <1>5, <3>1, <3>2
    <3> QED
      BY <2>1, <2>2, <2>4, <3>3
  <2> QED
    BY <2>3, <2>4
<1>6. Q = Nat
  <2>0. Q \in SUBSET Nat
    OBVIOUS
  <2> HIDE DEF Q
  <2>1. 0 \in Q
    BY <1>5
  <2>2. \A n \in Nat : n \in Q => n + 1 \in Q
    <3> SUFFICES ASSUME NEW n \in Nat, n \in Q PROVE n + 1 \in Q
      OBVIOUS
    <3>1. n + 1 \in Nat /\ (n + 1) - 1 = n
      OBVIOUS
    <3> QED
      BY <1>5, <3>1
  <2> QED
    BY <2>0, <2>1, <2>2, AllNumbers
<1>7. tree[b].height \in Q
  <2>1. tree[b].height \in Nat
    BY TreeBasics
  <2> HIDE DEF Q
  <2> QED
    BY <1>6, <2>1
<1> QED
  BY <1>1, <1>7

\* The state of the votes.
LEMMA VotesAre ==
    ASSUME VotesInv
    PROVE  /\ Ranked(DOMAIN tree)
           /\ AreVotes(tree, vote, VoteWeight)
           /\ \A b : Supporters(b) = Backers(tree, vote, b)
<1>1. Ranked(DOMAIN tree)
  BY VotesAssumption DEF VotesInv, VotesTypeOK, Ranked
<1>2. \A v \in DOMAIN vote : v \in Voters /\ vote[v] \in DOMAIN tree
  BY DEF VotesInv, VotesTypeOK, Range
<1>3. AreVotes(tree, vote, VoteWeight)
  <2>1. IsFiniteSet(DOMAIN vote)
    BY VotesAssumption, FS_Subset DEF VotesInv, VotesTypeOK
  <2>2. \A v \in DOMAIN vote : VoteWeight[v] \in Nat \ {0}
    BY <1>2, VotesAssumption
  <2> QED
    BY <1>2, <2>1, <2>2 DEF AreVotes
<1>4. \A v \in DOMAIN vote : Branch(vote[v]) = Line(tree, vote[v])
  BY <1>2, BranchIs DEF VotesInv
<1>5. ASSUME NEW b PROVE Supporters(b) = Backers(tree, vote, b)
  BY <1>4 DEF Supporters, Backers
<1> QED
  BY <1>1, <1>3, <1>5

\* The best of the blocks on top of b.
LEMMA BestLeads ==
    ASSUME VotesInv, NEW b \in DOMAIN tree \cup {None}, Children(b) # {}
    PROVE  LET tally == Tallies(vote, VoteWeight)
               d == Best(Children(b))
           IN /\ d \in DOMAIN tree /\ Parent(tree, d) = b
              /\ Leads(tree, tally, d)
<1> DEFINE tally == Tallies(vote, VoteWeight)
           S == Children(b)
           f == [c \in S |-> Votes(tree, tally, c)]
           d == CHOOSE x \in S : \A y \in S : Preferred(f[x], x, f[y], y)
<1>0. IsTree(tree)
  BY DEF VotesInv
<1>1. /\ IsTally(tree, tally)
      /\ \A x : Votes(tree, tally, x) = SumFunctionOnSet(VoteWeight, Backers(tree, vote, x))
      /\ \A x \in DOMAIN tree : x \in Voted(tree, tally) <=> Backers(tree, vote, x) # {}
  BY <1>0, VotesAre, TalliesOK
<1> HIDE DEF tally
<1>2. \A x : Votes(tree, tally, x) = Score(x)
  BY <1>1, VotesAre DEF Score
<1>3. S = {c \in Voted(tree, tally) : Parent(tree, c) = b}
  <2>1. \A c \in DOMAIN tree : c \in Voted(tree, tally) <=> Supporters(c) # {}
    BY <1>1, VotesAre
  <2>2. \A c \in Voted(tree, tally) : c \in DOMAIN tree
    BY DEF Voted
  <2> QED
    BY <2>1, <2>2 DEF Children
<1>4. Best(S) = d
  <2>1. \A x, y \in S : Preferred(f[x], x, f[y], y)
          <=> Score(x) > Score(y) \/ (Score(x) = Score(y) /\ HashRank(x) >= HashRank(y))
    BY <1>2 DEF Preferred
  <2> HIDE DEF f, S
  <2> QED
    BY <2>1 DEF Best
<1>5. IsFiniteSet(S) /\ Numbers(f, S) /\ Ranked(S)
  <2>1. S \subseteq Voted(tree, tally) /\ S \subseteq DOMAIN tree
    BY <1>3 DEF Voted
  <2>2. IsFiniteSet(Voted(tree, tally)) /\ \A x : Votes(tree, tally, x) \in Nat
    BY <1>0, <1>1, SupportFinite
  <2>3. IsFiniteSet(S)
    BY <2>1, <2>2, FS_Subset
  <2>4. Numbers(f, S)
    BY <2>2 DEF Numbers
  <2>5. Ranked(S)
    BY <2>1, VotesAre DEF Ranked
  <2> QED
    BY <2>3, <2>4, <2>5
<1>6. d \in S /\ \A y \in S : Preferred(f[d], d, f[y], y)
  <2>1. \E x \in S : \A y \in S : Preferred(f[x], x, f[y], y)
    <3> HIDE DEF f, S
    <3>1. S # {}
      BY DEF S
    <3> QED
      BY <1>5, <3>1, PreferredExists
  <2> HIDE DEF f, S
  <2> QED
    BY <2>1
<1> HIDE DEF d
<1>7. d \in Voted(tree, tally) /\ Parent(tree, d) = b /\ d \in DOMAIN tree
  BY <1>3, <1>6 DEF Voted
<1>8. Leads(tree, tally, d)
  <2> SUFFICES ASSUME NEW z \in Voted(tree, tally), Parent(tree, z) = Parent(tree, d)
               PROVE  Preferred(Votes(tree, tally, d), d, Votes(tree, tally, z), z)
    BY <1>7 DEF Leads
  <2>1. z \in S
    BY <1>3, <1>7
  <2>2. f[z] = Votes(tree, tally, z) /\ f[d] = Votes(tree, tally, d)
    BY <1>6, <2>1
  <2> HIDE DEF f, S
  <2> QED
    BY <1>6, <2>1, <2>2
<1> QED
  BY <1>4, <1>7, <1>8 DEF tally

\* The best of the blocks on top of a winning one wins.
LEMMA BestWins ==
    ASSUME VotesInv, NEW b \in DOMAIN tree \cup {None}, Children(b) # {}
    PROVE  LET tally == Tallies(vote, VoteWeight)
               d == Best(Children(b))
           IN /\ d \in DOMAIN tree
              /\ b # None => tree[d].height = tree[b].height + 1
              /\ Wins(tree, tally, b) => Wins(tree, tally, d)
<1> DEFINE tally == Tallies(vote, VoteWeight)
           d == Best(Children(b))
<1>0. IsTree(tree)
  BY DEF VotesInv
<1>1. d \in DOMAIN tree /\ Parent(tree, d) = b /\ Leads(tree, tally, d)
  BY BestLeads
<1> HIDE DEF d, tally
<1>2. Line(tree, d) = {d} \cup IF b = None THEN {} ELSE Line(tree, b)
  BY <1>0, <1>1, LineOfParent
<1>3. b # None => tree[d].height = tree[b].height + 1
  <2> SUFFICES ASSUME b # None PROVE tree[d].height = tree[b].height + 1
    OBVIOUS
  <2>1. tree[d].height # 0
    BY <1>0, <1>1, TreeBasics
  <2>2. tree[b].height = tree[d].height - 1 /\ tree[d].height \in Nat
    BY <1>0, <1>1, <2>1, TreeBasics
  <2> QED
    BY <2>2
<1>4. Wins(tree, tally, b) => Wins(tree, tally, d)
  BY <1>1, <1>2 DEF Wins
<1> QED
  BY <1>1, <1>3, <1>4 DEF d, tally

\* The GHOST rule finds the choice.
LEMMA GhostIs ==
    ASSUME VotesInv
    PROVE  IsChoice(tree, Tallies(vote, VoteWeight), Ghost)
<1> DEFINE tally == Tallies(vote, VoteWeight)
           S == DOMAIN tree
           Onward == [b \in S |-> Best(Children(b))]
           Stop == {b \in S : Children(b) = {}}
           rank == [b \in S |-> tree[b].height]
           W == {b \in S : Wins(tree, tally, b)}
           step(f, b) == IF Children(b) = {} THEN b ELSE f[Best(Children(b))]
           walk == CHOOSE f : f = [b \in S |-> step(f, b)]
           c == Ghost
<1>0. IsTree(tree) /\ None \notin DOMAIN tree
  BY DEF VotesInv, IsTree
<1>1. PICK m \in Nat : \A b \in DOMAIN tree : tree[b].height <= m
  BY <1>0, TreeTop
<1>2. \A b \in S \cup {None} : Children(b) # {} =>
          /\ Best(Children(b)) \in S
          /\ b # None => tree[Best(Children(b))].height = tree[b].height + 1
          /\ Wins(tree, tally, b) => Wins(tree, tally, Best(Children(b)))
  BY BestWins
<1>3. Climbs(S, Onward, Stop, rank, m)
  <2>1. \A b \in S : rank[b] \in Nat /\ rank[b] <= m
    BY <1>0, <1>1, TreeBasics
  <2>2. ASSUME NEW b \in S, b \notin Stop PROVE Onward[b] \in S /\ rank[Onward[b]] > rank[b]
    <3>1. Children(b) # {} /\ b # None /\ Onward[b] = Best(Children(b)) /\ rank[b] = tree[b].height
      BY <1>0, <2>2
    <3>2. Onward[b] \in S /\ tree[Onward[b]].height = tree[b].height + 1
      BY <1>2, <3>1
    <3>3. rank[Onward[b]] = tree[Onward[b]].height
      BY <3>2
    <3>4. rank[b] \in Nat
      BY <2>1
    <3> HIDE DEF rank, Onward
    <3> QED
      BY <3>1, <3>2, <3>3, <3>4
  <2> HIDE DEF S, Onward, Stop, rank
  <2> QED
    BY <2>1, <2>2 DEF Climbs
<1>4. \E f : f = [b \in S |-> Climb(Onward, Stop, f, b)]
  <2> HIDE DEF S, Onward, Stop, rank
  <2> QED
    BY <1>3, ClimbExists
<1>5. ASSUME NEW f PROVE [b \in S |-> Climb(Onward, Stop, f, b)] = [b \in S |-> step(f, b)]
  <2>1. ASSUME NEW b \in S PROVE Climb(Onward, Stop, f, b) = step(f, b)
    <3>1. Onward[b] = Best(Children(b))
      OBVIOUS
    <3>2. b \in Stop <=> Children(b) = {}
      OBVIOUS
    <3> HIDE DEF Onward, Stop
    <3> QED
      BY <3>1, <3>2 DEF Climb
  <2> HIDE DEF Onward, Stop, S, step
  <2> QED
    BY <2>1
<1>6. walk = [b \in S |-> Climb(Onward, Stop, walk, b)]
  <2>1. PICK f : f = [b \in S |-> Climb(Onward, Stop, f, b)]
    BY <1>4
  <2>2. f = [b \in S |-> step(f, b)]
    <3> HIDE DEF Onward, Stop, S, step
    <3> QED
      BY <1>5, <2>1
  <2>3. walk = [b \in S |-> step(walk, b)]
    <3> HIDE DEF Onward, Stop, S, step
    <3> QED
      BY <2>2
  <2> HIDE DEF walk, Onward, Stop, S, step
  <2> QED
    BY <1>5, <2>3
<1>7. Ghost = IF Children(None) = {} THEN None ELSE walk[Best(Children(None))]
  BY DEF Ghost
<1>8. \A b \in W : walk[b] \in W /\ walk[b] \in Stop
  <2>1. \A b \in W : b \notin Stop => Onward[b] \in W
    BY <1>2
  <2>2. W \in SUBSET S
    OBVIOUS
  <2> HIDE DEF walk, S, Onward, Stop, rank, W
  <2> QED
    BY <1>3, <1>6, <2>1, <2>2, ClimbEnds
<1>9. c \in S \cup {None} /\ Wins(tree, tally, c) /\ Children(c) = {}
  <2>1. CASE Children(None) = {}
    BY <1>7, <2>1 DEF Wins
  <2>2. CASE Children(None) # {}
    <3> DEFINE d == Best(Children(None))
    <3>1. Wins(tree, tally, None)
      BY DEF Wins
    <3>2. d \in W
      BY <1>2, <2>2, <3>1
    <3>3. walk[d] \in W /\ walk[d] \in Stop
      <4> HIDE DEF walk, d, W, Stop
      <4> QED
        BY <1>8, <3>2
    <3>4. c = walk[d]
      BY <1>7, <2>2
    <3> HIDE DEF walk, d, c
    <3> QED
      BY <3>3, <3>4
  <2> QED
    BY <2>1, <2>2
<1> HIDE DEF c
<1>10. IsLast(tree, tally, c)
  <2> SUFFICES ASSUME NEW y \in Voted(tree, tally), Parent(tree, y) = c PROVE FALSE
    BY DEF IsLast
  <2>1. y \in DOMAIN tree
    BY DEF Voted
  <2>2. Backers(tree, vote, y) # {}
    BY <1>0, <2>1, VotesAre, TalliesOK
  <2>3. y \in Children(c)
    BY <2>1, <2>2, VotesAre DEF Children
  <2> QED
    BY <1>9, <2>3
<1> QED
  BY <1>9, <1>10 DEF IsChoice, c

\* The tree stays a tree.
LEMMA VotesInvStep == VotesInv /\ [VotesNext]_votesVars => VotesInv'
<1> SUFFICES ASSUME VotesInv, [VotesNext]_votesVars PROVE VotesInv'
  OBVIOUS
<1>0. /\ DOMAIN tree \subseteq BlockHashes /\ DOMAIN vote \subseteq Voters
      /\ \A v \in DOMAIN vote : vote[v] \in DOMAIN tree
      /\ IsTree(tree)
  BY DEF VotesInv, VotesTypeOK, Range
<1>1. ASSUME NEW v \in Voters, NEW b, SetVote(v, b)
      PROVE  /\ DOMAIN vote' = DOMAIN vote \cup {v}
             /\ \A w \in DOMAIN vote' : vote'[w] = IF w = v THEN b ELSE vote[w]
  BY <1>1 DEF SetVote
<1>2. ASSUME NEW v \in Voters, NEW b \in BlockHashes, NEW parent \in DOMAIN tree \cup {None},
             Propose(v, b, parent)
      PROVE  VotesInv'
  <2>1. /\ b \notin DOMAIN tree
        /\ tree' = [c \in DOMAIN tree \cup {b} |-> IF c = b THEN NewBlock(tree, parent) ELSE tree[c]]
        /\ SetVote(v, b)
    BY <1>2 DEF Propose
  <2>2. b # None
    BY VotesAssumption
  <2>3. IsTree(tree')
    BY <1>0, <2>1, <2>2, TreeGrows
  <2>4. DOMAIN tree' = DOMAIN tree \cup {b}
    BY <2>1
  <2>5. /\ DOMAIN vote' = DOMAIN vote \cup {v}
        /\ \A w \in DOMAIN vote' : vote'[w] = IF w = v THEN b ELSE vote[w]
    BY <1>1, <2>1
  <2>6. \A w \in DOMAIN vote' : vote'[w] \in DOMAIN tree'
    BY <1>0, <2>4, <2>5
  <2>7. VotesTypeOK'
    BY <1>0, <2>4, <2>5, <2>6 DEF VotesTypeOK, Range
  <2> QED
    BY <2>3, <2>7 DEF VotesInv
<1>3. ASSUME NEW v \in Voters, NEW b \in DOMAIN tree, Vote(v, b) PROVE VotesInv'
  <2>1. SetVote(v, b) /\ tree' = tree
    BY <1>3 DEF Vote
  <2> QED
    BY <1>0, <1>1, <2>1 DEF VotesInv, VotesTypeOK, Range
<1>4. ASSUME NEW v \in Voters, Fault(v) PROVE VotesInv'
  <2>1. tree' = tree /\ vote' = [w \in DOMAIN vote \ {v} |-> vote[w]]
    BY <1>4 DEF Fault, Restrict
  <2> QED
    BY <1>0, <2>1 DEF VotesInv, VotesTypeOK, Range
<1>5. CASE UNCHANGED votesVars
  BY <1>5 DEF votesVars, VotesInv, VotesTypeOK
<1> QED
  BY <1>2, <1>3, <1>4, <1>5 DEF VotesNext

\* The tree is one at first.
LEMMA VotesInvInit == VotesInit => VotesInv
<1> SUFFICES ASSUME VotesInit PROVE VotesInv
  OBVIOUS
<1>1. DOMAIN tree = {} /\ DOMAIN vote = {}
  BY DEF VotesInit
<1> QED
  BY <1>1, EmptyTree DEF VotesInv, VotesTypeOK, Range

\* The skip lists lead to the ancestors.
LEMMA SkipListsLead == VotesInv => SkipListsFollowParents
<1> SUFFICES ASSUME VotesInv, NEW b \in DOMAIN tree, NEW h \in 0 .. Cardinality(DOMAIN tree)
             PROVE  LET a == FindAncestorProposal(tree, b, h) IN
                    IF h > tree[b].height THEN a = None
                    ELSE a \in Branch(b) /\ tree[a].height = h
  BY DEF SkipListsFollowParents
<1>0. IsTree(tree)
  BY DEF VotesInv
<1>1. h \in Nat /\ tree[b].height \in Nat
  BY <1>0, TreeBasics
<1>2. CASE h > tree[b].height
  BY <1>0, <1>1, <1>2, NoneAbove
<1>3. CASE ~(h > tree[b].height)
  <2>1. h <= tree[b].height
    BY <1>1, <1>3
  <2>2. FindAncestorProposal(tree, b, h) \in Line(tree, b) /\ tree[FindAncestorProposal(tree, b, h)].height = h
    BY <1>0, <1>1, <2>1, LineFacts
  <2> QED
    BY <1>0, <1>3, <2>2, BranchIs
<1> QED
  BY <1>2, <1>3

\* State::fork_choice, which counts tallies at all heights and skips from decision to
\* decision (Tallies::find_decided, Tallies::filter_descendants), chooses the block
\* that the GHOST rule reaches child by child, for every tree of blocks, all votes and
\* weights; and find_ancestor_proposal leads to the ancestors (ForkChoiceIsGhost).
THEOREM ForkChoiceSafe == VotesSpec => []ForkChoiceIsGhost
<1>1. VotesInv => ForkChoiceIsGhost
  <2> SUFFICES ASSUME VotesInv PROVE ForkChoiceIsGhost
    OBVIOUS
  <2>1. IsTree(tree) /\ VotesTypeOK
    BY DEF VotesInv
  <2> DEFINE tally == Tallies(vote, VoteWeight)
  <2>2. IsTally(tree, tally)
    BY <2>1, VotesAre, TalliesOK
  <2>3. IsChoice(tree, tally, VotesChoice)
    BY <2>1, VotesAre, ForkChoiceIs DEF VotesChoice
  <2>4. IsChoice(tree, tally, Ghost)
    BY GhostIs
  <2> HIDE DEF tally
  <2>5. VotesChoice = Ghost
    BY <2>1, <2>2, <2>3, <2>4, VotesAre, OneChoice
  <2> QED
    BY <2>1, <2>5, SkipListsLead DEF ForkChoiceIsGhost
<1> QED
  BY <1>1, VotesInvInit, VotesInvStep, PTL DEF VotesSpec

\* A validator that votes for the fork choice, as Unit::new does, does not change it:
\* whoever votes later for what he sees agrees with those who voted before
\* (JoiningKeepsTheChoice).
THEOREM JoiningSafe == VotesSpec => []JoiningKeepsTheChoice
<1>1. VotesInv => JoiningKeepsTheChoice
  <2> SUFFICES ASSUME VotesInv, VotesChoice # None, NEW v \in Voters
               PROVE  LET joined == [w \in DOMAIN vote \cup {v} |->
                                        IF w = v THEN VotesChoice ELSE vote[w]]
                      IN ForkChoice(tree, joined, VoteWeight) = VotesChoice
    BY DEF JoiningKeepsTheChoice
  <2> DEFINE joined == [w \in DOMAIN vote \cup {v} |-> IF w = v THEN VotesChoice ELSE vote[w]]
  <2>1. IsTree(tree) /\ Ranked(DOMAIN tree) /\ AreVotes(tree, vote, VoteWeight)
    BY VotesAre DEF VotesInv
  <2>2. VotesChoice \in DOMAIN tree
    BY <2>1, ForkChoiceIs DEF VotesChoice, IsChoice
  <2>3. AreVotes(tree, joined, VoteWeight)
    <3>1. IsFiniteSet(DOMAIN vote \cup {v})
      BY <2>1, FS_AddElement DEF AreVotes
    <3>2. \A w \in DOMAIN vote : vote[w] \in DOMAIN tree /\ VoteWeight[w] \in Nat \ {0}
      BY <2>1 DEF AreVotes
    <3>3. VoteWeight[v] \in Nat \ {0}
      BY VotesAssumption
    <3> QED
      BY <2>2, <3>1, <3>2, <3>3 DEF AreVotes
  <2>4. VotesChoice = ForkChoice(tree, vote, VoteWeight)
    BY DEF VotesChoice
  <2>5. ForkChoice(tree, joined, VoteWeight) = VotesChoice
    BY <2>1, <2>3, <2>4, JoiningIs
  <2> QED
    BY <2>5
<1> QED
  BY <1>1, VotesInvInit, VotesInvStep, PTL DEF VotesSpec

-----------------------------------------------------------------------------
(* What is valid stays valid.                                              *)

\* The search finds the same when there are more entries.
LEMMA BackStays ==
    ASSUME NEW D, NEW lists, NEW index, Skips(D, lists, index),
           NEW D2, NEW lists2, NEW index2, Skips(D2, lists2, index2),
           D \subseteq D2, \A x \in D : lists2[x] = lists[x] /\ index2[x] = index[x],
           NEW target \in Nat, NEW h \in D
    PROVE  Back(lists2, index2, h, target) = Back(lists, index, h, target)
<1>1. PICK f : /\ \A x \in D : f[x] = Find(lists, index, target, f, x)
               /\ \A x : Back(lists, index, x, target) = f[x]
  BY BackIs
<1>2. PICK g : /\ \A x \in D2 : g[x] = Find(lists2, index2, target, g, x)
               /\ \A x : Back(lists2, index2, x, target) = g[x]
  BY BackIs
<1>3. \A x \in D : g[x] = Find(lists, index, target, g, x)
  <2> SUFFICES ASSUME NEW x \in D PROVE g[x] = Find(lists, index, target, g, x)
    OBVIOUS
  <2>1. g[x] = Find(lists2, index2, target, g, x)
    BY <1>2
  <2> QED
    BY <2>1 DEF Find, Hop
<1>4. index[h] \in Nat
  BY DEF Skips
<1> DEFINE n == index[h]
<1>5. /\ FindsTo(D, lists, index, target, f, n)
      /\ FindsTo(D, lists, index, target, g, n)
  BY <1>1, <1>3 DEF FindsTo
<1>6. n \in Nat /\ index[h] <= n
  BY <1>4
<1> HIDE DEF n
<1>7. f[h] = g[h]
  BY <1>5, <1>6, FindsUnique
<1> QED
  BY <1>1, <1>2, <1>7

\* The fork choice is the same when there are more blocks.
LEMMA ChoiceStays ==
    ASSUME NEW t, NEW u, IsTree(t), IsTree(u), Continues(t, u), Ranked(DOMAIN u),
           NEW votes, NEW weight, AreVotes(t, votes, weight)
    PROVE  ForkChoice(u, votes, weight) = ForkChoice(t, votes, weight)
<1> DEFINE tally == Tallies(votes, weight)
           c == ForkChoice(t, votes, weight)
<1>1. DOMAIN t \subseteq DOMAIN u /\ \A b \in DOMAIN t : u[b] = t[b]
  BY DEF Continues
<1>2. Ranked(DOMAIN t)
  BY <1>1 DEF Ranked
<1>3. AreVotes(u, votes, weight)
  BY <1>1 DEF AreVotes
<1>4. IsChoice(t, tally, c) /\ IsChoice(u, tally, ForkChoice(u, votes, weight))
  BY <1>2, <1>3, ForkChoiceIs
<1>5. IsTally(t, tally) /\ IsTally(u, tally)
  BY <1>3, TalliesOK
<1> HIDE DEF tally, c
<1>6. \A b \in DOMAIN t : Line(u, b) = Line(t, b) /\ Parent(u, b) = Parent(t, b)
  BY SameLines
<1>7. \A x : Support(u, tally, x) = Support(t, tally, x)
  BY <1>5, <1>6 DEF Support, IsTally
<1>8. \A x : Votes(u, tally, x) = Votes(t, tally, x)
  BY <1>7 DEF Votes
<1>9. Voted(u, tally) = Voted(t, tally)
  <2>1. \A x : Support(t, tally, x) # {} => x \in DOMAIN t
    BY <1>5 DEF Support, Line
  <2> QED
    BY <1>1, <1>7, <2>1 DEF Voted
<1>10. \A x \in Voted(t, tally) : x \in DOMAIN t
  BY DEF Voted
<1>11. \A y : Leads(t, tally, y) => Leads(u, tally, y)
  <2> SUFFICES ASSUME NEW y, Leads(t, tally, y) PROVE Leads(u, tally, y)
    OBVIOUS
  <2>1. y \in DOMAIN t
    BY <1>10 DEF Leads
  <2>2. \A z \in Voted(t, tally) : Parent(u, z) = Parent(u, y) <=> Parent(t, z) = Parent(t, y)
    BY <1>6, <1>10, <2>1
  <2> QED
    BY <1>8, <1>9, <2>2 DEF Leads
<1>12. Wins(u, tally, c)
  <2>1. c # None => c \in DOMAIN t
    BY <1>4 DEF IsChoice
  <2> QED
    BY <1>4, <1>6, <1>11, <2>1 DEF IsChoice, Wins
<1>13. IsLast(u, tally, c)
  BY <1>4, <1>6, <1>9, <1>10 DEF IsChoice, IsLast
<1>14. IsChoice(u, tally, c)
  BY <1>1, <1>4, <1>12, <1>13 DEF IsChoice
<1>15. ForkChoice(u, votes, weight) = c
  BY <1>4, <1>5, <1>14, OneChoice
<1> QED
  BY <1>15 DEF c

\* With a vote there is a choice.
LEMMA SomeChoice ==
    ASSUME NEW t, IsTree(t), Ranked(DOMAIN t), NEW votes, NEW weight, AreVotes(t, votes, weight)
    PROVE  /\ ForkChoice(t, votes, weight) \in DOMAIN t \cup {None}
           /\ DOMAIN votes # {} => ForkChoice(t, votes, weight) \in DOMAIN t
<1> DEFINE tally == Tallies(votes, weight)
           c == ForkChoice(t, votes, weight)
<1>1. IsChoice(t, tally, c)
  BY ForkChoiceIs
<1>2. c \in DOMAIN t \cup {None}
  BY <1>1 DEF IsChoice
<1>3. ASSUME DOMAIN votes # {}, c = None PROVE FALSE
  <2>1. PICK v \in DOMAIN votes : TRUE
    BY <1>3
  <2> DEFINE b == votes[v]
  <2>2. b \in DOMAIN t
    BY DEF AreVotes
  <2>3. t[b].height \in Nat /\ 0 <= t[b].height
    BY <2>2, TreeBasics
  <2> DEFINE r == FindAncestorProposal(t, b, 0)
  <2>4. r \in Line(t, b) /\ t[r].height = 0
    BY <2>2, <2>3, LineFacts
  <2> HIDE DEF r
  <2>5. r \in DOMAIN t
    BY <2>4 DEF Line
  <2>6. Parent(t, r) = None
    BY <2>4, <2>5, TreeBasics
  <2>7. Backers(t, votes, r) # {}
    BY <2>4 DEF Backers
  <2>8. r \in Voted(t, tally)
    BY <2>5, <2>7, TalliesOK
  <2> QED
    BY <1>1, <1>3, <2>6, <2>8 DEF IsChoice, IsLast
<1> QED
  BY <1>2, <1>3

\* The units U and the blocks B of a state.
IsState(U, B) ==
    /\ IsTree(B)
    /\ DOMAIN B \subseteq DOMAIN U
    /\ DOMAIN U \subseteq UsedHashes
    /\ Skips(DOMAIN U, [x \in DOMAIN U |-> U[x].skip], [x \in DOMAIN U |-> U[x].seq])
    /\ \A h \in DOMAIN U :
           /\ U[h].block \in DOMAIN B
           /\ U[h].creator \in Validators
           /\ U[h].panorama \in [Validators -> DOMAIN U \cup {None, Faulty}]

\* The units that a panorama observes are known.
Knows(U, pan) == \A v \in Validators : IsCorrect(pan[v]) => pan[v] \in DOMAIN U

\* The votes of a panorama, and that they have a choice.
LEMMA VotesOf ==
    ASSUME NEW U, NEW B, IsState(U, B), NEW pan, Knows(U, pan)
    PROVE  /\ Ranked(DOMAIN B)
           /\ AreVotes(B, [v \in CorrectIn(pan) |-> U[pan[v]].block], Weight)
           /\ Choice(U, B, pan) \in DOMAIN B \cup {None}
           /\ CorrectIn(pan) # {} => Choice(U, B, pan) \in DOMAIN B
<1> DEFINE votes == [v \in CorrectIn(pan) |-> U[pan[v]].block]
<1>1. DOMAIN B \subseteq UsedHashes
  BY DEF IsState
<1>2. Ranked(DOMAIN B)
  BY <1>1, ChoiceAssumption DEF Ranked
<1>3. IsFiniteSet(CorrectIn(pan))
  <2>1. IsFiniteSet(Validators)
    BY FS_Interval, StateAssumption DEF Validators
  <2> QED
    BY <2>1, FS_Subset DEF CorrectIn
<1>4. \A v \in CorrectIn(pan) : v \in Validators /\ pan[v] \in DOMAIN U
  BY DEF CorrectIn, Knows
<1>5. AreVotes(B, votes, Weight)
  <2>1. \A v \in CorrectIn(pan) : votes[v] \in DOMAIN B
    BY <1>4 DEF IsState
  <2>2. \A v \in CorrectIn(pan) : Weight[v] \in Nat \ {0}
    BY <1>4, ChoiceAssumption
  <2>3. DOMAIN votes = CorrectIn(pan)
    OBVIOUS
  <2> HIDE DEF votes
  <2> QED
    BY <1>3, <2>1, <2>2, <2>3 DEF AreVotes
<1>6. Choice(U, B, pan) = ForkChoice(B, votes, Weight) /\ DOMAIN votes = CorrectIn(pan)
  BY DEF Choice
<1>7. IsTree(B)
  BY DEF IsState
<1> HIDE DEF votes
<1>8. /\ ForkChoice(B, votes, Weight) \in DOMAIN B \cup {None}
      /\ DOMAIN votes # {} => ForkChoice(B, votes, Weight) \in DOMAIN B
  BY <1>2, <1>5, <1>7, SomeChoice
<1> QED
  BY <1>2, <1>5, <1>6, <1>8 DEF votes

\* The fork choice of a panorama is the same when the state has grown.
LEMMA PanoramaChoiceStays ==
    ASSUME NEW U, NEW B, IsState(U, B), NEW U2, NEW B2, IsState(U2, B2),
           Continues(U, U2), Continues(B, B2), NEW pan, Knows(U, pan)
    PROVE  Choice(U2, B2, pan) = Choice(U, B, pan)
<1> DEFINE votes == [v \in CorrectIn(pan) |-> U[pan[v]].block]
<1>1. \A v \in CorrectIn(pan) : pan[v] \in DOMAIN U /\ U2[pan[v]] = U[pan[v]]
  BY DEF CorrectIn, Knows, Continues
<1>2. [v \in CorrectIn(pan) |-> U2[pan[v]].block] = votes
  BY <1>1
<1>3. Choice(U2, B2, pan) = ForkChoice(B2, votes, Weight) /\ Choice(U, B, pan) = ForkChoice(B, votes, Weight)
  BY <1>2 DEF Choice
<1>4. AreVotes(B, votes, Weight)
  BY VotesOf
<1>5. Ranked(DOMAIN B2)
  <2>1. DOMAIN B2 \subseteq UsedHashes
    BY DEF IsState
  <2> QED
    BY <2>1, ChoiceAssumption DEF Ranked
<1>6. IsTree(B) /\ IsTree(B2)
  BY DEF IsState
<1> HIDE DEF votes
<1>7. ForkChoice(B2, votes, Weight) = ForkChoice(B, votes, Weight)
  BY <1>4, <1>5, <1>6, ChoiceStays
<1> QED
  BY <1>3, <1>7

\* find_in_swimlane finds the same when the state has grown.
LEMMA SwimlaneStays ==
    ASSUME NEW U, NEW B, IsState(U, B), NEW U2, NEW B2, IsState(U2, B2), Continues(U, U2),
           NEW h \in DOMAIN U, NEW seq \in Nat
    PROVE  FindInSwimlane(U2, h, seq) = FindInSwimlane(U, h, seq)
<1> DEFINE lists == [x \in DOMAIN U |-> U[x].skip]
           index == [x \in DOMAIN U |-> U[x].seq]
           lists2 == [x \in DOMAIN U2 |-> U2[x].skip]
           index2 == [x \in DOMAIN U2 |-> U2[x].seq]
<1>1. Skips(DOMAIN U, lists, index) /\ Skips(DOMAIN U2, lists2, index2)
  BY DEF IsState
<1>2. DOMAIN U \subseteq DOMAIN U2 /\ \A x \in DOMAIN U : lists2[x] = lists[x] /\ index2[x] = index[x]
  BY DEF Continues
<1>3. /\ FindInSwimlane(U, h, seq) = Back(lists, index, h, seq)
      /\ FindInSwimlane(U2, h, seq) = Back(lists2, index2, h, seq)
  BY DEF FindInSwimlane
<1> HIDE DEF lists, index, lists2, index2
<1>4. Back(lists2, index2, h, seq) = Back(lists, index, h, seq)
  BY <1>1, <1>2, BackStays
<1> QED
  BY <1>3, <1>4

\* Panorama::geq between known panoramas is the same when the state has grown.
LEMMA GeqStays ==
    ASSUME NEW U, NEW B, IsState(U, B), NEW U2, NEW B2, IsState(U2, B2), Continues(U, U2),
           NEW pan0, NEW pan1, Knows(U, pan0), Knows(U, pan1)
    PROVE  Geq(U2, pan0, pan1) <=> Geq(U, pan0, pan1)
<1>0. \A x \in DOMAIN U : U2[x] = U[x]
  BY DEF Continues
<1>1. ASSUME NEW v \in Validators, IsCorrect(pan0[v]), IsCorrect(pan1[v])
      PROVE  SeesCorrect(U2, U2[pan0[v]].panorama, pan1[v])
             <=> SeesCorrect(U, U[pan0[v]].panorama, pan1[v])
  <2> DEFINE g == pan0[v]
             h == pan1[v]
             q == U[g].panorama
             latest == q[U[h].creator]
  <2>1. g \in DOMAIN U /\ h \in DOMAIN U
    BY <1>1 DEF Knows
  <2>2. U2[g] = U[g] /\ U2[h] = U[h]
    BY <1>0, <2>1
  <2>3. U[h].creator \in Validators /\ q \in [Validators -> DOMAIN U \cup {None, Faulty}]
    BY <2>1 DEF IsState
  <2>4. U[h].seq \in Nat
    <3>1. Skips(DOMAIN U, [x \in DOMAIN U |-> U[x].skip], [x \in DOMAIN U |-> U[x].seq])
      BY DEF IsState
    <3>2. [x \in DOMAIN U |-> U[x].seq][h] \in Nat
      BY <2>1, <3>1 DEF Skips
    <3> QED
      BY <2>1, <3>2
  <2>5. IsCorrect(latest) => latest \in DOMAIN U
    BY <2>3, ObservationAssumption DEF IsCorrect
  <2>6. IsCorrect(latest) => FindInSwimlane(U2, latest, U[h].seq) = FindInSwimlane(U, latest, U[h].seq)
    BY <2>4, <2>5, SwimlaneStays
  <2> QED
    BY <2>2, <2>6 DEF SeesCorrect
<1> QED
  BY <1>1 DEF Geq, ObservationGeq

\* The checks of a wire unit.
LEMMA ValidStays ==
    ASSUME NEW U, NEW B, IsState(U, B), NEW U2, NEW B2, IsState(U2, B2),
           Continues(U, U2), Continues(B, B2),
           NEW w, w.creator \in Validators, Knows(U, w.panorama), ValidateUnit(U, B, w)
    PROVE  ValidateUnit(U2, B2, w)
<1> DEFINE pan == w.panorama
           own == pan[w.creator]
<1>0. w.creator \in Validators /\ \A x \in DOMAIN U : U2[x] = U[x]
  BY DEF Continues
<1>1. \A v \in CorrectIn(pan) : v \in Validators /\ pan[v] \in DOMAIN U /\ U2[pan[v]] = U[pan[v]]
  BY <1>0 DEF CorrectIn, Knows
<1>2. IsCorrect(own) => own \in DOMAIN U /\ U2[own] = U[own]
  BY <1>0 DEF Knows
<1>3. \A v \in CorrectIn(pan) : U2[pan[v]].timestamp <= w.timestamp
  BY <1>1 DEF ValidateUnit
<1>4. w.seq = NextSeqNum(U2, pan, w.creator)
  BY <1>2 DEF ValidateUnit, NextSeqNum
<1>5. ValidRound(U2, w)
  <2>1. ASSUME IsCorrect(own), IsCorrect(Previous(U[own]))
        PROVE  Previous(U[own]) \in DOMAIN U
    <3>1. own \in DOMAIN U
      BY <1>2, <2>1
    <3>2. U[own].skip # <<>>
      BY <2>1, ObservationAssumption DEF Previous, IsCorrect
    <3>3. U[own].skip \in Seq(DOMAIN U)
      <4>1. Skips(DOMAIN U, [x \in DOMAIN U |-> U[x].skip], [x \in DOMAIN U |-> U[x].seq])
        BY DEF IsState
      <4>2. [x \in DOMAIN U |-> U[x].skip][own] \in Seq(DOMAIN U)
        BY <3>1, <4>1 DEF Skips
      <4> QED
        BY <3>1, <4>2
    <3> QED
      BY <3>2, <3>3 DEF Previous
  <2>2. ValidRound(U, w)
    BY DEF ValidateUnit
  <2>3. CASE IsCorrect(own)
    <3>1. U2[own] = U[own] /\ (IsCorrect(Previous(U[own])) => U2[Previous(U[own])] = U[Previous(U[own])])
      BY <1>0, <1>2, <2>1, <2>3
    <3> QED
      BY <2>2, <3>1 DEF ValidRound
  <2>4. CASE ~ IsCorrect(own)
    BY <2>4 DEF ValidRound
  <2> QED
    BY <2>3, <2>4
<1>6. w.proposal => ValidProposal(U2, B2, w)
  <2> SUFFICES ASSUME w.proposal PROVE ValidProposal(U2, B2, w)
    OBVIOUS
  <2>1. ValidProposal(U, B, w)
    BY DEF ValidateUnit
  <2> DEFINE c == Choice(U, B, pan)
  <2>2. Choice(U2, B2, pan) = c
    BY PanoramaChoiceStays
  <2>3. c \in DOMAIN B \cup {None}
    BY VotesOf
  <2> HIDE DEF c
  <2>4. IsTerminalBlock(U2, B2, c) <=> IsTerminalBlock(U, B, c)
    <3>1. CASE c \in DOMAIN B
      <4>1. c \in DOMAIN B2 /\ B2[c] = B[c] /\ c \in DOMAIN U
        BY <3>1 DEF Continues, IsState
      <4> QED
        BY <1>0, <3>1, <4>1 DEF IsTerminalBlock
    <3>2. CASE c = None
      BY <3>2 DEF IsTerminalBlock, IsState, IsTree
    <3> QED
      BY <2>3, <3>1, <3>2
  <2> QED
    BY <1>2, <2>1, <2>2, <2>4 DEF ValidProposal, c
<1>7. ValidatePanorama(U2, pan)
  <2>0. ValidatePanorama(U, pan)
    BY DEF ValidateUnit
  <2>1. \A v \in CorrectIn(pan) : U2[pan[v]].creator = v
    BY <1>1, <2>0 DEF ValidatePanorama
  <2>2. ASSUME NEW v \in CorrectIn(pan) PROVE Geq(U2, pan, U2[pan[v]].panorama)
    <3>1. Geq(U, pan, U[pan[v]].panorama)
      BY <2>0 DEF ValidatePanorama
    <3>2. pan[v] \in DOMAIN U /\ U2[pan[v]] = U[pan[v]]
      BY <1>1
    <3>3. Knows(U, U[pan[v]].panorama)
      BY <3>2, ObservationAssumption DEF IsState, Knows, IsCorrect
    <3> QED
      BY <3>1, <3>2, <3>3, GeqStays
  <2> QED
    BY <2>1, <2>2 DEF ValidatePanorama
<1> QED
  BY <1>3, <1>4, <1>5, <1>6, <1>7 DEF ValidateUnit

\* What w cites is known, and w passes the checks of validate_unit.
Checked(w) == HasDependencies(units, w.panorama) /\ ValidateUnit(units, blocks, w)

\* The wire unit of a known unit.
WireOf(h) ==
    [creator |-> units[h].creator, seq |-> units[h].seq, panorama |-> units[h].panorama,
     timestamp |-> units[h].timestamp, roundExp |-> units[h].roundExp,
     proposal |-> h \in DOMAIN blocks]

VotesAreChoices ==
    \A h \in DOMAIN units :
        /\ h \in DOMAIN blocks => units[h].block = h
        /\ h \notin DOMAIN blocks =>
               units[h].block = Choice(units, blocks, units[h].panorama)

\* The inductive invariant, on top of IInv and Swimlanes.
ValidInv ==
    /\ IsState(units, blocks)
    /\ \A p \in pendingValues : p.hash \in UsedHashes /\ p.unit.proposal /\ Checked(p.unit)
    /\ \A h \in DOMAIN units : Checked(WireOf(h))
    /\ VotesAreChoices

\* A panorama whose dependencies are satisfied observes known units.
LEMMA DependenciesKnown ==
    ASSUME NEW U, NEW pan, HasDependencies(U, pan)
    PROVE  Knows(U, pan)
  BY DEF HasDependencies, Knows

\* There is a hash for the next unit.
LEMMA NextHashUsed ==
    ASSUME Finite, NEW v \in Validators,
           Cardinality(DOMAIN units) + Cardinality(pendingValues) < MaxUnits
    PROVE  NextHash(v) \in UsedHashes
<1> DEFINE a == Cardinality(UnitsBy(v))
           b == Cardinality(PendingBy(v))
<1>1. UnitsBy(v) \in SUBSET DOMAIN units /\ PendingBy(v) \in SUBSET pendingValues
  BY DEF UnitsBy, PendingBy
<1>2. /\ IsFiniteSet(UnitsBy(v)) /\ a <= Cardinality(DOMAIN units)
      /\ IsFiniteSet(PendingBy(v)) /\ b <= Cardinality(pendingValues)
  BY <1>1, FS_Subset DEF Finite
<1>3. /\ a \in Nat /\ b \in Nat
      /\ Cardinality(DOMAIN units) \in Nat /\ Cardinality(pendingValues) \in Nat
  BY <1>2, FS_CardinalityType DEF Finite
<1>4. NextHash(v) = <<v, a + b>>
  BY DEF NextHash
<1> HIDE DEF a, b
<1>5. a + b \in 0 .. MaxUnits
  BY <1>2, <1>3, StateAssumption
<1> QED
  BY <1>4, <1>5 DEF UsedHashes

\* A unit that passed the validation is added to a state.
LEMMA StateGrows ==
    ASSUME Core, Core', Swimlanes, IsState(units, blocks),
           NEW w \in WireUnits, NEW h \in UsedHashes, Extends(w), Knows(units, w.panorama),
           w.proposal \/ CorrectIn(w.panorama) # {}, AddValidUnit(w, h)
    PROVE  /\ IsState(units', blocks')
           /\ Continues(units, units') /\ Continues(blocks, blocks')
           /\ DOMAIN units' = DOMAIN units \cup {h}
           /\ units'[h].creator = w.creator /\ units'[h].seq = w.seq
           /\ units'[h].panorama = w.panorama /\ units'[h].timestamp = w.timestamp
           /\ units'[h].roundExp = w.roundExp
           /\ units'[h].block = IF w.proposal THEN h ELSE Choice(units, blocks, w.panorama)
           /\ h \in DOMAIN blocks' <=> w.proposal
           /\ \A x \in DOMAIN units : x \in DOMAIN blocks' <=> x \in DOMAIN blocks
<1> DEFINE c == Choice(units, blocks, w.panorama)
<1>0. h \in Hashes /\ h # None
  BY ObservationAssumption, StateAssumption DEF UsedHashes, Hashes
<1>1. /\ h \notin DOMAIN units
      /\ DOMAIN units' = DOMAIN units \cup {h}
      /\ \A x \in DOMAIN units : units'[x] = units[x]
      /\ units'[h].creator = w.creator /\ units'[h].seq = w.seq
      /\ units'[h].panorama = w.panorama /\ units'[h].timestamp = w.timestamp
  BY <1>0, UnitsGrow
<1>2. /\ units'[h].roundExp = w.roundExp
      /\ units'[h].block = IF w.proposal THEN h ELSE c
  <2>1. units'[h] = NewUnit(w, h)
    BY <1>1 DEF AddValidUnit
  <2> QED
    BY <2>1 DEF NewUnit
<1>3. c \in DOMAIN blocks \cup {None} /\ (CorrectIn(w.panorama) # {} => c \in DOMAIN blocks)
  BY VotesOf
<1>4. IsTree(blocks) /\ DOMAIN blocks \subseteq DOMAIN units
  BY DEF IsState
<1>5. h \notin DOMAIN blocks
  BY <1>1, <1>4
<1>6. blocks' = IF w.proposal
                THEN [x \in DOMAIN blocks \cup {h} |-> IF x = h THEN NewBlock(blocks, c) ELSE blocks[x]]
                ELSE blocks
  BY DEF AddValidUnit
<1> HIDE DEF c
<1>7. IsTree(blocks') /\ Continues(blocks, blocks')
  <2>1. CASE w.proposal
    <3>1. blocks' = [x \in DOMAIN blocks \cup {h} |-> IF x = h THEN NewBlock(blocks, c) ELSE blocks[x]]
      BY <1>6, <2>1
    <3> QED
      BY <1>0, <1>3, <1>4, <1>5, <3>1, TreeGrows
  <2>2. CASE ~ w.proposal
    <3>1. blocks' = blocks
      BY <1>6, <2>2
    <3> QED
      BY <1>4, <3>1 DEF Continues
  <2> QED
    BY <2>1, <2>2
<1>8. /\ h \in DOMAIN blocks' <=> w.proposal
      /\ \A x \in DOMAIN units : x \in DOMAIN blocks' <=> x \in DOMAIN blocks
      /\ DOMAIN blocks \subseteq DOMAIN blocks'
      /\ DOMAIN blocks' \subseteq DOMAIN units'
  BY <1>1, <1>4, <1>5, <1>6
<1>9. Skips(DOMAIN units', [x \in DOMAIN units' |-> units'[x].skip], [x \in DOMAIN units' |-> units'[x].seq])
  <2>1. Swimlanes'
    BY <1>0, SwimlanesAdd
  <2> QED
    BY <2>1 DEF Swimlanes, SkipLists, SeqNumbers
<1>10. \A x \in DOMAIN units' : units'[x].block \in DOMAIN blocks'
  <2>1. \A x \in DOMAIN units : units[x].block \in DOMAIN blocks
    BY DEF IsState
  <2>2. units'[h].block \in DOMAIN blocks'
    BY <1>2, <1>3, <1>8
  <2> QED
    BY <1>1, <1>8, <2>1, <2>2
<1>11. \A x \in DOMAIN units' :
           /\ units'[x].creator \in Validators
           /\ units'[x].panorama \in [Validators -> DOMAIN units' \cup {None, Faulty}]
  BY DEF Core, TypeOK
<1>12. DOMAIN units' \subseteq UsedHashes
  BY <1>1 DEF IsState
<1>13. IsState(units', blocks')
  BY <1>7, <1>8, <1>9, <1>10, <1>11, <1>12 DEF IsState
<1>14. Continues(units, units')
  BY <1>1 DEF Continues
<1> QED
  BY <1>1, <1>2, <1>7, <1>8, <1>13, <1>14 DEF c

\* What was valid is valid with the new unit, which is as well.
LEMMA ValidAdd ==
    ASSUME Core, Core', Swimlanes, ValidInv,
           NEW w \in WireUnits, NEW h \in UsedHashes, Extends(w), Checked(w),
           w.proposal \/ CorrectIn(w.panorama) # {}, AddValidUnit(w, h),
           pendingValues' \subseteq pendingValues,
           \A p \in pendingValues : p.unit.creator \in Validators
    PROVE  ValidInv'
<1>0. IsState(units, blocks) /\ Knows(units, w.panorama)
  BY DependenciesKnown DEF ValidInv, Checked
<1>1. /\ IsState(units', blocks')
      /\ Continues(units, units') /\ Continues(blocks, blocks')
      /\ DOMAIN units' = DOMAIN units \cup {h}
      /\ units'[h].creator = w.creator /\ units'[h].seq = w.seq
      /\ units'[h].panorama = w.panorama /\ units'[h].timestamp = w.timestamp
      /\ units'[h].roundExp = w.roundExp
      /\ units'[h].block = IF w.proposal THEN h ELSE Choice(units, blocks, w.panorama)
      /\ h \in DOMAIN blocks' <=> w.proposal
      /\ \A x \in DOMAIN units : x \in DOMAIN blocks' <=> x \in DOMAIN blocks
  BY <1>0, StateGrows
<1>2. \A x \in DOMAIN units : units'[x] = units[x]
  BY <1>1 DEF Continues
<1>3. \A v \in Validators : faults[v] # "none" => faults'[v] # "none"
  <2>1. h \in Hashes
    BY StateAssumption DEF UsedHashes, Hashes
  <2>2. /\ \A v \in Validators \ {w.creator} : faults'[v] = faults[v]
        /\ faults[w.creator] # "none" => faults'[w.creator] # "none"
    BY <2>1, Observed
  <2> QED
    BY <2>2
\* Wire units that are checked before are checked afterwards.
<1>4. ASSUME NEW u, u.creator \in Validators, Checked(u)
      PROVE  Checked(u)' /\ Choice(units', blocks', u.panorama) = Choice(units, blocks, u.panorama)
  <2>1. HasDependencies(units, u.panorama) /\ ValidateUnit(units, blocks, u)
    BY <1>4 DEF Checked
  <2>2. Knows(units, u.panorama)
    BY <2>1, DependenciesKnown
  <2>3. ValidateUnit(units', blocks', u)
    BY <1>0, <1>1, <1>4, <2>1, <2>2, ValidStays
  <2>4. Choice(units', blocks', u.panorama) = Choice(units, blocks, u.panorama)
    BY <1>0, <1>1, <2>2, PanoramaChoiceStays
  <2>5. HasDependencies(units, u.panorama)'
    BY <1>1, <1>3, <2>1 DEF HasDependencies
  <2> QED
    BY <2>3, <2>4, <2>5 DEF Checked
<1>5. \A p \in pendingValues' : p.hash \in UsedHashes /\ p.unit.proposal /\ Checked(p.unit)'
  BY <1>4 DEF ValidInv
<1>6. w.creator \in Validators /\ w.proposal \in BOOLEAN
  BY DEF WireUnits
<1>7. Checked(w)' /\ Choice(units', blocks', w.panorama) = Choice(units, blocks, w.panorama)
  BY <1>4, <1>6
<1>8. WireOf(h)' = w
  <2>1. w = [creator |-> w.creator, seq |-> w.seq, panorama |-> w.panorama,
             timestamp |-> w.timestamp, roundExp |-> w.roundExp, proposal |-> w.proposal]
    BY DEF WireUnits
  <2>2. (h \in DOMAIN blocks') = w.proposal
    BY <1>1, <1>6
  <2> QED
    BY <1>1, <2>1, <2>2 DEF WireOf
<1>9. ASSUME NEW x \in DOMAIN units
      PROVE  /\ Checked(WireOf(x))'
             /\ Choice(units', blocks', units[x].panorama) = Choice(units, blocks, units[x].panorama)
  <2>1. WireOf(x)' = WireOf(x)
    <3>1. (x \in DOMAIN blocks') = (x \in DOMAIN blocks)
      BY <1>1
    <3> QED
      BY <1>2, <3>1 DEF WireOf
  <2>2. /\ WireOf(x).creator = units[x].creator /\ WireOf(x).panorama = units[x].panorama
        /\ units[x].creator \in Validators
    BY DEF WireOf, Core, TypeOK
  <2>3. Checked(WireOf(x))
    BY DEF ValidInv
  <2>4. /\ HasDependencies(units, units[x].panorama) /\ ValidateUnit(units, blocks, WireOf(x))
    BY <2>2, <2>3 DEF Checked
  <2>5. Knows(units, units[x].panorama)
    BY <2>4, DependenciesKnown
  <2>6. ValidateUnit(units', blocks', WireOf(x))
    BY <1>0, <1>1, <2>2, <2>4, <2>5, ValidStays
  <2>7. Choice(units', blocks', units[x].panorama) = Choice(units, blocks, units[x].panorama)
    BY <1>0, <1>1, <2>5, PanoramaChoiceStays
  <2>8. HasDependencies(units, units[x].panorama)'
    BY <1>1, <1>2, <1>3, <2>4 DEF HasDependencies
  <2>9. WireOf(x)'.panorama = units'[x].panorama
    BY DEF WireOf
  <2> QED
    BY <2>1, <2>6, <2>7, <2>8, <2>9 DEF Checked
<1>10. \A x \in DOMAIN units' : Checked(WireOf(x))'
  <2>1. Checked(WireOf(h))'
    BY <1>7, <1>8 DEF Checked, HasDependencies
  <2> QED
    BY <1>1, <1>9, <2>1
<1>11. VotesAreChoices'
  <2> SUFFICES ASSUME NEW x \in DOMAIN units'
               PROVE  /\ x \in DOMAIN blocks' => units'[x].block = x
                      /\ x \notin DOMAIN blocks' =>
                             units'[x].block = Choice(units', blocks', units'[x].panorama)
    BY DEF VotesAreChoices
  <2>1. CASE x = h
    BY <1>1, <1>7, <2>1
  <2>2. CASE x \in DOMAIN units
    BY <1>1, <1>2, <1>9, <2>2 DEF ValidInv, VotesAreChoices
  <2> QED
    BY <1>1, <2>1, <2>2
<1> QED
  BY <1>1, <1>5, <1>10, <1>11 DEF ValidInv

\* A step that leaves the units and the blocks, and forgets no fault.
LEMMA ValidKept ==
    ASSUME ValidInv, UNCHANGED <<units, blocks>>,
           \A v \in Validators : faults[v] # "none" => faults'[v] # "none",
           \A p \in pendingValues' :
               p \in pendingValues \/ (p.hash \in UsedHashes /\ p.unit.proposal /\ Checked(p.unit))
    PROVE  ValidInv'
<1>1. ASSUME NEW u, Checked(u) PROVE Checked(u)'
  BY <1>1 DEF Checked, HasDependencies
<1>2. ASSUME NEW h \in DOMAIN units PROVE Checked(WireOf(h))'
  <2>1. WireOf(h)' = WireOf(h)
    BY DEF WireOf
  <2>2. Checked(WireOf(h))
    BY DEF ValidInv
  <2> QED
    BY <2>1, <2>2 DEF Checked, HasDependencies
<1>3. \A p \in pendingValues' : p.hash \in UsedHashes /\ p.unit.proposal /\ Checked(p.unit)'
  BY <1>1 DEF ValidInv
<1> QED
  BY <1>2, <1>3 DEF ValidInv, VotesAreChoices

\* The validity survives every step.
LEMMA ValidStep == IInv /\ IInv' /\ Swimlanes /\ ValidInv /\ [Next]_vars => ValidInv'
<1> SUFFICES ASSUME IInv, IInv', Swimlanes, ValidInv, [Next]_vars PROVE ValidInv'
  OBVIOUS
<1>0. /\ Core /\ Core' /\ Finite
      /\ \A p \in pendingValues : p.unit \in WireUnits /\ Extends(p.unit)
      /\ \A p \in pendingValues : p.unit.creator \in Validators
      /\ faults \in [Validators -> {"none", "Banned", "Direct", "Indirect"}]
  BY DEF IInv, PendingInv, WireUnits, Core, TypeOK
<1>1. CASE /\ Cardinality(DOMAIN units) + Cardinality(pendingValues) < MaxUnits
           /\ \E pan \in CitablePanoramas, v \in Validators, t \in Times,
                 re \in MinRoundExp .. MaxRoundExp, proposal \in BOOLEAN :
                     \/ AddVertex(WireUnit(v, pan, t, re, proposal))
                     \/ AwaitValidity(WireUnit(v, pan, t, re, proposal))
  <2>1. PICK pan \in CitablePanoramas, v \in Validators, t \in Times,
             re \in MinRoundExp .. MaxRoundExp, proposal \in BOOLEAN :
                 \/ AddVertex(WireUnit(v, pan, t, re, proposal))
                 \/ AwaitValidity(WireUnit(v, pan, t, re, proposal))
    BY <1>1
  <2> DEFINE w == WireUnit(v, pan, t, re, proposal)
  <2>2. IsValid(w)
    BY <2>1 DEF AddVertex, AwaitValidity
  <2>3. w \in WireUnits /\ Extends(w) /\ w.creator = v
    BY <2>2, ValidExtends
  <2>4. NextHash(v) \in UsedHashes
    BY <1>0, <1>1, NextHashUsed
  <2> HIDE DEF w
  <2>5. Checked(w) /\ (w.proposal \/ CorrectIn(w.panorama) # {})
    BY <2>2 DEF IsValid, PreValidateUnit, Checked
  <2>6. CASE AddVertex(w)
    <3>1. AddValidUnit(w, NextHash(v)) /\ pendingValues' \subseteq pendingValues
      BY <2>3, <2>6 DEF AddVertex
    <3> QED
      BY <1>0, <2>3, <2>4, <2>5, <3>1, ValidAdd
  <2>7. CASE AwaitValidity(w)
    <3>1. /\ w.proposal
          /\ pendingValues' = pendingValues \cup {[unit |-> w, hash |-> NextHash(v)]}
          /\ UNCHANGED <<units, blocks, faults>>
      BY <2>3, <2>7 DEF AwaitValidity, stateVars
    <3>2. \A p \in pendingValues' :
              p \in pendingValues \/ (p.hash \in UsedHashes /\ p.unit.proposal /\ Checked(p.unit))
      BY <2>4, <2>5, <3>1
    <3> QED
      BY <3>1, <3>2, ValidKept
  <2> QED
    BY <2>1, <2>6, <2>7 DEF w
<1>2. CASE \E p \in pendingValues, valid \in BOOLEAN : ResolveValidity(p, valid)
  <2>1. PICK p \in pendingValues, valid \in BOOLEAN : ResolveValidity(p, valid)
    BY <1>2
  <2>2. p.hash \in UsedHashes /\ p.unit.proposal /\ Checked(p.unit)
    BY DEF ValidInv
  <2>3. pendingValues' \subseteq pendingValues
    BY <2>1 DEF ResolveValidity
  <2>4. CASE valid
    <3>1. AddValidUnit(p.unit, p.hash)
      BY <2>1, <2>4 DEF ResolveValidity
    <3> QED
      BY <1>0, <2>2, <2>3, <3>1, ValidAdd
  <2>5. CASE ~ valid
    <3>1. UNCHANGED <<units, blocks, faults>>
      BY <2>1, <2>5 DEF ResolveValidity, stateVars
    <3> QED
      BY <2>3, <3>1, ValidKept
  <2> QED
    BY <2>4, <2>5
<1>3. CASE \E v \in Validators : AddEvidenceVertex(v)
  <2>1. /\ UNCHANGED <<units, blocks, pendingValues>>
        /\ \A x \in Validators : faults[x] # "none" => faults'[x] # "none"
    BY <1>0, <1>3 DEF AddEvidenceVertex, AddEvidence, FaultWithEvidence
  <2> QED
    BY <2>1, ValidKept
<1>4. CASE \E v \in Validators : MarkValidatorFaulty(v)
  <2>1. /\ UNCHANGED <<units, blocks, pendingValues>>
        /\ \A x \in Validators : faults[x] # "none" => faults'[x] # "none"
    BY <1>0, <1>4 DEF MarkValidatorFaulty, MarkFaulty
  <2> QED
    BY <2>1, ValidKept
<1>5. CASE \E v \in Validators, t \in PingTimes : AddPingVertex(v, t)
  <2>1. UNCHANGED <<units, blocks, faults, pendingValues>>
    BY <1>5 DEF AddPingVertex, AddPing
  <2> QED
    BY <2>1, ValidKept
<1>6. CASE SetEvidenceOnly
  <2>1. DOMAIN units' = {} /\ DOMAIN blocks' = {} /\ pendingValues' = {}
    BY <1>6 DEF SetEvidenceOnly, RetainEvidenceOnly
  <2>2. IsState(units', blocks')
    BY <2>1, EmptyTree DEF IsState, Skips
  <2> QED
    BY <2>1, <2>2 DEF ValidInv, VotesAreChoices
<1>7. CASE UNCHANGED vars
  <2>1. UNCHANGED <<units, blocks, faults, pendingValues>>
    BY <1>7 DEF vars
  <2> QED
    BY <2>1, ValidKept
<1> QED
  BY <1>1, <1>2, <1>3, <1>4, <1>5, <1>6, <1>7 DEF Next

\* What was valid stays valid, a pending proposal (HighwayProtocol::pending_values)
\* as well as a unit in the state, and a unit votes for the fork choice of its
\* panorama for good (Unit::block, State::validate_unit).
THEOREM ValidityStays == Spec => []ValidForever
<1>1. ProtocolInit => ValidInv
  <2> SUFFICES ASSUME ProtocolInit PROVE ValidInv
    OBVIOUS
  <2>1. DOMAIN units = {} /\ DOMAIN blocks = {} /\ pendingValues = {}
    BY DEF ProtocolInit, Init
  <2>2. IsState(units, blocks)
    BY <2>1, EmptyTree DEF IsState, Skips
  <2> QED
    BY <2>1, <2>2 DEF ValidInv, VotesAreChoices
<1>2. ValidInv => ValidForever
  <2> SUFFICES ASSUME ValidInv PROVE ValidForever
    OBVIOUS
  <2>1. \A p \in pendingValues :
            HasDependencies(units, p.unit.panorama) /\ ValidateUnit(units, blocks, p.unit)
    BY DEF ValidInv, Checked
  <2>2. ASSUME NEW h \in DOMAIN units
        PROVE  /\ HasDependencies(units, WireOf(h).panorama)
               /\ ValidateUnit(units, blocks, WireOf(h))
               /\ units[h].block = IF WireOf(h).proposal THEN h
                                   ELSE Choice(units, blocks, WireOf(h).panorama)
    <3>1. WireOf(h).panorama = units[h].panorama /\ WireOf(h).proposal = (h \in DOMAIN blocks)
      BY DEF WireOf
    <3> QED
      BY <3>1 DEF ValidInv, Checked, VotesAreChoices
  <2> QED
    BY <2>1, <2>2 DEF ValidForever, WireOf
<1> QED
  BY <1>1, <1>2, Invariance, SwimlanesHold, ValidStep, PTL DEF Spec

-----------------------------------------------------------------------------
(* Votes of a majority.                                                    *)

\* The weight of a set of validators.
Wt(S) == SumFunctionOnSet(Weight, S)

\* The weights of parts of the validators.
LEMMA WtOK ==
    /\ IsFiniteSet(Validators)
    /\ \A S \in SUBSET Validators : IsFiniteSet(S) /\ Numbers(Weight, S) /\ Wt(S) \in Nat
    /\ \A S, R \in SUBSET Validators : R \subseteq S => Wt(R) <= Wt(S)
    /\ \A S, R \in SUBSET Validators : S \cap R = {} => Wt(S \cup R) = Wt(S) + Wt(R)
    /\ TotalWeight = Wt(Validators)
<1>1. IsFiniteSet(Validators)
  BY FS_Interval, StateAssumption DEF Validators
<1>2. \A S \in SUBSET Validators : IsFiniteSet(S) /\ Numbers(Weight, S)
  BY <1>1, FS_Subset, StateAssumption DEF Numbers
<1>3. \A S, R \in SUBSET Validators : R \subseteq S => Wt(R) \in Nat /\ Wt(R) <= Wt(S)
  BY <1>2, SumGrows DEF Wt
<1>4. \A S, R \in SUBSET Validators : S \cap R = {} => Wt(S \cup R) = Wt(S) + Wt(R)
  <2> SUFFICES ASSUME NEW S \in SUBSET Validators, NEW R \in SUBSET Validators, S \cap R = {}
               PROVE  Wt(S \cup R) = Wt(S) + Wt(R)
    OBVIOUS
  <2>1. IsFiniteSet(S) /\ IsFiniteSet(R) /\ Numbers(Weight, S \cup R)
    BY <1>2
  <2> QED
    BY <2>1, SumOfTwo DEF Wt
<1>5. TotalWeight = Wt(Validators)
  <2>1. DOMAIN Weight = Validators
    BY StateAssumption
  <2> QED
    BY <2>1 DEF TotalWeight, SumFunction, SumFunctionOnSet, Wt
<1> QED
  BY <1>1, <1>2, <1>3, <1>4, <1>5

\* A block with more than half of the votes is chosen, or a descendant of it.
LEMMA MajorityChosen ==
    ASSUME NEW t, IsTree(t), Ranked(DOMAIN t), NEW votes, NEW weight, AreVotes(t, votes, weight),
           NEW b \in DOMAIN t,
           SumFunctionOnSet(weight, Backers(t, votes, b)) + SumFunctionOnSet(weight, Backers(t, votes, b))
               > SumFunctionOnSet(weight, DOMAIN votes)
    PROVE  /\ ForkChoice(t, votes, weight) \in DOMAIN t
           /\ b \in Line(t, ForkChoice(t, votes, weight))
<1> DEFINE tally == Tallies(votes, weight)
           c == ForkChoice(t, votes, weight)
<1>1. IsChoice(t, tally, c)
  BY ForkChoiceIs
<1>2. /\ IsTally(t, tally)
      /\ Votes(t, tally, b) = SumFunctionOnSet(weight, Backers(t, votes, b))
  BY TalliesOK
<1>3. Total(tally) = SumFunctionOnSet(weight, DOMAIN votes)
  <2>1. /\ DOMAIN tally = Range(votes)
        /\ \A x \in Range(votes) : tally[x] = SumFunctionOnSet(weight, {v \in DOMAIN votes : votes[v] = x})
    BY DEF Tallies
  <2>2. \A v \in DOMAIN votes : votes[v] \in Range(votes)
    BY DEF Range
  <2>3. IsFiniteSet(DOMAIN votes) /\ Numbers(weight, DOMAIN votes)
    BY DEF AreVotes, Numbers
  <2>4. IsFiniteSet(Range(votes))
    <3>1. Range(votes) \subseteq DOMAIN t
      BY DEF Range, AreVotes
    <3> QED
      BY <3>1, FS_Subset DEF IsTree
  <2>5. Total(tally) = SumFunctionOnSet(tally, Range(votes))
    BY <1>2, <2>1, TotalIs
  <2> HIDE DEF tally
  <2>6. SumFunctionOnSet(tally, Range(votes)) = SumFunctionOnSet(weight, DOMAIN votes)
    BY <2>1, <2>2, <2>3, <2>4, SumOfParts
  <2> QED
    BY <2>5, <2>6
<1> HIDE DEF tally, c
<1>4. \A y \in Line(t, b) : Leads(t, tally, y)
  BY <1>2, <1>3, MajorityLeads
<1>5. Wins(t, tally, b)
  BY <1>4 DEF Wins
<1>6. \A y \in Line(t, b) : y \in Voted(t, tally)
  BY <1>4 DEF Leads
<1>7. c # None
  <2>1. t[b].height \in Nat /\ 0 <= t[b].height
    BY TreeBasics
  <2> DEFINE r == FindAncestorProposal(t, b, 0)
  <2>2. r \in Line(t, b) /\ t[r].height = 0 /\ r \in DOMAIN t
    BY <2>1, LineFacts
  <2> HIDE DEF r
  <2>3. Parent(t, r) = None
    BY <2>2, TreeBasics
  <2> QED
    BY <1>1, <1>6, <2>2, <2>3 DEF IsChoice, IsLast
<1>8. c \in DOMAIN t /\ Wins(t, tally, c)
  BY <1>1, <1>7 DEF IsChoice
<1>9. t[b].height \in Nat /\ t[c].height \in Nat
  BY <1>8, TreeBasics
<1>10. CASE t[b].height <= t[c].height
  <2>1. b \in Line(t, c)
    BY <1>2, <1>5, <1>8, <1>10, OneLine
  <2> QED
    BY <1>8, <2>1 DEF c
<1>11. CASE t[c].height <= t[b].height
  <2>1. c \in Line(t, b)
    BY <1>2, <1>5, <1>8, <1>11, OneLine
  <2>2. c = b
    <3> SUFFICES ASSUME c # b PROVE FALSE
      OBVIOUS
    <3>1. PICK y \in Line(t, b) : Parent(t, y) = c
      BY <2>1, LineChild
    <3> QED
      BY <1>1, <1>6, <3>1 DEF IsChoice, IsLast
  <2>3. b \in Line(t, c)
    BY <2>1, <2>2
  <2> QED
    BY <1>8, <2>3 DEF c
<1> QED
  BY <1>9, <1>10, <1>11

\* The same of the votes of a panorama.
LEMMA MajorityOfPanorama ==
    ASSUME NEW U, NEW B, IsState(U, B), NEW pan, Knows(U, pan), NEW b \in DOMAIN B,
           NEW S \in SUBSET CorrectIn(pan), \A v \in S : b \in Line(B, U[pan[v]].block),
           Wt(S) + Wt(S) > Wt(CorrectIn(pan))
    PROVE  Choice(U, B, pan) \in DOMAIN B /\ b \in Line(B, Choice(U, B, pan))
<1> DEFINE votes == [v \in CorrectIn(pan) |-> U[pan[v]].block]
<1>1. AreVotes(B, votes, Weight) /\ Ranked(DOMAIN B) /\ IsTree(B)
  BY VotesOf DEF IsState
<1>2. S \subseteq Backers(B, votes, b) /\ Backers(B, votes, b) \subseteq CorrectIn(pan)
  BY DEF Backers
<1>3. CorrectIn(pan) \in SUBSET Validators
  BY DEF CorrectIn
<1>4. Wt(S) <= Wt(Backers(B, votes, b)) /\ Wt(S) \in Nat /\ Wt(Backers(B, votes, b)) \in Nat
      /\ Wt(CorrectIn(pan)) \in Nat
  <2>1. S \in SUBSET Validators /\ Backers(B, votes, b) \in SUBSET Validators
    BY <1>2, <1>3
  <2> QED
    BY <1>2, <1>3, <2>1, WtOK
<1>5. Wt(Backers(B, votes, b)) + Wt(Backers(B, votes, b)) > Wt(CorrectIn(pan))
  BY <1>4
<1>6. DOMAIN votes = CorrectIn(pan) /\ Choice(U, B, pan) = ForkChoice(B, votes, Weight)
  BY DEF Choice
<1> HIDE DEF votes
<1>7. SumFunctionOnSet(Weight, Backers(B, votes, b)) + SumFunctionOnSet(Weight, Backers(B, votes, b))
          > SumFunctionOnSet(Weight, DOMAIN votes)
  BY <1>5, <1>6 DEF Wt
<1> QED
  BY <1>1, <1>6, <1>7, MajorityChosen

-----------------------------------------------------------------------------
(* Swimlanes, as the lines of a tree.                                      *)

\* The skip lists and sequence numbers of the units.
Lanes(U) == [h \in DOMAIN U |-> [height |-> U[h].seq, skip |-> U[h].skip]]

\* The unit h and those before it in its swimlane.
Lane(U, h) == Line(Lanes(U), h)

\* Neither comes before the other.
Apart(U, x, y) == x \notin Lane(U, y) /\ y \notin Lane(U, x)

\* find_in_swimlane
LEMMA LaneFinds ==
    ASSUME NEW U, NEW h, NEW n
    PROVE  FindInSwimlane(U, h, n) = FindAncestorProposal(Lanes(U), h, n)
<1>1. /\ DOMAIN Lanes(U) = DOMAIN U
      /\ \A x \in DOMAIN U : Lanes(U)[x].skip = U[x].skip /\ Lanes(U)[x].height = U[x].seq
  BY DEF Lanes
<1>2. /\ [x \in DOMAIN Lanes(U) |-> Lanes(U)[x].skip] = [x \in DOMAIN U |-> U[x].skip]
      /\ [x \in DOMAIN Lanes(U) |-> Lanes(U)[x].height] = [x \in DOMAIN U |-> U[x].seq]
  BY <1>1
<1> QED
  BY <1>2 DEF FindInSwimlane, FindAncestorProposal

\* What there is to know of a swimlane.
LEMMA LaneFacts ==
    ASSUME NEW U, IsTree(Lanes(U)), NEW h \in DOMAIN U
    PROVE  /\ U[h].seq \in Nat
           /\ Lane(U, h) \subseteq DOMAIN U
           /\ h \in Lane(U, h)
           /\ \A x \in Lane(U, h) : U[x].seq \in Nat /\ U[x].seq <= U[h].seq
           /\ \A x, y \in Lane(U, h) : U[x].seq = U[y].seq => x = y
           /\ \A x, y \in Lane(U, h) : U[x].seq <= U[y].seq => x \in Lane(U, y)
           /\ \A x, y \in Lane(U, h) : x \in Lane(U, y) \/ y \in Lane(U, x)
           /\ \A y \in Lane(U, h) : Lane(U, y) \subseteq Lane(U, h)
           /\ \A n \in Nat : n <= U[h].seq =>
                  /\ FindInSwimlane(U, h, n) \in Lane(U, h)
                  /\ U[FindInSwimlane(U, h, n)].seq = n
           /\ \A x \in DOMAIN U : x \in Lane(U, h) <=> FindInSwimlane(U, h, U[x].seq) = x
<1> DEFINE t == Lanes(U)
<1>1. DOMAIN t = DOMAIN U /\ \A x \in DOMAIN U : t[x].height = U[x].seq
  BY DEF Lanes
<1>2. \A n : FindInSwimlane(U, h, n) = FindAncestorProposal(t, h, n)
  BY LaneFinds
<1>3. \A x : Lane(U, x) = Line(t, x)
  BY DEF Lane
<1> HIDE DEF t
<1>4. IsTree(t)
  BY DEF t
<1>5. /\ Line(t, h) \subseteq DOMAIN t
      /\ h \in Line(t, h)
      /\ \A x \in Line(t, h) : t[x].height \in Nat /\ t[x].height <= t[h].height
      /\ \A x, y \in Line(t, h) : t[x].height = t[y].height => x = y
      /\ \A x, y \in Line(t, h) : t[x].height <= t[y].height => x \in Line(t, y)
      /\ \A y \in Line(t, h) : Line(t, y) \subseteq Line(t, h)
      /\ \A n \in Nat : n <= t[h].height =>
             /\ FindAncestorProposal(t, h, n) \in Line(t, h)
             /\ t[FindAncestorProposal(t, h, n)].height = n
  BY <1>1, <1>4, LineFacts
<1>6. \A x, y \in Line(t, h) : x \in Line(t, y) \/ y \in Line(t, x)
  BY <1>5
<1>7. \A x \in DOMAIN t : x \in Line(t, h) <=> FindAncestorProposal(t, h, t[x].height) = x
  BY DEF Line
<1>8. \A x \in Line(t, h) : x \in DOMAIN U /\ t[x].height = U[x].seq
  BY <1>1, <1>5
<1>9. \A n \in Nat : n <= U[h].seq =>
                  /\ FindInSwimlane(U, h, n) \in Lane(U, h)
                  /\ U[FindInSwimlane(U, h, n)].seq = n
  BY <1>1, <1>2, <1>3, <1>5, <1>8
<1> QED
  BY <1>1, <1>2, <1>3, <1>5, <1>6, <1>7, <1>8, <1>9

\* Units that are apart stay so further on.
LEMMA ApartStays ==
    ASSUME NEW U, IsTree(Lanes(U)), NEW x \in DOMAIN U, NEW y \in DOMAIN U, Apart(U, x, y),
           NEW z \in DOMAIN U, x \in Lane(U, z)
    PROVE  Apart(U, z, y) /\ Apart(U, y, z)
<1>1. z \notin Lane(U, y)
  BY LaneFacts DEF Apart
<1>2. y \notin Lane(U, z)
  BY LaneFacts DEF Apart
<1> QED
  BY <1>1, <1>2 DEF Apart

\* The panorama p has seen all that q has.
AtLeast(U, p, q) ==
    \A v \in Validators :
        \/ p[v] = Faulty
        \/ q[v] = None
        \/ p[v] \in DOMAIN U /\ q[v] \in Lane(U, p[v])

\* To have seen all that another has is transitive.
LEMMA AtLeastTransitive ==
    ASSUME NEW U, IsTree(Lanes(U)), None \notin DOMAIN U, Faulty \notin DOMAIN U,
           NEW p, NEW q, NEW r, AtLeast(U, p, q), AtLeast(U, q, r)
    PROVE  AtLeast(U, p, r)
<1> SUFFICES ASSUME NEW v \in Validators, p[v] # Faulty, r[v] # None
             PROVE  p[v] \in DOMAIN U /\ r[v] \in Lane(U, p[v])
  BY DEF AtLeast
<1>1. \/ q[v] = Faulty
      \/ q[v] \in DOMAIN U /\ r[v] \in Lane(U, q[v])
  BY DEF AtLeast
<1>2. q[v] # None
  BY <1>1, ObservationAssumption
<1>3. p[v] \in DOMAIN U /\ q[v] \in Lane(U, p[v])
  BY <1>2 DEF AtLeast
<1>4. q[v] \in DOMAIN U
  BY <1>3, LaneFacts
<1>5. q[v] \in DOMAIN U /\ r[v] \in Lane(U, q[v])
  BY <1>1, <1>4
<1> QED
  BY <1>3, <1>5, LaneFacts

\* What the proofs use of the units U and blocks B of a state.
Cites(U, B, h) ==
    LET pan == U[h].panorama IN
    /\ pan[U[h].creator] # Faulty
    /\ Parent(Lanes(U), h) =
           IF IsCorrect(pan[U[h].creator]) THEN pan[U[h].creator] ELSE None
    /\ \A v \in CorrectIn(pan) : U[pan[v]].creator = v /\ AtLeast(U, pan, U[pan[v]].panorama)
    /\ \A x \in Lane(U, h) : U[x].creator = U[h].creator /\ AtLeast(U, pan, U[x].panorama)
    /\ Choice(U, B, pan) \in DOMAIN B => Choice(U, B, pan) \in Line(B, U[h].block)

\* No unit cites one that is not older.
Ordered(U) ==
    \E rank \in [DOMAIN U -> Nat] :
        \A h \in DOMAIN U : \A v \in CorrectIn(U[h].panorama) :
            rank[U[h].panorama[v]] < rank[h]

\* The units U and blocks B are those of a state that the protocol can reach.
World(U, B) ==
    /\ IsState(U, B)
    /\ IsTree(Lanes(U))
    /\ \A h \in DOMAIN U : Cites(U, B, h)
    /\ Ordered(U)

\* What a state of the protocol is known to have.
LEMMA WorldFacts ==
    ASSUME NEW U, NEW B, World(U, B)
    PROVE  /\ IsState(U, B) /\ IsTree(B) /\ IsTree(Lanes(U))
           /\ DOMAIN U \subseteq Hashes /\ None \notin DOMAIN U /\ Faulty \notin DOMAIN U
           /\ \A h \in DOMAIN U :
                  /\ U[h].creator \in Validators
                  /\ U[h].block \in DOMAIN B
                  /\ Knows(U, U[h].panorama)
                  /\ \A v \in Validators : U[h].panorama[v] \in DOMAIN U \cup {None, Faulty}
                  /\ \A v \in Validators :
                        IsCorrect(U[h].panorama[v]) <=> U[h].panorama[v] \in DOMAIN U
                  /\ Cites(U, B, h)
<1>1. IsState(U, B) /\ IsTree(B) /\ IsTree(Lanes(U)) /\ \A h \in DOMAIN U : Cites(U, B, h)
  BY DEF World, IsState
<1>2. DOMAIN U \subseteq Hashes
  BY <1>1, StateAssumption DEF IsState, UsedHashes, Hashes
<1>3. None \notin DOMAIN U /\ Faulty \notin DOMAIN U
  BY <1>2, ObservationAssumption
<1>4. \A h \in DOMAIN U :
          /\ U[h].creator \in Validators /\ U[h].block \in DOMAIN B
          /\ U[h].panorama \in [Validators -> DOMAIN U \cup {None, Faulty}]
  BY <1>1 DEF IsState
<1>5. \A h \in DOMAIN U : \A v \in Validators : U[h].panorama[v] \in DOMAIN U \cup {None, Faulty}
  BY <1>4
<1>6. \A h \in DOMAIN U : \A v \in Validators :
          IsCorrect(U[h].panorama[v]) <=> U[h].panorama[v] \in DOMAIN U
  BY <1>2, <1>5, ObservationAssumption DEF IsCorrect
<1>7. \A h \in DOMAIN U : Knows(U, U[h].panorama)
  BY <1>6 DEF Knows
<1> QED
  BY <1>1, <1>2, <1>3, <1>4, <1>5, <1>6, <1>7

-----------------------------------------------------------------------------
(* Summits.                                                                *)

\* The weight by which two quorums overlap.
Overlap(s) == s.q + s.q - TotalWeight

\* The unit y has seen the unit z of w.
Sees(U, y, w, z) ==
    z \in Lane(U, y) \/ (IsCorrect(U[y].panorama[w]) /\ z \in Lane(U, U[y].panorama[w]))

\* A summit s for the block b: s.k levels with the quorum s.q, the committees s.C[j],
\* the first units s.Z[j][v] of a level and the latest units s.L[v] of the members.
Summit(U, B, b, s) ==
    /\ s.k \in Nat \ {0} /\ s.q \in Nat
    /\ b \in DOMAIN B
    /\ \A j \in 0 .. s.k : s.C[j] \subseteq Validators
    /\ \A j \in 1 .. s.k : s.C[j] \subseteq s.C[j - 1]
    /\ \A v \in s.C[0] : s.L[v] \in DOMAIN U /\ U[s.L[v]].creator = v
    /\ \A j \in 0 .. s.k : \A v \in s.C[j] : s.Z[j][v] \in Lane(U, s.L[v])
    /\ \A j \in 1 .. s.k : \A v \in s.C[j] : s.Z[j - 1][v] \in Lane(U, s.Z[j][v])
    /\ \A v \in s.C[0] : \A x \in Lane(U, s.L[v]) :
           s.Z[0][v] \in Lane(U, x) => b \in Line(B, U[x].block)
    /\ \A j \in 1 .. s.k : \A v \in s.C[j] :
           Wt({w \in s.C[j] : Sees(U, s.Z[j][v], w, s.Z[j - 1][w])}) >= s.q
    /\ Wt(s.C[s.k]) >= s.q
    /\ Overlap(s) > 0
    /\ Overlap(s) * (Pow2[s.k] - 1) >= Pow2[s.k] * Ftt

\* The panorama p has seen that g left the swimlane of the summit before level j.
Exposed(U, s, j, p, g) ==
    \/ p[g] = Faulty
    \/ /\ IsCorrect(p[g]) /\ g \in s.C[0]
       /\ Apart(U, p[g], s.L[g])
       /\ g \in s.C[j] => Apart(U, p[g], s.Z[j][g])

\* A unit that went through level j and does not vote for b.
Deserts(U, B, b, s, j, y) ==
    /\ U[y].creator \in s.C[j]
    /\ s.Z[j][U[y].creator] \in Lane(U, y)
    /\ b \notin Line(B, U[y].block)

\* Validators that are exposed, as many as it takes for a deserter of level j.
Price(s, j, weight) == Overlap(s) * (Pow2[j] - 1) <= Pow2[j] * weight
Paid(U, s, j, y) ==
    \E G \in SUBSET Validators :
        /\ Price(s, j, Wt(G))
        /\ \A g \in G : Exposed(U, s, j, U[y].panorama, g)

\* The members of a committee are members below.
LEMMA SummitDown ==
    ASSUME NEW U, NEW B, World(U, B), NEW b, NEW s, Summit(U, B, b, s)
    PROVE  \A j \in 0 .. s.k : \A v \in s.C[j] :
               /\ v \in Validators /\ v \in s.C[0]
               /\ s.L[v] \in DOMAIN U /\ U[s.L[v]].creator = v
               /\ s.Z[j][v] \in DOMAIN U /\ U[s.Z[j][v]].creator = v
               /\ s.Z[j][v] \in Lane(U, s.L[v])
               /\ s.Z[0][v] \in Lane(U, s.Z[j][v])
<1> DEFINE Q == {j \in Nat : j <= s.k => \A v \in s.C[j] :
                     v \in s.C[0] /\ s.Z[0][v] \in Lane(U, s.Z[j][v])}
<1>0. s.k \in Nat /\ IsTree(Lanes(U))
  BY WorldFacts DEF Summit
<1>1. \A v \in s.C[0] : s.L[v] \in DOMAIN U /\ U[s.L[v]].creator = v
  BY DEF Summit
<1>2. \A j \in 0 .. s.k : \A v \in s.C[j] : s.Z[j][v] \in Lane(U, s.L[v])
  BY DEF Summit
<1>3. 0 \in Q
  <2>1. \A v \in s.C[0] : s.Z[0][v] \in DOMAIN U
    BY <1>0, <1>1, <1>2, LaneFacts
  <2>2. \A v \in s.C[0] : s.Z[0][v] \in Lane(U, s.Z[0][v])
    BY <1>0, <2>1, LaneFacts
  <2> QED
    BY <2>2
<1>4. \A j \in Nat : j \in Q => j + 1 \in Q
  <2> SUFFICES ASSUME NEW j \in Nat, j \in Q, j + 1 <= s.k, NEW v \in s.C[j + 1]
               PROVE  v \in s.C[0] /\ s.Z[0][v] \in Lane(U, s.Z[j + 1][v])
    OBVIOUS
  <2>1. j + 1 \in 1 .. s.k /\ j + 1 \in 0 .. s.k /\ j <= s.k /\ (j + 1) - 1 = j
    BY <1>0
  <2>2. v \in s.C[j] /\ s.Z[j][v] \in Lane(U, s.Z[j + 1][v])
    BY <2>1 DEF Summit
  <2>3. v \in s.C[0] /\ s.Z[0][v] \in Lane(U, s.Z[j][v])
    BY <2>1, <2>2
  <2>4. s.Z[j + 1][v] \in DOMAIN U
    BY <1>0, <1>1, <1>2, <2>1, <2>3, LaneFacts
  <2> QED
    BY <1>0, <2>2, <2>3, <2>4, LaneFacts
<1>5. Q = Nat
  <2> HIDE DEF Q
  <2>1. Q \in SUBSET Nat
    BY DEF Q
  <2> QED
    BY <1>3, <1>4, <2>1, AllNumbers
<1>6. \A j \in 0 .. s.k : \A v \in s.C[j] : v \in s.C[0] /\ s.Z[0][v] \in Lane(U, s.Z[j][v])
  <2> SUFFICES ASSUME NEW j \in 0 .. s.k, NEW v \in s.C[j]
               PROVE  v \in s.C[0] /\ s.Z[0][v] \in Lane(U, s.Z[j][v])
    OBVIOUS
  <2>1. j \in Nat /\ j <= s.k
    BY <1>0
  <2> QED
    BY <1>5, <2>1
<1>7. \A j \in 0 .. s.k : \A v \in s.C[j] : v \in Validators
  BY DEF Summit
<1> HIDE DEF Q
<1> SUFFICES ASSUME NEW j \in 0 .. s.k, NEW v \in s.C[j]
             PROVE  s.Z[j][v] \in DOMAIN U /\ U[s.Z[j][v]].creator = v
  BY <1>1, <1>2, <1>6, <1>7
<1>8. s.L[v] \in DOMAIN U /\ U[s.L[v]].creator = v /\ s.Z[j][v] \in Lane(U, s.L[v])
  BY <1>1, <1>2, <1>6
<1>9. Cites(U, B, s.L[v])
  BY <1>8, WorldFacts
<1>10. U[s.Z[j][v]].creator = v
  BY <1>8, <1>9 DEF Cites
<1> QED
  BY <1>0, <1>8, <1>10, LaneFacts

\* Exposed validators stay so.
LEMMA ExposedLater ==
    ASSUME NEW U, NEW B, World(U, B), NEW b, NEW s, Summit(U, B, b, s), NEW j \in 0 .. s.k,
           NEW p, NEW q, AtLeast(U, p, q), NEW g \in Validators, Exposed(U, s, j, q, g),
           q[g] \in DOMAIN U \cup {None, Faulty}
    PROVE  Exposed(U, s, j, p, g)
<1>0. IsTree(Lanes(U)) /\ DOMAIN U \subseteq Hashes /\ None \notin DOMAIN U /\ Faulty \notin DOMAIN U
  BY WorldFacts
<1>1. CASE p[g] = Faulty
  BY <1>1 DEF Exposed
<1>2. CASE p[g] # Faulty
  <2>1. q[g] # None
    BY ObservationAssumption DEF Exposed, IsCorrect
  <2>2. p[g] \in DOMAIN U /\ q[g] \in Lane(U, p[g])
    BY <1>2, <2>1 DEF AtLeast
  <2>3. q[g] \in DOMAIN U
    BY <1>0, <2>2, LaneFacts
  <2>4. /\ g \in s.C[0] /\ Apart(U, q[g], s.L[g])
        /\ g \in s.C[j] => Apart(U, q[g], s.Z[j][g])
    BY <1>0, <2>3 DEF Exposed
  <2>5. s.L[g] \in DOMAIN U /\ (g \in s.C[j] => s.Z[j][g] \in DOMAIN U)
    <3>1. 0 \in 0 .. s.k
      BY DEF Summit
    <3> QED
      BY <2>4, <3>1, SummitDown
  <2>6. Apart(U, p[g], s.L[g]) /\ (g \in s.C[j] => Apart(U, p[g], s.Z[j][g]))
    BY <1>0, <2>2, <2>3, <2>4, <2>5, ApartStays
  <2>7. IsCorrect(p[g])
    BY <1>0, <2>2 DEF IsCorrect
  <2> QED
    BY <2>4, <2>6, <2>7 DEF Exposed
<1> QED
  BY <1>1, <1>2

\* And above.
LEMMA ExposedAbove ==
    ASSUME NEW U, NEW B, World(U, B), NEW b, NEW s, Summit(U, B, b, s), NEW j \in 1 .. s.k,
           NEW p, NEW g \in Validators, Exposed(U, s, j - 1, p, g), IsCorrect(p[g]) => p[g] \in DOMAIN U
    PROVE  Exposed(U, s, j, p, g)
<1>0. IsTree(Lanes(U)) /\ DOMAIN U \subseteq Hashes
  BY WorldFacts
<1>1. s.k \in Nat /\ j \in 0 .. s.k /\ j - 1 \in 0 .. s.k
  BY DEF Summit
<1> SUFFICES ASSUME p[g] # Faulty, g \in s.C[j] PROVE Apart(U, p[g], s.Z[j][g])
  BY DEF Exposed
<1>2. g \in s.C[j - 1] /\ s.Z[j - 1][g] \in Lane(U, s.Z[j][g])
  BY DEF Summit
<1>3. p[g] \in DOMAIN U /\ Apart(U, p[g], s.Z[j - 1][g])
  BY <1>2 DEF Exposed
<1>4. s.Z[j][g] \in DOMAIN U /\ s.Z[j - 1][g] \in DOMAIN U
  BY <1>1, <1>2, SummitDown
<1>5. Apart(U, s.Z[j - 1][g], p[g])
  BY <1>3 DEF Apart
<1> QED
  BY <1>0, <1>2, <1>3, <1>4, <1>5, ApartStays

\* The arithmetic of the levels.
LEMMA PriceStep ==
    ASSUME NEW s, Overlap(s) \in Nat, NEW j \in Nat, NEW g \in Nat, NEW w \in Nat,
           Price(s, j, g), Overlap(s) + g <= w + w
    PROVE  Price(s, j + 1, w)
<1> DEFINE d == Overlap(s)
           P == Pow2[j]
<1>1. P \in Nat /\ P > 0 /\ Pow2[j + 1] = P + P
  BY PowIs, PowGrows
<1>2. d * (P - 1) <= P * g
  BY DEF Price
<1>3. d \in Nat /\ d + g <= w + w
  OBVIOUS
<1> HIDE DEF d, P
<1>4. P * (d + g) <= P * (w + w)
  BY <1>1, <1>3
<1>5. P * (d + g) = P * d + P * g /\ P * (w + w) = (P + P) * w
  BY <1>1, <1>3
<1>6. d * (P - 1) = P * d - d /\ d * ((P + P) - 1) = P * d + P * d - d
  BY <1>1, <1>3
<1>7. P * d \in Nat /\ P * g \in Nat /\ (P + P) * w \in Nat
  BY <1>1, <1>3
<1>8. d * ((P + P) - 1) <= (P + P) * w
  <2> DEFINE a == P * d
             e == P * g
             f == (P + P) * w
  <2>1. a \in Nat /\ e \in Nat /\ f \in Nat /\ a + e <= f /\ a - d <= e
    BY <1>2, <1>4, <1>5, <1>6, <1>7
  <2> HIDE DEF a, e, f
  <2>2. a + a - d <= f
    BY <1>3, <2>1
  <2> QED
    BY <1>6, <2>2 DEF a, f
<1> QED
  BY <1>1, <1>8 DEF Price, d

-----------------------------------------------------------------------------
(* What it takes to desert a summit.                                       *)

\* The members of Q that the panorama p has seen vote for something else than b.
Deserters(U, B, b, p, Q) == {w \in Q : IsCorrect(p[w]) /\ b \notin Line(B, U[p[w]].block)}

\* If b is not chosen then deserters or faulty validators have made up for the
\* votes of the quorum.
LEMMA NotChosen ==
    ASSUME NEW U, NEW B, IsState(U, B), NEW p, Knows(U, p), NEW b \in DOMAIN B,
           NEW Q \in SUBSET Validators, \A w \in Q : p[w] = Faulty \/ IsCorrect(p[w]),
           ~ (Choice(U, B, p) \in DOMAIN B /\ b \in Line(B, Choice(U, B, p)))
    PROVE  Wt(Q) + Wt(Q) - TotalWeight
               <= Wt(Deserters(U, B, b, p, Q)) + Wt(Deserters(U, B, b, p, Q)) + Wt(FaultyIn(p))
<1> DEFINE D == Deserters(U, B, b, p, Q)
           F == FaultyIn(p)
           K == CorrectIn(p)
           S == (Q \ D) \ F
<1>1. /\ D \in SUBSET Validators /\ F \in SUBSET Validators /\ K \in SUBSET Validators
      /\ S \in SUBSET Validators
  BY DEF Deserters, FaultyIn, CorrectIn
<1>2. S \subseteq K /\ \A v \in S : b \in Line(B, U[p[v]].block)
  BY DEF Deserters, FaultyIn, CorrectIn
<1>3. F \cap K = {}
  BY ObservationAssumption DEF FaultyIn, CorrectIn, IsCorrect
<1>4. Q \subseteq S \cup (D \cup F) /\ S \cap (D \cup F) = {} /\ D \cap F = {}
  BY <1>3 DEF Deserters, FaultyIn, CorrectIn
<1> HIDE DEF D, F, K, S
<1>5. ~ (Wt(S) + Wt(S) > Wt(K))
  BY <1>2, MajorityOfPanorama DEF K
<1>6. Wt(Q) <= Wt(S) + Wt(D) + Wt(F)
  <2>1. S \cup (D \cup F) \in SUBSET Validators /\ D \cup F \in SUBSET Validators
    BY <1>1
  <2>2. Wt(Q) <= Wt(S \cup (D \cup F)) /\ Wt(S \cup (D \cup F)) = Wt(S) + Wt(D \cup F)
        /\ Wt(D \cup F) = Wt(D) + Wt(F)
    BY <1>1, <1>4, <2>1, WtOK
  <2>3. Wt(S) \in Nat /\ Wt(D) \in Nat /\ Wt(F) \in Nat
    BY <1>1, WtOK
  <2> QED
    BY <2>2, <2>3
<1>7. Wt(F) + Wt(K) <= TotalWeight
  <2>1. F \cup K \in SUBSET Validators
    BY <1>1
  <2> QED
    BY <1>1, <1>3, <2>1, WtOK
<1>8. /\ Wt(S) \in Nat /\ Wt(D) \in Nat /\ Wt(F) \in Nat /\ Wt(K) \in Nat /\ Wt(Q) \in Nat
      /\ TotalWeight \in Nat
  BY <1>1, WtOK
<1>9. Wt(Q) + Wt(Q) - TotalWeight <= Wt(D) + Wt(D) + Wt(F)
  BY <1>5, <1>6, <1>7, <1>8
<1> QED
  BY <1>9 DEF D, F

\* A greater weight pays too.
LEMMA PriceGrows ==
    ASSUME NEW s, NEW j \in Nat, NEW g \in Nat, NEW w \in Nat, Overlap(s) \in Nat,
           Price(s, j, g), g <= w
    PROVE  Price(s, j, w)
<1> DEFINE P == Pow2[j]
           d == Overlap(s)
<1>1. P \in Nat
  BY PowIs
<1>2. d * (P - 1) <= P * g /\ d \in Nat
  BY DEF Price
<1> HIDE DEF P, d
<1>3. P * g <= P * w /\ P * g \in Nat /\ P * w \in Nat /\ d * (P - 1) \in Int
  BY <1>1, <1>2
<1>4. d * (P - 1) <= P * w
  BY <1>2, <1>3
<1> QED
  BY <1>4 DEF Price, P, d

\* The weight of the overlap of two quorums pays the price at every level.
LEMMA PriceOfAll ==
    ASSUME NEW s, NEW j \in Nat, NEW w \in Nat, Overlap(s) \in Nat, Overlap(s) <= w
    PROVE  Price(s, j, w)
<1> DEFINE P == Pow2[j]
           d == Overlap(s)
<1>1. P \in Nat /\ d \in Nat /\ d <= w
  BY PowIs
<1> HIDE DEF P, d
<1>2. d * (P - 1) = P * d - d /\ P * d <= P * w /\ P * d \in Nat /\ P * w \in Nat
  BY <1>1
<1>3. d * (P - 1) <= P * w
  BY <1>1, <1>2
<1> QED
  BY <1>3 DEF Price, P, d

\* What the panorama of a deserter of level j has seen of level j - 1.
LEMMA DeserterSees ==
    ASSUME NEW U, NEW B, World(U, B), NEW b, NEW s, Summit(U, B, b, s), NEW j \in 1 .. s.k,
           NEW y \in DOMAIN U, Deserts(U, B, b, s, j, y),
           NEW w \in s.C[j], Sees(U, s.Z[j][U[y].creator], w, s.Z[j - 1][w])
    PROVE  \/ U[y].panorama[w] = Faulty
           \/ /\ U[y].panorama[w] \in DOMAIN U
              /\ s.Z[j - 1][w] \in Lane(U, U[y].panorama[w])
<1> DEFINE v == U[y].creator
           p == U[y].panorama
           z == s.Z[j][v]
           x == s.Z[j - 1][w]
<1>0. /\ IsTree(Lanes(U)) /\ None \notin DOMAIN U /\ Faulty \notin DOMAIN U
      /\ s.k \in Nat /\ j \in 0 .. s.k /\ j - 1 \in 0 .. s.k
  BY WorldFacts DEF Summit
<1>1. v \in s.C[j] /\ z \in Lane(U, y) /\ b \notin Line(B, U[y].block)
  BY DEF Deserts
<1>2. /\ z \in DOMAIN U /\ U[z].creator = v /\ v \in s.C[0] /\ z \in Lane(U, s.L[v])
      /\ s.Z[0][v] \in Lane(U, z)
  BY <1>0, <1>1, SummitDown
<1>3. w \in s.C[j - 1] /\ w \in Validators
  BY DEF Summit
<1>4. x \in DOMAIN U /\ U[x].creator = w
  BY <1>0, <1>3, SummitDown
<1>5. z # y
  <2>1. b \in Line(B, U[z].block)
    BY <1>2 DEF Summit
  <2> QED
    BY <1>1, <2>1
<1>6. Cites(U, B, y) /\ Cites(U, B, z)
  BY <1>2, WorldFacts
<1> HIDE DEF v, p, z, x
<1>7. p[v] \in DOMAIN U /\ z \in Lane(U, p[v])
  <2>1. y \in DOMAIN Lanes(U) /\ Parent(Lanes(U), y) = IF IsCorrect(p[v]) THEN p[v] ELSE None
    BY <1>6 DEF Cites, Lanes, p, v
  <2>2. Lane(U, y) = {y} \cup IF Parent(Lanes(U), y) = None THEN {}
                              ELSE Lane(U, Parent(Lanes(U), y))
    BY <1>0, <2>1, LineOfParent DEF Lane
  <2>3. Parent(Lanes(U), y) # None /\ z \in Lane(U, Parent(Lanes(U), y))
    BY <1>1, <1>5, <2>2
  <2>4. IsCorrect(p[v]) /\ z \in Lane(U, p[v])
    BY <2>1, <2>3
  <2>5. v \in Validators
    BY WorldFacts DEF v
  <2> QED
    BY <2>4, <2>5, WorldFacts DEF p
<1>8. AtLeast(U, p, U[z].panorama)
  BY <1>1, <1>6 DEF Cites, p
<1>9. x \in Lane(U, z) \/ (IsCorrect(U[z].panorama[w]) /\ x \in Lane(U, U[z].panorama[w]))
  BY DEF Sees, x, z, v
<1>10. CASE x \in Lane(U, z)
  <2>1. w = v
    BY <1>2, <1>4, <1>6, <1>10 DEF Cites
  <2>2. x \in Lane(U, p[v])
    BY <1>0, <1>7, <1>10, LaneFacts
  <2> QED
    BY <1>7, <2>1, <2>2 DEF p, x
<1>11. CASE IsCorrect(U[z].panorama[w]) /\ x \in Lane(U, U[z].panorama[w])
  <2>1. U[z].panorama[w] \in DOMAIN U
    BY <1>2, <1>3, <1>11, WorldFacts
  <2>2. p[w] = Faulty \/ (p[w] \in DOMAIN U /\ U[z].panorama[w] \in Lane(U, p[w]))
    BY <1>0, <1>3, <1>8, <2>1 DEF AtLeast
  <2>3. CASE p[w] = Faulty
    BY <2>3 DEF p
  <2>4. CASE p[w] \in DOMAIN U /\ U[z].panorama[w] \in Lane(U, p[w])
    <3>1. x \in Lane(U, p[w])
      BY <1>0, <1>11, <2>4, LaneFacts
    <3> QED
      BY <2>4, <3>1 DEF p, x
  <2> QED
    BY <2>2, <2>3, <2>4
<1> QED
  BY <1>9, <1>10, <1>11

\* Nobody has no weight.
LEMMA WtNone == Wt({}) = 0
  BY SumIs, FS_EmptySet DEF Wt, Numbers

\* A deserter of level j pays, if the deserters that it cites do.
LEMMA PaidStep ==
    ASSUME NEW U, NEW B, World(U, B), NEW b, NEW s, Summit(U, B, b, s), NEW j \in 1 .. s.k,
           NEW y \in DOMAIN U, Deserts(U, B, b, s, j, y),
           \A w \in CorrectIn(U[y].panorama) : \A i \in 0 .. s.k :
               Deserts(U, B, b, s, i, U[y].panorama[w]) => Paid(U, s, i, U[y].panorama[w])
    PROVE  Paid(U, s, j, y)
<1> DEFINE v == U[y].creator
           p == U[y].panorama
           Q == {w \in s.C[j] : Sees(U, s.Z[j][v], w, s.Z[j - 1][w])}
           D == Deserters(U, B, b, p, Q)
           F == FaultyIn(p)
<1>0. /\ IsTree(Lanes(U)) /\ None \notin DOMAIN U /\ Faulty \notin DOMAIN U
      /\ s.k \in Nat /\ j \in 0 .. s.k /\ j - 1 \in 0 .. s.k /\ j \in Nat /\ j - 1 \in Nat
      /\ b \in DOMAIN B /\ IsState(U, B) /\ IsTree(B)
  BY WorldFacts DEF Summit
<1>1. v \in s.C[j] /\ s.Z[j][v] \in Lane(U, y) /\ b \notin Line(B, U[y].block)
  BY DEF Deserts
<1>2. Q \in SUBSET Validators /\ Wt(Q) >= s.q /\ s.q \in Nat
  BY <1>1 DEF Summit
<1>3. \A w \in Q : p[w] = Faulty \/ (p[w] \in DOMAIN U /\ s.Z[j - 1][w] \in Lane(U, p[w]))
  BY DeserterSees
<1>4. /\ Knows(U, p) /\ Cites(U, B, y) /\ U[y].block \in DOMAIN B
      /\ \A w \in Validators : p[w] \in DOMAIN U \cup {None, Faulty}
      /\ \A w \in Validators : IsCorrect(p[w]) <=> p[w] \in DOMAIN U
  BY WorldFacts
<1>5. \A w \in Q : w \in s.C[j] /\ w \in s.C[j - 1] /\ w \in Validators /\ w \in s.C[0]
                   /\ s.Z[j - 1][w] \in DOMAIN U /\ s.Z[j][w] \in DOMAIN U /\ s.L[w] \in DOMAIN U
                   /\ s.Z[j][w] \in Lane(U, s.L[w]) /\ s.Z[0][w] \in Lane(U, s.Z[j - 1][w])
  <2> SUFFICES ASSUME NEW w \in Q
               PROVE  w \in s.C[j] /\ w \in s.C[j - 1] /\ w \in Validators /\ w \in s.C[0]
                   /\ s.Z[j - 1][w] \in DOMAIN U /\ s.Z[j][w] \in DOMAIN U /\ s.L[w] \in DOMAIN U
                   /\ s.Z[j][w] \in Lane(U, s.L[w]) /\ s.Z[0][w] \in Lane(U, s.Z[j - 1][w])
    OBVIOUS
  <2>1. w \in s.C[j] /\ w \in s.C[j - 1]
    BY DEF Summit
  <2> QED
    BY <1>0, <2>1, SummitDown
<1>6. Overlap(s) <= Wt(D) + Wt(D) + Wt(F)
  <2>1. ~ (Choice(U, B, p) \in DOMAIN B /\ b \in Line(B, Choice(U, B, p)))
    <3> SUFFICES ASSUME Choice(U, B, p) \in DOMAIN B, b \in Line(B, Choice(U, B, p)) PROVE FALSE
      OBVIOUS
    <3>1. Choice(U, B, p) \in Line(B, U[y].block)
      BY <1>4 DEF Cites
    <3> QED
      BY <1>0, <1>1, <1>4, <3>1, LineFacts
  <2>2. \A w \in Q : p[w] = Faulty \/ IsCorrect(p[w])
    BY <1>3, <1>4, <1>5
  <2> HIDE DEF Q, p
  <2>3. Wt(Q) + Wt(Q) - TotalWeight <= Wt(D) + Wt(D) + Wt(F)
    BY <1>0, <1>2, <1>4, <2>1, <2>2, NotChosen
  <2>4. Wt(D) \in Nat /\ Wt(F) \in Nat /\ Wt(Q) \in Nat /\ TotalWeight \in Nat
    <3>1. D \in SUBSET Validators /\ F \in SUBSET Validators
      BY <1>2 DEF Deserters, FaultyIn
    <3> QED
      BY <1>2, <3>1, WtOK
  <2> QED
    BY <1>2, <2>3, <2>4 DEF Overlap
<1>7. /\ D \subseteq Q /\ D \in SUBSET Validators /\ F \in SUBSET Validators /\ D \cap F = {}
      /\ \A w \in D : IsCorrect(p[w]) /\ b \notin Line(B, U[p[w]].block)
      /\ \A w \in F : p[w] = Faulty
  <2>1. D \subseteq Q /\ F \in SUBSET Validators /\ (\A w \in F : p[w] = Faulty)
      /\ \A w \in D : IsCorrect(p[w]) /\ b \notin Line(B, U[p[w]].block)
    BY DEF Deserters, FaultyIn
  <2>2. D \cap F = {}
    BY <2>1, ObservationAssumption DEF IsCorrect
  <2> QED
    BY <1>2, <2>1, <2>2
<1>8. \A w \in D : /\ p[w] \in DOMAIN U /\ s.Z[j - 1][w] \in Lane(U, p[w]) /\ w \in CorrectIn(p)
                   /\ U[p[w]].creator = w /\ AtLeast(U, p, U[p[w]].panorama)
  <2>1. \A w \in D : p[w] # Faulty /\ w \in CorrectIn(p) /\ w \in Q
    BY <1>7, ObservationAssumption DEF CorrectIn, IsCorrect
  <2> QED
    BY <1>3, <1>4, <2>1 DEF Cites
<1> HIDE DEF Q, D, F, p, v
<1>9. ASSUME NEW i \in 0 .. s.k, NEW w \in D, NEW G \in SUBSET Validators,
             \A g \in G : Exposed(U, s, i, U[p[w]].panorama, g)
      PROVE  \A g \in G : Exposed(U, s, i, p, g)
  <2>1. AtLeast(U, p, U[p[w]].panorama) /\ p[w] \in DOMAIN U
    BY <1>8
  <2>2. \A g \in G : U[p[w]].panorama[g] \in DOMAIN U \cup {None, Faulty}
    BY <2>1, WorldFacts
  <2> QED
    BY <1>9, <2>1, <2>2, ExposedLater
<1>10. CASE \E w \in D : s.Z[j][w] \in Lane(U, p[w])
  <2>1. PICK w \in D : s.Z[j][w] \in Lane(U, p[w])
    BY <1>10
  <2>2. Deserts(U, B, b, s, j, p[w])
    BY <1>5, <1>7, <1>8, <2>1 DEF Deserts
  <2>3. Paid(U, s, j, p[w])
    BY <1>0, <1>8, <2>2 DEF p
  <2>4. PICK G \in SUBSET Validators : /\ Price(s, j, Wt(G))
                                       /\ \A g \in G : Exposed(U, s, j, U[p[w]].panorama, g)
    BY <2>3 DEF Paid
  <2>5. \A g \in G : Exposed(U, s, j, p, g)
    BY <1>0, <1>9, <2>4
  <2> QED
    BY <2>4, <2>5 DEF Paid, p
<1>11. CASE \A w \in D : s.Z[j][w] \notin Lane(U, p[w])
  <2>1. \A w \in D : Exposed(U, s, j, p, w)
    <3> SUFFICES ASSUME NEW w \in D PROVE Exposed(U, s, j, p, w)
      OBVIOUS
    <3>1. /\ w \in s.C[0] /\ s.Z[j][w] \in DOMAIN U /\ s.L[w] \in DOMAIN U /\ p[w] \in DOMAIN U
          /\ s.Z[j][w] \in Lane(U, s.L[w]) /\ s.Z[0][w] \in Lane(U, s.Z[j - 1][w])
          /\ s.Z[j - 1][w] \in Lane(U, p[w]) /\ s.Z[j - 1][w] \in DOMAIN U
      BY <1>5, <1>7, <1>8
    <3>2. s.Z[0][w] \in Lane(U, p[w])
      BY <1>0, <3>1, LaneFacts
    <3>3. p[w] \notin Lane(U, s.L[w])
      <4> SUFFICES ASSUME p[w] \in Lane(U, s.L[w]) PROVE FALSE
        OBVIOUS
      <4>1. b \in Line(B, U[p[w]].block)
        BY <3>1, <3>2 DEF Summit
      <4> QED
        BY <1>7, <4>1
    <3>4. s.L[w] \notin Lane(U, p[w])
      BY <1>0, <1>11, <3>1, LaneFacts
    <3>5. p[w] \notin Lane(U, s.Z[j][w])
      BY <1>0, <3>1, <3>3, LaneFacts
    <3>6. Apart(U, p[w], s.L[w])
      BY <3>3, <3>4 DEF Apart
    <3>7. Apart(U, p[w], s.Z[j][w])
      BY <1>11, <3>5 DEF Apart
    <3>8. IsCorrect(p[w])
      BY <1>7
    <3> QED
      BY <3>1, <3>6, <3>7, <3>8 DEF Exposed
  <2>2. \A w \in F : Exposed(U, s, j, p, w)
    BY <1>7 DEF Exposed
  <2>3. Overlap(s) \in Nat /\ Wt(D) \in Nat /\ Wt(F) \in Nat
    <3>1. Wt(D) \in Nat /\ Wt(F) \in Nat /\ TotalWeight \in Nat
      BY <1>7, WtOK
    <3>2. Overlap(s) \in Int /\ Overlap(s) > 0
      BY <1>2, <3>1 DEF Overlap, Summit
    <3> QED
      BY <3>1, <3>2
  <2>4. CASE D = {}
    <3>1. Wt(D) + Wt(D) + Wt(F) = Wt(F)
      <4> QED
        BY <2>3, <2>4, WtNone
    <3>2. Price(s, j, Wt(F))
      BY <1>0, <1>6, <2>3, <3>1, PriceOfAll
    <3> QED
      BY <1>7, <2>2, <3>2 DEF Paid, p
  <2>5. CASE D # {}
    <3>1. PICK w \in D : TRUE
      BY <2>5
    <3>2. Deserts(U, B, b, s, j - 1, p[w])
      BY <1>5, <1>7, <1>8 DEF Deserts
    <3>3. Paid(U, s, j - 1, p[w])
      BY <1>0, <1>8, <3>2 DEF p
    <3>4. PICK H \in SUBSET Validators :
                 /\ Price(s, j - 1, Wt(H))
                 /\ \A g \in H : Exposed(U, s, j - 1, U[p[w]].panorama, g)
      BY <3>3 DEF Paid
    <3>5. \A g \in H : Exposed(U, s, j - 1, p, g)
      BY <1>0, <1>9, <3>4
    <3>6. \A g \in H : Exposed(U, s, j, p, g)
      <4>1. \A g \in H : IsCorrect(p[g]) => p[g] \in DOMAIN U
        BY <1>4
      <4> QED
        BY <3>5, <4>1, ExposedAbove
    <3>7. D \cap H = {}
      <4> SUFFICES ASSUME NEW g \in D, g \in H PROVE FALSE
        OBVIOUS
      <4>1. Exposed(U, s, j - 1, p, g) /\ p[g] # Faulty /\ g \in s.C[j - 1]
            /\ s.Z[j - 1][g] \in Lane(U, p[g])
        BY <1>0, <1>5, <1>7, <1>8, <3>5
      <4> QED
        BY <4>1 DEF Exposed, Apart
    <3> DEFINE A == H \cup F
               G == A \cup D
    <3>8. A \in SUBSET Validators /\ G \in SUBSET Validators /\ H \subseteq A /\ F \subseteq A /\ A \cap D = {}
      BY <1>7, <3>7
    <3>9. \A g \in G : Exposed(U, s, j, p, g)
      BY <2>1, <2>2, <3>6
    <3> HIDE DEF G
    <3>10. Wt(A) \in Nat /\ Wt(H) \in Nat /\ Wt(G) \in Nat /\ Wt(G) = Wt(A) + Wt(D) /\ Wt(H) <= Wt(A) /\ Wt(F) <= Wt(A)
      <4> HIDE DEF A
      <4> QED
        BY <1>7, <3>8, WtOK DEF G
    <3> HIDE DEF A
    <3>11. Price(s, j - 1, Wt(A))
      BY <1>0, <2>3, <3>4, <3>10, PriceGrows
    <3>12. Overlap(s) + Wt(A) <= Wt(G) + Wt(G)
      BY <1>6, <2>3, <3>10
    <3>13. Price(s, (j - 1) + 1, Wt(G))
      BY <1>0, <2>3, <3>10, <3>11, <3>12, PriceStep
    <3>14. (j - 1) + 1 = j
      BY <1>0
    <3> QED
      BY <3>8, <3>9, <3>13, <3>14 DEF Paid, p
  <2> QED
    BY <2>4, <2>5
<1> QED
  BY <1>10, <1>11

\* Every deserter has paid.
LEMMA DesertersPay ==
    ASSUME NEW U, NEW B, World(U, B), NEW b, NEW s, Summit(U, B, b, s),
           NEW j \in 0 .. s.k, NEW y \in DOMAIN U, Deserts(U, B, b, s, j, y)
    PROVE  Paid(U, s, j, y)
<1>1. PICK rank \in [DOMAIN U -> Nat] :
          \A h \in DOMAIN U : \A v \in CorrectIn(U[h].panorama) :
              rank[U[h].panorama[v]] < rank[h]
  BY DEF World, Ordered
<1>2. s.k \in Nat /\ Overlap(s) \in Nat
  <2>1. TotalWeight \in Nat
    BY WtOK
  <2> QED
    BY <2>1 DEF Summit, Overlap
<1>3. \A x \in DOMAIN U : Paid(U, s, 0, x)
  <2>1. {} \in SUBSET Validators
    OBVIOUS
  <2>2. Wt({}) \in Nat
    BY <2>1, WtOK
  <2>3. Price(s, 0, Wt({}))
    <3>1. Pow2[0] = 1
      BY PowIs
    <3> QED
      BY <1>2, <2>2, <3>1 DEF Price
  <2> QED
    BY <2>1, <2>3 DEF Paid
<1> DEFINE Good(x) == \A i \in 0 .. s.k : Deserts(U, B, b, s, i, x) => Paid(U, s, i, x)
           T == {n \in Nat : \E x \in DOMAIN U : rank[x] = n /\ ~ Good(x)}
<1>4. ASSUME NEW x \in DOMAIN U, \A w \in CorrectIn(U[x].panorama) : Good(U[x].panorama[w])
      PROVE  Good(x)
  <2> SUFFICES ASSUME NEW i \in 0 .. s.k, Deserts(U, B, b, s, i, x) PROVE Paid(U, s, i, x)
    OBVIOUS
  <2>1. CASE i = 0
    BY <1>3, <2>1
  <2>2. CASE i # 0
    <3>1. i \in 1 .. s.k
      BY <1>2, <2>2
    <3>2. \A w \in CorrectIn(U[x].panorama) : \A m \in 0 .. s.k :
               Deserts(U, B, b, s, m, U[x].panorama[w]) => Paid(U, s, m, U[x].panorama[w])
      BY <1>4
    <3> HIDE DEF Good
    <3> QED
      BY <3>1, <3>2, PaidStep
  <2> QED
    BY <2>1, <2>2
<1>5. T = {}
  <2> SUFFICES ASSUME T # {} PROVE FALSE
    OBVIOUS
  <2>1. T \in SUBSET Nat
    OBVIOUS
  <2>2. PICK n \in T : \A m \in T : n <= m
    <3> HIDE DEF T
    <3> QED
      BY <2>1, LeastNumber
  <2>3. PICK x \in DOMAIN U : rank[x] = n /\ ~ Good(x)
    OBVIOUS
  <2> HIDE DEF Good
  <2>4. PICK w \in CorrectIn(U[x].panorama) : ~ Good(U[x].panorama[w])
    BY <1>4, <2>3
  <2>5. U[x].panorama[w] \in DOMAIN U
    <3>1. w \in Validators /\ IsCorrect(U[x].panorama[w])
      BY <2>4 DEF CorrectIn
    <3> QED
      BY <3>1, WorldFacts
  <2>6. rank[U[x].panorama[w]] < n /\ rank[U[x].panorama[w]] \in Nat /\ n \in Nat
    BY <1>1, <2>3, <2>4, <2>5
  <2>7. rank[U[x].panorama[w]] \in T
    BY <2>4, <2>5, <2>6
  <2> HIDE DEF T
  <2> QED
    BY <2>2, <2>6, <2>7
<1>6. Good(y)
  <2> HIDE DEF Good
  <2>1. rank[y] \in Nat
    BY <1>1
  <2> QED
    BY <1>5, <2>1
<1> QED
  BY <1>6

\* The panorama p has the latest unit of every validator that is not faulty.
Tops(U, p) ==
    /\ \A v \in Validators : p[v] \in DOMAIN U \cup {None, Faulty}
    /\ \A v \in CorrectIn(p) : U[p[v]].creator = v
    /\ \A h \in DOMAIN U : p[U[h].creator] # Faulty =>
           p[U[h].creator] \in DOMAIN U /\ h \in Lane(U, p[U[h].creator])
    /\ \A h \in DOMAIN U : \A v \in Validators : U[h].panorama[v] = Faulty => p[v] = Faulty

\* While the faults are below the threshold, the block of a summit stays in the choice.
LEMMA SummitChosen ==
    ASSUME NEW U, NEW B, World(U, B), NEW b, NEW s, Summit(U, B, b, s),
           NEW p, Tops(U, p), FaultyWeight(p) < Ftt
    PROVE  Choice(U, B, p) \in DOMAIN B /\ b \in Line(B, Choice(U, B, p))
<1> SUFFICES ASSUME ~ (Choice(U, B, p) \in DOMAIN B /\ b \in Line(B, Choice(U, B, p))) PROVE FALSE
  OBVIOUS
<1>a. /\ \A v \in Validators : p[v] \in DOMAIN U \cup {None, Faulty}
      /\ \A v \in CorrectIn(p) : U[p[v]].creator = v
      /\ \A h \in DOMAIN U : p[U[h].creator] # Faulty =>
             p[U[h].creator] \in DOMAIN U /\ h \in Lane(U, p[U[h].creator])
      /\ \A h \in DOMAIN U : \A v \in Validators : U[h].panorama[v] = Faulty => p[v] = Faulty
  BY DEF Tops
<1> DEFINE Q == s.C[s.k]
           D == Deserters(U, B, b, p, Q)
           F == FaultyIn(p)
           P == Pow2[s.k]
<1>0. /\ IsTree(Lanes(U)) /\ None \notin DOMAIN U /\ Faulty \notin DOMAIN U /\ DOMAIN U \subseteq Hashes
      /\ s.k \in Nat /\ s.k \in 0 .. s.k
      /\ b \in DOMAIN B /\ IsState(U, B) /\ IsTree(B)
  BY WorldFacts DEF Summit
<1>1. /\ Q \in SUBSET Validators /\ Wt(Q) >= s.q /\ s.q \in Nat
      /\ Overlap(s) * (P - 1) >= P * Ftt /\ Overlap(s) > 0
  BY <1>0 DEF Summit
<1>2. Knows(U, p)
  BY <1>0, <1>a, ObservationAssumption DEF Knows, IsCorrect
<1>3. \A w \in Q : w \in s.C[0] /\ s.L[w] \in DOMAIN U /\ U[s.L[w]].creator = w
                   /\ s.Z[s.k][w] \in Lane(U, s.L[w])
  BY <1>0, SummitDown
<1>4. \A w \in Q : p[w] = Faulty \/ (p[w] \in DOMAIN U /\ s.L[w] \in Lane(U, p[w]))
  BY <1>3, <1>a
<1>5. \A w \in Q : p[w] = Faulty \/ IsCorrect(p[w])
  BY <1>0, <1>4 DEF IsCorrect
<1>6. D \in SUBSET Validators /\ F \in SUBSET Validators /\ D \subseteq Q
  BY <1>1 DEF Deserters, FaultyIn
<1>7. /\ Wt(D) \in Nat /\ Wt(F) \in Nat /\ Wt(Q) \in Nat /\ TotalWeight \in Nat /\ Overlap(s) \in Nat
      /\ P \in Nat /\ P > 0 /\ Ftt \in Nat /\ Wt(F) < Ftt
  <2>1. Wt(D) \in Nat /\ Wt(F) \in Nat /\ Wt(Q) \in Nat /\ TotalWeight \in Nat
    BY <1>1, <1>6, WtOK
  <2>2. P \in Nat /\ P > 0
    BY <1>0, PowGrows
  <2>3. Ftt \in Nat /\ Wt(F) < Ftt
    BY TopLevelAssumption DEF FaultyWeight, Wt
  <2> QED
    BY <1>1, <2>1, <2>2, <2>3 DEF Overlap
<1> HIDE DEF P
<1>8. ~ (Overlap(s) * (P - 1) <= P * Wt(F))
  <2> DEFINE d == Overlap(s)
             f == Wt(F)
  <2>1. d \in Nat /\ f \in Nat /\ f < Ftt /\ d * (P - 1) >= P * Ftt
    BY <1>1, <1>7
  <2> HIDE DEF d, f
  <2>2. P * f < P * Ftt /\ P * f \in Nat /\ P * Ftt \in Nat /\ d * (P - 1) \in Int
    BY <1>7, <2>1
  <2>3. ~ (d * (P - 1) <= P * f)
    BY <2>1, <2>2
  <2> QED
    BY <2>3 DEF d, f
<1>9. Overlap(s) <= Wt(D) + Wt(D) + Wt(F)
  <2> HIDE DEF Q
  <2>1. Wt(Q) + Wt(Q) - TotalWeight <= Wt(D) + Wt(D) + Wt(F)
    BY <1>0, <1>1, <1>2, <1>5, NotChosen
  <2> QED
    BY <1>1, <1>7, <2>1 DEF Overlap
<1>10. CASE D = {}
  <2>1. Wt(D) = 0
    <3> QED
      BY <1>10, WtNone
  <2>2. Overlap(s) <= Wt(F)
    BY <1>7, <1>9, <2>1
  <2>3. Price(s, s.k, Wt(F))
    BY <1>0, <1>7, <2>2, PriceOfAll
  <2> QED
    BY <1>8, <2>3 DEF Price, P
<1>11. CASE D # {}
  <2>1. PICK w \in D : TRUE
    BY <1>11
  <2>2. w \in Q /\ IsCorrect(p[w]) /\ b \notin Line(B, U[p[w]].block)
    BY DEF Deserters
  <2>3. p[w] \in DOMAIN U /\ s.L[w] \in Lane(U, p[w]) /\ U[p[w]].creator = w
    <3>1. w \in CorrectIn(p)
      BY <1>1, <2>2 DEF CorrectIn
    <3> QED
      BY <1>4, <1>a, <2>2, <3>1, ObservationAssumption DEF IsCorrect
  <2>4. s.Z[s.k][w] \in Lane(U, p[w])
    BY <1>0, <1>3, <2>2, <2>3, LaneFacts
  <2>5. Deserts(U, B, b, s, s.k, p[w])
    BY <2>2, <2>3, <2>4 DEF Deserts
  <2>6. Paid(U, s, s.k, p[w])
    BY <1>0, <2>3, <2>5, DesertersPay
  <2>7. PICK G \in SUBSET Validators :
                 /\ Price(s, s.k, Wt(G))
                 /\ \A g \in G : Exposed(U, s, s.k, U[p[w]].panorama, g)
    BY <2>6 DEF Paid
  <2>8. G \subseteq F
    <3> SUFFICES ASSUME NEW g \in G PROVE p[g] = Faulty
      BY DEF FaultyIn
    <3> DEFINE x == U[p[w]].panorama[g]
    <3>1. Exposed(U, s, s.k, U[p[w]].panorama, g)
      BY <2>7
    <3>2. CASE x = Faulty
      BY <1>a, <2>3, <3>2
    <3>3. CASE x # Faulty
      <4>1. IsCorrect(x) /\ g \in s.C[0] /\ Apart(U, x, s.L[g])
        BY <3>1, <3>3 DEF Exposed
      <4>2. x \in DOMAIN U /\ g \in CorrectIn(U[p[w]].panorama) /\ Cites(U, B, p[w])
        BY <2>3, <4>1, WorldFacts DEF CorrectIn
      <4>3. U[x].creator = g
        BY <4>2 DEF Cites
      <4>4. s.L[g] \in DOMAIN U /\ U[s.L[g]].creator = g
        BY <4>1 DEF Summit
      <4> SUFFICES ASSUME p[g] # Faulty PROVE FALSE
        OBVIOUS
      <4>5. p[g] \in DOMAIN U /\ x \in Lane(U, p[g]) /\ s.L[g] \in Lane(U, p[g])
        BY <1>a, <4>2, <4>3, <4>4
      <4>6. x \in Lane(U, s.L[g]) \/ s.L[g] \in Lane(U, x)
        BY <1>0, <4>5, LaneFacts
      <4> QED
        BY <4>1, <4>6 DEF Apart
    <3> QED
      BY <3>2, <3>3
  <2>9. Wt(G) <= Wt(F) /\ Wt(G) \in Nat
    BY <1>6, <2>8, WtOK
  <2>10. Price(s, s.k, Wt(F))
    BY <1>0, <1>7, <2>7, <2>9, PriceGrows
  <2> QED
    BY <1>8, <2>10 DEF Price, P
<1> QED
  BY <1>10, <1>11

-----------------------------------------------------------------------------
(* Horizons.                                                               *)

\* The units from m on in the swimlane of h are good, and none could be added.
IsStreak(U, h, good, m) ==
    /\ m \in Nat /\ m <= U[h].seq
    /\ \A x \in Lane(U, h) : U[x].seq >= m => x \in good
    /\ \A n \in Nat : (\A x \in Lane(U, h) : U[x].seq >= n => x \in good) => m <= n

\* OldestOfStreak finds it.
LEMMA StreakIs ==
    ASSUME NEW U, IsTree(Lanes(U)), NEW h \in DOMAIN U, NEW good \in SUBSET DOMAIN U, h \in good
    PROVE  IsStreak(U, h, good, OldestOfStreak(U, h, good))
<1> DEFINE S == DOMAIN U
           Onward == [x \in S |-> Previous(U[x])]
           Stop == {x \in S : Previous(U[x]) \notin good}
           W == {x \in Lane(U, h) : \A y \in Lane(U, h) : U[y].seq >= U[x].seq => y \in good}
           oldest == CHOOSE f : f = [x \in S |-> IF Previous(U[x]) \in good THEN f[Previous(U[x])] ELSE x]
<1>1. \A x \in S : U[x].seq \in Nat /\ Lane(U, x) \subseteq S /\ x \in Lane(U, x)
  BY LaneFacts
<1>2. PICK n \in Nat : \A x \in S : U[x].seq <= n
  <2>1. PICK n \in Nat : \A x \in DOMAIN Lanes(U) : Lanes(U)[x].height <= n
    BY TreeTop
  <2>2. DOMAIN Lanes(U) = DOMAIN U /\ \A x \in DOMAIN U : Lanes(U)[x].height = U[x].seq
    BY DEF Lanes
  <2> QED
    BY <2>1, <2>2
<1>3. \A x \in S : Previous(U[x]) \in S =>
          U[x].seq # 0 /\ U[Previous(U[x])].seq = U[x].seq - 1 /\ Previous(U[x]) \in Lane(U, x)
  <2> SUFFICES ASSUME NEW x \in S, Previous(U[x]) \in S
               PROVE  U[x].seq # 0 /\ U[Previous(U[x])].seq = U[x].seq - 1 /\ Previous(U[x]) \in Lane(U, x)
    OBVIOUS
  <2> DEFINE p == Previous(U[x])
  <2>1. /\ DOMAIN Lanes(U) = DOMAIN U
        /\ \A y \in DOMAIN U : Lanes(U)[y].height = U[y].seq /\ Lanes(U)[y].skip = U[y].skip
    BY DEF Lanes
  <2>2. Parent(Lanes(U), x) = p
    BY <2>1 DEF Parent, Previous
  <2>3. p # None
    <3>1. None \notin DOMAIN Lanes(U)
      BY DEF IsTree
    <3> QED
      BY <2>1, <3>1
  <2> HIDE DEF p
  <2>4. U[x].seq # 0 /\ U[p].seq = U[x].seq - 1 /\ p \in S
    BY <2>1, <2>2, <2>3, TreeBasics
  <2>5. Lane(U, p) \subseteq Lane(U, x)
    BY <2>1, <2>2, <2>3, LineOfParent DEF Lane
  <2> QED
    BY <1>1, <2>4, <2>5 DEF p
<1>4. \A x \in S : U[x].seq # 0 => Previous(U[x]) \in S
  <2>1. /\ DOMAIN Lanes(U) = DOMAIN U
        /\ \A y \in DOMAIN U : Lanes(U)[y].height = U[y].seq /\ Lanes(U)[y].skip = U[y].skip
    BY DEF Lanes
  <2>2. \A x \in S : Parent(Lanes(U), x) = Previous(U[x])
    BY <2>1 DEF Parent, Previous
  <2> QED
    BY <2>1, <2>2, TreeBasics
<1> DEFINE rank == [x \in S |-> n - U[x].seq]
<1>5. Climbs(S, Onward, Stop, rank, n)
  <2>1. \A x \in S : rank[x] \in Nat /\ rank[x] <= n
    BY <1>1, <1>2
  <2>2. ASSUME NEW x \in S, x \notin Stop PROVE Onward[x] \in S /\ rank[Onward[x]] > rank[x]
    <3>1. Previous(U[x]) \in good /\ Previous(U[x]) \in S
      BY <2>2
    <3>2. U[x].seq # 0 /\ U[Previous(U[x])].seq = U[x].seq - 1 /\ U[x].seq \in Nat
      BY <1>1, <1>3, <3>1
    <3>3. n - U[Previous(U[x])].seq > n - U[x].seq
      BY <3>2
    <3> QED
      BY <3>1, <3>3
  <2> HIDE DEF S, Onward, Stop, rank
  <2> QED
    BY <2>1, <2>2 DEF Climbs
<1>6. \E f : f = [x \in S |-> Climb(Onward, Stop, f, x)]
  <2> HIDE DEF S, Onward, Stop, rank
  <2> QED
    BY <1>5, ClimbExists
<1>7. ASSUME NEW f
      PROVE  [x \in S |-> Climb(Onward, Stop, f, x)]
             = [x \in S |-> IF Previous(U[x]) \in good THEN f[Previous(U[x])] ELSE x]
  BY DEF Climb
<1>8. oldest = [x \in S |-> Climb(Onward, Stop, oldest, x)]
  <2>1. PICK f : f = [x \in S |-> Climb(Onward, Stop, f, x)]
    BY <1>6
  <2>2. f = [x \in S |-> IF Previous(U[x]) \in good THEN f[Previous(U[x])] ELSE x]
    <3> HIDE DEF Onward, Stop, S
    <3> QED
      BY <1>7, <2>1
  <2>3. oldest = [x \in S |-> IF Previous(U[x]) \in good THEN oldest[Previous(U[x])] ELSE x]
    <3> HIDE DEF Onward, Stop, S
    <3> QED
      BY <2>2
  <2> HIDE DEF oldest, Onward, Stop, S
  <2> QED
    BY <1>7, <2>3
<1>9. OldestOfStreak(U, h, good) = U[oldest[h]].seq
  BY DEF OldestOfStreak
<1>10. h \in W
  <2>1. \A y \in Lane(U, h) : U[y].seq >= U[h].seq => y = h
    BY <1>1, LaneFacts
  <2> QED
    BY <1>1, <2>1
<1>11. ASSUME NEW x \in W, x \notin Stop PROVE Onward[x] \in W
  <2> DEFINE p == Previous(U[x])
  <2>1. x \in Lane(U, h) /\ x \in S /\ p \in good /\ p \in S
        /\ \A y \in Lane(U, h) : U[y].seq >= U[x].seq => y \in good
    BY <1>1, <1>11
  <2>2. p \in Lane(U, x) /\ U[p].seq = U[x].seq - 1
    BY <1>3, <2>1
  <2>3. p \in Lane(U, h)
    BY <2>1, <2>2, LaneFacts
  <2> HIDE DEF p
  <2>4. ASSUME NEW y \in Lane(U, h), U[y].seq >= U[p].seq PROVE y \in good
    <3>1. U[y].seq \in Nat /\ U[x].seq \in Nat /\ U[p].seq \in Nat
      BY <1>1, <2>1, <2>3
    <3>2. CASE U[y].seq >= U[x].seq
      BY <2>1, <3>2
    <3>3. CASE U[y].seq = U[p].seq
      <4>1. y = p
        BY <2>3, <3>3, LaneFacts
      <4> QED
        BY <2>1, <4>1
    <3> QED
      BY <2>2, <2>4, <3>1, <3>2, <3>3
  <2>5. p \in W
    BY <2>3, <2>4
  <2> QED
    BY <2>1, <2>5 DEF p
<1>12. W \in SUBSET S
  BY <1>1
<1>13. oldest[h] \in W /\ oldest[h] \in Stop
  <2> HIDE DEF oldest, Onward, Stop, S, W, rank
  <2>1. \A x \in W : oldest[x] \in W /\ oldest[x] \in Stop
    BY <1>5, <1>8, <1>11, <1>12, ClimbEnds
  <2> QED
    BY <1>10, <2>1
<1> DEFINE z == oldest[h]
<1>14. /\ z \in Lane(U, h) /\ Previous(U[z]) \notin good
       /\ \A y \in Lane(U, h) : U[y].seq >= U[z].seq => y \in good
  BY <1>13
<1>15. U[z].seq \in Nat /\ U[z].seq <= U[h].seq
  <2> HIDE DEF z
  <2> QED
    BY <1>14, LaneFacts
<1> HIDE DEF z, oldest
<1>16. ASSUME NEW m \in Nat, \A x \in Lane(U, h) : U[x].seq >= m => x \in good
       PROVE  U[z].seq <= m
  <2> SUFFICES ASSUME U[z].seq > m PROVE FALSE
    BY <1>15
  <2>1. U[z].seq # 0 /\ z \in S
    BY <1>1, <1>14, <1>15
  <2> DEFINE p == Previous(U[z])
  <2>2. p \in S /\ p \in Lane(U, z) /\ U[p].seq = U[z].seq - 1
    BY <1>3, <1>4, <2>1
  <2>3. p \in Lane(U, h)
    BY <1>14, <2>2, LaneFacts
  <2>4. U[p].seq >= m
    BY <1>15, <2>2
  <2> QED
    BY <1>14, <1>16, <2>3, <2>4
<1> QED
  BY <1>9, <1>14, <1>15, <1>16 DEF IsStreak, z

\* Members see at most what was agreed.
LEMMA StreakOr ==
    ASSUME NEW U, IsTree(Lanes(U)), NEW h, NEW good \in SUBSET DOMAIN U
    PROVE  /\ OldestOfStreak(U, h, good) \in Nat \cup {None}
           /\ OldestOfStreak(U, h, good) # None <=> h \in good
           /\ h \in good => IsStreak(U, h, good, OldestOfStreak(U, h, good))
<1>1. CASE h \in good
  <2>1. IsStreak(U, h, good, OldestOfStreak(U, h, good))
    BY <1>1, StreakIs
  <2> QED
    BY <1>1, <2>1, HorizonAssumption DEF IsStreak
<1>2. CASE h \notin good
  BY <1>2 DEF OldestOfStreak
<1> QED
  BY <1>1, <1>2

\* prune_committee ends with a committee whose members see a quorum of it.
LEMMA PruneIs ==
    ASSUME NEW U, NEW pan, NEW horizon, NEW quorum, NEW committee \in SUBSET Validators
    PROVE  LET c == PruneCommittee(U, pan, horizon, quorum, committee) IN
           /\ c \subseteq committee
           /\ \A v \in c : SeenWeight(U, horizon, U[pan[v]], c) >= quorum
<1> DEFINE S == SUBSET Validators
           Kept(c) == {v \in c : SeenWeight(U, horizon, U[pan[v]], c) >= quorum}
           Onward == [c \in S |-> Kept(c)]
           Stop == {c \in S : Kept(c) = c}
           prune == CHOOSE f : f = [c \in S |-> PruneFurther(f, Kept(c), c)]
           m == Cardinality(Validators)
           rank == [c \in S |-> m - Cardinality(c)]
           W == SUBSET committee
<1>1. \A c \in S : Kept(c) \in S /\ Kept(c) \subseteq c
  OBVIOUS
<1>2. IsFiniteSet(Validators) /\ m \in Nat
  BY WtOK, FS_CardinalityType
<1> HIDE DEF Kept
<1>3. Climbs(S, Onward, Stop, rank, m)
  <2>0. \A c \in S : IsFiniteSet(c) /\ Cardinality(c) \in Nat /\ Cardinality(c) <= m
    BY <1>2, FS_Subset, FS_CardinalityType
  <2>1. \A c \in S : rank[c] \in Nat /\ rank[c] <= m
    BY <1>2, <2>0
  <2>2. ASSUME NEW c \in S, c \notin Stop PROVE Onward[c] \in S /\ rank[Onward[c]] > rank[c]
    <3>1. Onward[c] = Kept(c) /\ Kept(c) # c /\ Kept(c) \in S /\ Kept(c) \subseteq c
      BY <1>1, <2>2
    <3>2. Cardinality(Kept(c)) < Cardinality(c)
      <4>1. Cardinality(Kept(c)) <= Cardinality(c)
            /\ (Cardinality(Kept(c)) = Cardinality(c) => Kept(c) = c)
        BY <2>0, <3>1, FS_Subset
      <4> QED
        BY <2>0, <3>1, <4>1
    <3>3. rank[Kept(c)] > rank[c]
      BY <1>2, <2>0, <3>1, <3>2
    <3> QED
      BY <3>1, <3>3
  <2> HIDE DEF S, Onward, Stop, rank, m
  <2> QED
    BY <2>1, <2>2 DEF Climbs
<1>4. \E f : f = [c \in S |-> Climb(Onward, Stop, f, c)]
  <2> HIDE DEF S, Onward, Stop, rank, m
  <2> QED
    BY <1>2, <1>3, ClimbExists
<1>5. ASSUME NEW f
      PROVE  [c \in S |-> Climb(Onward, Stop, f, c)] = [c \in S |-> PruneFurther(f, Kept(c), c)]
  <2>1. ASSUME NEW c \in S PROVE Climb(Onward, Stop, f, c) = PruneFurther(f, Kept(c), c)
    <3>1. Onward[c] = Kept(c) /\ (c \in Stop <=> Kept(c) = c)
      OBVIOUS
    <3> HIDE DEF Onward, Stop
    <3> QED
      BY <3>1 DEF Climb, PruneFurther
  <2> HIDE DEF Onward, Stop, S
  <2> QED
    BY <2>1
<1>6. prune = [c \in S |-> Climb(Onward, Stop, prune, c)]
  <2>1. PICK f : f = [c \in S |-> Climb(Onward, Stop, f, c)]
    BY <1>4
  <2>2. f = [c \in S |-> PruneFurther(f, Kept(c), c)]
    <3> HIDE DEF Onward, Stop, S
    <3> QED
      BY <1>5, <2>1
  <2>3. prune = [c \in S |-> PruneFurther(prune, Kept(c), c)]
    <3> HIDE DEF Onward, Stop, S
    <3> QED
      BY <2>2
  <2> HIDE DEF prune, Onward, Stop, S
  <2> QED
    BY <1>5, <2>3
<1>7. PruneCommittee(U, pan, horizon, quorum, committee) = prune[committee]
  BY DEF PruneCommittee, Kept
<1>8. W \in SUBSET S /\ committee \in W /\ \A c \in W : c \notin Stop => Onward[c] \in W
  <2>1. \A c \in W : c \in S /\ Onward[c] = Kept(c) /\ Kept(c) \in W
    BY <1>1
  <2> QED
    BY <2>1
<1>9. prune[committee] \in W /\ prune[committee] \in Stop
  <2> HIDE DEF prune, Onward, Stop, S, W, rank, m
  <2>1. \A c \in W : prune[c] \in W /\ prune[c] \in Stop
    BY <1>2, <1>3, <1>6, <1>8, ClimbEnds
  <2> QED
    BY <1>8, <2>1
<1> DEFINE c == PruneCommittee(U, pan, horizon, quorum, committee)
<1>10. c \subseteq committee /\ Kept(c) = c
  <2> HIDE DEF prune
  <2> QED
    BY <1>7, <1>9
<1> QED
  BY <1>10 DEF Kept

\* The sequence numbers of the first units of a level.
Horizons == [Validators -> Nat \cup {None}]

\* The units that vote for b, and those that see a quorum of a horizon.
VotersOf(U, B, b) == {h \in DOMAIN U : b \in Line(B, U[h].block)}
SeersOf(U, horizon, q, c) == {h \in DOMAIN U : SeenWeight(U, horizon, U[h], c) >= q}

\* The horizons H[0] .. H[k] of a search for a summit.
AreHorizons(U, B, b, pan, k, q, H) ==
    /\ \A n \in 0 .. k : H[n] \in Horizons
    /\ \A v \in Members(H[0]) :
           IsCorrect(pan[v]) /\ IsStreak(U, pan[v], VotersOf(U, B, b), H[0][v])
    /\ \A n \in 1 .. k : \A v \in Members(H[n]) :
           /\ v \in Members(H[n - 1])
           /\ IsStreak(U, pan[v], SeersOf(U, H[n - 1], q, Members(H[n])), H[n][v])

\* Horizon::level0
LEMMA Level0Is ==
    ASSUME NEW U, NEW B, World(U, B), NEW b \in DOMAIN B, NEW pan
    PROVE  /\ Level0(U, B, pan, b) \in Horizons
           /\ \A v \in Members(Level0(U, B, pan, b)) :
                  /\ IsCorrect(pan[v])
                  /\ IsStreak(U, pan[v], VotersOf(U, B, b), Level0(U, B, pan, b)[v])
<1> DEFINE good == {h \in DOMAIN U :
                       FindAncestorProposal(B, U[h].block, B[b].height) = b}
           X == Level0(U, B, pan, b)
<1>1. good = VotersOf(U, B, b) /\ good \in SUBSET DOMAIN U
  BY DEF VotersOf, Line
<1>2. X = [v \in Validators |->
            IF IsCorrect(pan[v]) THEN OldestOfStreak(U, pan[v], good) ELSE None]
  BY DEF Level0
<1> HIDE DEF good, X
<1>3. \A v \in Validators :
          /\ OldestOfStreak(U, pan[v], good) \in Nat \cup {None}
          /\ OldestOfStreak(U, pan[v], good) # None =>
                 IsStreak(U, pan[v], good, OldestOfStreak(U, pan[v], good))
  BY <1>1, WorldFacts, StreakOr
<1>4. X \in Horizons
  BY <1>2, <1>3 DEF Horizons
<1>5. \A v \in Members(X) : IsCorrect(pan[v]) /\ IsStreak(U, pan[v], good, X[v])
  BY <1>2, <1>3 DEF Members
<1> QED
  BY <1>1, <1>4, <1>5 DEF X

\* Horizon::next
LEMMA NextIs ==
    ASSUME NEW U, NEW B, World(U, B), NEW pan, NEW horizon \in Horizons, NEW q
    PROVE  LET X == NextHorizon(U, pan, horizon, q) IN
           /\ X \in Horizons
           /\ (\A v \in Members(horizon) : pan[v] \in DOMAIN U) =>
                  \A v \in Members(X) :
                      /\ v \in Members(horizon)
                      /\ IsStreak(U, pan[v], SeersOf(U, horizon, q, Members(X)), X[v])
<1> DEFINE X == NextHorizon(U, pan, horizon, q)
           c == PruneCommittee(U, pan, horizon, q, Members(horizon))
           good == SeersOf(U, horizon, q, c)
<1>1. c \subseteq Members(horizon) /\ \A v \in c : SeenWeight(U, horizon, U[pan[v]], c) >= q
  <2>1. Members(horizon) \in SUBSET Validators
    BY DEF Members
  <2> QED
    BY <2>1, PruneIs
<1>2. X = [v \in Validators |-> IF v \in c THEN OldestOfStreak(U, pan[v], good) ELSE None]
  BY DEF NextHorizon, NextFromCommittee, SeersOf
<1>3. good \in SUBSET DOMAIN U
  BY DEF SeersOf
<1> HIDE DEF X, c
<1>4. \A v \in Validators :
          /\ OldestOfStreak(U, pan[v], good) \in Nat \cup {None}
          /\ OldestOfStreak(U, pan[v], good) # None <=> pan[v] \in good
          /\ OldestOfStreak(U, pan[v], good) # None =>
                 IsStreak(U, pan[v], good, OldestOfStreak(U, pan[v], good))
  <2> HIDE DEF good
  <2> QED
    BY <1>3, WorldFacts, StreakOr
<1>5. X \in Horizons
  <2> HIDE DEF good
  <2> QED
    BY <1>2, <1>4 DEF Horizons
<1>6. ASSUME \A v \in Members(horizon) : pan[v] \in DOMAIN U PROVE Members(X) = c
  <2>1. \A v \in c : pan[v] \in good
    BY <1>1, <1>6 DEF SeersOf
  <2> HIDE DEF good
  <2>2. \A v \in c : v \in Validators /\ X[v] # None
    BY <1>1, <1>2, <1>4, <2>1 DEF Members
  <2>3. \A v \in Members(X) : v \in c
    BY <1>2 DEF Members
  <2>4. \A v \in c : v \in Members(X)
    BY <2>2 DEF Members
  <2> QED
    BY <2>3, <2>4
<1>7. ASSUME \A v \in Members(horizon) : pan[v] \in DOMAIN U, NEW v \in Members(X)
      PROVE  /\ v \in Members(horizon)
             /\ IsStreak(U, pan[v], SeersOf(U, horizon, q, Members(X)), X[v])
  <2>1. Members(X) = c
    BY <1>6, <1>7
  <2>2. v \in c /\ v \in Validators /\ X[v] # None
    BY <2>1 DEF Members
  <2> HIDE DEF good
  <2>3. X[v] = OldestOfStreak(U, pan[v], good)
    BY <1>2, <2>2
  <2>4. IsStreak(U, pan[v], good, X[v])
    BY <1>4, <2>2, <2>3
  <2> QED
    BY <1>1, <2>1, <2>2, <2>4 DEF good
<1> QED
  BY <1>5, <1>7 DEF X

\* FinalityDetector::find_summit
LEMMA HorizonsAre ==
    ASSUME NEW U, NEW B, World(U, B), NEW b \in DOMAIN B, NEW pan, Tops(U, pan),
           NEW k \in Nat
    PROVE  /\ FindSummit(U, B, pan, k, b) \in 0 .. k
           /\ FindSummit(U, B, pan, k, b) = k =>
                  \E H : /\ AreHorizons(U, B, b, pan, k, QuorumForLvl(k), H)
                         /\ \A n \in 1 .. k : Members(H[n]) # {}
<1> DEFINE q == QuorumForLvl(k)
           a == Level0(U, B, pan, b)
           lists == [X \in Horizons |-> [n \in 1 .. k |-> NextHorizon(U, pan, X, q)]]
           H == CHOOSE f : f = [n \in 0 .. k |-> IF n = 0 THEN a ELSE NextHorizon(U, pan, f[n - 1], q)]
           Levels == {n \in 1 .. k : Members(H[n]) # {}}
<1>1. a \in Horizons
  BY Level0Is
<1>2. \A X \in Horizons : NextHorizon(U, pan, X, q) \in Horizons
  BY NextIs
<1> HIDE DEF a, q
<1>3. H = [n \in 0 .. k |-> IF n = 0 THEN a ELSE NextHorizon(U, pan, H[n - 1], q)]
  <2>1. PICK f : Follows(lists, a, f, k)
    <3> HIDE DEF lists
    <3> QED
      BY EntriesExist
  <2>2. f = [n \in 0 .. k |-> IF n = 0 THEN a ELSE lists[f[n - 1]][n]]
    BY <2>1 DEF Follows
  <2>3. \A X \in Horizons : \A n \in 1 .. k : lists[X][n] = NextHorizon(U, pan, X, q)
    OBVIOUS
  <2> HIDE DEF lists
  <2> DEFINE Q == {n \in Nat : n <= k => f[n] \in Horizons}
  <2>4. 0 \in Q
    BY <1>1, <2>2
  <2>5. ASSUME NEW n \in Nat, n \in Q PROVE n + 1 \in Q
    <3> SUFFICES ASSUME n + 1 <= k PROVE f[n + 1] \in Horizons
      OBVIOUS
    <3>1. n + 1 \in 0 .. k /\ n + 1 \in 1 .. k /\ n <= k /\ n + 1 # 0 /\ (n + 1) - 1 = n
      OBVIOUS
    <3>2. f[n] \in Horizons
      BY <2>5, <3>1
    <3>3. f[n + 1] = lists[f[n]][n + 1]
      BY <2>2, <3>1
    <3> QED
      BY <1>2, <2>3, <3>1, <3>2, <3>3
  <2>6. Q = Nat
    <3>1. Q \in SUBSET Nat
      OBVIOUS
    <3> HIDE DEF Q
    <3> QED
      BY <2>4, <2>5, <3>1, AllNumbers
  <2>7. \A n \in 0 .. k : f[n] = IF n = 0 THEN a ELSE NextHorizon(U, pan, f[n - 1], q)
    <3> SUFFICES ASSUME NEW n \in 0 .. k, n # 0 PROVE f[n] = NextHorizon(U, pan, f[n - 1], q)
      BY <2>2
    <3>1. n \in 1 .. k /\ n - 1 \in Nat /\ n - 1 <= k
      OBVIOUS
    <3>2. f[n - 1] \in Horizons
      BY <2>6, <3>1
    <3>3. f[n] = lists[f[n - 1]][n]
      BY <2>2
    <3> QED
      BY <2>3, <3>1, <3>2, <3>3
  <2>8. f = [n \in 0 .. k |-> IF n = 0 THEN a ELSE NextHorizon(U, pan, f[n - 1], q)]
    BY <2>2, <2>7
  <2> QED
    BY <2>8
<1>4. FindSummit(U, B, pan, k, b) = Cardinality(Levels)
  BY DEF FindSummit, a, q
<1> HIDE DEF H
<1>5. H[0] = a /\ \A n \in 1 .. k : H[n] = NextHorizon(U, pan, H[n - 1], q)
  <2>1. 0 \in 0 .. k /\ \A n \in 1 .. k : n \in 0 .. k /\ n # 0
    OBVIOUS
  <2> QED
    BY <1>3, <2>1
<1> DEFINE R == {n \in Nat : n <= k => /\ H[n] \in Horizons
                                       /\ \A v \in Members(H[n]) : pan[v] \in DOMAIN U}
<1>6. 0 \in R
  <2>1. \A v \in Members(a) : v \in Validators /\ IsCorrect(pan[v])
    BY Level0Is DEF Members, a
  <2>2. \A v \in Members(a) : pan[v] \in DOMAIN U
    BY <2>1, ObservationAssumption DEF Tops, IsCorrect
  <2> QED
    BY <1>1, <1>5, <2>2
<1>7. ASSUME NEW n \in Nat, n \in R PROVE n + 1 \in R
  <2> SUFFICES ASSUME n + 1 <= k PROVE /\ H[n + 1] \in Horizons
                                       /\ \A v \in Members(H[n + 1]) : pan[v] \in DOMAIN U
    OBVIOUS
  <2>1. n + 1 \in 1 .. k /\ (n + 1) - 1 = n
    OBVIOUS
  <2>2. H[n + 1] = NextHorizon(U, pan, H[n], q)
    BY <1>5, <2>1
  <2>3. H[n] \in Horizons /\ \A v \in Members(H[n]) : pan[v] \in DOMAIN U
    BY <1>7
  <2>4. \A v \in Members(H[n + 1]) : v \in Members(H[n])
    BY <2>2, <2>3, NextIs
  <2> QED
    BY <1>2, <2>2, <2>3, <2>4
<1>8. R = Nat
  <2>1. R \in SUBSET Nat
    OBVIOUS
  <2> HIDE DEF R
  <2> QED
    BY <1>6, <1>7, <2>1, AllNumbers
<1>9. \A n \in 0 .. k : H[n] \in Horizons /\ \A v \in Members(H[n]) : pan[v] \in DOMAIN U
  <2> SUFFICES ASSUME NEW n \in 0 .. k
               PROVE  H[n] \in Horizons /\ \A v \in Members(H[n]) : pan[v] \in DOMAIN U
    OBVIOUS
  <2>1. n \in Nat /\ n <= k
    OBVIOUS
  <2> QED
    BY <1>8, <2>1
<1> HIDE DEF R
<1>10. AreHorizons(U, B, b, pan, k, q, H)
  <2>1. \A v \in Members(H[0]) :
           IsCorrect(pan[v]) /\ IsStreak(U, pan[v], VotersOf(U, B, b), H[0][v])
    BY <1>5, Level0Is DEF a
  <2>2. ASSUME NEW n \in 1 .. k, NEW v \in Members(H[n])
        PROVE  /\ v \in Members(H[n - 1])
               /\ IsStreak(U, pan[v], SeersOf(U, H[n - 1], q, Members(H[n])), H[n][v])
    <3>1. n - 1 \in 0 .. k
      OBVIOUS
    <3>2. H[n - 1] \in Horizons /\ \A w \in Members(H[n - 1]) : pan[w] \in DOMAIN U
      BY <1>9, <3>1
    <3>3. H[n] = NextHorizon(U, pan, H[n - 1], q)
      BY <1>5
    <3> QED
      BY <3>2, <3>3, NextIs
  <2> QED
    BY <1>9, <2>1, <2>2 DEF AreHorizons
<1>11. IsFiniteSet(1 .. k) /\ Cardinality(1 .. k) = k /\ Levels \in SUBSET (1 .. k)
  <2>1. IsFiniteSet(1 .. k) /\ Cardinality(1 .. k) = k
    BY FS_Interval
  <2> QED
    BY <2>1
<1>12. Cardinality(Levels) \in 0 .. k /\ (Cardinality(Levels) = k => Levels = 1 .. k)
  <2> HIDE DEF Levels
  <2>1. IsFiniteSet(Levels) /\ Cardinality(Levels) <= k /\ (k = Cardinality(Levels) => 1 .. k = Levels)
    BY <1>11, FS_Subset
  <2>2. Cardinality(Levels) \in Nat
    BY <2>1, FS_CardinalityType
  <2> QED
    BY <2>1, <2>2
<1>13. Levels = 1 .. k => \A n \in 1 .. k : Members(H[n]) # {}
  OBVIOUS
<1> HIDE DEF Levels
<1> QED
  BY <1>4, <1>10, <1>12, <1>13 DEF q

\* The weight that sees a quorum, and what it has seen.
LEMMA SeenIs ==
    ASSUME NEW U, NEW B, World(U, B), NEW x \in DOMAIN U, NEW horizon, NEW c \in SUBSET Validators
    PROVE  /\ SeenWeight(U, horizon, U[x], c) = Wt({w \in c : CanSee(U, horizon, U[x], w)})
           /\ U[x].seq \in Nat
           /\ \A w \in Validators : IsCorrect(U[x].panorama[w]) =>
                  /\ U[x].panorama[w] \in DOMAIN U
                  /\ U[U[x].panorama[w]].creator = w
                  /\ U[U[x].panorama[w]].seq \in Nat
<1>1. IsTree(Lanes(U)) /\ Cites(U, B, x)
  BY WorldFacts
<1>2. U[x].seq \in Nat
  BY <1>1, LaneFacts
<1>3. \A w \in Validators : IsCorrect(U[x].panorama[w]) => U[x].panorama[w] \in DOMAIN U
  BY WorldFacts
<1>4. \A w \in Validators : IsCorrect(U[x].panorama[w]) => U[U[x].panorama[w]].creator = w
  BY <1>1 DEF Cites, CorrectIn
<1>5. \A w \in Validators : IsCorrect(U[x].panorama[w]) => U[U[x].panorama[w]].seq \in Nat
  BY <1>1, <1>3, LaneFacts
<1>6. SeenWeight(U, horizon, U[x], c) = Wt({w \in c : CanSee(U, horizon, U[x], w)})
  BY DEF SeenWeight, Wt
<1> QED
  BY <1>2, <1>3, <1>4, <1>5, <1>6

\* A unit that sees a quorum of voters for b votes for b.
LEMMA SeersVote ==
    ASSUME NEW U, NEW B, World(U, B), NEW b \in DOMAIN B, NEW pan, Tops(U, pan),
           NEW horizon \in Horizons,
           \A v \in Members(horizon) :
               IsCorrect(pan[v]) /\ IsStreak(U, pan[v], VotersOf(U, B, b), horizon[v]),
           NEW q \in Nat, q + q > TotalWeight,
           NEW c \in SUBSET Members(horizon), NEW x \in SeersOf(U, horizon, q, c)
    PROVE  x \in VotersOf(U, B, b)
<1> DEFINE v == U[x].creator
           p == U[x].panorama
           S == {w \in c : CanSee(U, horizon, U[x], w)}
<1>0. x \in DOMAIN U /\ IsTree(Lanes(U)) /\ IsState(U, B) /\ IsTree(B) /\ U[x].block \in DOMAIN B
      /\ Knows(U, p) /\ Cites(U, B, x)
  BY WorldFacts DEF SeersOf
<1>1. c \in SUBSET Validators
  BY DEF Members
<1>2. Wt(S) >= q /\ S \in SUBSET Validators /\ Wt(S) \in Nat
  <2>1. SeenWeight(U, horizon, U[x], c) = Wt(S)
    BY <1>0, <1>1, SeenIs
  <2>2. SeenWeight(U, horizon, U[x], c) >= q
    BY DEF SeersOf
  <2>3. S \in SUBSET Validators
    BY <1>1
  <2> HIDE DEF S
  <2> QED
    BY <2>1, <2>2, <2>3, WtOK
<1>3. ASSUME NEW w \in Members(horizon), NEW y \in DOMAIN U, U[y].creator = w, U[y].seq >= horizon[w]
      PROVE  b \in Line(B, U[y].block)
  <2>1. IsCorrect(pan[w]) /\ IsStreak(U, pan[w], VotersOf(U, B, b), horizon[w])
    OBVIOUS
  <2>2. pan[w] # Faulty
    BY <2>1, ObservationAssumption DEF IsCorrect
  <2>3. y \in Lane(U, pan[w])
    BY <1>3, <2>2 DEF Tops
  <2>4. y \in VotersOf(U, B, b)
    BY <1>3, <2>1, <2>3 DEF IsStreak
  <2> QED
    BY <2>4 DEF VotersOf
<1>4. CASE v \in S
  <2>1. v \in Members(horizon) /\ U[x].seq >= horizon[v]
    BY <1>4 DEF CanSee
  <2> QED
    BY <1>0, <1>3, <2>1 DEF VotersOf
<1>5. CASE v \notin S
  <2>1. ASSUME NEW w \in S PROVE w \in CorrectIn(p) /\ b \in Line(B, U[p[w]].block)
    <3>1. w \in Members(horizon) /\ w \in Validators /\ w # v /\ CanSee(U, horizon, U[x], w)
      BY <1>1, <1>5
    <3>2. IsCorrect(p[w]) /\ U[p[w]].seq >= horizon[w]
      BY <3>1 DEF CanSee
    <3>3. p[w] \in DOMAIN U /\ U[p[w]].creator = w
      BY <1>0, <1>1, <3>1, <3>2, SeenIs
    <3>4. b \in Line(B, U[p[w]].block)
      BY <1>3, <3>1, <3>2, <3>3
    <3> QED
      BY <3>1, <3>2, <3>4 DEF CorrectIn
  <2>2. CorrectIn(p) \in SUBSET Validators
    BY DEF CorrectIn
  <2>3. Wt(CorrectIn(p)) <= TotalWeight /\ Wt(CorrectIn(p)) \in Nat /\ TotalWeight \in Nat
    BY <2>2, WtOK
  <2> HIDE DEF S, p
  <2>4. Wt(S) + Wt(S) > Wt(CorrectIn(p))
    BY <1>2, <2>3
  <2>5. S \in SUBSET CorrectIn(p) /\ \A w \in S : b \in Line(B, U[p[w]].block)
    BY <2>1
  <2>6. Choice(U, B, p) \in DOMAIN B /\ b \in Line(B, Choice(U, B, p))
    BY <1>0, <2>4, <2>5, MajorityOfPanorama
  <2>7. Choice(U, B, p) \in Line(B, U[x].block)
    BY <1>0, <2>6 DEF Cites, p
  <2>8. b \in Line(B, U[x].block)
    BY <1>0, <2>6, <2>7, LineFacts
  <2> QED
    BY <1>0, <2>8 DEF VotersOf
<1> QED
  BY <1>4, <1>5

\* The levels of a summit come one after the other in every swimlane.
LEMMA HorizonsRise ==
    ASSUME NEW U, NEW B, World(U, B), NEW b \in DOMAIN B, NEW pan, Tops(U, pan),
           NEW k \in Nat, NEW q \in Nat, q + q > TotalWeight,
           NEW H, AreHorizons(U, B, b, pan, k, q, H)
    PROVE  \A n \in 1 .. k : \A v \in Members(H[n]) :
               H[n - 1][v] \in Nat /\ H[n][v] \in Nat /\ H[n - 1][v] <= H[n][v]
<1>0. /\ \A n \in 0 .. k : H[n] \in Horizons
      /\ \A v \in Members(H[0]) :
             IsCorrect(pan[v]) /\ IsStreak(U, pan[v], VotersOf(U, B, b), H[0][v])
      /\ \A n \in 1 .. k : \A v \in Members(H[n]) :
             /\ v \in Members(H[n - 1])
             /\ IsStreak(U, pan[v], SeersOf(U, H[n - 1], q, Members(H[n])), H[n][v])
  BY DEF AreHorizons
<1>1. \A n \in 0 .. k : \A v \in Members(H[n]) : v \in Validators /\ H[n][v] \in Nat
  BY <1>0 DEF Horizons, Members
<1> DEFINE Rise(n) == \A v \in Members(H[n]) : H[n - 1][v] <= H[n][v]
           Q == {n \in Nat : n + 1 <= k => Rise(n + 1)}
<1>2. 0 \in Q
  <2> SUFFICES ASSUME 1 <= k, NEW v \in Members(H[1]) PROVE H[0][v] <= H[1][v]
    OBVIOUS
  <2>0. 1 \in 1 .. k /\ 1 - 1 = 0 /\ 0 \in 0 .. k /\ 1 \in 0 .. k
    OBVIOUS
  <2>1. v \in Members(H[0]) /\ IsStreak(U, pan[v], SeersOf(U, H[0], q, Members(H[1])), H[1][v])
    BY <1>0, <2>0
  <2>2. Members(H[1]) \in SUBSET Members(H[0])
    BY <1>0, <2>0
  <2>3. \A x \in SeersOf(U, H[0], q, Members(H[1])) : x \in VotersOf(U, B, b)
    BY <1>0, <2>0, <2>2, SeersVote
  <2>4. /\ \A x \in Lane(U, pan[v]) : U[x].seq >= H[1][v] => x \in VotersOf(U, B, b)
        /\ H[1][v] \in Nat
    BY <2>1, <2>3 DEF IsStreak
  <2>5. IsStreak(U, pan[v], VotersOf(U, B, b), H[0][v])
    BY <1>0, <2>1
  <2> QED
    BY <2>4, <2>5 DEF IsStreak
<1>3. ASSUME NEW n \in Nat, n \in Q PROVE n + 1 \in Q
  <2> DEFINE m == n + 1
  <2> SUFFICES ASSUME m + 1 <= k, NEW v \in Members(H[m + 1]) PROVE H[m][v] <= H[m + 1][v]
    OBVIOUS
  <2>0. m \in 1 .. k /\ m + 1 \in 1 .. k /\ (m + 1) - 1 = m /\ m \in 0 .. k /\ m - 1 \in 0 .. k
    OBVIOUS
  <2>1. Rise(m)
    BY <1>3
  <2> HIDE DEF m
  <2>2. /\ v \in Members(H[m]) /\ IsStreak(U, pan[v], SeersOf(U, H[m], q, Members(H[m + 1])), H[m + 1][v])
        /\ IsStreak(U, pan[v], SeersOf(U, H[m - 1], q, Members(H[m])), H[m][v])
    BY <1>0, <2>0
  <2>3. Members(H[m + 1]) \subseteq Members(H[m]) /\ Members(H[m]) \subseteq Members(H[m - 1])
    BY <1>0, <2>0
  <2>4. ASSUME NEW x \in SeersOf(U, H[m], q, Members(H[m + 1]))
        PROVE  x \in SeersOf(U, H[m - 1], q, Members(H[m]))
    <3> DEFINE S == {w \in Members(H[m + 1]) : CanSee(U, H[m], U[x], w)}
               R == {w \in Members(H[m]) : CanSee(U, H[m - 1], U[x], w)}
    <3>1. x \in DOMAIN U
      BY DEF SeersOf
    <3>2. Members(H[m + 1]) \in SUBSET Validators /\ Members(H[m]) \in SUBSET Validators
      BY DEF Members
    <3>3. /\ SeenWeight(U, H[m], U[x], Members(H[m + 1])) = Wt(S)
          /\ SeenWeight(U, H[m - 1], U[x], Members(H[m])) = Wt(R)
      BY <3>1, <3>2, SeenIs
    <3>4. Wt(S) >= q
      BY <3>3 DEF SeersOf
    <3>5. S \subseteq R
      <4> SUFFICES ASSUME NEW w \in S PROVE w \in Members(H[m]) /\ CanSee(U, H[m - 1], U[x], w)
        OBVIOUS
      <4>1. w \in Members(H[m]) /\ w \in Members(H[m - 1]) /\ w \in Validators
        BY <2>3, <3>2
      <4>2. H[m - 1][w] \in Nat /\ H[m][w] \in Nat /\ H[m - 1][w] <= H[m][w]
        BY <1>1, <2>0, <2>1, <4>1
      <4>3. CanSee(U, H[m], U[x], w)
        OBVIOUS
      <4>4. H[m - 1][w] # None
        BY <4>1 DEF Members
      <4>5. U[x].seq \in Nat /\ (IsCorrect(U[x].panorama[w]) => U[U[x].panorama[w]].seq \in Nat)
        BY <3>1, <3>2, <4>1, SeenIs
      <4> HIDE DEF S
      <4>6. CASE U[x].creator = w
        <5>1. U[x].seq >= H[m][w]
          BY <4>3, <4>6 DEF CanSee
        <5>2. U[x].seq >= H[m - 1][w]
          BY <4>2, <4>5, <5>1
        <5> QED
          BY <4>1, <4>4, <4>6, <5>2 DEF CanSee
      <4>7. CASE U[x].creator # w
        <5>1. IsCorrect(U[x].panorama[w]) /\ U[U[x].panorama[w]].seq >= H[m][w]
          BY <4>3, <4>7 DEF CanSee
        <5>2. U[U[x].panorama[w]].seq >= H[m - 1][w]
          BY <4>2, <4>5, <5>1
        <5> QED
          BY <4>1, <4>4, <4>7, <5>1, <5>2 DEF CanSee
      <4> QED
        BY <4>6, <4>7
    <3>6. R \in SUBSET Validators
      BY <3>2
    <3> HIDE DEF S, R
    <3>7. Wt(S) <= Wt(R) /\ Wt(S) \in Nat /\ Wt(R) \in Nat
      <4>1. S \in SUBSET Validators
        BY <3>5, <3>6
      <4> QED
        BY <3>5, <3>6, <4>1, WtOK
    <3>8. Wt(R) >= q
      BY <3>4, <3>7
    <3> QED
      BY <3>1, <3>3, <3>8 DEF SeersOf
  <2>5. /\ \A x \in Lane(U, pan[v]) : U[x].seq >= H[m + 1][v] => x \in SeersOf(U, H[m - 1], q, Members(H[m]))
        /\ H[m + 1][v] \in Nat
    BY <2>2, <2>4 DEF IsStreak
  <2> QED
    BY <2>2, <2>5 DEF IsStreak
<1>4. Q = Nat
  <2>1. Q \in SUBSET Nat
    OBVIOUS
  <2> HIDE DEF Q
  <2> QED
    BY <1>2, <1>3, <2>1, AllNumbers
<1> SUFFICES ASSUME NEW n \in 1 .. k, NEW v \in Members(H[n])
             PROVE  H[n - 1][v] \in Nat /\ H[n][v] \in Nat /\ H[n - 1][v] <= H[n][v]
  OBVIOUS
<1>5. n - 1 \in Nat /\ (n - 1) + 1 = n /\ n <= k /\ n - 1 \in 0 .. k /\ n \in 0 .. k
  OBVIOUS
<1>6. Rise(n)
  <2>1. n - 1 \in Q
    <3> HIDE DEF Q
    <3> QED
      BY <1>4, <1>5
  <2>2. Rise((n - 1) + 1)
    BY <1>5, <2>1
  <2> HIDE DEF Rise
  <2> QED
    BY <1>5, <2>2
<1>7. v \in Members(H[n - 1])
  BY <1>0
<1> QED
  BY <1>1, <1>5, <1>6, <1>7

\* Rounding up.
LEMMA RoundedUp ==
    ASSUME NEW a \in Nat, NEW m \in Nat \ {0}
    PROVE  LET q == (a + m - 1) \div m IN q \in Nat /\ m * q >= a
<1> DEFINE x == a + m - 1
           q == x \div m
<1>1. x \in Nat
  OBVIOUS
<1> HIDE DEF x
<1>2. q \in Int /\ x = (m * q) + (x % m) /\ x % m \in 0 .. m - 1
  <2>1. x % m \in 0 .. m - 1
    BY <1>1
  <2>2. q \in Int
    BY <1>1
  <2>3. x = (m * (x \div m)) + (x % m)
    BY <1>1
  <2> QED
    BY <2>1, <2>2, <2>3
<1>3. q >= 0
  BY <1>1, <1>2
<1> HIDE DEF q
<1> DEFINE y == m * q
           r == x % m
<1>4. y \in Int
  BY <1>2
<1>5. y >= a
  <2>1. x = y + r /\ r \in 0 .. m - 1 /\ x = a + m - 1
    BY <1>2 DEF x
  <2> HIDE DEF y, r
  <2> QED
    BY <1>4, <2>1
<1> QED
  BY <1>2, <1>3, <1>5 DEF q, x

\* FinalityDetector::quorum_for_lvl
LEMMA QuorumIs ==
    ASSUME NEW k \in Nat \ {0}
    PROVE  LET q == QuorumForLvl(k) IN
           /\ q \in Nat
           /\ q + q > TotalWeight
           /\ (q + q - TotalWeight) * (Pow2[k] - 1) >= Pow2[k] * Ftt
<1> DEFINE P == Pow2[k]
           T == TotalWeight
           q == QuorumForLvl(k)
           a == (P - 1) * T + P * Ftt
           m == 2 * P - 2
<1>1. P \in Nat /\ P >= 2 /\ T \in Nat /\ Ftt \in Nat /\ Ftt >= 1
  BY PowGrows, WtOK, TopLevelAssumption
<1>2. q = ((P - 1) * T + P * Ftt + 2 * P - 3) \div (2 * P - 2)
  BY DEF QuorumForLvl
<1> HIDE DEF P, T, q
<1>3. (P - 1) * T \in Nat /\ P * Ftt \in Nat /\ P * Ftt >= 1
  <2>1. P - 1 \in Nat
    BY <1>1
  <2>2. (P - 1) * T \in Nat /\ P * Ftt \in Nat
    BY <1>1, <2>1
  <2>3. P * Ftt >= P * 1
    BY <1>1
  <2> QED
    BY <1>1, <2>2, <2>3
<1>4. a \in Nat /\ m \in Nat \ {0}
  BY <1>1, <1>3
<1>5. (P - 1) * T + P * Ftt + 2 * P - 3 = a + m - 1
  <2> DEFINE d == (P - 1) * T
             e == P * Ftt
  <2>1. d \in Nat /\ e \in Nat
    BY <1>3
  <2> HIDE DEF d, e
  <2>2. d + e + 2 * P - 3 = (d + e) + (2 * P - 2) - 1
    BY <1>1, <2>1
  <2> QED
    BY <2>2 DEF d, e
<1>6. q = (a + m - 1) \div m
  BY <1>2, <1>5
<1>7. q \in Nat /\ m * q >= a
  <2> HIDE DEF a, m
  <2> QED
    BY <1>4, <1>6, RoundedUp
<1>8. (q + q - T) * (P - 1) >= P * Ftt
  <2>1. m * q = (q + q) * (P - 1)
    BY <1>1, <1>7
  <2>2. (q + q - T) * (P - 1) = (q + q) * (P - 1) - (P - 1) * T
    BY <1>1, <1>7
  <2> DEFINE d == (P - 1) * T
             e == P * Ftt
             f == (q + q) * (P - 1)
  <2>3. f >= d + e
    BY <1>7, <2>1
  <2>4. d \in Nat /\ e \in Nat /\ f \in Int
    BY <1>1, <1>3, <1>7
  <2> HIDE DEF d, e, f
  <2>5. f - d >= e
    BY <2>3, <2>4
  <2> QED
    BY <2>2, <2>5 DEF d, e, f
<1>9. q + q > T
  <2> SUFFICES ASSUME q + q <= T PROVE FALSE
    BY <1>1, <1>7
  <2>1. (q + q - T) * (P - 1) <= 0
    <3>1. T - (q + q) \in Nat /\ P - 1 \in Nat
      BY <1>1, <1>7
    <3>2. (T - (q + q)) * (P - 1) \in Nat
      BY <3>1
    <3>3. (q + q - T) * (P - 1) = 0 - (T - (q + q)) * (P - 1)
      BY <1>1, <1>7
    <3> QED
      BY <3>2, <3>3
  <2> QED
    BY <1>1, <1>3, <1>7, <1>8, <2>1
<1> QED
  BY <1>7, <1>8, <1>9 DEF P, T, q

\* A unit sees the first unit of a level.
LEMMA SeesIs ==
    ASSUME NEW U, NEW B, World(U, B), NEW pan, Tops(U, pan), NEW x \in DOMAIN U,
           NEW horizon, NEW w \in Validators, pan[w] \in DOMAIN U,
           horizon[w] \in Nat, horizon[w] <= U[pan[w]].seq, CanSee(U, horizon, U[x], w)
    PROVE  Sees(U, x, w, FindInSwimlane(U, pan[w], horizon[w]))
<1> DEFINE z == FindInSwimlane(U, pan[w], horizon[w])
<1>0. IsTree(Lanes(U)) /\ Faulty \notin DOMAIN U
  BY WorldFacts
<1>1. z \in Lane(U, pan[w]) /\ U[z].seq = horizon[w]
  BY <1>0, LaneFacts
<1> HIDE DEF z
<1>2. pan[w] # Faulty
  BY <1>0
<1>3. \A y \in DOMAIN U : U[y].creator = w /\ U[y].seq >= horizon[w] => z \in Lane(U, y)
  <2> SUFFICES ASSUME NEW y \in DOMAIN U, U[y].creator = w, U[y].seq >= horizon[w]
               PROVE  z \in Lane(U, y)
    OBVIOUS
  <2>1. y \in Lane(U, pan[w])
    BY <1>2 DEF Tops
  <2>2. U[y].seq \in Nat /\ U[z].seq \in Nat /\ U[z].seq <= U[y].seq
    BY <1>0, <1>1, LaneFacts
  <2> QED
    BY <1>0, <1>1, <2>1, <2>2, LaneFacts
<1>4. CASE U[x].creator = w
  BY <1>3, <1>4 DEF CanSee, Sees, z
<1>5. CASE U[x].creator # w
  <2>1. IsCorrect(U[x].panorama[w]) /\ U[U[x].panorama[w]].seq >= horizon[w]
    BY <1>5 DEF CanSee
  <2>2. U[x].panorama[w] \in DOMAIN U /\ U[U[x].panorama[w]].creator = w
    BY <2>1, SeenIs
  <2> QED
    BY <1>3, <2>1, <2>2 DEF Sees, z
<1> QED
  BY <1>4, <1>5

\* The horizons are a summit.
LEMMA HorizonsSummit ==
    ASSUME NEW U, NEW B, World(U, B), NEW b \in DOMAIN B, NEW pan, Tops(U, pan),
           NEW k \in Nat \ {0}, NEW H, AreHorizons(U, B, b, pan, k, QuorumForLvl(k), H),
           Members(H[k]) # {}
    PROVE  \E s : Summit(U, B, b, s)
<1> DEFINE q == QuorumForLvl(k)
           C == [n \in 0 .. k |-> Members(H[n])]
           Z == [n \in 0 .. k |-> [v \in Validators |-> FindInSwimlane(U, pan[v], H[n][v])]]
           s == [k |-> k, q |-> q, C |-> C, L |-> pan, Z |-> Z]
<1>0. /\ \A n \in 0 .. k : H[n] \in Horizons
      /\ \A v \in Members(H[0]) :
             IsCorrect(pan[v]) /\ IsStreak(U, pan[v], VotersOf(U, B, b), H[0][v])
      /\ \A n \in 1 .. k : \A v \in Members(H[n]) :
             /\ v \in Members(H[n - 1])
             /\ IsStreak(U, pan[v], SeersOf(U, H[n - 1], q, Members(H[n])), H[n][v])
  BY DEF AreHorizons
<1>1. /\ q \in Nat /\ q + q > TotalWeight
      /\ (q + q - TotalWeight) * (Pow2[k] - 1) >= Pow2[k] * Ftt /\ TotalWeight \in Nat
  BY QuorumIs, WtOK
<1> HIDE DEF q
<1>2. \A n \in 1 .. k : \A v \in Members(H[n]) :
               H[n - 1][v] \in Nat /\ H[n][v] \in Nat /\ H[n - 1][v] <= H[n][v]
  BY <1>1, HorizonsRise DEF q
<1>3. IsTree(Lanes(U)) /\ Faulty \notin DOMAIN U /\ None \notin DOMAIN U
  BY WorldFacts
<1> DEFINE R == {n \in Nat : n <= k => Members(H[n]) \subseteq Members(H[0])}
<1>4. R = Nat
  <2>1. 0 \in R
    OBVIOUS
  <2>2. ASSUME NEW n \in Nat, n \in R PROVE n + 1 \in R
    <3> SUFFICES ASSUME n + 1 <= k PROVE Members(H[n + 1]) \subseteq Members(H[0])
      OBVIOUS
    <3>1. n + 1 \in 1 .. k /\ (n + 1) - 1 = n /\ n <= k
      OBVIOUS
    <3>2. Members(H[n + 1]) \subseteq Members(H[n])
      BY <1>0, <3>1
    <3> QED
      BY <2>2, <3>1, <3>2
  <2>3. R \in SUBSET Nat
    OBVIOUS
  <2> HIDE DEF R
  <2> QED
    BY <2>1, <2>2, <2>3, AllNumbers
<1>5. \A n \in 0 .. k : \A v \in Members(H[n]) :
          /\ v \in Validators /\ v \in Members(H[0])
          /\ pan[v] \in DOMAIN U /\ U[pan[v]].creator = v
          /\ H[n][v] \in Nat /\ H[n][v] <= U[pan[v]].seq
  <2> SUFFICES ASSUME NEW n \in 0 .. k, NEW v \in Members(H[n])
               PROVE  /\ v \in Validators /\ v \in Members(H[0])
                      /\ pan[v] \in DOMAIN U /\ U[pan[v]].creator = v
                      /\ H[n][v] \in Nat /\ H[n][v] <= U[pan[v]].seq
    OBVIOUS
  <2>1. n \in Nat /\ n <= k
    OBVIOUS
  <2>2. v \in Members(H[0]) /\ v \in Validators
    BY <1>4, <2>1 DEF Members
  <2>3. IsCorrect(pan[v])
    BY <1>0, <2>2
  <2>4. pan[v] \in DOMAIN U /\ U[pan[v]].creator = v
    BY <2>2, <2>3, ObservationAssumption DEF Tops, CorrectIn, IsCorrect
  <2>5. \E good : IsStreak(U, pan[v], good, H[n][v])
    <3>1. CASE n = 0
      BY <1>0, <2>2, <3>1
    <3>2. CASE n # 0
      <4>1. n \in 1 .. k
        BY <3>2
      <4> QED
        BY <1>0, <4>1
    <3> QED
      BY <3>1, <3>2
  <2> QED
    BY <2>2, <2>4, <2>5 DEF IsStreak
<1> HIDE DEF R
<1>6. \A n \in 0 .. k : C[n] = Members(H[n])
  OBVIOUS
<1>7. \A n \in 0 .. k : \A v \in C[n] :
          Z[n][v] = FindInSwimlane(U, pan[v], H[n][v])
  <2>1. \A n \in 0 .. k : \A v \in C[n] : v \in Validators
    BY <1>5, <1>6
  <2> HIDE DEF C
  <2> QED
    BY <2>1
<1> HIDE DEF C, Z
<1>8. \A n \in 0 .. k : \A v \in C[n] : Z[n][v] \in Lane(U, pan[v]) /\ U[Z[n][v]].seq = H[n][v]
  <2> SUFFICES ASSUME NEW n \in 0 .. k, NEW v \in C[n]
               PROVE  Z[n][v] \in Lane(U, pan[v]) /\ U[Z[n][v]].seq = H[n][v]
    OBVIOUS
  <2>1. pan[v] \in DOMAIN U /\ H[n][v] \in Nat /\ H[n][v] <= U[pan[v]].seq
    BY <1>5, <1>6
  <2> QED
    BY <1>3, <1>7, <2>1, LaneFacts
<1>9. \A n \in 1 .. k : n \in 0 .. k /\ n - 1 \in 0 .. k /\ C[n] \subseteq C[n - 1]
  <2> SUFFICES ASSUME NEW n \in 1 .. k PROVE n \in 0 .. k /\ n - 1 \in 0 .. k /\ C[n] \subseteq C[n - 1]
    OBVIOUS
  <2>1. n \in 0 .. k /\ n - 1 \in 0 .. k
    OBVIOUS
  <2> QED
    BY <1>0, <1>6, <2>1
<1>10. \A n \in 1 .. k : \A v \in C[n] : Z[n - 1][v] \in Lane(U, Z[n][v])
  <2> SUFFICES ASSUME NEW n \in 1 .. k, NEW v \in C[n] PROVE Z[n - 1][v] \in Lane(U, Z[n][v])
    OBVIOUS
  <2>1. v \in C[n - 1] /\ n \in 0 .. k /\ n - 1 \in 0 .. k
    BY <1>9
  <2>2. Z[n][v] \in Lane(U, pan[v]) /\ Z[n - 1][v] \in Lane(U, pan[v])
        /\ U[Z[n - 1][v]].seq = H[n - 1][v] /\ U[Z[n][v]].seq = H[n][v]
    BY <1>8, <2>1
  <2>3. H[n - 1][v] <= H[n][v]
    BY <1>2, <1>6, <2>1
  <2>4. pan[v] \in DOMAIN U
    BY <1>5, <1>6, <2>1
  <2> QED
    BY <1>3, <2>2, <2>3, <2>4, LaneFacts
<1>11. \A v \in C[0] : \A x \in Lane(U, pan[v]) :
           Z[0][v] \in Lane(U, x) => b \in Line(B, U[x].block)
  <2> SUFFICES ASSUME NEW v \in C[0], NEW x \in Lane(U, pan[v]), Z[0][v] \in Lane(U, x)
               PROVE  b \in Line(B, U[x].block)
    OBVIOUS
  <2>1. 0 \in 0 .. k
    OBVIOUS
  <2>2. pan[v] \in DOMAIN U /\ v \in Members(H[0]) /\ U[Z[0][v]].seq = H[0][v]
    BY <1>5, <1>6, <1>8, <2>1
  <2>3. x \in DOMAIN U
    BY <1>3, <2>2, LaneFacts
  <2>4. U[x].seq >= H[0][v]
    <3>1. U[Z[0][v]].seq <= U[x].seq /\ U[x].seq \in Nat /\ U[Z[0][v]].seq \in Nat
      BY <1>3, <2>3, LaneFacts
    <3> QED
      BY <2>2, <3>1
  <2>5. x \in VotersOf(U, B, b)
    BY <1>0, <2>2, <2>4 DEF IsStreak
  <2> QED
    BY <2>5 DEF VotersOf
<1>12. \A n \in 1 .. k : \A v \in C[n] :
           Wt({w \in C[n] : Sees(U, Z[n][v], w, Z[n - 1][w])}) >= q
  <2> SUFFICES ASSUME NEW n \in 1 .. k, NEW v \in C[n]
               PROVE  Wt({w \in C[n] : Sees(U, Z[n][v], w, Z[n - 1][w])}) >= q
    OBVIOUS
  <2> DEFINE x == Z[n][v]
             A == {w \in C[n] : CanSee(U, H[n - 1], U[x], w)}
             D == {w \in C[n] : Sees(U, x, w, Z[n - 1][w])}
  <2>1. n \in 0 .. k /\ n - 1 \in 0 .. k /\ C[n] \subseteq C[n - 1]
    BY <1>9
  <2>2. x \in Lane(U, pan[v]) /\ U[x].seq = H[n][v] /\ pan[v] \in DOMAIN U /\ H[n][v] \in Nat
    BY <1>5, <1>6, <1>8, <2>1
  <2> HIDE DEF x
  <2>3. x \in SeersOf(U, H[n - 1], q, C[n])
    <3>1. IsStreak(U, pan[v], SeersOf(U, H[n - 1], q, C[n]), H[n][v])
      BY <1>0, <1>6, <2>1
    <3>2. U[x].seq >= H[n][v]
      BY <2>2
    <3> QED
      BY <2>2, <3>1, <3>2 DEF IsStreak
  <2>4. x \in DOMAIN U /\ C[n] \in SUBSET Validators
    BY <1>5, <1>6, <2>1, <2>3 DEF SeersOf
  <2>5. Wt(A) >= q
    <3>1. SeenWeight(U, H[n - 1], U[x], C[n]) = Wt(A)
      BY <2>4, SeenIs
    <3> QED
      BY <2>3, <3>1 DEF SeersOf
  <2>6. A \subseteq D
    <3> SUFFICES ASSUME NEW w \in A PROVE Sees(U, x, w, Z[n - 1][w])
      OBVIOUS
    <3>1. w \in C[n - 1] /\ w \in Validators /\ CanSee(U, H[n - 1], U[x], w)
      BY <2>1, <2>4
    <3>2. pan[w] \in DOMAIN U /\ H[n - 1][w] \in Nat /\ H[n - 1][w] <= U[pan[w]].seq
      BY <1>5, <1>6, <2>1, <3>1
    <3>3. Z[n - 1][w] = FindInSwimlane(U, pan[w], H[n - 1][w])
      BY <1>7, <2>1, <3>1
    <3> QED
      BY <2>4, <3>1, <3>2, <3>3, SeesIs
  <2>7. A \in SUBSET Validators /\ D \in SUBSET Validators
    BY <2>4
  <2> HIDE DEF A, D
  <2>8. Wt(A) <= Wt(D) /\ Wt(A) \in Nat /\ Wt(D) \in Nat
    BY <2>6, <2>7, WtOK
  <2>9. Wt(D) >= q
    BY <1>1, <2>5, <2>8
  <2> QED
    BY <2>9 DEF D, x
<1>13. Wt(C[k]) >= q
  <2>1. k \in 1 .. k /\ k \in 0 .. k
    OBVIOUS
  <2>2. PICK v \in C[k] : TRUE
    BY <1>6, <2>1
  <2> DEFINE D == {w \in C[k] : Sees(U, Z[k][v], w, Z[k - 1][w])}
  <2>3. Wt(D) >= q
    BY <1>12, <2>1
  <2>4. C[k] \in SUBSET Validators /\ D \in SUBSET Validators /\ D \subseteq C[k]
    BY <1>5, <1>6, <2>1
  <2> HIDE DEF D
  <2>5. Wt(D) <= Wt(C[k]) /\ Wt(D) \in Nat /\ Wt(C[k]) \in Nat
    BY <2>4, WtOK
  <2> QED
    BY <1>1, <2>3, <2>5
<1>14. s.k = k /\ s.q = q /\ s.C = C /\ s.L = pan /\ s.Z = Z
  OBVIOUS
<1> HIDE DEF s
<1>15. \A j \in 0 .. s.k : s.C[j] \subseteq Validators
  BY <1>5, <1>6, <1>14
<1>16. \A v \in s.C[0] : s.L[v] \in DOMAIN U /\ U[s.L[v]].creator = v
  <2>1. 0 \in 0 .. k
    OBVIOUS
  <2> QED
    BY <1>5, <1>6, <1>14, <2>1
<1>17. Overlap(s) > 0 /\ Overlap(s) * (Pow2[s.k] - 1) >= Pow2[s.k] * Ftt
  <2>1. Overlap(s) = q + q - TotalWeight
    BY <1>14 DEF Overlap
  <2> QED
    BY <1>1, <1>14, <2>1
<1>18. Summit(U, B, b, s)
  BY <1>1, <1>8, <1>9, <1>10, <1>11, <1>12, <1>13, <1>14, <1>15, <1>16, <1>17 DEF Summit
<1> QED
  BY <1>18

\* The search for a summit finds one, or ends with 0.
LEMMA HasSummitIs ==
    ASSUME NEW U, NEW B, World(U, B), NEW b \in DOMAIN B, NEW pan, Tops(U, pan),
           HasSummit(U, B, pan, b)
    PROVE  \E s : Summit(U, B, b, s)
<1> DEFINE S == 0 .. TopLevel
           Found(t) == FindSummit(U, B, pan, t, b)
           Onward == [t \in S |-> Found(t)]
           Stop == {t \in S : Found(t) = t}
           rank == [t \in S |-> TopLevel - t]
           search == CHOOSE f : f = [t \in S |-> SearchFurther(f, t, Found(t))]
<1>0. TopLevel \in Nat
  BY TopLevelAssumption
<1>1. \A t \in S : t \in Nat /\ Found(t) \in 0 .. t
  <2> SUFFICES ASSUME NEW t \in S PROVE t \in Nat /\ Found(t) \in 0 .. t
    OBVIOUS
  <2>1. t \in Nat
    BY <1>0
  <2> QED
    BY <2>1, HorizonsAre
<1> HIDE DEF Found
<1>2. Climbs(S, Onward, Stop, rank, TopLevel)
  <2>1. \A t \in S : rank[t] \in Nat /\ rank[t] <= TopLevel
    BY <1>0
  <2>2. ASSUME NEW t \in S, t \notin Stop PROVE Onward[t] \in S /\ rank[Onward[t]] > rank[t]
    <3>1. Onward[t] = Found(t) /\ Found(t) # t /\ Found(t) \in 0 .. t /\ t \in Nat /\ t <= TopLevel
      BY <1>0, <1>1, <2>2
    <3>2. Found(t) \in S /\ TopLevel - Found(t) > TopLevel - t
      BY <1>0, <3>1
    <3> QED
      BY <3>1, <3>2
  <2> HIDE DEF S, Onward, Stop, rank
  <2> QED
    BY <2>1, <2>2 DEF Climbs
<1>4. \E f : f = [c \in S |-> Climb(Onward, Stop, f, c)]
  <2> HIDE DEF S, Onward, Stop, rank
  <2> QED
    BY <1>0, <1>2, ClimbExists
<1>5. ASSUME NEW f
      PROVE  [c \in S |-> Climb(Onward, Stop, f, c)] = [c \in S |-> SearchFurther(f, c, Found(c))]
  <2>1. ASSUME NEW c \in S PROVE Climb(Onward, Stop, f, c) = SearchFurther(f, c, Found(c))
    <3>1. Onward[c] = Found(c) /\ (c \in Stop <=> Found(c) = c)
      OBVIOUS
    <3> HIDE DEF Onward, Stop
    <3> QED
      BY <3>1 DEF Climb, SearchFurther
  <2> HIDE DEF Onward, Stop, S
  <2> QED
    BY <2>1
<1>6. search = [c \in S |-> Climb(Onward, Stop, search, c)]
  <2>1. PICK f : f = [c \in S |-> Climb(Onward, Stop, f, c)]
    BY <1>4
  <2>2. f = [c \in S |-> SearchFurther(f, c, Found(c))]
    <3> HIDE DEF Onward, Stop, S
    <3> QED
      BY <1>5, <2>1
  <2>3. search = [c \in S |-> SearchFurther(search, c, Found(c))]
    <3> HIDE DEF Onward, Stop, S
    <3> QED
      BY <2>2
  <2> HIDE DEF search, Onward, Stop, S
  <2> QED
    BY <1>5, <2>3
<1>7. search[TopLevel] > 0
  BY DEF HasSummit, Found
<1> DEFINE W == S
<1>8. W \in SUBSET S /\ TopLevel \in W /\ \A c \in W : c \notin Stop => Onward[c] \in W
  <2>1. TopLevel \in S
    BY <1>0
  <2>2. \A c \in S : c \notin Stop => Onward[c] \in S
    BY <1>2 DEF Climbs
  <2> QED
    BY <2>1, <2>2
<1>9. search[TopLevel] \in S /\ search[TopLevel] \in Stop
  <2> HIDE DEF search, Onward, Stop, S, rank, W
  <2> DEFINE m == TopLevel
  <2>0. m \in Nat /\ Climbs(S, Onward, Stop, rank, m)
    BY <1>0, <1>2
  <2> HIDE DEF m
  <2>1. \A c \in W : search[c] \in W /\ search[c] \in Stop
    BY <2>0, <1>6, <1>8, ClimbEnds
  <2> QED
    BY <1>8, <2>1 DEF W
<1> DEFINE k == search[TopLevel]
<1>10. k \in Nat \ {0} /\ Found(k) = k
  <2> HIDE DEF search
  <2> QED
    BY <1>0, <1>7, <1>9
<1> HIDE DEF k, search
<1>11. PICK H : /\ AreHorizons(U, B, b, pan, k, QuorumForLvl(k), H)
                /\ \A n \in 1 .. k : Members(H[n]) # {}
  <2>1. k \in Nat
    BY <1>10
  <2> QED
    BY <1>10, <2>1, HorizonsAre DEF Found
<1>12. Members(H[k]) # {}
  <2>1. k \in 1 .. k
    BY <1>10
  <2> QED
    BY <1>11, <2>1
<1> QED
  BY <1>10, <1>11, <1>12, HorizonsSummit

-----------------------------------------------------------------------------
(* The blocks that become final one after the other.                       *)

Trail(Onward, Stop, f, b) == IF b \in Stop THEN <<>> ELSE <<Onward[b]>> \o f[Onward[b]]

\* There are trails that obey their recursion.
LEMMA TrailExists ==
    ASSUME NEW S, NEW Onward, NEW Stop, NEW rank, NEW m \in Nat, Climbs(S, Onward, Stop, rank, m)
    PROVE  \E f : f = [b \in S |-> Trail(Onward, Stop, f, b)]
<1> DEFINE Upto(n) == {f \in [S -> Seq(S)] :
                          \A b \in S : rank[b] + n > m => f[b] = Trail(Onward, Stop, f, b)}
           Q == {n \in Nat : Upto(n) # {}}
<1>0. /\ \A b \in S : rank[b] \in Nat /\ rank[b] <= m
      /\ \A b \in S : b \notin Stop => Onward[b] \in S /\ rank[Onward[b]] > rank[b]
  BY DEF Climbs
<1>a. \A f \in [S -> Seq(S)] : \A b \in S : Trail(Onward, Stop, f, b) \in Seq(S)
  <2> SUFFICES ASSUME NEW f \in [S -> Seq(S)], NEW b \in S
               PROVE  Trail(Onward, Stop, f, b) \in Seq(S)
    OBVIOUS
  <2>1. CASE b \in Stop
    BY <2>1 DEF Trail
  <2>2. CASE b \notin Stop
    <3>1. Onward[b] \in S /\ f[Onward[b]] \in Seq(S)
      BY <1>0, <2>2
    <3>2. <<Onward[b]>> \o f[Onward[b]] \in Seq(S)
      BY <3>1
    <3> QED
      BY <2>2, <3>2 DEF Trail
  <2> QED
    BY <2>1, <2>2
<1>1. 0 \in Q
  <2>1. [b \in S |-> <<>>] \in Upto(0)
    <3>1. \A b \in S : ~(rank[b] + 0 > m)
      BY <1>0
    <3> QED
      BY <3>1
  <2> QED
    BY <2>1
<1>2. ASSUME NEW n \in Nat, n \in Q PROVE n + 1 \in Q
  <2>1. PICK f \in [S -> Seq(S)] : \A b \in S : rank[b] + n > m => f[b] = Trail(Onward, Stop, f, b)
    BY <1>2
  <2> DEFINE g == [b \in S |-> IF rank[b] + n > m THEN f[b] ELSE Trail(Onward, Stop, f, b)]
  <2>2. g \in [S -> Seq(S)]
    BY <1>a
  <2>3. ASSUME NEW b \in S, rank[b] + (n + 1) > m PROVE g[b] = Trail(Onward, Stop, g, b)
    <3>1. g[b] = Trail(Onward, Stop, f, b)
      BY <2>1
    <3>2. CASE b \in Stop
      BY <3>1, <3>2 DEF Trail
    <3>3. CASE b \notin Stop
      <4>1. Onward[b] \in S /\ rank[Onward[b]] > rank[b] /\ rank[Onward[b]] \in Nat /\ rank[b] \in Nat
        BY <1>0, <3>3
      <4>2. rank[Onward[b]] + n > m
        BY <2>3, <4>1
      <4>3. g[Onward[b]] = f[Onward[b]]
        BY <4>1, <4>2
      <4> HIDE DEF g
      <4> QED
        BY <3>1, <3>3, <4>3 DEF Trail
    <3> QED
      BY <3>2, <3>3
  <2>4. g \in Upto(n + 1)
    <3> HIDE DEF g
    <3> QED
      BY <2>2, <2>3
  <2> HIDE DEF Upto
  <2> QED
    BY <2>4
<1>3. Q = Nat
  <2>0. Q \in SUBSET Nat
    OBVIOUS
  <2> HIDE DEF Q
  <2> QED
    BY <1>1, <1>2, <2>0, AllNumbers
<1>4. m + 1 \in Q
  <2> HIDE DEF Q
  <2> QED
    BY <1>3
<1>5. PICK f \in [S -> Seq(S)] : \A b \in S : rank[b] + (m + 1) > m => f[b] = Trail(Onward, Stop, f, b)
  BY <1>4
<1>6. \A b \in S : f[b] = Trail(Onward, Stop, f, b)
  <2> SUFFICES ASSUME NEW b \in S PROVE f[b] = Trail(Onward, Stop, f, b)
    OBVIOUS
  <2>1. rank[b] \in Nat
    BY <1>0
  <2>2. rank[b] + (m + 1) > m
    BY <2>1
  <2> QED
    BY <1>5, <2>2
<1>7. f = [b \in S |-> Trail(Onward, Stop, f, b)]
  BY <1>6
<1> QED
  BY <1>7

\* What is before the i-th entry of the sequence q that follows b.
Before(b, q, i) == IF i = 1 THEN b ELSE q[i - 1]

\* q leads from b on, in W.
IsTrail(W, Onward, Stop, b, q) ==
    /\ q \in Seq(W)
    /\ \A i \in 1 .. Len(q) :
           Before(b, q, i) \in W \ Stop /\ q[i] = Onward[Before(b, q, i)]

\* A trail of no steps.
LEMMA EmptyTrail ==
    ASSUME NEW W, NEW Onward, NEW Stop, NEW b
    PROVE  IsTrail(W, Onward, Stop, b, <<>>)
  BY DEF IsTrail

\* A step in front of a trail.
LEMMA TrailStep ==
    ASSUME NEW W, NEW Onward, NEW Stop, NEW b \in W \ Stop, Onward[b] \in W,
           NEW q, IsTrail(W, Onward, Stop, Onward[b], q)
    PROVE  IsTrail(W, Onward, Stop, b, <<Onward[b]>> \o q)
<1> DEFINE r == <<Onward[b]>> \o q
<1>0. q \in Seq(W) /\ Len(q) \in Nat
  BY DEF IsTrail
<1>1. /\ r \in Seq(W) /\ Len(r) = Len(q) + 1 /\ r[1] = Onward[b]
      /\ \A i \in 1 .. Len(q) : r[i + 1] = q[i]
  BY <1>0
<1> HIDE DEF r
<1>2. ASSUME NEW i \in 1 .. Len(r)
      PROVE  Before(b, r, i) \in W \ Stop /\ r[i] = Onward[Before(b, r, i)]
  <2>1. CASE i = 1
    BY <1>1, <2>1 DEF Before
  <2>2. CASE i # 1
    <3> DEFINE j == i - 1
    <3>1. j \in 1 .. Len(q) /\ i = j + 1 /\ i # 1
      BY <1>0, <1>1, <2>2
    <3>2. r[i] = q[j]
      BY <1>1, <3>1
    <3>3. Before(b, r, i) = r[j]
      BY <2>2 DEF Before
    <3> HIDE DEF j
    <3>4. r[j] = Before(Onward[b], q, j)
      <4>1. CASE j = 1
        BY <1>1, <4>1 DEF Before
      <4>2. CASE j # 1
        <5>1. j - 1 \in 1 .. Len(q) /\ (j - 1) + 1 = j
          BY <1>0, <3>1, <4>2
        <5>2. r[(j - 1) + 1] = q[j - 1]
          BY <1>1, <5>1
        <5> QED
          BY <4>2, <5>1, <5>2 DEF Before
      <4> QED
        BY <4>1, <4>2
    <3> QED
      BY <3>1, <3>2, <3>3, <3>4 DEF IsTrail
  <2> QED
    BY <2>1, <2>2
<1> QED
  BY <1>1, <1>2 DEF IsTrail, r

\* The trails lead on.
LEMMA TrailLeads ==
    ASSUME NEW S, NEW Onward, NEW Stop, NEW rank, NEW m \in Nat, Climbs(S, Onward, Stop, rank, m),
           NEW f, f = [b \in S |-> Trail(Onward, Stop, f, b)],
           NEW W \in SUBSET S, \A b \in W : b \notin Stop => Onward[b] \in W
    PROVE  \A b \in W : IsTrail(W, Onward, Stop, b, f[b])
<1> DEFINE Q == {n \in Nat : \A b \in W : rank[b] + n > m => IsTrail(W, Onward, Stop, b, f[b])}
<1>0. /\ \A b \in W : b \in S /\ rank[b] \in Nat /\ rank[b] <= m
      /\ \A b \in W : b \notin Stop => Onward[b] \in W /\ rank[Onward[b]] > rank[b]
  BY DEF Climbs
<1>1. 0 \in Q
  <2>1. \A b \in W : ~(rank[b] + 0 > m)
    BY <1>0
  <2> QED
    BY <2>1
<1>2. ASSUME NEW n \in Nat, n \in Q PROVE n + 1 \in Q
  <2> SUFFICES ASSUME NEW b \in W, rank[b] + (n + 1) > m PROVE IsTrail(W, Onward, Stop, b, f[b])
    OBVIOUS
  <2>1. f[b] = Trail(Onward, Stop, f, b)
    <3>1. b \in S
      BY <1>0
    <3> QED
      BY <3>1
  <2>2. CASE b \in Stop
    <3>1. f[b] = <<>>
      BY <2>1, <2>2 DEF Trail
    <3>2. IsTrail(W, Onward, Stop, b, <<>>)
      BY EmptyTrail
    <3> QED
      BY <3>1, <3>2, Zenon
  <2>3. CASE b \notin Stop
    <3>1. Onward[b] \in W /\ rank[Onward[b]] > rank[b] /\ rank[Onward[b]] \in Nat /\ rank[b] \in Nat
      BY <1>0, <2>3
    <3>2. rank[Onward[b]] + n > m
      BY <3>1
    <3>3. IsTrail(W, Onward, Stop, Onward[b], f[Onward[b]])
      BY <1>2, <3>1, <3>2
    <3>4. f[b] = <<Onward[b]>> \o f[Onward[b]]
      BY <2>1, <2>3 DEF Trail
    <3>5. IsTrail(W, Onward, Stop, b, <<Onward[b]>> \o f[Onward[b]])
      <4> DEFINE q == f[Onward[b]]
      <4>1. IsTrail(W, Onward, Stop, Onward[b], q)
        BY <3>3
      <4> HIDE DEF q
      <4>2. IsTrail(W, Onward, Stop, b, <<Onward[b]>> \o q)
        BY <2>3, <3>1, <4>1, TrailStep
      <4> QED
        BY <4>2 DEF q
    <3> QED
      BY <3>4, <3>5, Zenon
  <2> QED
    BY <2>2, <2>3
<1>3. Q = Nat
  <2>0. Q \in SUBSET Nat
    OBVIOUS
  <2> HIDE DEF Q
  <2> QED
    BY <1>1, <1>2, <2>0, AllNumbers
<1> SUFFICES ASSUME NEW b \in W PROVE IsTrail(W, Onward, Stop, b, f[b])
  OBVIOUS
<1>4. m + 1 \in Q
  <2> HIDE DEF Q
  <2> QED
    BY <1>3
<1>5. rank[b] + (m + 1) > m
  BY <1>0
<1> QED
  BY <1>4, <1>5

\* FinalityDetector::next_finalized
LEMMA NextFinalizedIs ==
    ASSUME NEW U, NEW B, World(U, B), NEW pan, Tops(U, pan), NEW b \in DOMAIN B \cup {None},
           NextFinalized(U, B, pan, b) # None
    PROVE  LET c == Choice(U, B, pan)
               n == NextFinalized(U, B, pan, b)
           IN /\ c \in DOMAIN B /\ n \in Line(B, c) /\ n \in DOMAIN B
              /\ B[n].height \in Nat
              /\ b # None => B[n].height > B[b].height
              /\ b = None \/ b \in Line(B, c) => Parent(B, n) = b
              /\ \E s : Summit(U, B, n, s)
<1> DEFINE c == Choice(U, B, pan)
           n == NextFinalized(U, B, pan, b)
           h == NextHeight(B, b)
<1>0. IsTree(B) /\ IsState(U, B) /\ None \notin DOMAIN B
  BY WorldFacts DEF IsTree
<1>1. Knows(U, pan)
  BY ObservationAssumption DEF Tops, Knows, IsCorrect
<1>2. c \in DOMAIN B \cup {None}
  BY <1>0, <1>1, VotesOf
<1>3. n = AncestorOfChoice(B, c, h) /\ HasSummit(U, B, pan, n)
  BY DEF NextFinalized, FinalOr, NextCandidate
<1> HIDE DEF c, n
<1>4. c # None /\ c \in DOMAIN B /\ n = FindAncestorProposal(B, c, h) /\ n # None
  BY <1>2, <1>3 DEF AncestorOfChoice, n
<1>5. h \in Nat /\ (b = None => h = 0)
      /\ (b # None => b \in DOMAIN B /\ B[b].height \in Nat /\ h = B[b].height + 1)
  <2>1. CASE b = None
    BY <2>1 DEF NextHeight
  <2>2. CASE b # None
    <3>1. B[b].height \in Nat
      BY <1>0, <2>2, TreeBasics
    <3> QED
      BY <2>2, <3>1 DEF NextHeight
  <2> QED
    BY <2>1, <2>2
<1> HIDE DEF h
<1>6. B[c].height \in Nat /\ h <= B[c].height
  <2>1. B[c].height \in Nat
    BY <1>0, <1>4, TreeBasics
  <2>2. ASSUME h > B[c].height PROVE FALSE
    <3>1. FindAncestorProposal(B, c, h) = None
      BY <1>0, <1>4, <1>5, <2>2, NoneAbove
    <3> QED
      BY <1>4, <3>1
  <2> QED
    BY <1>5, <2>1, <2>2
<1>7. n \in Line(B, c) /\ B[n].height = h /\ n \in DOMAIN B
  BY <1>0, <1>4, <1>5, <1>6, LineFacts
<1>8. ASSUME b = None \/ b \in Line(B, c) PROVE Parent(B, n) = b
  <2>1. CASE b = None
    BY <1>0, <1>5, <1>7, <2>1, TreeBasics
  <2>2. CASE b # None
    <3> DEFINE p == Parent(B, n)
    <3>1. p \in DOMAIN B /\ B[p].height = B[n].height - 1
      BY <1>0, <1>5, <1>7, <2>2, TreeBasics
    <3>2. Line(B, n) = {n} \cup Line(B, p)
      BY <1>0, <1>7, <3>1, LineOfParent
    <3> HIDE DEF p
    <3>3. p \in Line(B, c)
      BY <1>0, <1>4, <1>7, <3>1, <3>2, LineFacts
    <3>4. b \in Line(B, c) /\ B[p].height = B[b].height
      BY <1>5, <1>7, <1>8, <2>2, <3>1
    <3>5. p = b
      BY <1>0, <1>4, <3>3, <3>4, LineFacts
    <3> QED
      BY <3>5 DEF p
  <2> QED
    BY <2>1, <2>2
<1>9. \E s : Summit(U, B, n, s)
  BY <1>3, <1>7, HasSummitIs
<1>10. B[n].height \in Nat /\ (b # None => B[n].height > B[b].height)
  BY <1>5, <1>7
<1> QED
  BY <1>4, <1>7, <1>8, <1>9, <1>10 DEF c, n

\* FinalityDetector::run
LEMMA RunIs ==
    ASSUME NEW U, NEW B, World(U, B), NEW pan, Tops(U, pan), NEW last \in DOMAIN B \cup {None},
           last # None => \E s : Summit(U, B, last, s)
    PROVE  LET q == Run(U, B, pan, last) IN
           /\ q \in Seq(DOMAIN B)
           /\ \A i \in 1 .. Len(q) : /\ Parent(B, q[i]) = Before(last, q, i)
                                     /\ \E s : Summit(U, B, q[i], s)
<1> DEFINE c == Choice(U, B, pan)
           S == DOMAIN B \cup {None, last}
           Next1(b) == NextFinalized(U, B, pan, b)
           Onward == [b \in S |-> Next1(b)]
           Stop == {b \in S : Next1(b) = None}
           rank == [b \in S |-> IF b = None THEN 0 ELSE B[b].height + 1]
           W == {b \in S : b = None \/ (c \in DOMAIN B /\ b \in Line(B, c))}
           after == CHOOSE f : f = [b \in S |-> RunFurther(f, Next1(b))]
           q == Run(U, B, pan, last)
<1>0. IsTree(B) /\ None \notin DOMAIN B
  BY WorldFacts DEF IsTree
<1>1. CASE FttExceeded(pan)
  <2>1. q = <<>>
    BY <1>1 DEF Run
  <2> QED
    BY <2>1
<1>2. CASE ~ FttExceeded(pan)
  <2>1. last \in W
    <3>1. CASE last = None
      BY <3>1
    <3>2. CASE last # None
      <4>1. PICK s : Summit(U, B, last, s)
        BY <3>2
      <4>2. FaultyWeight(pan) < Ftt
        <5>1. FaultyIn(pan) \in SUBSET Validators
          BY DEF FaultyIn
        <5>2. FaultyWeight(pan) \in Nat /\ Ftt \in Nat
          BY <5>1, WtOK, TopLevelAssumption DEF FaultyWeight, Wt
        <5> QED
          BY <1>2, <5>2 DEF FttExceeded
      <4>3. c \in DOMAIN B /\ last \in Line(B, c)
        BY <4>1, <4>2, SummitChosen
      <4> QED
        BY <4>3
    <3> QED
      BY <3>1, <3>2
  <2>2. \A b \in S : Next1(b) # None =>
           /\ Next1(b) \in DOMAIN B /\ c \in DOMAIN B /\ Next1(b) \in Line(B, c)
           /\ B[Next1(b)].height \in Nat
           /\ b # None => B[Next1(b)].height > B[b].height
           /\ b = None \/ b \in Line(B, c) => Parent(B, Next1(b)) = b
           /\ \E s : Summit(U, B, Next1(b), s)
    BY NextFinalizedIs
  <2>3. PICK m \in Nat : \A b \in DOMAIN B : B[b].height <= m
    BY <1>0, TreeTop
  <2> HIDE DEF Next1, c
  <2>4. Climbs(S, Onward, Stop, rank, m + 1)
    <3>1. \A b \in S : rank[b] \in Nat /\ rank[b] <= m + 1
      <4> SUFFICES ASSUME NEW b \in S PROVE rank[b] \in Nat /\ rank[b] <= m + 1
        OBVIOUS
      <4>1. CASE b = None
        BY <4>1
      <4>2. CASE b # None
        <5>1. B[b].height \in Nat /\ B[b].height <= m
          BY <1>0, <2>3, <4>2, TreeBasics
        <5> QED
          BY <4>2, <5>1
      <4> QED
        BY <4>1, <4>2
    <3>2. ASSUME NEW b \in S, b \notin Stop PROVE Onward[b] \in S /\ rank[Onward[b]] > rank[b]
      <4> DEFINE d == Next1(b)
      <4>1. Onward[b] = d /\ d # None
        BY <3>2
      <4>2. d \in DOMAIN B /\ B[d].height \in Nat /\ (b # None => B[d].height > B[b].height)
        BY <2>2, <4>1
      <4>3. rank[d] = B[d].height + 1
        BY <4>1, <4>2
      <4>4. rank[d] > rank[b]
        <5>1. CASE b = None
          BY <4>2, <4>3, <5>1
        <5>2. CASE b # None
          <6>1. rank[b] = B[b].height + 1 /\ B[b].height \in Nat
            BY <1>0, <5>2, TreeBasics
          <6> HIDE DEF rank, d
          <6> QED
            BY <4>2, <4>3, <5>2, <6>1
        <5> QED
          BY <5>1, <5>2
      <4> HIDE DEF rank, Onward, d
      <4> QED
        BY <4>1, <4>2, <4>4
    <3> HIDE DEF S, Onward, Stop, rank
    <3> QED
      BY <3>1, <3>2 DEF Climbs
  <2>5. \E f : f = [b \in S |-> Trail(Onward, Stop, f, b)]
    <3>1. m + 1 \in Nat
      OBVIOUS
    <3> HIDE DEF S, Onward, Stop, rank
    <3> QED
      BY <2>4, <3>1, TrailExists
  <2>6. ASSUME NEW f
        PROVE  [b \in S |-> Trail(Onward, Stop, f, b)] = [b \in S |-> RunFurther(f, Next1(b))]
    <3>1. ASSUME NEW b \in S PROVE Trail(Onward, Stop, f, b) = RunFurther(f, Next1(b))
      <4>1. Onward[b] = Next1(b) /\ (b \in Stop <=> Next1(b) = None)
        OBVIOUS
      <4> HIDE DEF Onward, Stop
      <4> QED
        BY <4>1 DEF Trail, RunFurther
    <3> HIDE DEF Onward, Stop, S
    <3> QED
      BY <3>1
  <2>7. after = [b \in S |-> Trail(Onward, Stop, after, b)]
    <3>1. PICK f : f = [b \in S |-> Trail(Onward, Stop, f, b)]
      BY <2>5
    <3>2. f = [b \in S |-> RunFurther(f, Next1(b))]
      <4> HIDE DEF Onward, Stop, S
      <4> QED
        BY <2>6, <3>1
    <3>3. after = [b \in S |-> RunFurther(after, Next1(b))]
      <4> HIDE DEF Onward, Stop, S
      <4> QED
        BY <3>2
    <3> HIDE DEF after, Onward, Stop, S
    <3> QED
      BY <2>6, <3>3
  <2>8. q = after[last]
    BY <1>2 DEF Run, Next1
  <2>9. W \in SUBSET S /\ \A b \in W : b \notin Stop => Onward[b] \in W
    BY <2>2
  <2>10. IsTrail(W, Onward, Stop, last, q)
    <3>1. m + 1 \in Nat
      OBVIOUS
    <3> HIDE DEF after, S, W, Onward, Stop, rank, q
    <3>2. \A b \in W : IsTrail(W, Onward, Stop, b, after[b])
      BY <2>4, <2>7, <2>9, <3>1, TrailLeads
    <3> QED
      BY <2>1, <2>8, <3>2
  <2> HIDE DEF q, after
  <2>11. q \in Seq(W) /\ Len(q) \in Nat /\ \A i \in 1 .. Len(q) :
             Before(last, q, i) \in W \ Stop /\ q[i] = Onward[Before(last, q, i)]
    <3> HIDE DEF W, Onward, Stop
    <3>1. q \in Seq(W)
      BY <2>10 DEF IsTrail
    <3> QED
      BY <2>10, <3>1 DEF IsTrail
  <2>12. ASSUME NEW i \in 1 .. Len(q)
         PROVE  /\ q[i] \in DOMAIN B
                /\ Parent(B, q[i]) = Before(last, q, i)
                /\ \E s : Summit(U, B, q[i], s)
    <3> DEFINE b == Before(last, q, i)
    <3>1. b \in W \ Stop /\ q[i] = Onward[b]
      BY <2>11
    <3> HIDE DEF b
    <3>2. b \in S /\ q[i] = Next1(b) /\ Next1(b) # None /\ (b = None \/ b \in Line(B, c))
      BY <3>1
    <3> HIDE DEF S, W, Onward, Stop
    <3> QED
      BY <2>2, <3>2 DEF b
  <2>13. q \in Seq(DOMAIN B)
    <3> HIDE DEF W
    <3> QED
      BY <2>11, <2>12
  <2> QED
    BY <2>12, <2>13 DEF q
<1> QED
  BY <1>1, <1>2

-----------------------------------------------------------------------------
(* The states of the protocol.                                             *)

\* A unit comes after the one that its creator observes of itself, a block after the
\* fork choice of its proposal, and no unit cites a later one.
LaneInv ==
    /\ IsTree(Lanes(units))
    /\ \A h \in DOMAIN units :
           LET own == units[h].panorama[units[h].creator] IN
           /\ own # Faulty
           /\ Parent(Lanes(units), h) = IF IsCorrect(own) THEN own ELSE None
    /\ \A h \in DOMAIN blocks :
           Parent(blocks, h) = Choice(units, blocks, units[h].panorama)
    /\ Ordered(units)

\* Swimlanes grow with the units.
LEMMA LanesGrow ==
    ASSUME NEW U, NEW U2, Continues(U, U2)
    PROVE  Continues(Lanes(U), Lanes(U2))
  BY DEF Continues, Lanes

\* The order of the units has room for another one.
LEMMA OrderedGrows ==
    ASSUME NEW U, IsFiniteSet(DOMAIN U), Ordered(U), NEW U2, Continues(U, U2), NEW h,
           h \notin DOMAIN U, DOMAIN U2 = DOMAIN U \cup {h},
           \A x \in DOMAIN U : Knows(U, U[x].panorama), Knows(U, U2[h].panorama)
    PROVE  Ordered(U2)
<1>1. PICK rank \in [DOMAIN U -> Nat] :
          \A x \in DOMAIN U : \A v \in CorrectIn(U[x].panorama) :
              rank[U[x].panorama[v]] < rank[x]
  BY DEF Ordered
<1>2. PICK m \in Nat : \A x \in DOMAIN U : rank[x] < m
  <2> DEFINE P == {T \in SUBSET DOMAIN U : \E m \in Nat : \A x \in T : rank[x] < m}
  <2>1. {} \in P /\ P \subseteq SUBSET DOMAIN U
    OBVIOUS
  <2>2. ASSUME NEW T \in P, NEW x \in DOMAIN U \ T
        PROVE  T \cup {x} \in P
    <3>1. PICK m \in Nat : \A y \in T : rank[y] < m
      OBVIOUS
    <3>2. PICK k \in Nat : k = rank[x]
      BY <1>1
    <3>3. T \subseteq DOMAIN U /\ \A y \in T : rank[y] \in Nat
      BY <1>1
    <3>4. \A y \in T \cup {x} : rank[y] < m + k + 1
      BY <3>1, <3>2, <3>3
    <3>5. m + k + 1 \in Nat
      OBVIOUS
    <3> QED
      BY <3>3, <3>4, <3>5
  <2> HIDE DEF P
  <2>3. DOMAIN U \in P
    BY <2>1, <2>2, FiniteInduction
  <2> QED
    BY <2>3 DEF P
<1> DEFINE r == [x \in DOMAIN U2 |-> IF x = h THEN m ELSE rank[x]]
<1>3. r \in [DOMAIN U2 -> Nat]
  BY <1>1
<1>4. \A x \in DOMAIN U : r[x] = rank[x] /\ U2[x] = U[x]
  BY DEF Continues
<1>5. r[h] = m
  OBVIOUS
<1> HIDE DEF r
<1>6. ASSUME NEW x \in DOMAIN U2, NEW v \in CorrectIn(U2[x].panorama)
      PROVE  r[U2[x].panorama[v]] < r[x]
  <2>1. v \in Validators /\ IsCorrect(U2[x].panorama[v])
    BY DEF CorrectIn
  <2>2. CASE x = h
    <3>1. U2[h].panorama[v] \in DOMAIN U
      BY <2>1, <2>2 DEF Knows
    <3> QED
      BY <1>2, <1>4, <1>5, <2>2, <3>1
  <2>3. CASE x \in DOMAIN U
    <3>1. U2[x] = U[x] /\ v \in CorrectIn(U[x].panorama) /\ U[x].panorama[v] \in DOMAIN U
      BY <1>4, <1>6, <2>1, <2>3 DEF Knows
    <3> QED
      BY <1>1, <1>4, <2>3, <3>1
  <2> QED
    BY <2>2, <2>3
<1> QED
  BY <1>3, <1>6 DEF Ordered

\* State::add_valid_unit: a new unit continues a swimlane, a new block its fork choice.
LEMMA LaneAdd ==
    ASSUME Core, Core', Finite, Swimlanes, IsState(units, blocks), LaneInv,
           NEW w \in WireUnits, NEW h \in UsedHashes, Extends(w), Knows(units, w.panorama),
           w.proposal \/ CorrectIn(w.panorama) # {}, AddValidUnit(w, h)
    PROVE  LaneInv'
<1> DEFINE c == w.creator
           own == w.panorama[c]
           parent == IF IsCorrect(own) THEN own ELSE None
           choice == Choice(units, blocks, w.panorama)
           t == Lanes(units)
           u == Lanes(units')
<1>0. /\ IsState(units', blocks')
      /\ Continues(units, units') /\ Continues(blocks, blocks')
      /\ DOMAIN units' = DOMAIN units \cup {h}
      /\ units'[h].creator = w.creator /\ units'[h].seq = w.seq
      /\ units'[h].panorama = w.panorama
      /\ h \in DOMAIN blocks' <=> w.proposal
      /\ \A x \in DOMAIN units : x \in DOMAIN blocks' <=> x \in DOMAIN blocks
  BY StateGrows
<1>1. h \notin DOMAIN units /\ h # None /\ c \in Validators /\ own # Faulty
      /\ \A x \in DOMAIN units : units'[x] = units[x]
  <2>1. h \notin DOMAIN units
    BY DEF AddValidUnit
  <2>2. h # None
    BY ObservationAssumption, StateAssumption DEF UsedHashes, Hashes
  <2> QED
    BY <1>0, <2>1, <2>2 DEF Continues, WireUnits, Extends
<1>2. DOMAIN t = DOMAIN units /\ DOMAIN u = DOMAIN units'
      /\ \A x \in DOMAIN units : t[x] = [height |-> units[x].seq, skip |-> units[x].skip]
  BY DEF Lanes
<1>3. parent \in DOMAIN t \cup {None} /\ (parent # None => IsCorrect(own) /\ parent = own)
  BY <1>1, <1>2 DEF Extends, IsCorrect
<1>4. u[h] = NewBlock(t, parent)
  <2>1. units'[h] = NewUnit(w, h)
    BY <1>0 DEF AddValidUnit
  <2>2. /\ units'[h].seq = w.seq
        /\ units'[h].skip = IF IsCorrect(own)
              THEN SkipList([x \in DOMAIN units |-> units[x].skip], own, w.seq) ELSE <<>>
    BY <2>1 DEF NewUnit
  <2>3. u[h] = [height |-> w.seq, skip |-> units'[h].skip]
    BY <1>0, <2>2 DEF Lanes
  <2>4. w.seq = IF IsCorrect(own) THEN units[own].seq + 1 ELSE 0
    BY DEF Extends, NextSeqNum
  <2>5. CASE IsCorrect(own)
    <3>1. parent = own /\ own \in DOMAIN units /\ own # None
      BY <2>5, <1>1, ObservationAssumption DEF Extends, IsCorrect
    <3>2. [b \in DOMAIN t |-> t[b].skip] = [x \in DOMAIN units |-> units[x].skip]
      BY <1>2
    <3>3. t[own].height + 1 = w.seq
      BY <1>2, <2>4, <2>5, <3>1
    <3>4. NewBlock(t, parent) = [height |-> t[own].height + 1,
              skip |-> SkipList([b \in DOMAIN t |-> t[b].skip], own, t[own].height + 1)]
      BY <3>1 DEF NewBlock
    <3>5. NewBlock(t, parent) = [height |-> w.seq,
              skip |-> SkipList([x \in DOMAIN units |-> units[x].skip], own, w.seq)]
      BY <3>2, <3>3, <3>4
    <3> QED
      BY <2>2, <2>3, <2>5, <3>5
  <2>6. CASE ~ IsCorrect(own)
    BY <2>2, <2>3, <2>4, <2>6 DEF NewBlock
  <2> QED
    BY <2>5, <2>6
<1>5. u = [x \in DOMAIN t \cup {h} |-> IF x = h THEN NewBlock(t, parent) ELSE t[x]]
  <2>1. \A x \in DOMAIN units : u[x] = t[x]
    BY <1>0, <1>1 DEF Lanes
  <2>2. u = [x \in DOMAIN units' |-> u[x]]
    BY DEF Lanes
  <2> HIDE DEF u, t, parent
  <2> QED
    BY <1>0, <1>1, <1>2, <1>4, <2>1, <2>2
<1>6. IsTree(t)
  BY DEF LaneInv
<1> HIDE DEF t, u, parent
<1>7. IsTree(u) /\ Continues(t, u) /\ Parent(u, h) = parent
  BY <1>1, <1>2, <1>3, <1>5, <1>6, TreeGrows
<1>8. ASSUME NEW x \in DOMAIN units'
      PROVE  LET o == units'[x].panorama[units'[x].creator] IN
             o # Faulty /\ Parent(u, x) = IF IsCorrect(o) THEN o ELSE None
  <2>1. CASE x = h
    BY <1>0, <1>1, <1>7, <2>1 DEF parent
  <2>2. CASE x \in DOMAIN units
    <3>1. Parent(u, x) = Parent(t, x)
      BY <1>2, <1>6, <1>7, <2>2, SameLines
    <3> QED
      BY <1>1, <2>2, <3>1 DEF LaneInv, t
  <2> QED
    BY <1>0, <2>1, <2>2
<1>9. \A x \in DOMAIN units : Knows(units, units[x].panorama)
  BY ObservationAssumption DEF Knows, IsState, IsCorrect
<1>10. ASSUME NEW x \in DOMAIN blocks'
       PROVE  Parent(blocks', x) = Choice(units', blocks', units'[x].panorama)
  <2>0. IsTree(blocks) /\ IsTree(blocks') /\ DOMAIN blocks \subseteq DOMAIN units
        /\ DOMAIN blocks' \subseteq DOMAIN units'
    BY <1>0 DEF IsState
  <2>1. CASE x = h
    <3>1. w.proposal
      BY <1>0, <1>10, <2>1
    <3>2. blocks' = [y \in DOMAIN blocks \cup {h} |-> IF y = h THEN NewBlock(blocks, choice) ELSE blocks[y]]
      BY <3>1 DEF AddValidUnit
    <3>3. choice \in DOMAIN blocks \cup {None}
      BY VotesOf
    <3>4. h \notin DOMAIN blocks
      BY <1>1, <2>0
    <3> HIDE DEF choice
    <3>5. Parent(blocks', h) = choice
      BY <1>1, <2>0, <3>2, <3>3, <3>4, TreeGrows
    <3>6. Choice(units', blocks', w.panorama) = choice
      BY <1>0, PanoramaChoiceStays DEF choice
    <3> QED
      BY <1>0, <2>1, <3>5, <3>6
  <2>2. CASE x # h
    <3>1. x \in DOMAIN units /\ x \in DOMAIN blocks
      BY <1>0, <1>10, <2>0, <2>2
    <3>2. Parent(blocks', x) = Parent(blocks, x)
      BY <1>0, <2>0, <3>1, SameLines
    <3>3. Choice(units', blocks', units[x].panorama) = Choice(units, blocks, units[x].panorama)
      BY <1>0, <1>9, <3>1, PanoramaChoiceStays
    <3> QED
      BY <1>1, <3>1, <3>2, <3>3 DEF LaneInv
  <2> QED
    BY <2>1, <2>2
<1>11. Ordered(units')
  BY <1>0, <1>1, <1>9, OrderedGrows DEF LaneInv, Finite
<1> QED
  BY <1>7, <1>8, <1>10, <1>11 DEF LaneInv, u

\* The steps of the protocol, as far as finality depends on them.
LEMMA StepsAre ==
    ASSUME IInv, ValidInv, [Next]_vars
    PROVE  \/ /\ UNCHANGED <<units, blocks, evidenceOnly>>
              /\ finalized' = finalized \/ DetectFinality
           \/ \E w \in WireUnits, h \in UsedHashes :
                 /\ Extends(w) /\ Checked(w) /\ (w.proposal \/ CorrectIn(w.panorama) # {})
                 /\ AddValidUnit(w, h) /\ DetectFinality /\ UNCHANGED evidenceOnly
           \/ SetEvidenceOnly
<1>0. /\ Core /\ Finite
      /\ \A p \in pendingValues : p.unit \in WireUnits /\ Extends(p.unit)
  BY DEF IInv, PendingInv
<1>1. CASE /\ Cardinality(DOMAIN units) + Cardinality(pendingValues) < MaxUnits
           /\ \E pan \in CitablePanoramas, v \in Validators, t \in Times,
                 re \in MinRoundExp .. MaxRoundExp, proposal \in BOOLEAN :
                     \/ AddVertex(WireUnit(v, pan, t, re, proposal))
                     \/ AwaitValidity(WireUnit(v, pan, t, re, proposal))
  <2>1. PICK pan \in CitablePanoramas, v \in Validators, t \in Times,
             re \in MinRoundExp .. MaxRoundExp, proposal \in BOOLEAN :
                 \/ AddVertex(WireUnit(v, pan, t, re, proposal))
                 \/ AwaitValidity(WireUnit(v, pan, t, re, proposal))
    BY <1>1
  <2> DEFINE w == WireUnit(v, pan, t, re, proposal)
  <2>2. IsValid(w)
    BY <2>1 DEF AddVertex, AwaitValidity
  <2>3. w \in WireUnits /\ Extends(w) /\ w.creator = v
    BY <1>0, <2>2, ValidExtends
  <2>4. NextHash(v) \in UsedHashes
    BY <1>0, <1>1, NextHashUsed
  <2> HIDE DEF w
  <2>5. Checked(w) /\ (w.proposal \/ CorrectIn(w.panorama) # {})
    BY <2>2 DEF IsValid, PreValidateUnit, Checked
  <2>6. CASE AddVertex(w)
    <3>1. AddValidUnit(w, NextHash(v)) /\ DetectFinality /\ UNCHANGED evidenceOnly
      BY <2>3, <2>6 DEF AddVertex
    <3> QED
      BY <2>3, <2>4, <2>5, <3>1
  <2>7. CASE AwaitValidity(w)
    BY <2>7 DEF AwaitValidity, stateVars
  <2> QED
    BY <2>1, <2>6, <2>7 DEF w
<1>2. CASE \E p \in pendingValues, valid \in BOOLEAN : ResolveValidity(p, valid)
  <2>1. PICK p \in pendingValues, valid \in BOOLEAN : ResolveValidity(p, valid)
    BY <1>2
  <2>2. p.hash \in UsedHashes /\ p.unit.proposal /\ Checked(p.unit) /\ p.unit \in WireUnits /\ Extends(p.unit)
    BY <1>0 DEF ValidInv
  <2>4. CASE valid
    <3>1. AddValidUnit(p.unit, p.hash) /\ DetectFinality /\ UNCHANGED evidenceOnly
      BY <2>1, <2>4 DEF ResolveValidity
    <3> QED
      BY <2>2, <3>1
  <2>5. CASE ~ valid
    BY <2>1, <2>5 DEF ResolveValidity, stateVars
  <2> QED
    BY <2>4, <2>5
<1>3. CASE \E v \in Validators : AddEvidenceVertex(v)
  BY <1>3 DEF AddEvidenceVertex, AddEvidence
<1>4. CASE \E v \in Validators : MarkValidatorFaulty(v)
  BY <1>4 DEF MarkValidatorFaulty, MarkFaulty
<1>5. CASE \E v \in Validators, t \in PingTimes : AddPingVertex(v, t)
  BY <1>5 DEF AddPingVertex, AddPing
<1>6. CASE SetEvidenceOnly
  BY <1>6
<1>7. CASE UNCHANGED vars
  BY <1>7 DEF vars
<1> QED
  BY <1>1, <1>2, <1>3, <1>4, <1>5, <1>6, <1>7 DEF Next

\* No units.
LEMMA LaneEmpty == DOMAIN units = {} /\ DOMAIN blocks = {} => LaneInv
<1> SUFFICES ASSUME DOMAIN units = {}, DOMAIN blocks = {} PROVE LaneInv
  OBVIOUS
<1>1. DOMAIN Lanes(units) = {}
  BY DEF Lanes
<1>2. Ordered(units)
  <2>1. [x \in DOMAIN units |-> 0] \in [DOMAIN units -> Nat]
    OBVIOUS
  <2> QED
    BY <2>1 DEF Ordered
<1> QED
  BY <1>1, <1>2, EmptyTree DEF LaneInv

\* The order of the units survives every step.
LEMMA LaneStep == IInv /\ IInv' /\ Swimlanes /\ ValidInv /\ LaneInv /\ [Next]_vars => LaneInv'
<1> SUFFICES ASSUME IInv, IInv', Swimlanes, ValidInv, LaneInv, [Next]_vars PROVE LaneInv'
  OBVIOUS
<1>1. CASE UNCHANGED <<units, blocks>>
  BY <1>1 DEF LaneInv
<1>2. ASSUME NEW w \in WireUnits, NEW h \in UsedHashes,
             Extends(w), Checked(w), w.proposal \/ CorrectIn(w.panorama) # {}, AddValidUnit(w, h)
      PROVE  LaneInv'
  <2>1. Core /\ Core' /\ Finite /\ IsState(units, blocks) /\ Knows(units, w.panorama)
    BY <1>2, DependenciesKnown DEF IInv, ValidInv, Checked
  <2> QED
    BY <1>2, <2>1, LaneAdd
<1>3. CASE SetEvidenceOnly
  <2>1. DOMAIN units' = {} /\ DOMAIN blocks' = {}
    BY <1>3 DEF SetEvidenceOnly, RetainEvidenceOnly
  <2>2. IsTree(Lanes(units'))
    BY <2>1, EmptyTree DEF Lanes
  <2>3. Ordered(units')
    <3>1. [x \in DOMAIN units' |-> 0] \in [DOMAIN units' -> Nat]
      OBVIOUS
    <3> QED
      BY <2>1, <3>1 DEF Ordered
  <2> QED
    BY <2>1, <2>2, <2>3 DEF LaneInv
<1> QED
  BY <1>1, <1>2, <1>3, StepsAre

\* What validate_unit and the known units say of an observation: one that is at least
\* another comes after it in the swimlane.
LEMMA GeqIsLater ==
    ASSUME IsState(units, blocks), LaneInv, NEW v \in Validators,
           NEW x \in DOMAIN units, NEW y \in DOMAIN units,
           units[x].creator = v, units[y].creator = v, ObservationGeq(units, x, y)
    PROVE  y \in Lane(units, x)
<1>0. IsTree(Lanes(units)) /\ DOMAIN units \subseteq Hashes
  BY StateAssumption DEF LaneInv, IsState, UsedHashes, Hashes
<1>1. x # Faulty /\ y # None
  BY <1>0, ObservationAssumption
<1>2. x = y \/ SeesCorrect(units, units[x].panorama, y)
  BY <1>1 DEF ObservationGeq
<1>3. CASE x = y
  BY <1>0, <1>3, LaneFacts
<1>4. CASE SeesCorrect(units, units[x].panorama, y)
  <2> DEFINE latest == units[x].panorama[v]
  <2>1. IsCorrect(latest) /\ FindInSwimlane(units, latest, units[y].seq) = y
    BY <1>4 DEF SeesCorrect
  <2>2. latest \in DOMAIN units
    BY <2>1, ObservationAssumption DEF IsState, IsCorrect
  <2>3. Parent(Lanes(units), x) = latest
    BY <2>1 DEF LaneInv
  <2>4. latest # None
    BY <2>2, <1>0, ObservationAssumption
  <2> HIDE DEF latest
  <2>5. y \in Lane(units, latest)
    BY <1>0, <2>1, <2>2, LaneFacts
  <2>6. x \in DOMAIN Lanes(units)
    BY DEF Lanes
  <2>7. Line(Lanes(units), x) = {x} \cup Line(Lanes(units), latest)
    BY <1>0, <2>3, <2>4, <2>6, LineOfParent
  <2> QED
    BY <2>5, <2>7 DEF Lane
<1> QED
  BY <1>2, <1>3, <1>4

\* A unit has seen what the units that it cites have.
LEMMA CitedSeen ==
    ASSUME IsState(units, blocks), LaneInv, \A h \in DOMAIN units : Checked(WireOf(h)),
           NEW h \in DOMAIN units, NEW v \in CorrectIn(units[h].panorama)
    PROVE  /\ units[h].panorama[v] \in DOMAIN units
           /\ units[units[h].panorama[v]].creator = v
           /\ AtLeast(units, units[h].panorama, units[units[h].panorama[v]].panorama)
<1> DEFINE pan == units[h].panorama
           old == units[pan[v]].panorama
<1>0. DOMAIN units \subseteq Hashes /\ None \notin DOMAIN units /\ Faulty \notin DOMAIN units
  BY StateAssumption, ObservationAssumption DEF IsState, UsedHashes, Hashes
<1>1. \A x \in DOMAIN units : ValidatePanorama(units, units[x].panorama)
  <2>1. \A x \in DOMAIN units : WireOf(x).panorama = units[x].panorama
    BY DEF WireOf
  <2>2. \A x \in DOMAIN units : ValidatePanorama(units, WireOf(x).panorama)
    BY DEF Checked, ValidateUnit
  <2> QED
    BY <2>1, <2>2
<1>2. \A x \in DOMAIN units : \A w \in Validators :
          /\ units[x].panorama[w] \in DOMAIN units \cup {None, Faulty}
          /\ IsCorrect(units[x].panorama[w]) <=> units[x].panorama[w] \in DOMAIN units
          /\ units[x].panorama[w] \in DOMAIN units => units[units[x].panorama[w]].creator = w
  <2> SUFFICES ASSUME NEW x \in DOMAIN units, NEW w \in Validators
               PROVE  /\ units[x].panorama[w] \in DOMAIN units \cup {None, Faulty}
                      /\ IsCorrect(units[x].panorama[w]) <=> units[x].panorama[w] \in DOMAIN units
                      /\ units[x].panorama[w] \in DOMAIN units => units[units[x].panorama[w]].creator = w
    OBVIOUS
  <2>1. units[x].panorama[w] \in DOMAIN units \cup {None, Faulty}
    BY DEF IsState
  <2>2. IsCorrect(units[x].panorama[w]) <=> units[x].panorama[w] \in DOMAIN units
    BY <1>0, <2>1, ObservationAssumption DEF IsCorrect
  <2>3. units[x].panorama[w] \in DOMAIN units => units[units[x].panorama[w]].creator = w
    BY <1>1, <2>2 DEF ValidatePanorama, CorrectIn
  <2> QED
    BY <2>1, <2>2, <2>3
<1>3. v \in Validators /\ IsCorrect(pan[v])
  BY DEF CorrectIn
<1>4. pan[v] \in DOMAIN units /\ units[pan[v]].creator = v
  BY <1>2, <1>3
<1>5. Geq(units, pan, old)
  BY <1>1 DEF ValidatePanorama
<1>6. ASSUME NEW w \in Validators, pan[w] # Faulty, old[w] # None
      PROVE  pan[w] \in DOMAIN units /\ old[w] \in Lane(units, pan[w])
  <2>1. ObservationGeq(units, pan[w], old[w])
    BY <1>5 DEF Geq
  <2>2. IsCorrect(pan[w]) /\ IsCorrect(old[w])
    BY <1>6, <2>1 DEF ObservationGeq
  <2>3. /\ pan[w] \in DOMAIN units /\ units[pan[w]].creator = w
        /\ old[w] \in DOMAIN units /\ units[old[w]].creator = w
    BY <1>2, <1>4, <2>2
  <2> HIDE DEF pan, old
  <2> QED
    BY <2>1, <2>3, GeqIsLater
<1> QED
  BY <1>4, <1>6 DEF AtLeast

\* A swimlane is that of one validator, and a later unit in it has seen more.
LEMMA LaneSeen ==
    ASSUME IsState(units, blocks), LaneInv, \A h \in DOMAIN units : Checked(WireOf(h)),
           NEW h \in DOMAIN units
    PROVE  \A x \in Lane(units, h) :
               /\ units[x].creator = units[h].creator
               /\ AtLeast(units, units[h].panorama, units[x].panorama)
<1> DEFINE t == Lanes(units)
           Fine(g) == \A x \in Lane(units, g) :
               /\ units[x].creator = units[g].creator
               /\ AtLeast(units, units[g].panorama, units[x].panorama)
           P == {n \in Nat : \A g \in DOMAIN units : units[g].seq = n => Fine(g)}
<1>0. /\ DOMAIN units \subseteq Hashes /\ None \notin DOMAIN units /\ Faulty \notin DOMAIN units
      /\ IsTree(t) /\ DOMAIN t = DOMAIN units /\ \A g \in DOMAIN units : t[g].height = units[g].seq
      /\ \A g \in DOMAIN units : units[g].seq \in Nat /\ units[g].creator \in Validators
  <2>1. IsTree(t)
    BY DEF LaneInv
  <2>2. \A g \in DOMAIN units : units[g].seq \in Nat
    BY <2>1, LaneFacts
  <2> QED
    BY <2>1, <2>2, StateAssumption, ObservationAssumption DEF IsState, UsedHashes, Hashes, Lanes
<1>1. ASSUME NEW g \in DOMAIN units
      PROVE  AtLeast(units, units[g].panorama, units[g].panorama)
  <2>1. \A v \in Validators : units[g].panorama[v] \in DOMAIN units \cup {None, Faulty}
    BY DEF IsState
  <2> QED
    BY <1>0, <2>1, LaneFacts DEF AtLeast
<1>2. ASSUME NEW g \in DOMAIN units,
             Parent(t, g) # None => Parent(t, g) \in DOMAIN units /\ Fine(Parent(t, g))
      PROVE  Fine(g)
  <2>1. Line(t, g) = {g} \cup IF Parent(t, g) = None THEN {} ELSE Line(t, Parent(t, g))
    BY <1>0, LineOfParent
  <2>2. CASE Parent(t, g) = None
    <3>1. Lane(units, g) = {g}
      BY <2>1, <2>2 DEF Lane
    <3> QED
      BY <1>1, <3>1
  <2>3. CASE Parent(t, g) # None
    <3> DEFINE c == units[g].creator
               p == units[g].panorama[c]
    <3>1. IsCorrect(p) /\ Parent(t, g) = p
      BY <2>3 DEF LaneInv
    <3>2. c \in CorrectIn(units[g].panorama)
      BY <1>0, <3>1 DEF CorrectIn
    <3>3. /\ p \in DOMAIN units /\ units[p].creator = c
          /\ AtLeast(units, units[g].panorama, units[p].panorama)
      BY <3>2, CitedSeen
    <3>4. Lane(units, g) = {g} \cup Lane(units, p)
      BY <2>1, <2>3, <3>1 DEF Lane
    <3>5. \A x \in Lane(units, p) :
              units[x].creator = c /\ AtLeast(units, units[p].panorama, units[x].panorama)
      BY <1>2, <2>3, <3>1, <3>3
    <3> HIDE DEF p
    <3>6. \A x \in Lane(units, p) : AtLeast(units, units[g].panorama, units[x].panorama)
      BY <1>0, <3>3, <3>5, AtLeastTransitive
    <3> QED
      BY <1>1, <3>4, <3>5, <3>6
  <2> QED
    BY <2>2, <2>3
<1> HIDE DEF Fine
<1>3. \A g \in DOMAIN units :
          /\ units[g].seq = 0 => Parent(t, g) = None
          /\ units[g].seq # 0 => /\ Parent(t, g) \in DOMAIN units
                                 /\ units[Parent(t, g)].seq = units[g].seq - 1
  <2> HIDE DEF t
  <2> QED
    BY <1>0, TreeBasics
<1> HIDE DEF t
<1>4. 0 \in P
  BY <1>2, <1>3
<1>5. ASSUME NEW n \in Nat, n \in P PROVE n + 1 \in P
  BY <1>2, <1>3, <1>5
<1>6. P \in SUBSET Nat
  OBVIOUS
<1>7. P = Nat
  <2> HIDE DEF P
  <2> QED
    BY <1>4, <1>5, <1>6, AllNumbers
<1>8. Fine(h)
  BY <1>0, <1>7
<1> QED
  BY <1>8 DEF Fine

\* The states that the protocol reaches are as the proofs about summits need them.
LEMMA WorldIs ==
    ASSUME ValidInv, LaneInv
    PROVE  World(units, blocks)
<1>0. /\ IsState(units, blocks) /\ IsTree(blocks) /\ IsTree(Lanes(units)) /\ Ordered(units)
      /\ \A h \in DOMAIN units : Checked(WireOf(h))
      /\ VotesAreChoices
  BY DEF ValidInv, LaneInv, IsState
<1>1. ASSUME NEW h \in DOMAIN units
      PROVE  Cites(units, blocks, h)
  <2> DEFINE pan == units[h].panorama
             choice == Choice(units, blocks, pan)
  <2>1. /\ pan[units[h].creator] # Faulty
        /\ Parent(Lanes(units), h) =
               IF IsCorrect(pan[units[h].creator]) THEN pan[units[h].creator] ELSE None
    BY DEF LaneInv
  <2>2. \A v \in CorrectIn(pan) :
            units[pan[v]].creator = v /\ AtLeast(units, pan, units[pan[v]].panorama)
    BY <1>0, CitedSeen
  <2>3. \A x \in Lane(units, h) :
            units[x].creator = units[h].creator /\ AtLeast(units, pan, units[x].panorama)
    BY <1>0, LaneSeen
  <2>4. ASSUME choice \in DOMAIN blocks
        PROVE  choice \in Line(blocks, units[h].block)
    <3>1. choice \in Line(blocks, choice) /\ choice # None
      BY <1>0, <2>4, LineFacts, TreeBasics
    <3>2. CASE h \in DOMAIN blocks
      <4>1. units[h].block = h /\ Parent(blocks, h) = choice
        BY <1>0, <3>2 DEF VotesAreChoices, LaneInv
      <4>2. Line(blocks, h) = {h} \cup IF Parent(blocks, h) = None THEN {} ELSE Line(blocks, Parent(blocks, h))
        BY <1>0, <3>2, LineOfParent
      <4> QED
        BY <3>1, <4>1, <4>2
    <3>3. CASE h \notin DOMAIN blocks
      BY <1>0, <3>1, <3>3 DEF VotesAreChoices
    <3> QED
      BY <3>2, <3>3
  <2> QED
    BY <2>1, <2>2, <2>3, <2>4 DEF Cites
<1> QED
  BY <1>0, <1>1 DEF World

\* The node's panorama has the ends of the swimlanes.
LEMMA TopsAre ==
    ASSUME Core, LatestUnits, ValidInv, LaneInv
    PROVE  Tops(units, panorama)
<1>0. /\ DOMAIN units \subseteq Hashes /\ None \notin DOMAIN units /\ Faulty \notin DOMAIN units
      /\ IsTree(Lanes(units))
      /\ \A h \in DOMAIN units : units[h].creator \in Validators
  BY StateAssumption, ObservationAssumption DEF ValidInv, LaneInv, IsState, UsedHashes, Hashes
<1>1. \A v \in Validators : panorama[v] \in DOMAIN units \cup {None, Faulty}
  BY DEF Core, TypeOK
<1>2. \A v \in CorrectIn(panorama) : units[panorama[v]].creator = v
  <2>1. \A v \in CorrectIn(panorama) : v \in Validators /\ panorama[v] \in Hashes
    BY DEF CorrectIn, IsCorrect
  <2>2. \A v \in CorrectIn(panorama) : panorama[v] \in DOMAIN units
    BY <1>1, <2>1, ObservationAssumption
  <2> QED
    BY <2>1, <2>2 DEF Core, OwnUnits
<1>3. ASSUME NEW h \in DOMAIN units, panorama[units[h].creator] # Faulty
      PROVE  /\ panorama[units[h].creator] \in DOMAIN units
             /\ h \in Lane(units, panorama[units[h].creator])
  <2> DEFINE latest == panorama[units[h].creator]
  <2>1. latest # None /\ FindInSwimlane(units, latest, units[h].seq) = h
    BY <1>3 DEF LatestUnits
  <2>2. latest \in DOMAIN units
    BY <1>0, <1>1, <1>3, <2>1
  <2> HIDE DEF latest
  <2>3. h \in Lane(units, latest)
    BY <1>0, <2>1, <2>2, LaneFacts
  <2> QED
    BY <2>2, <2>3 DEF latest
<1>4. ASSUME NEW h \in DOMAIN units, NEW v \in Validators, units[h].panorama[v] = Faulty
      PROVE  panorama[v] = Faulty
  <2>1. HasDependencies(units, WireOf(h).panorama) /\ WireOf(h).panorama = units[h].panorama
    BY DEF ValidInv, Checked, WireOf
  <2>2. faults[v] # "none"
    BY <1>4, <2>1 DEF HasDependencies
  <2> QED
    BY <2>2 DEF Core, FaultsMatchPanorama
<1> QED
  BY <1>1, <1>2, <1>3, <1>4 DEF Tops

\* A summit stays one while the state grows.
LEMMA SummitStays ==
    ASSUME NEW U, NEW B, World(U, B), NEW U2, NEW B2, World(U2, B2),
           Continues(U, U2), Continues(B, B2), NEW b, NEW s, Summit(U, B, b, s)
    PROVE  Summit(U2, B2, b, s)
<1>0. /\ IsTree(B) /\ IsTree(B2) /\ IsTree(Lanes(U)) /\ IsTree(Lanes(U2))
      /\ \A h \in DOMAIN U : U[h].block \in DOMAIN B
      /\ \A h \in DOMAIN U : Knows(U, U[h].panorama)
  BY WorldFacts
<1>1. DOMAIN U \subseteq DOMAIN U2 /\ DOMAIN B \subseteq DOMAIN B2 /\ \A h \in DOMAIN U : U2[h] = U[h]
  BY DEF Continues
<1>2. \A h \in DOMAIN U : Lane(U2, h) = Lane(U, h) /\ Lane(U, h) \subseteq DOMAIN U
  <2>1. Continues(Lanes(U), Lanes(U2)) /\ DOMAIN Lanes(U) = DOMAIN U
    BY LanesGrow DEF Lanes
  <2>2. \A h \in DOMAIN U : Lane(U2, h) = Lane(U, h)
    BY <1>0, <2>1, SameLines DEF Lane
  <2> QED
    BY <1>0, <2>2, LaneFacts
<1>3. \A x \in DOMAIN B : Line(B2, x) = Line(B, x)
  BY <1>0, SameLines
<1>4. /\ s.k \in Nat \ {0} /\ s.q \in Nat
      /\ b \in DOMAIN B
      /\ \A j \in 0 .. s.k : s.C[j] \subseteq Validators
      /\ \A j \in 1 .. s.k : s.C[j] \subseteq s.C[j - 1]
      /\ \A v \in s.C[0] : s.L[v] \in DOMAIN U /\ U[s.L[v]].creator = v
      /\ \A j \in 0 .. s.k : \A v \in s.C[j] : s.Z[j][v] \in Lane(U, s.L[v])
      /\ \A j \in 1 .. s.k : \A v \in s.C[j] : s.Z[j - 1][v] \in Lane(U, s.Z[j][v])
      /\ \A v \in s.C[0] : \A x \in Lane(U, s.L[v]) :
             s.Z[0][v] \in Lane(U, x) => b \in Line(B, U[x].block)
      /\ \A j \in 1 .. s.k : \A v \in s.C[j] :
             Wt({w \in s.C[j] : Sees(U, s.Z[j][v], w, s.Z[j - 1][w])}) >= s.q
      /\ Wt(s.C[s.k]) >= s.q
      /\ Overlap(s) > 0
      /\ Overlap(s) * (Pow2[s.k] - 1) >= Pow2[s.k] * Ftt
  BY DEF Summit
<1>5. \A j \in 0 .. s.k : \A v \in s.C[j] : s.L[v] \in DOMAIN U /\ s.Z[j][v] \in DOMAIN U
  <2>1. \A j \in 0 .. s.k : s.C[j] \subseteq s.C[0]
    <3> DEFINE P == {n \in Nat : n <= s.k => s.C[n] \subseteq s.C[0]}
    <3>1. 0 \in P /\ P \in SUBSET Nat
      OBVIOUS
    <3>2. ASSUME NEW n \in Nat, n \in P PROVE n + 1 \in P
      <4> SUFFICES ASSUME n + 1 <= s.k PROVE s.C[n + 1] \subseteq s.C[0]
        OBVIOUS
      <4>1. n <= s.k /\ n + 1 \in 1 .. s.k /\ (n + 1) - 1 = n
        BY <1>4
      <4>2. s.C[n + 1] \subseteq s.C[n]
        BY <1>4, <4>1
      <4> QED
        BY <3>2, <4>1, <4>2
    <3> HIDE DEF P
    <3>3. P = Nat
      BY <3>1, <3>2, AllNumbers
    <3> QED
      BY <1>4, <3>3 DEF P
  <2>2. \A j \in 0 .. s.k : \A v \in s.C[j] : s.L[v] \in DOMAIN U
    BY <1>4, <2>1
  <2> QED
    BY <1>2, <1>4, <2>2
<1>6. ASSUME NEW y \in DOMAIN U, NEW w \in Validators, NEW z
      PROVE  Sees(U2, y, w, z) <=> Sees(U, y, w, z)
  <2>1. U2[y] = U[y] /\ Lane(U2, y) = Lane(U, y)
    BY <1>1, <1>2
  <2>2. IsCorrect(U[y].panorama[w]) => U[y].panorama[w] \in DOMAIN U
    BY <1>0 DEF Knows
  <2> QED
    BY <1>2, <2>1, <2>2 DEF Sees
<1>7. ASSUME NEW j \in 1 .. s.k, NEW v \in s.C[j]
      PROVE  Wt({w \in s.C[j] : Sees(U2, s.Z[j][v], w, s.Z[j - 1][w])}) >= s.q
  <2>1. j \in 0 .. s.k
    BY <1>4
  <2>2. {w \in s.C[j] : Sees(U2, s.Z[j][v], w, s.Z[j - 1][w])}
            = {w \in s.C[j] : Sees(U, s.Z[j][v], w, s.Z[j - 1][w])}
    BY <1>4, <1>5, <1>6, <2>1
  <2> QED
    BY <1>4, <2>2
<1>8. b \in DOMAIN B2 /\ \A v \in s.C[0] : s.L[v] \in DOMAIN U2 /\ U2[s.L[v]].creator = v
  BY <1>1, <1>4
<1>9. \A j \in 0 .. s.k : \A v \in s.C[j] : s.Z[j][v] \in Lane(U2, s.L[v])
  BY <1>2, <1>4, <1>5
<1>10. \A j \in 1 .. s.k : \A v \in s.C[j] : s.Z[j - 1][v] \in Lane(U2, s.Z[j][v])
  <2>1. \A j \in 1 .. s.k : j \in 0 .. s.k
    BY <1>4
  <2> QED
    BY <1>2, <1>4, <1>5, <2>1
<1>11. ASSUME NEW v \in s.C[0], NEW x \in Lane(U2, s.L[v]), s.Z[0][v] \in Lane(U2, x)
       PROVE  b \in Line(B2, U2[x].block)
  <2>1. s.L[v] \in DOMAIN U
    BY <1>4
  <2>2. x \in Lane(U, s.L[v]) /\ x \in DOMAIN U
    BY <1>2, <1>11, <2>1
  <2>3. s.Z[0][v] \in Lane(U, x)
    BY <1>2, <1>11, <2>2
  <2>4. b \in Line(B, U[x].block)
    BY <1>4, <2>2, <2>3
  <2> QED
    BY <1>0, <1>1, <1>3, <2>2, <2>4
<1> QED
  BY <1>4, <1>7, <1>8, <1>9, <1>10, <1>11 DEF Summit

\* The units, the blocks and the panorama are such that a summit is safe.
SafeWorld == World(units, blocks) /\ Tops(units, panorama)

\* The blocks of q follow each other, and b.
IsChain(t, b, q) ==
    q \in Seq(DOMAIN t) /\ \A i \in 1 .. Len(q) : Parent(t, q[i]) = Before(b, q, i)

\* The last of q, or b if there is none.
LastOf(b, q) == IF q = <<>> THEN b ELSE q[Len(q)]

\* The finalized blocks are a chain, and there is a summit for the last one.
FinalInv ==
    ~ evidenceOnly =>
        /\ IsChain(blocks, None, finalized)
        /\ finalized # <<>> => \E s : Summit(units, blocks, LastFinalized, s)

\* r is f and then q.
Joins(f, q, r) == r = f \o q

\* A chain that is continued at its end.
LEMMA ChainGrows ==
    ASSUME NEW t, NEW f, NEW q, NEW r, Joins(f, q, r),
           IsChain(t, None, f), IsChain(t, LastOf(None, f), q)
    PROVE  /\ IsChain(t, None, r)
           /\ LastOf(None, r) = LastOf(LastOf(None, f), q)
           /\ r # <<>> => f # <<>> \/ q # <<>>
<1> DEFINE n == Len(f)
<1>a. f \in Seq(DOMAIN t) /\ q \in Seq(DOMAIN t) /\ r = f \o q
  BY DEF IsChain, Joins
<1>0. n \in Nat /\ Len(q) \in Nat /\ (f = <<>> <=> n = 0) /\ (q = <<>> <=> Len(q) = 0)
  BY <1>a
<1>1. /\ r \in Seq(DOMAIN t) /\ Len(r) = n + Len(q)
      /\ \A i \in 1 .. n : r[i] = f[i]
      /\ \A i \in 1 .. Len(q) : r[n + i] = q[i]
      /\ (r = <<>> <=> Len(r) = 0)
  BY <1>a
<1>2. ASSUME NEW i \in 1 .. Len(r)
      PROVE  Parent(t, r[i]) = Before(None, r, i)
  <2>1. CASE i <= n
    <3>1. i \in 1 .. n /\ r[i] = f[i] /\ (i # 1 => i - 1 \in 1 .. n)
      BY <1>0, <1>1, <2>1
    <3>2. Before(None, r, i) = Before(None, f, i)
      BY <1>1, <3>1 DEF Before
    <3> QED
      BY <3>1, <3>2 DEF IsChain
  <2>2. CASE i > n
    <3> DEFINE j == i - n
    <3>1. j \in 1 .. Len(q) /\ i = n + j /\ i \in Nat
      BY <1>0, <1>1, <2>2
    <3> HIDE DEF j
    <3>2. r[i] = q[j]
      BY <1>1, <3>1
    <3>3. Parent(t, q[j]) = Before(IF f = <<>> THEN None ELSE f[n], q, j)
      BY <3>1 DEF IsChain, LastOf
    <3>4. CASE j = 1 /\ n = 0
      BY <1>0, <3>1, <3>2, <3>3, <3>4 DEF Before
    <3>5. CASE j = 1 /\ n # 0
      <4>1. i # 1 /\ i - 1 = n /\ n \in 1 .. n
        BY <1>0, <3>1, <3>5
      <4>2. r[i - 1] = f[n]
        BY <1>1, <4>1
      <4> QED
        BY <1>0, <3>2, <3>3, <3>5, <4>1, <4>2 DEF Before
    <3>6. CASE j # 1
      <4>1. i # 1 /\ i - 1 = n + (j - 1) /\ j - 1 \in 1 .. Len(q)
        BY <1>0, <3>1, <3>6
      <4>2. r[i - 1] = q[j - 1]
        BY <1>1, <4>1
      <4> QED
        BY <3>2, <3>3, <3>6, <4>1, <4>2 DEF Before
    <3> QED
      BY <3>4, <3>5, <3>6
  <2> QED
    BY <1>0, <1>1, <2>1, <2>2
<1>3. LastOf(None, r) = LastOf(LastOf(None, f), q) /\ (r # <<>> => f # <<>> \/ q # <<>>)
  <2>1. CASE q = <<>>
    <3>1. Len(r) = n /\ (n # 0 => n \in 1 .. n)
      BY <1>0, <1>1, <2>1
    <3> QED
      BY <1>0, <1>1, <2>1, <3>1 DEF LastOf
  <2>2. CASE q # <<>>
    <3>1. Len(q) \in 1 .. Len(q) /\ Len(r) # 0
      BY <1>0, <1>1, <2>2
    <3> QED
      BY <1>1, <2>2, <3>1 DEF LastOf
  <2> QED
    BY <2>1, <2>2
<1> QED
  BY <1>1, <1>2, <1>3 DEF IsChain

\* The state has grown, and finality is detected in it, or not.
LEMMA FinalGrows ==
    ASSUME SafeWorld, SafeWorld', FinalInv, ~ evidenceOnly,
           Continues(units, units'), Continues(blocks, blocks'),
           finalized' = finalized \/ DetectFinality
    PROVE  FinalInv'
<1>0. World(units, blocks) /\ World(units', blocks') /\ Tops(units', panorama')
  BY DEF SafeWorld
<1>1. /\ IsChain(blocks, None, finalized)
      /\ finalized # <<>> => \E s : Summit(units, blocks, LastFinalized, s)
  BY DEF FinalInv
<1>2. DOMAIN blocks \subseteq DOMAIN blocks'
  BY DEF Continues
<1>3. finalized \in Seq(DOMAIN blocks) /\ finalized \in Seq(DOMAIN blocks')
  BY <1>1, <1>2 DEF IsChain
<1>4. IsChain(blocks', None, finalized)
  <2>1. IsTree(blocks) /\ IsTree(blocks')
    BY <1>0, WorldFacts
  <2>2. \A x \in DOMAIN blocks : Parent(blocks', x) = Parent(blocks, x)
    BY <2>1, SameLines
  <2>3. \A i \in 1 .. Len(finalized) : finalized[i] \in DOMAIN blocks
    BY <1>3
  <2> QED
    BY <1>1, <1>3, <2>2, <2>3 DEF IsChain
<1>5. finalized # <<>> => \E s : Summit(units', blocks', LastFinalized, s)
  <2> SUFFICES ASSUME finalized # <<>> PROVE \E s : Summit(units', blocks', LastFinalized, s)
    OBVIOUS
  <2>1. PICK s : Summit(units, blocks, LastFinalized, s)
    BY <1>1
  <2>2. Summit(units', blocks', LastFinalized, s)
    BY <1>0, <2>1, SummitStays
  <2> QED
    BY <2>2
<1>6. CASE finalized' = finalized
  <2>1. LastFinalized' = LastFinalized
    BY <1>6 DEF LastFinalized
  <2> QED
    BY <1>3, <1>4, <1>5, <1>6, <2>1 DEF FinalInv
<1>7. CASE DetectFinality
  <2> DEFINE last == LastFinalized
             q == Run(units', blocks', panorama', last)
  <2>0. last = LastOf(None, finalized)
    BY DEF LastFinalized, LastOf
  <2>1. last \in DOMAIN blocks' \cup {None} /\ (last # None => finalized # <<>>)
    <3>1. CASE finalized = <<>>
      BY <3>1 DEF LastFinalized
    <3>2. CASE finalized # <<>>
      <4>1. Len(finalized) \in 1 .. Len(finalized)
        BY <1>3, <3>2
      <4>2. finalized[Len(finalized)] \in DOMAIN blocks'
        BY <1>3, <4>1
      <4> QED
        BY <3>2, <4>2 DEF LastFinalized
    <3> QED
      BY <3>1, <3>2
  <2>2. last # None => \E s : Summit(units', blocks', last, s)
    BY <1>5, <2>1
  <2>3. finalized' = finalized \o q
    BY <1>7 DEF DetectFinality
  <2> HIDE DEF last
  <2>8. Joins(finalized, q, finalized')
    BY <2>3 DEF Joins
  <2>4. /\ q \in Seq(DOMAIN blocks')
        /\ \A i \in 1 .. Len(q) : /\ Parent(blocks', q[i]) = Before(last, q, i)
                                  /\ \E s : Summit(units', blocks', q[i], s)
    BY <1>0, <2>1, <2>2, RunIs
  <2> HIDE DEF q
  <2>5. IsChain(blocks', LastOf(None, finalized), q)
    BY <2>0, <2>4 DEF IsChain
  <2>6. /\ IsChain(blocks', None, finalized')
        /\ LastOf(None, finalized') = LastOf(LastOf(None, finalized), q)
        /\ finalized' # <<>> => finalized # <<>> \/ q # <<>>
    BY <1>4, <2>5, <2>8, ChainGrows
  <2>7. ASSUME finalized' # <<>> PROVE \E s : Summit(units', blocks', LastFinalized', s)
    <3>1. LastFinalized' = LastOf(last, q)
      BY <2>0, <2>6 DEF LastFinalized, LastOf
    <3>2. CASE q = <<>>
      <4>1. finalized # <<>> /\ LastFinalized' = LastFinalized
        BY <2>6, <2>7, <3>1, <3>2 DEF LastOf, last
      <4> QED
        BY <1>5, <4>1
    <3>3. CASE q # <<>>
      <4>1. LastFinalized' = q[Len(q)] /\ Len(q) \in 1 .. Len(q)
        BY <2>4, <3>1, <3>3 DEF LastOf
      <4> QED
        BY <2>4, <4>1
    <3> QED
      BY <3>2, <3>3
  <2> QED
    BY <2>6, <2>7 DEF FinalInv
<1> QED
  BY <1>6, <1>7

\* Every step keeps the finalized blocks a chain with a summit at its end.
LEMMA FinalStep ==
    /\ IInv /\ IInv' /\ Swimlanes /\ ValidInv /\ SafeWorld /\ SafeWorld' /\ FinalInv
    /\ [Next]_vars
    => FinalInv'
<1> SUFFICES ASSUME IInv, IInv', Swimlanes, ValidInv, SafeWorld, SafeWorld', FinalInv, [Next]_vars
             PROVE  FinalInv'
  OBVIOUS
<1>1. CASE /\ UNCHANGED <<units, blocks, evidenceOnly>>
           /\ finalized' = finalized \/ DetectFinality
  <2>1. Continues(units, units') /\ Continues(blocks, blocks')
    BY <1>1 DEF Continues
  <2>2. CASE evidenceOnly
    BY <1>1, <2>2 DEF FinalInv
  <2> QED
    BY <1>1, <2>1, <2>2, FinalGrows
<1>2. ASSUME NEW w \in WireUnits, NEW h \in UsedHashes,
             Extends(w), Checked(w), w.proposal \/ CorrectIn(w.panorama) # {},
             AddValidUnit(w, h), DetectFinality, UNCHANGED evidenceOnly
      PROVE  FinalInv'
  <2>1. Core /\ Core' /\ IsState(units, blocks) /\ Knows(units, w.panorama)
    BY <1>2, DependenciesKnown DEF IInv, ValidInv, Checked
  <2>2. Continues(units, units') /\ Continues(blocks, blocks')
    BY <1>2, <2>1, StateGrows
  <2>3. CASE evidenceOnly
    BY <1>2, <2>3 DEF FinalInv
  <2> QED
    BY <1>2, <2>2, <2>3, FinalGrows
<1>3. CASE SetEvidenceOnly
  BY <1>3 DEF SetEvidenceOnly, FinalInv
<1> QED
  BY <1>1, <1>2, <1>3, StepsAre

\* A summit is safe while the faults are below the threshold.
LEMMA FinalChosen == SafeWorld /\ FinalInv => FinalizedIsChosen
<1> SUFFICES ASSUME SafeWorld, FinalInv, ~ evidenceOnly
             PROVE  /\ \A i \in DOMAIN finalized :
                           Parent(blocks, finalized[i]) = IF i = 1 THEN None ELSE finalized[i - 1]
                    /\ finalized # <<>> /\ ~ FttExceeded(panorama) =>
                           LET choice == Choice(units, blocks, panorama)
                               last == LastFinalized
                           IN /\ choice # None
                              /\ FindAncestorProposal(blocks, choice, blocks[last].height) = last
  BY DEF FinalizedIsChosen
<1>1. /\ World(units, blocks) /\ Tops(units, panorama)
      /\ IsChain(blocks, None, finalized)
      /\ finalized # <<>> => \E s : Summit(units, blocks, LastFinalized, s)
  BY DEF SafeWorld, FinalInv
<1>2. \A i \in DOMAIN finalized :
          Parent(blocks, finalized[i]) = IF i = 1 THEN None ELSE finalized[i - 1]
  <2>1. DOMAIN finalized = 1 .. Len(finalized)
    BY <1>1 DEF IsChain
  <2> QED
    BY <1>1, <2>1 DEF Before, IsChain
<1>3. ASSUME finalized # <<>>, ~ FttExceeded(panorama)
      PROVE  /\ Choice(units, blocks, panorama) # None
             /\ FindAncestorProposal(blocks, Choice(units, blocks, panorama),
                                     blocks[LastFinalized].height) = LastFinalized
  <2>1. PICK s : Summit(units, blocks, LastFinalized, s)
    BY <1>1, <1>3
  <2>2. FaultyWeight(panorama) < Ftt
    <3>1. FaultyIn(panorama) \in SUBSET Validators
      BY DEF FaultyIn
    <3>2. FaultyWeight(panorama) \in Nat
      BY <3>1, WtOK DEF FaultyWeight, Wt
    <3>3. Ftt \in Nat
      BY TopLevelAssumption
    <3>4. ~ (FaultyWeight(panorama) >= Ftt)
      BY <1>3 DEF FttExceeded
    <3> QED
      BY <3>2, <3>3, <3>4
  <2>3. /\ Choice(units, blocks, panorama) \in DOMAIN blocks
        /\ LastFinalized \in Line(blocks, Choice(units, blocks, panorama))
    BY <1>1, <2>1, <2>2, SummitChosen
  <2>4. Choice(units, blocks, panorama) # None
    BY <1>1, <2>3, WorldFacts, TreeBasics
  <2> QED
    BY <2>3, <2>4 DEF Line
<1> QED
  BY <1>2, <1>3

\* The finalized blocks are a chain from the first block of the era on, and later units
\* never lead the fork choice away from it while the faults are below the threshold
\* (FinalityDetector::run, FinalityDetector::next_candidate): finality is safe, for any
\* number of validators, weights, threshold and order of what peers send.
THEOREM FinalitySafe == Spec => []FinalizedIsChosen
<1>1. ProtocolInit => ValidInv /\ LaneInv /\ FinalInv
  <2> SUFFICES ASSUME ProtocolInit PROVE ValidInv /\ LaneInv /\ FinalInv
    OBVIOUS
  <2>1. DOMAIN units = {} /\ DOMAIN blocks = {} /\ pendingValues = {} /\ finalized = <<>>
    BY DEF ProtocolInit, Init
  <2>2. IsState(units, blocks)
    BY <2>1, EmptyTree DEF IsState, Skips
  <2>3. ValidInv
    BY <2>1, <2>2 DEF ValidInv, VotesAreChoices
  <2>4. FinalInv
    BY <2>1 DEF FinalInv, IsChain
  <2> QED
    BY <2>1, <2>3, <2>4, LaneEmpty
<1>2. IInv /\ LatestUnits /\ ValidInv /\ LaneInv => SafeWorld
  BY WorldIs, TopsAre DEF SafeWorld, IInv
<1>3. Spec => [](ValidInv /\ LaneInv)
  BY <1>1, Invariance, SwimlanesHold, ValidStep, LaneStep, PTL DEF Spec
<1>4. Spec => []SafeWorld
  BY <1>2, <1>3, Invariance, LatestReached, PTL
<1>5. Spec => []FinalInv
  BY <1>1, <1>3, <1>4, Invariance, SwimlanesHold, FinalStep, PTL DEF Spec
<1> QED
  BY <1>4, <1>5, FinalChosen, PTL
=============================================================================
