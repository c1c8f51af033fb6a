--------------------------- MODULE HighwayProtocol ---------------------------
(***************************************************************************)
(* The handlers of the Highway protocol of one era: vertices received from *)
(* peers are validated, proposals wait for their value to be validated,    *)
(* the protocol state grows and finality is detected                       *)
(* (node/src/components/consensus/protocols/highway.rs and                 *)
(* highway_core/highway.rs), on top of HighwayState and FinalityDetector.  *)
(*                                                                         *)
(* Peers send whatever passes the validation.  The validators outside      *)
(* Equivocators follow the protocol: each of their units cites their       *)
(* latest one.                                                             *)
(***************************************************************************)
EXTENDS FinalityDetector

CONSTANTS
    PingTimes,  \* bound: the timestamps of pings
    MaxPending  \* bound: how many proposals are validated at the same time

ASSUME ProtocolAssumption == PingTimes \subseteq Times /\ MaxPending \in Nat

VARIABLES
    pendingValues,  \* validated proposals that wait for resolve_validity
    evidenceOnly,   \* HighwayProtocol::evidence_only
    finalized       \* the finalized blocks in order; the last is last_finalized

vars == <<units, blocks, faults, panorama, pings, pendingValues, evidenceOnly, finalized>>

LastFinalized == IF finalized = <<>> THEN None ELSE finalized[Len(finalized)]

ProtocolInit ==
    /\ Init
    /\ pendingValues = {}
    /\ evidenceOnly = FALSE
    /\ finalized = <<>>

\* HighwayProtocol::detect_finality in the state that the handler has reached.
DetectFinality ==
    finalized' = finalized \o Run(units', blocks', panorama', LastFinalized)

-----------------------------------------------------------------------------
(* What peers send.                                                        *)

UnitsBy(v) == {h \in DOMAIN units : units[h].creator = v}
PendingBy(v) == {p \in pendingValues : p.unit.creator = v}

\* The hash of the next unit of v.
NextHash(v) == <<v, Cardinality(UnitsBy(v)) + Cardinality(PendingBy(v))>>

\* A validator that follows the protocol continues its own swimlane.
FollowsProtocol(w) ==
    LET own == UnitsBy(w.creator) IN
    /\ PendingBy(w.creator) = {}
    /\ IF own = {} THEN w.panorama[w.creator] = None
       ELSE /\ w.panorama[w.creator] \in own
            /\ \A h \in own : units[h].seq <= units[w.panorama[w.creator]].seq

\* The panoramas that a unit may have: those whose dependencies are satisfied.
CitablePanoramas ==
    {pan \in [Validators -> DOMAIN units \cup {None, Faulty}] :
        /\ \A v \in CorrectIn(pan) : units[pan[v]].creator = v
        /\ HasDependencies(units, pan)}

-----------------------------------------------------------------------------
(* The handlers.                                                           *)

\* A unit that gets through pre_validate_vertex, the synchronizer and
\* validate_vertex.
IsValid(w) ==
    /\ ~ evidenceOnly
    /\ w.creator \in Equivocators \/ FollowsProtocol(w)
    /\ PreValidateUnit(w)
    /\ HasDependencies(units, w.panorama)
    /\ ValidateUnit(units, blocks, w)

\* HighwayProtocol::add_vertex for a unit, or for a proposal whose value needs no
\* validation.
AddVertex(w) ==
    /\ IsValid(w)
    /\ AddValidUnit(w, NextHash(w.creator))
    /\ DetectFinality
    /\ UNCHANGED <<pendingValues, evidenceOnly>>

\* HighwayProtocol::add_vertex for a proposal whose value has to be validated.
AwaitValidity(w) ==
    /\ w.proposal
    /\ Cardinality(pendingValues) < MaxPending
    /\ IsValid(w)
    /\ pendingValues' = pendingValues \cup {[unit |-> w, hash |-> NextHash(w.creator)]}
    /\ UNCHANGED <<stateVars, finalized, evidenceOnly>>

\* HighwayProtocol::resolve_validity
ResolveValidity(p, valid) ==
    /\ pendingValues' = pendingValues \ {p}
    /\ IF valid THEN AddValidUnit(p.unit, p.hash) /\ DetectFinality
       ELSE UNCHANGED <<stateVars, finalized>>
    /\ UNCHANGED evidenceOnly

\* HighwayProtocol::add_vertex for evidence, which peers have against
\* equivocators only.
AddEvidenceVertex(v) ==
    /\ v \in Equivocators
    /\ faults[v] # "Direct"
    /\ AddEvidence(v)
    /\ DetectFinality
    /\ UNCHANGED <<pendingValues, evidenceOnly>>

\* HighwayProtocol::add_vertex for a ping.
AddPingVertex(v, timestamp) ==
    /\ ~ evidenceOnly
    /\ pings[v] < timestamp
    /\ AddPing(v, timestamp)
    /\ DetectFinality
    /\ UNCHANGED <<pendingValues, evidenceOnly>>

\* HighwayProtocol::mark_faulty, for a validator found faulty in another era.
MarkValidatorFaulty(v) ==
    /\ v \in Equivocators
    /\ MarkFaulty(v)
    /\ UNCHANGED <<pendingValues, evidenceOnly, finalized>>

\* HighwayProtocol::set_evidence_only
SetEvidenceOnly ==
    /\ pendingValues' = {}
    /\ RetainEvidenceOnly
    /\ evidenceOnly' = TRUE
    /\ UNCHANGED finalized

WireUnit(v, pan, t, re, proposal) ==
    [creator |-> v, seq |-> NextSeqNum(units, pan, v), panorama |-> pan,
     timestamp |-> t, roundExp |-> re, proposal |-> proposal]

Next ==
    \/ /\ Cardinality(DOMAIN units) + Cardinality(pendingValues) < MaxUnits
       /\ \E pan \in CitablePanoramas, v \in Validators, t \in Times,
             re \in MinRoundExp .. MaxRoundExp, proposal \in BOOLEAN :
              LET w == WireUnit(v, pan, t, re, proposal) IN AddVertex(w) \/ AwaitValidity(w)
    \/ \E p \in pendingValues, valid \in BOOLEAN : ResolveValidity(p, valid)
    \/ \E v \in Validators : AddEvidenceVertex(v)
    \/ \E v \in Validators : MarkValidatorFaulty(v)
    \/ \E v \in Validators, t \in PingTimes : AddPingVertex(v, t)
    \/ SetEvidenceOnly

Spec == ProtocolInit /\ [][Next]_vars

-----------------------------------------------------------------------------
(* Properties.                                                             *)

\* Every observation is one of a unit that is still known, in the node's
\* panorama and in that of every unit: no handler panics (State::unit).
TypeOK ==
    /\ DOMAIN units \subseteq Hashes
    /\ DOMAIN blocks \subseteq DOMAIN units
    /\ \A h \in DOMAIN units :
           /\ units[h].creator \in Validators
           /\ units[h].seq \in Nat
           /\ units[h].timestamp \in Times
           /\ units[h].panorama \in [Validators -> DOMAIN units \cup {None, Faulty}]
    /\ faults \in [Validators -> {"none", "Banned", "Direct", "Indirect"}]
    /\ panorama \in [Validators -> DOMAIN units \cup {None, Faulty}]
    /\ pings \in [Validators -> Times]
    /\ evidenceOnly \in BOOLEAN

\* A validator is observed as faulty exactly if a fault of it is recorded
\* (State::panorama and State::faults).
FaultsMatchPanorama ==
    \A v \in Validators : panorama[v] = Faulty <=> faults[v] # "none"

\* "Every validator that has an equivocation in `units` must have an entry" in
\* State::faults, in whatever order its units and the evidence arrive.
EquivocationIsFault ==
    \A g, h \in DOMAIN units :
        g # h /\ units[g].creator = units[h].creator /\ units[g].seq = units[h].seq
            => faults[units[g].creator] # "none"

\* The panorama "points to the latest unit of every honest validator", from which
\* find_in_swimlane leads to all the others (State::panorama); without a unit in
\* it there is none in the state, so that add_valid_unit never panics.
LatestUnits ==
    \A h \in DOMAIN units :
        LET v == units[h].creator IN
        panorama[v] # Faulty =>
            /\ panorama[v] # None
            /\ units[panorama[v]].creator = v
            /\ units[h].seq <= units[panorama[v]].seq
            /\ FindInSwimlane(units, panorama[v], units[h].seq) = h

\* No order of units, evidence, pending proposals and faults of others makes a
\* validator that follows the protocol a faulty one (State::add_valid_unit).
HonestNotAccused ==
    \A v \in Validators \ (Equivocators \cup Banned) : faults[v] = "none"

\* What was valid stays valid while the state grows: a proposal can be added after
\* its value was validated (HighwayProtocol::pending_values), and the block that a
\* unit votes for is the fork choice of its panorama for good (Unit::block).
ValidForever ==
    /\ \A p \in pendingValues :
           /\ HasDependencies(units, p.unit.panorama)
           /\ ValidateUnit(units, blocks, p.unit)
    /\ \A h \in DOMAIN units :
           LET w == [creator |-> units[h].creator, seq |-> units[h].seq,
                     panorama |-> units[h].panorama, timestamp |-> units[h].timestamp,
                     roundExp |-> units[h].roundExp, proposal |-> h \in DOMAIN blocks]
           IN /\ HasDependencies(units, w.panorama)
              /\ ValidateUnit(units, blocks, w)
              /\ units[h].block = IF w.proposal THEN h ELSE Choice(units, blocks, w.panorama)

\* The finalized blocks are a chain from the first block of the era on, none
\* skipped, and as long as the faults are below the threshold that chain stays
\* in the fork choice: later units never lead to another one
\* (FinalityDetector::run, FinalityDetector::next_candidate).
FinalizedIsChosen ==
    ~ evidenceOnly =>
        /\ \A i \in DOMAIN finalized :
               Parent(blocks, finalized[i]) = IF i = 1 THEN None ELSE finalized[i - 1]
        /\ finalized # <<>> /\ ~ FttExceeded(panorama) =>
               LET choice == Choice(units, blocks, panorama)
                   last == LastFinalized
               IN /\ choice # None
                  /\ FindAncestorProposal(blocks, choice, blocks[last].height) = last

\* A fault is never forgotten, and evidence is never replaced by the mere mark of
\* a fault, not even when everything but the evidence is dropped
\* (State::mark_faulty, State::add_evidence, State::retain_evidence_only).
EvidenceIsKept ==
    [][\A v \in Validators :
          /\ faults[v] # "none" => faults'[v] # "none"
          /\ faults[v] \in {"Banned", "Direct"} => faults'[v] = faults[v]]_vars
=============================================================================
