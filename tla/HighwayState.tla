---------------------------- MODULE HighwayState ----------------------------
(***************************************************************************)
(* The protocol state of a Highway instance: the units, blocks, faults and *)
(* latest observations that a node keeps for an era                        *)
(* (node/src/components/consensus/highway_core/state.rs, with              *)
(* state/panorama.rs and state/unit.rs).                                   *)
(*                                                                         *)
(* An observation is None, Faulty or the hash of a unit (Correct).  A wire *)
(* unit is a record with the fields that its creator signs; it is given    *)
(* the hash <<creator, n>>, where n tells the creator's units apart.       *)
(* Endorsements are switched off in the code (ENABLE_ENDORSEMENTS).        *)
(***************************************************************************)
EXTENDS BlockTree, Integers

CONSTANTS
    N,              \* the number of validators
    Weight,         \* State::weights
    Banned,         \* validators excluded from this era
    CannotPropose,  \* validators that are not assigned slots as leaders
    Draw, Redraw,   \* leader_prng at every timestamp, for all and for the leaders
    MinRoundExp, MaxRoundExp, EndHeight, EndTimestamp,  \* Params
    MaxTime,        \* bound: the last timestamp of a unit or ping
    MaxUnits,       \* bound: how many units there are
    Equivocators,   \* validators that may create conflicting units
    Faulty,         \* Observation::Faulty
    Panic           \* the outcome of a failed assertion

Validators == 1 .. N
Times == 0 .. MaxTime
Hashes == Validators \X Nat
UsedHashes == Validators \X (0 .. MaxUnits)

ASSUME StateAssumption ==
    /\ N \in Nat /\ MaxTime \in Nat /\ MaxUnits \in Nat
    /\ Weight \in [Validators -> Nat]
    /\ Banned \subseteq Validators
    /\ Equivocators \subseteq Validators
    /\ MinRoundExp \in Nat /\ MaxRoundExp \in Nat

\* The special observations are not hashes of units.
ASSUME ObservationAssumption ==
    /\ None \notin Hashes /\ Faulty \notin Hashes /\ Panic \notin Hashes
    /\ None # Faulty /\ None # Panic /\ Faulty # Panic

\* The fork choice compares hashes, which differ, and counts weights, none of which
\* is zero.
ASSUME ChoiceAssumption ==
    /\ Weight \in [Validators -> Nat \ {0}]
    /\ \A g \in UsedHashes : HashRank(g) \in Int
    /\ \A g, h \in UsedHashes : HashRank(g) = HashRank(h) => g = h

VARIABLES
    units,     \* State::units, a function on the hashes of the known units
    blocks,    \* State::blocks, a function on the hashes of the proposals
    faults,    \* State::faults: "none", "Banned", "Direct" or "Indirect"
    panorama,  \* State::panorama, the latest observation of every validator
    pings      \* State::pings, when each validator was last heard of

stateVars == <<units, blocks, faults, panorama, pings>>

Observations == Hashes \cup {None, Faulty}
Panoramas == [Validators -> Observations]
WireUnits == [creator : Validators, seq : Nat, panorama : Panoramas, timestamp : Times,
              roundExp : Nat, proposal : BOOLEAN]

\* State::new
Init ==
    /\ units = [h \in {} |-> None]
    /\ blocks = [h \in {} |-> None]
    /\ faults = [v \in Validators |-> IF v \in Banned THEN "Banned" ELSE "none"]
    /\ panorama = [v \in Validators |-> IF v \in Banned THEN Faulty ELSE None]
    /\ pings = [v \in Validators |-> 0]

-----------------------------------------------------------------------------
(* Rounds and leaders.                                                     *)

RoundId(timestamp, roundExp) == (timestamp \div 2^roundExp) * 2^roundExp

\* The validator that owns the r-th unit of weight.
Owner(weight, r) ==
    CHOOSE v \in Validators :
        /\ SumFunctionOnSet(weight, 1 .. v) >= r
        /\ SumFunctionOnSet(weight, 1 .. v - 1) < r

\* State::leader
Leader(timestamp) ==
    LET v == Owner(Weight, Draw[timestamp]) IN
    IF v \notin CannotPropose THEN v
    ELSE Owner([w \in Validators |-> IF w \in CannotPropose THEN 0 ELSE Weight[w]],
               Redraw[timestamp])

-----------------------------------------------------------------------------
(* Panoramas, as seen with the units U.                                    *)

IsCorrect(obs) == obs \in Hashes
CorrectIn(pan) == {v \in Validators : IsCorrect(pan[v])}
FaultyIn(pan) == {v \in Validators : pan[v] = Faulty}

\* Unit::previous
Previous(unit) == IF unit.skip = <<>> THEN None ELSE unit.skip[1]

\* State::find_in_swimlane
FindInSwimlane(U, h, seq) ==
    Back([x \in DOMAIN U |-> U[x].skip], [x \in DOMAIN U |-> U[x].seq], h, seq)

\* Panorama::sees_correct
SeesCorrect(U, pan, h) ==
    LET latest == pan[U[h].creator] IN
    IsCorrect(latest) /\ FindInSwimlane(U, latest, U[h].seq) = h

\* Observation::geq and Panorama::geq
ObservationGeq(U, obs0, obs1) ==
    \/ obs0 = Faulty
    \/ obs1 = None
    \/ /\ IsCorrect(obs0) /\ IsCorrect(obs1)
       /\ obs0 = obs1 \/ SeesCorrect(U, U[obs0].panorama, obs1)
Geq(U, pan0, pan1) == \A v \in Validators : ObservationGeq(U, pan0[v], pan1[v])

\* Panorama::validate
ValidatePanorama(U, pan) ==
    /\ \A v \in CorrectIn(pan) : U[pan[v]].creator = v
    /\ \A v \in CorrectIn(pan) : Geq(U, pan, U[pan[v]].panorama)

\* Panorama::missing_dependency: whether every observation refers to something known.
HasDependencies(U, pan) ==
    \A v \in Validators :
        /\ IsCorrect(pan[v]) => pan[v] \in DOMAIN U
        /\ pan[v] = Faulty => faults[v] # "none"

\* Panorama::next_seq_num
NextSeqNum(U, pan, v) == IF IsCorrect(pan[v]) THEN U[pan[v]].seq + 1 ELSE 0

FaultyWeight(pan) == SumFunctionOnSet(Weight, FaultyIn(pan))

\* State::fork_choice of a panorama: the votes are those of the observed units.
\* (Mutant: the node's own panorama is used.)
ChoiceMutant(U, B, pan) ==
    ForkChoice(B, [v \in CorrectIn(panorama) |-> U[panorama[v]].block], Weight)
Choice(U, B, pan) ==
    ForkChoice(B, [v \in CorrectIn(pan) |-> U[pan[v]].block], Weight)

-----------------------------------------------------------------------------
(* Validation of a wire unit w.                                            *)

\* State::is_terminal_block
IsTerminalBlock(U, B, h) ==
    /\ h \in DOMAIN B
    /\ B[h].height + 1 >= EndHeight
    /\ U[h].timestamp >= EndTimestamp

\* State::pre_validate_unit
PreValidateUnit(w) ==
    /\ faults[w.creator] # "Banned"
    /\ w.roundExp \in MinRoundExp .. MaxRoundExp
    /\ w.proposal \/ CorrectIn(w.panorama) # {}
    /\ w.panorama[w.creator] # Faulty

\* The checks of validate_unit against the creator's previous units.
ValidRound(U, w) ==
    IsCorrect(w.panorama[w.creator]) =>
        LET prev == U[w.panorama[w.creator]]
            maxExp == Max({prev.roundExp, w.roundExp})
        IN /\ prev.roundExp # w.roundExp =>
                  prev.timestamp \div 2^maxExp # w.timestamp \div 2^maxExp
           /\ IsCorrect(Previous(prev)) =>
                  LET prev2 == U[Previous(prev)] IN
                  RoundId(prev2.timestamp, prev2.roundExp) # RoundId(w.timestamp, w.roundExp)

\* The checks of validate_unit that a proposal has to pass.
ValidProposal(U, B, w) ==
    LET roundId == RoundId(w.timestamp, w.roundExp) IN
    /\ IsCorrect(w.panorama[w.creator]) =>
           LET prev == U[w.panorama[w.creator]] IN
           RoundId(prev.timestamp, prev.roundExp) # roundId
    /\ w.timestamp = roundId
    /\ Leader(roundId) = w.creator
    /\ ~ IsTerminalBlock(U, B, Choice(U, B, w.panorama))

\* State::validate_unit
ValidateUnit(U, B, w) ==
    /\ \A v \in CorrectIn(w.panorama) : U[w.panorama[v]].timestamp <= w.timestamp
    /\ w.seq = NextSeqNum(U, w.panorama, w.creator)
    /\ ValidRound(U, w)
    /\ w.proposal => ValidProposal(U, B, w)
    /\ ValidatePanorama(U, w.panorama)

-----------------------------------------------------------------------------
(* Changes of the state.                                                   *)

\* Unit::new
NewUnit(w, h) ==
    [creator |-> w.creator, seq |-> w.seq, panorama |-> w.panorama,
     timestamp |-> w.timestamp, roundExp |-> w.roundExp,
     block |-> IF w.proposal THEN h ELSE Choice(units, blocks, w.panorama),
     skip |-> IF IsCorrect(w.panorama[w.creator])
              THEN SkipList([x \in DOMAIN units |-> units[x].skip],
                            w.panorama[w.creator], w.seq)
              ELSE <<>>]

\* The creator's entry in the panorama once the unit is added.  (Mutants: a unit
\* that does not extend the latest one replaces it; every second unit counts as an
\* equivocation.)
NewObservationMutant(w, h) ==
    IF panorama[w.creator] = Faulty THEN Faulty ELSE h
NewObservationMutant2(w, h) ==
    IF panorama[w.creator] = None THEN h ELSE Faulty
NewObservation(w, h) ==
    LET obs == panorama[w.creator] IN
    IF obs = Faulty THEN Faulty
    ELSE IF obs = w.panorama[w.creator] THEN h
    ELSE IF obs = None THEN Panic
    ELSE Faulty

\* State::add_evidence
FaultWithEvidence(fault) == IF fault \in {"Banned", "Direct"} THEN fault ELSE "Direct"

\* State::add_ping
PingAt(v, timestamp) == [pings EXCEPT ![v] = IF timestamp > @ THEN timestamp ELSE @]

\* State::add_valid_unit
AddValidUnit(w, h) ==
    /\ h \notin DOMAIN units
    /\ units' = [x \in DOMAIN units \cup {h} |->
                    IF x = h THEN NewUnit(w, h) ELSE units[x]]
    /\ blocks' = IF w.proposal
                 THEN [x \in DOMAIN blocks \cup {h} |->
                          IF x = h THEN NewBlock(blocks, Choice(units, blocks, w.panorama))
                          ELSE blocks[x]]
                 ELSE blocks
    /\ pings' = PingAt(w.creator, w.timestamp)
    /\ panorama' = [panorama EXCEPT ![w.creator] = NewObservation(w, h)]
    /\ faults' = IF panorama'[w.creator] = Faulty /\ panorama[w.creator] # Faulty
                 THEN [faults EXCEPT ![w.creator] = FaultWithEvidence(@)]
                 ELSE faults

\* State::add_evidence with evidence against v received from a peer.
AddEvidence(v) ==
    /\ faults' = [faults EXCEPT ![v] = FaultWithEvidence(@)]
    /\ panorama' = [panorama EXCEPT ![v] =
                       IF faults[v] \in {"Banned", "Direct"} THEN @ ELSE Faulty]
    /\ UNCHANGED <<units, blocks, pings>>

\* State::mark_faulty
MarkFaulty(v) ==
    /\ panorama' = [panorama EXCEPT ![v] = Faulty]
    /\ faults' = [faults EXCEPT ![v] = IF @ = "none" THEN "Indirect" ELSE @]
    /\ UNCHANGED <<units, blocks, pings>>

AddPing(v, timestamp) ==
    /\ pings' = PingAt(v, timestamp)
    /\ UNCHANGED <<units, blocks, faults, panorama>>

\* State::retain_evidence_only
RetainEvidenceOnly ==
    /\ units' = [h \in {} |-> None]
    /\ blocks' = [h \in {} |-> None]
    /\ panorama' = [v \in Validators |-> IF IsCorrect(panorama[v]) THEN None ELSE panorama[v]]
    /\ UNCHANGED <<faults, pings>>
=============================================================================
