-------------------------- MODULE FinalityDetector --------------------------
(***************************************************************************)
(* The finality detector of Highway: a block of the fork choice is final   *)
(* once the units show a summit of a level and a quorum that together      *)
(* withstand faults of weight Ftt                                          *)
(* (node/src/components/consensus/highway_core/finality_detector.rs and    *)
(* finality_detector/horizon.rs).                                          *)
(*                                                                         *)
(* The operators work on the units U, the blocks B and the panorama pan of *)
(* a protocol state.  A horizon maps the members of a committee to the     *)
(* sequence number of their earliest unit of its level, the others to      *)
(* None.                                                                   *)
(***************************************************************************)
EXTENDS HighwayState

CONSTANTS
    Ftt,      \* FinalityDetector::ftt, the fault tolerance threshold
    TopLevel  \* bound: the level at which the search for a summit starts

TotalWeight == SumFunction(Weight)

\* FinalityDetector::quorum_for_lvl, rounded up.  (Mutant: the share of the
\* threshold is left out.)
QuorumForLvlMutant(lvl) ==
    ((Pow2[lvl] - 1) * TotalWeight + 2 * Pow2[lvl] - 3) \div (2 * Pow2[lvl] - 2)
QuorumForLvl(lvl) ==
    ((Pow2[lvl] - 1) * TotalWeight + Pow2[lvl] * Ftt + 2 * Pow2[lvl] - 3)
        \div (2 * Pow2[lvl] - 2)

\* The quorum for a level falls towards (TotalWeight + Ftt) / 2.  The code starts
\* at level 63.  From TopLevel on the rounded quorum is the same, and the search
\* finds what it would find from any level above.
ASSUME TopLevelAssumption ==
    Ftt \in Nat \ {0} /\ TopLevel \in Nat \ {0} /\ Ftt <= Pow2[TopLevel] - 1

\* A horizon tells its members from the others.
ASSUME HorizonAssumption == None \notin Nat

-----------------------------------------------------------------------------
(* Horizons.                                                               *)

\* The sequence number of the oldest unit that is reached from h, backwards in
\* its swimlane, through units in good only (swimlane(..).take_while(..).last()).
OldestOfStreak(U, h, good) ==
    LET oldest[x \in DOMAIN U] ==
            IF Previous(U[x]) \in good THEN oldest[Previous(U[x])] ELSE x
    IN IF h \in good THEN U[oldest[h]].seq ELSE None

Members(horizon) == {v \in Validators : horizon[v] # None}

\* Horizon::level0
Level0(U, B, pan, candidate) ==
    LET good == {h \in DOMAIN U :
                    FindAncestorProposal(B, U[h].block, B[candidate].height) = candidate}
    IN [v \in Validators |->
            IF IsCorrect(pan[v]) THEN OldestOfStreak(U, pan[v], good) ELSE None]

\* Horizon::can_see
CanSee(U, horizon, unit, v) ==
    /\ horizon[v] # None
    /\ IF unit.creator = v THEN unit.seq >= horizon[v]
       ELSE IsCorrect(unit.panorama[v]) /\ U[unit.panorama[v]].seq >= horizon[v]

\* Horizon::seen_weight
SeenWeight(U, horizon, unit, committee) ==
    SumFunctionOnSet(Weight, {v \in committee : CanSee(U, horizon, unit, v)})

\* Horizon::prune_committee: drop the members that see too little of the committee
\* until all are kept.
PruneFurther(prune, kept, committee) == IF kept = committee THEN kept ELSE prune[kept]
PruneCommittee(U, pan, horizon, quorum, committee) ==
    LET prune[c \in SUBSET Validators] ==
            PruneFurther(prune,
                         {v \in c : SeenWeight(U, horizon, U[pan[v]], c) >= quorum}, c)
    IN prune[committee]

\* Horizon::next_from_committee
NextFromCommittee(U, pan, horizon, quorum, committee) ==
    LET good == {h \in DOMAIN U : SeenWeight(U, horizon, U[h], committee) >= quorum}
    IN [v \in Validators |->
            IF v \in committee THEN OldestOfStreak(U, pan[v], good) ELSE None]

\* Horizon::next; a horizon without members stands for None.
NextHorizon(U, pan, horizon, quorum) ==
    NextFromCommittee(U, pan, horizon, quorum,
                      PruneCommittee(U, pan, horizon, quorum, Members(horizon)))

-----------------------------------------------------------------------------
(* Summits.                                                                *)

\* FinalityDetector::find_summit: how many horizons follow the one of level 0.
FindSummit(U, B, pan, target, candidate) ==
    LET horizon[n \in 0 .. target] ==
            IF n = 0 THEN Level0(U, B, pan, candidate)
            ELSE NextHorizon(U, pan, horizon[n - 1], QuorumForLvl(target))
    IN Cardinality({n \in 1 .. target : Members(horizon[n]) # {}})

\* FinalityDetector::next_height
NextHeight(B, last) == IF last = None THEN 0 ELSE B[last].height + 1

\* FinalityDetector::next_candidate
AncestorOfChoice(B, choice, height) ==
    IF choice = None THEN None ELSE FindAncestorProposal(B, choice, height)
NextCandidate(U, B, pan, last) ==
    AncestorOfChoice(B, Choice(U, B, pan), NextHeight(B, last))

\* Whether the candidate has a summit, at the highest level that there is: the
\* search goes on with the level that was found, and ends with 0 if there is none.
SearchFurther(search, target, lvl) == IF lvl = target THEN lvl ELSE search[lvl]
HasSummit(U, B, pan, candidate) ==
    LET search[target \in 0 .. TopLevel] ==
            SearchFurther(search, target, FindSummit(U, B, pan, target, candidate))
    IN search[TopLevel] > 0

\* FinalityDetector::next_finalized: the block that is final after last, if any.
FinalOr(U, B, pan, candidate) ==
    IF candidate # None /\ HasSummit(U, B, pan, candidate) THEN candidate ELSE None
NextFinalized(U, B, pan, last) == FinalOr(U, B, pan, NextCandidate(U, B, pan, last))

\* The check at the start of FinalityDetector::run.
FttExceeded(pan) ==
    \/ FaultyWeight(pan) >= Ftt
    \/ FaultyWeight(pan) > (TotalWeight - 1) \div 2

\* FinalityDetector::run: all blocks that have become final since last.
RunFurther(after, next) == IF next = None THEN <<>> ELSE <<next>> \o after[next]
Run(U, B, pan, last) ==
    LET after[b \in DOMAIN B \cup {None, last}] ==
            RunFurther(after, NextFinalized(U, B, pan, b))
    IN IF FttExceeded(pan) THEN <<>> ELSE after[last]
=============================================================================
