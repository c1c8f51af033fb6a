--------------------------- MODULE ActiveValidator ---------------------------
(***************************************************************************)
(* One validator of the Highway protocol and the units it signs, across    *)
(* restarts within an era (active_validator.rs, with the parts of          *)
(* highway.rs that drive it).                                              *)
(*                                                                         *)
(* The protocol state is lost when the node stops; what remains is the     *)
(* unit file with the last unit the validator signed, and whatever its     *)
(* peers have.  Timers carry their own timestamp and may fire late, the    *)
(* block proposer may answer late, and proposals of other validators and   *)
(* the validator's own earlier units arrive in any order their             *)
(* dependencies allow.                                                     *)
(*                                                                         *)
(* A proposal of another leader is named by its timestamp; the other       *)
(* units of the peers only decide whether enough of them are online, which *)
(* is left open.                                                           *)
(***************************************************************************)
EXTENDS RoundSuccessMeter, FiniteSetsExt

CONSTANTS
    OwnRounds,      \* the timestamps at which this validator is the leader
    PeerRounds,     \* the timestamps at which another leader proposes a block
    EraEnd,         \* a block at this time or later is the era's last one
    MaxTime,        \* bound: the clock
    MaxStops,       \* bound: how often the node stops
    None,           \* no unit, no proposal
    Truncated       \* the unit file was created but not yet written

ASSUME RoundAssumption ==
    /\ OwnRounds \subseteq Nat /\ PeerRounds \subseteq Nat
    /\ OwnRounds \cap PeerRounds = {}
    /\ RoundExps \subseteq Nat \ {0}

ASSUME BoundAssumption == MaxTime \in Nat /\ MaxStops \in Nat /\ EraEnd \in Nat

VARIABLES
    clock,
    proposals,      \* the proposals of other leaders that the peers have
    mode,           \* "active", "down", "observer", or "stopped" by a panic
    seen,           \* the proposals of other leaders in the protocol state
    have,           \* our own units in the protocol state
    meter,          \* the round success meter; next_round_exp is its new_exponent
    nextTimer, nextProposal, ownLastUnit,
    requests,       \* block contexts the block proposer has not answered yet
    ping,           \* the latest ping of ours in the protocol state
    unitFile,       \* the unit file: None, Truncated or a unit
    signed,         \* every unit this validator has ever signed
    peersHave,      \* our own units that the peers have
    pinged,         \* the latest ping the peers got from us
    stops           \* how often the node stopped so far

memory == << seen, have, meter, nextTimer, nextProposal, ownLastUnit,
             requests, ping >>
outside == << proposals, peersHave, pinged >>
vars == << clock, mode, memory, outside, unitFile, signed, stops >>

Time == 0 .. MaxTime

\* A unit of ours: its panorama is our previous unit, the one with the number
\* before, and the proposals it sees.  `asked` is for the properties alone: the
\* exponent of the round for which a block was requested, that of the unit itself
\* if it has no block.
Unit == [seq : Nat, timestamp : Time, roundExp : RoundExps, asked : RoundExps,
         proposal : BOOLEAN, sees : SUBSET PeerRounds]

ASSUME NoneAssumption == None \notin Unit /\ Truncated \notin Unit /\ None # Truncated

\* ActiveValidator::witness_offset
WitnessOffset(exp) == (RoundLen(exp) * 2) \div 3

-----------------------------------------------------------------------------
(* What the validator reads from the protocol state.                       *)

\* ActiveValidator::latest_unit
LatestOf(H) == IF H = {} THEN None ELSE CHOOSE u \in H : \A w \in H : w.seq <= u.seq
Latest == LatestOf(have)

\* Unit::previous
Previous(H, u) == LatestOf({w \in H : w.seq = u.seq - 1})

\* ActiveValidator::round_exp  (Mutant: the new exponent takes effect at once.)
RoundExpMutant(H, next, t) == next
RoundExp(H, next, t) ==
    LET last == LatestOf(H) IN
    IF last = None \/ last.timestamp < RoundId(t, Max({next, last.roundExp}))
    THEN next ELSE last.roundExp

\* ActiveValidator::earliest_unit_time
EarliestUnitTime ==
    CASE Latest = None -> 0
      [] Latest # None /\ Previous(have, Latest) = None -> Latest.timestamp
      [] OTHER -> LET unit2 == Previous(have, Latest) IN
                  Max({Latest.timestamp,
                       RoundId(unit2.timestamp, unit2.roundExp) + RoundLen(unit2.roundExp)})

\* ActiveValidator::can_vote
CanVote == ownLastUnit = None \/ ownLastUnit \in have

\* A unit can be added to a state once everything it cites is there.
PanoramaSync(u, S, H) ==
    /\ u.sees \subseteq S
    /\ u.seq > 0 => \E w \in H : w.seq = u.seq - 1

\* ActiveValidator::panorama_at: what was seen until t, and all that our
\* previous unit saw.
PanoramaAt(t) ==
    {p \in seen : p <= t} \cup (IF Latest = None THEN {} ELSE Latest.sees)

\* ActiveValidator::schedule_timer, called at t: the next timer.
TimerAfter(H, next, t) ==
    LET exp == RoundExp(H, next, t)
        witness == RoundId(t, exp) + WitnessOffset(exp)
        nextId == RoundId(t, exp) + RoundLen(exp)
    IN IF t < witness THEN witness
       ELSE IF nextId \in OwnRounds THEN nextId
       ELSE nextId + WitnessOffset(RoundExp(H, next, nextId))

\* State::is_terminal_block of the fork choice: the era is over.
EraOver(sees) ==
    \/ \E p \in sees : p >= EraEnd
    \/ \E u \in have : u.proposal /\ u.timestamp >= EraEnd

-----------------------------------------------------------------------------
(* Signing a unit.                                                         *)

\* What new_unit checks before it signs a unit that sees `sees` and our unit
\* `own` (None if we have none).  (Mutant: the panorama was computed earlier,
\* and nothing checks that it has our latest unit.)
MaySignMutant(own, sees, t, proposal) ==
    /\ proposal \/ sees # {} \/ own # None
    /\ CanVote
    /\ \A p \in sees : p <= t
    /\ own # None => own.timestamp <= t
MaySign(own, sees, t, proposal) ==
    /\ proposal \/ sees # {} \/ own # None
    /\ CanVote
    /\ \A p \in sees : p <= t
    /\ own # None => own.timestamp <= t
    /\ own = Latest

NewUnit(own, sees, t, proposal, next, asked) ==
    [seq |-> IF own = None THEN 0 ELSE own.seq + 1, timestamp |-> t,
     roundExp |-> RoundExp(have, next, t), asked |-> asked,
     proposal |-> proposal, sees |-> sees]

\* A unit without a block.
NewVote(sees, t, next) == NewUnit(Latest, sees, t, FALSE, next, RoundExp(have, next, t))

\* The node stops, at any point: what is in memory is lost.
Stop ==
    /\ stops < MaxStops
    /\ stops' = stops + 1
    /\ mode' = "down"
    /\ seen' = {} /\ have' = {} /\ requests' = {}
    /\ meter' = NewMeter(MinRoundExp, 0) /\ nextTimer' = 0
    /\ nextProposal' = None /\ ownLastUnit' = None /\ ping' = 0
    /\ UNCHANGED outside

\* write_last_unit, then add_new_own_vertices: the file is written, and the
\* unit is in the state and on its way to the peers.
Sign(u) ==
    /\ unitFile' = u
    /\ signed' = signed \cup {u}
    /\ have' = have \cup {u}
    /\ ping' = Max({ping, u.timestamp})
    /\ nextProposal' = None
    /\ UNCHANGED << mode, stops, ownLastUnit, outside >>

\* The node stops while it signs a unit: before the file is written, or before
\* the unit is sent.
StopWhileSigning(u) ==
    /\ Stop
    /\ \/ unitFile' = Truncated /\ UNCHANGED signed
       \/ unitFile' = u /\ signed' = signed \cup {u}

-----------------------------------------------------------------------------
(* Events of the validator.                                                *)

\* HighwayProtocol::calculate_round_exponent, with every vertex that is added
\* and every one that is sent.
Measure(ok) == meter' = Measured(meter, clock, ok)

\* send_ping, with the ping added to the state.
SendPing(t) == ping' = Max({ping, t}) /\ pinged' = Max({pinged, t})

\* HighwayProtocol::new_boxed and ActiveValidator::new: the meter goes on from the
\* previous era or, after a restart, starts anew; the file is read, and a ping is
\* sent.  A file that cannot be read stops the node.
Activate ==
    /\ mode = "down"
    /\ IF unitFile = Truncated
       THEN mode' = "stopped" /\ UNCHANGED << memory, outside >>
       ELSE /\ mode' = "active"
            /\ ownLastUnit' = unitFile
            /\ meter' \in IF stops = 0 THEN NextEra(clock) ELSE {NewMeter(MinRoundExp, clock)}
            /\ nextTimer' = TimerAfter({}, NewExponent(meter'), clock)
            /\ SendPing(clock)
            /\ UNCHANGED << seen, have, nextProposal, requests, proposals, peersHave >>
    /\ UNCHANGED << clock, unitFile, signed, stops >>

\* The timer was due; it is handled with its own timestamp, however late.
TimerFires ==
    /\ mode = "active"
    /\ nextTimer <= clock
    /\ nextTimer' = TimerAfter(have, NewExponent(meter), nextTimer)

TimerRound == RoundId(nextTimer, RoundExp(have, NewExponent(meter), nextTimer))
TimerOutdated == EarliestUnitTime > nextTimer
LeaderTimer == nextTimer = TimerRound /\ nextTimer \in OwnRounds
WitnessTimer == nextTimer = TimerRound + WitnessOffset(RoundExp(have, NewExponent(meter), nextTimer))

\* A unit without a value is signed by the timer: the witness unit, or, after
\* the era's last block, a leader's unit.
TimerUnit == NewVote(PanoramaAt(nextTimer), nextTimer, NewExponent(meter))
TimerSigns ==
    /\ ~ TimerOutdated
    /\ \/ LeaderTimer /\ EraOver(PanoramaAt(nextTimer))
       \/ ~ LeaderTimer /\ WitnessTimer
    /\ MaySign(Latest, PanoramaAt(nextTimer), nextTimer, FALSE)

\* handle_timer that creates a unit.
WitnessUnit(ok) ==
    /\ TimerFires
    /\ TimerSigns
    /\ Sign(TimerUnit) /\ Measure(ok)
    /\ UNCHANGED << clock, seen, requests >>

\* request_new_block: the panorama of the block is fixed, the value is asked for.
\* A request that is already waiting is replaced.
RequestNewBlock ==
    /\ TimerFires
    /\ ~ TimerOutdated /\ LeaderTimer
    /\ ~ EraOver(PanoramaAt(nextTimer))
    /\ nextProposal' = [timestamp |-> nextTimer, own |-> Latest, sees |-> PanoramaAt(nextTimer),
                        exp |-> RoundExp(have, NewExponent(meter), nextTimer)]
    /\ requests' = requests \cup {nextTimer}
    /\ UNCHANGED << clock, mode, seen, have, meter, ownLastUnit, ping, outside,
                    unitFile, signed, stops >>

\* The same after the era's last block when no unit may be signed: a request that
\* is waiting is dropped.
LeaderGivesUp ==
    /\ TimerFires
    /\ ~ TimerOutdated /\ LeaderTimer
    /\ EraOver(PanoramaAt(nextTimer))
    /\ ~ MaySign(Latest, PanoramaAt(nextTimer), nextTimer, FALSE)
    /\ nextProposal' = None
    /\ UNCHANGED << clock, mode, seen, have, meter, ownLastUnit, requests, ping, outside,
                    unitFile, signed, stops >>

\* handle_timer that only sends a ping, if none was sent for a round of maximal
\* length: the timer is outdated, too few validators are online (or the
\* validator is paused), or no unit may be signed.
PingDue == ping < Max({0, nextTimer - RoundLen(MaxRoundExp)}) + 1
TimerPings(ok) ==
    /\ TimerFires
    /\ IF ~ TimerOutdated /\ PingDue THEN SendPing(nextTimer) /\ Measure(ok)
       ELSE UNCHANGED << ping, pinged, meter >>
    /\ UNCHANGED << clock, mode, seen, have, nextProposal, ownLastUnit,
                    requests, proposals, peersHave, unitFile, signed, stops >>

\* ActiveValidator::propose of the answer to the request made at t.
ProposalOf(p) == NewUnit(p.own, p.sees, p.timestamp, TRUE, NewExponent(meter), p.exp)
Proposes(t) ==
    /\ nextProposal # None /\ nextProposal.timestamp = t
    /\ EarliestUnitTime <= t
    /\ MaySign(nextProposal.own, nextProposal.sees, t, TRUE)
Propose(t, ok) ==
    /\ mode = "active"
    /\ t \in requests
    /\ requests' = requests \ {t}
    /\ IF Proposes(t) THEN Sign(ProposalOf(nextProposal)) /\ Measure(ok)
       ELSE /\ nextProposal' = None
            /\ UNCHANGED << mode, have, meter, ownLastUnit, ping, outside,
                            unitFile, signed, stops >>
    /\ UNCHANGED << clock, seen, nextTimer >>

-----------------------------------------------------------------------------
(* Units that are added to the protocol state.                             *)

\* Highway::add_own_last_unit, after another unit was added: the unit of the
\* file follows once all it cites is there.  (Mutant: only after a unit of ours.)
AddUnitsMutant(S, H) ==
    LET last == IF ownLastUnit # None /\ PanoramaSync(ownLastUnit, S, H) /\ H # have
                THEN {ownLastUnit} ELSE {}
    IN /\ seen' = S
       /\ have' = H \cup last
       /\ ownLastUnit' = IF last = {} THEN ownLastUnit ELSE None
       /\ ping' = Max({ping} \cup {u.timestamp : u \in H \cup last})
AddUnits(S, H) ==
    LET last == IF ownLastUnit # None /\ PanoramaSync(ownLastUnit, S, H)
                THEN {ownLastUnit} ELSE {}
    IN /\ seen' = S
       /\ have' = H \cup last
       /\ ownLastUnit' = IF last = {} THEN ownLastUnit ELSE None
       /\ ping' = Max({ping} \cup {u.timestamp : u \in H \cup last})

\* should_send_confirmation for a proposal p that is added now.
Confirms(p, next) ==
    /\ RoundId(clock, RoundExp(have, next, clock)) = p
    /\ Latest # None => p \notin Latest.sees
    /\ EarliestUnitTime <= clock
    /\ MaySign(Latest, {p} \cup (IF Latest = None THEN {} ELSE Latest.sees), clock, FALSE)
Confirmation(p, next) ==
    NewVote({p} \cup (IF Latest = None THEN {} ELSE Latest.sees), clock, next)

\* A proposal of another leader is added (add_valid_unit, on_new_unit), once the
\* round exponent is up to date.
AddProposal(p, ok) ==
    /\ mode = "active"
    /\ p \in proposals \ seen
    /\ Measure(ok)
    /\ IF Confirms(p, NewExponent(meter'))
       THEN Sign(Confirmation(p, NewExponent(meter'))) /\ seen' = seen \cup {p}
       ELSE /\ AddUnits(seen \cup {p}, have)
            /\ UNCHANGED << mode, nextProposal, outside, unitFile, signed, stops >>
    /\ UNCHANGED << clock, nextTimer, requests >>

\* Any other unit of another validator is added.
AddOtherUnit(ok) ==
    /\ mode = "active"
    /\ Measure(ok)
    /\ AddUnits(seen, have)
    /\ UNCHANGED << clock, mode, nextTimer, nextProposal, requests, outside,
                    unitFile, signed, stops >>

\* A unit of ours comes from a peer.  One that is not in the state must be an
\* earlier one, unless all of ours are there: then another node signs with our
\* key and the validator is deactivated.  (Mutant: without can_vote.)
IsDoppelgangerMutant(u) == u \notin have
IsDoppelganger(u) == CanVote /\ u \notin have
ReceiveOwnUnit(u, ok) ==
    /\ mode = "active"
    /\ u \in peersHave \ have
    /\ PanoramaSync(u, seen, have)
    /\ mode' = IF IsDoppelganger(u) THEN "observer" ELSE mode
    /\ Measure(ok)
    /\ AddUnits(seen, have \cup {u})
    /\ UNCHANGED << clock, nextTimer, nextProposal, requests, outside,
                    unitFile, signed, stops >>

\* Our latest ping comes back.
ReceiveOwnPing ==
    /\ mode = "active"
    /\ mode' = IF CanVote /\ ping < pinged THEN "observer" ELSE mode
    /\ ping' = Max({ping, pinged})
    /\ UNCHANGED << clock, seen, have, meter, nextTimer, nextProposal, ownLastUnit,
                    requests, outside, unitFile, signed, stops >>

-----------------------------------------------------------------------------
(* The environment.                                                        *)

\* A peer gets a unit of ours, once it has what the unit cites.
PeerReceives(u) ==
    /\ mode = "active"
    /\ u \in have \ peersHave
    /\ PanoramaSync(u, proposals, peersHave)
    /\ peersHave' = peersHave \cup {u}
    /\ UNCHANGED << clock, mode, memory, proposals, pinged, unitFile, signed, stops >>

\* Another leader proposes a block at the start of its round.
PeerProposes(p) ==
    /\ p \in PeerRounds \ proposals
    /\ p = clock
    /\ proposals' = proposals \cup {p}
    /\ UNCHANGED << clock, mode, memory, peersHave, pinged, unitFile, signed, stops >>

Tick ==
    /\ clock < MaxTime
    /\ clock' = clock + 1
    /\ UNCHANGED << mode, memory, outside, unitFile, signed, stops >>

\* The node stops, between two events or while it signs a unit.
StopNode ==
    /\ mode = "active"
    /\ \/ Stop /\ UNCHANGED << unitFile, signed >>
       \/ nextTimer <= clock /\ TimerSigns /\ StopWhileSigning(TimerUnit)
       \/ \E t \in requests : Proposes(t) /\ StopWhileSigning(ProposalOf(nextProposal))
       \/ \E p \in proposals \ seen, ok \in BOOLEAN :
              LET exp == NewExponent(Measured(meter, clock, ok)) IN
              Confirms(p, exp) /\ StopWhileSigning(Confirmation(p, exp))
    /\ UNCHANGED clock

-----------------------------------------------------------------------------
Init ==
    /\ clock = 0 /\ proposals = {} /\ mode = "down"
    /\ seen = {} /\ have = {} /\ requests = {}
    /\ meter = NewMeter(MinRoundExp, 0) /\ nextTimer = 0
    /\ nextProposal = None /\ ownLastUnit = None /\ ping = 0
    /\ unitFile = None /\ signed = {} /\ peersHave = {} /\ pinged = 0
    /\ stops = 0

Next ==
    \/ Activate \/ RequestNewBlock \/ LeaderGivesUp \/ ReceiveOwnPing \/ Tick \/ StopNode
    \/ \E ok \in BOOLEAN :
          \/ WitnessUnit(ok) \/ TimerPings(ok) \/ AddOtherUnit(ok)
          \/ \E t \in OwnRounds : Propose(t, ok)
          \/ \E p \in PeerRounds : AddProposal(p, ok)
          \/ \E u \in signed : ReceiveOwnUnit(u, ok)
    \/ \E p \in PeerRounds : PeerProposes(p)
    \/ \E u \in signed : PeerReceives(u)

Spec == Init /\ [][Next]_vars

\* The node is started again, and what the peers have reaches it.
FairSpec ==
    /\ Spec
    /\ WF_vars(Activate)
    /\ \A p \in PeerRounds : WF_vars(\E ok \in BOOLEAN : AddProposal(p, ok))
    /\ WF_vars(\E u \in signed, ok \in BOOLEAN : ReceiveOwnUnit(u, ok))

-----------------------------------------------------------------------------
(* Properties.                                                             *)

\* Every variable has its type; the file holds a unit this validator signed.
TypeOK ==
    /\ clock \in Time /\ stops \in 0 .. MaxStops
    /\ mode \in {"active", "down", "observer", "stopped"}
    /\ proposals \subseteq PeerRounds /\ seen \subseteq proposals
    /\ signed \subseteq Unit /\ have \subseteq signed /\ peersHave \subseteq signed
    /\ unitFile \in {None, Truncated} \cup signed
    /\ ownLastUnit \in {None} \cup signed
    /\ meter \in [exp : RoundExps, round : Nat, rounds : Seq(BOOLEAN)]
    /\ meter.round = RoundId(meter.round, meter.exp) /\ Len(meter.rounds) <= NumRounds
    /\ nextTimer \in Nat
    /\ requests \subseteq OwnRounds
    /\ nextProposal # None =>
           /\ nextProposal.timestamp \in requests
           /\ nextProposal.own \in {None} \cup have
           /\ nextProposal.sees \subseteq seen
           /\ nextProposal.exp \in RoundExps
    /\ ping \in Time /\ pinged \in Time

\* A validator never signs two units with the same number, whatever it forgot
\* when the node stopped (new_unit, can_vote, write_last_unit).
NoEquivocation == \A u, w \in signed : u.seq = w.seq => u = w

\* A node that is alone with its key never takes its own earlier unit or ping
\* for the one of a doppelganger (is_doppelganger_vertex).
NoFalseAlarm == mode # "observer"

\* What a unit cites is not younger and grows from unit to unit, the exponent
\* changes only between rounds, and a unit with a block is a leader's.
CitesThePast ==
    \A u \in signed :
        /\ u.proposal \/ u.sees # {} \/ u.seq > 0
        /\ \A p \in u.sees : p <= u.timestamp
        /\ u.proposal => u.timestamp \in OwnRounds
        /\ \A w \in signed : w.seq = u.seq - 1 =>
               LET maxExp == Max({u.roundExp, w.roundExp}) IN
               /\ w.timestamp <= u.timestamp
               /\ w.sees \subseteq u.sees
               /\ w.roundExp # u.roundExp =>
                      RoundId(w.timestamp, maxExp) # RoundId(u.timestamp, maxExp)

\* A round has at most two units, and a block is in the first one.
TwoUnitsPerRound ==
    \A u, w \in signed :
        (u.proposal /\ w.seq = u.seq - 1) \/ w.seq = u.seq - 2 =>
            RoundId(w.timestamp, w.roundExp) # RoundId(u.timestamp, u.roundExp)

\* A block is at the start of its round, if the exponent has not grown since the
\* block was requested (it may have: see ProposedAtRoundStart).
BlocksStartRounds ==
    \A u \in signed :
        u.proposal /\ u.roundExp <= u.asked => u.timestamp = RoundId(u.timestamp, u.roundExp)

\* Every unit the validator signs passes the checks of pre_validate_unit and
\* validate_unit on its exponent, its citations, its number and the units of its
\* round, although the validator adds it to its own state unchecked; a block
\* passes NonLeaderBlock too, unless the exponent grew between the request for the
\* block and its signing.
SignedUnitsAreValid == TypeOK /\ CitesThePast /\ TwoUnitsPerRound /\ BlocksStartRounds

\* A block is proposed with an exponent for which its timestamp is the start
\* of a round (round_exp: "This returns self.next_round_exp, if that is a valid
\* round exponent for a unit cast at timestamp"); validate_unit rejects it
\* otherwise.
ProposedAtRoundStart ==
    \A u \in signed : u.proposal => u.timestamp = RoundId(u.timestamp, u.roundExp)

\* A restarted validator votes again: once the peers have what its last unit
\* cites, and that is something, the unit gets into the state
\* (add_own_last_unit), unless the node stops again.
VotesAgain ==
    (/\ mode = "active" /\ ownLastUnit # None
     /\ PanoramaSync(ownLastUnit, proposals, peersHave)
     /\ ownLastUnit.sees # {} \/ ownLastUnit.seq > 0)
        ~> (mode # "active" \/ CanVote)

=============================================================================
