-------------------------- MODULE RoundSuccessMeter --------------------------
(***************************************************************************)
(* The round exponent a validator works with (round_success_meter.rs): it  *)
(* grows after too many of the last rounds failed, and shrinks at certain  *)
(* rounds if almost none did.                                              *)
(*                                                                         *)
(* A meter is [exp, round, rounds]: current_round_exp, current_round_id    *)
(* and the successes of the last rounds, the latest one first.  Whether a  *)
(* proposal of the round has a summit is an input.                         *)
(***************************************************************************)
EXTENDS Integers, Sequences, SequencesExt

CONSTANTS
    RoundExps,      \* the exponents from minimum to maximum_round_exponent
    NumRounds,      \* num_rounds_to_consider
    NumSlowdown,    \* num_rounds_slowdown
    NumSpeedup,     \* num_rounds_speedup
    Acceleration    \* acceleration_parameter

MinRoundExp == Min(RoundExps)
MaxRoundExp == Max(RoundExps)

ASSUME MeterAssumption ==
    /\ RoundExps \subseteq Nat /\ RoundExps = MinRoundExp .. MaxRoundExp
    /\ MinRoundExp \in RoundExps /\ MaxRoundExp \in RoundExps
    /\ NumRounds \in Nat \ {0} /\ Acceleration \in Nat \ {0}
    /\ NumSlowdown \in Nat /\ NumSpeedup \in Nat

\* Round lengths are positive, and the shorter ones divide the longer ones.
ASSUME PowerAssumption ==
    \A e \in RoundExps :
        /\ 2^e \in Nat \ {0}
        /\ \A f \in RoundExps : e <= f => 2^f = (2^f \div 2^e) * 2^e

\* round_len, round_id
RoundLen(exp) == 2^exp
RoundId(t, exp) == (t \div 2^exp) * 2^exp

\* round_index
RoundIndex(t, exp) == t \div 2^exp

\* RoundSuccessMeter::new
NewMeter(exp, t) == [exp |-> exp, round |-> RoundId(t, exp), rounds |-> << >>]

\* saturating_sub
Minus(a, b) == Max({0, a - b})

\* RoundSuccessMeter::new_exponent
NewExponent(m) ==
    LET failures == Len(SelectSeq(m.rounds, LAMBDA ok : ~ ok)) IN
    IF failures > Minus(Minus(NumRounds, NumSlowdown), 1) /\ m.exp < MaxRoundExp
    THEN m.exp + 1
    ELSE IF /\ RoundIndex(m.round, m.exp) % Acceleration = 0
            /\ m.exp > MinRoundExp
            /\ Len(m.rounds) = NumRounds
            /\ failures < Minus(NumRounds, NumSpeedup)
    THEN m.exp - 1
    ELSE m.exp

\* RoundSuccessMeter::next_era, at time t: the meter with which an era begins has
\* the exponent and the record of the previous era's; what could make its
\* exponent grow has already done so.
NextEra(t) ==
    {m \in [exp : RoundExps, round : {RoundId(t, e) : e \in RoundExps},
            rounds : SeqOf(BOOLEAN, NumRounds)] :
        m.round = RoundId(t, m.exp) /\ NewExponent(m) <= m.exp}

\* RoundSuccessMeter::calculate_new_exponent at time t: the record is left alone
\* while the round lasts.  Then the round counts as it ended, those that were missed as failed,
\* and a new exponent starts the record anew.
Measured(m, t, ok) ==
    LET missed == Minus(RoundIndex(t, m.exp) - RoundIndex(m.round, m.exp), 1)
        all == [i \in 1 .. missed |-> FALSE] \o << ok >> \o m.rounds
        next == [m EXCEPT !.round = RoundId(t, m.exp),
                          !.rounds = SubSeq(all, 1, Min({Len(all), NumRounds}))]
    IN IF RoundId(t, m.exp) <= m.round THEN m
       ELSE IF NewExponent(next) = m.exp THEN next
       ELSE NewMeter(NewExponent(next), t)

=============================================================================
