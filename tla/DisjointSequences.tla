-------------------------- MODULE DisjointSequences --------------------------
(* The heights of the completed blocks, as storage keeps them: a vector of  *)
(* sequences of consecutive heights, the highest first, with a gap between  *)
(* any two of them (storage/disjoint_sequences.rs).                         *)
EXTENDS Naturals, Sequences, FiniteSetsExt

Interval == [high : Nat, low : Nat]

Single(value) == [high |-> value, low |-> value]

\* Where a value belongs with respect to one sequence.  The order of the tests
\* is the code's.
TryInsert(sequence, value) ==
    CASE value = sequence.high + 1                             -> "ExtendedHigh"
      [] value >= sequence.low /\ value <= sequence.high       -> "AlreadyInSequence"
      [] value + 1 = sequence.low                              -> "ExtendedLow"
      [] value > sequence.high + 1                             -> "TooHigh"
      [] value + 1 < sequence.low                              -> "TooLow"

\* The loop of insert ends at the first sequence that is not above the value
\* with a gap; it is one past the end if there is none.
InsertionPoint(sequences, value) ==
    Min({i \in 1 .. Len(sequences) : TryInsert(sequences[i], value) # "TooLow"}
            \cup {Len(sequences) + 1})

\* The sequence at index has been extended downwards to value: it takes in the
\* next one if nothing is between them any more.
MergeDown(sequences, index, value) ==
    IF index < Len(sequences) /\ sequences[index + 1].high + 1 = value
    THEN SubSeq(sequences, 1, index - 1)
         \o <<[high |-> sequences[index].high, low |-> sequences[index + 1].low]>>
         \o SubSeq(sequences, index + 2, Len(sequences))
    ELSE [sequences EXCEPT ![index] = [high |-> @.high, low |-> value]]

Insert(sequences, value) ==
    LET index   == InsertionPoint(sequences, value)
        outcome == IF index > Len(sequences) THEN "TooHigh"
                   ELSE TryInsert(sequences[index], value)
    IN  CASE outcome = "TooHigh"           -> SubSeq(sequences, 1, index - 1)
                                              \o <<Single(value)>>
                                              \o SubSeq(sequences, index, Len(sequences))
          [] outcome = "ExtendedHigh"      ->
                [sequences EXCEPT ![index] = [high |-> value, low |-> @.low]]
          [] outcome = "AlreadyInSequence" -> sequences
          [] outcome = "ExtendedLow"       -> MergeDown(sequences, index, value)

\* Mutant: what has been read from the state store is taken as it is.
TruncateMutant(sequences, max) == sequences

\* Only what lies at or below max stays.  The sequences are ordered from high to
\* low: retain_mut removes some at the front.
FirstKept(sequences, max) ==
    Min({i \in 1 .. Len(sequences) : sequences[i].low <= max} \cup {Len(sequences) + 1})

Truncate(sequences, max) ==
    LET kept == SubSeq(sequences, FirstKept(sequences, max), Len(sequences))
    IN  [i \in 1 .. Len(kept) |->
            [high |-> IF kept[i].high <= max THEN kept[i].high ELSE max,
             low  |-> kept[i].low]]

\* The heights a vector of sequences stands for.
Heights(sequences) ==
    UNION {sequences[i].low .. sequences[i].high : i \in 1 .. Len(sequences)}

\* What the comment on the type promises: from high to low, with a gap of at
\* least one value between neighbours.
Canonical(sequences) ==
    /\ sequences \in Seq(Interval)
    /\ \A i \in 1 .. Len(sequences) : sequences[i].low <= sequences[i].high
    /\ \A i, j \in 1 .. Len(sequences) :
            i < j => sequences[j].high + 1 < sequences[i].low
=============================================================================
