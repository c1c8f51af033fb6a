------------------------ MODULE BlockExecutionProofs ------------------------
(***************************************************************************)
(* The blocks are executed in turn, for any number of blocks and restarts, *)
(* and the node implements the abstract ExecutedChain.  The first part is  *)
(* about the sequences of completed heights: what insert and truncate do   *)
(* to the set of heights, and that both keep the order and the gaps; the   *)
(* last part is about the block proposer.                                  *)
(***************************************************************************)
EXTENDS BlockExecution, BlockProposer, SequenceTheorems, WellFoundedInduction, TLAPS

\* Every nonempty set of natural numbers has a least element, which Min finds.
LEMMA LeastElement ==
    ASSUME NEW T \in SUBSET Nat, T # {}
    PROVE  Min(T) \in T /\ \A y \in T : Min(T) <= y
<1>1. IsWellFoundedOn(OpToRel(<, Nat), Nat)
  BY NatLessThanWellFounded
<1>2. PICK x \in T : \A y \in T : ~ (<<y, x>> \in OpToRel(<, Nat))
  BY <1>1, WFMin
<1>3. \A y \in T : ~ (y < x)
  BY <1>2 DEF OpToRel
<1>4. \E z \in T : \A y \in T : z <= y
  BY <1>3
<1>5. QED
  BY <1>4 DEF Min

\* Every nonempty set of natural numbers below a bound has a greatest element.
LEMMA GreatestElement ==
    ASSUME NEW n \in Nat, NEW T \in SUBSET (0 .. n), T # {}
    PROVE  Max(T) \in T /\ \A y \in T : Max(T) >= y
<1> DEFINE R == {n - x : x \in T}
<1>0. \A x \in T : x \in Nat /\ n - x \in Nat
  OBVIOUS
<1>1. R \in SUBSET Nat /\ R # {}
  BY <1>0
<1>2. PICK m \in R : \A y \in R : m <= y
  BY <1>1, LeastElement
<1>3. PICK x \in T : m = n - x
  BY <1>2
<1>4. \A y \in T : x >= y
  <2> SUFFICES ASSUME NEW y \in T PROVE x >= y
    OBVIOUS
  <2>1. n - y \in R
    OBVIOUS
  <2>2. n - x <= n - y
    BY <1>2, <1>3, <2>1
  <2>3. QED
    BY <1>0, <2>2
<1>5. QED
  BY <1>4 DEF Max

-----------------------------------------------------------------------------
(* insert and truncate.                                                    *)

\* What an index of insert's loop means.
LEMMA TryInsertCases ==
    ASSUME NEW q \in Interval, q.low <= q.high, NEW v \in Nat
    PROVE  /\ TryInsert(q, v) = "TooLow" <=> v + 1 < q.low
           /\ TryInsert(q, v) = "TooHigh" <=> v > q.high + 1
           /\ TryInsert(q, v) = "ExtendedHigh" <=> v = q.high + 1
           /\ TryInsert(q, v) = "ExtendedLow" <=> v + 1 = q.low
           /\ TryInsert(q, v) = "AlreadyInSequence" <=> v >= q.low /\ v <= q.high
           /\ TryInsert(q, v) \in {"TooLow", "TooHigh", "ExtendedHigh", "ExtendedLow",
                                   "AlreadyInSequence"}
BY DEF TryInsert, Interval

LEMMA InsertionPointOK ==
    ASSUME NEW s, Canonical(s), NEW v \in Nat
    PROVE  /\ InsertionPoint(s, v) \in 1 .. Len(s) + 1
           /\ \A i \in 1 .. Len(s) : i < InsertionPoint(s, v) => v + 1 < s[i].low
           /\ InsertionPoint(s, v) <= Len(s) => ~ (v + 1 < s[InsertionPoint(s, v)].low)
<1> DEFINE T == {i \in 1 .. Len(s) : TryInsert(s[i], v) # "TooLow"} \cup {Len(s) + 1}
<1>1. /\ s \in Seq(Interval) /\ Len(s) \in Nat
      /\ \A i \in 1 .. Len(s) : s[i] \in Interval /\ s[i].low <= s[i].high
  BY DEF Canonical
<1>2. T \in SUBSET Nat /\ T # {}
  BY <1>1
<1>3. Min(T) \in T /\ \A y \in T : Min(T) <= y
  BY <1>2, LeastElement
<1>4. InsertionPoint(s, v) = Min(T)
  BY DEF InsertionPoint
<1>5. Min(T) \in 1 .. Len(s) + 1
  BY <1>1, <1>3
<1>6. \A i \in 1 .. Len(s) : TryInsert(s[i], v) = "TooLow" <=> v + 1 < s[i].low
  BY <1>1, TryInsertCases
<1>7. ASSUME NEW i \in 1 .. Len(s), i < Min(T)
      PROVE  v + 1 < s[i].low
  <2>1. i \notin T
    BY <1>1, <1>3, <1>5, <1>7
  <2>2. QED
    BY <1>6, <2>1
<1>8. ASSUME Min(T) <= Len(s)
      PROVE  ~ (v + 1 < s[Min(T)].low)
  BY <1>1, <1>3, <1>5, <1>6, <1>8
<1>9. QED
  BY <1>4, <1>5, <1>7, <1>8

\* The heights of a vector, one by one.
LEMMA HeightsIff ==
    ASSUME NEW s, NEW x
    PROVE  x \in Heights(s) <=> \E i \in 1 .. Len(s) : x \in s[i].low .. s[i].high
BY DEF Heights

\* The three ways in which insert changes the vector, s before and r after it,
\* element by element: a sequence of its own at k,
AddedAt(s, r, k, v) ==
    /\ k \in 1 .. Len(s) + 1
    /\ \A i \in 1 .. Len(s) : i < k => v + 1 < s[i].low
    /\ k <= Len(s) => v > s[k].high + 1
    /\ r \in Seq(Interval) /\ Len(r) = Len(s) + 1
    /\ \A i \in 1 .. k - 1 : r[i] = s[i]
    /\ r[k] = Single(v)
    /\ \A i \in k + 1 .. Len(s) + 1 : r[i] = s[i - 1]

\* the value taken in by the sequence at k, with a gap left on both sides,
ExtendedAt(s, r, k, v) ==
    /\ k \in 1 .. Len(s)
    /\ r \in Seq(Interval) /\ Len(r) = Len(s)
    /\ \A i \in 1 .. Len(s) : i # k => r[i] = s[i]
    /\ r[k].low <= r[k].high
    /\ r[k].low .. r[k].high = (s[k].low .. s[k].high) \cup {v}
    /\ \A i \in 1 .. Len(s) : i < k => r[k].high + 1 < s[i].low
    /\ \A i \in 1 .. Len(s) : k < i => s[i].high + 1 < r[k].low

\* and the sequences at k and k + 1 made one, the value being all there is
\* between them.
MergedAt(s, r, k, v) ==
    /\ k \in 1 .. Len(s) - 1
    /\ v + 1 = s[k].low
    /\ s[k + 1].high + 1 = v
    /\ r \in Seq(Interval) /\ Len(r) = Len(s) - 1
    /\ \A i \in 1 .. k - 1 : r[i] = s[i]
    /\ r[k] = [high |-> s[k].high, low |-> s[k + 1].low]
    /\ \A i \in k + 1 .. Len(s) - 1 : r[i] = s[i + 1]

\* A value with a gap on both sides becomes a sequence of its own.
LEMMA InsertSingle ==
    ASSUME NEW s, Canonical(s), NEW v \in Nat, NEW k, NEW r, AddedAt(s, r, k, v)
    PROVE  Canonical(r) /\ Heights(r) = Heights(s) \cup {v}
<1>0. PICK n \in Nat : Len(s) = n
  BY DEF Canonical
<1> SUFFICES ASSUME s \in Seq(Interval), k \in 1 .. n + 1,
                    \A i \in 1 .. n : i < k => v + 1 < s[i].low,
                    k <= n => v > s[k].high + 1,
                    r \in Seq(Interval), Len(r) = n + 1,
                    \A i \in 1 .. k - 1 : r[i] = s[i],
                    r[k] = Single(v),
                    \A i \in k + 1 .. n + 1 : r[i] = s[i - 1]
             PROVE  Canonical(r) /\ Heights(r) = Heights(s) \cup {v}
  BY <1>0 DEF AddedAt, Canonical
<1> USE <1>0
<1>1. /\ s \in Seq(Interval) /\ n \in Nat
      /\ \A i \in 1 .. n : s[i] \in Interval /\ s[i].low <= s[i].high
      /\ \A i, j \in 1 .. n : i < j => s[j].high + 1 < s[i].low
  BY DEF Canonical
<1>2. Single(v) \in Interval /\ Single(v).low = v /\ Single(v).high = v
  BY DEF Single, Interval
<1>3. /\ r \in Seq(Interval) /\ Len(r) = n + 1
      /\ \A i \in 1 .. k - 1 : r[i] = s[i]
      /\ r[k] = Single(v)
      /\ \A i \in k + 1 .. n + 1 : r[i] = s[i - 1]
  OBVIOUS
<1>4. Canonical(r)
  <2>1. \A i \in 1 .. n + 1 : r[i] \in Interval /\ r[i].low <= r[i].high
    <3> SUFFICES ASSUME NEW i \in 1 .. n + 1
                 PROVE  r[i] \in Interval /\ r[i].low <= r[i].high
      OBVIOUS
    <3>1. CASE i \in 1 .. k - 1
      BY <1>1, <1>3, <3>1
    <3>2. CASE i = k
      BY <1>2, <1>3, <3>2
    <3>3. CASE i \in k + 1 .. n + 1
      <4>1. i - 1 \in 1 .. n
        BY <1>1, <3>3
      <4>2. QED
        BY <1>1, <1>3, <3>3, <4>1
    <3>4. QED
      BY <1>1, <3>1, <3>2, <3>3
  <2>2. \A i, j \in 1 .. n + 1 : i < j => r[j].high + 1 < r[i].low
    <3> SUFFICES ASSUME NEW i \in 1 .. n + 1, NEW j \in 1 .. n + 1, i < j
                 PROVE  r[j].high + 1 < r[i].low
      OBVIOUS
    <3>1. CASE j < k
      BY <1>1, <1>3, <3>1
    <3>2. CASE j = k
      BY <1>1, <1>2, <1>3, <3>2
    <3>3. CASE j > k /\ i < k
      <4>1. r[j] = s[j - 1] /\ r[i] = s[i] /\ j - 1 \in 1 .. n /\ i \in 1 .. n /\ i < j - 1
        BY <1>1, <1>3, <3>3
      <4>2. QED
        BY <1>1, <4>1
    <3>4. CASE j > k /\ i = k
      <4>1. r[j] = s[j - 1] /\ r[i] = Single(v) /\ j - 1 \in 1 .. n /\ k \in 1 .. n /\ k <= j - 1
        BY <1>1, <1>3, <3>4
      <4>2. s[k] \in Interval /\ s[k].low <= s[k].high /\ s[k].high + 1 < v
        BY <1>1, <4>1 DEF Interval
      <4>3. CASE k = j - 1
        BY <1>2, <4>1, <4>2, <4>3
      <4>4. CASE k < j - 1
        <5>1. s[j - 1].high + 1 < s[k].low /\ s[j - 1] \in Interval
          BY <1>1, <4>1, <4>4
        <5>2. QED
          BY <1>2, <4>1, <4>2, <5>1 DEF Interval
      <4>5. QED
        BY <4>1, <4>3, <4>4
    <3>5. CASE j > k /\ i > k
      <4>1. /\ r[j] = s[j - 1] /\ r[i] = s[i - 1]
            /\ j - 1 \in 1 .. n /\ i - 1 \in 1 .. n /\ i - 1 < j - 1
        BY <1>1, <1>3, <3>5
      <4>2. QED
        BY <1>1, <4>1
    <3>6. QED
      BY <3>1, <3>2, <3>3, <3>4, <3>5
  <2>3. QED
    BY <1>3, <2>1, <2>2 DEF Canonical
<1>5. Heights(r) = Heights(s) \cup {v}
  <2>1. ASSUME NEW x \in Heights(r) PROVE x \in Heights(s) \cup {v}
    <3>1. PICK i \in 1 .. Len(r) : x \in r[i].low .. r[i].high
      BY <2>1, HeightsIff
    <3>2. CASE i \in 1 .. k - 1
      <4>1. i \in 1 .. n /\ r[i] = s[i]
        BY <1>1, <1>3, <3>2
      <4>2. QED
        BY <3>1, <4>1, HeightsIff
    <3>3. CASE i = k
      BY <1>2, <1>3, <3>1, <3>3
    <3>4. CASE i \in k + 1 .. n + 1
      <4>1. i - 1 \in 1 .. n /\ r[i] = s[i - 1]
        BY <1>1, <1>3, <3>4
      <4>2. QED
        BY <3>1, <4>1, HeightsIff
    <3>5. QED
      BY <1>1, <1>3, <3>2, <3>3, <3>4
  <2>2. ASSUME NEW x \in Heights(s) PROVE x \in Heights(r)
    <3>1. PICK i \in 1 .. n : x \in s[i].low .. s[i].high
      BY <2>2, HeightsIff
    <3>2. CASE i < k
      <4>1. i \in 1 .. Len(r) /\ r[i] = s[i]
        BY <1>1, <1>3, <3>2
      <4>2. QED
        BY <3>1, <4>1, HeightsIff
    <3>3. CASE i >= k
      <4>1. i + 1 \in 1 .. Len(r) /\ r[i + 1] = s[i]
        BY <1>1, <1>3, <3>3
      <4>2. QED
        BY <3>1, <4>1, HeightsIff
    <3>4. QED
      BY <1>1, <3>2, <3>3
  <2>3. v \in Heights(r)
    <3>1. k \in 1 .. Len(r) /\ v \in r[k].low .. r[k].high
      BY <1>1, <1>2, <1>3
    <3>2. QED
      BY <3>1, HeightsIff
  <2>4. QED
    BY <2>1, <2>2, <2>3
<1>6. QED
  BY <1>4, <1>5

\* A sequence that takes in a neighbouring value, with a gap left on both sides.
LEMMA InsertNext ==
    ASSUME NEW s, Canonical(s), NEW v \in Nat, NEW k, NEW r, ExtendedAt(s, r, k, v)
    PROVE  Canonical(r) /\ Heights(r) = Heights(s) \cup {v}
<1>0. PICK n \in Nat : Len(s) = n
  BY DEF Canonical
<1> SUFFICES ASSUME s \in Seq(Interval), k \in 1 .. n,
                    r \in Seq(Interval), Len(r) = n,
                    \A i \in 1 .. n : i # k => r[i] = s[i],
                    r[k].low <= r[k].high,
                    r[k].low .. r[k].high = (s[k].low .. s[k].high) \cup {v},
                    \A i \in 1 .. n : i < k => r[k].high + 1 < s[i].low,
                    \A i \in 1 .. n : k < i => s[i].high + 1 < r[k].low
             PROVE  Canonical(r) /\ Heights(r) = Heights(s) \cup {v}
  BY <1>0 DEF ExtendedAt, Canonical
<1> USE <1>0
<1>1. /\ \A i \in 1 .. n : s[i] \in Interval /\ s[i].low <= s[i].high
      /\ \A i, j \in 1 .. n : i < j => s[j].high + 1 < s[i].low
  BY DEF Canonical
<1>2. \A i \in 1 .. n : r[i] \in Interval /\ r[i].low <= r[i].high
  BY <1>1
<1>3. \A i, j \in 1 .. n : i < j => r[j].high + 1 < r[i].low
  <2> SUFFICES ASSUME NEW i \in 1 .. n, NEW j \in 1 .. n, i < j
               PROVE  r[j].high + 1 < r[i].low
    OBVIOUS
  <2>1. CASE i # k /\ j # k
    BY <1>1, <2>1
  <2>2. CASE i = k \/ j = k
    BY <2>2
  <2>3. QED
    BY <2>1, <2>2
<1>4. Canonical(r)
  BY <1>2, <1>3 DEF Canonical
<1>5. Heights(r) = Heights(s) \cup {v}
  <2>1. ASSUME NEW x \in Heights(r) PROVE x \in Heights(s) \cup {v}
    <3>1. PICK i \in 1 .. Len(r) : x \in r[i].low .. r[i].high
      BY <2>1, HeightsIff
    <3>2. i \in 1 .. Len(s) /\ (x = v \/ x \in s[i].low .. s[i].high)
      BY <3>1
    <3>3. QED
      BY <3>2, HeightsIff
  <2>2. ASSUME NEW x \in Heights(s) PROVE x \in Heights(r)
    <3>1. PICK i \in 1 .. Len(s) : x \in s[i].low .. s[i].high
      BY <2>2, HeightsIff
    <3>2. i \in 1 .. Len(r) /\ x \in r[i].low .. r[i].high
      BY <3>1
    <3>3. QED
      BY <3>2, HeightsIff
  <2>3. v \in Heights(r)
    <3>1. k \in 1 .. Len(r) /\ v \in r[k].low .. r[k].high
      OBVIOUS
    <3>2. QED
      BY <3>1, HeightsIff
  <2>4. QED
    BY <2>1, <2>2, <2>3
<1>6. QED
  BY <1>4, <1>5

\* A value that closes the gap between two sequences: they become one.
LEMMA InsertBetween ==
    ASSUME NEW s, Canonical(s), NEW v \in Nat, NEW k, NEW r, MergedAt(s, r, k, v)
    PROVE  Canonical(r) /\ Heights(r) = Heights(s) \cup {v}
<1>0. PICK n \in Nat : Len(s) = n
  BY DEF Canonical
<1> SUFFICES ASSUME s \in Seq(Interval), k \in 1 .. n - 1,
                    v + 1 = s[k].low, s[k + 1].high + 1 = v,
                    r \in Seq(Interval), Len(r) = n - 1,
                    \A i \in 1 .. k - 1 : r[i] = s[i],
                    r[k] = [high |-> s[k].high, low |-> s[k + 1].low],
                    \A i \in k + 1 .. n - 1 : r[i] = s[i + 1]
             PROVE  Canonical(r) /\ Heights(r) = Heights(s) \cup {v}
  BY <1>0 DEF MergedAt, Canonical
<1> USE <1>0
<1>1. /\ \A i \in 1 .. n : s[i] \in Interval /\ s[i].low <= s[i].high
      /\ \A i, j \in 1 .. n : i < j => s[j].high + 1 < s[i].low
  BY DEF Canonical
<1>2. /\ k \in 1 .. n /\ k + 1 \in 1 .. n
      /\ s[k].high \in Nat /\ s[k].low \in Nat /\ s[k].low <= s[k].high
      /\ s[k + 1].high \in Nat /\ s[k + 1].low \in Nat /\ s[k + 1].low <= s[k + 1].high
      /\ r[k].high = s[k].high /\ r[k].low = s[k + 1].low
  <2>1. k \in 1 .. n /\ k + 1 \in 1 .. n
    OBVIOUS
  <2>2. /\ s[k] \in Interval /\ s[k].low <= s[k].high
        /\ s[k + 1] \in Interval /\ s[k + 1].low <= s[k + 1].high
    BY <1>1, <2>1
  <2>3. \A q \in Interval : q.high \in Nat /\ q.low \in Nat
    BY DEF Interval
  <2>4. r[k].high = s[k].high /\ r[k].low = s[k + 1].low
    OBVIOUS
  <2>5. QED
    BY <2>1, <2>2, <2>3, <2>4
<1>3. \A i \in 1 .. n - 1 : r[i] \in Interval /\ r[i].low <= r[i].high
  <2> SUFFICES ASSUME NEW i \in 1 .. n - 1
               PROVE  r[i] \in Interval /\ r[i].low <= r[i].high
    OBVIOUS
  <2>1. CASE i < k
    BY <1>1, <2>1
  <2>2. CASE i = k
    BY <1>2, <2>2
  <2>3. CASE i > k
    <3>1. i + 1 \in 1 .. n /\ r[i] = s[i + 1]
      BY <2>3
    <3>2. QED
      BY <1>1, <3>1
  <2>4. QED
    BY <2>1, <2>2, <2>3
<1>4. \A i, j \in 1 .. n - 1 : i < j => r[j].high + 1 < r[i].low
  <2> SUFFICES ASSUME NEW i \in 1 .. n - 1, NEW j \in 1 .. n - 1, i < j
               PROVE  r[j].high + 1 < r[i].low
    OBVIOUS
  <2>1. CASE j < k
    BY <1>1, <2>1
  <2>2. CASE j = k
    BY <1>1, <1>2, <2>2
  <2>3. CASE j > k /\ i < k
    <3>1. i \in 1 .. k - 1 /\ j \in k + 1 .. n - 1
      BY <2>3
    <3>2. j + 1 \in 1 .. n /\ i \in 1 .. n /\ i < j + 1
      OBVIOUS
    <3>3. r[j] = s[j + 1] /\ r[i] = s[i]
      BY <3>1
    <3>4. QED
      BY <1>1, <3>2, <3>3
  <2>4. CASE j > k /\ i = k
    <3>1. j + 1 \in 1 .. n /\ k + 1 < j + 1 /\ r[j] = s[j + 1]
      BY <2>4
    <3>2. s[j + 1].high + 1 < s[k + 1].low
      BY <1>1, <1>2, <3>1
    <3>3. QED
      BY <1>2, <2>4, <3>1, <3>2
  <2>5. CASE j > k /\ i > k
    <3>1. i \in k + 1 .. n - 1 /\ j \in k + 1 .. n - 1
      BY <2>5
    <3>2. j + 1 \in 1 .. n /\ i + 1 \in 1 .. n /\ i + 1 < j + 1
      OBVIOUS
    <3>3. r[j] = s[j + 1] /\ r[i] = s[i + 1]
      BY <3>1
    <3>4. QED
      BY <1>1, <3>2, <3>3
  <2>6. QED
    BY <2>1, <2>2, <2>3, <2>4, <2>5
<1>5. Canonical(r)
  BY <1>3, <1>4 DEF Canonical
<1>6. \A x : x \in r[k].low .. r[k].high <=>
          \/ x \in s[k].low .. s[k].high \/ x \in s[k + 1].low .. s[k + 1].high \/ x = v
  <2>1. \A a, b, c, d \in Nat : a <= b /\ c <= d /\ v + 1 = a /\ d + 1 = v
            => \A x : x \in c .. b <=> \/ x \in a .. b \/ x \in c .. d \/ x = v
    OBVIOUS
  <2>2. v + 1 = s[k].low /\ s[k + 1].high + 1 = v
    OBVIOUS
  <2>3. \A x : x \in s[k + 1].low .. s[k].high <=>
            \/ x \in s[k].low .. s[k].high \/ x \in s[k + 1].low .. s[k + 1].high \/ x = v
    BY <1>2, <2>1, <2>2
  <2>4. QED
    BY <1>2, <2>3
<1>7. Heights(r) = Heights(s) \cup {v}
  <2>1. ASSUME NEW x \in Heights(r) PROVE x \in Heights(s) \cup {v}
    <3>1. PICK i \in 1 .. Len(r) : x \in r[i].low .. r[i].high
      BY <2>1, HeightsIff
    <3>2. CASE i < k
      <4>1. i \in 1 .. Len(s) /\ r[i] = s[i]
        BY <3>2
      <4>2. QED
        BY <3>1, <4>1, HeightsIff
    <3>3. CASE i = k
      BY <1>2, <1>6, <3>1, <3>3, HeightsIff
    <3>4. CASE i > k
      <4>1. i \in k + 1 .. n - 1
        BY <3>4
      <4>2. i + 1 \in 1 .. Len(s)
        BY <4>1
      <4>3. r[i] = s[i + 1]
        BY <4>1
      <4>4. QED
        BY <3>1, <4>2, <4>3, HeightsIff
    <3>5. QED
      BY <3>2, <3>3, <3>4
  <2>2. ASSUME NEW x \in Heights(s) PROVE x \in Heights(r)
    <3>1. PICK i \in 1 .. Len(s) : x \in s[i].low .. s[i].high
      BY <2>2, HeightsIff
    <3>2. CASE i < k
      <4>1. i \in 1 .. Len(r) /\ r[i] = s[i]
        BY <3>2
      <4>2. QED
        BY <3>1, <4>1, HeightsIff
    <3>3. CASE i = k \/ i = k + 1
      <4>1. k \in 1 .. Len(r) /\ x \in r[k].low .. r[k].high
        BY <1>6, <3>1, <3>3
      <4>2. QED
        BY <4>1, HeightsIff
    <3>4. CASE i > k + 1
      <4>1. i - 1 \in 1 .. Len(r) /\ r[i - 1] = s[i]
        BY <3>4
      <4>2. QED
        BY <3>1, <4>1, HeightsIff
    <3>5. QED
      BY <3>2, <3>3, <3>4
  <2>3. v \in Heights(r)
    <3>1. k \in 1 .. Len(r) /\ v \in r[k].low .. r[k].high
      BY <1>6
    <3>2. QED
      BY <3>1, HeightsIff
  <2>4. QED
    BY <2>1, <2>2, <2>3
<1>8. QED
  BY <1>5, <1>7

\* What stands where when the part from k to just before m is replaced by one
\* element.
Spliced(s, e, k, m) == SubSeq(s, 1, k - 1) \o <<e>> \o SubSeq(s, m, Len(s))

LEMMA Splice ==
    ASSUME NEW s \in Seq(Interval), NEW e \in Interval, NEW k \in 1 .. Len(s) + 1,
           NEW m \in 1 .. Len(s) + 1, k <= m
    PROVE  /\ Spliced(s, e, k, m) \in Seq(Interval)
           /\ Len(Spliced(s, e, k, m)) = k + Len(s) - m + 1
           /\ \A i \in 1 .. k - 1 : Spliced(s, e, k, m)[i] = s[i]
           /\ Spliced(s, e, k, m)[k] = e
           /\ \A i \in k + 1 .. k + Len(s) - m + 1 :
                  Spliced(s, e, k, m)[i] = s[i - k + m - 1]
<1> DEFINE S == Interval
            a == SubSeq(s, 1, k - 1)
           b == SubSeq(s, m, Len(s))
           c == a \o <<e>>
<1>1. Len(s) \in Nat /\ \A i \in 1 .. Len(s) : s[i] \in S
  OBVIOUS
<1>2. a \in Seq(S) /\ Len(a) = k - 1 /\ \A i \in 1 .. k - 1 : a[i] = s[i]
  <2>1. 1 \in Int /\ k - 1 \in Int /\ \A i \in 1 .. k - 1 : s[i] \in S
    BY <1>1
  <2>2. /\ a \in Seq(S)
        /\ Len(a) = IF 1 <= k - 1 THEN (k - 1) - 1 + 1 ELSE 0
        /\ \A i \in 1 .. (k - 1) - 1 + 1 : a[i] = s[1 + i - 1]
    BY <2>1, SubSeqProperties
  <2>3. QED
    BY <1>1, <2>2
<1>3. b \in Seq(S) /\ Len(b) = Len(s) - m + 1 /\ \A i \in 1 .. Len(b) : b[i] = s[m + i - 1]
  <2>1. m \in Int /\ Len(s) \in Int /\ \A i \in m .. Len(s) : s[i] \in S
    BY <1>1
  <2>2. /\ b \in Seq(S)
        /\ Len(b) = IF m <= Len(s) THEN Len(s) - m + 1 ELSE 0
        /\ \A i \in 1 .. Len(s) - m + 1 : b[i] = s[m + i - 1]
    BY <2>1, SubSeqProperties
  <2>3. QED
    BY <1>1, <2>2
<1>4. <<e>> \in Seq(S) /\ Len(<<e>>) = 1 /\ <<e>>[1] = e
  OBVIOUS
<1>5. /\ c \in Seq(S) /\ Len(c) = k /\ c[k] = e
      /\ \A i \in 1 .. k - 1 : c[i] = s[i]
  <2> DEFINE d == <<e>>
  <2>1. d \in Seq(S) /\ Len(d) = 1 /\ d[1] = e
    BY <1>4
  <2> HIDE DEF S, a, d
  <2>2. /\ a \o d \in Seq(S) /\ Len(a \o d) = Len(a) + Len(d)
        /\ \A i \in 1 .. Len(a) + Len(d) :
              (a \o d)[i] = IF i <= Len(a) THEN a[i] ELSE d[i - Len(a)]
    BY <1>2, <2>1, ConcatProperties
  <2>3. c = a \o d
    BY DEF d
  <2> HIDE DEF c
  <2>4. QED
    BY <1>1, <1>2, <2>1, <2>2, <2>3
<1> HIDE DEF S, a, b, c
<1>6. /\ c \o b \in Seq(S) /\ Len(c \o b) = k + Len(b)
      /\ \A i \in 1 .. k + Len(b) : (c \o b)[i] = IF i <= k THEN c[i] ELSE b[i - k]
  <2>1. /\ c \o b \in Seq(S) /\ Len(c \o b) = Len(c) + Len(b)
        /\ \A i \in 1 .. Len(c) + Len(b) :
              (c \o b)[i] = IF i <= Len(c) THEN c[i] ELSE b[i - Len(c)]
    BY <1>3, <1>5, ConcatProperties
  <2>2. QED
    BY <1>5, <2>1
<1>7. Len(c \o b) = k + Len(s) - m + 1
  BY <1>1, <1>3, <1>6
<1>8. \A i \in 1 .. k - 1 : (c \o b)[i] = s[i]
  BY <1>1, <1>3, <1>5, <1>6
<1>9. (c \o b)[k] = e
  BY <1>1, <1>3, <1>5, <1>6
<1>10. ASSUME NEW i \in k + 1 .. k + Len(s) - m + 1
       PROVE  (c \o b)[i] = s[i - k + m - 1]
  <2>1. i - k \in 1 .. Len(b) /\ i \in 1 .. k + Len(b) /\ ~ (i <= k)
    BY <1>1, <1>3, <1>7
  <2>2. (c \o b)[i] = b[i - k] /\ b[i - k] = s[m + (i - k) - 1]
    BY <1>3, <1>6, <2>1
  <2>3. m + (i - k) - 1 = i - k + m - 1
    BY <1>1, <1>7
  <2>4. QED
    BY <2>2, <2>3
<1>11. c \o b = Spliced(s, e, k, m)
  BY DEF a, b, c, Spliced
<1>12. QED
  BY <1>6, <1>7, <1>8, <1>9, <1>10, <1>11 DEF S

\* insert adds its value to the heights, whichever case it takes, and leaves
\* the sequences ordered and apart.
LEMMA InsertOK ==
    ASSUME NEW s, Canonical(s), NEW v \in Nat
    PROVE  Canonical(Insert(s, v)) /\ Heights(Insert(s, v)) = Heights(s) \cup {v}
<1> DEFINE n == Len(s)
           k == InsertionPoint(s, v)
           Good(r) == Canonical(r) /\ Heights(r) = Heights(s) \cup {v}
<1>1. /\ s \in Seq(Interval) /\ n \in Nat
      /\ \A i \in 1 .. n : s[i] \in Interval /\ s[i].low <= s[i].high
      /\ \A i, j \in 1 .. n : i < j => s[j].high + 1 < s[i].low
  BY DEF Canonical
<1>2. /\ k \in 1 .. n + 1
      /\ \A i \in 1 .. n : i < k => v + 1 < s[i].low
      /\ k <= n => ~ (v + 1 < s[k].low)
  BY InsertionPointOK
<1>3. \A q \in Interval : q.high \in Nat /\ q.low \in Nat
  BY DEF Interval
<1>4. Single(v) \in Interval
  BY DEF Single, Interval
<1>5. ASSUME k <= n => v > s[k].high + 1
      PROVE  Good(SubSeq(s, 1, k - 1) \o <<Single(v)>> \o SubSeq(s, k, n))
  <2> DEFINE e == Single(v)
             m == k
             r == Spliced(s, e, k, m)
  <2>1. /\ s \in Seq(Interval) /\ k \in 1 .. Len(s) + 1
        /\ m \in 1 .. Len(s) + 1 /\ k <= m
    BY <1>1, <1>2
  <2>2. /\ Len(s) \in Nat /\ k \in Nat
        /\ k + Len(s) - m + 1 = Len(s) + 1 /\ \A i \in Int : i - k + m - 1 = i - 1
    BY <1>1, <1>2
  <2>3. e \in Interval
    BY <1>4
  <2> HIDE DEF e, k, m
  <2>4. /\ Spliced(s, e, k, m) \in Seq(Interval)
        /\ Len(Spliced(s, e, k, m)) = k + Len(s) - m + 1
        /\ \A i \in 1 .. k - 1 : Spliced(s, e, k, m)[i] = s[i]
        /\ Spliced(s, e, k, m)[k] = e
        /\ \A i \in k + 1 .. k + Len(s) - m + 1 :
              Spliced(s, e, k, m)[i] = s[i - k + m - 1]
    BY <2>1, <2>3, Splice
  <2>5. r = Spliced(s, e, k, m)
    OBVIOUS
  <2> HIDE DEF r
  <2>6. /\ r \in Seq(Interval) /\ Len(r) = Len(s) + 1
        /\ \A i \in 1 .. k - 1 : r[i] = s[i]
        /\ r[k] = e
        /\ \A i \in k + 1 .. Len(s) + 1 : r[i] = s[i - 1]
    <3>1. /\ r \in Seq(Interval) /\ Len(r) = Len(s) + 1
          /\ \A i \in 1 .. k - 1 : r[i] = s[i]
          /\ r[k] = e
      BY <2>2, <2>4, <2>5
    <3>2. ASSUME NEW i \in k + 1 .. Len(s) + 1
          PROVE  r[i] = s[i - 1]
      <4>1. i \in k + 1 .. k + Len(s) - m + 1 /\ i - k + m - 1 = i - 1
        BY <2>2
      <4>2. QED
        BY <2>4, <2>5, <4>1
    <3>3. QED
      BY <3>1, <3>2
  <2>7. AddedAt(s, r, k, v)
    BY <1>2, <1>5, <2>6 DEF AddedAt, e
  <2>8. Canonical(r) /\ Heights(r) = Heights(s) \cup {v}
    BY <2>7, InsertSingle
  <2>9. QED
    BY <2>8 DEF r, m, e, Spliced
<1>6. CASE k > n
  <2>1. Insert(s, v) = SubSeq(s, 1, k - 1) \o <<Single(v)>> \o SubSeq(s, k, n)
    BY <1>6 DEF Insert
  <2>2. ~ (k <= n)
    BY <1>1, <1>2, <1>6
  <2>3. QED
    BY <1>5, <1>6, <2>1, <2>2
<1>7. CASE k <= n
  <2>1. k \in 1 .. n /\ ~ (k > n) /\ s[k] \in Interval /\ s[k].low <= s[k].high
    BY <1>1, <1>2, <1>7
  <2>2. s[k].high \in Nat /\ s[k].low \in Nat
    BY <1>3, <2>1
  <2>3. /\ TryInsert(s[k], v) # "TooLow"
        /\ TryInsert(s[k], v) = "TooHigh" <=> v > s[k].high + 1
        /\ TryInsert(s[k], v) = "ExtendedHigh" <=> v = s[k].high + 1
        /\ TryInsert(s[k], v) = "ExtendedLow" <=> v + 1 = s[k].low
        /\ TryInsert(s[k], v) = "AlreadyInSequence" <=> v >= s[k].low /\ v <= s[k].high
        /\ TryInsert(s[k], v) \in {"TooLow", "TooHigh", "ExtendedHigh", "ExtendedLow",
                                   "AlreadyInSequence"}
    BY <1>2, <1>7, <2>1, TryInsertCases
  <2>4. CASE TryInsert(s[k], v) = "TooHigh"
    <3>1. Insert(s, v) = SubSeq(s, 1, k - 1) \o <<Single(v)>> \o SubSeq(s, k, n)
      BY <2>1, <2>4 DEF Insert
    <3>2. QED
      BY <1>5, <2>3, <2>4, <3>1
  <2>5. CASE TryInsert(s[k], v) = "AlreadyInSequence"
    <3>1. Insert(s, v) = s
      BY <2>1, <2>5 DEF Insert
    <3>2. v \in s[k].low .. s[k].high
      BY <2>2, <2>3, <2>5
    <3>3. v \in Heights(s)
      BY <2>1, <3>2, HeightsIff
    <3>4. QED
      BY <3>1, <3>3
  <2>6. CASE TryInsert(s[k], v) = "ExtendedHigh"
    <3> DEFINE e == [high |-> v, low |-> s[k].low]
               r == [s EXCEPT ![k] = e]
    <3>1. Insert(s, v) = r
      BY <2>1, <2>6 DEF Insert
    <3>2. e \in Interval /\ e.high = v /\ e.low = s[k].low /\ v = s[k].high + 1
      BY <2>2, <2>3, <2>6 DEF Interval
    <3> HIDE DEF k, e
    <3>3. /\ r \in Seq(Interval) /\ Len(r) = n
          /\ \A i \in 1 .. n : r[i] = IF i = k THEN e ELSE s[i]
      BY <1>1, <2>1, <3>2, ExceptSeq
    <3> HIDE DEF r
    <3>4. /\ r[k] = e /\ \A i \in 1 .. n : i # k => r[i] = s[i]
      BY <2>1, <3>3
    <3>5. e.low <= e.high /\ e.low .. e.high = (s[k].low .. s[k].high) \cup {v}
      BY <2>1, <2>2, <3>2
    <3>6. \A i \in 1 .. n : i < k => e.high + 1 < s[i].low
      BY <1>2, <3>2
    <3>7. \A i \in 1 .. n : k < i => s[i].high + 1 < e.low
      BY <1>1, <2>1, <3>2
    <3>8. ExtendedAt(s, r, k, v)
      BY <2>1, <3>3, <3>4, <3>5, <3>6, <3>7 DEF ExtendedAt
    <3>9. Canonical(r) /\ Heights(r) = Heights(s) \cup {v}
      BY <3>8, InsertNext
    <3>10. QED
      BY <3>1, <3>9
  <2>7. CASE TryInsert(s[k], v) = "ExtendedLow"
    <3>1. Insert(s, v) = MergeDown(s, k, v)
      BY <2>1, <2>7 DEF Insert
    <3>2. v + 1 = s[k].low
      BY <2>3, <2>7
    <3> HIDE DEF k
    <3>3. CASE k < n /\ s[k + 1].high + 1 = v
      <4> DEFINE e == [high |-> s[k].high, low |-> s[k + 1].low]
                 r == Spliced(s, e, k, k + 2)
      <4>1. MergeDown(s, k, v) = r
        BY <3>3 DEF MergeDown, Spliced
      <4>2. k \in 1 .. n - 1 /\ k + 1 \in 1 .. n /\ k + 2 \in 1 .. n + 1 /\ k <= k + 2
        BY <1>1, <2>1, <3>3
      <4>3. s[k + 1].low \in Nat
        BY <1>1, <1>3, <4>2
      <4>4. e \in Interval
        BY <2>2, <4>3 DEF Interval
      <4> HIDE DEF e
      <4> DEFINE m == k + 2
      <4>5. m \in 1 .. Len(s) + 1 /\ k <= m
        BY <4>2
      <4> HIDE DEF m
      <4>6. /\ Spliced(s, e, k, m) \in Seq(Interval)
            /\ Len(Spliced(s, e, k, m)) = k + Len(s) - m + 1
            /\ \A i \in 1 .. k - 1 : Spliced(s, e, k, m)[i] = s[i]
            /\ Spliced(s, e, k, m)[k] = e
            /\ \A i \in k + 1 .. k + Len(s) - m + 1 :
                  Spliced(s, e, k, m)[i] = s[i - k + m - 1]
        BY <1>1, <1>2, <4>4, <4>5, Splice
      <4> HIDE DEF r
      <4>7. k + Len(s) - m + 1 = Len(s) - 1 /\ \A i \in Int : i - k + m - 1 = i + 1
        BY <1>1, <4>2 DEF m
      <4>8. r = Spliced(s, e, k, m)
        BY DEF m, r
      <4>9. /\ Len(r) = Len(s) - 1
            /\ \A i \in k + 1 .. Len(s) - 1 : r[i] = s[i + 1]
        <5>1. Len(r) = Len(s) - 1
          BY <4>6, <4>7, <4>8
        <5>2. ASSUME NEW i \in k + 1 .. Len(s) - 1
              PROVE  r[i] = s[i + 1]
          <6>1. i \in k + 1 .. k + Len(s) - m + 1 /\ i - k + m - 1 = i + 1
            BY <1>1, <4>2, <4>7
          <6>2. QED
            BY <4>6, <4>8, <6>1
        <5>3. QED
          BY <5>1, <5>2
      <4>10. MergedAt(s, r, k, v)
        BY <3>2, <3>3, <4>2, <4>6, <4>8, <4>9 DEF e, MergedAt
      <4>11. Canonical(r) /\ Heights(r) = Heights(s) \cup {v}
        BY <4>10, InsertBetween
      <4>12. QED
        BY <3>1, <4>1, <4>11 DEF k
    <3>4. CASE ~ (k < n /\ s[k + 1].high + 1 = v)
      <4> DEFINE e == [high |-> s[k].high, low |-> v]
                 r == [s EXCEPT ![k] = e]
      <4>1. MergeDown(s, k, v) = r
        BY <3>4 DEF MergeDown
      <4>2. e \in Interval /\ e.high = s[k].high /\ e.low = v
        BY <2>2 DEF Interval
      <4> HIDE DEF e
      <4>3. /\ r \in Seq(Interval) /\ Len(r) = n
            /\ \A i \in 1 .. n : r[i] = IF i = k THEN e ELSE s[i]
        BY <1>1, <2>1, <4>2, ExceptSeq
      <4> HIDE DEF r
      <4>4. /\ r[k] = e /\ \A i \in 1 .. n : i # k => r[i] = s[i]
        BY <2>1, <4>3
      <4>5. e.low <= e.high /\ e.low .. e.high = (s[k].low .. s[k].high) \cup {v}
        BY <2>1, <2>2, <3>2, <4>2
      <4>6. \A i \in 1 .. n : i < k => e.high + 1 < s[i].low
        BY <1>1, <2>1, <4>2
      <4>7. \A i \in 1 .. n : k < i => s[i].high + 1 < e.low
        <5> SUFFICES ASSUME NEW i \in 1 .. n, k < i PROVE s[i].high + 1 < v
          BY <4>2
        <5>1. k + 1 \in 1 .. n /\ k < n
          BY <1>1, <2>1
        <5>2. s[k + 1].high \in Nat /\ s[k + 1].low \in Nat /\ s[k + 1].low <= s[k + 1].high
          BY <1>1, <1>3, <5>1
        <5>3. s[k + 1].high + 1 < s[k].low
          BY <1>1, <2>1, <5>1
        <5>4. s[k + 1].high + 1 < v
          BY <2>2, <3>2, <3>4, <5>1, <5>2, <5>3
        <5>5. CASE i = k + 1
          BY <5>4, <5>5
        <5>6. CASE i > k + 1
          <6>1. s[i].high + 1 < s[k + 1].low /\ s[i].high \in Nat
            BY <1>1, <1>3, <5>1, <5>6
          <6>2. QED
            BY <5>2, <5>4, <6>1
        <5>7. QED
          BY <1>1, <2>1, <5>5, <5>6
      <4>8. ExtendedAt(s, r, k, v)
        BY <2>1, <4>3, <4>4, <4>5, <4>6, <4>7 DEF ExtendedAt
      <4>9. Canonical(r) /\ Heights(r) = Heights(s) \cup {v}
        BY <4>8, InsertNext
      <4>10. QED
        BY <3>1, <4>1, <4>9 DEF k
    <3>5. QED
      BY <3>3, <3>4
  <2>8. QED
    BY <2>3, <2>4, <2>5, <2>6, <2>7
<1>8. QED
  BY <1>1, <1>2, <1>6, <1>7

\* truncate drops the sequences above the limit, which are the first ones, and
\* cuts the next one off.
LEMMA FirstKeptOK ==
    ASSUME NEW s, Canonical(s), NEW m \in Nat
    PROVE  /\ FirstKept(s, m) \in 1 .. Len(s) + 1
           /\ \A i \in 1 .. Len(s) : i < FirstKept(s, m) => ~ (s[i].low <= m)
           /\ \A i \in 1 .. Len(s) : i >= FirstKept(s, m) => s[i].low <= m
<1> DEFINE T == {i \in 1 .. Len(s) : s[i].low <= m} \cup {Len(s) + 1}
           f == Min(T)
<1>1. /\ s \in Seq(Interval) /\ Len(s) \in Nat
      /\ \A i \in 1 .. Len(s) : s[i] \in Interval /\ s[i].low <= s[i].high
      /\ \A i, j \in 1 .. Len(s) : i < j => s[j].high + 1 < s[i].low
  BY DEF Canonical
<1>2. T \in SUBSET Nat /\ T # {}
  BY <1>1
<1>3. f \in T /\ \A y \in T : f <= y
  BY <1>2, LeastElement
<1>4. FirstKept(s, m) = f
  BY DEF FirstKept
<1> HIDE DEF f
<1>5. f \in 1 .. Len(s) + 1
  BY <1>1, <1>3
<1>6. ASSUME NEW i \in 1 .. Len(s), i < f
      PROVE  ~ (s[i].low <= m)
  BY <1>1, <1>3, <1>5, <1>6
<1>7. ASSUME NEW i \in 1 .. Len(s), i >= f
      PROVE  s[i].low <= m
  <2>1. f \in 1 .. Len(s) /\ s[f].low <= m
    BY <1>1, <1>3, <1>5, <1>7
  <2>2. /\ s[f].low \in Nat /\ s[i].low \in Nat /\ s[i].high \in Nat
        /\ s[i].low <= s[i].high
    BY <1>1, <2>1 DEF Interval
  <2>3. CASE i = f
    BY <2>1, <2>3
  <2>4. CASE i > f
    <3>1. s[i].high + 1 < s[f].low
      BY <1>1, <2>1, <2>4
    <3>2. QED
      BY <2>1, <2>2, <3>1
  <2>5. QED
    BY <1>5, <1>7, <2>3, <2>4
<1>8. QED
  BY <1>4, <1>5, <1>6, <1>7

\* truncate keeps exactly the heights up to the limit.
LEMMA TruncateOK ==
    ASSUME NEW s, Canonical(s), NEW m \in Nat
    PROVE  /\ Canonical(Truncate(s, m))
           /\ Heights(Truncate(s, m)) = Heights(s) \cap (0 .. m)
<1> DEFINE n == Len(s)
           f == FirstKept(s, m)
           kept == SubSeq(s, f, n)
           Cut(q) == [high |-> IF q.high <= m THEN q.high ELSE m, low |-> q.low]
           r == Truncate(s, m)
<1>1. /\ s \in Seq(Interval) /\ n \in Nat
      /\ \A i \in 1 .. n : s[i] \in Interval /\ s[i].low <= s[i].high
      /\ \A i, j \in 1 .. n : i < j => s[j].high + 1 < s[i].low
  BY DEF Canonical
<1>2. /\ f \in 1 .. n + 1
      /\ \A i \in 1 .. n : i < f => ~ (s[i].low <= m)
      /\ \A i \in 1 .. n : i >= f => s[i].low <= m
  BY FirstKeptOK
<1>3. /\ kept \in Seq(Interval) /\ Len(kept) = n - f + 1
      /\ \A i \in 1 .. n - f + 1 : kept[i] = s[f + i - 1]
  <2> HIDE DEF f
  <2>1. f \in Int /\ n \in Int /\ \A i \in f .. n : s[i] \in Interval
    BY <1>1, <1>2
  <2>2. /\ kept \in Seq(Interval)
        /\ Len(kept) = IF f <= n THEN n - f + 1 ELSE 0
        /\ \A i \in 1 .. n - f + 1 : kept[i] = s[f + i - 1]
    BY <2>1, SubSeqProperties
  <2>3. QED
    BY <1>1, <1>2, <2>2
<1>4. r = [i \in 1 .. Len(kept) |-> Cut(kept[i])]
  BY DEF Truncate
<1>5. \A q \in Interval : q.low <= q.high /\ q.low <= m =>
          /\ Cut(q) \in Interval /\ Cut(q).low = q.low /\ Cut(q).low <= Cut(q).high
          /\ Cut(q).high <= q.high
          /\ \A x : x \in Cut(q).low .. Cut(q).high <=> x \in q.low .. q.high /\ x \in 0 .. m
  BY DEF Interval
<1> HIDE DEF f, kept, Cut, r
<1>6. \A i \in 1 .. n - f + 1 :
          /\ f + i - 1 \in 1 .. n
          /\ f + i - 1 >= f
  BY <1>1, <1>2
<1>7. ASSUME NEW i \in 1 .. n - f + 1
      PROVE  /\ r[i] = Cut(s[f + i - 1])
             /\ r[i] \in Interval /\ r[i].low <= r[i].high
             /\ r[i].low = s[f + i - 1].low /\ r[i].high <= s[f + i - 1].high
             /\ \A x : x \in r[i].low .. r[i].high <=>
                    x \in s[f + i - 1].low .. s[f + i - 1].high /\ x \in 0 .. m
  <2>1. r[i] = Cut(s[f + i - 1])
    BY <1>3, <1>4
  <2>2. /\ s[f + i - 1] \in Interval /\ s[f + i - 1].low <= s[f + i - 1].high
        /\ s[f + i - 1].low <= m
    BY <1>1, <1>2, <1>6
  <2>3. QED
    BY <1>5, <2>1, <2>2
<1>8. r \in Seq(Interval) /\ Len(r) = n - f + 1
  <2>1. n - f + 1 \in Nat /\ Len(kept) = n - f + 1
    BY <1>1, <1>2, <1>3
  <2>2. r = [i \in 1 .. n - f + 1 |-> r[i]]
    BY <1>4, <2>1
  <2>3. \A i \in 1 .. n - f + 1 : r[i] \in Interval
    BY <1>7
  <2>4. QED
    BY <2>1, <2>2, <2>3
<1>9. Canonical(r)
  <2>1. ASSUME NEW i \in 1 .. n - f + 1, NEW j \in 1 .. n - f + 1, i < j
        PROVE  r[j].high + 1 < r[i].low
    <3>1. /\ f + i - 1 \in 1 .. n /\ f + j - 1 \in 1 .. n
          /\ f + i - 1 < f + j - 1
      BY <1>1, <1>2, <2>1
    <3>2. s[f + j - 1].high + 1 < s[f + i - 1].low
      BY <1>1, <3>1
    <3>3. /\ r[i].low = s[f + i - 1].low /\ r[j].high <= s[f + j - 1].high
          /\ r[j] \in Interval /\ s[f + j - 1] \in Interval /\ s[f + i - 1] \in Interval
      BY <1>1, <1>7, <3>1
    <3>4. r[j].high \in Nat /\ s[f + j - 1].high \in Nat /\ s[f + i - 1].low \in Nat
      BY <3>3 DEF Interval
    <3>5. \A a, b, c \in Nat : a <= b /\ b + 1 < c => a + 1 < c
      OBVIOUS
    <3>6. r[j].high + 1 < s[f + i - 1].low
      BY <3>2, <3>3, <3>4, <3>5
    <3>7. QED
      BY <3>3, <3>6
  <2>2. QED
    BY <1>7, <1>8, <2>1 DEF Canonical
<1>10. Heights(r) = Heights(s) \cap (0 .. m)
  <2>1. ASSUME NEW x \in Heights(r) PROVE x \in Heights(s) /\ x \in 0 .. m
    <3>1. PICK i \in 1 .. n - f + 1 : x \in r[i].low .. r[i].high
      BY <1>8, HeightsIff
    <3>2. /\ f + i - 1 \in 1 .. n /\ x \in 0 .. m
          /\ x \in s[f + i - 1].low .. s[f + i - 1].high
      BY <1>6, <1>7, <3>1
    <3>3. QED
      BY <3>2, HeightsIff
  <2>2. ASSUME NEW x \in Heights(s), x \in 0 .. m PROVE x \in Heights(r)
    <3>1. PICK i \in 1 .. n : x \in s[i].low .. s[i].high
      BY HeightsIff
    <3>2. s[i].low \in Nat /\ s[i].low <= m
      BY <1>1, <2>2, <3>1 DEF Interval
    <3>3. i >= f
      BY <1>1, <1>2, <3>2
    <3>4. i - f + 1 \in 1 .. n - f + 1 /\ f + (i - f + 1) - 1 = i
      BY <1>1, <1>2, <3>3
    <3>5. x \in r[i - f + 1].low .. r[i - f + 1].high
      BY <1>7, <2>2, <3>1, <3>4
    <3>6. QED
      BY <1>8, <3>4, <3>5, HeightsIff
  <2>3. QED
    BY <2>1, <2>2
<1>11. QED
  BY <1>9, <1>10 DEF r
-----------------------------------------------------------------------------
(* The inductive invariant.                                                *)

\* The blocks that have been executed, in the order of execution: every height
\* once, from the first one on.
ChainInOrder ==
    /\ Len(preState) <= MaxHeight
    /\ \A i \in 1 .. Len(preState) : preState[i] = i

\* Only the block after the last executed one is being executed, and on the
\* state the last one left.
OneAtATime ==
    \A h \in Blocks :
        /\ task[h] \in {"spawned", "executing"} => h = Len(preState) + 1
        /\ task[h] = "executing" => cloned[h] = preState

\* What comes after the execution of a block comes after the execution.
AfterExecution ==
    /\ \A h \in Blocks :
          /\ task[h] \in {"executed", "announced", "marking", "marked", "done"}
                => h <= Len(preState)
          /\ store[h] # "none" => h <= Len(preState)
    /\ \A e \in Range(events) : e[1] \in {"announce", "mark", "put"} => e[2] <= Len(preState)

\* The joining reactor has no futures of the contract runtime.
NothingWhileJoining == mode # "participating" => \A h \in Blocks : task[h] = "none"

Ordered ==
    /\ TypeOK
    /\ ~ fatal
    /\ 0 \in stored
    /\ ChainInOrder
    /\ OneAtATime
    /\ AfterExecution
    /\ NothingWhileJoining

\* The global state of a block is in the trie store when the block is the last
\* executed one, when it is about to be marked, and when it is completed, in
\* memory or in the state store.
StatesHeld ==
    /\ 0 \in states
    /\ mode # "headers" => Len(preState) \in states
    /\ \A h \in Blocks : task[h] \in {"executed", "announced"} => h \in states
    /\ \A e \in Range(events) : e[1] = "mark" => e[2] \in states
    /\ Heights(completed) \subseteq states
    /\ Heights(written) \subseteq states

\* How far the joining reactor is: nothing is executed while it fetches headers,
\* and then storage is at most the one block ahead that is to be executed.
JoinsBehind ==
    /\ mode = "headers" => preState = <<>>
    /\ mode \in {"blocks", "executed"} => Max(stored) = Len(preState)
    /\ mode = "stored" => Max(stored) = Len(preState) + 1

IInv == Ordered /\ StatesHeld /\ JoinsBehind

\* What an event in the queue stands for when one is scheduled,
LEMMA Scheduling ==
    ASSUME TypeOK, NEW kind \in EventKinds, NEW h \in Blocks, Schedule(kind, h)
    PROVE  /\ events' \in Seq(EventKinds \X Blocks)
           /\ Range(events') = Range(events) \cup {<<kind, h>>}
<1> DEFINE E == EventKinds \X Blocks
           e == <<kind, h>>
<1>1. events \in Seq(E) /\ e \in E /\ events' = Append(events, e)
  BY DEF TypeOK, Schedule
<1> HIDE DEF E, e
<1>2. /\ events' \in Seq(E) /\ Len(events') = Len(events) + 1
      /\ \A i \in 1 .. Len(events) : events'[i] = events[i]
      /\ events'[Len(events) + 1] = e
  BY <1>1, AppendProperties
<1>3. Range(events') = Range(events) \cup {e}
  <2>1. /\ Len(events) \in Nat /\ DOMAIN events = 1 .. Len(events)
        /\ DOMAIN events' = 1 .. Len(events) + 1
    BY <1>1, <1>2, LenProperties
  <2>2. ASSUME NEW x \in Range(events) PROVE x \in Range(events')
    <3>1. PICK i \in 1 .. Len(events) : x = events[i]
      BY <2>1 DEF Range
    <3>2. i \in DOMAIN events' /\ events'[i] = x
      BY <1>2, <2>1, <3>1
    <3>3. QED
      BY <3>2 DEF Range
  <2>3. e \in Range(events')
    <3>1. Len(events) + 1 \in DOMAIN events' /\ events'[Len(events) + 1] = e
      BY <1>2, <2>1
    <3>2. QED
      BY <3>1 DEF Range
  <2>4. ASSUME NEW x \in Range(events') PROVE x \in Range(events) \cup {e}
    <3>1. PICK i \in 1 .. Len(events) + 1 : x = events'[i]
      BY <2>1 DEF Range
    <3>2. CASE i = Len(events) + 1
      BY <1>2, <3>1, <3>2
    <3>3. CASE i \in 1 .. Len(events)
      <4>1. i \in DOMAIN events /\ x = events[i]
        BY <1>2, <2>1, <3>1, <3>3
      <4>2. QED
        BY <4>1 DEF Range
    <3>4. QED
      BY <2>1, <3>2, <3>3
  <2>5. QED
    BY <2>2, <2>3, <2>4
<1>4. QED
  BY <1>2, <1>3 DEF E, e

\* and when one is taken.
LEMMA Dispatching ==
    ASSUME TypeOK, NEW kind, NEW h, Dispatch(kind, h)
    PROVE  /\ events' \in Seq(EventKinds \X Blocks)
           /\ Range(events') \subseteq Range(events)
           /\ <<kind, h>> \in Range(events)
<1> DEFINE E == EventKinds \X Blocks
           e == <<kind, h>>
<1>1. events \in Seq(E) /\ events # <<>> /\ Head(events) = e /\ events' = Tail(events)
  BY DEF TypeOK, Dispatch
<1> HIDE DEF E, e
<1>2. /\ events' \in Seq(E) /\ Len(events') = Len(events) - 1
      /\ \A i \in 1 .. Len(events') : events'[i] = events[i + 1]
  BY <1>1, HeadTailProperties
<1>3. /\ Len(events) \in Nat /\ Len(events) # 0 /\ DOMAIN events = 1 .. Len(events)
      /\ DOMAIN events' = 1 .. Len(events')
  BY <1>1, <1>2, LenProperties, EmptySeq
<1>4. e \in Range(events)
  <2>1. 1 \in DOMAIN events /\ events[1] = e
    BY <1>1, <1>3
  <2>2. QED
    BY <2>1 DEF Range
<1>5. ASSUME NEW x \in Range(events') PROVE x \in Range(events)
  <2>1. PICK i \in 1 .. Len(events') : x = events'[i]
    BY <1>3 DEF Range
  <2>2. i + 1 \in DOMAIN events /\ events[i + 1] = x
    BY <1>2, <1>3, <2>1
  <2>3. QED
    BY <2>2 DEF Range
<1>6. QED
  BY <1>2, <1>4, <1>5 DEF E, e

\* Every event is about a block.
LEMMA EventHeights ==
    ASSUME TypeOK, NEW e \in Range(events)
    PROVE  e[1] \in EventKinds /\ e[2] \in Nat
<1>1. events \in Seq(EventKinds \X Blocks)
  BY DEF TypeOK
<1>2. PICK i \in DOMAIN events : e = events[i]
  BY DEF Range
<1>3. e \in EventKinds \X Blocks
  BY <1>1, <1>2, LenProperties, ElementOfSeq
<1>4. QED
  BY <1>3, HeightAssumption DEF Blocks

\* The height that is due is the one after the last executed block's.
LEMMA NextIsDue ==
    ASSUME TypeOK, ChainInOrder
    PROVE  NextHeight(preState) = Len(preState) + 1
<1>1. preState \in Seq(Nat) /\ Len(preState) \in Nat
  BY DEF TypeOK
<1>2. CASE preState = <<>>
  BY <1>2 DEF NextHeight
<1>3. CASE preState # <<>>
  <2>1. Len(preState) \in 1 .. Len(preState)
    BY <1>1, <1>3, EmptySeq
  <2>2. preState[Len(preState)] = Len(preState)
    BY <2>1 DEF ChainInOrder
  <2>3. QED
    BY <1>3, <2>2 DEF NextHeight
<1>4. QED
  BY <1>2, <1>3

\* A chain that grows by the due block stays in order.
LEMMA GrowsInOrder ==
    ASSUME TypeOK, ChainInOrder, NEW h \in Blocks, h = Len(preState) + 1,
           preState' = Append(preState, h)
    PROVE  /\ preState' \in Seq(Nat) /\ Len(preState') = h
           /\ ChainInOrder'
<1>1. preState \in Seq(Nat) /\ Len(preState) \in Nat /\ h \in Nat /\ h <= MaxHeight
  BY HeightAssumption DEF TypeOK, Blocks
<1>2. /\ preState' \in Seq(Nat) /\ Len(preState') = Len(preState) + 1
      /\ \A i \in 1 .. Len(preState) : preState'[i] = preState[i]
      /\ preState'[Len(preState) + 1] = h
  BY <1>1, AppendProperties
<1>3. ASSUME NEW i \in 1 .. Len(preState') PROVE preState'[i] = i
  BY <1>1, <1>2 DEF ChainInOrder
<1>4. QED
  BY <1>1, <1>2, <1>3 DEF ChainInOrder

\* The invariant holds of a node that starts the first era.
LEMMA InitIInv == Init => IInv
<1> SUFFICES ASSUME Init PROVE IInv
  OBVIOUS
<1> USE HeightAssumption, RestartAssumption
<1>1. Canonical(completed)
  <2>1. completed = <<Single(0)>> /\ Single(0) \in Interval
            /\ Single(0).low = 0 /\ Single(0).high = 0
    BY DEF Init, Single, Interval
  <2>2. completed \in Seq(Interval) /\ Len(completed) = 1 /\ completed[1] = Single(0)
    BY <2>1
  <2>3. QED
    BY <2>1, <2>2 DEF Canonical
<1>2. Range(events) = {}
  BY DEF Init, Range
<1>3. Len(preState) = 0 /\ preState \in Seq(Nat)
  BY DEF Init
<1>4. TypeOK
  <2>1. /\ request \in [Blocks -> RequestPhases] /\ task \in [Blocks -> TaskPhases]
        /\ store \in [Blocks -> StorePhases]
    BY DEF Init, RequestPhases, TaskPhases, StorePhases
  <2>2. events \in Seq(EventKinds \X Blocks)
    BY EmptySeq DEF Init
  <2>3. cloned \in [Blocks -> Seq(Nat)]
    BY EmptySeq DEF Init
  <2>4. /\ base \in 0 .. MaxHeight /\ finalized \in 0 .. MaxHeight
        /\ stored \subseteq 0 .. MaxHeight /\ restarts \in 0 .. MaxRestarts
        /\ states \subseteq 0 .. MaxHeight /\ written = completed
    BY DEF Init
  <2>5. QED
    BY <1>1, <1>3, <2>1, <2>2, <2>3, <2>4 DEF Init, TypeOK
<1>5. ChainInOrder
  BY <1>3 DEF ChainInOrder
<1>6. Ordered
  BY <1>2, <1>4, <1>5 DEF Init, Ordered, OneAtATime, AfterExecution, NothingWhileJoining
<1>7. Heights(completed) = {0} /\ Heights(written) = {0}
  <2>1. /\ completed = <<Single(0)>> /\ written = completed
        /\ Single(0).low = 0 /\ Single(0).high = 0
    BY DEF Init, Single
  <2>2. Len(completed) = 1 /\ completed[1] = Single(0)
    BY <2>1
  <2>3. \A x : x \in Heights(completed) <=> x \in 0 .. 0
    BY <2>1, <2>2, HeightsIff
  <2>4. QED
    BY <2>1, <2>3
<1>8. StatesHeld /\ JoinsBehind
  BY <1>2, <1>3, <1>7 DEF Init, StatesHeld, JoinsBehind
<1>9. QED
  BY <1>6, <1>8 DEF IInv

\* The steps that leave the chain and the completed blocks alone keep the
\* invariant.
LEMMA QuietSteps ==
    ASSUME Ordered, NEW h \in Blocks,
           \/ Finalize \/ InsertInQueue \/ RequestStep(h) \/ EnqueueStep(h)
           \/ BeginExecution(h) \/ AnnounceBlock(h) \/ RequestMark(h) \/ StoreStep(h)
    PROVE  Ordered'
<1> USE HeightAssumption DEF Ordered
<1>0. h \in 1 .. MaxHeight /\ Blocks = 1 .. MaxHeight /\ Len(preState) \in Nat
  BY DEF Blocks, TypeOK
<1>1. CASE Finalize
  <2>1. TypeOK' /\ ~ fatal' /\ (0 \in stored)'
    BY <1>0, <1>1 DEF Finalize, TypeOK, RequestPhases, nodeVars, requestVars, runtimeVars, storageVars
  <2>2. ChainInOrder' /\ OneAtATime' /\ AfterExecution' /\ NothingWhileJoining'
    BY <1>0, <1>1 DEF Finalize, Running, Idle, Dispatch, TypeOK, ChainInOrder, OneAtATime,
       AfterExecution, NothingWhileJoining, nodeVars, requestVars, runtimeVars, storageVars
  <2>3. QED
    BY <2>1, <2>2
<1>2. CASE LookUpHeader(h)
  <2>1. /\ events' \in Seq(EventKinds \X Blocks)
        /\ Range(events') = Range(events) \cup {<<"exists", h>>}
    <3>1. "exists" \in EventKinds /\ Schedule("exists", h)
      BY <1>2 DEF LookUpHeader, EventKinds
    <3>2. QED
      BY <3>1, Scheduling
  <2>2. TypeOK' /\ ~ fatal' /\ (0 \in stored)'
    BY <1>0, <1>2, <2>1 DEF LookUpHeader, TypeOK, RequestPhases, nodeVars, requestVars, runtimeVars, storageVars
  <2>3. ChainInOrder' /\ OneAtATime' /\ AfterExecution' /\ NothingWhileJoining'
    BY <1>0, <1>2, <2>1 DEF LookUpHeader, Running, Idle, Dispatch, TypeOK, ChainInOrder, OneAtATime,
       AfterExecution, NothingWhileJoining, nodeVars, requestVars, runtimeVars, storageVars
  <2>4. QED
    BY <2>2, <2>3
<1>3. CASE HeaderLookedUp(h)
  <2>1. /\ events' \in Seq(EventKinds \X Blocks)
        /\ Range(events') \subseteq Range(events) /\ <<"exists", h>> \in Range(events)
    <3>1. Dispatch("exists", h)
      BY <1>3 DEF HeaderLookedUp
    <3>2. QED
      BY <3>1, Dispatching
  <2>2. TypeOK' /\ ~ fatal' /\ (0 \in stored)'
    BY <1>0, <1>3, <2>1 DEF HeaderLookedUp, TypeOK, RequestPhases, nodeVars, requestVars, runtimeVars, storageVars
  <2>3. ChainInOrder' /\ OneAtATime' /\ AfterExecution' /\ NothingWhileJoining'
    BY <1>0, <1>3, <2>1 DEF HeaderLookedUp, Running, Idle, Dispatch, TypeOK, ChainInOrder, OneAtATime,
       AfterExecution, NothingWhileJoining, nodeVars, requestVars, runtimeVars, storageVars
  <2>4. QED
    BY <2>2, <2>3
<1>4. CASE DeploysCollected(h)
  <2>1. /\ events' \in Seq(EventKinds \X Blocks)
        /\ Range(events') = Range(events) \cup {<<"enqueue", h>>}
    <3>1. "enqueue" \in EventKinds /\ Schedule("enqueue", h)
      BY <1>4 DEF DeploysCollected, EventKinds
    <3>2. QED
      BY <3>1, Scheduling
  <2>2. TypeOK' /\ ~ fatal' /\ (0 \in stored)'
    BY <1>0, <1>4, <2>1 DEF DeploysCollected, TypeOK, RequestPhases, nodeVars, requestVars, runtimeVars, storageVars
  <2>5. UNCHANGED <<mode, preState, task, cloned, store>>
    BY <1>4 DEF DeploysCollected, nodeVars, runtimeVars
  <2>6. \A e \in Range(events') : e[1] \in {"announce", "mark", "put"} => e \in Range(events)
    BY <2>1
  <2>3. ChainInOrder' /\ OneAtATime' /\ AfterExecution' /\ NothingWhileJoining'
    BY <2>5, <2>6 DEF ChainInOrder, OneAtATime, AfterExecution, NothingWhileJoining
  <2>4. QED
    BY <2>2, <2>3
<1>5. CASE EnqueueDue(h)
  <2>1. /\ events' \in Seq(EventKinds \X Blocks)
        /\ Range(events') \subseteq Range(events) /\ <<"enqueue", h>> \in Range(events)
    <3>1. Dispatch("enqueue", h)
      BY <1>5 DEF EnqueueDue
    <3>2. QED
      BY <3>1, Dispatching
  <2>2. h = Len(preState) + 1
    BY <1>5, NextIsDue DEF EnqueueDue
  <2>3. TypeOK' /\ ~ fatal' /\ (0 \in stored)'
    BY <1>0, <1>5, <2>1, <2>2 DEF EnqueueDue, TypeOK, TaskPhases, nodeVars, requestVars, runtimeVars, storageVars
  <2>4. ChainInOrder' /\ OneAtATime' /\ AfterExecution' /\ NothingWhileJoining'
    BY <1>0, <1>5, <2>1, <2>2 DEF EnqueueDue, Running, Idle, Dispatch, TypeOK, ChainInOrder, OneAtATime,
       AfterExecution, NothingWhileJoining, nodeVars, requestVars, runtimeVars, storageVars
  <2>5. QED
    BY <2>3, <2>4
<1>6. CASE EnqueueNotDue(h)
  <2>1. /\ events' \in Seq(EventKinds \X Blocks)
        /\ Range(events') \subseteq Range(events) /\ <<"enqueue", h>> \in Range(events)
    <3>1. Dispatch("enqueue", h)
      BY <1>6 DEF EnqueueNotDue
    <3>2. QED
      BY <3>1, Dispatching
  <2>2. TypeOK' /\ ~ fatal' /\ (0 \in stored)'
    BY <1>0, <1>6, <2>1 DEF EnqueueNotDue, TypeOK, nodeVars, requestVars, runtimeVars, storageVars
  <2>3. ChainInOrder' /\ OneAtATime' /\ AfterExecution' /\ NothingWhileJoining'
    BY <1>0, <1>6, <2>1 DEF EnqueueNotDue, Running, Idle, Dispatch, TypeOK, ChainInOrder, OneAtATime,
       AfterExecution, NothingWhileJoining, nodeVars, requestVars, runtimeVars, storageVars
  <2>4. QED
    BY <2>2, <2>3
<1>7. CASE InsertInQueue
  <2>1. TypeOK' /\ ~ fatal' /\ (0 \in stored)'
    BY <1>0, <1>7 DEF InsertInQueue, TypeOK, nodeVars, requestVars, runtimeVars, storageVars
  <2>2. ChainInOrder' /\ OneAtATime' /\ AfterExecution' /\ NothingWhileJoining'
    BY <1>0, <1>7 DEF InsertInQueue, Running, Idle, Dispatch, TypeOK, ChainInOrder, OneAtATime,
       AfterExecution, NothingWhileJoining, nodeVars, requestVars, runtimeVars, storageVars
  <2>3. QED
    BY <2>1, <2>2
<1>8. CASE BeginExecution(h)
  <2>1. TypeOK' /\ ~ fatal' /\ (0 \in stored)'
    BY <1>0, <1>8 DEF BeginExecution, TypeOK, TaskPhases, nodeVars, requestVars, runtimeVars, storageVars
  <2>2. ChainInOrder' /\ OneAtATime' /\ AfterExecution' /\ NothingWhileJoining'
    BY <1>0, <1>8 DEF BeginExecution, Running, Idle, Dispatch, TypeOK, ChainInOrder, OneAtATime,
       AfterExecution, NothingWhileJoining, nodeVars, requestVars, runtimeVars, storageVars
  <2>3. QED
    BY <2>1, <2>2
<1>9. CASE AnnounceBlock(h)
  <2>1. /\ events' \in Seq(EventKinds \X Blocks)
        /\ Range(events') = Range(events) \cup {<<"announce", h>>}
    <3>1. "announce" \in EventKinds /\ Schedule("announce", h)
      BY <1>9 DEF AnnounceBlock, EventKinds
    <3>2. QED
      BY <3>1, Scheduling
  <2>2. TypeOK' /\ ~ fatal' /\ (0 \in stored)'
    BY <1>0, <1>9, <2>1 DEF AnnounceBlock, TypeOK, TaskPhases, nodeVars, requestVars, runtimeVars, storageVars
  <2>3. ChainInOrder' /\ OneAtATime' /\ AfterExecution' /\ NothingWhileJoining'
    BY <1>0, <1>9, <2>1 DEF AnnounceBlock, Running, Idle, Dispatch, TypeOK, ChainInOrder, OneAtATime,
       AfterExecution, NothingWhileJoining, nodeVars, requestVars, runtimeVars, storageVars
  <2>4. QED
    BY <2>2, <2>3
<1>10. CASE RequestMark(h)
  <2>1. /\ events' \in Seq(EventKinds \X Blocks)
        /\ Range(events') = Range(events) \cup {<<"mark", h>>}
    <3>1. "mark" \in EventKinds /\ Schedule("mark", h)
      BY <1>10 DEF RequestMark, EventKinds
    <3>2. QED
      BY <3>1, Scheduling
  <2>2. TypeOK' /\ ~ fatal' /\ (0 \in stored)'
    BY <1>0, <1>10, <2>1 DEF RequestMark, TypeOK, TaskPhases, nodeVars, requestVars, runtimeVars, storageVars
  <2>3. ChainInOrder' /\ OneAtATime' /\ AfterExecution' /\ NothingWhileJoining'
    BY <1>0, <1>10, <2>1 DEF RequestMark, Running, Idle, Dispatch, TypeOK, ChainInOrder, OneAtATime,
       AfterExecution, NothingWhileJoining, nodeVars, requestVars, runtimeVars, storageVars
  <2>4. QED
    BY <2>2, <2>3
<1>11. CASE BlockAnnounced(h)
  <2>1. /\ events' \in Seq(EventKinds \X Blocks)
        /\ Range(events') \subseteq Range(events) /\ <<"announce", h>> \in Range(events)
    <3>1. Dispatch("announce", h)
      BY <1>11 DEF BlockAnnounced
    <3>2. QED
      BY <3>1, Dispatching
  <2>2. TypeOK' /\ ~ fatal' /\ (0 \in stored)'
    BY <1>0, <1>11, <2>1 DEF BlockAnnounced, TypeOK, StorePhases, nodeVars, requestVars, runtimeVars, storageVars
  <2>3. ChainInOrder' /\ OneAtATime' /\ AfterExecution' /\ NothingWhileJoining'
    BY <1>0, <1>11, <2>1 DEF BlockAnnounced, Running, Idle, Dispatch, TypeOK, ChainInOrder, OneAtATime,
       AfterExecution, NothingWhileJoining, nodeVars, requestVars, runtimeVars, storageVars
  <2>4. QED
    BY <2>2, <2>3
<1>12. CASE RequestPut(h)
  <2>1. /\ events' \in Seq(EventKinds \X Blocks)
        /\ Range(events') = Range(events) \cup {<<"put", h>>}
    <3>1. "put" \in EventKinds /\ Schedule("put", h)
      BY <1>12 DEF RequestPut, EventKinds
    <3>2. QED
      BY <3>1, Scheduling
  <2>2. TypeOK' /\ ~ fatal' /\ (0 \in stored)'
    BY <1>0, <1>12, <2>1 DEF RequestPut, TypeOK, StorePhases, nodeVars, requestVars, runtimeVars, storageVars
  <2>3. ChainInOrder' /\ OneAtATime' /\ AfterExecution' /\ NothingWhileJoining'
    BY <1>0, <1>12, <2>1 DEF RequestPut, Running, Idle, Dispatch, TypeOK, ChainInOrder, OneAtATime,
       AfterExecution, NothingWhileJoining, nodeVars, requestVars, runtimeVars, storageVars
  <2>4. QED
    BY <2>2, <2>3
<1>13. CASE PutBlock(h)
  <2>1. /\ events' \in Seq(EventKinds \X Blocks)
        /\ Range(events') \subseteq Range(events) /\ <<"put", h>> \in Range(events)
    <3>1. Dispatch("put", h)
      BY <1>13 DEF PutBlock
    <3>2. QED
      BY <3>1, Dispatching
  <2>2. TypeOK' /\ ~ fatal' /\ (0 \in stored)'
    BY <1>0, <1>13, <2>1 DEF PutBlock, TypeOK, nodeVars, requestVars, runtimeVars, storageVars
  <2>3. ChainInOrder' /\ OneAtATime' /\ AfterExecution' /\ NothingWhileJoining'
    BY <1>0, <1>13, <2>1 DEF PutBlock, Running, Idle, Dispatch, TypeOK, ChainInOrder, OneAtATime,
       AfterExecution, NothingWhileJoining, nodeVars, requestVars, runtimeVars, storageVars
  <2>4. QED
    BY <2>2, <2>3
<1>14. QED
  BY <1>1, <1>2, <1>3, <1>4, <1>5, <1>6, <1>7, <1>8, <1>9, <1>10, <1>11, <1>12, <1>13 DEF RequestStep, EnqueueStep, StoreStep

\* They keep the global states too: only RequestMark schedules a mark, of a block
\* whose state is there.
LEMMA QuietStates ==
    ASSUME IInv, NEW h \in Blocks,
           \/ Finalize \/ InsertInQueue \/ RequestStep(h) \/ EnqueueStep(h)
           \/ BeginExecution(h) \/ AnnounceBlock(h) \/ RequestMark(h) \/ StoreStep(h)
    PROVE  StatesHeld' /\ JoinsBehind'
<1> DEFINE After == {"executed", "announced"}
<1>0. TypeOK /\ StatesHeld
  BY DEF IInv, Ordered
<1>1. /\ mode = "participating"
      /\ UNCHANGED <<mode, preState, completed, written, states>>
  BY DEF RequestStep, EnqueueStep, StoreStep, Finalize, InsertInQueue, LookUpHeader,
     HeaderLookedUp, DeploysCollected, EnqueueDue, EnqueueNotDue, BeginExecution,
     AnnounceBlock, RequestMark, BlockAnnounced, RequestPut, PutBlock, Dispatch, Idle,
     Running, nodeVars, runtimeVars, storageVars
<1>2. ASSUME NEW g \in Blocks, task'[g] \in After PROVE g \in states
  <2>1. CASE AnnounceBlock(h)
    BY <1>0, <1>2, <2>1 DEF AnnounceBlock, TypeOK, StatesHeld
  <2>2. CASE ~ AnnounceBlock(h)
    <3>1. \/ task' = task \/ task' = [task EXCEPT ![h] = "spawned"]
          \/ task' = [task EXCEPT ![h] = "executing"] \/ task' = [task EXCEPT ![h] = "marking"]
      BY <2>2 DEF RequestStep, EnqueueStep, StoreStep, Finalize, InsertInQueue, LookUpHeader,
         HeaderLookedUp, DeploysCollected, EnqueueDue, EnqueueNotDue, BeginExecution,
         RequestMark, BlockAnnounced, RequestPut, PutBlock, runtimeVars
    <3>2. task[g] \in After
      BY <1>0, <1>2, <3>1 DEF TypeOK
    <3>3. QED
      BY <1>0, <3>2 DEF StatesHeld
  <2>3. QED
    BY <2>1, <2>2
<1>3. ASSUME NEW e \in Range(events'), e[1] = "mark" PROVE e[2] \in states
  <2>1. CASE e \in Range(events)
    BY <1>0, <1>3, <2>1 DEF StatesHeld
  <2>2. CASE e \notin Range(events)
    <3>1. \/ UNCHANGED events
          \/ \E kind \in EventKinds : Dispatch(kind, h)
          \/ \E kind \in EventKinds : Schedule(kind, h) /\ (kind = "mark" => RequestMark(h))
      BY DEF RequestStep, EnqueueStep, StoreStep, Finalize, InsertInQueue, LookUpHeader,
         HeaderLookedUp, DeploysCollected, EnqueueDue, EnqueueNotDue, BeginExecution,
         AnnounceBlock, RequestMark, BlockAnnounced, RequestPut, PutBlock, EventKinds
    <3>2. PICK kind \in EventKinds : Schedule(kind, h) /\ (kind = "mark" => RequestMark(h))
      BY <1>0, <1>3, <2>2, <3>1, Dispatching
    <3>3. e = <<kind, h>>
      BY <1>0, <2>2, <3>2, Scheduling, <1>3
    <3>4. e[1] = kind /\ e[2] = h
      BY <3>3
    <3>5. task[h] = "announced"
      BY <1>3, <3>2, <3>4 DEF RequestMark
    <3>6. QED
      BY <1>0, <3>4, <3>5 DEF StatesHeld
  <2>3. QED
    BY <2>1, <2>2
<1>4. QED
  BY <1>0, <1>1, <1>2, <1>3 DEF StatesHeld, JoinsBehind

\* A block is executed on the state of its parent, which is there: the checks for
\* WrongBlockHeight and RootNotFound pass, and the chain grows by this block.
LEMMA ExecutesNext ==
    ASSUME IInv, NEW h \in Blocks, EndExecution(h)
    PROVE  /\ IInv'
           /\ h = Len(preState) + 1 /\ preState' = Append(preState, h)
           /\ Len(preState) \in states /\ states' = states \cup {h}
<1> USE HeightAssumption DEF IInv, Ordered
<1>0. h \in 1 .. MaxHeight /\ Blocks = 1 .. MaxHeight /\ Len(preState) \in Nat
  BY DEF Blocks, TypeOK
<1>1. h = Len(preState) + 1 /\ cloned[h] = preState /\ mode = "participating"
  BY <1>0 DEF EndExecution, OneAtATime, Running
<1>2. h = NextHeight(cloned[h]) /\ NextHeight(cloned[h]) - 1 = Len(preState)
  BY <1>0, <1>1, NextIsDue
<1>11. Len(preState) \in states /\ HasState(cloned[h])
  BY <1>1, <1>2 DEF StatesHeld, HasState
<1>3. fatal' = FALSE
  BY <1>2, <1>11 DEF EndExecution
<1>4. preState' = Append(preState, h) /\ states' = states \cup {h}
  BY <1>1, <1>3 DEF EndExecution
<1>5. preState' \in Seq(Nat) /\ Len(preState') = h /\ ChainInOrder'
  BY <1>1, <1>4, GrowsInOrder
<1>6. TypeOK' /\ ~ fatal' /\ (0 \in stored)'
  BY <1>0, <1>3, <1>4, <1>5 DEF EndExecution, TypeOK, TaskPhases, requestVars
<1>7. OneAtATime'
  BY <1>0, <1>1, <1>5 DEF EndExecution, TypeOK, OneAtATime
<1>8. AfterExecution'
  <2>1. ASSUME NEW g \in Blocks
        PROVE  /\ task'[g] \in {"executed", "announced", "marking", "marked", "done"}
                      => g <= Len(preState')
               /\ store'[g] # "none" => g <= Len(preState')
    BY <1>0, <1>1, <1>5 DEF EndExecution, TypeOK, AfterExecution
  <2>2. ASSUME NEW e \in Range(events'), e[1] \in {"announce", "mark", "put"}
        PROVE  e[2] <= Len(preState')
    <3>1. e \in Range(events) /\ e[2] <= Len(preState)
      BY <2>2 DEF EndExecution, AfterExecution
    <3>2. QED
      BY <1>0, <1>1, <1>5, <3>1, EventHeights
  <2>3. QED
    BY <2>1, <2>2 DEF AfterExecution
<1>9. NothingWhileJoining' /\ JoinsBehind'
  BY DEF EndExecution, Running, NothingWhileJoining, JoinsBehind
<1>12. StatesHeld'
  <2>1. \A g \in Blocks : task'[g] \in {"executed", "announced"} => g \in states'
    BY <1>0, <1>4 DEF EndExecution, TypeOK, StatesHeld
  <2>2. QED
    BY <1>4, <1>5, <2>1 DEF EndExecution, StatesHeld
<1>10. QED
  BY <1>1, <1>4, <1>5, <1>6, <1>7, <1>8, <1>9, <1>11, <1>12

\* The next block goes from the queue back to the reactor.
LEMMA TakesNext ==
    ASSUME IInv, NEW h \in Blocks, TakeNext(h)
    PROVE  IInv'
<1> USE HeightAssumption DEF IInv, Ordered
<1>0. h \in 1 .. MaxHeight /\ Blocks = 1 .. MaxHeight /\ Len(preState) \in Nat
  BY DEF Blocks, TypeOK
<1>1. /\ events' \in Seq(EventKinds \X Blocks)
      /\ Range(events') \subseteq Range(events) \cup {<<"enqueue", h + 1>>}
  <2>1. CASE h + 1 \in execQueue
    <3>1. h + 1 \in Blocks /\ "enqueue" \in EventKinds /\ Schedule("enqueue", h + 1)
      BY <2>1 DEF TakeNext, TypeOK, EventKinds
    <3>2. QED
      BY <3>1, Scheduling
  <2>2. CASE h + 1 \notin execQueue
    BY <2>2 DEF TakeNext, TypeOK
  <2>3. QED
    BY <2>1, <2>2
<1>2. TypeOK' /\ ~ fatal' /\ (0 \in stored)'
  BY <1>0, <1>1 DEF TakeNext, TypeOK, TaskPhases, nodeVars, requestVars, storageVars
<1>3. ChainInOrder' /\ OneAtATime' /\ NothingWhileJoining'
  BY <1>0 DEF TakeNext, Running, TypeOK, ChainInOrder, OneAtATime, NothingWhileJoining,
     nodeVars
<1>4. AfterExecution'
  <2>1. \A g \in Blocks :
            /\ task'[g] \in {"executed", "announced", "marking", "marked", "done"}
                  => g <= Len(preState')
            /\ store'[g] # "none" => g <= Len(preState')
    BY <1>0 DEF TakeNext, TypeOK, AfterExecution
  <2>2. ASSUME NEW e \in Range(events'), e[1] \in {"announce", "mark", "put"}
        PROVE  e[2] <= Len(preState')
    <3>1. e # <<"enqueue", h + 1>>
      BY <2>2
    <3>2. e \in Range(events)
      BY <1>1, <3>1
    <3>3. QED
      BY <2>2, <3>2 DEF TakeNext, AfterExecution
  <2>3. QED
    BY <2>1, <2>2 DEF AfterExecution
<1>5. StatesHeld' /\ JoinsBehind'
  <2>1. mode = "participating" /\ UNCHANGED <<mode, preState, completed, written, states>>
    BY DEF TakeNext, Running, nodeVars, storageVars
  <2>2. \A g \in Blocks : task'[g] \in {"executed", "announced"} => g \in states
    BY <1>0 DEF TakeNext, TypeOK, StatesHeld
  <2>3. ASSUME NEW e \in Range(events'), e[1] = "mark" PROVE e[2] \in states
    BY <1>1, <2>3 DEF StatesHeld
  <2>4. QED
    BY <2>1, <2>2, <2>3 DEF StatesHeld, JoinsBehind
<1>6. QED
  BY <1>2, <1>3, <1>4, <1>5

\* Storage records a block, whose state the node has, as completed.
LEMMA Marking ==
    ASSUME IInv, NEW h \in Nat, h \in states, Mark(h)
    PROVE  /\ Canonical(completed') /\ Canonical(written')
           /\ Heights(completed') = Heights(completed) \cup {h}
           /\ Heights(written') = Heights(completed')
           /\ Heights(completed') \subseteq states' /\ Heights(written') \subseteq states'
           /\ UNCHANGED <<stored, states>>
<1>1. Canonical(completed) /\ Heights(completed) \subseteq states
  BY DEF IInv, Ordered, TypeOK, StatesHeld
<1>2. Canonical(completed') /\ Heights(completed') = Heights(completed) \cup {h}
  BY <1>1, InsertOK DEF Mark
<1>3. written' = completed' /\ UNCHANGED <<stored, states>>
  BY DEF Mark
<1>4. QED
  BY <1>1, <1>2, <1>3

\* What a participant marks has been executed.
LEMMA MarksExecuted ==
    ASSUME IInv, NEW h \in Blocks, MarkCompleted(h)
    PROVE  /\ IInv'
           /\ h \in 0 .. Len(preState) /\ h \in states
           /\ Heights(completed') = Heights(completed) \cup {h}
           /\ Heights(written') = Heights(completed')
<1> USE HeightAssumption DEF IInv, Ordered
<1>0. h \in 1 .. MaxHeight /\ Blocks = 1 .. MaxHeight /\ Len(preState) \in Nat /\ h \in Nat
  BY DEF Blocks, TypeOK
<1>1. /\ events' \in Seq(EventKinds \X Blocks)
      /\ Range(events') \subseteq Range(events) /\ <<"mark", h>> \in Range(events)
  <2>1. Dispatch("mark", h)
    BY DEF MarkCompleted
  <2>2. QED
    BY <2>1, Dispatching
<1>2. h <= Len(preState) /\ h \in states
  BY <1>1 DEF AfterExecution, StatesHeld
<1>3. /\ Canonical(completed') /\ Canonical(written')
      /\ Heights(completed') = Heights(completed) \cup {h}
      /\ Heights(written') = Heights(completed')
      /\ Heights(completed') \subseteq states' /\ Heights(written') \subseteq states'
      /\ UNCHANGED <<stored, states>>
  <2>1. Mark(h)
    BY DEF MarkCompleted
  <2>2. QED
    BY <1>0, <1>2, <2>1, Marking
<1>4. TypeOK' /\ ~ fatal' /\ (0 \in stored)'
  BY <1>0, <1>1, <1>3 DEF MarkCompleted, TypeOK, TaskPhases, nodeVars, requestVars
<1>5. ChainInOrder' /\ OneAtATime' /\ AfterExecution' /\ NothingWhileJoining'
  BY <1>0, <1>1 DEF MarkCompleted, TypeOK, ChainInOrder, OneAtATime, AfterExecution,
     NothingWhileJoining, nodeVars
<1>6. StatesHeld' /\ JoinsBehind'
  <2>1. mode = "participating" /\ UNCHANGED <<mode, preState>>
    BY DEF MarkCompleted, Dispatch, Idle, Running, nodeVars
  <2>2. \A g \in Blocks : task'[g] \in {"executed", "announced"} => g \in states
    BY <1>0 DEF MarkCompleted, TypeOK, StatesHeld
  <2>3. \A e \in Range(events') : e[1] = "mark" => e[2] \in states
    BY <1>1 DEF StatesHeld
  <2>4. QED
    BY <1>3, <2>1, <2>2, <2>3 DEF StatesHeld, JoinsBehind
<1>7. QED
  BY <1>0, <1>2, <1>3, <1>4, <1>5, <1>6

\* After a restart nothing is executed, and what is completed above the highest
\* stored block is forgotten.
LEMMA RestartsBehind ==
    ASSUME IInv, Restart
    PROVE  /\ IInv'
           /\ Heights(completed') = Heights(written) \cap (0 .. Max(stored))
<1> USE HeightAssumption DEF IInv, Ordered
<1> DEFINE m == Max(stored)
<1>1. m \in Nat
  <2>1. stored \in SUBSET (0 .. MaxHeight) /\ stored # {}
    BY DEF TypeOK
  <2>2. m \in stored
    BY <2>1, GreatestElement
  <2> HIDE DEF m
  <2>3. m \in 0 .. MaxHeight
    BY <2>1, <2>2
  <2>4. QED
    BY <2>3
<1>3. Canonical(completed') /\ Heights(completed') = Heights(written) \cap (0 .. m)
  BY <1>1, TruncateOK DEF Restart, TypeOK
<1>5. preState' = <<>> /\ preState' \in Seq(Nat) /\ Len(preState') = 0
  BY DEF Restart
<1>6. ChainInOrder'
  BY <1>5 DEF ChainInOrder
<1>7. events' = <<>> /\ events' \in Seq(EventKinds \X Blocks) /\ Range(events') = {}
  BY EmptySeq DEF Restart, Range
<1>8. TypeOK'
  <2>1. /\ request' \in [Blocks -> RequestPhases] /\ task' \in [Blocks -> TaskPhases]
        /\ store' \in [Blocks -> StorePhases]
    BY DEF Restart, RequestPhases, TaskPhases, StorePhases
  <2>2. cloned' \in [Blocks -> Seq(Nat)]
    BY EmptySeq DEF Restart
  <2>3. restarts' \in 0 .. MaxRestarts /\ finalized' \in 0 .. MaxHeight
    BY RestartAssumption DEF Restart, TypeOK
  <2>4. mode' \in SyncModes
    BY DEF Restart, SyncModes
  <2>5. QED
    BY <1>3, <1>5, <1>7, <2>1, <2>2, <2>3, <2>4 DEF Restart, TypeOK
<1>9. OneAtATime' /\ AfterExecution' /\ NothingWhileJoining'
  BY <1>7 DEF Restart, OneAtATime, AfterExecution, NothingWhileJoining
<1>11. StatesHeld' /\ JoinsBehind'
  BY <1>3, <1>5, <1>7 DEF Restart, StatesHeld, JoinsBehind
<1>10. QED
  BY <1>3, <1>6, <1>8, <1>9, <1>11 DEF Restart, m

\* A joining step that leaves the futures and the events alone, and does not take
\* the chain back, keeps what comes after the execution.
LEMMA JoiningKeeps ==
    ASSUME Ordered, mode # "participating", UNCHANGED joinVars,
           preState' \in Seq(Nat), Len(preState) <= Len(preState')
    PROVE  /\ OneAtATime' /\ AfterExecution' /\ NothingWhileJoining'
           /\ \A h \in Blocks : task'[h] = "none"
<1>1. /\ Len(preState) \in Nat /\ Len(preState') \in Nat
      /\ UNCHANGED <<task, cloned, store, events>>
  BY DEF Ordered, TypeOK, joinVars
<1>2. \A h \in Blocks : task'[h] = "none"
  BY <1>1 DEF Ordered, NothingWhileJoining
<1>3. OneAtATime' /\ NothingWhileJoining'
  BY <1>2 DEF OneAtATime, NothingWhileJoining
<1>4. ASSUME NEW h \in Blocks, store'[h] # "none" PROVE h <= Len(preState')
  <2>1. h \in Nat /\ h <= Len(preState)
    BY <1>1, <1>4, HeightAssumption DEF Ordered, AfterExecution, Blocks
  <2>2. QED
    BY <1>1, <2>1
<1>5. ASSUME NEW e \in Range(events'), e[1] \in {"announce", "mark", "put"}
      PROVE  e[2] <= Len(preState')
  <2>1. e \in Range(events) /\ e[2] <= Len(preState)
    BY <1>1, <1>5 DEF Ordered, AfterExecution
  <2>2. e[2] \in Nat
    BY <2>1, EventHeights DEF Ordered
  <2>3. QED
    BY <1>1, <2>1, <2>2
<1>6. QED
  BY <1>2, <1>3, <1>4, <1>5 DEF AfterExecution

\* The highest stored block grows by one when the next one is stored.
LEMMA NextStored ==
    ASSUME Ordered, NEW h \in Nat, h <= MaxHeight, h = Max(stored) + 1,
           stored' = stored \cup {h}
    PROVE  Max(stored') = h /\ stored' \subseteq 0 .. MaxHeight /\ 0 \in stored'
<1> USE HeightAssumption
<1>1. stored \in SUBSET (0 .. MaxHeight) /\ stored # {} /\ 0 \in stored
  BY DEF Ordered, TypeOK
<1>2. Max(stored) \in stored /\ \A y \in stored : Max(stored) >= y
  BY <1>1, GreatestElement
<1>3. stored' \in SUBSET (0 .. MaxHeight) /\ stored' # {}
  <2>1. h \in 0 .. MaxHeight
    OBVIOUS
  <2>2. QED
    BY <1>1, <2>1
<1>4. Max(stored') \in stored' /\ \A y \in stored' : Max(stored') >= y
  BY <1>3, GreatestElement
<1>5. Max(stored') >= h /\ Max(stored') \in Nat
  BY <1>3, <1>4
<1>6. ASSUME NEW y \in stored' PROVE y \in Nat /\ y <= h
  <2>1. y \in stored \/ y = h
    OBVIOUS
  <2>2. y \in 0 .. MaxHeight /\ Max(stored) \in 0 .. MaxHeight
    BY <1>1, <1>2, <1>3
  <2>3. QED
    BY <1>2, <2>1, <2>2
<1>7. QED
  BY <1>1, <1>3, <1>4, <1>5, <1>6

\* A header is fetched.
LEMMA HeaderSynced ==
    ASSUME IInv, SyncHeader
    PROVE  IInv' /\ stored' = stored \cup {Max(stored) + 1}
<1> USE HeightAssumption
<1> DEFINE h == Max(stored) + 1
<1>0. Ordered /\ TypeOK /\ StatesHeld /\ JoinsBehind
  BY DEF IInv, Ordered
<1>1. /\ mode = "headers" /\ Max(stored) < MaxHeight /\ stored' = stored \cup {h}
      /\ UNCHANGED <<joinVars, mode, fatal, preState, completed, written, states>>
  BY DEF SyncHeader
<1>2. h \in Nat /\ h <= MaxHeight
  <2>1. stored \in SUBSET (0 .. MaxHeight) /\ stored # {}
    BY <1>0 DEF TypeOK, Ordered
  <2>2. Max(stored) \in 0 .. MaxHeight
    BY <2>1, GreatestElement
  <2>3. QED
    BY <1>1, <2>2
<1>3. stored' \subseteq 0 .. MaxHeight /\ 0 \in stored'
  BY <1>0, <1>1, <1>2, NextStored
<1> HIDE DEF h
<1>4. preState' \in Seq(Nat) /\ Len(preState) <= Len(preState') /\ Len(preState) \in Nat
  BY <1>0, <1>1 DEF TypeOK
<1>5. OneAtATime' /\ AfterExecution' /\ NothingWhileJoining'
  BY <1>0, <1>1, <1>4, JoiningKeeps
<1>6. TypeOK' /\ ~ fatal' /\ (0 \in stored)'
  BY <1>0, <1>1, <1>3 DEF TypeOK, Ordered, joinVars, requestVars
<1>7. ChainInOrder'
  BY <1>0, <1>1 DEF Ordered, ChainInOrder
<1>8. StatesHeld' /\ JoinsBehind'
  BY <1>0, <1>1 DEF StatesHeld, JoinsBehind, joinVars
<1>9. QED
  BY <1>1, <1>5, <1>6, <1>7, <1>8 DEF IInv, Ordered, h

\* The state of the highest block is there when blocks are fetched: a block that
\* counts as available is completed, or the first one.
LEMMA StateSynced ==
    ASSUME IInv, SyncState
    PROVE  /\ IInv'
           /\ preState' = UpTo(Max(stored)) /\ states' = states \cup {Max(stored)}
<1> USE HeightAssumption
<1> DEFINE h == Max(stored)
<1>0. Ordered /\ TypeOK /\ StatesHeld /\ JoinsBehind
  BY DEF IInv, Ordered
<1>1. /\ mode = "headers" /\ mode' = "blocks" /\ preState' = [i \in 1 .. h |-> i]
      /\ states' = IF Available(h) THEN states ELSE states \cup {h}
      /\ UNCHANGED <<joinVars, fatal, stored, completed, written>>
  BY DEF SyncState, UpTo
<1>2. h \in 0 .. MaxHeight /\ h \in Nat
  <2>1. stored \in SUBSET (0 .. MaxHeight) /\ stored # {}
    BY <1>0 DEF TypeOK, Ordered
  <2>2. Max(stored) \in 0 .. MaxHeight
    BY <2>1, GreatestElement
  <2>3. QED
    BY <2>2
<1>3. Available(h) => h \in states
  <2>1. CASE completed = <<>>
    BY <1>0, <2>1 DEF Available, StatesHeld
  <2>2. CASE completed # <<>>
    <3>1. completed \in Seq(Interval) /\ Len(completed) \in Nat /\ Len(completed) # 0
      BY <1>0, <2>2, EmptySeq DEF TypeOK, Canonical
    <3>2. 1 \in 1 .. Len(completed)
      BY <3>1
    <3>3. ASSUME Available(h) PROVE h \in Heights(completed)
      BY <2>2, <3>2, <3>3, HeightsIff DEF Available
    <3>4. QED
      BY <1>0, <3>3 DEF StatesHeld
  <2>3. QED
    BY <2>1, <2>2
<1>4. states' = states \cup {h}
  BY <1>1, <1>3
<1> HIDE DEF h
<1>5. /\ preState' \in Seq(Nat) /\ Len(preState') = h
      /\ \A i \in 1 .. h : preState'[i] = i
  BY <1>1, <1>2
<1>6. Len(preState) = 0 /\ Len(preState) <= Len(preState')
  BY <1>0, <1>1, <1>2, <1>5 DEF JoinsBehind
<1>7. OneAtATime' /\ AfterExecution' /\ NothingWhileJoining' /\ \A g \in Blocks : task'[g] = "none"
  BY <1>0, <1>1, <1>5, <1>6, JoiningKeeps
<1>8. TypeOK' /\ ~ fatal' /\ (0 \in stored)'
  <2>1. mode' \in SyncModes /\ states' \subseteq 0 .. MaxHeight
    BY <1>0, <1>1, <1>2, <1>4 DEF SyncModes, TypeOK
  <2>2. QED
    BY <1>0, <1>1, <1>5, <2>1 DEF TypeOK, Ordered, joinVars, requestVars
<1>9. ChainInOrder'
  BY <1>2, <1>5 DEF ChainInOrder
<1>10. StatesHeld'
  BY <1>0, <1>1, <1>4, <1>5, <1>7 DEF StatesHeld, joinVars
<1>11. JoinsBehind'
  BY <1>1, <1>5 DEF JoinsBehind, h
<1>12. QED
  BY <1>1, <1>4, <1>7, <1>8, <1>9, <1>10, <1>11 DEF IInv, Ordered, h, UpTo

\* The next block is stored before it is executed.
LEMMA BlockSynced ==
    ASSUME IInv, SyncBlock
    PROVE  IInv' /\ stored' = stored \cup {Max(stored) + 1}
<1> USE HeightAssumption
<1> DEFINE h == Len(preState) + 1
<1>0. Ordered /\ TypeOK /\ StatesHeld /\ JoinsBehind
  BY DEF IInv, Ordered
<1>1. NextHeight(preState) = h
  BY <1>0, NextIsDue DEF Ordered
<1>2. /\ mode = "blocks" /\ mode' = "stored" /\ h \in Blocks /\ stored' = stored \cup {h}
      /\ UNCHANGED <<joinVars, fatal, preState, completed, written, states>>
  BY <1>1 DEF SyncBlock
<1>3. h = Max(stored) + 1 /\ h \in Nat /\ h <= MaxHeight
  BY <1>0, <1>2 DEF JoinsBehind, Blocks
<1>4. Max(stored') = h /\ stored' \subseteq 0 .. MaxHeight /\ 0 \in stored'
  BY <1>0, <1>2, <1>3, NextStored
<1>5. preState' \in Seq(Nat) /\ Len(preState) <= Len(preState') /\ Len(preState) \in Nat
  BY <1>0, <1>2 DEF TypeOK
<1>6. OneAtATime' /\ AfterExecution' /\ NothingWhileJoining'
  BY <1>0, <1>2, <1>5, JoiningKeeps
<1>7. TypeOK' /\ ~ fatal' /\ (0 \in stored)'
  <2>1. mode' \in SyncModes
    BY <1>2 DEF SyncModes
  <2>2. QED
    BY <1>0, <1>2, <1>4, <2>1 DEF TypeOK, Ordered, joinVars, requestVars
<1>8. ChainInOrder' /\ JoinsBehind'
  BY <1>0, <1>2, <1>4 DEF Ordered, ChainInOrder, JoinsBehind
<1>9. StatesHeld'
  BY <1>0, <1>2 DEF StatesHeld, joinVars
<1>10. QED
  BY <1>2, <1>3, <1>6, <1>7, <1>8, <1>9 DEF IInv, Ordered

\* It is executed on the state of its parent, which is there.
LEMMA BlockSyncExecuted ==
    ASSUME IInv, SyncExecute
    PROVE  /\ IInv'
           /\ Len(preState) \in states
           /\ preState' = Append(preState, Len(preState) + 1)
           /\ states' = states \cup {Len(preState) + 1}
<1> USE HeightAssumption
<1> DEFINE h == Len(preState) + 1
<1>0. Ordered /\ TypeOK /\ StatesHeld /\ JoinsBehind /\ Len(preState) \in Nat
  BY DEF IInv, Ordered, TypeOK
<1>1. NextHeight(preState) = h /\ NextHeight(preState) - 1 = Len(preState)
  BY <1>0, NextIsDue DEF Ordered
<1>2. mode = "stored"
  BY DEF SyncExecute
<1>3. Len(preState) \in states /\ HasState(preState)
  BY <1>0, <1>1, <1>2 DEF StatesHeld, HasState
<1>4. fatal' = FALSE
  BY <1>3 DEF SyncExecute
<1>5. /\ mode' = "executed" /\ preState' = Append(preState, h) /\ states' = states \cup {h}
      /\ UNCHANGED <<joinVars, stored, completed, written>>
  BY <1>1, <1>4 DEF SyncExecute
<1>6. Max(stored) = h /\ h \in 1 .. MaxHeight /\ h \in Blocks
  <2>1. Max(stored) = h
    BY <1>0, <1>2 DEF JoinsBehind
  <2>2. stored \in SUBSET (0 .. MaxHeight) /\ stored # {}
    BY <1>0 DEF TypeOK, Ordered
  <2>3. Max(stored) \in 0 .. MaxHeight
    BY <2>2, GreatestElement
  <2>4. QED
    BY <1>0, <2>1, <2>3 DEF Blocks
<1>7. preState' \in Seq(Nat) /\ Len(preState') = h /\ ChainInOrder'
  BY <1>0, <1>5, <1>6, GrowsInOrder DEF Ordered
<1>8. OneAtATime' /\ AfterExecution' /\ NothingWhileJoining' /\ \A g \in Blocks : task'[g] = "none"
  <2>1. Len(preState) <= Len(preState')
    BY <1>0, <1>7
  <2>2. QED
    BY <1>0, <1>2, <1>5, <1>7, <2>1, JoiningKeeps
<1> HIDE DEF h
<1>9. TypeOK' /\ ~ fatal' /\ (0 \in stored)'
  <2>1. mode' \in SyncModes /\ states' \subseteq 0 .. MaxHeight
    BY <1>0, <1>5, <1>6 DEF SyncModes, TypeOK
  <2>2. QED
    BY <1>0, <1>4, <1>5, <1>7, <2>1 DEF TypeOK, Ordered, joinVars, requestVars
<1>10. StatesHeld' /\ JoinsBehind'
  BY <1>0, <1>5, <1>6, <1>7, <1>8 DEF StatesHeld, JoinsBehind, joinVars
<1>11. QED
  BY <1>3, <1>5, <1>7, <1>8, <1>9, <1>10 DEF IInv, Ordered, h

\* It is marked as completed; and so is the highest block by the node that starts
\* to take part.
LEMMA JoinMarks ==
    ASSUME IInv, SyncMark \/ Participate
    PROVE  /\ IInv'
           /\ Len(preState) \in states /\ Max(stored) = Len(preState)
           /\ Heights(completed') = Heights(completed) \cup {Len(preState)}
           /\ Heights(written') = Heights(completed')
<1> USE HeightAssumption
<1>0. Ordered /\ TypeOK /\ StatesHeld /\ JoinsBehind
  BY DEF IInv, Ordered
<1>1. /\ mode \in {"blocks", "executed"} /\ mode' \in {"blocks", "participating"}
      /\ Mark(Len(preState))
      /\ base' \in {base, Len(preState)}
      /\ UNCHANGED <<restarts, requestVars, events, handling, execQueue, task, cloned, store,
                     fatal, preState>>
  BY DEF SyncMark, Participate, joinVars, runtimeVars
<1>2. /\ Len(preState) \in states /\ Max(stored) = Len(preState)
      /\ Len(preState) \in Nat /\ Len(preState) \in 0 .. MaxHeight
  BY <1>0, <1>1 DEF StatesHeld, JoinsBehind, TypeOK, Ordered, ChainInOrder
<1>3. /\ Canonical(completed') /\ Canonical(written')
      /\ Heights(completed') = Heights(completed) \cup {Len(preState)}
      /\ Heights(written') = Heights(completed')
      /\ Heights(completed') \subseteq states' /\ Heights(written') \subseteq states'
      /\ UNCHANGED <<stored, states>>
  BY <1>1, <1>2, Marking
<1>4. TypeOK' /\ ~ fatal' /\ (0 \in stored)'
  <2>1. mode' \in SyncModes \cup {"participating"} /\ base' \in 0 .. MaxHeight
    BY <1>0, <1>1, <1>2 DEF SyncModes, TypeOK
  <2>2. QED
    BY <1>0, <1>1, <1>3, <2>1 DEF TypeOK, Ordered, requestVars
<1>5. ChainInOrder' /\ OneAtATime' /\ AfterExecution' /\ NothingWhileJoining'
  BY <1>0, <1>1 DEF Ordered, ChainInOrder, OneAtATime, AfterExecution, NothingWhileJoining
<1>6. StatesHeld' /\ JoinsBehind'
  BY <1>0, <1>1, <1>2, <1>3 DEF StatesHeld, JoinsBehind
<1>7. QED
  BY <1>2, <1>3, <1>4, <1>5, <1>6 DEF IInv, Ordered

LEMMA NextIInv == IInv /\ [Next]_vars => IInv'
<1> SUFFICES ASSUME IInv, [Next]_vars PROVE IInv'
  OBVIOUS
<1>1. CASE UNCHANGED vars
  <2>1. TypeOK' /\ ~ fatal' /\ (0 \in stored)'
    BY <1>1 DEF IInv, Ordered, TypeOK, vars
  <2>2. ChainInOrder' /\ OneAtATime' /\ AfterExecution' /\ NothingWhileJoining'
    BY <1>1 DEF IInv, Ordered, ChainInOrder, OneAtATime, AfterExecution,
       NothingWhileJoining, vars
  <2>3. StatesHeld' /\ JoinsBehind'
    BY <1>1 DEF IInv, StatesHeld, JoinsBehind, vars
  <2>4. QED
    BY <2>1, <2>2, <2>3 DEF IInv, Ordered
<1>2. CASE Finalize
  <2>1. finalized \in 0 .. MaxHeight /\ finalized < MaxHeight
    BY <1>2 DEF Finalize, IInv, Ordered, TypeOK
  <2>2. finalized + 1 \in Blocks
    BY <2>1, HeightAssumption DEF Blocks
  <2>3. QED
    BY <1>2, <2>2, QuietSteps, QuietStates DEF IInv
<1>3. CASE InsertInQueue
  <2>1. handling \in Blocks
    BY <1>3 DEF InsertInQueue, IInv, Ordered, TypeOK
  <2>2. QED
    BY <1>3, <2>1, QuietSteps, QuietStates DEF IInv
<1>4. ASSUME NEW h \in Blocks,
             \/ RequestStep(h) \/ EnqueueStep(h) \/ BeginExecution(h) \/ AnnounceBlock(h)
             \/ RequestMark(h) \/ StoreStep(h)
      PROVE  IInv'
  BY <1>4, QuietSteps, QuietStates DEF IInv
<1>5. ASSUME NEW h \in Blocks, EndExecution(h) \/ TakeNext(h) \/ MarkCompleted(h)
      PROVE  IInv'
  BY <1>5, ExecutesNext, TakesNext, MarksExecuted
<1>6. CASE Restart \/ SyncHeader \/ SyncState \/ SyncBlock
  BY <1>6, RestartsBehind, HeaderSynced, StateSynced, BlockSynced
<1>8. CASE SyncExecute \/ SyncMark \/ Participate
  BY <1>8, BlockSyncExecuted, JoinMarks
<1>7. QED
  BY <1>1, <1>2, <1>3, <1>4, <1>5, <1>6, <1>8 DEF Next, TaskStep

\* The inductive invariant holds in every reachable state.
LEMMA Invariance == Spec => []IInv
BY InitIInv, NextIInv, PTL DEF Spec

\* However the futures, the locks and the restarts interleave, for any number of
\* blocks: the checks for WrongBlockHeight and RootNotFound in
\* execute_finalized_block never fail, so no execution stops the node, and the
\* sequences of completed heights stay ordered and apart.
THEOREM InTurn == Spec => []ExecutedInTurn
<1>1. IInv => ExecutedInTurn
  BY DEF IInv, Ordered, ExecutedInTurn
<1>2. QED
  BY <1>1, Invariance, PTL

-----------------------------------------------------------------------------
(* The refinement.                                                         *)

\* A node in its initial state has executed nothing.
LEMMA InitRefines == Init => C!Init
<1> SUFFICES ASSUME Init PROVE C!Init
  OBVIOUS
<1>1. /\ completed = <<Single(0)>> /\ written = completed
      /\ Single(0).low = 0 /\ Single(0).high = 0
  BY DEF Init, Single
<1>2. Len(completed) = 1 /\ completed[1] = Single(0)
  BY <1>1
<1>3. \A x : x \in Heights(completed) <=> x \in 0 .. 0
  BY <1>1, <1>2, HeightsIff
<1>4. Heights(completed) = {0} /\ Heights(written) = {0}
  BY <1>1, <1>3
<1>5. QED
  BY <1>4 DEF Init, C!Init

\* The steps that ExecutedChain does not see.
LEMMA HiddenSteps ==
    ASSUME \/ UNCHANGED vars \/ Finalize \/ InsertInQueue
           \/ \E h \in Blocks :
                 \/ RequestStep(h) \/ EnqueueStep(h) \/ BeginExecution(h) \/ AnnounceBlock(h)
                 \/ RequestMark(h) \/ TakeNext(h) \/ BlockAnnounced(h) \/ RequestPut(h)
    PROVE  UNCHANGED C!chainVars
<1>1. UNCHANGED <<mode, preState, stored, states, completed, written>>
  BY DEF vars, Finalize, InsertInQueue, RequestStep, EnqueueStep, LookUpHeader,
     HeaderLookedUp, DeploysCollected, EnqueueDue, EnqueueNotDue, BeginExecution,
     AnnounceBlock, RequestMark, TakeNext, BlockAnnounced, RequestPut, nodeVars,
     runtimeVars, storageVars
<1>2. QED
  BY <1>1 DEF C!chainVars

\* Every step of the node is a step of ExecutedChain or leaves it alone.
LEMMA StepRefines == IInv /\ [Next]_vars => [C!Next]_(C!chainVars)
<1> SUFFICES ASSUME IInv, [Next]_vars
             PROVE  C!Next \/ UNCHANGED C!chainVars
  OBVIOUS
<1>0. Len(preState) \in Nat /\ Len(preState) \in 0 .. Len(preState)
  BY DEF IInv, Ordered, TypeOK
<1>1. Max(stored) = C!Max(stored) /\ UpTo(Max(stored)) = C!UpTo(C!Max(stored))
  BY DEF Max, C!Max, UpTo, C!UpTo
<1>2. CASE UNCHANGED vars \/ Finalize \/ InsertInQueue
  BY <1>2, HiddenSteps
<1>3. ASSUME NEW h \in Blocks,
             \/ RequestStep(h) \/ EnqueueStep(h) \/ BeginExecution(h) \/ AnnounceBlock(h)
             \/ RequestMark(h) \/ TakeNext(h) \/ BlockAnnounced(h) \/ RequestPut(h)
      PROVE  UNCHANGED C!chainVars
  BY <1>3, HiddenSteps
<1>5. ASSUME NEW h \in Blocks, EndExecution(h)
      PROVE  C!ExecuteNext
  <2>1. /\ preState' = Append(preState, Len(preState) + 1)
        /\ Len(preState) \in states /\ states' = states \cup {Len(preState) + 1}
    BY <1>5, ExecutesNext
  <2>2. UNCHANGED <<mode, stored, completed, written>>
    BY <1>5 DEF EndExecution
  <2>3. QED
    BY <2>1, <2>2 DEF C!ExecuteNext
<1>6. ASSUME NEW h \in Blocks, MarkCompleted(h)
      PROVE  h \in 0 .. Len(preState) /\ C!Complete(h)
  <2>1. /\ h \in 0 .. Len(preState) /\ h \in states
        /\ Heights(completed') = Heights(completed) \cup {h}
        /\ Heights(written') = Heights(completed')
    BY <1>6, MarksExecuted
  <2>2. UNCHANGED <<preState, mode, stored, states>>
    BY <1>6 DEF MarkCompleted, Mark, nodeVars
  <2>3. QED
    BY <2>1, <2>2 DEF C!Complete
<1>7. ASSUME NEW h \in Blocks, PutBlock(h)
      PROVE  h \in 0 .. Len(preState) /\ C!Persist(h)
  <2>1. <<"put", h>> \in Range(events)
    BY <1>7, Dispatching DEF IInv, Ordered, PutBlock
  <2>2. h <= Len(preState)
    BY <2>1 DEF IInv, Ordered, AfterExecution
  <2>3. h \in 1 .. Len(preState) /\ h \in 0 .. Len(preState)
    BY <1>0, <2>2, HeightAssumption DEF Blocks
  <2>4. /\ mode = "participating" /\ stored' = stored \cup {h}
        /\ UNCHANGED <<preState, mode, states, completed, written>>
    BY <1>7 DEF PutBlock, Dispatch, Idle, Running, nodeVars, runtimeVars
  <2>5. QED
    BY <2>3, <2>4 DEF C!Persist
<1>8. CASE Restart
  <2>1. Heights(completed') = Heights(written) \cap (0 .. Max(stored))
    BY <1>8, RestartsBehind
  <2>2. preState' = <<>> /\ mode' = "headers" /\ UNCHANGED <<stored, states, written>>
    BY <1>8 DEF Restart
  <2>3. C!Restart
    BY <1>1, <2>1, <2>2 DEF C!Restart
  <2>4. QED
    BY <2>3 DEF C!Next
<1>9. CASE SyncHeader \/ SyncBlock
  <2>1. stored' = stored \cup {Max(stored) + 1}
    BY <1>9, HeaderSynced, BlockSynced
  <2>2. /\ mode # "participating" /\ mode' # "participating"
        /\ UNCHANGED <<preState, states, completed, written>>
    BY <1>9 DEF SyncHeader, SyncBlock
  <2>3. C!Fetch
    BY <1>1, <2>1, <2>2 DEF C!Fetch
  <2>4. QED
    BY <2>3 DEF C!Next
<1>10. CASE SyncState
  <2>1. preState' = UpTo(Max(stored)) /\ states' = states \cup {Max(stored)}
    BY <1>10, StateSynced
  <2>2. /\ mode # "participating" /\ mode' # "participating"
        /\ UNCHANGED <<stored, completed, written>>
    BY <1>10 DEF SyncState
  <2>3. C!Resume
    BY <1>1, <2>1, <2>2 DEF C!Resume
  <2>4. QED
    BY <2>3 DEF C!Next
<1>12. CASE SyncExecute
  <2>1. /\ preState' = Append(preState, Len(preState) + 1)
        /\ Len(preState) \in states /\ states' = states \cup {Len(preState) + 1}
    BY <1>12, BlockSyncExecuted
  <2>2. /\ mode # "participating" /\ mode' # "participating"
        /\ UNCHANGED <<stored, completed, written>>
    BY <1>12 DEF SyncExecute
  <2>3. C!ExecuteNext
    BY <2>1, <2>2 DEF C!ExecuteNext
  <2>4. QED
    BY <2>3 DEF C!Next
<1>13. CASE SyncMark \/ Participate
  <2>1. /\ Len(preState) \in states /\ Max(stored) = Len(preState)
        /\ Heights(completed') = Heights(completed) \cup {Len(preState)}
        /\ Heights(written') = Heights(completed')
        /\ UNCHANGED <<preState, stored, states>>
    BY <1>13, JoinMarks DEF SyncMark, Participate, Mark, runtimeVars
  <2>2. CASE SyncMark
    <3>1. mode # "participating" /\ mode' # "participating"
      BY <2>2 DEF SyncMark
    <3>2. C!Complete(Len(preState))
      BY <1>0, <2>1, <3>1 DEF C!Complete
    <3>3. QED
      BY <1>0, <3>2 DEF C!Next
  <2>3. CASE Participate
    <3>1. mode # "participating" /\ mode' = "participating"
      BY <2>3 DEF Participate
    <3>2. C!TakePart
      BY <1>1, <2>1, <3>1 DEF C!TakePart
    <3>3. QED
      BY <3>2 DEF C!Next
  <2>4. QED
    BY <1>13, <2>2, <2>3
<1>14. QED
  BY <1>2, <1>3, <1>5, <1>6, <1>7, <1>8, <1>9, <1>10, <1>12, <1>13
     DEF Next, TaskStep, StoreStep, C!Next

\* The node implements ExecutedChain, step by step: it executes the chain in the
\* order of the heights, each block on a state it has; a participant stores only
\* what it has executed; only blocks whose state is there are completed; and
\* wherever a node is stopped, also between storing a block of a peer, executing
\* it and marking it, it takes part again only when everything stored is executed
\* or the state of the highest block has been fetched.
THEOREM Refinement == Spec => ExecutesTheChain
BY InitRefines, StepRefines, Invariance, PTL DEF Spec, ExecutesTheChain, C!Spec

-----------------------------------------------------------------------------
(* The block proposer, the other component that follows the finalized      *)
(* blocks (BlockProposer), for any chain, deploys and restarts.            *)

\* The assumptions of BlockProposer on its constants.
ProposerConstants == DeploysInTime /\ ValidChain /\ NumbersOK

\* Induction.
LEMMA AllNumbers ==
    ASSUME NEW Q \in SUBSET Nat, 0 \in Q, \A n \in Nat : n \in Q => n + 1 \in Q
    PROVE  Q = Nat
<1> DEFINE T == Nat \ Q
<1>1. SUFFICES ASSUME T # {} PROVE FALSE
  OBVIOUS
<1>2. T \in SUBSET Nat
  OBVIOUS
<1>3. Min(T) \in T /\ \A y \in T : Min(T) <= y
  BY <1>1, <1>2, LeastElement
<1> QED
  BY <1>3

\* What the assumptions say of each block and deploy.
LEMMA ConstantFacts ==
    ASSUME ProposerConstants
    PROVE  /\ Len(Payload) \in Nat
           /\ \A h \in BlockHeights : /\ Payload[h] \in Seq(Deploys)
                                   /\ DeploysOf(h) \subseteq Deploys
                                   /\ BlockTime[h] \in Nat
           /\ \A h \in BlockHeights : \A d \in DeploysOf(h) :
                  /\ Expires[d] <= BlockTime[h] + MaxTtl
                  /\ Created[d] <= BlockTime[h]
           /\ \A d \in Deploys : Created[d] \in Nat /\ Expires[d] \in Nat
           /\ EraStart \in Nat /\ MaxTtl \in Nat /\ DeployDelay \in Nat /\ MaxTime \in Nat
           /\ MaxRequests \in Nat /\ MaxStarts \in Nat /\ Absent \notin Nat
<1>1. /\ EraStart \in Nat /\ MaxTtl \in Nat /\ DeployDelay \in Nat /\ MaxTime \in Nat
      /\ MaxRequests \in Nat /\ MaxStarts \in Nat /\ Absent \notin Nat
  BY DEF ProposerConstants, NumbersOK
<1>2. \A d \in Deploys : Created[d] \in Nat /\ Expires[d] \in Nat /\ Expires[d] <= Created[d] + MaxTtl
  BY DEF ProposerConstants, DeploysInTime
<1>3. Payload \in Seq(Seq(Deploys)) /\ BlockTime \in Seq(Nat) /\ Len(BlockTime) = Len(Payload)
  BY DEF ProposerConstants, ValidChain
<1>4. /\ Len(Payload) \in Nat
      /\ \A h \in BlockHeights : Payload[h] \in Seq(Deploys) /\ BlockTime[h] \in Nat
  BY <1>3, ElementOfSeq DEF BlockHeights
<1>5. \A h \in BlockHeights : DeploysOf(h) \subseteq Deploys
  BY <1>4, ElementOfSeq DEF DeploysOf
<1>6. \A h \in BlockHeights : \A d \in DeploysOf(h) : Created[d] <= BlockTime[h]
  BY <1>5 DEF ProposerConstants, ValidChain
<1>7. \A h \in BlockHeights : \A d \in DeploysOf(h) : Expires[d] <= BlockTime[h] + MaxTtl
  <2> SUFFICES ASSUME NEW h \in BlockHeights, NEW d \in DeploysOf(h)
               PROVE  Expires[d] <= BlockTime[h] + MaxTtl
    OBVIOUS
  <2>1. d \in Deploys
    BY <1>5
  <2>2. Created[d] \in Nat /\ Expires[d] \in Nat /\ Expires[d] <= Created[d] + MaxTtl
    BY <1>2, <2>1
  <2>3. BlockTime[h] \in Nat /\ MaxTtl \in Nat /\ Created[d] <= BlockTime[h]
    BY <1>1, <1>4, <1>6
  <2> QED
    BY <2>2, <2>3
<1> QED
  BY <1>1, <1>2, <1>4, <1>5, <1>6, <1>7

-----------------------------------------------------------------------------
(* The ancestors of the current era: the recursive function of Ancestors.  *)

\* The switch block below the era of the parent.
FirstOfEra(parent) == IF parent >= EraStart THEN EraStart ELSE 0

\* f lists the deploys of the blocks up to each height.
ListsTo(f, start, n) ==
    f = [h \in 0 .. n |-> IF h <= start THEN <<>> ELSE Payload[h] \o f[h - 1]]

\* The recursive function of Ancestors exists: one block more at a time.
LEMMA ListsExist ==
    ASSUME NEW start \in Nat, NEW n \in Nat
    PROVE  \E f : ListsTo(f, start, n)
<1> DEFINE Q == {k \in Nat : \E f : ListsTo(f, start, k)}
<1>1. 0 \in Q
  <2> DEFINE g == [h \in 0 .. 0 |-> <<>>]
  <2>1. ListsTo(g, start, 0)
    <3>1. \A h \in 0 .. 0 : h <= start
      OBVIOUS
    <3> QED
      BY <3>1 DEF ListsTo
  <2> QED
    BY <2>1
<1>2. ASSUME NEW k \in Nat, k \in Q PROVE k + 1 \in Q
  <2>1. PICK f : ListsTo(f, start, k)
    BY <1>2
  <2> DEFINE g == [h \in 0 .. k + 1 |->
                     IF h = k + 1 THEN (IF h <= start THEN <<>> ELSE Payload[h] \o f[k]) ELSE f[h]]
  <2>2. \A h \in 0 .. k : f[h] = IF h <= start THEN <<>> ELSE Payload[h] \o f[h - 1]
    BY <2>1 DEF ListsTo
  <2>3. \A h \in 0 .. k : g[h] = f[h]
    OBVIOUS
  <2>4. \A h \in 0 .. k + 1 : g[h] = IF h <= start THEN <<>> ELSE Payload[h] \o g[h - 1]
    <3> SUFFICES ASSUME NEW h \in 0 .. k + 1
                 PROVE  g[h] = IF h <= start THEN <<>> ELSE Payload[h] \o g[h - 1]
      OBVIOUS
    <3>1. CASE h = 0
      <4>1. h <= start /\ h \in 0 .. k
        BY <3>1
      <4> QED
        BY <2>2, <2>3, <4>1
    <3>2. CASE h # 0
      <4>1. h - 1 \in 0 .. k
        BY <3>2
      <4>2. g[h - 1] = f[h - 1]
        BY <2>3, <4>1
      <4>3. CASE h = k + 1
        <5>1. h - 1 = k
          BY <4>3
        <5>2. g[h] = IF h <= start THEN <<>> ELSE Payload[h] \o f[k]
          BY <4>3
        <5> QED
          BY <4>2, <5>1, <5>2
      <4>4. CASE h # k + 1
        <5>1. h \in 0 .. k
          BY <4>4
        <5> QED
          BY <2>2, <2>3, <4>2, <5>1
      <4> QED
        BY <4>3, <4>4
    <3> QED
      BY <3>1, <3>2
  <2>5. g = [h \in 0 .. k + 1 |-> g[h]]
    OBVIOUS
  <2> HIDE DEF g
  <2>6. g = [h \in 0 .. k + 1 |-> IF h <= start THEN <<>> ELSE Payload[h] \o g[h - 1]]
    BY <2>4, <2>5
  <2> QED
    BY <2>6 DEF ListsTo
<1>3. Q = Nat
  <2> HIDE DEF Q
  <2>0. Q \in SUBSET Nat
    BY DEF Q
  <2> QED
    BY <1>1, <1>2, <2>0, AllNumbers
<1> QED
  BY <1>3

\* Every deploy of the era's blocks up to n is in the list, after deploys of the
\* same or later blocks only.
Covers(list, start, n) ==
    /\ list \in Seq(Deploys)
    /\ \A h \in start + 1 .. n : \A d \in DeploysOf(h) :
           \E i \in 1 .. Len(list) :
               list[i] = d /\ \A j \in 1 .. i : \E k \in h .. n : list[j] \in DeploysOf(k)

\* One block more.
LEMMA CoversNext ==
    ASSUME ProposerConstants, NEW start \in Nat, NEW n \in Nat, start <= n, n + 1 <= Len(Payload),
           NEW list, Covers(list, start, n)
    PROVE  Covers(Payload[n + 1] \o list, start, n + 1)
<1> DEFINE new == Payload[n + 1]
           all == new \o list
<1>1. n + 1 \in BlockHeights
  BY ConstantFacts DEF BlockHeights
<1>2. new \in Seq(Deploys) /\ list \in Seq(Deploys)
  BY <1>1, ConstantFacts DEF Covers
<1>3. /\ all \in Seq(Deploys)
      /\ Len(all) = Len(new) + Len(list)
      /\ \A i \in 1 .. Len(new) : all[i] = new[i]
      /\ \A i \in 1 .. Len(list) : all[Len(new) + i] = list[i]
      /\ Len(new) \in Nat /\ Len(list) \in Nat
  BY <1>2
<1>4. \A i \in 1 .. Len(new) : all[i] \in DeploysOf(n + 1)
  BY <1>3 DEF DeploysOf
<1>5. ASSUME NEW h \in start + 1 .. n + 1, NEW d \in DeploysOf(h)
      PROVE  \E i \in 1 .. Len(all) :
                all[i] = d /\ \A j \in 1 .. i : \E k \in h .. n + 1 : all[j] \in DeploysOf(k)
  <2>1. CASE h = n + 1
    <3>1. PICK i \in 1 .. Len(new) : new[i] = d
      BY <2>1 DEF DeploysOf
    <3> HIDE DEF new, all
    <3>2. i \in 1 .. Len(all) /\ all[i] = d
      BY <1>3, <3>1
    <3>3. ASSUME NEW j \in 1 .. i PROVE \E k \in h .. n + 1 : all[j] \in DeploysOf(k)
      <4>1. j \in 1 .. Len(new) /\ n + 1 \in h .. n + 1
        BY <1>3, <3>1, <2>1
      <4> QED
        BY <1>4, <4>1
    <3> QED
      BY <3>2, <3>3
  <2>2. CASE h # n + 1
    <3>1. h \in start + 1 .. n
      BY <2>2
    <3>2. PICK i \in 1 .. Len(list) :
             list[i] = d /\ \A j \in 1 .. i : \E k \in h .. n : list[j] \in DeploysOf(k)
      BY <3>1 DEF Covers
    <3> HIDE DEF new, all
    <3>3. Len(new) + i \in 1 .. Len(all) /\ all[Len(new) + i] = d
      BY <1>3, <3>2
    <3>4. ASSUME NEW j \in 1 .. Len(new) + i
          PROVE  \E k \in h .. n + 1 : all[j] \in DeploysOf(k)
      <4>1. CASE j <= Len(new)
        <5>1. j \in 1 .. Len(new) /\ n + 1 \in h .. n + 1
          BY <1>3, <4>1
        <5> QED
          BY <1>4, <5>1
      <4>2. CASE j > Len(new)
        <5>1. j - Len(new) \in 1 .. i /\ j - Len(new) \in 1 .. Len(list)
              /\ j = Len(new) + (j - Len(new))
          BY <1>3, <3>2, <4>2
        <5>2. all[j] = list[j - Len(new)]
          BY <1>3, <5>1
        <5>3. PICK k \in h .. n : list[j - Len(new)] \in DeploysOf(k)
          BY <3>2, <5>1
        <5>4. k \in h .. n + 1
          BY <3>1
        <5> QED
          BY <5>2, <5>3, <5>4
      <4> QED
        BY <1>3, <4>1, <4>2
    <3> QED
      BY <3>3, <3>4
  <2> QED
    BY <2>1, <2>2
<1> QED
  BY <1>3, <1>5 DEF Covers

\* Ancestors lists every deploy of the era, the latest blocks first.
LEMMA AncestorsCovered ==
    ASSUME ProposerConstants, NEW parent \in 0 .. Len(Payload)
    PROVE  Covers(Ancestors(parent), FirstOfEra(parent), parent)
<1> DEFINE start == FirstOfEra(parent)
           from == CHOOSE f : ListsTo(f, start, parent)
<1>0. start \in Nat /\ parent \in Nat /\ Len(Payload) \in Nat /\ start <= parent
  BY ConstantFacts DEF FirstOfEra
<1>1. Ancestors(parent) = from[parent]
  BY DEF Ancestors, ListsTo, FirstOfEra
<1>2. ListsTo(from, start, parent)
  BY <1>0, ListsExist
<1> HIDE DEF from, start
<1>3. \A h \in 0 .. parent : from[h] = IF h <= start THEN <<>> ELSE Payload[h] \o from[h - 1]
  BY <1>2 DEF ListsTo
<1> DEFINE Q == {n \in Nat : n <= parent => Covers(from[n], start, n)}
<1>4. ASSUME NEW n \in Nat, n <= start PROVE n \in Q
  <2> SUFFICES ASSUME n <= parent PROVE Covers(from[n], start, n)
    OBVIOUS
  <2>1. from[n] = <<>>
    BY <1>0, <1>3, <1>4
  <2>2. \A h \in start + 1 .. n : FALSE
    BY <1>0, <1>4
  <2> QED
    BY <2>1, <2>2 DEF Covers
<1>5. ASSUME NEW n \in Nat, n \in Q PROVE n + 1 \in Q
  <2>1. CASE n + 1 <= start
    BY <1>4, <2>1
  <2>2. CASE ~ (n + 1 <= start)
    <3> SUFFICES ASSUME n + 1 <= parent PROVE Covers(from[n + 1], start, n + 1)
      OBVIOUS
    <3>1. n + 1 \in 0 .. parent /\ n <= parent /\ start <= n /\ n + 1 <= Len(Payload)
          /\ n + 1 - 1 = n
      BY <1>0, <2>2
    <3>2. from[n + 1] = Payload[n + 1] \o from[n]
      <4>1. from[n + 1] = IF n + 1 <= start THEN <<>> ELSE Payload[n + 1] \o from[n + 1 - 1]
        BY <1>3, <3>1
      <4> QED
        BY <2>2, <3>1, <4>1
    <3>3. Covers(from[n], start, n)
      BY <1>5, <3>1
    <3> QED
      BY <1>0, <3>1, <3>2, <3>3, CoversNext
  <2> QED
    BY <2>1, <2>2
<1>6. 0 \in Q
  BY <1>0, <1>4
<1>7. Q = Nat
  <2> HIDE DEF Q
  <2>0. Q \in SUBSET Nat
    BY DEF Q
  <2> QED
    BY <1>5, <1>6, <2>0, AllNumbers
<1> QED
  BY <1>0, <1>1, <1>7 DEF start

-----------------------------------------------------------------------------
(* What may be proposed.                                                   *)

\* The finalized blocks up to last are those the finalized sets know of, but for
\* the deploys that have expired.
FollowedTo(last, map) ==
    /\ \A d \in Known(map) : \E h \in 1 .. last : d \in DeploysOf(h)
    /\ \A h \in 1 .. last : \A d \in DeploysOf(h) : map[d] # Absent \/ Expires[d] <= clock

\* A request for the era after the switch block has to wait for that block.
RequestOK(ask) == ask.parent >= EraStart => ask.next > EraStart

\* What may be proposed is in no block of the chain, unless it has expired: a
\* finalized block has its deploys in the finalized sets, one above those blocks is
\* of the parent's era and its deploys are past ones, since the list is cut at a
\* finalized deploy only, and that one is in a lower block.
LEMMA EligibleIsNew ==
    ASSUME ProposerConstants, NEW ask \in Requests, RequestOK(ask),
           NEW last \in 0 .. Len(Payload), ask.next <= last + 1,
           NEW map, FollowedTo(last, map), NEW waiting,
           NEW d \in Eligible(ask, waiting, Known(map)),
           NEW h \in 1 .. ask.parent, d \in DeploysOf(h)
    PROVE  Expires[d] <= clock
<1> DEFINE parent == ask.parent
           start == FirstOfEra(parent)
           list == Ancestors(parent)
           final == Known(map)
<1>1. /\ parent \in 0 .. Len(Payload) /\ ask.next \in 1 .. Len(Payload) + 1
      /\ Len(Payload) \in Nat /\ EraStart \in Nat /\ last \in Nat
      /\ h \in Nat /\ h <= parent /\ h \in BlockHeights
  BY ConstantFacts DEF Requests, BlockHeights
<1>2. d \in Deploys /\ d \notin final /\ d \notin PastDeploys(parent, final)
  BY DEF Eligible, Known
<1>3. map[d] = Absent
  BY <1>2 DEF Known
<1>4. CASE h <= last
  <2>1. h \in 1 .. last
    BY <1>1, <1>4
  <2> QED
    BY <1>3, <2>1 DEF FollowedTo
<1>5. CASE h > last
  <2>1. h \in start + 1 .. parent
    BY <1>1, <1>5 DEF RequestOK, FirstOfEra
  <2>2. Covers(list, start, parent)
    BY <1>1, AncestorsCovered
  <2>3. PICK i \in 1 .. Len(list) :
           list[i] = d /\ \A j \in 1 .. i : \E k \in h .. parent : list[j] \in DeploysOf(k)
    BY <2>1, <2>2 DEF Covers
  <2>4. ~ (\A j \in 1 .. i : list[j] \notin final)
    BY <1>2, <2>3 DEF PastDeploys
  <2>5. PICK j \in 1 .. i : list[j] \in final
    BY <2>4
  <2>6. PICK k \in h .. parent : list[j] \in DeploysOf(k)
    BY <2>3, <2>5
  <2>7. PICK b \in 1 .. last : list[j] \in DeploysOf(b)
    BY <2>5 DEF FollowedTo
  <2>8. b \in BlockHeights /\ k \in BlockHeights /\ b < k
    BY <1>1, <1>5, <2>6, <2>7 DEF BlockHeights
  <2> QED
    BY <2>6, <2>7, <2>8 DEF ProposerConstants, ValidChain
<1> QED
  BY <1>1, <1>4, <1>5

\* An element of a set of unions is one of them.
LEMMA UnionOfTwo ==
    ASSUME NEW S, NEW T, NEW A, A = {t \cup o : t \in S, o \in T}, NEW x \in A
    PROVE  \E t \in S : \E o \in T : x = t \cup o
  OBVIOUS

\* A payload has eligible deploys only.
LEMMA ProposableIsEligible ==
    ASSUME NEW ask, NEW waiting, NEW final,
           NEW deploys \in Proposable(ask, waiting, final)
    PROVE  deploys \subseteq Eligible(ask, waiting, final)
<1> DEFINE all == Eligible(ask, waiting, final)
           S == Fitting(all \cap Transfers, MaxTransferCount)
           T == Fitting(all \ Transfers, MaxDeployCount)
<1>1. Proposable(ask, waiting, final) = {t \cup o : t \in S, o \in T}
  BY DEF Proposable
<1>2. \E t \in S : \E o \in T : deploys = t \cup o
  <2> HIDE DEF S, T
  <2> QED
    BY <1>1, UnionOfTwo
<1>3. PICK t \in S, o \in T : deploys = t \cup o
  BY <1>2
<1>4. t \subseteq all \cap Transfers /\ o \subseteq all \ Transfers
  BY <1>3 DEF Fitting, kSubset
<1> QED
  BY <1>3, <1>4

\* An answer to a request that no finalized block is missing for repeats nothing.
NewAnswer(answer) ==
    \A d \in answer.deploys :
        answer.at < Expires[d] => \A h \in 1 .. answer.parent : d \notin DeploysOf(h)

\* So an answer that waits for no block repeats nothing.
LEMMA AnswerIsNew ==
    ASSUME ProposerConstants, clock \in Nat, NEW ask \in Requests, RequestOK(ask),
           NEW last \in 0 .. Len(Payload), ask.next <= last + 1,
           NEW map, FollowedTo(last, map), NEW waiting,
           NEW deploys \in Proposable(ask, waiting, Known(map))
    PROVE  NewAnswer(Answer(ask, deploys))
<1> SUFFICES ASSUME NEW d \in deploys, clock < Expires[d],
                    NEW h \in 1 .. ask.parent, d \in DeploysOf(h)
             PROVE  FALSE
  BY DEF NewAnswer, Answer
<1>1. d \in Eligible(ask, waiting, Known(map))
  BY ProposableIsEligible
<1>2. Expires[d] <= clock
  BY <1>1, EligibleIsNew
<1>3. d \in Deploys
  BY <1>1 DEF Eligible, Known
<1> QED
  BY <1>2, <1>3, ConstantFacts

-----------------------------------------------------------------------------
(* The events of the component in the ready state.                         *)

\* What is known of an event that is on its way.
EventOK(event) ==
    /\ event.kind = "finalized" => BlockTime[event.height] <= clock
    /\ event.kind = "request" => RequestOK(event.request)

\* The finalized sets follow the chain up to next_finalized, or to the block that
\* was the last in storage when they were loaded.
Followed == \E last \in nextFinalized - 1 .. Len(Payload) : FollowedTo(last, finalizedExpiry)

\* The sets and queues of the component.
SetsOK ==
    /\ nextFinalized \in 1 .. Len(Payload) + 1
    /\ finalizationQueue \subseteq BlockHeights
    /\ pending \in [Deploys -> Times \cup {Absent}]
    /\ finalizedExpiry \in [Deploys -> (0 .. MaxTime + MaxTtl) \cup {Absent}]
    /\ cache \in [Deploys -> Times \cup {Absent}]
    /\ \A h \in finalizationQueue : BlockTime[h] <= clock
    /\ \A d \in Deploys : finalizedExpiry[d] # Absent => finalizedExpiry[d] >= Expires[d]
    /\ NothingOverdue
    /\ requestQueue \subseteq Requests
    /\ \A ask \in requestQueue : RequestOK(ask)
    /\ NoReplay

\* A deploy that is buffered or known to be finalized.
Held(d) == pending[d] # Absent \/ finalizedExpiry[d] # Absent

\* A request is answered, or waits for a block.
LEMMA RequestHandled ==
    ASSUME ProposerConstants, SetsOK, Followed, clock \in Times, UNCHANGED clock,
           NEW ask \in Requests, RequestOK(ask), HandleRequest(ask)
    PROVE  /\ SetsOK' /\ Followed'
           /\ \A d \in Deploys : Held(d) => Held(d)'
<1>0. clock \in Nat
  BY ConstantFacts DEF Times
<1>1. UNCHANGED <<nextFinalized, finalizationQueue, pending, finalizedExpiry, cache, clock>>
  BY DEF HandleRequest, setsVars
<1>2. Followed' /\ \A d \in Deploys : Held(d) => Held(d)'
  BY <1>1 DEF Followed, FollowedTo, Held
<1>3. CASE MustWait(ask)
  <2>1. requestQueue' = requestQueue \cup {ask} /\ answers' = answers /\ ask.next > nextFinalized
    BY <1>3 DEF HandleRequest, MustWait
  <2>2. NoReplay'
    BY <2>1 DEF SetsOK, NoReplay
  <2>3. NothingOverdue'
    BY <1>1, <2>1 DEF SetsOK, NothingOverdue
  <2>4. \A a \in requestQueue' : RequestOK(a)'
    BY <2>1 DEF SetsOK, RequestOK
  <2>5. SetsOK'
    BY <1>1, <2>1, <2>2, <2>3, <2>4 DEF SetsOK
  <2> QED
    BY <1>2, <2>5
<1>4. CASE ~ MustWait(ask)
  <2>1. PICK deploys \in Proposable(ask, pending, Known(finalizedExpiry)) :
           answers' = answers \cup {Answer(ask, deploys)}
    BY <1>4 DEF HandleRequest
  <2>2. requestQueue' = requestQueue
    BY <1>4 DEF HandleRequest
  <2>3. PICK last \in nextFinalized - 1 .. Len(Payload) : FollowedTo(last, finalizedExpiry)
    BY DEF Followed
  <2>4. last \in 0 .. Len(Payload) /\ ask.next <= last + 1
    BY <1>4, <2>3, ConstantFacts DEF SetsOK, MustWait, Requests
  <2>5. NewAnswer(Answer(ask, deploys))
    BY <1>0, <2>1, <2>3, <2>4, AnswerIsNew
  <2>6. NoReplay'
    BY <2>1, <2>5 DEF SetsOK, NoReplay, NewAnswer
  <2>7. NothingOverdue'
    BY <1>1, <2>2 DEF SetsOK, NothingOverdue
  <2>8. \A a \in requestQueue' : RequestOK(a)'
    BY <2>2 DEF SetsOK, RequestOK
  <2>9. SetsOK'
    BY <1>1, <2>2, <2>6, <2>7, <2>8 DEF SetsOK
  <2> QED
    BY <1>2, <2>9
<1> QED
  BY <1>3, <1>4

\* A deploy that comes is held, buffered or finalized.
LEMMA DeployHandled ==
    ASSUME ProposerConstants, SetsOK, Followed, clock \in Times, UNCHANGED clock,
           NEW new \in Deploys, HandleDeploy(new)
    PROVE  /\ SetsOK' /\ Followed'
           /\ \A d \in Deploys : Held(d) => Held(d)'
           /\ Held(new)'
<1>0. clock \in Nat /\ Absent \notin Nat /\ MaxTime \in Nat /\ MaxTtl \in Nat
      /\ Expires[new] \in Nat
  BY ConstantFacts DEF Times
<1>1. UNCHANGED <<nextFinalized, finalizationQueue, requestQueue, cache, answers, clock>>
  BY DEF HandleDeploy
<1>2. NoReplay' /\ \A a \in requestQueue' : RequestOK(a)'
  BY <1>1 DEF SetsOK, NoReplay, RequestOK
<1>3. CASE finalizedExpiry[new] # Absent
  <2>1. pending' = pending
    BY <1>3 DEF HandleDeploy
  <2>2. finalizedExpiry' = [finalizedExpiry EXCEPT ![new] = MinOf(Expires[new], @)]
    BY <1>3 DEF HandleDeploy, AddFinalized
  <2>3. finalizedExpiry[new] \in 0 .. MaxTime + MaxTtl /\ finalizedExpiry[new] >= Expires[new]
    BY <1>3 DEF SetsOK
  <2>4. MinOf(Expires[new], finalizedExpiry[new]) = Expires[new]
        \/ MinOf(Expires[new], finalizedExpiry[new]) = finalizedExpiry[new]
    BY DEF MinOf
  <2>5. /\ finalizedExpiry'[new] \in 0 .. MaxTime + MaxTtl
        /\ finalizedExpiry'[new] >= Expires[new]
        /\ finalizedExpiry'[new] # Absent
        /\ \A d \in Deploys : d # new => finalizedExpiry'[d] = finalizedExpiry[d]
    BY <1>0, <2>2, <2>3, <2>4 DEF SetsOK
  <2>6. /\ finalizedExpiry' \in [Deploys -> (0 .. MaxTime + MaxTtl) \cup {Absent}]
        /\ \A d \in Deploys : finalizedExpiry'[d] = Absent <=> finalizedExpiry[d] = Absent
        /\ \A d \in Deploys : finalizedExpiry'[d] # Absent => finalizedExpiry'[d] >= Expires[d]
    BY <1>3, <2>2, <2>5 DEF SetsOK
  <2>7. Known(finalizedExpiry') = Known(finalizedExpiry)
    BY <2>6 DEF Known
  <2>8. PICK last \in nextFinalized - 1 .. Len(Payload) : FollowedTo(last, finalizedExpiry)
    BY DEF Followed
  <2>9. last \in 0 .. Len(Payload) /\ \A h \in 1 .. last : DeploysOf(h) \subseteq Deploys
    <3>1. Len(Payload) \in Nat /\ nextFinalized \in 1 .. Len(Payload) + 1
      BY ConstantFacts DEF SetsOK
    <3>2. last \in 0 .. Len(Payload)
      BY <2>8, <3>1
    <3>3. \A h \in 1 .. last : h \in BlockHeights
      BY <3>1, <3>2 DEF BlockHeights
    <3>4. QED
      BY <3>2, <3>3, ConstantFacts
  <2>10. Followed'
    BY <1>1, <2>6, <2>7, <2>8, <2>9 DEF Followed, FollowedTo
  <2>11. NothingOverdue'
    BY <1>1, <2>1, <2>6 DEF SetsOK, NothingOverdue
  <2>12. SetsOK'
    BY <1>1, <1>2, <2>1, <2>6, <2>11 DEF SetsOK
  <2> QED
    BY <2>1, <2>5, <2>6, <2>10, <2>12 DEF Held
<1>4. CASE finalizedExpiry[new] = Absent
  <2>1. finalizedExpiry' = finalizedExpiry /\ pending' = [pending EXCEPT ![new] = clock]
    BY <1>4 DEF HandleDeploy
  <2>2. /\ pending' \in [Deploys -> Times \cup {Absent}]
        /\ pending'[new] # Absent
        /\ \A d \in Deploys : d # new => pending'[d] = pending[d]
    BY <1>0, <2>1 DEF SetsOK
  <2>3. Followed'
    BY <1>1, <2>1 DEF Followed, FollowedTo
  <2>4. NothingOverdue'
    BY <1>1, <1>4, <2>1, <2>2 DEF SetsOK, NothingOverdue
  <2>5. SetsOK'
    BY <1>1, <1>2, <2>1, <2>2, <2>4 DEF SetsOK
  <2> QED
    BY <2>1, <2>2, <2>3, <2>5 DEF Held
<1> QED
  BY <1>3, <1>4

\* The run of blocks that is handled at once.
LEMMA RunEndOK ==
    ASSUME ProposerConstants, SetsOK, NEW h \in BlockHeights, h <= nextFinalized,
           NEW m, m = RunEnd(h)
    PROVE  /\ m \in h .. Len(Payload)
           /\ h + 1 .. m \subseteq finalizationQueue
           /\ \A q \in finalizationQueue : q \notin h .. m => q > m + 1
<1> DEFINE R == {h} \cup {q \in finalizationQueue : q > h /\ h + 1 .. q \subseteq finalizationQueue}
<1>1. /\ Len(Payload) \in Nat /\ h \in 1 .. Len(Payload) /\ nextFinalized \in Nat
      /\ \A q \in finalizationQueue : q \in 1 .. Len(Payload) /\ q > nextFinalized
  BY ConstantFacts DEF SetsOK, NothingOverdue, BlockHeights
<1>2. R \in SUBSET (0 .. Len(Payload)) /\ R # {}
  BY <1>1
<1>3. m = Max(R)
  BY DEF RunEnd, Max, Max
<1>4. m \in R /\ \A q \in R : m >= q
  <2> HIDE DEF R
  <2> QED
    BY <1>1, <1>2, <1>3, GreatestElement
<1>5. m \in h .. Len(Payload) /\ h + 1 .. m \subseteq finalizationQueue
  <2>1. CASE m = h
    BY <1>1, <2>1
  <2>2. CASE m # h
    BY <1>1, <1>4, <2>2
  <2> QED
    BY <2>1, <2>2
<1>6. m + 1 \notin finalizationQueue
  <2> SUFFICES ASSUME m + 1 \in finalizationQueue PROVE FALSE
    OBVIOUS
  <2>1. h + 1 .. m + 1 \subseteq finalizationQueue
    BY <1>1, <1>5
  <2>2. m + 1 \in R
    BY <1>1, <1>5, <2>1
  <2> QED
    BY <1>1, <1>4, <1>5, <2>2
<1>7. ASSUME NEW q \in finalizationQueue, q \notin h .. m PROVE q > m + 1
  <2>1. q \in Nat /\ q > h /\ q # m + 1
    BY <1>1, <1>6
  <2> QED
    BY <1>1, <1>5, <1>7, <2>1
<1> QED
  BY <1>5, <1>7

\* handle_finalized_block for the blocks from h to n.
LEMMA FinalizedAfterOK ==
    ASSUME ProposerConstants, SetsOK, clock \in Times,
           NEW h \in BlockHeights, NEW n \in h .. Len(Payload),
           \A b \in h .. n : BlockTime[b] <= clock,
           NEW d \in Deploys
    PROVE  /\ FinalizedAfter(h, n)[d] \in (0 .. MaxTime + MaxTtl) \cup {Absent}
           /\ (\A b \in h .. n : d \notin DeploysOf(b)) =>
                  FinalizedAfter(h, n)[d] = finalizedExpiry[d]
           /\ (\E b \in h .. n : d \in DeploysOf(b)) => FinalizedAfter(h, n)[d] # Absent
           /\ FinalizedAfter(h, n)[d] # Absent => FinalizedAfter(h, n)[d] >= Expires[d]
<1> DEFINE in == {b \in h .. n : d \in DeploysOf(b)}
           expiry == IF pending[d] # Absent THEN Expires[d] ELSE BlockTime[Min(in)] + MaxTtl
           old == finalizedExpiry[d]
           now == FinalizedAfter(h, n)[d]
<1>1. now = IF in = {} THEN old ELSE IF old = Absent THEN expiry ELSE MinOf(expiry, old)
  BY DEF FinalizedAfter
<1>2. /\ Len(Payload) \in Nat /\ h \in Nat /\ MaxTime \in Nat /\ MaxTtl \in Nat /\ clock \in 0 .. MaxTime
      /\ Absent \notin Nat /\ Expires[d] \in Nat
      /\ \A b \in h .. n : b \in BlockHeights
  BY ConstantFacts DEF BlockHeights, Times
<1>3. old \in (0 .. MaxTime + MaxTtl) \cup {Absent} /\ (old # Absent => old >= Expires[d])
  BY DEF SetsOK
<1>4. CASE in = {}
  <2>1. now = old /\ \A b \in h .. n : d \notin DeploysOf(b)
    BY <1>1, <1>4
  <2> QED
    BY <1>3, <2>1
<1>5. CASE in # {}
  <2>1. Min(in) \in in
    <3>1. in \in SUBSET Nat
      BY <1>2
    <3>2. Min(in) = Min(in)
      BY DEF Min, Min
    <3> HIDE DEF in
    <3> QED
      BY <1>5, <3>1, <3>2, LeastElement
  <2> DEFINE b == Min(in)
  <2>2. b \in h .. n /\ d \in DeploysOf(b) /\ b \in BlockHeights
    BY <1>2, <2>1
  <2> HIDE DEF b
  <2>3. /\ BlockTime[b] \in Nat /\ BlockTime[b] <= clock
        /\ Expires[d] <= BlockTime[b] + MaxTtl
    BY <2>2, ConstantFacts
  <2>4. expiry \in 0 .. MaxTime + MaxTtl /\ expiry >= Expires[d]
    <3>1. expiry = IF pending[d] # Absent THEN Expires[d] ELSE BlockTime[b] + MaxTtl
      BY DEF b
    <3> HIDE DEF expiry
    <3> QED
      BY <1>2, <2>3, <3>1
  <2> HIDE DEF expiry, old, now
  <2>5. now = expiry \/ (old # Absent /\ now = MinOf(expiry, old))
    BY <1>1, <1>5
  <2>6. now = expiry \/ (old # Absent /\ now = old)
    BY <2>5 DEF MinOf
  <2>7. now \in 0 .. MaxTime + MaxTtl /\ now >= Expires[d] /\ now # Absent
    BY <1>2, <1>3, <2>4, <2>6
  <2>8. ~ (\A k \in h .. n : d \notin DeploysOf(k))
    BY <2>2
  <2> QED
    BY <2>7, <2>8 DEF now
<1> QED
  BY <1>4, <1>5

\* After the blocks from h to n the finalized sets follow the chain to n at least.
LEMMA FollowedAfter ==
    ASSUME ProposerConstants, SetsOK, clock \in Times,
           NEW h \in BlockHeights, h <= nextFinalized, NEW n \in h .. Len(Payload),
           \A b \in h .. n : BlockTime[b] <= clock, Followed
    PROVE  \E last \in 0 .. Len(Payload) :
              /\ last >= nextFinalized - 1
              /\ last >= n
              /\ FollowedTo(last, FinalizedAfter(h, n))
<1>1. PICK old \in nextFinalized - 1 .. Len(Payload) : FollowedTo(old, finalizedExpiry)
  BY DEF Followed
<1> DEFINE last == IF old > n THEN old ELSE n
           map == FinalizedAfter(h, n)
<1>2. /\ Len(Payload) \in Nat /\ nextFinalized \in Nat /\ h \in Nat /\ n \in Nat /\ old \in Nat
      /\ h >= 1 /\ nextFinalized >= 1
  BY <1>1, ConstantFacts DEF SetsOK, BlockHeights
<1>3. /\ last \in 0 .. Len(Payload) /\ last >= n /\ last >= old /\ last >= nextFinalized - 1
      /\ \A b \in 1 .. last : b \in 1 .. old \/ b \in h .. n
      /\ \A b \in 1 .. old : b \in 1 .. last
      /\ \A b \in h .. n : b \in 1 .. last
  BY <1>1, <1>2
<1>4. \A b \in 1 .. last : b \in BlockHeights /\ DeploysOf(b) \subseteq Deploys
  BY <1>2, <1>3, ConstantFacts DEF BlockHeights
<1> HIDE DEF last, map
<1>5. ASSUME NEW d \in Known(map) PROVE \E b \in 1 .. last : d \in DeploysOf(b)
  <2>1. d \in Deploys /\ map[d] # Absent
    BY <1>5 DEF Known
  <2>2. CASE \E b \in h .. n : d \in DeploysOf(b)
    BY <1>3, <2>2
  <2>3. CASE \A b \in h .. n : d \notin DeploysOf(b)
    <3>1. finalizedExpiry[d] # Absent
      BY <2>1, <2>3, FinalizedAfterOK DEF map
    <3>2. d \in Known(finalizedExpiry)
      BY <2>1, <3>1 DEF Known
    <3> QED
      BY <1>1, <1>3, <3>2 DEF FollowedTo
  <2> QED
    BY <2>2, <2>3
<1>6. ASSUME NEW b \in 1 .. last, NEW d \in DeploysOf(b)
      PROVE  map[d] # Absent \/ Expires[d] <= clock
  <2>1. d \in Deploys
    BY <1>4
  <2>2. CASE \E k \in h .. n : d \in DeploysOf(k)
    BY <2>1, <2>2, FinalizedAfterOK DEF map
  <2>3. CASE \A k \in h .. n : d \notin DeploysOf(k)
    <3>1. b \in 1 .. old
      BY <1>3, <2>3
    <3>2. finalizedExpiry[d] # Absent \/ Expires[d] <= clock
      BY <1>1, <3>1 DEF FollowedTo
    <3>3. map[d] = finalizedExpiry[d]
      BY <2>1, <2>3, FinalizedAfterOK DEF map
    <3> QED
      BY <3>2, <3>3
  <2> QED
    BY <2>2, <2>3
<1>7. FollowedTo(last, map)
  BY <1>5, <1>6 DEF FollowedTo
<1> QED
  BY <1>3, <1>7 DEF map

\* A finalized block, with the queued ones after it, and the requests that are due.
LEMMA FinalizedHandled ==
    ASSUME ProposerConstants, SetsOK, Followed, clock \in Times, UNCHANGED clock,
           NEW h \in BlockHeights, BlockTime[h] <= clock, HandleFinalized(h)
    PROVE  /\ SetsOK' /\ Followed'
           /\ \A d \in Deploys : Held(d) => Held(d)'
<1>0. /\ Len(Payload) \in Nat /\ h \in 1 .. Len(Payload) /\ clock \in Nat
      /\ nextFinalized \in 1 .. Len(Payload) + 1
  BY ConstantFacts DEF SetsOK, BlockHeights, Times
<1>1. CASE h > nextFinalized
  <2>1. /\ finalizationQueue' = finalizationQueue \cup {h}
        /\ UNCHANGED <<nextFinalized, pending, finalizedExpiry, requestQueue, cache, answers, clock>>
    BY <1>1 DEF HandleFinalized
  <2>2. Followed' /\ \A d \in Deploys : Held(d) => Held(d)'
    BY <2>1 DEF Followed, FollowedTo, Held
  <2>3. NoReplay' /\ \A a \in requestQueue' : RequestOK(a)'
    BY <2>1 DEF SetsOK, NoReplay, RequestOK
  <2>4. NothingOverdue'
    BY <1>1, <2>1 DEF SetsOK, NothingOverdue
  <2>5. SetsOK'
    BY <2>1, <2>3, <2>4 DEF SetsOK
  <2> QED
    BY <2>2, <2>5
<1>2. CASE ~ (h > nextFinalized)
  <2> DEFINE m == RunEnd(h)
             due == {ask \in requestQueue : ask.next > nextFinalized /\ ask.next <= m + 1}
  <2>0. h <= nextFinalized
    BY <1>0, <1>2
  <2>1. /\ m \in h .. Len(Payload)
        /\ h + 1 .. m \subseteq finalizationQueue
        /\ \A q \in finalizationQueue : q \notin h .. m => q > m + 1
    BY <2>0, RunEndOK
  <2>2. /\ finalizationQueue' = finalizationQueue \ (h .. m)
        /\ nextFinalized' = MaxOf(nextFinalized, m + 1)
        /\ pending' = PendingAfter(h, m)
        /\ finalizedExpiry' = FinalizedAfter(h, m)
        /\ requestQueue' = requestQueue \ due
        /\ cache' = cache
    BY <1>2 DEF HandleFinalized
  <2>3. PICK given \in [due -> SUBSET Deploys] :
           /\ \A ask \in due :
                 given[ask] \in Proposable(ask, PendingAfter(h, ask.next - 1),
                                             Known(FinalizedAfter(h, ask.next - 1)))
           /\ answers' = answers \cup {Answer(ask, given[ask]) : ask \in due}
    BY <1>2 DEF HandleFinalized
  <2> HIDE DEF m, due
  <2>4. \A b \in h .. m : BlockTime[b] <= clock
    <3> SUFFICES ASSUME NEW b \in h .. m, b # h PROVE BlockTime[b] <= clock
      OBVIOUS
    <3>1. b \in h + 1 .. m
      BY <1>0, <2>1
    <3> QED
      BY <2>1, <3>1 DEF SetsOK
  <2>5. NoReplay'
    <3>1. ASSUME NEW ask \in due PROVE NewAnswer(Answer(ask, given[ask]))
      <4> DEFINE n == ask.next - 1
      <4>1. /\ ask \in Requests /\ RequestOK(ask)
            /\ ask.next > nextFinalized /\ ask.next <= m + 1
        BY DEF due, SetsOK
      <4>2. ask.next \in 1 .. Len(Payload) + 1
        BY <4>1 DEF Requests
      <4>3. n \in h .. Len(Payload) /\ n \in h .. m /\ n + 1 = ask.next
        BY <1>0, <2>0, <2>1, <4>1, <4>2
      <4> HIDE DEF n
      <4>4. \A b \in h .. n : BlockTime[b] <= clock
        BY <1>0, <2>1, <2>4, <4>3
      <4>5. PICK last \in 0 .. Len(Payload) :
               last >= n /\ FollowedTo(last, FinalizedAfter(h, n))
        BY <2>0, <4>3, <4>4, FollowedAfter
      <4>6. ask.next <= last + 1
        BY <1>0, <4>3, <4>5
      <4>7. given[ask] \in Proposable(ask, PendingAfter(h, n), Known(FinalizedAfter(h, n)))
        BY <2>3 DEF n
      <4> QED
        BY <1>0, <4>1, <4>5, <4>6, <4>7, AnswerIsNew
    <3>2. \A answer \in answers' :
             answer \in answers \/ \E ask \in due : answer = Answer(ask, given[ask])
      BY <2>3
    <3>3. \A answer \in answers : NewAnswer(answer)
      BY DEF SetsOK, NoReplay, NewAnswer
    <3>4. \A answer \in answers' : NewAnswer(answer)
      BY <3>1, <3>2, <3>3
    <3> QED
      BY <3>4 DEF NoReplay, NewAnswer
  <2>6. /\ nextFinalized' \in 1 .. Len(Payload) + 1
        /\ nextFinalized' = nextFinalized \/ nextFinalized' = m + 1
    BY <1>0, <2>1, <2>2 DEF MaxOf
  <2>7. ASSUME NEW d \in Deploys
        PROVE  /\ pending'[d] \in Times \cup {Absent}
               /\ pending'[d] = Absent \/ finalizedExpiry'[d] = Absent
               /\ finalizedExpiry'[d] \in (0 .. MaxTime + MaxTtl) \cup {Absent}
               /\ finalizedExpiry'[d] # Absent => finalizedExpiry'[d] >= Expires[d]
               /\ Held(d) => Held(d)'
    <3>1. /\ finalizedExpiry'[d] \in (0 .. MaxTime + MaxTtl) \cup {Absent}
          /\ (\A b \in h .. m : d \notin DeploysOf(b)) => finalizedExpiry'[d] = finalizedExpiry[d]
          /\ (\E b \in h .. m : d \in DeploysOf(b)) => finalizedExpiry'[d] # Absent
          /\ finalizedExpiry'[d] # Absent => finalizedExpiry'[d] >= Expires[d]
      BY <2>1, <2>2, <2>4, FinalizedAfterOK
    <3>2. pending'[d] = IF \E b \in h .. m : d \in DeploysOf(b) THEN Absent ELSE pending[d]
      BY <2>2 DEF PendingAfter
    <3>3. /\ pending[d] \in Times \cup {Absent}
          /\ pending[d] = Absent \/ finalizedExpiry[d] = Absent
      BY DEF SetsOK, NothingOverdue
    <3>4. CASE \E b \in h .. m : d \in DeploysOf(b)
      BY <3>1, <3>2, <3>4 DEF Held
    <3>5. CASE \A b \in h .. m : d \notin DeploysOf(b)
      BY <3>1, <3>2, <3>3, <3>5 DEF Held
    <3> QED
      BY <3>4, <3>5
  <2>8. /\ pending' \in [Deploys -> Times \cup {Absent}]
        /\ finalizedExpiry' \in [Deploys -> (0 .. MaxTime + MaxTtl) \cup {Absent}]
    <3>1. DOMAIN pending' = Deploys /\ pending' = [d \in Deploys |-> pending'[d]]
      BY <2>2 DEF PendingAfter
    <3>2. DOMAIN finalizedExpiry' = Deploys /\ finalizedExpiry' = [d \in Deploys |-> finalizedExpiry'[d]]
      BY <2>2 DEF FinalizedAfter
    <3> QED
      BY <2>7, <3>1, <3>2
  <2>9. NothingOverdue'
    <3>1. \A q \in finalizationQueue' : q > nextFinalized'
      <4> SUFFICES ASSUME NEW q \in finalizationQueue' PROVE q > nextFinalized'
        OBVIOUS
      <4>1. q \in finalizationQueue /\ q \notin h .. m /\ q > nextFinalized /\ q > m + 1
        BY <2>1, <2>2 DEF SetsOK, NothingOverdue
      <4> QED
        BY <2>6, <4>1
    <3>2. \A ask \in requestQueue' : ask.next > nextFinalized'
      <4> SUFFICES ASSUME NEW ask \in requestQueue' PROVE ask.next > nextFinalized'
        OBVIOUS
      <4>1. /\ ask \in requestQueue /\ ask \notin due /\ ask.next > nextFinalized
            /\ ask.next \in 1 .. Len(Payload) + 1
        BY <2>2 DEF SetsOK, NothingOverdue, Requests
      <4>2. ~ (ask.next <= m + 1)
        BY <4>1 DEF due
      <4>3. ask.next > m + 1
        BY <1>0, <2>1, <4>1, <4>2
      <4> QED
        BY <2>6, <4>1, <4>3
    <3> QED
      BY <2>7, <3>1, <3>2 DEF NothingOverdue
  <2>10. Followed'
    <3>1. PICK last \in 0 .. Len(Payload) :
             last >= nextFinalized - 1 /\ last >= m /\ FollowedTo(last, FinalizedAfter(h, m))
      BY <2>0, <2>1, <2>4, FollowedAfter
    <3>2. last \in nextFinalized' - 1 .. Len(Payload)
      <4>1. m \in Nat /\ last \in Nat /\ nextFinalized \in Nat /\ nextFinalized' \in Nat
        BY <1>0, <2>1, <2>6, <3>1
      <4>2. CASE nextFinalized' = nextFinalized
        BY <1>0, <3>1, <4>1, <4>2
      <4>3. CASE nextFinalized' = m + 1
        <5>1. nextFinalized' - 1 = m
          BY <4>1, <4>3
        <5>2. last \in m .. Len(Payload)
          BY <1>0, <3>1, <4>1
        <5> QED
          BY <5>1, <5>2
      <4> QED
        BY <2>6, <4>2, <4>3
    <3>3. FollowedTo(last, finalizedExpiry)'
      BY <2>2, <3>1 DEF FollowedTo
    <3> QED
      BY <3>2, <3>3 DEF Followed
  <2>11. SetsOK'
    <3>1. requestQueue' \subseteq requestQueue /\ finalizationQueue' \subseteq finalizationQueue
      BY <2>2
    <3>2. /\ requestQueue' \subseteq Requests
          /\ \A ask \in requestQueue' : RequestOK(ask)'
          /\ finalizationQueue' \subseteq BlockHeights
          /\ \A q \in finalizationQueue' : BlockTime[q] <= clock'
      BY <3>1 DEF SetsOK, RequestOK
    <3>3. cache' \in [Deploys -> Times \cup {Absent}]
      BY <2>2 DEF SetsOK
    <3>4. \A d \in Deploys : finalizedExpiry'[d] # Absent => finalizedExpiry'[d] >= Expires[d]
      BY <2>7
    <3> QED
      BY <2>5, <2>6, <2>8, <2>9, <3>2, <3>3, <3>4 DEF SetsOK
  <2> QED
    BY <2>7, <2>10, <2>11
<1> QED
  BY <1>1, <1>2

\* The event that brings a deploy.
DeployEvent(d) == [kind |-> "deploy", deploy |-> d]

\* Every event of the ready state.
LEMMA Handled ==
    ASSUME ProposerConstants, SetsOK, Followed, clock \in Times, UNCHANGED clock,
           NEW event \in Events, EventOK(event), Handle(event)
    PROVE  /\ SetsOK' /\ Followed'
           /\ \A d \in Deploys : Held(d) \/ event = DeployEvent(d) => Held(d)'
<1>1. CASE event \in [kind : {"finalized"}, height : BlockHeights]
  <2>1. event.kind = "finalized" /\ event.height \in BlockHeights
    BY <1>1
  <2>2. HandleFinalized(event.height) /\ BlockTime[event.height] <= clock
    BY <2>1 DEF Handle, EventOK
  <2>3. \A d \in Deploys : event # DeployEvent(d)
    BY <2>1 DEF DeployEvent
  <2> QED
    BY <2>1, <2>2, <2>3, FinalizedHandled
<1>2. CASE event \in [kind : {"deploy"}, deploy : Deploys]
  <2>1. event.kind = "deploy" /\ event.deploy \in Deploys
    BY <1>2
  <2>2. HandleDeploy(event.deploy)
    BY <2>1 DEF Handle
  <2>3. \A d \in Deploys : event = DeployEvent(d) => event.deploy = d
    BY DEF DeployEvent
  <2> QED
    BY <2>1, <2>2, <2>3, DeployHandled
<1>3. CASE event \in [kind : {"request"}, request : Requests]
  <2>1. event.kind = "request" /\ event.request \in Requests
    BY <1>3
  <2>2. HandleRequest(event.request) /\ RequestOK(event.request)
    BY <2>1 DEF Handle, EventOK
  <2>3. \A d \in Deploys : event # DeployEvent(d)
    BY <2>1 DEF DeployEvent
  <2> QED
    BY <2>1, <2>2, <2>3, RequestHandled
<1> QED
  BY <1>1, <1>2, <1>3 DEF Events

-----------------------------------------------------------------------------
(* The invariant.                                                          *)

\* The clock, the chain and the counters around the component.
AroundOK ==
    /\ clock \in Times
    /\ lastFinalized \in 0 .. Len(Payload)
    /\ nextHeight \in 1 .. Len(Payload) + 1
    /\ storedHeight \in 0 .. Len(Payload)
    /\ accepted \subseteq Deploys
    /\ requested \in 0 .. MaxRequests
    /\ starts \in 0 .. MaxStarts
    /\ nextHeight > storedHeight /\ nextHeight > lastFinalized
    /\ \A h \in BlockHeights : h <= storedHeight \/ h <= lastFinalized => BlockTime[h] <= clock

\* The events that are on their way or postponed.
EventsOK ==
    /\ inbox \subseteq Events
    /\ postponed \in Seq(Events)
    /\ \A event \in inbox : EventOK(event)
    /\ \A i \in 1 .. Len(postponed) : EventOK(postponed[i])

\* What the state of the component says about its sets.
ModeOK ==
    /\ proposerMode \in {"initializing", "replaying", "ready"}
    /\ proposerMode = "initializing" =>
           /\ pending = NoDeploys
           /\ finalizedExpiry = NoDeploys
           /\ nextFinalized <= storedHeight + 1
           /\ finalizationQueue = {}
           /\ requestQueue = {}
    /\ proposerMode = "replaying" => postponed # <<>>
    /\ proposerMode # "initializing" => Followed

\* Where an accepted deploy is, until the node is restarted.
Coming(d) ==
    \/ DeployEvent(d) \in inbox
    \/ \E i \in 1 .. Len(postponed) : postponed[i] = DeployEvent(d)

AllKept ==
    starts = 0 => \A d \in accepted : Coming(d) \/ Held(d) \/ Expired(d, clock)

PInv == AroundOK /\ EventsOK /\ ModeOK /\ SetsOK /\ AllKept

\* The empty sets.
LEMMA NoDeploysOK ==
    ASSUME ProposerConstants
    PROVE  /\ NoDeploys \in [Deploys -> Times \cup {Absent}]
           /\ NoDeploys \in [Deploys -> (0 .. MaxTime + MaxTtl) \cup {Absent}]
           /\ \A d \in Deploys : NoDeploys[d] = Absent
  BY DEF NoDeploys

\* Init.
LEMMA InitPInv == ASSUME ProposerConstants, ProposerInit PROVE PInv
<1>1. AroundOK
  BY ConstantFacts DEF ProposerInit, AroundOK, Times, BlockHeights
<1>2. EventsOK
  <2>1. inbox = {} /\ postponed = <<>>
    BY DEF ProposerInit
  <2>2. postponed \in Seq(Events) /\ Len(postponed) = 0
    BY <2>1
  <2> QED
    BY <2>1, <2>2 DEF EventsOK
<1>3. ModeOK
  BY DEF ProposerInit, ModeOK
<1>4. SetsOK
  BY NoDeploysOK, ConstantFacts DEF ProposerInit, SetsOK, NothingOverdue, NoReplay
<1>5. AllKept
  BY DEF ProposerInit, AllKept
<1> QED
  BY <1>1, <1>2, <1>3, <1>4, <1>5 DEF PInv

\* Later, an expired deploy is still expired and a block is still not in the future.
LEMMA Later ==
    ASSUME ProposerConstants, clock \in Nat, clock' \in Nat, clock <= clock'
    PROVE  /\ \A d \in Deploys : Expired(d, clock) => Expired(d, clock')
           /\ \A d \in Deploys : Expires[d] <= clock => Expires[d] <= clock'
           /\ \A h \in BlockHeights : BlockTime[h] <= clock => BlockTime[h] <= clock'
           /\ \A event \in Events : EventOK(event) => EventOK(event)'
<1>1. /\ \A d \in Deploys : Expires[d] \in Nat
      /\ \A h \in BlockHeights : BlockTime[h] \in Nat
  BY ConstantFacts
<1>2. \A d \in Deploys : Expired(d, clock) => Expired(d, clock')
  BY <1>1 DEF Expired
<1>3. \A d \in Deploys : Expires[d] <= clock => Expires[d] <= clock'
  BY <1>1
<1>4. \A h \in BlockHeights : BlockTime[h] <= clock => BlockTime[h] <= clock'
  BY <1>1
<1>5. ASSUME NEW event \in Events, EventOK(event) PROVE EventOK(event)'
  <2>1. event.kind = "finalized" => event.height \in BlockHeights
    BY DEF Events
  <2> QED
    BY <1>4, <1>5, <2>1 DEF EventOK, RequestOK
<1> QED
  BY <1>2, <1>3, <1>4, <1>5

\* The steps of the node around the component leave the component alone.
LEMMA AroundKeeps ==
    ASSUME ProposerConstants, PInv, UNCHANGED componentVars,
           clock' \in Times, clock <= clock', storedHeight <= storedHeight',
           storedHeight' \in 0 .. Len(Payload)
    PROVE  SetsOK' /\ ModeOK'
<1>0. /\ clock \in Nat /\ clock' \in Nat /\ storedHeight \in Nat /\ storedHeight' \in Nat
      /\ nextFinalized \in Nat
  BY ConstantFacts DEF PInv, AroundOK, SetsOK, Times
<1>1. /\ UNCHANGED <<proposerMode, postponed, nextFinalized, finalizationQueue, pending>>
      /\ UNCHANGED <<finalizedExpiry, requestQueue, cache, answers>>
  BY DEF componentVars, setsVars
<1>2. SetsOK'
  <2>1. \A h \in finalizationQueue' : BlockTime[h] <= clock'
    BY <1>0, <1>1, Later DEF PInv, SetsOK
  <2>2. NothingOverdue'
    BY <1>1 DEF PInv, SetsOK, NothingOverdue
  <2>3. NoReplay'
    BY <1>1 DEF PInv, SetsOK, NoReplay
  <2>4. \A ask \in requestQueue' : RequestOK(ask)'
    BY <1>1 DEF PInv, SetsOK, RequestOK
  <2> QED
    BY <1>1, <2>1, <2>2, <2>3, <2>4 DEF PInv, SetsOK
<1>3. Followed => Followed'
  <2> SUFFICES ASSUME Followed PROVE Followed'
    OBVIOUS
  <2>1. PICK last \in nextFinalized - 1 .. Len(Payload) : FollowedTo(last, finalizedExpiry)
    BY DEF Followed
  <2>2. \A h \in 1 .. last : DeploysOf(h) \subseteq Deploys
    BY <2>1, ConstantFacts DEF PInv, SetsOK, BlockHeights
  <2>3. FollowedTo(last, finalizedExpiry)'
    BY <1>0, <1>1, <2>1, <2>2, Later DEF FollowedTo
  <2> QED
    BY <1>1, <2>1, <2>3 DEF Followed
<1>4. ModeOK'
  <2>0. nextFinalized' = nextFinalized
    BY <1>1
  <2>1. nextFinalized <= storedHeight + 1 => nextFinalized' <= storedHeight' + 1
    <3>1. \A a, b, c \in Nat : a <= b + 1 /\ b <= c => a <= c + 1
      OBVIOUS
    <3>2. nextFinalized <= storedHeight + 1 => nextFinalized <= storedHeight' + 1
      BY <1>0, <3>1
    <3> QED
      BY <2>0, <3>2
  <2> QED
    BY <1>1, <1>3, <2>1 DEF PInv, ModeOK, NoDeploys
<1> QED
  BY <1>2, <1>4

-----------------------------------------------------------------------------
(* The steps of the node around the component.                             *)

\* Events come in, and nothing else of the events changes.
LEMMA EventsComeIn ==
    ASSUME ProposerConstants, PInv, UNCHANGED <<clock, postponed>>, NEW event \in Events,
           EventOK(event), inbox' = inbox \cup {event}
    PROVE  EventsOK'
<1>1. /\ EventOK(event)'
      /\ \A e \in Events : EventOK(e) => EventOK(e)'
  BY DEF EventOK, RequestOK
<1>2. \A e \in inbox' : e \in Events /\ EventOK(e)'
  BY <1>1 DEF PInv, EventsOK
<1>3. (\A i \in 1 .. Len(postponed) : EventOK(postponed[i]))'
  BY DEF PInv, EventsOK, EventOK, RequestOK
<1> QED
  BY <1>2, <1>3 DEF PInv, EventsOK

\* Time passes.
LEMMA TickKeeps == ASSUME ProposerConstants, PInv, Tick PROVE PInv'
<1>0. /\ MaxTime \in Nat /\ Len(Payload) \in Nat /\ clock \in 0 .. MaxTime
      /\ storedHeight \in 0 .. Len(Payload)
  BY ConstantFacts DEF PInv, AroundOK, Times
<1>1. /\ clock < MaxTime /\ clock' = clock + 1
      /\ UNCHANGED <<lastFinalized, nextHeight, storedHeight, accepted, inbox, requested, starts>>
      /\ UNCHANGED componentVars
  BY DEF Tick
<1>2. clock' \in Times /\ clock <= clock' /\ clock \in Nat /\ clock' \in Nat
  BY <1>0, <1>1 DEF Times
<1>3. storedHeight' = storedHeight /\ storedHeight <= storedHeight' /\ storedHeight' \in 0 .. Len(Payload)
  BY <1>0, <1>1
<1>4. SetsOK' /\ ModeOK'
  BY <1>1, <1>2, <1>3, AroundKeeps
<1>5. AroundOK'
  <2>1. \A h \in BlockHeights : h <= storedHeight' \/ h <= lastFinalized' => BlockTime[h] <= clock'
    BY <1>1, <1>2, Later DEF PInv, AroundOK
  <2> QED
    BY <1>1, <1>2, <2>1 DEF PInv, AroundOK
<1>6. postponed' = postponed /\ pending' = pending /\ finalizedExpiry' = finalizedExpiry
  BY <1>1 DEF componentVars, setsVars
<1>7. EventsOK'
  <2>1. \A event \in Events : EventOK(event) => EventOK(event)'
    BY <1>2, Later
  <2>2. \A event \in inbox : EventOK(event)'
    BY <2>1 DEF PInv, EventsOK
  <2>3. \A i \in 1 .. Len(postponed) : EventOK(postponed[i])'
    <3> SUFFICES ASSUME NEW i \in 1 .. Len(postponed) PROVE EventOK(postponed[i])'
      OBVIOUS
    <3>1. postponed[i] \in Events /\ EventOK(postponed[i])
      BY ElementOfSeq DEF PInv, EventsOK
    <3>2. /\ postponed[i].kind = "finalized" => postponed[i].height \in BlockHeights
          /\ postponed[i].kind = "finalized" => BlockTime[postponed[i].height] <= clock
          /\ postponed[i].kind = "request" => RequestOK(postponed[i].request)
      BY <3>1 DEF EventOK, Events
    <3>3. postponed[i].kind = "finalized" => BlockTime[postponed[i].height] <= clock'
      BY <1>2, <3>2, Later
    <3> QED
      BY <1>6, <3>2, <3>3 DEF EventOK, RequestOK
  <2> QED
    BY <1>1, <1>6, <2>2, <2>3 DEF PInv, EventsOK
<1>8. AllKept'
  <2> SUFFICES ASSUME starts = 0, NEW d \in accepted
               PROVE  Coming(d)' \/ Held(d)' \/ Expired(d, clock')
    BY <1>1 DEF AllKept
  <2>1. d \in Deploys /\ (Coming(d) \/ Held(d) \/ Expired(d, clock))
    BY DEF PInv, AroundOK, AllKept
  <2>2. Coming(d) => Coming(d)'
    BY <1>1, <1>6 DEF Coming, DeployEvent
  <2>3. Held(d) => Held(d)'
    BY <1>6 DEF Held
  <2>4. Expired(d, clock) => Expired(d, clock')
    BY <1>2, <2>1, Later
  <2> QED
    BY <2>1, <2>2, <2>3, <2>4
<1> QED
  BY <1>4, <1>5, <1>7, <1>8 DEF PInv

\* Nothing that is kept is lost by a step around the component.
LEMMA StillKept ==
    ASSUME PInv, UNCHANGED <<clock, postponed, pending, finalizedExpiry, starts>>,
           inbox \subseteq inbox',
           \A d \in accepted' : d \in accepted \/ DeployEvent(d) \in inbox'
    PROVE  AllKept'
<1> SUFFICES ASSUME starts = 0, NEW d \in accepted'
             PROVE  Coming(d)' \/ Held(d)' \/ Expired(d, clock')
  BY DEF AllKept
<1>1. CASE DeployEvent(d) \in inbox'
  BY <1>1 DEF Coming, DeployEvent
<1>2. CASE d \in accepted
  <2>1. Coming(d) \/ Held(d) \/ Expired(d, clock)
    BY <1>2 DEF PInv, AllKept
  <2>2. Coming(d) => Coming(d)'
    BY DEF Coming, DeployEvent
  <2>3. Held(d) => Held(d)'
    BY DEF Held
  <2> QED
    BY <2>1, <2>2, <2>3
<1> QED
  BY <1>1, <1>2

\* Consensus finalizes a block.
LEMMA FinalizeKeeps == ASSUME ProposerConstants, PInv, FinalizeBlock PROVE PInv'
<1> DEFINE h == lastFinalized + 1
           event == [kind |-> "finalized", height |-> h]
<1>0. /\ Len(Payload) \in Nat /\ clock \in Nat /\ storedHeight \in 0 .. Len(Payload)
      /\ lastFinalized \in 0 .. Len(Payload) /\ nextHeight \in 1 .. Len(Payload) + 1
  BY ConstantFacts DEF PInv, AroundOK, Times
<1>1. /\ h \in BlockHeights /\ BlockTime[h] <= clock
      /\ lastFinalized' = h
      /\ nextHeight' = MaxOf(nextHeight, h + 1)
      /\ inbox' = inbox \cup {event}
      /\ UNCHANGED <<clock, storedHeight, accepted, requested, starts>>
      /\ UNCHANGED componentVars
  BY DEF FinalizeBlock
<1>2. /\ UNCHANGED <<postponed, pending, finalizedExpiry>>
      /\ clock' \in Times /\ clock <= clock' /\ storedHeight <= storedHeight'
      /\ storedHeight' \in 0 .. Len(Payload)
  BY <1>0, <1>1 DEF componentVars, setsVars, PInv, AroundOK
<1>3. SetsOK' /\ ModeOK'
  BY <1>1, <1>2, AroundKeeps
<1>4. AroundOK'
  <2>1. /\ nextHeight' \in 1 .. Len(Payload) + 1
        /\ nextHeight' > lastFinalized' /\ nextHeight' >= nextHeight
    <3>1. h \in 1 .. Len(Payload)
      BY <1>1 DEF BlockHeights
    <3> QED
      BY <1>0, <1>1, <3>1 DEF MaxOf
  <2>2. nextHeight' > storedHeight'
    BY <1>0, <1>1, <2>1 DEF PInv, AroundOK
  <2>3. lastFinalized' \in 0 .. Len(Payload)
    BY <1>0, <1>1 DEF BlockHeights
  <2>4. ASSUME NEW b \in BlockHeights, b <= storedHeight' \/ b <= lastFinalized'
        PROVE  BlockTime[b] <= clock'
    <3>1. b = h \/ b <= storedHeight \/ b <= lastFinalized
      BY <1>0, <1>1, <2>4 DEF BlockHeights
    <3> QED
      BY <1>1, <3>1 DEF PInv, AroundOK
  <2> QED
    BY <1>1, <1>2, <2>1, <2>2, <2>3, <2>4 DEF PInv, AroundOK
<1>5. EventsOK'
  <2>1. event \in Events /\ EventOK(event)
    BY <1>1 DEF Events, EventOK
  <2> HIDE DEF event
  <2> QED
    BY <1>1, <1>2, <2>1, EventsComeIn
<1>6. AllKept'
  BY <1>1, <1>2, StillKept
<1> QED
  BY <1>3, <1>4, <1>5, <1>6 DEF PInv

\* A block is stored.
LEMMA BlockStoredKeeps == ASSUME ProposerConstants, PInv, BlockStored PROVE PInv'
<1>0. /\ Len(Payload) \in Nat /\ clock \in Nat /\ storedHeight \in 0 .. Len(Payload)
      /\ lastFinalized \in 0 .. Len(Payload) /\ nextHeight \in 1 .. Len(Payload) + 1
  BY ConstantFacts DEF PInv, AroundOK, Times
<1>1. /\ storedHeight < lastFinalized /\ storedHeight' = storedHeight + 1
      /\ UNCHANGED <<clock, lastFinalized, nextHeight, accepted, inbox, requested, starts>>
      /\ UNCHANGED componentVars
  BY DEF BlockStored
<1>2. /\ UNCHANGED <<postponed, pending, finalizedExpiry>>
      /\ clock' \in Times /\ clock <= clock' /\ storedHeight <= storedHeight'
      /\ storedHeight' \in 0 .. Len(Payload)
  BY <1>0, <1>1 DEF componentVars, setsVars, PInv, AroundOK
<1>3. SetsOK' /\ ModeOK'
  BY <1>1, <1>2, AroundKeeps
<1>4. AroundOK'
  <2>1. nextHeight > storedHeight + 1
    BY <1>0, <1>1 DEF PInv, AroundOK
  <2>2. \A h \in BlockHeights : h <= storedHeight + 1 => h <= lastFinalized
    BY <1>0, <1>1 DEF BlockHeights
  <2> QED
    BY <1>1, <1>2, <2>1, <2>2 DEF PInv, AroundOK
<1>5. EventsOK'
  BY <1>1, <1>2 DEF PInv, EventsOK, EventOK, RequestOK
<1>6. AllKept'
  BY <1>1, <1>2, StillKept
<1> QED
  BY <1>3, <1>4, <1>5, <1>6 DEF PInv

\* A deploy is accepted.
LEMMA DeployAcceptedKeeps ==
    ASSUME ProposerConstants, PInv, NEW new \in Deploys, DeployAccepted(new) PROVE PInv'
<1>0. clock \in Nat /\ storedHeight \in 0 .. Len(Payload) /\ Len(Payload) \in Nat
  BY ConstantFacts DEF PInv, AroundOK, Times
<1>1. /\ accepted' = accepted \cup {new}
      /\ inbox' = inbox \cup {DeployEvent(new)}
      /\ UNCHANGED <<clock, lastFinalized, nextHeight, storedHeight, requested, starts>>
      /\ UNCHANGED componentVars
  BY DEF DeployAccepted, DeployEvent
<1>2. /\ UNCHANGED <<postponed, pending, finalizedExpiry>>
      /\ clock' \in Times /\ clock <= clock' /\ storedHeight <= storedHeight'
      /\ storedHeight' \in 0 .. Len(Payload)
  BY <1>0, <1>1 DEF componentVars, setsVars, PInv, AroundOK
<1>3. SetsOK' /\ ModeOK'
  BY <1>1, <1>2, AroundKeeps
<1>4. AroundOK'
  BY <1>1, <1>2 DEF PInv, AroundOK
<1>5. EventsOK'
  <2>1. DeployEvent(new) \in Events /\ EventOK(DeployEvent(new))
    BY DEF Events, EventOK, DeployEvent
  <2> QED
    BY <1>1, <1>2, <2>1, EventsComeIn
<1>6. AllKept'
  BY <1>1, <1>2, StillKept
<1> QED
  BY <1>3, <1>4, <1>5, <1>6 DEF PInv

\* Consensus asks for a payload; the request waits for the blocks below next_block_height.
LEMMA RequestPayloadKeeps ==
    ASSUME ProposerConstants, PInv, NEW parent \in 0 .. Len(Payload), RequestPayload(parent)
    PROVE  PInv'
<1> DEFINE ask == [id |-> requested + 1, parent |-> parent, timestamp |-> clock, next |-> nextHeight]
           event == [kind |-> "request", request |-> ask]
<1>0. /\ Len(Payload) \in Nat /\ clock \in Nat /\ storedHeight \in 0 .. Len(Payload)
      /\ nextHeight \in 1 .. Len(Payload) + 1 /\ nextHeight > storedHeight
      /\ EraStart \in Nat /\ MaxRequests \in Nat /\ requested \in 0 .. MaxRequests
  BY ConstantFacts DEF PInv, AroundOK, Times
<1>1. /\ requested < MaxRequests /\ requested' = requested + 1
      /\ parent >= EraStart => storedHeight >= EraStart
      /\ inbox' = inbox \cup {event}
      /\ UNCHANGED <<clock, lastFinalized, nextHeight, storedHeight, accepted, starts>>
      /\ UNCHANGED componentVars
  BY DEF RequestPayload
<1>2. /\ UNCHANGED <<postponed, pending, finalizedExpiry>>
      /\ clock' \in Times /\ clock <= clock' /\ storedHeight <= storedHeight'
      /\ storedHeight' \in 0 .. Len(Payload)
  BY <1>0, <1>1 DEF componentVars, setsVars, PInv, AroundOK
<1>3. SetsOK' /\ ModeOK'
  BY <1>1, <1>2, AroundKeeps
<1>4. AroundOK'
  BY <1>0, <1>1, <1>2 DEF PInv, AroundOK
<1>5. EventsOK'
  <2>1. requested + 1 \in 1 .. MaxRequests
    BY <1>0, <1>1
  <2>2. ask \in Requests
    BY <1>0, <2>1 DEF Requests, PInv, AroundOK
  <2>3. parent >= EraStart => nextHeight > EraStart
    BY <1>0, <1>1
  <2>4. RequestOK(ask)
    BY <2>3 DEF RequestOK
  <2> HIDE DEF ask
  <2>5. event \in Events /\ EventOK(event)
    BY <2>2, <2>4 DEF Events, EventOK
  <2> HIDE DEF event
  <2> QED
    BY <1>1, <1>2, <2>5, EventsComeIn
<1>6. AllKept'
  BY <1>1, <1>2, StillKept
<1> QED
  BY <1>3, <1>4, <1>5, <1>6 DEF PInv

\* A restart: the sets are empty until they are loaded.
LEMMA RestartKeeps == ASSUME ProposerConstants, PInv, RestartNode PROVE PInv'
<1>0. /\ Len(Payload) \in Nat /\ clock \in Nat /\ storedHeight \in 0 .. Len(Payload)
      /\ EraStart \in Nat /\ MaxStarts \in Nat /\ starts \in 0 .. MaxStarts
  BY ConstantFacts DEF PInv, AroundOK, Times
<1>1. /\ starts < MaxStarts /\ starts' = starts + 1
      /\ lastFinalized' = IF storedHeight >= EraStart THEN EraStart ELSE 0
      /\ nextHeight' = storedHeight + 1
      /\ inbox' = {} /\ proposerMode' = "initializing" /\ postponed' = <<>>
      /\ nextFinalized' = storedHeight + 1
      /\ finalizationQueue' = {} /\ requestQueue' = {}
      /\ pending' = NoDeploys /\ finalizedExpiry' = NoDeploys
      /\ UNCHANGED <<clock, storedHeight, accepted, requested, cache, answers>>
  BY DEF RestartNode
<1>2. AroundOK'
  <2>1. /\ lastFinalized' \in 0 .. Len(Payload) /\ lastFinalized' <= storedHeight
        /\ nextHeight' \in 1 .. Len(Payload) + 1 /\ nextHeight' > storedHeight'
        /\ nextHeight' > lastFinalized' /\ starts' \in 0 .. MaxStarts
    BY <1>0, <1>1
  <2>2. \A h \in BlockHeights : h <= lastFinalized' => h <= storedHeight
    BY <1>0, <2>1 DEF BlockHeights
  <2> QED
    BY <1>1, <2>1, <2>2 DEF PInv, AroundOK
<1>3. EventsOK'
  <2>1. postponed' \in Seq(Events) /\ Len(postponed') = 0
    BY <1>1
  <2> QED
    BY <1>1, <2>1 DEF EventsOK
<1>4. SetsOK'
  <2>1. NoReplay'
    BY <1>1 DEF PInv, SetsOK, NoReplay
  <2>2. NothingOverdue'
    BY <1>1, NoDeploysOK DEF NothingOverdue
  <2>3. nextFinalized' \in 1 .. Len(Payload) + 1
    BY <1>0, <1>1
  <2> QED
    BY <1>1, <2>1, <2>2, <2>3, NoDeploysOK DEF PInv, SetsOK
<1>5. ModeOK'
  <2>1. nextFinalized' <= storedHeight' + 1
    BY <1>0, <1>1
  <2>2. NoDeploys' = NoDeploys
    BY DEF NoDeploys
  <2> QED
    BY <1>1, <2>1, <2>2 DEF ModeOK
<1>6. AllKept'
  BY <1>0, <1>1 DEF AllKept
<1> QED
  BY <1>2, <1>3, <1>4, <1>5, <1>6 DEF PInv

-----------------------------------------------------------------------------
(* The steps of the component.                                             *)

\* prune, of the finalized deploys.
LEMMA PrunedOK ==
    ASSUME ProposerConstants, clock \in Nat, NEW last \in 0 .. Len(Payload),
           NEW map \in [Deploys -> (0 .. MaxTime + MaxTtl) \cup {Absent}],
           \A d \in Deploys : map[d] # Absent => map[d] >= Expires[d],
           FollowedTo(last, map)
    PROVE  /\ PrunedFinalized(map, clock) \in [Deploys -> (0 .. MaxTime + MaxTtl) \cup {Absent}]
           /\ \A d \in Deploys :
                 LET now == PrunedFinalized(map, clock)[d] IN
                    /\ now # Absent => now >= Expires[d]
                    /\ now # Absent => map[d] # Absent
                    /\ map[d] # Absent => now # Absent \/ Expired(d, clock)
           /\ FollowedTo(last, PrunedFinalized(map, clock))
<1> DEFINE new == PrunedFinalized(map, clock)
<1>0. /\ \A d \in Deploys : Expires[d] \in Nat
      /\ MaxTime \in Nat /\ MaxTtl \in Nat /\ Absent \notin Nat /\ Len(Payload) \in Nat
  BY ConstantFacts
<1>1. \A d \in Deploys : new[d] = IF map[d] # Absent /\ map[d] < clock THEN Absent ELSE map[d]
  BY DEF PrunedFinalized
<1>2. new \in [Deploys -> (0 .. MaxTime + MaxTtl) \cup {Absent}]
  BY DEF PrunedFinalized
<1> HIDE DEF new
<1>3. ASSUME NEW d \in Deploys
      PROVE  /\ new[d] # Absent => new[d] >= Expires[d]
             /\ new[d] # Absent => map[d] # Absent
             /\ map[d] # Absent => new[d] # Absent \/ Expired(d, clock)
  <2>1. CASE map[d] # Absent /\ map[d] < clock
    <3>1. Expires[d] < clock
      BY <1>0, <2>1
    <3> QED
      BY <1>1, <2>1, <3>1 DEF Expired
  <2>2. CASE ~ (map[d] # Absent /\ map[d] < clock)
    BY <1>1, <2>2
  <2> QED
    BY <2>1, <2>2
<1>4. FollowedTo(last, new)
  <2>1. Known(new) \subseteq Known(map)
    BY <1>3 DEF Known
  <2>2. ASSUME NEW h \in 1 .. last, NEW d \in DeploysOf(h)
        PROVE  new[d] # Absent \/ Expires[d] <= clock
    <3>1. d \in Deploys
      BY <1>0, ConstantFacts DEF BlockHeights
    <3>2. map[d] # Absent \/ Expires[d] <= clock
      BY <2>2 DEF FollowedTo
    <3>3. Expired(d, clock) => Expires[d] <= clock
      BY <1>0, <3>1 DEF Expired
    <3> QED
      BY <1>3, <3>1, <3>2, <3>3
  <2> QED
    BY <2>1, <2>2 DEF FollowedTo
<1> QED
  BY <1>2, <1>3, <1>4 DEF new

\* The blocks that are read from storage tell all deploys before their expiry.
LEMMA FinalizedInOK ==
    ASSUME ProposerConstants, AroundOK, NEW map, map = FinalizedIn(RecentBlocks(clock))
    PROVE  /\ map \in [Deploys -> (0 .. MaxTime + MaxTtl) \cup {Absent}]
           /\ \A d \in Deploys : map[d] # Absent => map[d] >= Expires[d]
           /\ FollowedTo(storedHeight, map)
<1> DEFINE blocks == RecentBlocks(clock)
<1>0. /\ Len(Payload) \in Nat /\ storedHeight \in 0 .. Len(Payload)
      /\ MaxTime \in Nat /\ MaxTtl \in Nat /\ Absent \notin Nat /\ clock \in 0 .. MaxTime
      /\ \A d \in Deploys : Expires[d] \in Nat
  BY ConstantFacts DEF AroundOK, Times
<1>1. \A h \in 1 .. storedHeight : /\ h \in BlockHeights /\ h <= storedHeight
                                   /\ BlockTime[h] \in Nat /\ BlockTime[h] <= clock
                                   /\ DeploysOf(h) \subseteq Deploys
  BY <1>0, ConstantFacts DEF AroundOK, BlockHeights
<1>2. blocks \subseteq 1 .. storedHeight
  BY DEF RecentBlocks
<1>3. \A d \in Deploys :
         map[d] = IF \E h \in blocks : d \in DeploysOf(h)
                  THEN MaxTtl + BlockTime[CHOOSE h \in blocks : d \in DeploysOf(h)]
                  ELSE Absent
  BY DEF FinalizedIn
<1>4. map = [d \in Deploys |-> map[d]]
  BY DEF FinalizedIn
<1> HIDE DEF blocks
<1>5. ASSUME NEW d \in Deploys
      PROVE  /\ (\E h \in blocks : d \in DeploysOf(h)) =>
                    map[d] \in 0 .. MaxTime + MaxTtl /\ map[d] >= Expires[d] /\ map[d] # Absent
             /\ (\A h \in blocks : d \notin DeploysOf(h)) => map[d] = Absent
  <2>1. CASE \E h \in blocks : d \in DeploysOf(h)
    <3> DEFINE b == CHOOSE h \in blocks : d \in DeploysOf(h)
    <3>1. b \in blocks /\ d \in DeploysOf(b)
      BY <2>1
    <3>2. map[d] = MaxTtl + BlockTime[b]
      BY <1>3, <2>1
    <3> HIDE DEF b
    <3>3. b \in BlockHeights /\ BlockTime[b] \in Nat /\ BlockTime[b] <= clock
      BY <1>1, <1>2, <3>1
    <3>4. Expires[d] <= BlockTime[b] + MaxTtl
      BY <3>1, <3>3, ConstantFacts
    <3>5. map[d] \in 0 .. MaxTime + MaxTtl /\ map[d] >= Expires[d] /\ map[d] # Absent
      BY <1>0, <3>2, <3>3, <3>4
    <3> QED
      BY <2>1, <3>5
  <2>2. CASE \A h \in blocks : d \notin DeploysOf(h)
    BY <1>3, <2>2
  <2> QED
    BY <2>1, <2>2
<1>6. map \in [Deploys -> (0 .. MaxTime + MaxTtl) \cup {Absent}]
  BY <1>4, <1>5
<1>7. \A d \in Deploys : map[d] # Absent => map[d] >= Expires[d]
  BY <1>5
<1>8. FollowedTo(storedHeight, map)
  <2>1. ASSUME NEW d \in Known(map) PROVE \E h \in 1 .. storedHeight : d \in DeploysOf(h)
    BY <1>2, <1>5, <2>1 DEF Known
  <2>2. ASSUME NEW h \in 1 .. storedHeight, NEW d \in DeploysOf(h)
        PROVE  map[d] # Absent \/ Expires[d] <= clock
    <3>1. d \in Deploys
      BY <1>1
    <3>2. CASE h \in blocks
      BY <1>5, <3>1, <3>2
    <3>3. CASE h \notin blocks
      <4>1. PICK i \in h .. storedHeight : ~ (clock - BlockTime[i] < MaxTtl)
        BY <3>3 DEF blocks, RecentBlocks
      <4>2. i \in 1 .. storedHeight /\ i \in BlockHeights /\ h \in BlockHeights
        BY <1>0, <1>1, <4>1
      <4>3. BlockTime[i] \in Nat /\ BlockTime[h] \in Nat /\ BlockTime[h] <= BlockTime[i]
        <5>1. CASE h = i
          BY <1>1, <5>1
        <5>2. CASE h < i
          BY <1>1, <4>2, <5>2 DEF ProposerConstants, ValidChain
        <5> QED
          BY <1>0, <4>1, <4>2, <5>1, <5>2
      <4>4. Expires[d] <= BlockTime[h] + MaxTtl
        BY <4>2, ConstantFacts
      <4>5. Expires[d] \in Nat /\ clock \in Nat
        BY <1>0, <3>1
      <4> QED
        BY <1>0, <4>1, <4>3, <4>4, <4>5
    <3> QED
      BY <3>2, <3>3
  <2> QED
    BY <2>1, <2>2 DEF FollowedTo
<1> QED
  BY <1>6, <1>7, <1>8

\* The timer.
LEMMA PruneKeeps == ASSUME ProposerConstants, PInv, Prune PROVE PInv'
<1>0. /\ clock \in Nat /\ Len(Payload) \in Nat /\ nextFinalized \in 1 .. Len(Payload) + 1
  BY ConstantFacts DEF PInv, AroundOK, SetsOK, Times
<1>1. /\ proposerMode = "ready"
      /\ pending' = PrunedPending(pending, clock)
      /\ finalizedExpiry' = PrunedFinalized(finalizedExpiry, clock)
      /\ cache' = pending'
      /\ UNCHANGED <<clock, lastFinalized, nextHeight, storedHeight, accepted, requested, starts>>
      /\ UNCHANGED <<inbox, proposerMode, postponed, nextFinalized, finalizationQueue>>
      /\ UNCHANGED <<requestQueue, answers>>
  BY DEF Prune, aroundVars
<1>2. PICK last \in nextFinalized - 1 .. Len(Payload) : FollowedTo(last, finalizedExpiry)
  BY <1>1 DEF PInv, ModeOK, Followed
<1>3. last \in 0 .. Len(Payload)
  BY <1>0, <1>2
<1>4. /\ finalizedExpiry' \in [Deploys -> (0 .. MaxTime + MaxTtl) \cup {Absent}]
      /\ \A d \in Deploys :
            /\ finalizedExpiry'[d] # Absent => finalizedExpiry'[d] >= Expires[d]
            /\ finalizedExpiry'[d] # Absent => finalizedExpiry[d] # Absent
            /\ finalizedExpiry[d] # Absent => finalizedExpiry'[d] # Absent \/ Expired(d, clock)
      /\ FollowedTo(last, finalizedExpiry')
  BY <1>0, <1>1, <1>2, <1>3, PrunedOK DEF PInv, SetsOK
<1>5. /\ pending' \in [Deploys -> Times \cup {Absent}]
      /\ \A d \in Deploys : pending'[d] = IF Expired(d, clock) THEN Absent ELSE pending[d]
  BY <1>1 DEF PrunedPending, PInv, SetsOK
<1>6. AroundOK'
  BY <1>1 DEF PInv, AroundOK
<1>7. EventsOK'
  BY <1>1 DEF PInv, EventsOK, EventOK, RequestOK
<1>8. SetsOK'
  <2>1. NoReplay' /\ \A ask \in requestQueue' : RequestOK(ask)'
    BY <1>1 DEF PInv, SetsOK, NoReplay, RequestOK
  <2>2. NothingOverdue'
    BY <1>1, <1>4, <1>5 DEF PInv, SetsOK, NothingOverdue
  <2> QED
    BY <1>1, <1>4, <1>5, <2>1, <2>2 DEF PInv, SetsOK
<1>9. ModeOK'
  <2>1. Followed'
    BY <1>1, <1>2, <1>4 DEF Followed, FollowedTo
  <2> QED
    BY <1>1, <2>1 DEF ModeOK
<1>10. AllKept'
  <2> SUFFICES ASSUME starts = 0, NEW d \in accepted
               PROVE  Coming(d)' \/ Held(d)' \/ Expired(d, clock')
    BY <1>1 DEF AllKept
  <2>1. d \in Deploys /\ (Coming(d) \/ Held(d) \/ Expired(d, clock))
    BY DEF PInv, AroundOK, AllKept
  <2>2. Coming(d) => Coming(d)'
    BY <1>1 DEF Coming, DeployEvent
  <2>3. Held(d) => Held(d)' \/ Expired(d, clock)
    BY <1>4, <1>5, <2>1 DEF Held
  <2> QED
    BY <1>1, <2>1, <2>2, <2>3
<1> QED
  BY <1>6, <1>7, <1>8, <1>9, <1>10 DEF PInv

\* The blocks and the snapshot are read: the proposer follows the stored chain.
LEMMA LoadedKeeps == ASSUME ProposerConstants, PInv, Loaded PROVE PInv'
<1> DEFINE final == FinalizedIn(RecentBlocks(clock))
<1>0. /\ clock \in Nat /\ Len(Payload) \in Nat /\ nextFinalized \in 1 .. Len(Payload) + 1
      /\ storedHeight \in 0 .. Len(Payload)
  BY ConstantFacts DEF PInv, AroundOK, SetsOK, Times
<1>1. /\ proposerMode = "initializing"
      /\ finalizedExpiry' = PrunedFinalized(final, clock)
      /\ pending' = PrunedPending(Unfinalized(cache, final), clock)
      /\ cache' = pending'
      /\ proposerMode' = IF postponed = <<>> THEN "ready" ELSE "replaying"
      /\ UNCHANGED <<clock, lastFinalized, nextHeight, storedHeight, accepted, requested, starts>>
      /\ UNCHANGED <<inbox, postponed, nextFinalized, finalizationQueue, requestQueue, answers>>
  BY DEF Loaded, aroundVars
<1> HIDE DEF final
<1>2. /\ final \in [Deploys -> (0 .. MaxTime + MaxTtl) \cup {Absent}]
      /\ \A d \in Deploys : final[d] # Absent => final[d] >= Expires[d]
      /\ FollowedTo(storedHeight, final)
  BY FinalizedInOK DEF PInv, final
<1>3. /\ finalizedExpiry' \in [Deploys -> (0 .. MaxTime + MaxTtl) \cup {Absent}]
      /\ \A d \in Deploys :
            /\ finalizedExpiry'[d] # Absent => finalizedExpiry'[d] >= Expires[d]
            /\ finalizedExpiry'[d] # Absent => final[d] # Absent
      /\ FollowedTo(storedHeight, finalizedExpiry')
  BY <1>0, <1>1, <1>2, PrunedOK
<1>4. /\ pending' \in [Deploys -> Times \cup {Absent}]
      /\ \A d \in Deploys : pending'[d] # Absent => final[d] = Absent
  BY <1>1 DEF PrunedPending, Unfinalized, PInv, SetsOK
<1>5. AroundOK'
  BY <1>1 DEF PInv, AroundOK
<1>6. EventsOK'
  BY <1>1 DEF PInv, EventsOK, EventOK, RequestOK
<1>7. SetsOK'
  <2>1. NoReplay' /\ \A ask \in requestQueue' : RequestOK(ask)'
    BY <1>1 DEF PInv, SetsOK, NoReplay, RequestOK
  <2>2. NothingOverdue'
    BY <1>1, <1>3, <1>4 DEF PInv, SetsOK, NothingOverdue
  <2> QED
    BY <1>1, <1>3, <1>4, <2>1, <2>2 DEF PInv, SetsOK
<1>8. ModeOK'
  <2>1. storedHeight \in nextFinalized - 1 .. Len(Payload)
    <3>1. nextFinalized <= storedHeight + 1
      BY <1>1 DEF PInv, ModeOK
    <3> QED
      BY <1>0, <3>1
  <2>2. Followed'
    BY <1>1, <1>3, <2>1 DEF Followed, FollowedTo
  <2> QED
    BY <1>1, <2>2 DEF ModeOK
<1>9. AllKept'
  <2> SUFFICES ASSUME starts = 0, NEW d \in accepted
               PROVE  Coming(d)' \/ Expired(d, clock')
    BY <1>1 DEF AllKept
  <2>1. d \in Deploys /\ (Coming(d) \/ Held(d) \/ Expired(d, clock))
    BY DEF PInv, AroundOK, AllKept
  <2>2. ~ Held(d)
    BY <1>1, <2>1, NoDeploysOK DEF Held, PInv, ModeOK
  <2>3. Coming(d) => Coming(d)'
    BY <1>1 DEF Coming, DeployEvent
  <2> QED
    BY <1>1, <2>1, <2>2, <2>3
<1> QED
  BY <1>5, <1>6, <1>7, <1>8, <1>9 DEF PInv

\* An event is postponed.
LEMMA PostponeKeeps ==
    ASSUME ProposerConstants, PInv, NEW event \in inbox, Postpone(event) PROVE PInv'
<1>1. /\ proposerMode = "initializing"
      /\ inbox' = inbox \ {event}
      /\ postponed' = Append(postponed, event)
      /\ UNCHANGED <<clock, lastFinalized, nextHeight, storedHeight, accepted, requested, starts>>
      /\ UNCHANGED <<proposerMode, nextFinalized, finalizationQueue, pending, finalizedExpiry>>
      /\ UNCHANGED <<requestQueue, cache, answers>>
  BY DEF Postpone, aroundVars, setsVars
<1>2. event \in Events /\ EventOK(event)
  BY DEF PInv, EventsOK
<1>3. /\ postponed' \in Seq(Events)
      /\ Len(postponed) \in Nat /\ Len(postponed') = Len(postponed) + 1
      /\ \A i \in 1 .. Len(postponed) : postponed'[i] = postponed[i]
      /\ postponed'[Len(postponed) + 1] = event
  BY <1>1, <1>2, AppendProperties, LenProperties DEF PInv, EventsOK
<1>4. AroundOK'
  BY <1>1 DEF PInv, AroundOK
<1>5. EventsOK'
  <2>1. \A i \in 1 .. Len(postponed') : EventOK(postponed[i]) \/ i = Len(postponed) + 1
    BY <1>3 DEF PInv, EventsOK
  <2>2. (\A i \in 1 .. Len(postponed) : EventOK(postponed[i]))'
    BY <1>1, <1>2, <1>3, <2>1 DEF EventOK, RequestOK
  <2>3. (\A e \in inbox : EventOK(e))'
    BY <1>1 DEF PInv, EventsOK, EventOK, RequestOK
  <2> QED
    BY <1>1, <1>3, <2>2, <2>3 DEF PInv, EventsOK
<1>6. SetsOK'
  BY <1>1 DEF PInv, SetsOK, NothingOverdue, NoReplay, RequestOK
<1>7. ModeOK'
  BY <1>1 DEF PInv, ModeOK, NoDeploys
<1>8. AllKept'
  <2> SUFFICES ASSUME starts = 0, NEW d \in accepted
               PROVE  Coming(d)' \/ Held(d)' \/ Expired(d, clock')
    BY <1>1 DEF AllKept
  <2>1. Coming(d) \/ Held(d) \/ Expired(d, clock)
    BY DEF PInv, AllKept
  <2>2. Coming(d) => Coming(d)'
    <3>1. CASE DeployEvent(d) = event
      <4>1. Len(postponed) + 1 \in 1 .. Len(postponed')
        BY <1>3
      <4> QED
        BY <1>3, <3>1, <4>1 DEF Coming, DeployEvent
    <3>2. CASE DeployEvent(d) \in inbox /\ DeployEvent(d) # event
      BY <1>1, <3>2 DEF Coming, DeployEvent
    <3>3. CASE \E i \in 1 .. Len(postponed) : postponed[i] = DeployEvent(d)
      <4>1. PICK i \in 1 .. Len(postponed) : postponed[i] = DeployEvent(d)
        BY <3>3
      <4>2. i \in 1 .. Len(postponed') /\ postponed'[i] = DeployEvent(d)
        BY <1>3, <4>1
      <4> QED
        BY <4>2 DEF Coming, DeployEvent
    <3> QED
      BY <3>1, <3>2, <3>3 DEF Coming
  <2>3. Held(d) => Held(d)'
    BY <1>1 DEF Held
  <2> QED
    BY <1>1, <2>1, <2>2, <2>3
<1> QED
  BY <1>4, <1>5, <1>6, <1>7, <1>8 DEF PInv

\* An event is handled.
LEMMA ReceiveKeeps ==
    ASSUME ProposerConstants, PInv, NEW event \in inbox, Receive(event) PROVE PInv'
<1>1. /\ proposerMode = "ready"
      /\ inbox' = inbox \ {event}
      /\ Handle(event)
      /\ UNCHANGED <<clock, lastFinalized, nextHeight, storedHeight, accepted, requested, starts>>
      /\ UNCHANGED <<proposerMode, postponed>>
  BY DEF Receive, aroundVars
<1>2. event \in Events /\ EventOK(event) /\ Followed /\ SetsOK /\ clock \in Times
  BY <1>1 DEF PInv, EventsOK, ModeOK, AroundOK
<1>3. /\ SetsOK' /\ Followed'
      /\ \A d \in Deploys : Held(d) \/ event = DeployEvent(d) => Held(d)'
  BY <1>1, <1>2, Handled
<1>4. AroundOK'
  BY <1>1 DEF PInv, AroundOK
<1>5. EventsOK'
  BY <1>1 DEF PInv, EventsOK, EventOK, RequestOK
<1>6. ModeOK'
  BY <1>1, <1>3 DEF ModeOK
<1>7. AllKept'
  <2> SUFFICES ASSUME starts = 0, NEW d \in accepted
               PROVE  Coming(d)' \/ Held(d)' \/ Expired(d, clock')
    BY <1>1 DEF AllKept
  <2>1. d \in Deploys /\ (Coming(d) \/ Held(d) \/ Expired(d, clock))
    BY DEF PInv, AroundOK, AllKept
  <2>2. Coming(d) => Coming(d)' \/ event = DeployEvent(d)
    BY <1>1 DEF Coming, DeployEvent
  <2> QED
    BY <1>1, <1>3, <2>1, <2>2
<1> QED
  BY <1>3, <1>4, <1>5, <1>6, <1>7 DEF PInv

\* A postponed event is handled.
LEMMA ReplayKeeps == ASSUME ProposerConstants, PInv, Replay PROVE PInv'
<1> DEFINE event == Head(postponed)
<1>1. /\ proposerMode = "replaying"
      /\ Handle(event)
      /\ postponed' = Tail(postponed)
      /\ proposerMode' = IF postponed' = <<>> THEN "ready" ELSE "replaying"
      /\ UNCHANGED <<clock, lastFinalized, nextHeight, storedHeight, accepted, requested, starts>>
      /\ inbox' = inbox
  BY DEF Replay, aroundVars
<1>2. postponed \in Seq(Events) /\ postponed # <<>>
  BY <1>1 DEF PInv, EventsOK, ModeOK
<1>3. /\ event = postponed[1] /\ event \in Events
      /\ Len(postponed) \in Nat /\ 1 \in 1 .. Len(postponed)
      /\ postponed' \in Seq(Events)
      /\ Len(postponed') = Len(postponed) - 1
      /\ \A i \in 1 .. Len(postponed') : postponed'[i] = postponed[i + 1]
  BY <1>1, <1>2, HeadTailProperties, LenProperties, EmptySeq
<1> HIDE DEF event
<1>4. EventOK(event) /\ Followed /\ SetsOK /\ clock \in Times
  BY <1>1, <1>3 DEF PInv, EventsOK, ModeOK, AroundOK
<1>5. /\ SetsOK' /\ Followed'
      /\ \A d \in Deploys : Held(d) \/ event = DeployEvent(d) => Held(d)'
  BY <1>1, <1>3, <1>4, Handled
<1>6. AroundOK'
  BY <1>1 DEF PInv, AroundOK
<1>7. EventsOK'
  <2>1. \A i \in 1 .. Len(postponed') : i + 1 \in 1 .. Len(postponed)
    BY <1>3
  <2>2. \A i \in 1 .. Len(postponed') : EventOK(postponed[i + 1])
    BY <2>1 DEF PInv, EventsOK
  <2>3. (\A i \in 1 .. Len(postponed) : EventOK(postponed[i]))'
    BY <1>1, <1>3, <2>2 DEF EventOK, RequestOK
  <2>4. (\A e \in inbox : EventOK(e))'
    BY <1>1 DEF PInv, EventsOK, EventOK, RequestOK
  <2> QED
    BY <1>1, <1>3, <2>3, <2>4 DEF PInv, EventsOK
<1>8. ModeOK'
  BY <1>1, <1>5 DEF ModeOK
<1>9. AllKept'
  <2> SUFFICES ASSUME starts = 0, NEW d \in accepted
               PROVE  Coming(d)' \/ Held(d)' \/ Expired(d, clock')
    BY <1>1 DEF AllKept
  <2>1. d \in Deploys /\ (Coming(d) \/ Held(d) \/ Expired(d, clock))
    BY DEF PInv, AroundOK, AllKept
  <2>2. Coming(d) => Coming(d)' \/ event = DeployEvent(d)
    <3>1. CASE DeployEvent(d) \in inbox
      BY <1>1, <3>1 DEF Coming, DeployEvent
    <3>2. CASE \E i \in 1 .. Len(postponed) : postponed[i] = DeployEvent(d)
      <4>1. PICK i \in 1 .. Len(postponed) : postponed[i] = DeployEvent(d)
        BY <3>2
      <4>2. CASE i = 1
        BY <1>3, <4>1, <4>2
      <4>3. CASE i # 1
        <5>1. i - 1 \in 1 .. Len(postponed') /\ i - 1 + 1 = i
          BY <1>3, <4>1, <4>3
        <5>2. postponed'[i - 1] = DeployEvent(d)
          BY <1>3, <4>1, <5>1
        <5> QED
          BY <5>1, <5>2 DEF Coming, DeployEvent
      <4> QED
        BY <4>2, <4>3
    <3> QED
      BY <3>1, <3>2 DEF Coming
  <2> QED
    BY <1>1, <1>5, <2>1, <2>2
<1> QED
  BY <1>5, <1>6, <1>7, <1>8, <1>9 DEF PInv

\* Nothing happens.
LEMMA StutterKeeps == ASSUME PInv, UNCHANGED proposerVars PROVE PInv'
<1>1. /\ UNCHANGED <<clock, lastFinalized, nextHeight, storedHeight, accepted, requested, starts>>
      /\ UNCHANGED <<inbox, proposerMode, postponed, nextFinalized, finalizationQueue, pending>>
      /\ UNCHANGED <<finalizedExpiry, requestQueue, cache, answers>>
  BY DEF proposerVars
<1>2. AroundOK' /\ EventsOK'
  BY <1>1 DEF PInv, AroundOK, EventsOK, EventOK, RequestOK
<1>3. SetsOK'
  BY <1>1 DEF PInv, SetsOK, NothingOverdue, NoReplay, RequestOK
<1>4. ModeOK'
  BY <1>1 DEF PInv, ModeOK, Followed, FollowedTo, NoDeploys
<1>5. AllKept'
  BY <1>1 DEF PInv, AllKept, Coming, DeployEvent, Held
<1> QED
  BY <1>2, <1>3, <1>4, <1>5 DEF PInv

\* Every step.
LEMMA NextPInv == ASSUME ProposerConstants, PInv, [ProposerNext]_proposerVars PROVE PInv'
<1>1. CASE Loaded
  BY <1>1, LoadedKeeps
<1>2. CASE Replay
  BY <1>2, ReplayKeeps
<1>3. CASE \E event \in inbox : Postpone(event) \/ Receive(event)
  BY <1>3, PostponeKeeps, ReceiveKeeps
<1>4. CASE Prune
  BY <1>4, PruneKeeps
<1>5. CASE Tick
  BY <1>5, TickKeeps
<1>6. CASE FinalizeBlock
  BY <1>6, FinalizeKeeps
<1>7. CASE BlockStored
  BY <1>7, BlockStoredKeeps
<1>8. CASE \E d \in Deploys : DeployAccepted(d)
  BY <1>8, DeployAcceptedKeeps
<1>9. CASE \E parent \in 0 .. Len(Payload) : RequestPayload(parent)
  BY <1>9, RequestPayloadKeeps
<1>10. CASE RestartNode
  BY <1>10, RestartKeeps
<1>11. CASE UNCHANGED proposerVars
  BY <1>11, StutterKeeps
<1> QED
  BY <1>1, <1>2, <1>3, <1>4, <1>5, <1>6, <1>7, <1>8, <1>9, <1>10, <1>11
  DEF ProposerNext, EventHandled

\* The invariant holds for ever.
LEMMA ProposerInvariance == ProposerSpec => []PInv
<1>0. ProposerConstants
  BY DeployAssumption, ChainAssumption, NumbersAssumption DEF ProposerConstants
<1>1. ProposerInit => PInv
  BY <1>0, InitPInv
<1>2. PInv /\ [ProposerNext]_proposerVars => PInv'
  BY <1>0, NextPInv
<1> QED
  BY <1>1, <1>2, PTL DEF ProposerSpec

\* A payload that is proposed strictly before the expiry instant of a deploy does
\* not repeat this deploy, if the chain it is proposed for has it already, in this
\* era or an earlier one (propose_block_payload, handle_finalized_block, add_deploy).
THEOREM PayloadsDoNotReplay == ProposerSpec => []NoReplay
<1>1. ProposerSpec => []PInv
  BY ProposerInvariance
<1>2. PInv => NoReplay
  BY DEF PInv, SetsOK
<1> QED
  BY <1>1, <1>2, PTL

\* An accepted deploy is not lost while the node runs, and nothing in the sets
\* or the queues is overdue.
THEOREM ProposerKeepsDeploys == ProposerSpec => []DeploysAreKept
<1>1. ProposerSpec => []PInv
  BY ProposerInvariance
<1>2. PInv => DeploysAreKept
  <2> SUFFICES ASSUME PInv PROVE DeploysAreKept
    OBVIOUS
  <2>1. \A i \in 1 .. Len(postponed) : postponed[i] \in Events
    BY ElementOfSeq DEF PInv, EventsOK
  <2>2. ProposerTypeOK
    BY <2>1 DEF PInv, AroundOK, EventsOK, ModeOK, SetsOK, ProposerTypeOK
  <2>3. NothingOverdue
    BY DEF PInv, SetsOK
  <2>4. starts = 0 =>
           \A d \in accepted :
               \/ [kind |-> "deploy", deploy |-> d] \in inbox
               \/ \E i \in 1 .. Len(postponed) : postponed[i] = [kind |-> "deploy", deploy |-> d]
               \/ pending[d] # Absent
               \/ finalizedExpiry[d] # Absent
               \/ Expired(d, clock)
    BY DEF PInv, AllKept, Coming, Held, DeployEvent
  <2> QED
    BY <2>2, <2>3, <2>4 DEF DeploysAreKept
<1> QED
  BY <1>1, <1>2, PTL
=============================================================================
