-------------------------- MODULE SchedulerProofs --------------------------
(***************************************************************************)
(* What the cascading filter and the choice among its candidates promise,  *)
(* for every worker count up to the build's four, every value of the       *)
(* counters and every range of the hash: the run of DispatchCheck covers a *)
(* few values of each, and hashes of a few bits.                           *)
(***************************************************************************)
EXTENDS DispatchCheck, FiniteSetTheorems, TLAPS

One(C, i) == IF i \in C THEN 1 ELSE 0

\* Clearing a bit lowers the count by that bit.
LEMMA ClearBit ==
    ASSUME NEW S, IsFiniteSet(S), NEW i
    PROVE  /\ IsFiniteSet(S \ {i}) /\ Cardinality(S \ {i}) \in Nat
           /\ Cardinality(S) = Cardinality(S \ {i}) + One(S, i)
  <1>1. IsFiniteSet(S \ {i}) /\ Cardinality(S) \in Nat /\ Cardinality(S \ {i}) \in Nat
    BY FS_RemoveElement, FS_CardinalityType
  <1>2. Cardinality(S \ {i}) = IF i \in S THEN Cardinality(S) - 1 ELSE Cardinality(S)
    BY FS_RemoveElement
  <1> QED
    BY <1>1, <1>2 DEF One

\* A set of workers is counted bit by bit.
LEMMA CountBits ==
    ASSUME NEW C \in SUBSET (0 .. 3)
    PROVE  Cardinality(C) = One(C, 0) + One(C, 1) + One(C, 2) + One(C, 3)
  <1> DEFINE C1 == C \ {0}
             C2 == C1 \ {1}
             C3 == C2 \ {2}
             C4 == C3 \ {3}
  <1>0. IsFiniteSet(C)
    <2>1. IsFiniteSet(0 .. 3)
      BY FS_Interval, 0 \in Int, 3 \in Int
    <2> QED
      BY <2>1, FS_Subset
  <1>1. One(C1, 1) = One(C, 1) /\ One(C2, 2) = One(C, 2) /\ One(C3, 3) = One(C, 3)
    BY DEF One
  <1>2. Cardinality(C4) = 0
    <2>1. C4 = {}
      OBVIOUS
    <2> QED
      BY <2>1, FS_EmptySet
  <1> HIDE DEF C4
  <1>3. IsFiniteSet(C1) /\ Cardinality(C1) \in Nat /\ Cardinality(C) = Cardinality(C1) + One(C, 0)
    BY <1>0, ClearBit
  <1> HIDE DEF C1
  <1>4. IsFiniteSet(C2) /\ Cardinality(C2) \in Nat /\ Cardinality(C1) = Cardinality(C2) + One(C1, 1)
    BY <1>3, ClearBit
  <1> HIDE DEF C2
  <1>5. IsFiniteSet(C3) /\ Cardinality(C2) = Cardinality(C3) + One(C2, 2)
    BY <1>4, ClearBit
  <1> HIDE DEF C3
  <1>6. Cardinality(C3) = Cardinality(C4) + One(C3, 3)
    BY <1>5, ClearBit DEF C4
  <1> QED
    BY <1>1, <1>2, <1>3, <1>4, <1>5, <1>6 DEF One

\* The build has four workers at most.
LEMMA WorkersBits == Workers \subseteq 0 .. 3
  BY NumWorkersAssumption DEF Workers

\* filter_below_baseline keeps a candidate within one of every other: its metric
\* is less than the average plus the offset.
LEMMA FilterKeepsNearMinimum ==
    ASSUME NEW C \in SUBSET Workers, NEW m \in [Workers -> Nat], NEW i \in C,
           \A j \in C : m[i] <= m[j] + 1
    PROVE  i \in FilterBelowBaseline(C, m)
  <1> DEFINE n == Cardinality(C)
             sum == Total(C, m)
  <1>1. n = One(C, 0) + One(C, 1) + One(C, 2) + One(C, 3)
    BY CountBits, WorkersBits
  <1>2. \A j \in Workers : m[j] \in Nat
    OBVIOUS
  <1>3. i \in 0 .. 3 /\ m[i] \in Nat
    BY WorkersBits
  <1>4. \A j \in 0 .. 3 : Metric(C, m, j) \in Nat /\ Metric(C, m, j) >= One(C, j) * (m[i] - 1)
    BY <1>2, <1>3 DEF Metric, One
  <1>5. Metric(C, m, i) = m[i] /\ One(C, i) = 1
    BY DEF Metric, One
  <1>6. sum \in Nat /\ sum >= n * (m[i] - 1) + 1
    <2>1. n \in 0 .. 4
      BY <1>1 DEF One
    <2> QED
      BY <1>1, <1>3, <1>4, <1>5 DEF Total, One
  <1> QED
    BY <1>1, <1>3, <1>6 DEF FilterBelowBaseline, Theta, One

\* filter_below_baseline never prefers the more loaded of two candidates.
LEMMA FilterIsMonotone ==
    ASSUME NEW C \in SUBSET Workers, NEW m \in [Workers -> Nat],
           NEW i \in FilterBelowBaseline(C, m), NEW j \in C, m[j] <= m[i]
    PROVE  j \in FilterBelowBaseline(C, m)
  <1> DEFINE n == Cardinality(C)
             bound == 2 * Total(C, m) + Theta(Total(C, m), n)
  <1>1. n \in 0 .. 4
    BY CountBits, WorkersBits DEF One
  <1>2. \A k \in 0 .. 3 : Metric(C, m, k) \in Nat
    BY DEF Metric
  <1>3. bound \in Int
    BY <1>1, <1>2 DEF Total, Theta
  <1>4. i \in C /\ 2 * n * m[i] < bound
    BY DEF FilterBelowBaseline
  <1>5. m[i] \in Nat /\ m[j] \in Nat
    BY <1>4
  <1>6. 2 * n * m[j] <= 2 * n * m[i]
    BY <1>1, <1>5
  <1>7. 2 * n * m[j] < bound
    <2> HIDE DEF n, bound
    <2> QED
      BY <1>1, <1>3, <1>4, <1>5, <1>6
  <1> QED
    BY <1>7 DEF FilterBelowBaseline

\* The result of a pass is Algorithm 1 on the table it was given.
PassOK == /\ conns \in [Workers -> Nat] /\ pending \in [Workers -> Nat]
          /\ \/ result = NoResult
             \/ /\ result.after1 \in SUBSET Workers /\ result.after2 \in SUBSET Workers
                /\ result.after2 = FilterBelowBaseline(result.after1, conns)
                /\ result.bitmap = FilterBelowBaseline(result.after2, pending)

\* Every pass is one evaluation of Algorithm 1.
LEMMA PassInvariant == Spec => []PassOK
  <1>1. Init => PassOK
    BY TablesAssumption DEF Init, PassOK
  <1>2. PassOK /\ [Next]_vars => PassOK'
    <2> SUFFICES ASSUME PassOK, [Next]_vars PROVE PassOK'
      OBVIOUS
    <2>1. CASE SchedulePass
      <3> DEFINE r == ScheduleFromSnapshots(Now, lle, pending, conns)
      <3>1. /\ r.after1 = DropHung(Now, lle)
            /\ r.after2 = FilterBelowBaseline(r.after1, conns)
            /\ r.bitmap = FilterBelowBaseline(r.after2, pending)
        BY DEF ScheduleFromSnapshots
      <3>2. r.after1 \in SUBSET Workers /\ r.after2 \in SUBSET Workers
        BY <3>1 DEF DropHung, FilterBelowBaseline
      <3>3. result' = r /\ UNCHANGED <<conns, pending>>
        BY <2>1 DEF SchedulePass
      <3> HIDE DEF r
      <3> QED
        BY <3>1, <3>2, <3>3 DEF PassOK
    <2>2. CASE Select
      BY <2>2 DEF Select, PassOK, ZeroTable
    <2>3. CASE UNCHANGED vars
      BY <2>3 DEF PassOK, vars
    <2> QED
      BY <2>1, <2>2, <2>3 DEF Next
  <1> QED
    BY <1>1, <1>2, PTL DEF Spec
-----------------------------------------------------------------------------
\* Every stage of a pass keeps everybody within one of its least loaded
\* candidate, so a pass that sees a live worker never publishes an empty bitmap
\* (schedule_from_snapshots).
THEOREM MinimumSurvives == Spec => []NearMinimumKept
  <1>1. PassOK => NearMinimumKept
    BY FilterKeepsNearMinimum DEF PassOK, Passed, NearMinimumKept
  <1> QED
    BY <1>1, PassInvariant, PTL

\* A live worker that is no more loaded than a survivor of the cascade survives
\* it, although the two stages average over different candidates.
THEOREM CascadeIsMonotone == Spec => []LessLoadedSurvives
  <1>1. PassOK => LessLoadedSurvives
    <2> SUFFICES ASSUME PassOK, Passed,
                        NEW i \in result.bitmap, NEW j \in result.after1,
                        conns[j] <= conns[i], pending[j] <= pending[i]
                 PROVE  j \in result.bitmap
      BY DEF LessLoadedSurvives
    <2>1. i \in result.after2
      BY DEF PassOK, Passed, FilterBelowBaseline
    <2>2. j \in result.after2
      BY <2>1, FilterIsMonotone DEF PassOK, Passed
    <2> QED
      BY <2>2, FilterIsMonotone DEF PassOK, Passed
  <1> QED
    BY <1>1, PassInvariant, PTL

\* With four workers alive, at least two pass the connection filter: three
\* workers cannot each hold three eighths of all connections.
THEOREM ChoiceRemains == Spec => []ConnFilterLeavesTwo
  <1>1. PassOK => ConnFilterLeavesTwo
    <2> SUFFICES ASSUME PassOK, Passed, Cardinality(result.after1) = 4
                 PROVE  Cardinality(result.after2) >= 2
      BY DEF ConnFilterLeavesTwo
    <2> DEFINE A == result.after1
               B == result.after2
    <2>1. A \in SUBSET (0 .. 3) /\ B \in SUBSET (0 .. 3)
          /\ A \subseteq Workers /\ B = FilterBelowBaseline(A, conns)
      BY WorkersBits DEF PassOK, Passed
    <2>2. 0 \in A /\ 1 \in A /\ 2 \in A /\ 3 \in A
      BY <2>1, CountBits DEF One
    <2>3. conns[0] \in Nat /\ conns[1] \in Nat /\ conns[2] \in Nat /\ conns[3] \in Nat
      BY <2>1, <2>2 DEF PassOK
    <2> DEFINE sum == conns[0] + conns[1] + conns[2] + conns[3]
    <2>4. Total(A, conns) = sum
      BY <2>2 DEF Total, Metric
    <2>5. \A k \in A : k \in B <=> 2 * 4 * conns[k] < 2 * sum + Theta(sum, 4)
      BY <2>1, <2>4 DEF FilterBelowBaseline
    <2>6. Cardinality(B) = One(B, 0) + One(B, 1) + One(B, 2) + One(B, 3)
      BY <2>1, CountBits
    <2> HIDE DEF A, B
    <2>7. Cardinality(B) >= 2
      BY <2>2, <2>3, <2>5, <2>6 DEF One, Theta
    <2> QED
      BY <2>7 DEF B
  <1> QED
    BY <1>1, PassInvariant, PTL
-----------------------------------------------------------------------------
(***************************************************************************)
(* Algorithm 2.                                                            *)
(***************************************************************************)

\* A scaled hash is the index of one of n workers.
LEMMA ScaleInRange ==
    ASSUME NEW h \in Hash, NEW n \in 1 .. 4
    PROVE  ReciprocalScale(h, n) \in 0 .. n - 1
  <1>1. HashRange \in Nat /\ HashRange > 0 /\ h \in Nat /\ h < HashRange
    BY HashRangeAssumption DEF Hash
  <1> DEFINE m == h * n
  <1>2. m \in Nat /\ m < HashRange * n
    BY <1>1
  <1> HIDE DEF m
  <1>3. m \div HashRange \in Int /\ m \div HashRange >= 0
    BY <1>1, <1>2
  <1>4. m \div HashRange < n
    BY <1>1, <1>2
  <1> QED
    BY <1>3, <1>4 DEF ReciprocalScale, m

\* The set bits below a position, counted bit by bit.
LEMMA RankBits ==
    ASSUME NEW C \in SUBSET (0 .. 3)
    PROVE  /\ Rank(C, 0) = 0
           /\ Rank(C, 1) = One(C, 0)
           /\ Rank(C, 2) = One(C, 0) + One(C, 1)
           /\ Rank(C, 3) = One(C, 0) + One(C, 1) + One(C, 2)
  <1> DEFINE Below(i) == {j \in C : j < i}
  <1>1. ASSUME NEW i \in 0 .. 3
        PROVE  Rank(C, i) = One(Below(i), 0) + One(Below(i), 1)
                              + One(Below(i), 2) + One(Below(i), 3)
    BY CountBits DEF Rank
  <1>2. ASSUME NEW i \in 0 .. 3, NEW k \in 0 .. 3
        PROVE  One(Below(i), k) = IF k < i THEN One(C, k) ELSE 0
    BY DEF One
  <1> HIDE DEF Below
  <1>3. \A k \in 0 .. 3 : One(C, k) \in Nat
    BY DEF One
  <1> QED
    BY <1>1, <1>2, <1>3

\* The scan's count numbers the set bits 0, 1, ..., each number once.
LEMMA RankNumbers ==
    ASSUME NEW C \in SUBSET (0 .. 3)
    PROVE  /\ Cardinality(C) \in 0 .. 4
           /\ \A i \in C : Rank(C, i) \in 0 .. Cardinality(C) - 1
           /\ \A i, j \in C : Rank(C, i) = Rank(C, j) => i = j
           /\ \A nth \in 0 .. Cardinality(C) - 1 : \E i \in C : Rank(C, i) = nth
  <1>1. Cardinality(C) = One(C, 0) + One(C, 1) + One(C, 2) + One(C, 3)
    BY CountBits
  <1>2. /\ Rank(C, 0) = 0 /\ Rank(C, 1) = One(C, 0) /\ Rank(C, 2) = One(C, 0) + One(C, 1)
        /\ Rank(C, 3) = One(C, 0) + One(C, 1) + One(C, 2)
    BY RankBits
  <1>3. \A i \in C : i = 0 \/ i = 1 \/ i = 2 \/ i = 3
    OBVIOUS
  <1>4. Cardinality(C) \in 0 .. 4
    BY <1>1 DEF One
  <1>5. \A i \in C : Rank(C, i) \in 0 .. Cardinality(C) - 1
    BY <1>1, <1>2, <1>3 DEF One
  <1>6. \A i, j \in C : Rank(C, i) = Rank(C, j) => i = j
    BY <1>2, <1>3 DEF One
  <1>7. ASSUME NEW nth \in 0 .. Cardinality(C) - 1 PROVE \E i \in C : Rank(C, i) = nth
    BY <1>1, <1>2 DEF One
  <1> QED
    BY <1>4, <1>5, <1>6, <1>7

\* With a choice, try_select returns the candidate whose number the scaled hash
\* is.
LEMMA TrySelectIs ==
    ASSUME NEW C \in SUBSET Workers, Cardinality(C) >= 2, NEW h \in Hash
    PROVE  /\ TrySelect(C, h) \in C
           /\ Rank(C, TrySelect(C, h)) = ReciprocalScale(h, Cardinality(C))
  <1> DEFINE n == Cardinality(C)
             k == ReciprocalScale(h, n)
  <1>1. C \in SUBSET (0 .. 3) /\ C \cap Workers = C
    BY WorkersBits
  <1>2. n \in 2 .. 4 /\ ~(n <= 1)
    BY <1>1, RankNumbers
  <1>3. k \in 0 .. n - 1
    BY <1>2, ScaleInRange
  <1>4. \E i \in C : Rank(C, i) = k
    BY <1>1, <1>3, RankNumbers
  <1>5. NthSetBits(C, k) # {} /\ \A i \in NthSetBits(C, k) : i \in C /\ Rank(C, i) = k
    BY <1>1, <1>4 DEF NthSetBits
  <1>6. TrySelect(C, h) = CHOOSE i \in NthSetBits(C, k) : TRUE
    BY <1>2, <1>5 DEF TrySelect, FindNthSetBit
  <1> HIDE DEF k
  <1>8. TrySelect(C, h) \in NthSetBits(C, k)
    BY <1>5, <1>6
  <1> QED
    BY <1>5, <1>6, <1>8 DEF k

\* The decision is try_select on the bitmap that was published.
DecisionOK ==
    /\ bitmap = Unpublished \/ bitmap \in SUBSET Workers
    /\ selected # Pending => /\ bitmap \in SUBSET Workers /\ hash \in Hash
                             /\ selected = TrySelect(bitmap, hash)

\* Every decision is one evaluation of Algorithm 2.
LEMMA DecisionInvariant == Spec => []DecisionOK
  <1>1. Init => DecisionOK
    BY DEF Init, DecisionOK
  <1>2. DecisionOK /\ [Next]_vars => DecisionOK'
    <2> SUFFICES ASSUME DecisionOK, [Next]_vars PROVE DecisionOK'
      OBVIOUS
    <2>1. CASE SchedulePass
      <3>1. bitmap' \in SUBSET Workers
        BY <2>1 DEF SchedulePass, ScheduleFromSnapshots, FilterBelowBaseline, DropHung
      <3>2. selected = Pending
        <4>1. -1 \notin Workers
          BY NumWorkersAssumption DEF Workers
        <4> QED
          BY <2>1, <4>1 DEF SchedulePass, DecisionOK, Unpublished
      <3> QED
        BY <2>1, <3>1, <3>2 DEF SchedulePass, DecisionOK
    <2>2. CASE Select
      BY <2>2 DEF Select, DecisionOK
    <2>3. CASE UNCHANGED vars
      BY <2>3 DEF DecisionOK, vars
    <2> QED
      BY <2>1, <2>2, <2>3 DEF Next
  <1> QED
    BY <1>1, <1>2, PTL DEF Spec

\* Two candidates or more, and try_select returns one of them; fewer, and it
\* leaves the choice to the kernel.
THEOREM SelectionIsCandidate == Spec => []SelectsCandidate
  <1>1. DecisionOK => SelectsCandidate
    <2> SUFFICES ASSUME DecisionOK, selected # Pending
                 PROVE  IF Cardinality(bitmap) <= 1 THEN selected = NoWorker
                                                    ELSE selected \in bitmap
      BY DEF SelectsCandidate
    <2>1. bitmap \in SUBSET Workers /\ hash \in Hash /\ selected = TrySelect(bitmap, hash)
      BY DEF DecisionOK
    <2>2. Cardinality(bitmap) \in 0 .. 4
      BY <2>1, WorkersBits, RankNumbers
    <2>3. CASE Cardinality(bitmap) <= 1
      BY <2>1, <2>3 DEF TrySelect
    <2>4. CASE Cardinality(bitmap) >= 2
      BY <2>1, <2>2, <2>4, TrySelectIs
    <2> QED
      BY <2>2, <2>3, <2>4
  <1> QED
    BY <1>1, DecisionInvariant, PTL
-----------------------------------------------------------------------------
(***************************************************************************)
(* Shares of the hash space.                                               *)
(***************************************************************************)

\* The first hash that is scaled to k: k * HashRange / n, rounded up.
First(n, k) == (k * HashRange + n - 1) \div n

\* First rounds up, starts at 0, ends with the range and grows by a n-th of the
\* range, rounded up or down.
LEMMA FirstBounds ==
    ASSUME NEW n \in 2 .. 4, NEW k \in 0 .. n - 1
    PROVE  /\ First(n, k) \in Nat /\ First(n, k + 1) \in Nat /\ First(n, k + 1) <= HashRange
           /\ First(n, k) + (HashRange \div n) <= First(n, k + 1)
           /\ First(n, k + 1) <= First(n, k) + (HashRange \div n) + 1
           /\ \A h \in Nat : /\ k * HashRange <= h * n <=> First(n, k) <= h
                             /\ h * n < (k + 1) * HashRange <=> h < First(n, k + 1)
  <1>0. HashRange \in Nat /\ HashRange > 0
    BY HashRangeAssumption
  <1>1. CASE n = 2
    <2>1. k = 0 \/ k = 1
      BY <1>1
    <2> QED
      BY <1>0, <1>1, <2>1 DEF First
  <1>2. CASE n = 3
    <2>1. k = 0 \/ k = 1 \/ k = 2
      BY <1>2
    <2> QED
      BY <1>0, <1>2, <2>1 DEF First
  <1>3. CASE n = 4
    <2>1. k = 0 \/ k = 1 \/ k = 2 \/ k = 3
      BY <1>3
    <2> QED
      BY <1>0, <1>3, <2>1 DEF First
  <1> QED
    BY <1>1, <1>2, <1>3

\* The hashes scaled to k are an interval, a n-th of the range long, rounded up
\* or down.
LEMMA ShareSize ==
    ASSUME NEW n \in 2 .. 4, NEW k \in 0 .. n - 1
    PROVE  Cardinality({h \in Hash : ReciprocalScale(h, n) = k})
             \in (HashRange \div n) .. ((HashRange \div n) + 1)
  <1> DEFINE a == First(n, k)
             b == First(n, k + 1)
             d == HashRange \div n
  <1>0. HashRange \in Nat /\ HashRange > 0
    BY HashRangeAssumption
  <1>1. /\ a \in Nat /\ b \in Nat /\ b <= HashRange /\ a + d <= b /\ b <= a + d + 1
        /\ \A h \in Nat : /\ k * HashRange <= h * n <=> a <= h
                          /\ h * n < (k + 1) * HashRange <=> h < b
    BY FirstBounds
  <1>2. d \in Nat
    BY <1>0
  <1>3. ASSUME NEW h \in Hash
        PROVE  ReciprocalScale(h, n) = k <=> k * HashRange <= h * n /\ h * n < (k + 1) * HashRange
    <2> DEFINE m == h * n
               q == m \div HashRange
    <2>1. h \in Nat /\ m \in Nat
      BY <1>0, <1>3 DEF Hash
    <2>2. q \in 0 .. n - 1
      BY ScaleInRange DEF ReciprocalScale
    <2> HIDE DEF m
    <2>3. HashRange * q <= m /\ m < HashRange * (q + 1)
      BY <1>0, <2>1
    <2> HIDE DEF q
    <2>4. q = k <=> k * HashRange <= m /\ m < (k + 1) * HashRange
      <3>1. q \in {0, 1, 2, 3} /\ k \in {0, 1, 2, 3}
        BY <2>2
      <3> QED
        BY <1>0, <2>1, <2>3, <3>1
    <2> QED
      BY <2>4 DEF m, q, ReciprocalScale
  <1> HIDE DEF a, b, d
  <1>4. {h \in Hash : ReciprocalScale(h, n) = k} = a .. b - 1
    <2>1. \A h \in Hash : h \in Nat
      BY <1>0 DEF Hash
    <2>2. ASSUME NEW h \in Hash PROVE ReciprocalScale(h, n) = k <=> a <= h /\ h < b
      <3>1. k * HashRange <= h * n <=> a <= h
        BY <1>1, <2>1, Zenon
      <3>2. h * n < (k + 1) * HashRange <=> h < b
        BY <1>1, <2>1, Zenon
      <3> QED
        BY <1>3, <3>1, <3>2, Zenon
    <2>3. \A h \in a .. b - 1 : h \in Hash /\ a <= h /\ h < b
      BY <1>0, <1>1 DEF Hash
    <2>4. \A h \in Nat : a <= h /\ h < b => h \in a .. b - 1
      BY <1>1
    <2> QED
      BY <2>1, <2>2, <2>3, <2>4
  <1>5. Cardinality(a .. b - 1) = b - a
    <2>1. a \in Int /\ b - 1 \in Int /\ (IF a > b - 1 THEN 0 ELSE (b - 1) - a + 1) = b - a
      BY <1>1, <1>2
    <2> QED
      BY <2>1, FS_Interval
  <1>6. b - a \in d .. d + 1
    BY <1>1, <1>2
  <1> QED
    BY <1>4, <1>5, <1>6 DEF d

\* Every candidate owns the same share of the hash space up to one hash, for every
\* range of the hash, the real one of 2^32 included.
THEOREM SharesAreEven == Spec => []EvenShares
  <1>1. DecisionOK => EvenShares
    <2> SUFFICES ASSUME DecisionOK, selected \in Workers, NEW i \in bitmap, NEW j \in bitmap
                 PROVE  Cardinality({h \in Hash : TrySelect(bitmap, h) = i})
                          <= Cardinality({h \in Hash : TrySelect(bitmap, h) = j}) + 1
      BY DEF EvenShares
    <2> DEFINE n == Cardinality(bitmap)
               Share(w) == Cardinality({h \in Hash : TrySelect(bitmap, h) = w})
    <2>1. Pending \notin Workers /\ NoWorker \notin Workers
      BY NumWorkersAssumption DEF Pending, NoWorker, Workers
    <2>2. /\ bitmap \in SUBSET Workers /\ bitmap \in SUBSET (0 .. 3)
          /\ selected = TrySelect(bitmap, hash)
      BY <2>1, WorkersBits DEF DecisionOK
    <2>3. n \in 2 .. 4
      <3>1. n \in 0 .. 4
        BY <2>2, RankNumbers
      <3>2. ~(n <= 1)
        BY <2>1, <2>2 DEF TrySelect
      <3> QED
        BY <3>1, <3>2
    <2>4. ASSUME NEW w \in bitmap PROVE Share(w) \in (HashRange \div n) .. ((HashRange \div n) + 1)
      <3>1. Rank(bitmap, w) \in 0 .. n - 1
        BY <2>2, RankNumbers
      <3>2. ASSUME NEW h \in Hash
            PROVE  TrySelect(bitmap, h) = w <=> ReciprocalScale(h, n) = Rank(bitmap, w)
        <4>1. TrySelect(bitmap, h) \in bitmap
              /\ Rank(bitmap, TrySelect(bitmap, h)) = ReciprocalScale(h, n)
          BY <2>2, <2>3, TrySelectIs
        <4>2. \A v \in bitmap : Rank(bitmap, v) = Rank(bitmap, w) => v = w
          BY <2>2, RankNumbers
        <4> QED
          BY <4>1, <4>2
      <3>3. {h \in Hash : TrySelect(bitmap, h) = w}
              = {h \in Hash : ReciprocalScale(h, n) = Rank(bitmap, w)}
        BY <3>2
      <3> QED
        BY <2>3, <3>1, <3>3, ShareSize
    <2> DEFINE d == HashRange \div n
    <2>5. d \in Nat
      BY <2>3, HashRangeAssumption
    <2>6. Share(i) \in d .. d + 1 /\ Share(j) \in d .. d + 1
      BY <2>4
    <2> HIDE DEF d, Share
    <2>7. Share(i) <= Share(j) + 1
      BY <2>5, <2>6
    <2> QED
      BY <2>7 DEF Share
  <1> QED
    BY <1>1, DecisionInvariant, PTL

=============================================================================
