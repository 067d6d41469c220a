------------------------- MODULE AgentSysPerf_proofs -------------------------
(***************************************************************************)
(* Theorems about AgentSysPerf, for any sweep plans, measurements, results *)
(* and thresholds: what the percentiles, the saturation point, the         *)
(* recommended level, the SLO verdict and the merge are, by definition.    *)
(***************************************************************************)
EXTENDS AgentSysPerf, Orders_proofs, SequenceTheorems

Point == [level : Int, throughput : Int, p95 : Int \cup {None}, p99 : Int \cup {None},
          slo : BOOLEAN]

-----------------------------------------------------------------------------
(* Percentiles. *)

LEMMA ProductGrows ==
  ASSUME NEW a \in Nat, NEW b \in Nat, NEW c \in Nat, a <= b
  PROVE  a * c \in Nat /\ a * c <= b * c
  OBVIOUS

\* The two ranks around a percentile, and what is between their values.
PercentileAt(values, pct, order, lo, rest) ==
  LET low == values[order[lo]]
      high == IF rest = 0 THEN low ELSE values[order[lo + 1]]
  IN /\ lo \in 1..Len(values) /\ rest \in 0..99
     /\ rest # 0 => lo + 1 \in 1..Len(values)
     /\ 100 * (lo - 1) + rest = pct * (Len(values) - 1)
     /\ low \in Int /\ high \in Int /\ low <= high
     /\ Percentile(values, pct) = 100 * low + (high - low) * rest
     /\ 100 * low <= Percentile(values, pct) /\ Percentile(values, pct) <= 100 * high

LEMMA SortOrderOfSeq ==
  ASSUME NEW values \in Seq(Int), NEW n, n = Len(values)
  PROVE  /\ n \in Nat /\ values \in [1..n -> Int]
         /\ SortOrder(values) \in [1..n -> 1..n]
         /\ \A k, l \in 1..n : k <= l =>
              values[SortOrder(values)[k]] <= values[SortOrder(values)[l]]
         /\ \A k, l \in 1..n : SortOrder(values)[k] = SortOrder(values)[l] => k = l
<1>1. n \in Nat /\ values \in [1..n -> Int]
  OBVIOUS
<1>2. /\ SortOrder(values) \in [1..n -> 1..n]
      /\ \A k, l \in 1..n : k < l => Before(values, SortOrder(values)[k], SortOrder(values)[l])
  BY <1>1, SortOrderSorts
<1>3. \A i, j \in 1..n : Before(values, i, j) => i # j /\ values[i] <= values[j]
  BY <1>1 DEF Before
<1>4. \A k, l \in 1..n : k < l =>
         /\ values[SortOrder(values)[k]] <= values[SortOrder(values)[l]]
         /\ SortOrder(values)[k] # SortOrder(values)[l]
  BY <1>2, <1>3
<1>5. \A k \in 1..n : values[SortOrder(values)[k]] \in Int
  BY <1>1, <1>2
<1>6. \A k, l \in 1..n : k <= l => values[SortOrder(values)[k]] <= values[SortOrder(values)[l]]
  <2> TAKE k, l \in 1..n
  <2>1. CASE k = l
    BY <1>5, <2>1
  <2>2. CASE k # l
    BY <1>1, <1>4, <2>2
  <2> QED BY <2>1, <2>2
<1>7. \A k, l \in 1..n : SortOrder(values)[k] = SortOrder(values)[l] => k = l
  <2> TAKE k, l \in 1..n
  <2>1. k < l \/ k = l \/ l < k
    BY <1>1
  <2> QED BY <1>4, <2>1
<1> QED BY <1>1, <1>2, <1>6, <1>7

LEMMA PercentileIs ==
  ASSUME NEW values \in Seq(Int), values # <<>>, NEW pct \in 0..100
  PROVE  \E lo, rest \in Int : PercentileAt(values, pct, SortOrder(values), lo, rest)
<1> DEFINE n == Len(values)
<1> DEFINE order == SortOrder(values)
<1> DEFINE rank == pct * (n - 1)
<1> DEFINE lo == rank \div 100 + 1
<1> DEFINE rest == rank % 100
<1> DEFINE low == values[order[lo]]
<1> DEFINE high == IF rest = 0 THEN low ELSE values[order[lo + 1]]
<1>1. /\ n \in Nat /\ values \in [1..n -> Int] /\ order \in [1..n -> 1..n]
      /\ \A k, l \in 1..n : k <= l => values[order[k]] <= values[order[l]]
  BY SortOrderOfSeq
<1>2. n >= 1
  BY EmptySeq
<1>3. rank \in Nat /\ rank <= 100 * (n - 1)
  <2>1. pct \in Nat /\ 100 \in Nat /\ n - 1 \in Nat /\ pct <= 100
    BY <1>1, <1>2
  <2> HIDE DEF n
  <2> QED BY <2>1, ProductGrows
<1>4. Percentile(values, pct) = 100 * low + (high - low) * rest
  BY DEF Percentile
<1>5. /\ lo \in 1..n /\ rest \in 0..99 /\ 100 * (lo - 1) + rest = rank
      /\ rest # 0 => lo + 1 \in 1..n
  <2> HIDE DEF n, rank
  <2> QED BY <1>1, <1>2, <1>3
<1>6. low \in Int /\ high \in Int /\ low <= high
  <2> HIDE DEF n, order, lo, rest
  <2>1. low \in Int
    BY <1>1, <1>5
  <2>2. CASE rest = 0
    BY <2>1, <2>2
  <2>3. CASE rest # 0
    <3>1. lo + 1 \in 1..n /\ lo \in 1..n /\ lo <= lo + 1
      BY <1>5, <2>3
    <3>2. values[order[lo + 1]] \in Int /\ values[order[lo]] <= values[order[lo + 1]]
      BY <1>1, <3>1
    <3> QED BY <2>1, <2>3, <3>2
  <2> QED BY <2>2, <2>3
<1>7. 0 <= (high - low) * rest /\ (high - low) * rest <= 100 * (high - low)
  <2> HIDE DEF low, high, rest
  <2>1. rest \in Nat /\ 100 \in Nat /\ high - low \in Nat /\ rest <= 100
    BY <1>5, <1>6
  <2>2. rest * (high - low) \in Nat /\ rest * (high - low) <= 100 * (high - low)
    BY <2>1, ProductGrows
  <2>3. rest * (high - low) = (high - low) * rest
    BY <2>1
  <2> QED BY <2>2, <2>3
<1>8. 100 * low <= Percentile(values, pct) /\ Percentile(values, pct) <= 100 * high
  <2>1. (high - low) * rest \in Int
    <3> HIDE DEF low, high, rest
    <3> QED BY <1>5, <1>6
  <2> HIDE DEF low, high, rest
  <2> QED BY <1>4, <1>6, <1>7, <2>1
<1>9. lo \in Int /\ rest \in Int
  BY <1>5
<1>10. PercentileAt(values, pct, order, lo, rest)
  BY <1>4, <1>5, <1>6, <1>8 DEF PercentileAt
<1> QED BY <1>9, <1>10

\* What the prover needs to know of a percentile to count.
LEMMA PercentileSplits ==
  ASSUME NEW values \in Seq(Int), values # <<>>, NEW pct \in 0..100
  PROVE  Percentile(values, pct) \in Int /\ Splits(values, pct)
<1> DEFINE n == Len(values)
<1> DEFINE order == SortOrder(values)
<1> DEFINE p == Percentile(values, pct)
<1> DEFINE low(lo) == values[order[lo]]
<1>1. /\ n \in Nat /\ values \in [1..n -> Int] /\ order \in [1..n -> 1..n]
      /\ \A k, l \in 1..n : k <= l => values[order[k]] <= values[order[l]]
      /\ \A k, l \in 1..n : order[k] = order[l] => k = l
  BY SortOrderOfSeq
<1>2. PICK lo, rest \in Int : PercentileAt(values, pct, order, lo, rest)
  BY PercentileIs
<1> DEFINE hi == IF rest = 0 THEN lo ELSE lo + 1
<1>3. /\ lo \in 1..n /\ hi \in 1..n /\ rest \in 0..99
      /\ 100 * (lo - 1) + rest = pct * (n - 1)
  BY <1>2 DEF PercentileAt
<1>4. 100 * values[order[lo]] <= p /\ p <= 100 * values[order[hi]]
  BY <1>2 DEF PercentileAt
<1>5. p \in Int
  <2>1. /\ p = 100 * values[order[lo]] + (values[order[hi]] - values[order[lo]]) * rest
        /\ values[order[lo]] \in Int /\ values[order[hi]] \in Int
    BY <1>2 DEF PercentileAt
  <2> HIDE DEF p, hi
  <2> QED BY <1>3, <2>1
<1>6. lo \in 1..n /\ hi \in 1..n
  BY <1>3
<1> HIDE DEF n, order, p, hi
<1>7. \A k \in 1..n : order[k] \in 1..n /\ values[order[k]] \in Int
  BY <1>1
<1>8. \A k, l \in 1..n : k <= l => 100 * values[order[k]] <= 100 * values[order[l]]
  <2> SUFFICES ASSUME NEW k \in 1..n, NEW l \in 1..n, k <= l
               PROVE  100 * values[order[k]] <= 100 * values[order[l]]
    OBVIOUS
  <2>1. values[order[k]] <= values[order[l]]
    BY <1>1
  <2>2. values[order[k]] \in Int /\ values[order[l]] \in Int
    BY <1>7
  <2> QED BY <2>1, <2>2
<1> DEFINE L == {i \in 1..n : 100 * values[i] <= p}
<1> DEFINE H == {i \in 1..n : 100 * values[i] >= p}
<1>9. Cardinality(L) \in Nat /\ lo <= Cardinality(L)
  <2>0. PICK one \in Nat : one = 1
    OBVIOUS
  <2>1. \A k \in one..lo : k \in 1..n /\ k <= lo
    BY <1>1, <1>6, <2>0
  <2>2. \A k \in one..lo : order[k] \in L
    <3> SUFFICES ASSUME NEW k \in one..lo PROVE order[k] \in L
      OBVIOUS
    <3>1. 100 * values[order[k]] <= 100 * values[order[lo]]
      BY <1>6, <1>8, <2>1
    <3>2. values[order[k]] \in Int /\ values[order[lo]] \in Int /\ order[k] \in 1..n
      BY <1>6, <1>7, <2>1
    <3> QED BY <1>4, <1>5, <3>1, <3>2
  <2>3. \A k, l \in one..lo : order[k] = order[l] => k = l
    BY <1>1, <2>1
  <2>4. L \in SUBSET (1..n) /\ one \in 1..(n + 1) /\ lo \in 0..n
    BY <1>1, <1>6, <2>0
  <2>5. n \in Nat
    BY <1>1
  <2> HIDE DEF L
  <2>6. Cardinality(L) \in Nat /\ lo - one + 1 <= Cardinality(L)
    BY ONLY <2>2, <2>3, <2>4, <2>5, AtLeast
  <2> QED BY <1>6, <2>0, <2>6
<1>10. Cardinality(H) \in Nat /\ n - hi + 1 <= Cardinality(H)
  <2>1. \A k \in hi..n : k \in 1..n /\ hi <= k
    BY <1>1, <1>6
  <2>2. \A k \in hi..n : order[k] \in H
    <3> SUFFICES ASSUME NEW k \in hi..n PROVE order[k] \in H
      OBVIOUS
    <3>1. 100 * values[order[hi]] <= 100 * values[order[k]]
      BY <1>6, <1>8, <2>1
    <3>2. values[order[k]] \in Int /\ values[order[hi]] \in Int /\ order[k] \in 1..n
      BY <1>6, <1>7, <2>1
    <3> QED BY <1>4, <1>5, <3>1, <3>2
  <2>3. \A k, l \in hi..n : order[k] = order[l] => k = l
    BY <1>1, <2>1
  <2>4. H \in SUBSET (1..n) /\ hi \in 1..(n + 1) /\ n \in 0..n
    BY <1>1, <1>6
  <2>5. n \in Nat
    BY <1>1
  <2> HIDE DEF H
  <2> QED BY ONLY <2>2, <2>3, <2>4, <2>5, AtLeast
<1>11. 100 * Cardinality(L) > pct * (n - 1)
  <2> HIDE DEF L
  <2>1. 100 * lo > 100 * (lo - 1) + rest
    BY <1>3
  <2>2. 100 * lo \in Int /\ 100 * (lo - 1) + rest \in Int /\ 100 * Cardinality(L) >= 100 * lo
    BY <1>3, <1>9
  <2> QED BY <1>3, <1>9, <2>1, <2>2
<1>12. 100 * Cardinality(H) > (100 - pct) * (n - 1)
  <2> HIDE DEF H
  <2>1. (100 - pct) * (n - 1) = 100 * (n - 1) - (100 * (lo - 1) + rest)
    <3>1. (100 - pct) * (n - 1) = 100 * (n - 1) - pct * (n - 1)
      BY <1>1
    <3> QED BY <1>3, <3>1
  <2>2. 100 * (hi - 1) < 100 * (lo - 1) + rest + 100
    BY <1>3 DEF hi
  <2> QED BY <1>1, <1>3, <1>10, <2>1, <2>2
<1> QED BY <1>5, <1>11, <1>12 DEF Splits, n, p

\* A higher percentage is not a lower percentile.
LEMMA PercentilesGrow ==
  ASSUME NEW values \in Seq(Int), values # <<>>,
         NEW a \in 0..100, NEW b \in 0..100, a <= b
  PROVE  Percentile(values, a) <= Percentile(values, b)
<1> DEFINE n == Len(values)
<1> DEFINE order == SortOrder(values)
<1> DEFINE p == Percentile(values, a)
<1> DEFINE q == Percentile(values, b)
<1> SUFFICES p <= q
  OBVIOUS
<1>1. /\ n \in Nat /\ values \in [1..n -> Int] /\ order \in [1..n -> 1..n]
      /\ \A k, l \in 1..n : k <= l => values[order[k]] <= values[order[l]]
  BY SortOrderOfSeq
<1>2. PICK i, r \in Int : PercentileAt(values, a, order, i, r)
  BY PercentileIs
<1>3. PICK j, s \in Int : PercentileAt(values, b, order, j, s)
  BY PercentileIs
<1> DEFINE v(k) == values[order[k]]
<1> DEFINE up(k, rest) == IF rest = 0 THEN v(k) ELSE v(k + 1)
<1>4. /\ i \in 1..n /\ r \in 0..99 /\ 100 * (i - 1) + r = a * (n - 1)
      /\ r # 0 => i + 1 \in 1..n
      /\ p = 100 * v(i) + (up(i, r) - v(i)) * r
      /\ p <= 100 * up(i, r)
  BY <1>2 DEF PercentileAt
<1>5. /\ j \in 1..n /\ s \in 0..99 /\ 100 * (j - 1) + s = b * (n - 1)
      /\ v(j) <= up(j, s)
      /\ q = 100 * v(j) + (up(j, s) - v(j)) * s
      /\ 100 * v(j) <= q
  BY <1>3 DEF PercentileAt
<1>6. v(i) \in Int /\ up(i, r) \in Int /\ v(j) \in Int /\ up(j, s) \in Int
  BY <1>2, <1>3 DEF PercentileAt
<1>7. p \in Int /\ q \in Int
  BY PercentileSplits
<1> HIDE DEF n, order, p, q
<1>8. 100 * (i - 1) + r <= 100 * (j - 1) + s
  <2>1. a \in Nat /\ b \in Nat /\ n - 1 \in Nat
    <3>1. i \in 1..n
      BY <1>4
    <3> QED BY <1>1, <3>1
  <2>2. a * (n - 1) <= b * (n - 1)
    BY <2>1, ProductGrows
  <2> QED BY <1>4, <1>5, <2>2
<1>9. i \in 1..n /\ j \in 1..n /\ r \in 0..99 /\ s \in 0..99 /\ (r # 0 => i + 1 \in 1..n)
  BY <1>4, <1>5
<1>10. CASE i = j
  <2>1. r <= s
    BY <1>8, <1>9, <1>10
  <2>2. CASE r = 0
    <3>1. p <= 100 * v(j) /\ 100 * v(j) <= q
      BY <1>4, <1>5, <1>10, <2>2
    <3> HIDE DEF v
    <3> QED BY <1>6, <1>7, <3>1
  <2>3. CASE r # 0
    <3>1. s # 0
      BY <1>9, <2>1, <2>3
    <3>2. up(i, r) = up(j, s)
      BY <1>10, <2>3, <3>1
    <3> DEFINE d == up(j, s) - v(j)
    <3>3. d \in Nat /\ r \in Nat /\ s \in Nat
      <4>1. v(j) <= up(j, s)
        BY <1>5
      <4> HIDE DEF up, v
      <4> QED BY <1>6, <1>9, <4>1
    <3>4. r * d \in Nat /\ r * d <= s * d
      <4> HIDE DEF d
      <4> QED BY <2>1, <3>3, ProductGrows
    <3>5. p = 100 * v(j) + d * r /\ q = 100 * v(j) + d * s
      <4> HIDE DEF up, v
      <4> QED BY <1>4, <1>5, <1>10, <3>2
    <3>6. d * r = r * d /\ d * s = s * d /\ s * d \in Int
      <4> HIDE DEF d
      <4> QED BY <3>3
    <3> DEFINE rd == r * d
    <3> DEFINE sd == s * d
    <3>7. p = 100 * v(j) + rd /\ q = 100 * v(j) + sd
      BY ONLY <3>5, <3>6
    <3>8. rd \in Int /\ sd \in Int /\ rd <= sd
      BY <3>4, <3>6
    <3> HIDE DEF d, v, rd, sd
    <3> QED BY <1>6, <3>7, <3>8
  <2> QED BY <2>2, <2>3
<1>11. CASE i # j
  <2>1. i + 1 <= j /\ i <= j
    BY <1>8, <1>9, <1>11
  <2>2. v(i) <= v(j) /\ (r # 0 => v(i + 1) <= v(j))
    BY <1>1, <1>9, <2>1
  <2>3. up(i, r) <= v(j)
    BY <2>2
  <2>4. p <= 100 * up(i, r) /\ 100 * v(j) <= q
    BY <1>4, <1>5
  <2> HIDE DEF up, v
  <2> QED BY <1>6, <1>7, <2>3, <2>4
<1> QED BY <1>10, <1>11

-----------------------------------------------------------------------------
(* The SLO verdict. *)

Thresholds == [p95 : Int \cup {None}, success : Int \cup {None}, cost : Int \cup {None}]

LEMMA LatenciesAreNumbers ==
  ASSUME NEW r \in Results
  PROVE  Latencies(r) \in Seq(Int)
<1>1. /\ r.completed \in Nat /\ r.runtime \in Nat
      /\ r.latencies \in Seq(Int) \cup {None}
  BY AgentSysPerfAssumption
<1>2. CASE r.latencies # None
  BY <1>1, <1>2 DEF Latencies
<1>3. CASE r.latencies = None /\ r.runtime > 0 /\ r.completed > 0
  <2>1. r.runtime \div r.completed \in Int
    BY <1>1, <1>3
  <2>2. [i \in 1..r.completed |-> r.runtime \div r.completed] \in Seq(Int)
    BY <1>1, <2>1, IsASeq
  <2>3. Latencies(r) = [i \in 1..r.completed |-> r.runtime \div r.completed]
    BY <1>1, <1>3 DEF Latencies
  <2> QED BY <2>2, <2>3
<1>4. CASE r.latencies = None /\ r.runtime > 0 /\ r.completed = 0
  <2>1. Latencies(r) = <<r.runtime>>
    BY <1>1, <1>4 DEF Latencies
  <2> QED BY <1>1, <2>1
<1>5. CASE r.latencies = None /\ r.runtime = 0
  <2>1. Latencies(r) = <<>>
    BY <1>1, <1>5 DEF Latencies
  <2> QED BY <2>1
<1> QED BY <1>1, <1>2, <1>3, <1>4, <1>5

\* A percentile within the limit leaves little above it.
LEMMA LittleAbove ==
  ASSUME NEW times \in Seq(Int), times # <<>>, NEW limit \in Int, NEW pct \in 0..100,
         Percentile(times, pct) <= limit
  PROVE  100 * Cardinality({i \in DOMAIN times : 100 * times[i] > limit})
           <= (100 - pct) * (Len(times) - 1) + 99
<1> DEFINE n == Len(times)
<1> DEFINE p == Percentile(times, pct)
<1> DEFINE over == {i \in DOMAIN times : 100 * times[i] > limit}
<1> DEFINE L == {i \in 1..n : 100 * times[i] <= p}
<1>1. n \in Nat /\ DOMAIN times = 1..n /\ \A i \in 1..n : times[i] \in Int
  OBVIOUS
<1>2. p \in Int /\ p <= limit
  BY PercentileSplits
<1>3. 100 * Cardinality(L) > pct * (n - 1)
  BY PercentileSplits DEF Splits
<1> HIDE DEF p, n
<1>4. over \in SUBSET (1..n) /\ L \in SUBSET (1..n) /\ over \cap L = {}
  BY <1>1, <1>2
<1> HIDE DEF over, L
<1>5. IsFiniteSet(1..n) /\ Cardinality(1..n) = n
  BY <1>1, FS_Interval
<1>6. /\ IsFiniteSet(over) /\ IsFiniteSet(L) /\ IsFiniteSet(over \cup L)
      /\ Cardinality(over \cup L) <= n
  <2>1. over \cup L \in SUBSET (1..n)
    BY <1>4
  <2> QED BY <1>4, <1>5, <2>1, FS_Subset
<1>7. Cardinality(over \cup L) = Cardinality(over) + Cardinality(L) - 0
  BY <1>4, <1>6, FS_Union, FS_EmptySet
<1>8. Cardinality(over) \in Nat /\ Cardinality(L) \in Nat
  BY <1>6, FS_CardinalityType
<1>9. (100 - pct) * (n - 1) = 100 * (n - 1) - pct * (n - 1) /\ pct * (n - 1) \in Int
  BY <1>1
<1> DEFINE rank == pct * (n - 1)
<1>10. rank \in Int /\ 100 * Cardinality(L) > rank /\ (100 - pct) * (n - 1) = 100 * (n - 1) - rank
  BY <1>3, <1>9
<1>11. 100 * Cardinality(over) <= 100 * (n - 1) - rank + 99
  <2> HIDE DEF rank
  <2> QED BY <1>1, <1>6, <1>7, <1>8, <1>10
<1> QED BY <1>10, <1>11 DEF n, over

\* What PassedIsEarned says of one run.
Earned(t, r) ==
  LET times == Latencies(r)
      over == {i \in DOMAIN times : 100 * times[i] > t.p95}
  IN /\ t.success # None => r.total > 0 /\ 100 * r.completed >= t.success * r.total
     /\ t.cost # None => /\ r.completed > 0
                         /\ r.runtime = 0 \/ Spent(r) < (t.cost + 1) * r.completed
     /\ t.p95 # None =>
          times # <<>> /\ 100 * Cardinality(over) <= 5 * (Len(times) - 1) + 99

LEMMA DivRoundsDown ==
  ASSUME NEW a \in Int, NEW b \in Int, b > 0
  PROVE  a < ((a \div b) + 1) * b
  OBVIOUS

\* The cost per task is the whole cost, divided and rounded down.
LEMMA CostIsShared ==
  ASSUME NEW r \in Results, r.completed > 0
  PROVE  /\ CostPerTask(r, Cost) \in Int /\ Spent(r) \in Int
         /\ Spent(r) < (CostPerTask(r, Cost) + 1) * r.completed
<1> DEFINE dram == IF Cost.dram = None THEN 0 ELSE Cost.dram
<1> DEFINE price == IF None \in {Cost.package, Cost.price} THEN 0
                    ELSE (Cost.package + dram) * Cost.price
<1> DEFINE energy == IF Cost.package = None \/ Cost.price = None THEN 0
                     ELSE (Cost.package + dram) * Cost.price * r.runtime
<1>1. /\ r.completed \in Nat /\ r.runtime \in Nat
      /\ Cost.hourly \in Nat /\ Cost.package \in Nat \cup {None}
      /\ Cost.dram \in Nat \cup {None} /\ Cost.price \in Nat \cup {None}
  BY AgentSysPerfAssumption
<1>2. price \in Int /\ energy = price * r.runtime
  <2>1. CASE Cost.package = None \/ Cost.price = None
    BY <1>1, <2>1
  <2>2. CASE Cost.package # None /\ Cost.price # None
    <3>1. Cost.package + dram \in Int /\ Cost.price \in Int
      BY <1>1, <2>2
    <3>2. price = (Cost.package + dram) * Cost.price
      BY <2>2
    <3>3. energy = (Cost.package + dram) * Cost.price * r.runtime
      BY <2>2
    <3> DEFINE watts == Cost.package + dram
    <3> HIDE DEF price, energy, dram, watts
    <3>4. watts * Cost.price \in Int
      BY <3>1 DEF watts
    <3> QED BY <3>2, <3>3, <3>4 DEF watts
  <2> QED BY <2>1, <2>2
<1>3. Spent(r) = r.runtime * (Cost.hourly + price)
  BY DEF Spent
<1>4. CostPerTask(r, Cost) = (Cost.hourly * r.runtime + energy) \div r.completed
  BY DEF CostPerTask
<1> HIDE DEF price, energy
<1> DEFINE spent == r.runtime * (Cost.hourly + price)
<1>5. spent \in Int /\ Cost.hourly * r.runtime + energy = spent
  BY <1>1, <1>2
<1>6. /\ spent \div r.completed \in Int
      /\ spent < ((spent \div r.completed) + 1) * r.completed
  <2> HIDE DEF spent
  <2>1. spent \in Int /\ r.completed \in Int /\ r.completed > 0
    BY <1>1, <1>5
  <2> DEFINE q == spent \div r.completed
  <2>2. q \in Int
    BY <2>1
  <2>3. spent < (q + 1) * r.completed
    BY <2>1, <2>2, DivRoundsDown
  <2> QED BY <2>2, <2>3
<1> QED BY <1>3, <1>4, <1>5, <1>6

LEMMA VerdictIsEarned ==
  ASSUME NEW t \in Thresholds, NEW r \in Results, SloPassed(t, r, Cost) = TRUE
  PROVE  Earned(t, r)
<1> DEFINE times == Latencies(r)
<1>1. /\ r.total \in Nat /\ r.completed \in Nat
      /\ t.p95 \in Int \cup {None} /\ t.success \in Int \cup {None} /\ t.cost \in Int \cup {None}
  BY AgentSysPerfAssumption DEF Thresholds
<1>2. ~(t.p95 = None /\ t.success = None /\ t.cost = None) =>
        /\ ~Exceeds(Percentile(times, 95), t.p95)
        /\ ~FallsShort(SuccessRate(r), t.success)
        /\ ~Exceeds(CostPerTask(r, Cost), t.cost)
  BY DEF SloPassed
<1>3. ASSUME t.success # None
      PROVE  r.total > 0 /\ 100 * r.completed >= t.success * r.total
  <2>1. SuccessRate(r) # None /\ ~(SuccessRate(r) < t.success)
    BY <1>2, <1>3 DEF FallsShort
  <2>2. r.total > 0 /\ SuccessRate(r) = (100 * r.completed) \div r.total
    BY <2>1 DEF SuccessRate
  <2> DEFINE q == (100 * r.completed) \div r.total
  <2>3. q \in Int /\ q * r.total <= 100 * r.completed
    BY <1>1, <2>2
  <2>4. t.success \in Int /\ t.success <= q
    <3>1. ~(q < t.success)
      BY <2>1, <2>2
    <3> HIDE DEF q
    <3> QED BY <1>1, <1>3, <2>3, <3>1
  <2>5. t.success * r.total <= q * r.total /\ t.success * r.total \in Int /\ q * r.total \in Int
    <3> HIDE DEF q
    <3> QED BY <1>1, <2>3, <2>4
  <2> HIDE DEF q
  <2> QED BY <1>1, <2>2, <2>3, <2>5
<1>4. ASSUME t.cost # None
      PROVE  r.completed > 0 /\ Spent(r) < (t.cost + 1) * r.completed
  <2> DEFINE c == CostPerTask(r, Cost)
  <2>1. c # None /\ ~(c > t.cost)
    BY <1>2, <1>4 DEF Exceeds
  <2>2. r.completed > 0
    BY <2>1 DEF CostPerTask
  <2>3. c \in Int /\ t.cost \in Int /\ Spent(r) \in Int /\ Spent(r) < (c + 1) * r.completed
    BY <1>1, <1>4, <2>2, CostIsShared
  <2> HIDE DEF c
  <2>4. c + 1 \in Int /\ t.cost + 1 \in Int /\ c + 1 <= t.cost + 1
    BY <2>1, <2>3
  <2>5. (c + 1) * r.completed <= (t.cost + 1) * r.completed
    BY <1>1, <2>4
  <2>6. (c + 1) * r.completed \in Int /\ (t.cost + 1) * r.completed \in Int
    BY <1>1, <2>4
  <2> QED BY <2>2, <2>3, <2>5, <2>6
<1>5. ASSUME t.p95 # None
      PROVE  /\ times # <<>>
             /\ 100 * Cardinality({i \in DOMAIN times : 100 * times[i] > t.p95})
                  <= 5 * (Len(times) - 1) + 99
  <2>1. Percentile(times, 95) # None /\ ~(Percentile(times, 95) > t.p95)
    BY <1>2, <1>5 DEF Exceeds
  <2>2. times # <<>>
    BY <2>1 DEF Percentile
  <2>3. times \in Seq(Int) /\ t.p95 \in Int /\ 95 \in 0..100
    BY <1>1, <1>5, LatenciesAreNumbers
  <2> HIDE DEF times
  <2>4. Percentile(times, 95) <= t.p95
    <3>1. Percentile(times, 95) \in Int
      BY <2>2, <2>3, PercentileSplits
    <3> QED BY <2>1, <2>3, <3>1
  <2>5. 100 * Cardinality({i \in DOMAIN times : 100 * times[i] > t.p95})
          <= (100 - 95) * (Len(times) - 1) + 99
    BY <2>2, <2>3, <2>4, LittleAbove
  <2> QED BY <2>2, <2>5
<1> QED BY <1>3, <1>4, <1>5 DEF Earned

-----------------------------------------------------------------------------
(* The saturation point. *)

Acc == [sat : Int \cup {None}, best : Int, prev : Int]

\* What the loop knows after the first m points of o.
Tracks(o, m, acc) ==
  /\ acc \in Acc
  /\ acc.sat # None =>
       \E k \in 1..m : /\ Saturates(o, k) /\ acc.sat = o[k].level
                       /\ \A j \in 1..(k - 1) : ~Saturates(o, j)
  /\ acc.sat = None =>
       /\ \A j \in 1..m : ~Saturates(o, j)
       /\ acc.prev = IF m = 0 THEN o[1].throughput ELSE o[m].throughput
       /\ acc.best >= 0 /\ \A j \in 1..m : Gain(o, j) <= acc.best
       /\ acc.best > 0 => \E j \in 1..m : Gain(o, j) = acc.best

LEMMA PointFields ==
  ASSUME NEW o \in Seq(Point), NEW i \in 1..Len(o)
  PROVE  /\ o[i] \in Point /\ o[i].level \in Int /\ o[i].throughput \in Int /\ o[i].slo \in BOOLEAN
         /\ o[i].level # None /\ Gain(o, i) \in Int
<1>1. \A j \in 1..Len(o) : o[j] \in Point
  OBVIOUS
<1>2. \A j \in 1..Len(o) : o[j].level \in Int /\ o[j].throughput \in Int /\ o[j].slo \in BOOLEAN
  BY <1>1 DEF Point
<1>3. i # 1 => i - 1 \in 1..Len(o)
  OBVIOUS
<1>4. Gain(o, i) \in Int
  BY <1>2, <1>3 DEF Gain
<1> QED BY <1>1, <1>2, <1>4, NoneAssumption

LEMMA StepTracks ==
  ASSUME NEW o \in Seq(Point), NEW m \in Nat, m + 1 \in 1..Len(o),
         NEW acc, Tracks(o, m, acc)
  PROVE  Tracks(o, m + 1, Step(acc, o[m + 1]))
<1> DEFINE i == m + 1
<1> DEFINE p == o[i]
<1> DEFINE gain == p.throughput - acc.prev
<1>1. /\ acc \in Acc
      /\ acc.sat \in Int \cup {None} /\ acc.best \in Int /\ acc.prev \in Int
  BY DEF Tracks, Acc
<1>2. /\ p.level \in Int /\ p.level # None /\ p.throughput \in Int /\ p.slo \in BOOLEAN
  BY PointFields
<1>3. \A j \in 1..i : Gain(o, j) \in Int
  BY PointFields
<1>4. CASE acc.sat # None
  <2>1. Step(acc, p) = acc
    BY <1>4 DEF Step
  <2> QED BY <1>4, <2>1 DEF Tracks
<1>5. CASE acc.sat = None
  <2>1. /\ \A j \in 1..m : ~Saturates(o, j) /\ Gain(o, j) <= acc.best
        /\ acc.prev = IF m = 0 THEN o[1].throughput ELSE o[m].throughput
        /\ acc.best >= 0
        /\ acc.best > 0 => \E j \in 1..m : Gain(o, j) = acc.best
    BY <1>5 DEF Tracks
  <2>2. gain = Gain(o, i)
    <3>1. CASE m = 0
      BY <1>2, <2>1, <3>1 DEF Gain
    <3>2. CASE m # 0
      BY <2>1, <3>2 DEF Gain
    <3> QED BY <3>1, <3>2
  <2>3. \A j \in 1..i : j \in 1..m \/ j = i
    OBVIOUS
  <2>4. Saturates(o, i) <=> ~p.slo \/ (acc.best > 0 /\ acc.best > 10 * gain)
    <3>1. ASSUME acc.best > 0, acc.best > 10 * gain PROVE Saturates(o, i)
      BY <2>1, <2>2, <3>1 DEF Saturates
    <3>2. ASSUME NEW j \in 1..(i - 1), Gain(o, j) > 0, Gain(o, j) > 10 * Gain(o, i)
          PROVE  acc.best > 0 /\ acc.best > 10 * gain
      <4>1. j \in 1..m /\ j \in 1..i
        OBVIOUS
      <4>2. Gain(o, j) <= acc.best /\ Gain(o, j) \in Int /\ Gain(o, i) \in Int
        BY <1>3, <2>1, <4>1
      <4> QED BY <1>1, <2>2, <3>2, <4>2
    <3> QED BY <3>1, <3>2 DEF Saturates
  <2>5. gain \in Int
    BY <1>1, <1>2
  <2>6. CASE ~p.slo
    <3>1. Step(acc, p) = [acc EXCEPT !.sat = p.level]
      BY <1>5, <2>6 DEF Step
    <3>2. Step(acc, p) \in Acc /\ Step(acc, p).sat = p.level
      BY <1>1, <1>2, <3>1 DEF Acc
    <3>3. Saturates(o, i) /\ \A j \in 1..(i - 1) : ~Saturates(o, j)
      BY <2>1, <2>4, <2>6
    <3> QED BY <1>2, <3>2, <3>3 DEF Tracks
  <2>7. CASE p.slo /\ gain > acc.best
    <3>1. Step(acc, p) = [acc EXCEPT !.best = gain, !.prev = p.throughput]
      BY <1>5, <2>7 DEF Step
    <3>2. /\ Step(acc, p) \in Acc /\ Step(acc, p).sat = None
          /\ Step(acc, p).best = gain /\ Step(acc, p).prev = p.throughput
      BY <1>1, <1>2, <1>5, <2>5, <3>1 DEF Acc
    <3>3. ~Saturates(o, i)
      <4> HIDE DEF gain
      <4> QED BY <1>1, <2>1, <2>4, <2>5, <2>7
    <3>4. \A j \in 1..i : ~Saturates(o, j) /\ Gain(o, j) <= gain
      <4> SUFFICES ASSUME NEW j \in 1..i PROVE ~Saturates(o, j) /\ Gain(o, j) <= gain
        OBVIOUS
      <4>1. CASE j = i
        BY <2>2, <2>5, <3>3, <4>1
      <4>2. CASE j \in 1..m
        <5>1. ~Saturates(o, j) /\ Gain(o, j) <= acc.best /\ Gain(o, j) \in Int
          BY <1>3, <2>1, <4>2
        <5> HIDE DEF gain
        <5> QED BY <1>1, <2>5, <2>7, <5>1
      <4> QED BY <2>3, <4>1, <4>2
    <3>5. gain >= 0 /\ i \in 1..i /\ i # 0
      <4>1. i \in 1..i /\ i # 0
        OBVIOUS
      <4> HIDE DEF gain
      <4> QED BY <1>1, <2>1, <2>5, <2>7, <4>1
    <3> HIDE DEF gain
    <3> QED BY <2>2, <3>2, <3>4, <3>5 DEF Tracks
  <2>8. CASE p.slo /\ ~(gain > acc.best) /\ acc.best > 0 /\ 10 * gain < acc.best
    <3>1. Step(acc, p) = [acc EXCEPT !.sat = p.level]
      BY <1>5, <2>8 DEF Step
    <3>2. Step(acc, p) \in Acc /\ Step(acc, p).sat = p.level
      BY <1>1, <1>2, <3>1 DEF Acc
    <3>3. Saturates(o, i) /\ \A j \in 1..(i - 1) : ~Saturates(o, j)
      <4>1. acc.best > 10 * gain
        BY <1>1, <2>5, <2>8
      <4> QED BY <2>1, <2>4, <2>8, <4>1
    <3> QED BY <1>2, <3>2, <3>3 DEF Tracks
  <2>9. CASE p.slo /\ ~(gain > acc.best) /\ ~(acc.best > 0 /\ 10 * gain < acc.best)
    <3>1. Step(acc, p) = [acc EXCEPT !.prev = p.throughput]
      BY <1>5, <2>9 DEF Step
    <3>2. /\ Step(acc, p) \in Acc /\ Step(acc, p).sat = None
          /\ Step(acc, p).best = acc.best /\ Step(acc, p).prev = p.throughput
      BY <1>1, <1>2, <1>5, <3>1 DEF Acc
    <3>3. ~Saturates(o, i)
      <4>1. ~(acc.best > 0 /\ acc.best > 10 * gain)
        <5> HIDE DEF gain
        <5> QED BY <1>1, <2>5, <2>9
      <4> QED BY <2>4, <2>9, <4>1
    <3>4. \A j \in 1..i : ~Saturates(o, j) /\ Gain(o, j) <= acc.best
      <4>1. gain <= acc.best
        <5> HIDE DEF gain
        <5> QED BY <1>1, <2>5, <2>9
      <4> QED BY <2>1, <2>2, <2>3, <3>3, <4>1
    <3>5. acc.best > 0 => \E j \in 1..i : Gain(o, j) = acc.best
      <4>1. \A j \in 1..m : j \in 1..i
        OBVIOUS
      <4> QED BY <2>1, <4>1
    <3>6. i # 0
      OBVIOUS
    <3> QED BY <2>1, <3>2, <3>4, <3>5, <3>6 DEF Tracks
  <2> QED BY <2>6, <2>7, <2>8, <2>9
<1> QED BY <1>4, <1>5

LEMMA SaturationIs ==
  ASSUME NEW o \in Seq(Point), o # <<>>
  PROVE  LET at == {i \in DOMAIN o : Saturates(o, i)} IN
         IF at = {} THEN Saturation(o) = None ELSE Saturation(o) = o[Min(at)].level
<1> DEFINE n == Len(o)
<1> DEFINE base == [sat |-> None, best |-> 0, prev |-> o[1].throughput]
<1> DEFINE body == [i \in 1..n |-> [a \in Acc |-> Step(a, o[i])]]
<1> DEFINE F(f) == [i \in 0..n |-> IF i = 0 THEN base ELSE Step(f[i - 1], o[i])]
<1> DEFINE acc == CHOOSE f : f = F(f)
<1>1. n \in Nat /\ n >= 1 /\ DOMAIN o = 1..n
  BY EmptySeq
<1>2. base \in Acc /\ Tracks(o, 0, base)
  <2>1. o[1].throughput \in Int
    BY <1>1, PointFields
  <2>2. base \in Acc
    BY <2>1 DEF Acc
  <2> QED BY <2>2 DEF Tracks
<1>3. \A i \in 1..n : \A a \in Acc : Step(a, o[i]) \in Acc
  <2> TAKE i \in 1..n
  <2> TAKE a \in Acc
  <2>1. o[i].level \in Int /\ o[i].throughput \in Int
    BY PointFields
  <2>2. a.prev \in Int /\ o[i].throughput - a.prev \in Int
    BY <2>1 DEF Acc
  <2> QED BY <2>1, <2>2 DEF Step, Acc
<1>4. acc = F(acc)
  <2>1. body \in Bodies(n, Acc)
    BY <1>3 DEF Bodies
  <2>2. PICK g : IsLoop(g, n, Acc, base, body)
    <3> HIDE DEF body, base, n
    <3> QED BY <1>1, <1>2, <2>1, LoopEnds
  <2>3. \A i \in 1..n : g[i] = Step(g[i - 1], o[i])
    <3>1. g \in [0..n -> Acc] /\ \A i \in 1..n : g[i] = body[i][g[i - 1]]
      BY <2>2 DEF IsLoop
    <3>2. \A i \in 1..n : g[i - 1] \in Acc
      BY <1>1, <3>1
    <3> QED BY <3>1, <3>2
  <2>4. \A i \in 0..n : g[i] = F(g)[i]
    <3> TAKE i \in 0..n
    <3>1. i = 0 \/ i \in 1..n
      BY <1>1
    <3>2. g[0] = base
      BY <2>2 DEF IsLoop
    <3> HIDE DEF base
    <3> QED BY <2>3, <3>1, <3>2
  <2>5. g = F(g)
    <3>1. g \in [0..n -> Acc]
      BY <2>2 DEF IsLoop
    <3> HIDE DEF base
    <3> QED BY <2>4, <3>1
  <2> HIDE DEF F
  <2> QED BY <2>5
<1>5. Saturation(o) = acc[n].sat
  BY DEF Saturation
<1> HIDE DEF acc
<1>6. acc[0] = base /\ \A i \in 1..n : acc[i] = Step(acc[i - 1], o[i])
  <2> HIDE DEF base
  <2>1. \A i \in 0..n : acc[i] = IF i = 0 THEN base ELSE Step(acc[i - 1], o[i])
    BY <1>4
  <2> QED BY <1>1, <2>1
<1> DEFINE N == {m \in Nat : m <= n => Tracks(o, m, acc[m])}
<1> HIDE DEF base
<1>7. 0 \in N
  BY <1>2, <1>6
<1>8. ASSUME NEW m \in N \cap Nat PROVE m + 1 \in N
  <2> SUFFICES ASSUME m + 1 <= n PROVE Tracks(o, m + 1, acc[m + 1])
    OBVIOUS
  <2>1. m + 1 \in 1..n /\ m <= n
    BY <1>1
  <2>2. Tracks(o, m, acc[m])
    BY <2>1
  <2>3. acc[m + 1] = Step(acc[m], o[m + 1])
    BY <1>6, <2>1
  <2> QED BY <2>1, <2>2, <2>3, StepTracks
<1>9. Tracks(o, n, acc[n])
  <2>1. n \in N
    <3> HIDE DEF N
    <3> QED BY <1>1, <1>7, <1>8, Induct
  <2> QED BY <1>1, <2>1
<1> DEFINE at == {i \in DOMAIN o : Saturates(o, i)}
<1>10. CASE at = {}
  <2>1. acc[n].sat = None
    BY <1>1, <1>9, <1>10 DEF Tracks
  <2> QED BY <1>5, <1>10, <2>1
<1>11. CASE at # {}
  <2>1. acc[n].sat # None
    BY <1>1, <1>9, <1>11 DEF Tracks
  <2>2. PICK k \in 1..n : /\ Saturates(o, k) /\ acc[n].sat = o[k].level
                         /\ \A j \in 1..(k - 1) : ~Saturates(o, j)
    BY <1>9, <2>1 DEF Tracks
  <2>3. at \subseteq Nat /\ k \in at
    BY <1>1, <2>2
  <2>4. \A j \in at : k <= j
    <3> TAKE j \in at
    <3>1. j \in 1..n /\ Saturates(o, j)
      BY <1>1
    <3>2. ~(j \in 1..(k - 1))
      BY <2>2, <3>1
    <3> QED BY <1>1, <3>1, <3>2
  <2>5. Min(at) \in at /\ Min(at) <= k
    <3> HIDE DEF at
    <3> QED BY <2>3, MinIsFirst
  <2>6. Min(at) = k
    <3>1. k <= Min(at)
      BY <2>4, <2>5
    <3>2. Min(at) \in Nat /\ k \in Nat
      BY <2>3, <2>5
    <3> HIDE DEF at
    <3> QED BY <2>5, <3>1, <3>2
  <2> QED BY <1>5, <1>11, <2>2, <2>6
<1> QED BY <1>10, <1>11

-----------------------------------------------------------------------------
(* The recommended level. *)

LEMMA OrderedIs ==
  ASSUME NEW ps \in Seq(Point)
  PROVE  /\ Ordered(ps) \in Seq(Point) /\ Len(Ordered(ps)) = Len(ps)
         /\ \A i, j \in 1..Len(ps) : i <= j => Ordered(ps)[i].level <= Ordered(ps)[j].level
         /\ \A i \in 1..Len(ps) : \E k \in 1..Len(ps) : Ordered(ps)[k] = ps[i]
<1> DEFINE n == Len(ps)
<1> DEFINE keys == [i \in 1..n |-> ps[i].level]
<1> DEFINE order == SortOrder(keys)
<1> DEFINE o == [k \in 1..n |-> ps[order[k]]]
<1>1. n \in Nat /\ DOMAIN ps = 1..n /\ ps \in [1..n -> Point]
  OBVIOUS
<1>2. keys \in [1..n -> Int]
  BY PointFields
<1>3. /\ order \in [1..n -> 1..n]
      /\ \A k, l \in 1..n : k < l => Before(keys, order[k], order[l])
      /\ \A i \in 1..n : \E k \in 1..n : order[k] = i
  <2> HIDE DEF keys
  <2> QED BY <1>1, <1>2, SortOrderSorts
<1>4. Ordered(ps) = o
  BY <1>1 DEF Ordered
<1>5. o \in Seq(Point) /\ Len(o) = n
  <2>1. \A k \in 1..n : ps[order[k]] \in Point
    BY <1>1, <1>3
  <2>2. o \in [1..n -> Point]
    BY <2>1
  <2>3. Len(o) = n
    BY <1>1
  <2> HIDE DEF o
  <2> QED BY <1>1, <2>2, <2>3, SeqDef
<1>6. \A k, l \in 1..n : k <= l => o[k].level <= o[l].level
  <2> SUFFICES ASSUME NEW k \in 1..n, NEW l \in 1..n, k <= l PROVE o[k].level <= o[l].level
    OBVIOUS
  <2>1. order[k] \in 1..n /\ order[l] \in 1..n
    BY <1>3
  <2>2. keys[order[k]] \in Int /\ keys[order[l]] \in Int
    BY <1>2, <2>1
  <2>3. keys[order[k]] <= keys[order[l]]
    <3>1. CASE k = l
      BY <2>2, <3>1
    <3>2. CASE k < l
      <4>1. Before(keys, order[k], order[l])
        <5> HIDE DEF keys, order
        <5> QED BY <1>3, <3>2
      <4> HIDE DEF keys, order
      <4> QED BY <2>2, <4>1 DEF Before
    <3> QED BY <1>1, <3>1, <3>2
  <2>4. o[k].level = keys[order[k]] /\ o[l].level = keys[order[l]]
    BY <2>1
  <2> QED BY <2>3, <2>4
<1>7. \A i \in 1..n : \E k \in 1..n : o[k] = ps[i]
  BY <1>3
<1> QED BY <1>4, <1>5, <1>6, <1>7

\* What SaturationIsFirst says of one report.
LEMMA DetectFindsFirst ==
  ASSUME NEW ps \in Seq(Point), NEW rep, rep = DetectCapacity(ps)
  PROVE  LET at == {i \in DOMAIN rep.points : Saturates(rep.points, i)} IN
         IF at = {} THEN rep.saturation = None
         ELSE rep.saturation = rep.points[Min(at)].level
<1>1. CASE ps = <<>>
  <2>1. rep.points = <<>> /\ rep.saturation = None
    BY <1>1 DEF DetectCapacity
  <2> QED BY <2>1
<1>2. CASE ps # <<>>
  <2>1. rep.points = Ordered(ps) /\ rep.saturation = Saturation(Ordered(ps))
    BY <1>2 DEF DetectCapacity
  <2>2. Ordered(ps) \in Seq(Point) /\ Ordered(ps) # <<>>
    BY <1>2, OrderedIs, EmptySeq
  <2> QED BY <2>1, <2>2, SaturationIs
<1> QED BY <1>1, <1>2

\* What RecommendedSafe says of one report, with the levels that missed their
\* SLO read from the points.
LEMMA DetectIsSafe ==
  ASSUME NEW ps \in Seq(Point), ps # <<>>, NEW rep, rep = DetectCapacity(ps)
  PROVE  LET below == {i \in DOMAIN rep.points :
                         rep.saturation = None \/ rep.points[i].level < rep.saturation}
         IN IF rep.recommended = None THEN below = {}
            ELSE /\ \A i \in DOMAIN ps : ~ps[i].slo => ps[i].level > rep.recommended
                 /\ \E i \in below : rep.points[i].level = rep.recommended
                 /\ (\E i \in below : Stable(rep.points[i])) =>
                      \A i \in below : Stable(rep.points[i]) =>
                                         rep.points[i].level <= rep.recommended
<1> DEFINE n == Len(ps)
<1> DEFINE o == Ordered(ps)
<1> DEFINE sat == Saturation(o)
<1> DEFINE below == {i \in 1..n : sat = None \/ o[i].level < sat}
<1> DEFINE candidates == {i \in DOMAIN o : o[i].slo /\ (sat = None \/ o[i].level < sat)}
<1> DEFINE stable == {i \in candidates : Stable(o[i])}
<1> DEFINE among == IF stable = {} THEN candidates ELSE stable
<1> DEFINE best == IF among = {} THEN None ELSE o[Max(among)].level
<1>1. rep.points = o /\ rep.saturation = sat /\ rep.recommended = best
  BY DEF DetectCapacity
<1>2. /\ n \in Nat /\ o \in Seq(Point) /\ Len(o) = n /\ DOMAIN o = 1..n /\ DOMAIN ps = 1..n
      /\ \A i, j \in 1..n : i <= j => o[i].level <= o[j].level
      /\ \A i \in 1..n : \E k \in 1..n : o[k] = ps[i]
  BY OrderedIs
<1>3. \A i \in 1..n : o[i].level \in Int /\ o[i].level # None /\ o[i].slo \in BOOLEAN
  BY <1>2, PointFields
<1> HIDE DEF n, o
\* A level that missed its SLO is at or behind the saturation point.
<1>4. \A i \in 1..n : ~o[i].slo => sat \in Int /\ sat <= o[i].level
  <2> DEFINE at == {i \in DOMAIN o : Saturates(o, i)}
  <2>1. o # <<>>
    BY <1>2, EmptySeq DEF n
  <2>2. IF at = {} THEN sat = None ELSE sat = o[Min(at)].level
    BY <1>2, <2>1, SaturationIs
  <2> SUFFICES ASSUME NEW i \in 1..n, ~o[i].slo PROVE sat \in Int /\ sat <= o[i].level
    OBVIOUS
  <2>3. at \subseteq Nat /\ at \subseteq 1..n
    <3>1. at \subseteq 1..n
      BY <1>2
    <3>2. 1..n \subseteq Nat
      OBVIOUS
    <3> HIDE DEF at
    <3> QED BY ONLY <3>1, <3>2
  <2>4. Saturates(o, i)
    BY DEF Saturates
  <2>5. i \in at
    BY <1>2, <2>4
  <2>6. Min(at) \in at /\ Min(at) <= i
    <3> HIDE DEF at
    <3> QED BY <2>3, <2>5, MinIsFirst
  <2> HIDE DEF at, sat
  <2> QED BY <1>2, <1>3, <2>2, <2>3, <2>5, <2>6
<1>5. candidates = below
  <2>1. \A i \in below : o[i].slo
    <3> SUFFICES ASSUME NEW i \in below, ~o[i].slo PROVE FALSE
      BY <1>3
    <3>1. i \in 1..n /\ (sat = None \/ o[i].level < sat)
      OBVIOUS
    <3>2. sat \in Int /\ sat <= o[i].level
      BY <1>4, <3>1
    <3> HIDE DEF sat, below
    <3> QED BY <1>3, <3>1, <3>2, NoneAssumption
  <2> QED BY <1>2, <2>1
<1>6. stable \subseteq candidates /\ candidates \in SUBSET (1..n)
  BY <1>2
<1>7. below = {i \in DOMAIN rep.points :
                 rep.saturation = None \/ rep.points[i].level < rep.saturation}
  BY <1>1, <1>2
<1>8. CASE among = {}
  <2>1. below = {}
    BY <1>5, <1>6, <1>8
  <2>2. rep.recommended = None
    BY <1>1, <1>8
  <2> HIDE DEF below
  <2> QED BY <1>7, <2>1, <2>2
<1>9. CASE among # {}
  <2> DEFINE m == Max(among)
  <2>1. among \in SUBSET (1..n)
    BY <1>6
  <2>2. m \in among /\ \A j \in among : m >= j
    <3> HIDE DEF among
    <3> QED BY <1>2, <1>9, <2>1, MaxIsLast
  <2>3. m \in 1..n /\ m \in below /\ best = o[m].level /\ best # None
    BY <1>3, <1>5, <1>6, <1>9, <2>1, <2>2
  <2>4. \A i \in DOMAIN ps : ~ps[i].slo => ps[i].level > best
    <3> SUFFICES ASSUME NEW i \in 1..n, ~ps[i].slo PROVE ps[i].level > best
      BY <1>2
    <3>1. PICK k \in 1..n : o[k] = ps[i]
      BY <1>2
    <3>2. sat \in Int /\ sat <= o[k].level
      BY <1>4, <3>1
    <3>3. o[m].level < sat
      BY <2>3, <3>2, NoneAssumption
    <3>4. o[m].level \in Int /\ o[k].level \in Int
      BY <1>3, <2>3
    <3> HIDE DEF sat, best, m
    <3> QED BY <2>3, <3>1, <3>2, <3>3, <3>4
  <2>5. ASSUME NEW j \in below, Stable(o[j]) PROVE o[j].level <= best
    <3>1. j \in stable /\ among = stable /\ j \in 1..n
      BY <1>5, <2>5
    <3>2. j <= m /\ m \in 1..n
      BY <2>2, <2>3, <3>1
    <3>3. o[j].level <= o[m].level
      BY <1>2, <3>1, <3>2
    <3> QED BY <2>3, <3>3
  <2> HIDE DEF best, m
  <2>6. rep.recommended = best /\ best # None
    BY <1>1, <2>3
  <2> HIDE DEF below
  <2> QED BY <1>1, <1>7, <2>3, <2>4, <2>5, <2>6
<1> QED BY <1>8, <1>9

-----------------------------------------------------------------------------
(* The invariant. *)

\* What the variables hold.
Shapes ==
  /\ job \in Plans \/ (job = [kind |-> "campaign"] /\ left = <<>>)
  /\ left \in Seq(Int) /\ reps \in Nat
  /\ pool.throughputs \in Seq(Int) /\ pool.latencies \in Seq(Int) /\ pool.slo \in Seq(BOOLEAN)
  /\ points \in Seq(Point)
  /\ slo \in Thresholds

\* A repetition that missed its SLO shows in the point of its level, or will.
MissShows ==
  \A l \in missed :
    \/ \E i \in DOMAIN points : points[i].level = l /\ ~points[i].slo
    \/ left # <<>> /\ Head(left) = l /\ \E i \in DOMAIN pool.slo : ~pool.slo[i]

\* The report is about all levels.
Reported == report # None => left = <<>> /\ report = DetectCapacity(points)

SweepInv == Shapes /\ MissShows /\ Reported

\* A summary that was begun has a rank.  A merge reads files that exist, keeps
\* those that were complete, and has read or will read every one that was
\* complete when it began.
Emitted ==
  /\ DOMAIN folder = Folder
  /\ \A f \in Folder : folder[f].is \in {"absent", "torn", "whole"}
  /\ \A f \in Folder : folder[f].is \in {"torn", "whole"} =>
       folder[f].kpi.density \in Int \cup {None}

Merging ==
  /\ merge.at \in {"idle", "walk", "read"}
  /\ merge.todo \subseteq Folder /\ merge.rows \subseteq Complete
  /\ merge.before \subseteq Complete /\ merge.before \subseteq merge.todo \cup merge.rows

LEMMA SumIsANumber ==
  ASSUME NEW seq \in Seq(Int)
  PROVE  Sum(seq) \in Int
<1> DEFINE n == Len(seq)
<1> DEFINE body == [i \in 1..n |-> [a \in Int |-> a + seq[i]]]
<1> DEFINE F(f) == [i \in 0..n |-> IF i = 0 THEN 0 ELSE f[i - 1] + seq[i]]
<1> DEFINE sum == CHOOSE f : f = F(f)
<1>1. n \in Nat /\ \A i \in 1..n : seq[i] \in Int
  OBVIOUS
<1>2. body \in [1..n -> [Int -> Int]]
  BY <1>1
<1>3. PICK g : IsLoop(g, n, Int, 0, body)
  <2>1. n \in Nat /\ body \in Bodies(n, Int)
    BY <1>1, <1>2 DEF Bodies
  <2>2. PICK zero \in Int : zero = 0
    OBVIOUS
  <2> HIDE DEF body, n
  <2>3. \E g : IsLoop(g, n, Int, zero, body)
    BY <2>1, LoopEnds
  <2> QED BY <2>2, <2>3
<1>4. g[0] = 0 /\ \A i \in 1..n : g[i] = g[i - 1] + seq[i]
  <2>1. g \in [0..n -> Int] /\ g[0] = 0 /\ \A i \in 1..n : g[i] = body[i][g[i - 1]]
    BY <1>3 DEF IsLoop
  <2>2. \A i \in 1..n : g[i - 1] \in Int
    <3> HIDE DEF n, body
    <3>1. SUFFICES ASSUME NEW i \in 1..n PROVE g[i - 1] \in Int
      OBVIOUS
    <3>2. n \in Nat /\ g \in [0..n -> Int]
      BY <1>1, <2>1
    <3>3. i - 1 \in 0..n
      BY <3>2
    <3> QED BY <3>2, <3>3
  <2> QED BY <2>1, <2>2
<1>5. \A i \in 0..n : g[i] = F(g)[i]
  <2> TAKE i \in 0..n
  <2>1. i = 0 \/ i \in 1..n
    BY <1>1
  <2> QED BY <1>4, <2>1
<1>6. g = F(g)
  <2>1. g \in [0..n -> Int]
    BY <1>3 DEF IsLoop
  <2> QED BY <1>5, <2>1
<1>7. sum = F(sum)
  <2> HIDE DEF F
  <2> QED BY <1>6
<1>8. Sum(seq) = sum[n]
  BY DEF Sum
<1> HIDE DEF sum
<1>9. sum[0] = 0 /\ \A i \in 1..n : sum[i] = sum[i - 1] + seq[i]
  <2>1. \A i \in 0..n : sum[i] = IF i = 0 THEN 0 ELSE sum[i - 1] + seq[i]
    BY <1>7
  <2> QED BY <1>1, <2>1
<1> DEFINE N == {m \in Nat : m <= n => sum[m] \in Int}
<1>10. 0 \in N
  BY <1>9
<1>11. ASSUME NEW m \in N \cap Nat PROVE m + 1 \in N
  <2> SUFFICES ASSUME m + 1 <= n PROVE sum[m + 1] \in Int
    OBVIOUS
  <2>1. m + 1 \in 1..n /\ m <= n
    BY <1>1
  <2>2. sum[m] \in Int /\ sum[m + 1] = sum[m] + seq[m + 1]
    BY <1>9, <2>1
  <2> QED BY <1>1, <2>1, <2>2
<1>12. n \in N
  <2> HIDE DEF N
  <2> QED BY <1>1, <1>10, <1>11, Induct
<1> QED BY <1>1, <1>8, <1>12

LEMMA InitSweep == Init => SweepInv /\ Emitted /\ Merging
<1> SUFFICES ASSUME Init PROVE SweepInv /\ Emitted /\ Merging
  OBVIOUS
<1>1. left \in Seq(Int) /\ slo \in Thresholds /\ (job \in Plans \/ (job = [kind |-> "campaign"] /\ left = <<>>))
  <2>1. CASE job \in Plans /\ left = job.levels /\ slo = NoThresholds
    BY <2>1, AgentSysPerfAssumption DEF Thresholds, NoThresholds
  <2>2. CASE job = [kind |-> "campaign"] /\ left = <<>> /\ slo \in Slos
    <3>1. slo \in Thresholds
      BY <2>2, AgentSysPerfAssumption DEF Thresholds
    <3> QED BY <2>2, <3>1
  <2> QED BY <2>1, <2>2 DEF Init
<1>2. Shapes
  BY <1>1 DEF Init, Shapes, Empty
<1>3. MissShows /\ Reported
  BY DEF Init, MissShows, Reported
<1>4. Emitted
  BY DEF Init, Emitted, NoFile
<1>5. Merging
  BY DEF Init, Merging, NoMerge
<1> QED BY <1>2, <1>3, <1>4, <1>5 DEF SweepInv

LEMMA AggregateKeeps == SweepInv /\ Aggregate => SweepInv'
<1> SUFFICES ASSUME SweepInv, Aggregate PROVE SweepInv'
  OBVIOUS
<1> DEFINE lat == pool.latencies
<1> DEFINE point == [level |-> Head(left), throughput |-> Sum(pool.throughputs) \div reps,
                     p95 |-> Percentile(lat, 95), p99 |-> Percentile(lat, 99),
                     slo |-> \A i \in DOMAIN pool.slo : pool.slo[i]]
<1>1. /\ left # <<>> /\ reps = job.reps /\ points' = Append(points, point)
      /\ left' = Tail(left) /\ reps' = 0 /\ pool' = Empty
      /\ UNCHANGED <<job, slo, missed, report>>
  BY DEF Aggregate
<1>2. job \in Plans /\ left \in Seq(Int) /\ points \in Seq(Point) /\ slo \in Thresholds
  BY <1>1 DEF SweepInv, Shapes
<1>3. point \in Point
  <2>1. Head(left) \in Int
    BY <1>1, <1>2
  <2>2. Sum(pool.throughputs) \div reps \in Int
    <3>1. Sum(pool.throughputs) \in Int
      BY SumIsANumber DEF SweepInv, Shapes
    <3>2. reps \in Nat \ {0}
      BY <1>1, <1>2, AgentSysPerfAssumption
    <3> QED BY <3>1, <3>2
  <2>3. Percentile(lat, 95) \in Int \cup {None} /\ Percentile(lat, 99) \in Int \cup {None}
    <3>1. lat \in Seq(Int)
      BY DEF SweepInv, Shapes
    <3>2. CASE lat = <<>>
      BY <3>2 DEF Percentile
    <3>3. CASE lat # <<>>
      <4> HIDE DEF lat
      <4>1. 95 \in 0..100 /\ 99 \in 0..100
        OBVIOUS
      <4> QED BY <3>1, <3>3, <4>1, PercentileSplits
    <3> QED BY <3>2, <3>3
  <2> QED BY <2>1, <2>2, <2>3 DEF Point
<1>4. PICK missedOne \in BOOLEAN : missedOne <=> \E i \in DOMAIN pool.slo : ~pool.slo[i]
  OBVIOUS
<1>5. point.level = Head(left) /\ (missedOne => ~point.slo)
  BY <1>4
<1> HIDE DEF point
<1>6. Shapes'
  <2>1. points' \in Seq(Point)
    BY <1>1, <1>2, <1>3
  <2>2. left' \in Seq(Int)
    BY <1>1, <1>2
  <2>3. /\ pool'.throughputs \in Seq(Int) /\ pool'.latencies \in Seq(Int)
        /\ pool'.slo \in Seq(BOOLEAN)
    BY <1>1 DEF Empty
  <2> QED BY <1>1, <1>2, <2>1, <2>2, <2>3 DEF Shapes
<1>7. MissShows'
  <2> SUFFICES ASSUME NEW l \in missed
               PROVE  \E i \in DOMAIN points' : points'[i].level = l /\ ~points'[i].slo
    BY <1>1 DEF MissShows
  <2>1. /\ DOMAIN points = 1..Len(points) /\ DOMAIN points' = 1..(Len(points) + 1)
        /\ Len(points) \in Nat
        /\ \A i \in 1..Len(points) : points'[i] = points[i]
        /\ points'[Len(points) + 1] = point
    BY <1>1, <1>2, <1>3, AppendProperties
  <2>2. CASE \E i \in DOMAIN points : points[i].level = l /\ ~points[i].slo
    BY <2>1, <2>2
  <2>3. CASE Head(left) = l /\ missedOne
    <3>1. Len(points) + 1 \in DOMAIN points'
      BY <2>1
    <3> QED BY <1>5, <2>1, <2>3, <3>1
  <2> QED BY <1>4, <2>2, <2>3 DEF SweepInv, MissShows
<1>8. Reported'
  BY <1>1 DEF SweepInv, Reported
<1> QED BY <1>6, <1>7, <1>8 DEF SweepInv

LEMMA MeasureKeeps == SweepInv /\ Measure => SweepInv'
<1> SUFFICES ASSUME SweepInv, Measure PROVE SweepInv'
  OBVIOUS
<1>1. PICK thr \in Throughputs, lat \in LatencySeqs, passed \in BOOLEAN :
        /\ pool' = [throughputs |-> Append(pool.throughputs, thr),
                    latencies |-> pool.latencies \o lat, slo |-> Append(pool.slo, passed)]
        /\ missed' = IF passed THEN missed ELSE missed \cup {Head(left)}
  BY DEF Measure
<1>2. left # <<>> /\ reps' = reps + 1 /\ UNCHANGED <<job, slo, left, points, report>>
  BY DEF Measure
<1>3. /\ pool.throughputs \in Seq(Int) /\ pool.latencies \in Seq(Int) /\ pool.slo \in Seq(BOOLEAN)
      /\ thr \in Int /\ lat \in Seq(Int)
  BY AgentSysPerfAssumption DEF SweepInv, Shapes
<1>4. /\ pool'.throughputs \in Seq(Int) /\ pool'.latencies \in Seq(Int)
      /\ pool'.slo \in Seq(BOOLEAN)
  BY <1>1, <1>3
<1>5. Shapes'
  BY <1>2, <1>4 DEF SweepInv, Shapes
<1>6. MissShows'
  <2>1. /\ DOMAIN pool.slo = 1..Len(pool.slo) /\ DOMAIN pool'.slo = 1..(Len(pool.slo) + 1)
        /\ Len(pool.slo) \in Nat
        /\ \A i \in 1..Len(pool.slo) : pool'.slo[i] = pool.slo[i]
        /\ pool'.slo[Len(pool.slo) + 1] = passed
    BY <1>1, <1>3, AppendProperties
  <2>2. Len(pool.slo) + 1 \in DOMAIN pool'.slo /\ \A i \in DOMAIN pool.slo : i \in DOMAIN pool'.slo
    BY <2>1
  <2>3. (\E i \in DOMAIN pool.slo : ~pool.slo[i]) => \E i \in DOMAIN pool'.slo : ~pool'.slo[i]
    BY <2>1, <2>2
  <2>4. ~passed => \E i \in DOMAIN pool'.slo : ~pool'.slo[i]
    BY <2>1, <2>2
  <2> SUFFICES ASSUME NEW l \in missed'
               PROVE  \/ \E i \in DOMAIN points : points[i].level = l /\ ~points[i].slo
                      \/ Head(left) = l /\ \E i \in DOMAIN pool'.slo : ~pool'.slo[i]
    BY <1>2 DEF MissShows
  <2>5. l \in missed \/ (~passed /\ l = Head(left))
    BY <1>1
  <2> QED BY <2>3, <2>4, <2>5 DEF SweepInv, MissShows
<1>7. Reported'
  BY <1>2 DEF SweepInv, Reported
<1> QED BY <1>5, <1>6, <1>7 DEF SweepInv

LEMMA SweepStays == SweepInv /\ [Next]_vars => SweepInv'
<1> SUFFICES ASSUME SweepInv, [Next]_vars PROVE SweepInv'
  OBVIOUS
<1>1. CASE WriteSweep
  BY <1>1 DEF WriteSweep, campaignVars, SweepInv, Shapes, MissShows, Reported
<1>2. ASSUME UNCHANGED <<job, slo, sweepVars>> PROVE SweepInv'
  BY <1>2 DEF sweepVars, SweepInv, Shapes, MissShows, Reported
<1>3. ASSUME NEW f \in Folder, Emit(f) \/ Dump(f) PROVE SweepInv'
  BY <1>2, <1>3 DEF Emit, EmitOf, Dump
<1>4. CASE BeginMerge \/ EndWalk \/ ReadSummary \/ WriteMerge
  BY <1>2, <1>4 DEF BeginMerge, EndWalk, ReadSummary, WriteMerge
<1>5. CASE UNCHANGED vars
  BY <1>2, <1>5 DEF vars
<1> QED BY <1>1, <1>3, <1>4, <1>5, AggregateKeeps, MeasureKeeps DEF Next

LEMMA EmittedStays == Emitted /\ [Next]_vars => Emitted'
<1> SUFFICES ASSUME Emitted, [Next]_vars PROVE Emitted'
  OBVIOUS
<1>1. ASSUME UNCHANGED folder PROVE Emitted'
  BY <1>1 DEF Emitted
<1>2. CASE Measure \/ Aggregate \/ WriteSweep
  BY <1>1, <1>2 DEF Measure, Aggregate, WriteSweep, campaignVars
<1>3. CASE BeginMerge \/ EndWalk \/ ReadSummary \/ WriteMerge \/ UNCHANGED vars
  BY <1>1, <1>3 DEF BeginMerge, EndWalk, ReadSummary, WriteMerge, vars, campaignVars
<1>4. ASSUME NEW f \in Folder, Emit(f) PROVE Emitted'
  <2>1. PICK r \in Results :
          folder' = [folder EXCEPT ![f] = [is |-> "torn", kpi |-> BuildRunSummary(slo, r, Cost)]]
    BY <1>4 DEF Emit, EmitOf
  <2>2. BuildRunSummary(slo, r, Cost).density \in Int \cup {None}
    <3>1. r.vcpus \in Nat /\ r.agents \in Nat
      BY AgentSysPerfAssumption
    <3>2. BuildRunSummary(slo, r, Cost).density = Density(r)
      BY DEF BuildRunSummary
    <3> QED BY <3>1, <3>2 DEF Density
  <2> DEFINE kpi == BuildRunSummary(slo, r, Cost)
  <2> HIDE DEF kpi
  <2>3. folder' = [folder EXCEPT ![f] = [is |-> "torn", kpi |-> kpi]]
    BY <2>1 DEF kpi
  <2>4. kpi.density \in Int \cup {None}
    BY <2>2 DEF kpi
  <2> QED BY <2>3, <2>4 DEF Emitted
<1>5. ASSUME NEW f \in Folder, Dump(f) PROVE Emitted'
  <2>1. folder' = [folder EXCEPT ![f] = [is |-> "whole", kpi |-> folder[f].kpi]]
        /\ folder[f].is = "torn"
    BY <1>5 DEF Dump
  <2> QED BY <2>1 DEF Emitted
<1> QED BY <1>2, <1>3, <1>4, <1>5 DEF Next

\* A complete summary is complete for good, and stays as it is.
LEMMA CompleteStays ==
  Emitted /\ [Next]_vars => \A f \in Complete : f \in Complete' /\ folder'[f] = folder[f]
<1> SUFFICES ASSUME Emitted, [Next]_vars, NEW f \in Complete
             PROVE  f \in Complete' /\ folder'[f] = folder[f]
  OBVIOUS
<1>1. f \in Folder /\ folder[f].is = "whole"
  BY DEF Complete
<1>2. folder'[f] = folder[f]
  <2>1. CASE UNCHANGED folder
    BY <2>1
  <2>2. ASSUME NEW g \in Folder, Emit(g) PROVE folder'[f] = folder[f]
    <3>1. folder[g] = NoFile /\ g # f
      BY <1>1, <2>2 DEF Emit, EmitOf, NoFile
    <3> QED BY <1>1, <2>2, <3>1 DEF Emit, EmitOf, Emitted
  <2>3. ASSUME NEW g \in Folder, Dump(g) PROVE folder'[f] = folder[f]
    <3>1. g # f
      BY <1>1, <2>3 DEF Dump
    <3> QED BY <1>1, <2>3, <3>1 DEF Dump, Emitted
  <2>4. CASE Measure \/ Aggregate \/ WriteSweep
    BY <2>1, <2>4 DEF Measure, Aggregate, WriteSweep, campaignVars
  <2>5. CASE BeginMerge \/ EndWalk \/ ReadSummary \/ WriteMerge \/ UNCHANGED vars
    BY <2>1, <2>5 DEF BeginMerge, EndWalk, ReadSummary, WriteMerge, vars, campaignVars
  <2> QED BY <2>2, <2>3, <2>4, <2>5 DEF Next
<1> QED BY <1>1, <1>2 DEF Complete

LEMMA MergingStays == Emitted /\ Merging /\ [Next]_vars => Merging'
<1> SUFFICES ASSUME Emitted, Merging, [Next]_vars PROVE Merging'
  OBVIOUS
<1>1. Complete \subseteq Complete' /\ Existing \subseteq Folder /\ Complete \subseteq Existing
  <2>1. Complete \subseteq Complete'
    BY CompleteStays
  <2> QED BY <2>1 DEF Complete, Existing, NoFile
<1>2. ASSUME UNCHANGED merge PROVE Merging'
  BY <1>1, <1>2 DEF Merging
<1>3. CASE BeginMerge
  <2>1. merge' = [at |-> "walk", todo |-> Existing, rows |-> {}, before |-> Complete]
    BY <1>3 DEF BeginMerge
  <2> QED BY <1>1, <2>1 DEF Merging
<1>4. CASE EndWalk
  <2>1. PICK late \in SUBSET (Existing \ merge.todo) :
          merge' = [merge EXCEPT !.at = "read", !.todo = @ \cup late]
    BY <1>4 DEF EndWalk
  <2> QED BY <1>1, <2>1 DEF Merging
<1>5. CASE ReadSummary
  <2> DEFINE f == Min(merge.todo)
  <2>1. merge' = [merge EXCEPT !.todo = @ \ {f},
                    !.rows = IF folder[f].is = "whole" THEN @ \cup {f} ELSE @]
    BY <1>5 DEF ReadSummary
  <2>2. f \in Folder
    <3>1. merge.todo \subseteq Nat /\ merge.todo # {} /\ merge.todo \subseteq Folder
      BY <1>5, AgentSysPerfAssumption DEF ReadSummary, Merging, Folder
    <3>2. f \in merge.todo
      BY <3>1, MinIsFirst
    <3> QED BY <3>1, <3>2
  <2> HIDE DEF f
  <2>3. f \in Complete <=> folder[f].is = "whole"
    BY <2>2 DEF Complete
  <2> QED BY <1>1, <2>1, <2>3 DEF Merging
<1>6. CASE WriteMerge
  <2>1. merge' = NoMerge
    BY <1>6 DEF WriteMerge
  <2> QED BY <2>1 DEF Merging, NoMerge
<1>7. CASE Measure \/ Aggregate \/ WriteSweep \/ UNCHANGED vars
  BY <1>2, <1>7 DEF Measure, Aggregate, WriteSweep, vars, campaignVars
<1>8. ASSUME NEW f \in Folder, Emit(f) \/ Dump(f) PROVE Merging'
  BY <1>2, <1>8 DEF Emit, EmitOf, Dump
<1> QED BY <1>3, <1>4, <1>5, <1>6, <1>7, <1>8 DEF Next

\* The invariant holds in every behaviour of a sweep or campaign.
THEOREM AgentSysPerfInvariance == Spec => [](SweepInv /\ Emitted /\ Merging)
<1>1. Init => SweepInv /\ Emitted /\ Merging
  BY InitSweep
<1>2. SweepInv /\ Emitted /\ Merging /\ [Next]_vars => (SweepInv /\ Emitted /\ Merging)'
  BY SweepStays, EmittedStays, MergingStays
<1> QED BY <1>1, <1>2, PTL DEF Spec

\* percentile (percentiles.py) splits every pool of latencies as its name says,
\* and p50, p95 and p99 are in order.
THEOREM PercentilesRight == Spec => []PercentilesSplit
<1>1. SweepInv => PercentilesSplit
  <2> SUFFICES ASSUME SweepInv, pool.latencies # <<>>
               PROVE  /\ \A pct \in {0, 50, 95, 99, 100} : Splits(pool.latencies, pct)
                      /\ Percentile(pool.latencies, 50) <= Percentile(pool.latencies, 95)
                      /\ Percentile(pool.latencies, 95) <= Percentile(pool.latencies, 99)
    BY DEF PercentilesSplit
  <2>1. pool.latencies \in Seq(Int)
    BY DEF SweepInv, Shapes
  <2>2. \A pct \in {0, 50, 95, 99, 100} : Splits(pool.latencies, pct)
    <3> TAKE pct \in {0, 50, 95, 99, 100}
    <3>1. pct \in 0..100
      OBVIOUS
    <3> QED BY <2>1, <3>1, PercentileSplits
  <2>3. Percentile(pool.latencies, 50) <= Percentile(pool.latencies, 95)
    BY <2>1, PercentilesGrow
  <2>4. Percentile(pool.latencies, 95) <= Percentile(pool.latencies, 99)
    BY <2>1, PercentilesGrow
  <2> QED BY <2>2, <2>3, <2>4
<1> QED BY <1>1, AgentSysPerfInvariance, PTL

\* detect_capacity's loop reports the first level that saturates, or none.
THEOREM SaturationRight == Spec => []SaturationIsFirst
<1>1. SweepInv => SaturationIsFirst
  <2> SUFFICES ASSUME SweepInv, report # None
               PROVE  LET at == {i \in DOMAIN report.points : Saturates(report.points, i)} IN
                      IF at = {} THEN report.saturation = None
                      ELSE report.saturation = report.points[Min(at)].level
    BY DEF SaturationIsFirst
  <2>1. points \in Seq(Point) /\ report = DetectCapacity(points)
    BY DEF SweepInv, Shapes, Reported
  <2> QED BY <2>1, DetectFindsFirst
<1> QED BY <1>1, AgentSysPerfInvariance, PTL

\* The level that detect_capacity recommends is below every level of which a
\* repetition missed its SLO, and is the highest stable one below saturation.
THEOREM RecommendationSafe == Spec => []RecommendedSafe
<1>1. SweepInv => RecommendedSafe
  <2> SUFFICES ASSUME SweepInv, report # None, report.points # <<>> PROVE RecommendedSafe
    BY DEF RecommendedSafe
  <2>1. points \in Seq(Point) /\ report = DetectCapacity(points) /\ left = <<>>
    BY DEF SweepInv, Shapes, Reported
  <2>2. points # <<>>
    <3> SUFFICES ASSUME points = <<>> PROVE FALSE
      OBVIOUS
    <3>1. report.points = <<>>
      BY <2>1 DEF DetectCapacity
    <3> QED BY <3>1
  <2>3. \A l \in missed : \E i \in DOMAIN points : points[i].level = l /\ ~points[i].slo
    BY <2>1 DEF SweepInv, MissShows
  <2>4. LET below == {i \in DOMAIN report.points :
                        report.saturation = None \/ report.points[i].level < report.saturation}
        IN IF report.recommended = None THEN below = {}
           ELSE /\ \A i \in DOMAIN points : ~points[i].slo => points[i].level > report.recommended
                /\ \E i \in below : report.points[i].level = report.recommended
                /\ (\E i \in below : Stable(report.points[i])) =>
                     \A i \in below : Stable(report.points[i]) =>
                                        report.points[i].level <= report.recommended
    BY ONLY <2>1, <2>2, DetectIsSafe
  <2> QED BY <2>3, <2>4 DEF RecommendedSafe
<1> QED BY <1>1, AgentSysPerfInvariance, PTL

\* A summary that says that its run met the SLO is, when it is written, right by
\* the raw figures of the run: its completed tasks, its times per task and, but
\* for a run whose runtime is 0, what it cost (build_run_summary, evaluate_slo).
THEOREM PassesAreEarned == Spec => PassedIsEarned
<1> DEFINE Right == \A f \in Folder : folder[f] = NoFile /\ folder'[f] # NoFile =>
                      \A r \in Results : EmitOf(f, r) /\ folder'[f].kpi.slo = TRUE => Earned(slo, r)
<1>1. SweepInv /\ Emitted => Right
  <2> SUFFICES ASSUME SweepInv, Emitted, NEW f \in Folder, NEW r \in Results,
                      EmitOf(f, r), folder'[f].kpi.slo = TRUE
               PROVE  Earned(slo, r)
    OBVIOUS
  <2>1. folder'[f].kpi = BuildRunSummary(slo, r, Cost)
    BY DEF EmitOf, Emitted
  <2>2. SloPassed(slo, r, Cost) = TRUE
    BY <2>1 DEF BuildRunSummary
  <2>3. slo \in Thresholds
    BY DEF SweepInv, Shapes
  <2> QED BY <2>2, <2>3, VerdictIsEarned
<1>2. Right => [\A f \in Folder : folder[f] = NoFile /\ folder'[f] # NoFile =>
                 \A r \in Results : EmitOf(f, r) /\ folder'[f].kpi.slo = TRUE =>
         LET times == Latencies(r)
             over == {i \in DOMAIN times : 100 * times[i] > slo.p95}
         IN /\ slo.success # None => r.total > 0 /\ 100 * r.completed >= slo.success * r.total
            /\ slo.cost # None =>
                 /\ r.completed > 0
                 /\ r.runtime = 0 \/ Spent(r) < (slo.cost + 1) * r.completed
            /\ slo.p95 # None =>
                 times # <<>> /\ 100 * Cardinality(over) <= 5 * (Len(times) - 1) + 99]_vars
  BY DEF Earned
<1> QED BY <1>1, <1>2, AgentSysPerfInvariance, PTL DEF PassedIsEarned

-----------------------------------------------------------------------------
(* The merge. *)

\* Among summaries whose ranks are known there is a first densest one.
LEMMA DensestExists ==
  ASSUME NEW among \in SUBSET Folder, among # {}, \A f \in among : Rank(f) \in Int
  PROVE  \E f \in among : \A g \in among : Rank(g) < Rank(f) \/ (Rank(g) = Rank(f) /\ f <= g)
<1> DEFINE R == {fg \in among \X among :
                   \/ Rank(fg[2]) < Rank(fg[1])
                   \/ Rank(fg[2]) = Rank(fg[1]) /\ fg[1] < fg[2]}
<1>1. \A f, g \in among : <<f, g>> \in R <=> Rank(g) < Rank(f) \/ (Rank(g) = Rank(f) /\ f < g)
  OBVIOUS
<1> HIDE DEF R
<1>2. Folders \in Nat /\ among \in SUBSET (1..Folders)
  BY AgentSysPerfAssumption DEF Folder
<1>3. IsOrder(R, among)
  BY <1>1, <1>2 DEF IsOrder
<1>4. Folders \in Nat
  BY <1>2
<1>5. PICK f \in among : \A g \in among \ {f} : <<f, g>> \in R
  <2>1. among \in SUBSET (1..Folders)
    BY <1>2
  <2> QED BY ONLY <1>3, <1>4, <2>1, among # {}, FirstExists
<1>6. \A g \in among : Rank(g) < Rank(f) \/ (Rank(g) = Rank(f) /\ f <= g)
  <2> TAKE g \in among
  <2>1. f \in Int /\ g \in Int
    BY <1>2
  <2>2. CASE g = f
    BY <2>1, <2>2
  <2>3. CASE g # f
    <3>1. <<f, g>> \in R
      BY <1>5, <2>3
    <3>2. Rank(g) < Rank(f) \/ (Rank(g) = Rank(f) /\ f < g)
      BY <1>1, <3>1
    <3> QED BY <2>1, <3>2
  <2> QED BY <2>2, <2>3
<1> QED BY <1>6

\* Every workload of which a summary was complete when merge_run_summaries began
\* gets a row; a row is of a complete summary, and is the densest of those that
\* met their SLO if one that was complete then did, whatever is written meanwhile.
THEOREM MergesAreDensest == Spec => MergedIsDensest
<1> DEFINE done(w) == {f \in merge.before : WorkloadOf[f] = w}
<1> DEFINE passing(w) == {f \in done(w) : folder[f].kpi.slo = TRUE}
<1> DEFINE Right(w) ==
      LET row == merged'[w] IN
      /\ done(w) # {} => row # None
      /\ row # None => row \in Complete /\ WorkloadOf[row] = w
      /\ passing(w) # {} => /\ folder[row].kpi.slo = TRUE
                            /\ \A f \in passing(w) : Rank(f) <= Rank(row)
<1>1. ASSUME Emitted, Merging, WriteMerge, NEW w \in Workload PROVE Right(w)
  <2> DEFINE rows == {f \in merge.rows : WorkloadOf[f] = w}
  <2> DEFINE met == {f \in rows : folder[f].kpi.slo = TRUE}
  <2> DEFINE among == IF met = {} THEN rows ELSE met
  <2> DEFINE best == {f \in among : \A g \in among :
                        Rank(g) < Rank(f) \/ (Rank(g) = Rank(f) /\ f <= g)}
  <2>1. done(w) \subseteq rows /\ passing(w) \subseteq met
        /\ rows \subseteq Complete /\ Complete \subseteq Folder
    <3>1. merge.todo = {} /\ merge.before \subseteq merge.rows
      BY <1>1 DEF WriteMerge, Merging
    <3> QED BY <1>1, <3>1 DEF Merging, Complete
  <2>2. BestOf(rows) = best
    BY DEF BestOf
  <2>3. (best = {} => merged'[w] = None) /\ (best # {} => merged'[w] \in best)
    <3> DEFINE top == [v \in Workload |-> BestOf({f \in merge.rows : WorkloadOf[f] = v})]
    <3>1. merged' = [v \in Workload |-> IF top[v] = {} THEN None ELSE CHOOSE f \in top[v] : TRUE]
      BY <1>1 DEF WriteMerge
    <3>2. top[w] = best
      BY <2>2
    <3> HIDE DEF best, top
    <3>3. (top[w] = {} => merged'[w] = None) /\ (top[w] # {} => merged'[w] \in top[w])
      BY <3>1
    <3> QED BY <3>2, <3>3
  <2> HIDE DEF best
  <2>4. \A f \in rows : Rank(f) \in Int
    BY <1>1, <2>1 DEF Emitted, Rank, Complete
  <2>5. among \in SUBSET Folder /\ among \subseteq rows /\ \A f \in among : Rank(f) \in Int
    BY <2>1, <2>4
  <2>6. among # {} => best # {}
    <3> HIDE DEF among
    <3> QED BY <2>5, DensestExists DEF best
  <2>7. among = {} <=> rows = {}
    OBVIOUS
  <2>8. CASE rows = {}
    <3>1. merged'[w] = None
      BY <2>3, <2>7, <2>8 DEF best
    <3> QED BY <2>1, <2>8, <3>1
  <2>9. CASE rows # {}
    <3> DEFINE row == merged'[w]
    <3>1. row \in best
      <4> HIDE DEF among
      <4> QED BY <2>3, <2>6, <2>7, <2>9
    <3>2. row \in among /\ \A g \in among : Rank(g) < Rank(row) \/ Rank(g) = Rank(row)
      BY <3>1 DEF best
    <3>3. \A g \in among : Rank(g) <= Rank(row)
      <4> HIDE DEF among, row
      <4> QED BY <2>5, <3>2
    <3>4. row \in rows /\ row # None
      <4>1. row \in rows
        BY <2>5, <3>2
      <4>2. row \in Int
        <5>1. row \in Folder
          BY <2>1, <4>1
        <5> HIDE DEF row
        <5> QED BY <5>1, AgentSysPerfAssumption DEF Folder
      <4> QED BY <4>1, <4>2, NoneAssumption
    <3>5. ASSUME passing(w) # {}
          PROVE  folder[row].kpi.slo = TRUE /\ \A f \in passing(w) : Rank(f) <= Rank(row)
      <4>1. among = met
        BY <2>1, <3>5
      <4> HIDE DEF among
      <4>2. row \in met /\ passing(w) \subseteq among
        BY <2>1, <3>2, <4>1
      <4> QED BY <3>3, <4>2
    <3>6. row \in Complete /\ WorkloadOf[row] = w
      BY <2>1, <3>4
    <3> QED BY <3>4, <3>5, <3>6
  <2> QED BY <2>8, <2>9
<1>2. Emitted /\ Merging => (WriteMerge => \A w \in Workload : Right(w))
  BY <1>1
<1>3. Emitted /\ Merging /\ [Next]_vars => [WriteMerge => \A w \in Workload : Right(w)]_vars
  BY <1>2
<1> QED BY <1>3, AgentSysPerfInvariance, PTL DEF Spec, MergedIsDensest
=============================================================================
