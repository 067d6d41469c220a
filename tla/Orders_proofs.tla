--------------------------- MODULE Orders_proofs ---------------------------
(***************************************************************************)
(* Lemmas about positions in a sequence: induction over a bound, the first *)
(* position of a set in some order, stable sorting, and the results of a   *)
(* loop.  Induction is stated for sets instead of predicates.              *)
(***************************************************************************)
EXTENDS Orders, Sequences, FiniteSetsExt, FiniteSetTheorems, FunctionTheorems,
        WellFoundedInduction, TLAPS

LEMMA LessIsWellFounded == IsWellFoundedOn({ss \in Nat \X Nat : ss[1] < ss[2]}, Nat)
<1>1. OpToRel(<, Nat) = {ss \in Nat \X Nat : ss[1] < ss[2]}
  BY DEF OpToRel
<1> QED BY <1>1, NatLessThanWellFounded

LEMMA LeastExists ==
  ASSUME NEW T, T \subseteq Nat, T # {}
  PROVE  \E x \in T : \A y \in T : x <= y
<1> DEFINE R == {ss \in Nat \X Nat : ss[1] < ss[2]}
<1>1. PICK x \in T : \A y \in T : <<y, x>> \notin R
  BY LessIsWellFounded, WFMin
<1>2. \A k, l \in Nat : <<l, k>> \notin R => k <= l
  OBVIOUS
<1> HIDE DEF R
<1> QED BY <1>1, <1>2

\* Induction: a set of numbers with 0 and every successor has all of them.
LEMMA Induct ==
  ASSUME NEW S, 0 \in S, \A n \in S \cap Nat : n + 1 \in S
  PROVE  Nat \subseteq S
<1> DEFINE T == Nat \ S
<1> SUFFICES ASSUME T # {} PROVE FALSE
  OBVIOUS
<1>1. PICK x \in T : \A y \in T : x <= y
  <2>1. T \subseteq Nat
    OBVIOUS
  <2> HIDE DEF T
  <2> QED BY <2>1, LeastExists
<1>2. x # 0 /\ x - 1 \in Nat /\ x - 1 \notin T
  BY <1>1
<1> QED BY <1>1, <1>2

IsOrder(R, S) ==
  /\ \A i, j \in S : i # j => <<i, j>> \in R \/ <<j, i>> \in R
  /\ \A i, j, k \in S : <<i, j>> \in R /\ <<j, k>> \in R => <<i, k>> \in R

\* A total order on positions up to n has a first one in every set of them.
LEMMA FirstExists ==
  ASSUME NEW n \in Nat, NEW S \in SUBSET (1..n), S # {}, NEW R, IsOrder(R, S)
  PROVE  \E i \in S : \A j \in S \ {i} : <<i, j>> \in R
<1> USE DEF IsOrder
<1> DEFINE Has(m) == \A U \in SUBSET (S \cap (1..m)) :
                       U # {} => \E i \in U : \A j \in U \ {i} : <<i, j>> \in R
<1> DEFINE N == {m \in Nat : Has(m)}
<1>1. 0 \in N
  <2>1. 1..0 = {}
    OBVIOUS
  <2> QED BY <2>1
<1>2. ASSUME NEW m \in N \cap Nat PROVE m + 1 \in N
  <2> SUFFICES ASSUME NEW U \in SUBSET (S \cap (1..(m + 1))), U # {}
               PROVE  \E i \in U : \A j \in U \ {i} : <<i, j>> \in R
    OBVIOUS
  <2> DEFINE V == U \ {m + 1}
  <2>1. V \in SUBSET (S \cap (1..m))
    OBVIOUS
  <2>2. CASE V = {}
    BY <2>2
  <2>3. CASE V # {}
    <3>1. PICK i \in V : \A j \in V \ {i} : <<i, j>> \in R
      BY <2>1, <2>3
    <3>2. CASE m + 1 \notin U
      <4>1. U = V
        BY <3>2
      <4> QED BY <3>1, <4>1
    <3>3. CASE m + 1 \in U /\ <<i, m + 1>> \in R
      BY <3>1, <3>3
    <3>4. CASE m + 1 \in U /\ <<m + 1, i>> \in R
      <4>1. \A j \in U \ {m + 1} : <<m + 1, j>> \in R
        BY <3>1, <3>4
      <4> QED BY <3>4, <4>1
    <3>5. m + 1 \in U => <<i, m + 1>> \in R \/ <<m + 1, i>> \in R
      <4>1. i # m + 1 /\ i \in S
        OBVIOUS
      <4> QED BY <4>1
    <3> QED BY <3>2, <3>3, <3>4, <3>5
  <2> QED BY <2>2, <2>3
<1>3. n \in N
  <2> HIDE DEF N
  <2> QED BY <1>1, <1>2, Induct
<1> QED BY <1>3

LEMMA MinIsFirst ==
  ASSUME NEW S, S \subseteq Nat, S # {}
  PROVE  Min(S) \in S /\ \A j \in S : Min(S) <= j
  BY LeastExists DEF Min

LEMMA MaxIsLast ==
  ASSUME NEW n \in Nat, NEW S \in SUBSET (1..n), S # {}
  PROVE  Max(S) \in S /\ \A j \in S : Max(S) >= j
<1> DEFINE T == {m \in Nat : \A j \in S : j <= m}
<1>1. PICK m \in T : \A k \in T : m <= k
  <2>1. n \in T
    OBVIOUS
  <2>2. T \subseteq Nat
    OBVIOUS
  <2>3. T # {}
    BY ONLY <2>1
  <2> HIDE DEF T
  <2> QED BY <2>2, <2>3, LeastExists
<1>2. m \in S
  <2> SUFFICES ASSUME m \notin S PROVE FALSE
    OBVIOUS
  <2>1. \A j \in S : j <= m - 1 /\ j >= 1
    OBVIOUS
  <2>2. m \in Nat /\ m - 1 \in Nat
    <3>1. PICK j \in S : TRUE
      OBVIOUS
    <3>2. m \in Nat
      OBVIOUS
    <3> QED BY <2>1, <3>1, <3>2
  <2>3. m - 1 \in T
    BY <2>1, <2>2
  <2>4. ~(m <= m - 1)
    BY <2>2
  <2> HIDE DEF T
  <2> QED BY <1>1, <2>3, <2>4
<1>3. \A j \in S : m >= j
  OBVIOUS
<1> QED BY <1>2, <1>3 DEF Max

\* A loop over n items: its body is a function on S for each of them, and g has
\* what it has come to after each.
Bodies(n, S) == [1..n -> [S -> S]]
IsLoop(g, n, S, base, body) ==
  g \in [0..n -> S] /\ g[0] = base /\ \A i \in 1..n : g[i] = body[i][g[i - 1]]

\* Every such loop has a result.
LEMMA LoopEnds ==
  ASSUME NEW S, NEW base \in S, NEW n \in Nat, NEW body \in Bodies(n, S)
  PROVE  \E g : IsLoop(g, n, S, base, body)
<1>0. body \in [1..n -> [S -> S]]
  BY DEF Bodies
<1> DEFINE Runs(m, g) == g[0] = base /\ \A i \in 1..m : i <= n => g[i] = body[i][g[i - 1]]
<1> DEFINE N == {m \in Nat : \E g \in [0..m -> S] : Runs(m, g)}
<1>1. 0 \in N
  <2>1. [i \in 0..0 |-> base] \in [0..0 -> S]
    OBVIOUS
  <2>2. Runs(0, [i \in 0..0 |-> base])
    OBVIOUS
  <2> QED BY <2>1, <2>2
<1>2. ASSUME NEW m \in N \cap Nat PROVE m + 1 \in N
  <2>1. PICK g \in [0..m -> S] : Runs(m, g)
    OBVIOUS
  <2> DEFINE last == IF m + 1 <= n THEN body[m + 1][g[m]] ELSE base
  <2> DEFINE h == [i \in 0..(m + 1) |-> IF i = m + 1 THEN last ELSE g[i]]
  <2>2. last \in S
    BY <1>0
  <2>3. h \in [0..(m + 1) -> S]
    BY <2>2
  <2>4. h[m + 1] = last /\ \A i \in 0..m : h[i] = g[i]
    OBVIOUS
  <2>5. Runs(m + 1, h)
    <3> HIDE DEF h
    <3> QED BY <2>1, <2>4
  <2>6. \E f \in [0..(m + 1) -> S] : Runs(m + 1, f)
    <3> HIDE DEF h, Runs
    <3> QED BY <2>3, <2>5
  <2> QED BY <2>6
<1>3. n \in N
  <2> HIDE DEF N
  <2> QED BY <1>1, <1>2, Induct
<1>4. PICK g \in [0..n -> S] : Runs(n, g)
  BY <1>3
<1> QED BY <1>4 DEF IsLoop

\* As many positions of T as there are between a and b, if order puts there only
\* positions of T.
LEMMA AtLeast ==
  ASSUME NEW n \in Nat, NEW T \in SUBSET (1..n), NEW a \in 1..(n + 1), NEW b \in 0..n,
         NEW order, \A k \in a..b : order[k] \in T,
         \A k, l \in a..b : order[k] = order[l] => k = l
  PROVE  Cardinality(T) \in Nat /\ b - a + 1 <= Cardinality(T) /\ Cardinality(T) <= n
<1> DEFINE f == [k \in a..b |-> order[k]]
<1>1. f \in Injection(a..b, T)
  BY DEF Injection, IsInjective
<1>2. IsFiniteSet(1..n) /\ Cardinality(1..n) = n
  BY FS_Interval
<1>3. IsFiniteSet(T) /\ Cardinality(T) <= n
  <2>1. T \in SUBSET (1..n)
    OBVIOUS
  <2> QED BY ONLY <1>2, <2>1, FS_Subset
<1>4. Cardinality(a..b) <= Cardinality(T)
  BY ONLY <1>1, <1>3, FS_Injection
<1>5. Cardinality(a..b) = IF a > b THEN 0 ELSE b - a + 1
  BY FS_Interval
<1>6. Cardinality(T) \in Nat
  BY <1>3, FS_CardinalityType
<1> QED BY <1>3, <1>4, <1>5, <1>6

-----------------------------------------------------------------------------
(* Sorting. *)

\* SortOrder lists every position once, in order.
LEMMA SortOrderSorts ==
  ASSUME NEW n \in Nat, NEW keys \in [1..n -> Int]
  PROVE  /\ SortOrder(keys) \in [1..n -> 1..n]
         /\ \A k, l \in 1..n : k < l => Before(keys, SortOrder(keys)[k], SortOrder(keys)[l])
         /\ \A i \in 1..n : \E k \in 1..n : SortOrder(keys)[k] = i
<1> DEFINE P == 1..n
<1> DEFINE Ahead(i) == {j \in P : Before(keys, j, i)}
<1> DEFINE rank == [i \in P |-> Cardinality(Ahead(i))]
<1> DEFINE order == SortOrder(keys)
<1>0. IsFiniteSet(P) /\ Cardinality(P) = n
  BY FS_Interval
<1>1. \A i, j \in P : i # j => Before(keys, i, j) \/ Before(keys, j, i)
  BY DEF Before
<1>2. \A i, j, k \in P : Before(keys, i, j) /\ Before(keys, j, k) => Before(keys, i, k)
  BY DEF Before
<1>3. \A i \in P : ~Before(keys, i, i)
  BY DEF Before
<1>4. \A i \in P : IsFiniteSet(Ahead(i)) /\ rank[i] \in 0..(n - 1)
  <2> TAKE i \in P
  <2>1. Ahead(i) \in SUBSET P /\ i \notin Ahead(i)
    BY <1>3
  <2>2. IsFiniteSet(Ahead(i)) /\ Cardinality(Ahead(i)) <= n /\ Cardinality(Ahead(i)) # n
    BY <1>0, <2>1, FS_Subset
  <2>3. Cardinality(Ahead(i)) \in Nat
    BY <2>2, FS_CardinalityType
  <2> QED BY <2>2, <2>3
<1>5. \A i, j \in P : Before(keys, i, j) => rank[i] < rank[j]
  <2> SUFFICES ASSUME NEW i \in P, NEW j \in P, Before(keys, i, j) PROVE rank[i] < rank[j]
    OBVIOUS
  <2>1. Ahead(i) \in SUBSET Ahead(j) /\ i \in Ahead(j) /\ i \notin Ahead(i)
    BY <1>2, <1>3
  <2>2. Cardinality(Ahead(i)) <= Cardinality(Ahead(j)) /\ Cardinality(Ahead(i)) # Cardinality(Ahead(j))
    BY <1>4, <2>1, FS_Subset
  <2>3. Cardinality(Ahead(i)) \in Nat /\ Cardinality(Ahead(j)) \in Nat
    BY <1>4, FS_CardinalityType
  <2>4. rank[i] = Cardinality(Ahead(i)) /\ rank[j] = Cardinality(Ahead(j))
    OBVIOUS
  <2> HIDE DEF rank, Ahead
  <2> QED BY <2>2, <2>3, <2>4
<1> HIDE DEF rank
<1>6. rank \in Bijection(P, 0..(n - 1))
  <2>1. rank \in Injection(P, 0..(n - 1))
    <3>1. rank \in [P -> 0..(n - 1)]
      BY <1>4 DEF rank
    <3>2. \A i, j \in P : rank[i] = rank[j] => i = j
      <4> SUFFICES ASSUME NEW i \in P, NEW j \in P, i # j PROVE rank[i] # rank[j]
        OBVIOUS
      <4>1. rank[i] < rank[j] \/ rank[j] < rank[i]
        BY <1>1, <1>5
      <4>2. rank[i] \in 0..(n - 1) /\ rank[j] \in 0..(n - 1)
        BY <1>4
      <4> QED BY <4>1, <4>2
    <3> QED BY <3>1, <3>2 DEF Injection, IsInjective
  <2>2. IsFiniteSet(0..(n - 1)) /\ Cardinality(0..(n - 1)) = n
    BY FS_Interval
  <2>3. rank \in Surjection(P, 0..(n - 1))
    BY ONLY <1>0, <2>1, <2>2, FS_Injection
  <2> QED BY <2>1, <2>3 DEF Bijection
<1>7. \A k \in P : order[k] \in P /\ rank[order[k]] = k - 1
  <2> TAKE k \in P
  <2>1. k - 1 \in 0..(n - 1)
    OBVIOUS
  <2>2. \E i \in P : rank[i] = k - 1
    BY <1>6, <2>1 DEF Bijection, Surjection
  <2>3. \E i \in P : Cardinality(Ahead(i)) = k - 1
    BY <2>2 DEF rank
  <2>4. order[k] = CHOOSE i \in P : Cardinality(Ahead(i)) = k - 1
    BY DEF SortOrder
  <2>5. \A i \in P : rank[i] = Cardinality(Ahead(i))
    BY DEF rank
  <2> HIDE DEF Ahead, order
  <2> QED BY <2>3, <2>4, <2>5
<1>8. order = [k \in P |-> order[k]]
  <2> DEFINE At(k) == CHOOSE i \in P : Cardinality(Ahead(i)) = k - 1
  <2>1. DOMAIN keys = P
    OBVIOUS
  <2>2. order = [k \in P |-> At(k)]
    BY <2>1 DEF SortOrder
  <2> HIDE DEF order, At
  <2> QED BY <2>2
<1> HIDE DEF order, Ahead
<1>9. order \in [P -> P]
  BY <1>7, <1>8
<1>10. \A k, l \in P : k < l => Before(keys, order[k], order[l])
  <2> SUFFICES ASSUME NEW k \in P, NEW l \in P, k < l PROVE Before(keys, order[k], order[l])
    OBVIOUS
  <2>1. order[k] # order[l] /\ ~(rank[order[l]] < rank[order[k]])
    BY <1>7
  <2> QED BY <1>1, <1>5, <1>7, <2>1
<1>11. \A i \in P : \E k \in P : order[k] = i
  <2> TAKE i \in P
  <2>1. rank[i] + 1 \in P
    BY <1>4
  <2>2. rank[order[rank[i] + 1]] = rank[i] /\ order[rank[i] + 1] \in P
    BY <1>4, <1>7, <2>1
  <2>3. order[rank[i] + 1] = i
    BY <1>6, <2>2 DEF Bijection, Injection, IsInjective
  <2> QED BY <2>1, <2>3
<1> QED BY <1>9, <1>10, <1>11 DEF order
=============================================================================
