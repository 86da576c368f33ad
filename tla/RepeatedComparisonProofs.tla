----------------------- MODULE RepeatedComparisonProofs -----------------------
(***************************************************************************)
(* Proofs about the comparison of repeated runs, for any number of         *)
(* repetitions, behaviors and limits: what reduceRepeated folds, step by   *)
(* step, and from it what the gate, the statistics and the record say.     *)
(***************************************************************************)
EXTENDS RepeatedComparison, SequenceTheorems, FiniteSetTheorems, WellFoundedInduction, TLAPS

-----------------------------------------------------------------------------
(* Sums and extrema over finite sets.                                        *)

\* A set of naturals that is not empty has a least element.
LEMMA LeastOf ==
  ASSUME NEW T, T \subseteq Nat, T # {}
  PROVE  \E m \in T : \A k \in T : m <= k
  <1> DEFINE R == {ss \in Nat \X Nat : ss[1] < ss[2]}
  <1>1. IsWellFoundedOn(R, Nat)
    BY NatLessThanWellFounded DEF OpToRel
  <1>2. PICK m \in T : \A y \in T : <<y, m>> \notin R
    BY <1>1, WFMin
  <1>3. \A y \in T : ~(y < m)
    BY <1>2
  <1>. QED
    BY <1>3

\* The minimum of such a set.
LEMMA MinIs ==
  ASSUME NEW T, T \subseteq Nat, NEW m \in T, \A k \in T : m <= k
  PROVE  Min(T) = m
  <1> DEFINE c == CHOOSE x \in T : \A y \in T : x =< y
  <1>1. c \in T /\ \A y \in T : c <= y
    OBVIOUS
  <1> HIDE DEF c
  <1>2. c \in Nat /\ m \in Nat /\ c <= m /\ m <= c
    BY <1>1
  <1>3. c = m
    BY <1>2
  <1>. QED
    BY <1>3 DEF Min, c

\* The maximum of a set that has one.
LEMMA MaxIs ==
  ASSUME NEW T, T \subseteq Nat, NEW m \in T, \A k \in T : k <= m
  PROVE  Max(T) = m
  <1> DEFINE c == CHOOSE x \in T : \A y \in T : x >= y
  <1>1. \A y \in T : m >= y
    OBVIOUS
  <1>2. c \in T /\ \A y \in T : c >= y
    BY <1>1
  <1> HIDE DEF c
  <1>3. c \in Nat /\ m \in Nat /\ c <= m /\ m <= c
    BY <1>2
  <1>4. c = m
    BY <1>3
  <1>. QED
    BY <1>4 DEF Max, c

\* A function on a finite set, not empty, has a greatest value.
LEMMA GreatestOf ==
  ASSUME NEW D, IsFiniteSet(D), D # {}, NEW g, \A x \in D : g[x] \in Nat
  PROVE  \E x \in D : \A y \in D : g[y] <= g[x]
  <1> DEFINE Over(x) == {y \in D : g[y] > g[x]}
             T == {k \in Nat : \E x \in D : k = Cardinality(Over(x))}
  <1>1. ASSUME NEW x \in D PROVE IsFiniteSet(Over(x)) /\ Cardinality(Over(x)) \in Nat
    BY FS_Subset, FS_CardinalityType
  <1>2. T # {} /\ T \subseteq Nat
    BY <1>1
  <1>3. PICK k \in T : \A m \in T : k <= m
    BY <1>2, LeastOf
  <1>4. PICK x \in D : k = Cardinality(Over(x))
    BY <1>3
  <1>5. ASSUME NEW y \in D, ~(g[y] <= g[x]) PROVE FALSE
    <2>1. g[y] > g[x] /\ y \in Over(x) /\ y \notin Over(y)
      BY <1>5
    <2>2. Over(y) \subseteq Over(x)
      BY <2>1
    <2>3. Over(y) # Over(x)
      BY <2>1
    <2>4. Cardinality(Over(y)) < Cardinality(Over(x))
      <3> HIDE DEF Over
      <3>1. Cardinality(Over(y)) <= Cardinality(Over(x)) /\ Cardinality(Over(y)) # Cardinality(Over(x))
        BY <1>1, <2>2, <2>3, FS_Subset
      <3>. QED
        BY <1>1, <3>1
    <2>5. Cardinality(Over(y)) \in T
      BY <1>1
    <2> HIDE DEF Over, T
    <2>. QED
      BY <1>1, <1>3, <1>4, <2>4, <2>5
  <1>. QED
    BY <1>5

\* The calls of g over S, one by one.
Pairs(S, g) == UNION {{x} \X (1..g[x]) : x \in S}
Total(S, g) == Cardinality(Pairs(S, g))

\* One more run adds its calls.
LEMMA TotalAdds ==
  ASSUME NEW S, NEW g, IsFiniteSet(Pairs(S, g)), NEW x, x \notin S, g[x] \in Nat
  PROVE  /\ IsFiniteSet(Pairs(S \cup {x}, g))
         /\ Total(S, g) \in Nat
         /\ Total(S \cup {x}, g) = Total(S, g) + g[x]
  <1> DEFINE P == Pairs(S, g)
             N == {x} \X (1..g[x])
  <1>1. Pairs(S \cup {x}, g) = P \cup N
    BY DEF Pairs
  <1>2. IsFiniteSet({x}) /\ Cardinality({x}) = 1
    BY FS_Singleton
  <1>3. IsFiniteSet(1..g[x]) /\ Cardinality(1..g[x]) = g[x]
    BY FS_Interval
  <1>4. IsFiniteSet(N) /\ Cardinality(N) = g[x]
    <2>1. IsFiniteSet(N) /\ Cardinality(N) = Cardinality({x}) * Cardinality(1..g[x])
      BY <1>2, <1>3, FS_Product
    <2>2. 1 * g[x] = g[x]
      OBVIOUS
    <2>. QED
      BY <1>2, <1>3, <2>1, <2>2
  <1>5. P \cap N = {}
    BY DEF Pairs
  <1> HIDE DEF P, N
  <1>6. IsFiniteSet(P) /\ Cardinality(P) \in Nat
    BY FS_CardinalityType DEF P
  <1>7. IsFiniteSet(P \cup N) /\ Cardinality(P \cup N) = Cardinality(P) + Cardinality(N) - Cardinality(P \cap N)
    BY <1>4, <1>6, FS_Union
  <1>8. Cardinality(P \cap N) = 0
    BY <1>5, FS_EmptySet
  <1>9. Cardinality(P \cup N) = Cardinality(P) + g[x]
    BY <1>4, <1>6, <1>7, <1>8
  <1>. QED
    BY <1>1, <1>6, <1>7, <1>9 DEF Total, P

\* A part's total is no more than the whole's.
LEMMA TotalOfPart ==
  ASSUME NEW S, NEW g, IsFiniteSet(Pairs(S, g)), NEW x \in S, g[x] \in Nat
  PROVE  Total(S, g) \in Nat /\ g[x] <= Total(S, g)
  <1> DEFINE N == {x} \X (1..g[x])
  <1>1. N \subseteq Pairs(S, g)
    BY DEF Pairs
  <1>2. IsFiniteSet({x}) /\ Cardinality({x}) = 1
    BY FS_Singleton
  <1>3. IsFiniteSet(1..g[x]) /\ Cardinality(1..g[x]) = g[x]
    BY FS_Interval
  <1>4. Cardinality(N) = g[x]
    <2>1. IsFiniteSet(N) /\ Cardinality(N) = Cardinality({x}) * Cardinality(1..g[x])
      BY <1>2, <1>3, FS_Product
    <2>2. 1 * g[x] = g[x]
      OBVIOUS
    <2>. QED
      BY <1>2, <1>3, <2>1, <2>2
  <1> HIDE DEF N
  <1>5. Cardinality(N) <= Cardinality(Pairs(S, g)) /\ Cardinality(Pairs(S, g)) \in Nat
    BY <1>1, FS_Subset, FS_CardinalityType
  <1>. QED
    BY <1>4, <1>5 DEF Total

-----------------------------------------------------------------------------
(* The accumulator: what it says of a set of runs.                           *)

AccType == [total : Nat, max : Nat, minPresent : Nat, presentRuns : Nat]

\* The runs of S that make a call.
Calling(S, g) == {x \in S : g[x] > 0}

\* a is right about the calls g over the runs S.
AccRight(a, S, g) ==
  /\ a \in AccType /\ IsFiniteSet(S) /\ IsFiniteSet(Pairs(S, g))
  /\ \A x \in S : g[x] \in Nat
  /\ a.presentRuns = Cardinality(Calling(S, g))
  /\ a.total = Total(S, g)
  /\ \A x \in S : g[x] <= a.max
  /\ a.max = 0 \/ \E x \in S : g[x] = a.max
  /\ a.presentRuns > 0 => \E x \in S : g[x] > 0 /\ g[x] = a.minPresent
  /\ \A x \in S : g[x] > 0 => a.minPresent <= g[x]
  /\ a.minPresent * a.presentRuns <= a.total /\ a.total <= a.max * a.presentRuns

\* Nothing was called in no run.
LEMMA NoCallsRight ==
  ASSUME NEW g PROVE AccRight(NoCalls, {}, g)
  <1>1. NoCalls \in AccType /\ NoCalls.total = 0 /\ NoCalls.max = 0 /\ NoCalls.minPresent = 0 /\ NoCalls.presentRuns = 0
    BY DEF NoCalls, AccType
  <1>2. Pairs({}, g) = {} /\ Calling({}, g) = {}
    BY DEF Pairs, Calling
  <1>3. IsFiniteSet({}) /\ Cardinality({}) = 0
    BY FS_EmptySet
  <1>. QED
    BY <1>1, <1>2, <1>3 DEF AccRight, Total

\* The bounds of the mean, for one run more.
LEMMA MeanBounds ==
  ASSUME NEW t \in Nat, NEW p \in Nat, NEW lo \in Nat, NEW hi \in Nat, NEW c \in Nat, NEW lo2 \in Nat, NEW hi2 \in Nat,
         lo * p <= t, t <= hi * p, p = 0 \/ lo2 <= lo, lo2 <= c, hi <= hi2, c <= hi2
  PROVE  lo2 * (p + 1) <= t + c /\ t + c <= hi2 * (p + 1)
  <1>1. lo2 * (p + 1) = lo2 * p + lo2 /\ hi2 * (p + 1) = hi2 * p + hi2
    OBVIOUS
  <1>2. lo2 * p <= lo * p
    <2>1. CASE p = 0
      BY <2>1
    <2>2. CASE lo2 <= lo
      BY <2>2
    <2>. QED
      BY <2>1, <2>2
  <1>3. hi * p <= hi2 * p
    OBVIOUS
  <1>4. /\ lo2 * p \in Nat /\ lo * p \in Nat /\ hi * p \in Nat /\ hi2 * p \in Nat
    OBVIOUS
  <1>. QED
    BY <1>1, <1>2, <1>3, <1>4

\* addRun keeps an accumulator right.
LEMMA AddRunRight ==
  ASSUME NEW a, NEW S, NEW g, AccRight(a, S, g), NEW x, x \notin S, g[x] \in Nat
  PROVE  AccRight(addRun(a, g[x]), S \cup {x}, g)
  <1> DEFINE c == g[x]
             b == addRun(a, c)
             U == S \cup {x}
  <1>1. /\ a.total \in Nat /\ a.max \in Nat /\ a.minPresent \in Nat /\ a.presentRuns \in Nat /\ IsFiniteSet(S)
        /\ a \in AccType
    BY DEF AccRight, AccType
  <1>2. IsFiniteSet(Pairs(U, g)) /\ Total(U, g) = Total(S, g) + c /\ Total(S, g) \in Nat
    BY TotalAdds DEF AccRight
  <1>3. IsFiniteSet(U) /\ \A y \in U : g[y] \in Nat
    BY <1>1, FS_AddElement DEF AccRight
  <1>4. CASE c = 0
    <2>1. b = a
      BY <1>4 DEF addRun
    <2>2. Calling(U, g) = Calling(S, g)
      BY <1>4 DEF Calling
    <2>3. Total(U, g) = Total(S, g)
      BY <1>2, <1>4
    <2> HIDE DEF b
    <2>. QED
      BY <1>1, <1>2, <1>3, <1>4, <2>1, <2>2, <2>3 DEF AccRight, b
  <1>5. CASE c > 0
    <2> DEFINE hi == IF c > a.max THEN c ELSE a.max
               lo == IF a.presentRuns = 0 \/ c < a.minPresent THEN c ELSE a.minPresent
    <2>1. b = [total |-> a.total + c, max |-> hi, minPresent |-> lo, presentRuns |-> a.presentRuns + 1]
      BY <1>5 DEF addRun
    <2>2. hi \in Nat /\ lo \in Nat /\ a.total + c \in Nat /\ a.presentRuns + 1 \in Nat
      BY <1>1
    <2>3. Calling(U, g) = Calling(S, g) \cup {x} /\ x \notin Calling(S, g)
      BY <1>5 DEF Calling
    <2>4. Calling(S, g) \subseteq S
      BY DEF Calling
    <2>5. IsFiniteSet(Calling(S, g))
      BY <1>1, <2>4, FS_Subset
    <2>6. Cardinality(Calling(U, g)) = a.presentRuns + 1
      BY <2>3, <2>5, FS_AddElement DEF AccRight
    <2>7. hi >= c /\ hi >= a.max /\ (hi = c \/ hi = a.max)
      BY <1>1
    <2>8. lo <= c /\ (a.presentRuns = 0 \/ lo <= a.minPresent) /\ (lo = c \/ (lo = a.minPresent /\ a.presentRuns # 0))
      BY <1>1
    <2>9. lo * (a.presentRuns + 1) <= a.total + c /\ a.total + c <= hi * (a.presentRuns + 1)
      <3> HIDE DEF lo, hi
      <3>1. a.minPresent * a.presentRuns <= a.total /\ a.total <= a.max * a.presentRuns
        BY DEF AccRight
      <3>. QED
        BY <1>1, <2>2, <2>7, <2>8, <3>1, MeanBounds
    <2> HIDE DEF hi, lo, b
    <2>10. b \in AccType /\ b.total = a.total + c /\ b.max = hi /\ b.minPresent = lo /\ b.presentRuns = a.presentRuns + 1
      BY <2>1, <2>2 DEF AccType
    <2>11. \A y \in U : g[y] <= hi
      BY <1>1, <1>3, <2>2, <2>7 DEF AccRight
    <2>12. \E y \in U : g[y] = hi
      <3>1. CASE hi = c
        BY <3>1
      <3>2. CASE hi = a.max /\ hi # c
        <4>1. a.max # 0
          BY <1>1, <1>5, <2>7, <3>2
        <4>. QED
          BY <3>2, <4>1 DEF AccRight
      <3>. QED
        BY <2>7, <3>1, <3>2
    <2>13. \E y \in U : g[y] > 0 /\ g[y] = lo
      <3>1. CASE lo = c
        BY <1>5, <3>1
      <3>2. CASE lo = a.minPresent /\ a.presentRuns # 0
        <4>1. a.presentRuns > 0
          BY <1>1, <3>2
        <4>. QED
          BY <3>2, <4>1 DEF AccRight
      <3>. QED
        BY <2>8, <3>1, <3>2
    <2>14. ASSUME NEW y \in U, g[y] > 0 PROVE lo <= g[y]
      <3>1. CASE y = x
        BY <2>8, <3>1
      <3>2. CASE y \in S
        <4>1. a.minPresent <= g[y] /\ g[y] \in Nat
          BY <2>14, <3>2 DEF AccRight
        <4>2. a.presentRuns # 0
          <5>1. y \in Calling(S, g)
            BY <2>14, <3>2 DEF Calling
          <5>2. Cardinality(Calling(S, g)) # 0
            BY <2>5, <5>1, FS_EmptySet
          <5>. QED
            BY <5>2 DEF AccRight
        <4>. QED
          BY <1>1, <2>2, <2>8, <4>1, <4>2
      <3>. QED
        BY <3>1, <3>2
    <2>15. a.total = Total(S, g)
      BY DEF AccRight
    <2>. QED
      BY <1>2, <1>3, <2>6, <2>9, <2>10, <2>11, <2>12, <2>13, <2>14, <2>15 DEF AccRight, b
  <1>. QED
    BY <1>4, <1>5

\* A mean of thousandths lies between what bounds the total.
LEMMA DivBounds ==
  ASSUME NEW t \in Nat, NEW r \in Nat, r # 0, NEW lo \in Nat, NEW hi \in Nat, lo * r <= t, t <= hi * r
  PROVE  lo * 1000 <= (t * 1000) \div r /\ (t * 1000) \div r <= hi * 1000
  <1> DEFINE q == (t * 1000) \div r
             m == t * 1000
  <1>1. q \in Nat /\ m \in Nat /\ r * q <= m /\ m < r * (q + 1)
    OBVIOUS
  <1>2. (lo * 1000) * r <= m /\ m <= (hi * 1000) * r
    OBVIOUS
  <1> HIDE DEF q, m
  <1>3. lo * 1000 <= q
    <2> SUFFICES ASSUME q + 1 <= lo * 1000 PROVE FALSE
      BY <1>1
    <2>1. r * (q + 1) <= r * (lo * 1000)
      BY <1>1
    <2>. QED
      BY <1>1, <1>2, <2>1
  <1>4. q <= hi * 1000
    <2> SUFFICES ASSUME hi * 1000 + 1 <= q PROVE FALSE
      BY <1>1
    <2>1. r * (hi * 1000 + 1) <= r * q
      BY <1>1
    <2>. QED
      BY <1>1, <1>2, <2>1
  <1>. QED
    BY <1>3, <1>4 DEF q

\* What the statistics of a side say, from its accumulator: an absent key is a
\* run of no calls, and the mean lies between the extrema.
LEMMA StatsRight ==
  ASSUME NEW a, NEW S, NEW g, AccRight(a, S, g), S # {}, NEW s, s = stats(a, Cardinality(S))
  PROVE  /\ s.total = Total(S, g)
         /\ s.min = Min({g[x] : x \in S}) /\ s.max = Max({g[x] : x \in S})
         /\ s.min * 1000 <= s.mean /\ s.mean <= s.max * 1000
  <1> DEFINE runs == Cardinality(S)
             V == {g[x] : x \in S}
             lo == IF a.presentRuns < runs THEN 0 ELSE a.minPresent
  <1>1. /\ a.total \in Nat /\ a.max \in Nat /\ a.minPresent \in Nat /\ a.presentRuns \in Nat /\ IsFiniteSet(S)
        /\ a.total = Total(S, g) /\ a.presentRuns = Cardinality(Calling(S, g))
        /\ \A x \in S : g[x] \in Nat
    BY DEF AccRight, AccType
  <1>2. runs \in Nat /\ runs # 0
    BY <1>1, FS_CardinalityType, FS_EmptySet
  <1>3. s = [runs |-> runs, total |-> a.total, min |-> lo, max |-> a.max, mean |-> (a.total * 1000) \div runs]
    BY <1>2 DEF stats
  <1>4. /\ s.total = a.total /\ s.min = lo /\ s.max = a.max /\ s.mean = (a.total * 1000) \div runs
    BY <1>3
  <1>5. V \subseteq Nat
    BY <1>1
  <1>6. Calling(S, g) \subseteq S
    BY DEF Calling
  <1>7. a.presentRuns <= runs /\ (a.presentRuns = runs => Calling(S, g) = S)
    BY <1>1, <1>6, FS_Subset
  <1> HIDE DEF runs
  <1>8. a.max \in V /\ \A k \in V : k <= a.max
    <2>1. \A k \in V : k <= a.max
      BY DEF AccRight
    <2>2. a.max \in V
      <3>1. CASE a.max # 0
        BY <3>1 DEF AccRight
      <3>2. CASE a.max = 0
        <4>1. PICK x \in S : TRUE
          OBVIOUS
        <4>2. g[x] \in Nat /\ g[x] <= 0
          BY <1>1, <3>2 DEF AccRight
        <4>. QED
          BY <3>2, <4>1, <4>2
      <3>. QED
        BY <3>1, <3>2
    <2>. QED
      BY <2>1, <2>2
  <1>9. lo \in V /\ \A k \in V : lo <= k
    <2>1. CASE a.presentRuns < runs
      <3>1. Calling(S, g) # S
        BY <1>1, <1>2, <2>1 DEF runs
      <3>2. PICK x \in S : ~(g[x] > 0)
        BY <3>1 DEF Calling
      <3>3. g[x] = 0
        BY <1>1, <3>2
      <3>. QED
        BY <1>5, <2>1, <3>2, <3>3
    <2>2. CASE ~(a.presentRuns < runs)
      <3>1. a.presentRuns = runs /\ Calling(S, g) = S /\ lo = a.minPresent /\ a.presentRuns > 0
        BY <1>1, <1>2, <1>7, <2>2
      <3>2. \A x \in S : g[x] > 0
        BY <3>1 DEF Calling
      <3>3. \A x \in S : a.minPresent <= g[x]
        BY <3>2 DEF AccRight
      <3>4. \E x \in S : g[x] = a.minPresent
        BY <3>1 DEF AccRight
      <3>. QED
        BY <3>1, <3>3, <3>4
    <2>. QED
      BY <2>1, <2>2
  <1>10. Min(V) = lo /\ Max(V) = a.max
    BY <1>5, <1>8, <1>9, MinIs, MaxIs
  <1>11. lo * 1000 <= (a.total * 1000) \div runs /\ (a.total * 1000) \div runs <= a.max * 1000
    <2>1. lo * runs <= a.total
      <3>1. CASE a.presentRuns < runs
        BY <1>1, <1>2, <3>1
      <3>2. CASE ~(a.presentRuns < runs)
        <4>1. a.presentRuns = runs /\ lo = a.minPresent
          BY <1>1, <1>2, <1>7, <3>2
        <4>. QED
          BY <4>1 DEF AccRight
      <3>. QED
        BY <3>1, <3>2
    <2>2. a.total <= a.max * runs
      <3>1. a.total <= a.max * a.presentRuns
        BY DEF AccRight
      <3>2. a.max * a.presentRuns <= a.max * runs
        BY <1>1, <1>2, <1>7
      <3>3. a.max * a.presentRuns \in Nat /\ a.max * runs \in Nat
        BY <1>1, <1>2
      <3>. QED
        BY <1>1, <3>1, <3>2, <3>3
    <2>3. lo \in Nat
      BY <1>1
    <2> HIDE DEF lo
    <2>. QED
      BY <1>1, <1>2, <2>1, <2>2, <2>3, DivBounds
  <1>. QED
    BY <1>1, <1>4, <1>10, <1>11

-----------------------------------------------------------------------------
(* reduceRepeated: what the fold has after the first i repetitions.          *)

InputType == [side : {"reference", "candidate"}, status : {"completed", "failed"}, entries : Entries,
              blocks : Nat, critical : Nat, read : BOOLEAN]
BothSides == {"reference", "candidate"}

\* The runs of a side among the first i that completed, and what they call.
FinOf(seq, s, i) == {x \in 1..i : seq[x].side = s /\ seq[x].status = "completed"}
BehaviorCalls(seq, f) == [x \in DOMAIN seq |-> seq[x].entries[f]]
TargetCalls(seq, t) == [x \in DOMAIN seq |-> CallsTo(seq[x].entries, t)]

SideRight(a, seq, s, i) ==
  /\ a.completed = Cardinality(FinOf(seq, s, i))
  /\ \A f \in Fingerprints : AccRight(a.behaviors[f], FinOf(seq, s, i), BehaviorCalls(seq, f))
  /\ \A t \in Targets : AccRight(a.targets[t], FinOf(seq, s, i), TargetCalls(seq, t))
  /\ \A f \in Fingerprints : a.behaviors[f].total <= a.targets[target[f]].total

\* No run of the first i that completed is without records.
NoneEmpty(seq, i) == \A x \in 1..i : seq[x].status = "completed" => Records(seq[x].entries) > 0

\* What the gate bounds of every candidate run, and the largest of it over F.
BlocksOf(seq) == [x \in DOMAIN seq |-> seq[x].blocks]
CriticalOf(seq) == [x \in DOMAIN seq |-> seq[x].critical]

WorstRight(w, F, g) ==
  /\ w \in Nat
  /\ \A x \in F : g[x] <= w
  /\ w = 0 \/ \E x \in F : g[x] = w

FoldAgrees(acc, seq, i) ==
  /\ DOMAIN acc = {"reference", "candidate", "failingMinimum", "worstBlock", "worstCR", "overflow"}
  /\ \A s \in BothSides : SideRight(acc[s], seq, s, i)
  /\ acc.failingMinimum \in Nat /\ (acc.failingMinimum = 0 <=> NoneEmpty(seq, i))
  /\ WorstRight(acc.worstBlock, FinOf(seq, "candidate", i), BlocksOf(seq))
  /\ WorstRight(acc.worstCR, FinOf(seq, "candidate", i), CriticalOf(seq))
  /\ ~acc.overflow => \A s \in BothSides : \A t \in Targets : acc[s].targets[t].total <= MaxUint

\* What the entries of a run sum to.
LEMMA CallsAre ==
  ASSUME CountsAssumption, NEW e \in Entries
  PROVE  /\ Records(e) \in Nat /\ ModelCalls(e) \in Nat
         /\ \A t : CallsTo(e, t) \in Nat
         /\ \A t : t \notin Targets => CallsTo(e, t) = 0
         /\ \A f \in Fingerprints : e[f] \in Nat /\ e[f] <= CallsTo(e, target[f])
  <1>1. IsFiniteSet(Fingerprints) /\ ModelLayer \subseteq Fingerprints /\ MaxCalls \in Nat
    BY DEF CountsAssumption
  <1>2. \A f \in Fingerprints : e[f] \in Nat /\ e[f] \in 0..MaxCalls
    BY <1>1 DEF Entries
  <1>3. IsFiniteSet(Fingerprints \X (0..MaxCalls))
    <2>1. IsFiniteSet(0..MaxCalls)
      BY <1>1, FS_Interval
    <2>. QED
      BY <1>1, <2>1, FS_Product
  <1>4. ASSUME NEW S \in SUBSET Fingerprints PROVE IsFiniteSet(Pairs(S, e)) /\ Total(S, e) \in Nat
    <2>1. Pairs(S, e) \subseteq Fingerprints \X (0..MaxCalls)
      <3> SUFFICES ASSUME NEW f \in S, NEW k \in 1..e[f] PROVE k \in 0..MaxCalls
        BY DEF Pairs
      <3>. QED
        BY <1>1, <1>2
    <2>. QED
      BY <1>3, <2>1, FS_Subset, FS_CardinalityType DEF Total
  <1> DEFINE Of(t) == {f \in Fingerprints : target[f] = t}
  <1>5. Records(e) = Total(Fingerprints, e) /\ ModelCalls(e) = Total(ModelLayer, e)
    BY DEF Records, ModelCalls, SumOver, Total, Pairs
  <1>6. ASSUME NEW t PROVE CallsTo(e, t) = Total(Of(t), e)
    BY DEF CallsTo, SumOver, Total, Pairs
  <1>7. \A t : Of(t) \in SUBSET Fingerprints
    OBVIOUS
  <1>8. ASSUME NEW t, t \notin Targets PROVE CallsTo(e, t) = 0
    <2>1. Of(t) = {}
      BY <1>8 DEF Targets
    <2>2. Pairs({}, e) = {}
      BY DEF Pairs
    <2>. QED
      BY <1>6, <2>1, <2>2, FS_EmptySet DEF Total
  <1>9. ASSUME NEW f \in Fingerprints PROVE e[f] <= CallsTo(e, target[f])
    <2>1. f \in Of(target[f])
      OBVIOUS
    <2>2. IsFiniteSet(Pairs(Of(target[f]), e))
      BY <1>4, <1>7
    <2> HIDE DEF Of
    <2>. QED
      BY <1>2, <1>6, <2>1, <2>2, TotalOfPart
  <1> HIDE DEF Of
  <1>. QED
    BY <1>1, <1>2, <1>4, <1>5, <1>6, <1>7, <1>8, <1>9

\* The runs among the first i, one more.
LEMMA FinGrows ==
  ASSUME NEW seq \in Seq(InputType), NEW i \in 1..Len(seq), NEW s
  PROVE  /\ i \notin FinOf(seq, s, i - 1)
         /\ seq[i].side = s /\ seq[i].status = "completed" => FinOf(seq, s, i) = FinOf(seq, s, i - 1) \cup {i}
         /\ ~(seq[i].side = s /\ seq[i].status = "completed") => FinOf(seq, s, i) = FinOf(seq, s, i - 1)
         /\ FinOf(seq, s, i - 1) \subseteq DOMAIN seq /\ FinOf(seq, s, i) \subseteq DOMAIN seq
  <1>1. 1..i = (1..(i - 1)) \cup {i} /\ i \notin 1..(i - 1) /\ 1..i \subseteq DOMAIN seq
    OBVIOUS
  <1>. QED
    BY <1>1 DEF FinOf

\* A run that is not of the side, or did not complete, leaves it right.
LEMMA SideKept ==
  ASSUME NEW seq \in Seq(InputType), NEW i \in 1..Len(seq), NEW s, NEW a, SideRight(a, seq, s, i - 1),
         ~(seq[i].side = s /\ seq[i].status = "completed")
  PROVE  SideRight(a, seq, s, i)
  <1>1. FinOf(seq, s, i) = FinOf(seq, s, i - 1)
    BY FinGrows
  <1>. QED
    BY <1>1 DEF SideRight

\* A completed run is folded in.
LEMMA SideAdds ==
  ASSUME CountsAssumption, NEW seq \in Seq(InputType), NEW i \in 1..Len(seq), NEW s, NEW a, SideRight(a, seq, s, i - 1),
         seq[i].side = s, seq[i].status = "completed",
         NEW b, b = [completed |-> a.completed + 1,
                     behaviors |-> [f \in Fingerprints |-> addRun(a.behaviors[f], seq[i].entries[f])],
                     targets |-> [t \in Targets |-> addRun(a.targets[t], CallsTo(seq[i].entries, t))]]
  PROVE  SideRight(b, seq, s, i)
  <1> DEFINE S == FinOf(seq, s, i - 1)
             e == seq[i].entries
  <1>1. FinOf(seq, s, i) = S \cup {i} /\ i \notin S /\ S \subseteq DOMAIN seq /\ i \in DOMAIN seq
    BY FinGrows
  <1>2. e \in Entries
    <2>1. seq[i] \in InputType
      OBVIOUS
    <2>. QED
      BY <2>1 DEF InputType
  <1>3. /\ b.completed = a.completed + 1
        /\ \A f \in Fingerprints : b.behaviors[f] = addRun(a.behaviors[f], e[f])
        /\ \A t \in Targets : b.targets[t] = addRun(a.targets[t], CallsTo(e, t))
    OBVIOUS
  <1>4. IsFiniteSet(S)
    <2>1. IsFiniteSet(1..(i - 1)) /\ S \subseteq 1..(i - 1)
      BY FS_Interval DEF FinOf
    <2>. QED
      BY <2>1, FS_Subset
  <1> HIDE DEF S
  <1>5. Cardinality(S \cup {i}) = Cardinality(S) + 1
    BY <1>1, <1>4, FS_AddElement
  <1>6. /\ \A t : CallsTo(e, t) \in Nat
        /\ \A f \in Fingerprints : e[f] \in Nat /\ e[f] <= CallsTo(e, target[f])
    BY <1>2, CallsAre
  <1>7. ASSUME NEW f \in Fingerprints PROVE AccRight(b.behaviors[f], S \cup {i}, BehaviorCalls(seq, f))
    <2> DEFINE g == BehaviorCalls(seq, f)
    <2>1. g[i] = e[f]
      BY <1>1 DEF BehaviorCalls
    <2>2. AccRight(a.behaviors[f], S, g)
      BY DEF SideRight, S
    <2>4. e[f] \in Nat
      BY <1>6
    <2> HIDE DEF g, e
    <2>3. AccRight(addRun(a.behaviors[f], g[i]), S \cup {i}, g)
      BY <1>1, <2>1, <2>2, <2>4, AddRunRight
    <2>. QED
      BY <1>3, <2>1, <2>3 DEF g
  <1>8. ASSUME NEW t \in Targets PROVE AccRight(b.targets[t], S \cup {i}, TargetCalls(seq, t))
    <2> DEFINE g == TargetCalls(seq, t)
    <2>1. g[i] = CallsTo(e, t)
      BY <1>1 DEF TargetCalls
    <2>2. AccRight(a.targets[t], S, g)
      BY DEF SideRight, S
    <2>4. CallsTo(e, t) \in Nat
      BY <1>6
    <2> HIDE DEF g, e
    <2>3. AccRight(addRun(a.targets[t], g[i]), S \cup {i}, g)
      BY <1>1, <2>1, <2>2, <2>4, AddRunRight
    <2>. QED
      BY <1>3, <2>1, <2>3 DEF g
  <1>9. ASSUME NEW f \in Fingerprints PROVE b.behaviors[f].total <= b.targets[target[f]].total
    <2>1. target[f] \in Targets
      BY DEF Targets
    <2>2. /\ a.behaviors[f].total \in Nat /\ a.targets[target[f]].total \in Nat
          /\ a.behaviors[f].total <= a.targets[target[f]].total
      BY <2>1 DEF SideRight, AccRight, AccType
    <2>3. ASSUME NEW x, x.total \in Nat, NEW c \in Nat PROVE addRun(x, c).total = x.total + c
      BY <2>3 DEF addRun
    <2>4. /\ b.behaviors[f].total = a.behaviors[f].total + e[f]
          /\ b.targets[target[f]].total = a.targets[target[f]].total + CallsTo(e, target[f])
      BY <1>3, <1>6, <2>1, <2>2, <2>3
    <2>. QED
      BY <1>6, <2>2, <2>4
  <1>10. b.completed = Cardinality(S \cup {i})
    BY <1>3, <1>5 DEF SideRight, S
  <1>. QED
    BY <1>1, <1>7, <1>8, <1>9, <1>10 DEF SideRight

\* The largest of one more run.
LEMMA WorstAdds ==
  ASSUME NEW w, NEW F, NEW g, WorstRight(w, F, g), NEW x, g[x] \in Nat, \A y \in F : g[y] \in Nat
  PROVE  WorstRight(IF g[x] > w THEN g[x] ELSE w, F \cup {x}, g)
  <1> DEFINE v == IF g[x] > w THEN g[x] ELSE w
  <1>1. v \in Nat /\ v >= g[x] /\ v >= w /\ (v = g[x] \/ v = w)
    BY DEF WorstRight
  <1> HIDE DEF v
  <1>2. ASSUME NEW y \in F \cup {x} PROVE g[y] <= v
    <2>1. CASE y = x
      BY <1>1, <2>1
    <2>2. CASE y \in F
      BY <1>1, <2>2 DEF WorstRight
    <2>. QED
      BY <2>1, <2>2
  <1>3. v = 0 \/ \E y \in F \cup {x} : g[y] = v
    BY <1>1 DEF WorstRight
  <1>4. WorstRight(v, F \cup {x}, g)
    BY <1>1, <1>2, <1>3 DEF WorstRight
  <1>. QED
    BY <1>4 DEF v

\* One more repetition is folded in.
LEMMA FoldStep ==
  ASSUME CountsAssumption, NEW seq \in Seq(InputType), NEW i \in 1..Len(seq), NEW acc, FoldAgrees(acc, seq, i - 1)
  PROVE  FoldAgrees(FoldRun(acc, seq[i]), seq, i)
  <1> DEFINE in == seq[i]
             s == in.side
             new == FoldRun(acc, in)
             behaviors == [f \in Fingerprints |-> addRun(acc[s].behaviors[f], in.entries[f])]
             targets == [t \in Targets |-> addRun(acc[s].targets[t], CallsTo(in.entries, t))]
             b == [completed |-> acc[s].completed + 1, behaviors |-> behaviors, targets |-> targets]
  <1>1. /\ in \in InputType /\ s \in BothSides /\ in.entries \in Entries /\ in.blocks \in Nat
        /\ in.critical \in Nat /\ in.status \in {"completed", "failed"}
    <2>1. seq[i] \in InputType
      OBVIOUS
    <2>. QED
      BY <2>1 DEF InputType, BothSides
  <1>2. 1..i = (1..(i - 1)) \cup {i} /\ i \notin 1..(i - 1)
    OBVIOUS
  <1>3. Records(in.entries) \in Nat
    BY <1>1, CallsAre
  <1>4. CASE in.status # "completed"
    <2>1. new = acc
      BY <1>4 DEF FoldRun
    <2>2. \A t \in BothSides : SideRight(acc[t], seq, t, i)
      BY <1>4, SideKept DEF FoldAgrees
    <2>3. NoneEmpty(seq, i) <=> NoneEmpty(seq, i - 1)
      BY <1>2, <1>4 DEF NoneEmpty
    <2>4. FinOf(seq, "candidate", i) = FinOf(seq, "candidate", i - 1)
      BY <1>4, FinGrows
    <2>5. /\ WorstRight(acc.worstBlock, FinOf(seq, "candidate", i), BlocksOf(seq))
          /\ WorstRight(acc.worstCR, FinOf(seq, "candidate", i), CriticalOf(seq))
      BY <2>4 DEF FoldAgrees
    <2> HIDE DEF new
    <2>. QED
      BY <2>1, <2>2, <2>3, <2>5 DEF FoldAgrees, new
  <1>5. CASE in.status = "completed"
    <2> DEFINE fail == acc.failingMinimum + (IF Records(in.entries) = 0 THEN 1 ELSE 0)
               worst == IF s = "candidate" /\ in.blocks > acc.worstBlock THEN in.blocks ELSE acc.worstBlock
               worstC == IF s = "candidate" /\ in.critical > acc.worstCR THEN in.critical ELSE acc.worstCR
               over == acc.overflow \/ \E t \in Targets : targets[t].total > MaxUint
    <2>1. new = [acc EXCEPT ![s] = b, !.failingMinimum = fail, !.worstBlock = worst, !.worstCR = worstC, !.overflow = over]
      <3>1. DOMAIN acc = {"reference", "candidate", "failingMinimum", "worstBlock", "worstCR", "overflow"}
        BY DEF FoldAgrees
      <3>. QED
        BY <1>1, <1>5, <3>1 DEF FoldRun, BothSides
    <2> HIDE DEF fail, worst, worstC, over, new, b
    <2>2. /\ DOMAIN new = {"reference", "candidate", "failingMinimum", "worstBlock", "worstCR", "overflow"}
          /\ new[s] = b /\ \A t \in BothSides \ {s} : new[t] = acc[t]
          /\ new.failingMinimum = fail /\ new.worstBlock = worst /\ new.worstCR = worstC
          /\ new.overflow = over
      <3>1. DOMAIN acc = {"reference", "candidate", "failingMinimum", "worstBlock", "worstCR", "overflow"}
        BY DEF FoldAgrees
      <3>. QED
        BY <1>1, <2>1, <3>1 DEF BothSides
    <2>3. SideRight(b, seq, s, i)
      <3>1. SideRight(acc[s], seq, s, i - 1)
        BY <1>1 DEF FoldAgrees
      <3>. QED
        BY <1>5, <3>1, SideAdds DEF b
    <2>4. \A t \in BothSides : SideRight(new[t], seq, t, i)
      <3>1. ASSUME NEW t \in BothSides, t # s PROVE SideRight(new[t], seq, t, i)
        BY <2>2, <3>1, SideKept DEF FoldAgrees
      <3>. QED
        BY <2>2, <2>3, <3>1
    <2>5. fail \in Nat /\ (fail = 0 <=> NoneEmpty(seq, i))
      <3>1. acc.failingMinimum \in Nat /\ (acc.failingMinimum = 0 <=> NoneEmpty(seq, i - 1))
        BY DEF FoldAgrees
      <3>2. NoneEmpty(seq, i) <=> (NoneEmpty(seq, i - 1) /\ Records(in.entries) > 0)
        BY <1>2, <1>5 DEF NoneEmpty
      <3>. QED
        BY <1>3, <3>1, <3>2 DEF fail
    <2>6. /\ WorstRight(worst, FinOf(seq, "candidate", i), BlocksOf(seq))
          /\ WorstRight(worstC, FinOf(seq, "candidate", i), CriticalOf(seq))
      <3> DEFINE F == FinOf(seq, "candidate", i - 1)
                 gb == BlocksOf(seq)
                 gc == CriticalOf(seq)
      <3>1. WorstRight(acc.worstBlock, F, gb) /\ WorstRight(acc.worstCR, F, gc)
        BY DEF FoldAgrees
      <3>2. CASE s = "candidate"
        <4>1. FinOf(seq, "candidate", i) = F \cup {i}
          BY <1>5, <3>2, FinGrows
        <4>2. /\ \A x \in DOMAIN seq : gb[x] \in Nat /\ gc[x] \in Nat
              /\ gb[i] = in.blocks /\ gc[i] = in.critical
          <5>1. \A x \in DOMAIN seq : seq[x] \in InputType
            OBVIOUS
          <5>2. i \in DOMAIN seq
            OBVIOUS
          <5>. QED
            BY <5>1, <5>2 DEF InputType, BlocksOf, CriticalOf
        <4>3. F \subseteq DOMAIN seq
          BY DEF FinOf
        <4>4. worst = IF gb[i] > acc.worstBlock THEN gb[i] ELSE acc.worstBlock
          BY <3>2, <4>2 DEF worst
        <4>5. worstC = IF gc[i] > acc.worstCR THEN gc[i] ELSE acc.worstCR
          BY <3>2, <4>2 DEF worstC
        <4>6. i \in DOMAIN seq
          OBVIOUS
        <4> HIDE DEF F, gb, gc
        <4>7. WorstRight(worst, F \cup {i}, gb)
          BY <3>1, <4>2, <4>3, <4>4, <4>6, WorstAdds
        <4>8. WorstRight(worstC, F \cup {i}, gc)
          BY <3>1, <4>2, <4>3, <4>5, <4>6, WorstAdds
        <4>. QED
          BY <4>1, <4>7, <4>8 DEF gb, gc
      <3>3. CASE s # "candidate"
        <4>1. FinOf(seq, "candidate", i) = F
          BY <3>3, FinGrows
        <4>2. worst = acc.worstBlock /\ worstC = acc.worstCR
          BY <3>3 DEF worst, worstC
        <4>. QED
          BY <3>1, <4>1, <4>2
      <3>. QED
        BY <3>2, <3>3
    <2>7. ASSUME ~over, NEW u \in BothSides, NEW t \in Targets PROVE new[u].targets[t].total <= MaxUint
      <3>1. ~acc.overflow /\ ~(targets[t].total > MaxUint)
        BY <2>7 DEF over
      <3>2. CASE u = s
        <4>1. b.targets = targets
          BY DEF b
        <4>2. b.targets[t].total \in Nat /\ MaxUint \in Nat
          BY <2>3 DEF SideRight, AccRight, AccType, CountsAssumption
        <4>. QED
          BY <2>2, <3>1, <3>2, <4>1, <4>2
      <3>3. CASE u # s
        BY <2>2, <3>1, <3>3 DEF FoldAgrees
      <3>. QED
        BY <3>2, <3>3
    <2>8. ~new.overflow => ~over
      BY <2>2
    <2>. QED
      BY <2>2, <2>4, <2>5, <2>6, <2>7, <2>8 DEF FoldAgrees, new
  <1>. QED
    BY <1>4, <1>5

-----------------------------------------------------------------------------
(* reduceRepeated as a whole. *)

\* The fold before any repetition.
Fold0 == [reference |-> Side0, candidate |-> Side0, failingMinimum |-> 0, worstBlock |-> 0,
          worstCR |-> 0, overflow |-> FALSE]

IsFold(f, seq, k) ==
  /\ f = [i \in 0..k |-> f[i]]
  /\ \A i \in 0..k : f[i] = IF i = 0 THEN Fold0 ELSE FoldRun(f[i - 1], seq[i])

\* There is a fold over the first k repetitions.
LEMMA FoldExists ==
  ASSUME NEW seq, NEW k \in Nat
  PROVE  \E f : IsFold(f, seq, k)
  <1> DEFINE T == {m \in Nat : ~\E f : IsFold(f, seq, m)}
  <1>1. SUFFICES ASSUME T # {} PROVE FALSE
    OBVIOUS
  <1>2. PICK m \in T : \A j \in T : m <= j
    <2>1. T \subseteq Nat
      OBVIOUS
    <2> HIDE DEF T
    <2>. QED
      BY <1>1, <2>1, LeastOf
  <1>3. CASE m = 0
    <2> DEFINE f == [i \in 0..0 |-> Fold0]
    <2>1. IsFold(f, seq, 0)
      <3>1. \A i \in 0..0 : i = 0 /\ f[i] = Fold0
        OBVIOUS
      <3> HIDE DEF f
      <3>2. f = [i \in 0..0 |-> f[i]]
        BY DEF f
      <3>. QED
        BY <3>1, <3>2 DEF IsFold
    <2>. QED
      BY <1>2, <1>3, <2>1
  <1>4. CASE m # 0
    <2>1. m - 1 \in Nat /\ m - 1 \notin T /\ m \in Nat
      BY <1>2, <1>4
    <2>2. PICK g : IsFold(g, seq, m - 1)
      BY <2>1
    <2> DEFINE f == [i \in 0..m |-> IF i = m THEN FoldRun(g[m - 1], seq[m]) ELSE g[i]]
    <2>3. /\ f[m] = FoldRun(f[m - 1], seq[m])
          /\ \A i \in 0..(m - 1) : f[i] = g[i]
      BY <1>4, <2>1
    <2>4. f = [i \in 0..m |-> f[i]]
      OBVIOUS
    <2> HIDE DEF f
    <2>5. ASSUME NEW i \in 0..m PROVE f[i] = IF i = 0 THEN Fold0 ELSE FoldRun(f[i - 1], seq[i])
      <3>1. CASE i = m
        BY <1>4, <2>3, <3>1
      <3>2. CASE i = 0
        <4>1. i \in 0..(m - 1)
          BY <2>1, <3>2
        <4>. QED
          BY <2>2, <2>3, <3>2, <4>1 DEF IsFold
      <3>3. CASE i # m /\ i # 0
        <4>1. i \in 0..(m - 1) /\ i - 1 \in 0..(m - 1)
          BY <2>1, <3>3
        <4>. QED
          BY <2>2, <2>3, <3>3, <4>1 DEF IsFold
      <3>. QED
        BY <3>1, <3>2, <3>3
    <2>6. IsFold(f, seq, m)
      BY <2>4, <2>5 DEF IsFold
    <2>. QED
      BY <1>2, <2>6
  <1>. QED
    BY <1>3, <1>4

\* The fold of nothing is right.
LEMMA Fold0Right ==
  ASSUME CountsAssumption, NEW seq
  PROVE  FoldAgrees(Fold0, seq, 0)
  <1>1. \A s : FinOf(seq, s, 0) = {}
    BY DEF FinOf
  <1>2. Cardinality({}) = 0
    BY FS_EmptySet
  <1>3. ASSUME NEW s PROVE SideRight(Side0, seq, s, 0)
    <2>1. /\ Side0.completed = 0
          /\ \A f \in Fingerprints : Side0.behaviors[f] = NoCalls
          /\ \A t \in Targets : Side0.targets[t] = NoCalls
      BY DEF Side0
    <2>2. \A f \in Fingerprints : target[f] \in Targets
      BY DEF Targets
    <2>3. \A f \in Fingerprints : Side0.behaviors[f].total <= Side0.targets[target[f]].total
      BY <2>1, <2>2 DEF NoCalls
    <2>4. \A g : AccRight(NoCalls, {}, g)
      BY NoCallsRight
    <2>. QED
      BY <1>1, <1>2, <2>1, <2>3, <2>4 DEF SideRight
  <1>4. /\ DOMAIN Fold0 = {"reference", "candidate", "failingMinimum", "worstBlock", "worstCR", "overflow"}
        /\ \A s \in BothSides : Fold0[s] = Side0
        /\ Fold0.failingMinimum = 0 /\ Fold0.worstBlock = 0 /\ Fold0.worstCR = 0 /\ Fold0.overflow = FALSE
    BY DEF Fold0, BothSides
  <1>5. NoneEmpty(seq, 0)
    BY DEF NoneEmpty
  <1>6. \A g : WorstRight(0, FinOf(seq, "candidate", 0), g)
    BY <1>1 DEF WorstRight
  <1>7. ASSUME NEW t \in Targets PROVE Side0.targets[t].total <= MaxUint
    BY DEF Side0, NoCalls, CountsAssumption
  <1> HIDE DEF Fold0
  <1>. QED
    BY <1>3, <1>4, <1>5, <1>6, <1>7 DEF FoldAgrees

\* So is every fold.
LEMMA IsFoldRight ==
  ASSUME CountsAssumption, NEW seq \in Seq(InputType), NEW f, IsFold(f, seq, Len(seq)), NEW k \in 0..Len(seq)
  PROVE  FoldAgrees(f[k], seq, k)
  <1> DEFINE T == {m \in 0..Len(seq) : ~FoldAgrees(f[m], seq, m)}
  <1>1. SUFFICES ASSUME T # {} PROVE FALSE
    OBVIOUS
  <1>2. PICK m \in T : \A j \in T : m <= j
    <2>1. T \subseteq Nat
      OBVIOUS
    <2> HIDE DEF T
    <2>. QED
      BY <1>1, <2>1, LeastOf
  <1>3. CASE m = 0
    <2>1. f[m] = Fold0
      BY <1>2, <1>3 DEF IsFold
    <2>. QED
      BY <1>2, <1>3, <2>1, Fold0Right
  <1>4. CASE m # 0
    <2>1. m \in 1..Len(seq) /\ m - 1 \in 0..Len(seq) /\ m - 1 < m
      BY <1>2, <1>4
    <2>2. FoldAgrees(f[m - 1], seq, m - 1)
      BY <1>2, <2>1
    <2>3. f[m] = FoldRun(f[m - 1], seq[m])
      BY <1>2, <1>4 DEF IsFold
    <2>4. FoldAgrees(f[m], seq, m)
      BY <2>1, <2>2, <2>3, FoldStep
    <2>. QED
      BY <1>2, <2>4
  <1>. QED
    BY <1>3, <1>4

\* What reduceRepeated returns is right about the repetitions.
LEMMA ReducedRight ==
  ASSUME CountsAssumption, NEW seq \in Seq(InputType)
  PROVE  FoldAgrees(reduceRepeated(seq), seq, Len(seq))
  <1> DEFINE f == CHOOSE f : f = [i \in 0..Len(seq) |->
                               IF i = 0 THEN Fold0 ELSE FoldRun(f[i - 1], seq[i])]
  <1>1. reduceRepeated(seq) = f[Len(seq)]
    BY DEF reduceRepeated, Fold0
  <1>2. Len(seq) \in Nat
    OBVIOUS
  <1>3. PICK g : IsFold(g, seq, Len(seq))
    BY <1>2, FoldExists
  <1>4. g = [i \in 0..Len(seq) |-> IF i = 0 THEN Fold0 ELSE FoldRun(g[i - 1], seq[i])]
    BY <1>3 DEF IsFold
  <1>5. f = [i \in 0..Len(seq) |-> IF i = 0 THEN Fold0 ELSE FoldRun(f[i - 1], seq[i])]
    BY <1>4
  <1> HIDE DEF f
  <1>6. IsFold(f, seq, Len(seq))
    BY <1>5 DEF IsFold
  <1>. QED
    BY <1>1, <1>2, <1>6, IsFoldRight

-----------------------------------------------------------------------------
(* The comparison made of the counts, with the repetitions as an argument. *)

LimitsOk(m, l) ==
  /\ l.k \in 1..m /\ l.j < l.k
  /\ l.minFrequency # None => l.minFrequency <= m

ChecksFor(m, r, l) ==
  << Evaluated("reference_repetitions_completed", "equals", r.reference.completed, m),
     Evaluated("candidate_repetitions_completed", "equals", r.candidate.completed, m),
     Evaluated("repetitions_failing_minimum_evidence", "at_most", r.failingMinimum, 0),
     Evaluated("repeatedly_added_behaviors", "at_most", Cardinality(AddedBehaviors(r, l)), l.maxAdded),
     Evaluated("worst_candidate_block_decisions", "at_most", r.worstBlock, l.maxBlocks),
     Evaluated("worst_candidate_critical_risk_observations", "at_most", r.worstCR, l.maxCritical) >>

Steady(m, r) == {f \in Seen(r) : Present(r, "reference", f) = m}
Lost(m, r) == {f \in Seen(r) : Present(r, "reference", f) = m /\ Present(r, "candidate", f) < m}
Lowest(m, r) == Min({Present(r, "candidate", f) : f \in Steady(m, r)})

MinFrequencyFor(m, r, l) ==
  IF l.minFrequency = None THEN Omitted("min_candidate_frequency")
  ELSE IF missingSide(r) \/ Steady(m, r) = {} THEN Deferred("min_candidate_frequency")
  ELSE Evaluated("min_candidate_frequency", "at_least", Lowest(m, r), l.minFrequency)

MaxLostFor(m, r, l) ==
  IF l.maxLost = None THEN Omitted("max_lost_behaviors")
  ELSE IF missingSide(r) THEN Deferred("max_lost_behaviors")
  ELSE Evaluated("max_lost_behaviors", "at_most", Cardinality(Lost(m, r)), l.maxLost)

FrequencyFor(m, r, l, layers) ==
  << MinFrequencyFor(m, r, l), MaxLostFor(m, r, l), MaxCallsPerRun(r, l), MaxLLMCallsPerRun(r, l, layers) >>

RowFor(m, r, l, f) ==
  [reference |-> stats(r.reference.behaviors[f], r.reference.completed),
   candidate |-> stats(r.candidate.behaviors[f], r.candidate.completed),
   class |-> classifyPresence(Present(r, "reference", f), Present(r, "candidate", f), l.k, l.j),
   lost |-> Present(r, "reference", f) = m /\ Present(r, "candidate", f) < m]

AddedAll(m, r) == {f \in Seen(r) : Present(r, "candidate", f) = m /\ Present(r, "reference", f) = 0}
LostHalf(m, r) == {f \in Seen(r) : Present(r, "reference", f) = m /\ Present(r, "candidate", f) * 2 <= m}

MadeFor(m, in, r, l) ==
  IF ~LimitsOk(m, l) \/ r.overflow THEN [limits |-> l, refused |-> TRUE]
  ELSE [limits |-> l, refused |-> FALSE, checks |-> ChecksFor(m, r, l),
        frequency |-> FrequencyFor(m, r, l, Layers(in)),
        verdict |-> VerdictOf(ChecksFor(m, r, l), FrequencyFor(m, r, l, Layers(in))),
        behaviors |-> [f \in Seen(r) |-> RowFor(m, r, l, f)],
        suggested |-> [added |-> AddedAll(m, r), lost |-> LostHalf(m, r)]]

(* The repetitions are typed and in order of their sides; what they were
   reduced to is their fold, and the comparison was made of it. *)
RepeatedInv ==
  /\ n \in RunCounts /\ inputs \in Seq(InputType) /\ Len(inputs) <= 2 * n
  /\ \A i \in DOMAIN inputs : inputs[i].side = IF i <= n THEN "reference" ELSE "candidate"
  /\ pc \in {"load", "refused", "reduced", "compared"}
  /\ pc \in {"reduced", "compared"} => Len(inputs) = 2 * n /\ reduced = reduceRepeated(inputs)
  /\ pc = "compared" => \E l \in Limits : result = MadeFor(n, inputs, reduced, l)

\* Init starts it.
LEMMA RepeatedInit ==
  ASSUME CountsAssumption, Init PROVE RepeatedInv
  <1>1. << >> \in Seq(InputType) /\ Len(<< >>) = 0 /\ DOMAIN << >> = {}
    OBVIOUS
  <1>2. n \in Nat
    BY DEF Init, CountsAssumption
  <1>. QED
    BY <1>1, <1>2 DEF Init, RepeatedInv

\* What Compare records is the comparison of the counts.
LEMMA ComparedIs ==
  ASSUME NEW l, Compare(l)
  PROVE  result' = MadeFor(n, inputs, reduced, l)
  <1> DEFINE r == reduced
  <1>1. validateLimits(l) <=> LimitsOk(n, l)
    BY DEF validateLimits, LimitsOk
  <1>2. Checks(r, l) = ChecksFor(n, r, l)
    BY DEF Checks, ChecksFor
  <1>3. MinFrequency(r, l) = MinFrequencyFor(n, r, l)
    BY DEF MinFrequency, MinFrequencyFor, Steady, Lowest
  <1>4. {f \in Seen(r) : isLost(r, f)} = Lost(n, r)
    BY DEF isLost, Lost
  <1>5. MaxLost(r, l) = MaxLostFor(n, r, l)
    BY <1>4 DEF MaxLost, MaxLostFor
  <1>6. evaluateFrequencyGates(r, l, Layers(inputs)) = FrequencyFor(n, r, l, Layers(inputs))
    BY <1>3, <1>5 DEF evaluateFrequencyGates, FrequencyFor
  <1>7. ruleAddedInAllRuns(r) = AddedAll(n, r) /\ ruleLostInHalf(r) = LostHalf(n, r)
    BY DEF ruleAddedInAllRuns, AddedAll, ruleLostInHalf, LostHalf
  <1> DEFINE rows == [f \in Seen(r) |->
                [reference |-> stats(r.reference.behaviors[f], r.reference.completed),
                 candidate |-> stats(r.candidate.behaviors[f], r.candidate.completed),
                 class |-> classifyPresence(Present(r, "reference", f), Present(r, "candidate", f), l.k, l.j),
                 lost |-> isLost(r, f)]]
  <1>8. rows = [f \in Seen(r) |-> RowFor(n, r, l, f)]
    BY DEF RowFor, isLost
  <1>9. result' = IF ~validateLimits(l) \/ r.overflow THEN [limits |-> l, refused |-> TRUE]
                  ELSE [limits |-> l, refused |-> FALSE, checks |-> Checks(r, l),
                        frequency |-> evaluateFrequencyGates(r, l, Layers(inputs)),
                        verdict |-> VerdictOf(Checks(r, l), evaluateFrequencyGates(r, l, Layers(inputs))),
                        behaviors |-> rows,
                        suggested |-> [added |-> ruleAddedInAllRuns(r), lost |-> ruleLostInHalf(r)]]
    BY DEF Compare
  <1> HIDE DEF r, rows
  <1>. QED
    BY <1>1, <1>2, <1>6, <1>7, <1>8, <1>9 DEF MadeFor, r

\* Every step keeps it.
LEMMA RepeatedStep ==
  ASSUME CountsAssumption, RepeatedInv, [Next]_vars
  PROVE  RepeatedInv'
  <1>0. n \in Nat /\ n # 0 /\ Len(inputs) \in Nat
    <2>1. RunCounts \subseteq Nat \ {0}
      BY DEF CountsAssumption
    <2>2. n \in RunCounts /\ inputs \in Seq(InputType)
      BY DEF RepeatedInv
    <2>3. Len(inputs) \in Nat
      BY <2>2
    <2>. QED
      BY <2>1, <2>2, <2>3
  <1>1. ASSUME NEW status \in {"completed", "failed"}, NEW shared \in BOOLEAN, NEW elsewhere \in BOOLEAN,
               LoadRun(status, shared, elsewhere)
        PROVE  RepeatedInv'
    <2>1. CASE shared \/ elsewhere
      BY <1>1, <2>1 DEF LoadRun, RepeatedInv
    <2>2. CASE ~(shared \/ elsewhere)
      <3> DEFINE e == [side |-> Side(Len(inputs) + 1), status |-> status,
                       entries |-> NoEntries, blocks |-> 0, critical |-> 0, read |-> FALSE]
      <3>1. /\ pc = "load" /\ Len(inputs) < 2 * n /\ inputs' = Append(inputs, e)
            /\ n' = n /\ reduced' = reduced /\ result' = result /\ pc' = pc
        BY <1>1, <2>2 DEF LoadRun
      <3>2. e \in InputType
        <4>1. NoEntries \in Entries
          BY DEF NoEntries, Entries, CountsAssumption
        <4>. QED
          BY <4>1 DEF InputType, Side
      <3>3. e.side = IF Len(inputs) + 1 <= n THEN "reference" ELSE "candidate"
        BY DEF Side
      <3> HIDE DEF e
      <3>4. inputs \in Seq(InputType)
        BY DEF RepeatedInv
      <3>5. /\ inputs' \in Seq(InputType) /\ Len(inputs') = Len(inputs) + 1
            /\ DOMAIN inputs' = 1..(Len(inputs) + 1) /\ DOMAIN inputs = 1..Len(inputs)
            /\ \A i \in 1..Len(inputs) : inputs'[i] = inputs[i]
            /\ inputs'[Len(inputs) + 1] = e
        BY <3>1, <3>2, <3>4
      <3>6. Len(inputs') <= 2 * n
        BY <1>0, <3>1, <3>5
      <3>7. \A i \in DOMAIN inputs' : inputs'[i].side = IF i <= n THEN "reference" ELSE "candidate"
        <4>1. ASSUME NEW i \in DOMAIN inputs' PROVE i \in 1..Len(inputs) \/ i = Len(inputs) + 1
          BY <1>0, <3>5
        <4>. QED
          BY <3>3, <3>5, <4>1 DEF RepeatedInv
      <3>. QED
        BY <3>1, <3>5, <3>6, <3>7 DEF RepeatedInv
    <2>. QED
      BY <2>1, <2>2
  <1>2. ASSUME NEW e \in Entries, NEW alarms \in Alarms, NEW unusable \in BOOLEAN,
               ReadEvidence(e, alarms, unusable)
        PROVE  RepeatedInv'
    <2>1. CASE unusable
      BY <1>2, <2>1 DEF ReadEvidence, RepeatedInv
    <2>2. CASE ~unusable
      <3> DEFINE i == NextUnread
                 w == [inputs[i] EXCEPT !.entries = e, !.blocks = alarms.blocks, !.critical = alarms.critical, !.read = TRUE]
      <3>1. /\ pc = "load" /\ inputs' = [inputs EXCEPT ![i] = w]
            /\ n' = n /\ reduced' = reduced /\ result' = result /\ pc' = pc
        BY <1>2, <2>2 DEF ReadEvidence
      <3> HIDE DEF i
      <3>2. inputs \in Seq(InputType) /\ DOMAIN inputs = 1..Len(inputs)
        BY DEF RepeatedInv
      <3>3. ASSUME i \in DOMAIN inputs PROVE w \in InputType /\ w.side = inputs[i].side
        <4>1. inputs[i] \in InputType
          BY <3>2, <3>3
        <4>2. alarms.blocks \in Nat /\ alarms.critical \in Nat
          BY DEF CountsAssumption
        <4>. QED
          BY <4>1, <4>2 DEF InputType
      <3> HIDE DEF w
      <3>4. inputs' \in Seq(InputType) /\ Len(inputs') = Len(inputs) /\ DOMAIN inputs' = DOMAIN inputs
        <4>1. \A x \in 1..Len(inputs) : inputs[x] \in InputType
          BY <3>2
        <4>2. inputs' = [x \in 1..Len(inputs) |-> IF x = i THEN w ELSE inputs[x]]
          BY <3>1, <3>2
        <4>3. \A x \in 1..Len(inputs) : (IF x = i THEN w ELSE inputs[x]) \in InputType
          BY <3>2, <3>3, <4>1
        <4>4. [x \in 1..Len(inputs) |-> IF x = i THEN w ELSE inputs[x]] \in Seq(InputType)
          BY <1>0, <4>3
        <4>. QED
          BY <1>0, <3>2, <4>2, <4>4
      <3>5. \A x \in DOMAIN inputs : inputs'[x].side = inputs[x].side
        BY <3>1, <3>2, <3>3
      <3>. QED
        BY <3>1, <3>4, <3>5 DEF RepeatedInv
    <2>. QED
      BY <2>1, <2>2
  <1>3. ASSUME Reduce PROVE RepeatedInv'
    BY <1>3 DEF Reduce, RepeatedInv
  <1>4. ASSUME NEW l \in Limits, Compare(l) PROVE RepeatedInv'
    <2>1. result' = MadeFor(n, inputs, reduced, l)
      BY <1>4, ComparedIs
    <2>2. pc = "reduced" /\ pc' = "compared" /\ n' = n /\ inputs' = inputs /\ reduced' = reduced
      BY <1>4 DEF Compare
    <2>. QED
      BY <2>1, <2>2 DEF RepeatedInv
  <1>5. ASSUME UNCHANGED vars PROVE RepeatedInv'
    BY <1>5 DEF vars, RepeatedInv
  <1>. QED
    BY <1>1, <1>2, <1>3, <1>4, <1>5 DEF Next

-----------------------------------------------------------------------------
(* What the counts say of the repetitions. *)

\* The repetitions of the sides.
LEMMA SidesAre ==
  ASSUME CountsAssumption, RepeatedInv, pc = "compared"
  PROVE  /\ n \in Nat /\ n # 0 /\ Len(inputs) = 2 * n
         /\ DOMAIN inputs = Repetitions("reference") \cup Repetitions("candidate")
         /\ \A i \in DOMAIN inputs : inputs[i] \in InputType
         /\ \A s \in BothSides :
              /\ IsFiniteSet(Repetitions(s)) /\ Cardinality(Repetitions(s)) = n
              /\ Finished(s) = FinOf(inputs, s, Len(inputs)) /\ Finished(s) \subseteq Repetitions(s)
              /\ Repetitions(s) \subseteq DOMAIN inputs
              /\ IsFiniteSet(Finished(s)) /\ Cardinality(Finished(s)) \in Nat
  <1>1. n \in Nat /\ n # 0 /\ Len(inputs) = 2 * n /\ inputs \in Seq(InputType)
    BY DEF RepeatedInv, CountsAssumption
  <1>2. DOMAIN inputs = 1..(2 * n) /\ \A i \in DOMAIN inputs : inputs[i] \in InputType
    BY <1>1
  <1>3. \A i \in 1..(2 * n) : inputs[i].side = IF i <= n THEN "reference" ELSE "candidate"
    BY <1>2 DEF RepeatedInv
  <1>4. Repetitions("reference") = 1..n
    BY <1>1, <1>2, <1>3 DEF Repetitions
  <1>5. Repetitions("candidate") = (n + 1)..(2 * n)
    BY <1>1, <1>2, <1>3 DEF Repetitions
  <1>6. /\ IsFiniteSet(1..n) /\ Cardinality(1..n) = n
        /\ IsFiniteSet((n + 1)..(2 * n)) /\ Cardinality((n + 1)..(2 * n)) = n
    <2>1. n + 1 \in Int /\ 2 * n \in Int /\ 1 \in Int /\ n \in Int
      BY <1>1
    <2>2. IsFiniteSet(1..n) /\ Cardinality(1..n) = IF 1 > n THEN 0 ELSE n - 1 + 1
      BY <2>1, FS_Interval
    <2>3. /\ IsFiniteSet((n + 1)..(2 * n))
          /\ Cardinality((n + 1)..(2 * n)) = IF n + 1 > 2 * n THEN 0 ELSE 2 * n - (n + 1) + 1
      BY <2>1, FS_Interval
    <2>. QED
      BY <1>1, <2>2, <2>3
  <1>7. ASSUME NEW s \in BothSides
        PROVE  /\ IsFiniteSet(Repetitions(s)) /\ Cardinality(Repetitions(s)) = n
               /\ Finished(s) = FinOf(inputs, s, Len(inputs)) /\ Finished(s) \subseteq Repetitions(s)
               /\ Repetitions(s) \subseteq DOMAIN inputs
               /\ IsFiniteSet(Finished(s)) /\ Cardinality(Finished(s)) \in Nat
    <2>1. IsFiniteSet(Repetitions(s)) /\ Cardinality(Repetitions(s)) = n
      BY <1>4, <1>5, <1>6 DEF BothSides
    <2>2. Finished(s) = FinOf(inputs, s, Len(inputs)) /\ Finished(s) \subseteq Repetitions(s)
      BY <1>1, <1>2 DEF Finished, Repetitions, FinOf
    <2>3. Repetitions(s) \subseteq DOMAIN inputs
      BY DEF Repetitions
    <2>. QED
      BY <2>1, <2>2, <2>3, FS_Subset, FS_CardinalityType
  <1>8. DOMAIN inputs = Repetitions("reference") \cup Repetitions("candidate")
    BY <1>1, <1>2, <1>4, <1>5
  <1>. QED
    BY <1>1, <1>2, <1>7, <1>8

\* The presence counts are those of the runs that show a behavior.
LEMMA PresenceIs ==
  ASSUME CountsAssumption, RepeatedInv, pc = "compared"
  PROVE  /\ FoldAgrees(reduced, inputs, Len(inputs))
         /\ \A s \in BothSides :
              /\ reduced[s].completed = Cardinality(Finished(s)) /\ reduced[s].completed <= n
              /\ reduced[s].completed = n <=> Finished(s) = Repetitions(s)
         /\ \A s \in BothSides, f \in Fingerprints :
              /\ Present(reduced, s, f) = Cardinality(Shows(s, f))
              /\ Present(reduced, s, f) \in Nat /\ Present(reduced, s, f) <= n
              /\ (Present(reduced, s, f) = n <=> Shows(s, f) = Repetitions(s))
  <1>1. FoldAgrees(reduced, inputs, Len(inputs))
    <2>1. reduced = reduceRepeated(inputs) /\ inputs \in Seq(InputType)
      BY DEF RepeatedInv
    <2>. QED
      BY <2>1, ReducedRight
  <1>2. ASSUME NEW s \in BothSides
        PROVE  SideRight(reduced[s], inputs, s, Len(inputs)) /\ Finished(s) = FinOf(inputs, s, Len(inputs))
    BY <1>1, SidesAre DEF FoldAgrees
  <1>3. ASSUME NEW s \in BothSides
        PROVE  /\ reduced[s].completed = Cardinality(Finished(s)) /\ reduced[s].completed <= n
               /\ (reduced[s].completed = n <=> Finished(s) = Repetitions(s))
    <2>1. reduced[s].completed = Cardinality(Finished(s))
      BY <1>2 DEF SideRight
    <2>. QED
      BY <2>1, SidesAre, FS_Subset
  <1>4. ASSUME NEW s \in BothSides, NEW f \in Fingerprints
        PROVE  /\ Present(reduced, s, f) = Cardinality(Shows(s, f))
               /\ Present(reduced, s, f) \in Nat /\ Present(reduced, s, f) <= n
               /\ (Present(reduced, s, f) = n <=> Shows(s, f) = Repetitions(s))
    <2>1. Present(reduced, s, f) = Cardinality(Calling(Finished(s), BehaviorCalls(inputs, f)))
      BY <1>2 DEF SideRight, AccRight, Present
    <2>2. Finished(s) \subseteq DOMAIN inputs /\ IsFiniteSet(Repetitions(s)) /\ Cardinality(Repetitions(s)) = n
      BY SidesAre
    <2>3. Calling(Finished(s), BehaviorCalls(inputs, f)) = Shows(s, f)
      BY <2>2 DEF Calling, BehaviorCalls, Shows
    <2>4. Shows(s, f) \subseteq Repetitions(s)
      BY SidesAre DEF Shows
    <2>. QED
      BY <2>1, <2>2, <2>3, <2>4, FS_Subset, FS_CardinalityType
  <1>. QED
    BY <1>1, <1>3, <1>4

\* What an evaluated check says.
LEMMA EvaluatedIs ==
  ASSUME NEW c, NEW a, NEW b, NEW rule \in {"at_most", "at_least", "equals"}
  PROVE  LET e == Evaluated(c, rule, a, b)
         IN /\ e.state = "evaluated" /\ e.rule = rule /\ e.actual = a /\ e.bound = b
            /\ rule = "at_most" => e.passed = (a <= b) /\ (failsVerdict(e) <=> ~(a <= b))
            /\ rule = "at_least" => e.passed = (a >= b) /\ (failsVerdict(e) <=> ~(a >= b))
            /\ rule = "equals" => e.passed = (a = b)
  <1> DEFINE e == Evaluated(c, rule, a, b)
  <1>1. e.state = "evaluated" /\ e.rule = rule /\ e.actual = a /\ e.bound = b
    BY DEF Evaluated
  <1>2. e.passed = IF rule = "at_most" THEN a <= b ELSE IF rule = "at_least" THEN a >= b ELSE a = b
    BY DEF Evaluated
  <1>3. failsVerdict(e) <=> ~e.passed
    BY <1>1 DEF failsVerdict
  <1> HIDE DEF e
  <1>4. CASE rule = "at_most"
    BY <1>1, <1>2, <1>3, <1>4 DEF e
  <1>5. CASE rule = "at_least"
    BY <1>1, <1>2, <1>3, <1>5 DEF e
  <1>6. CASE rule = "equals"
    BY <1>1, <1>2, <1>3, <1>6 DEF e
  <1>. QED
    BY <1>4, <1>5, <1>6

\* A check that was left out fails nothing; one that was deferred fails.
LEMMA LeftOutIs ==
  ASSUME NEW c
  PROVE  /\ Omitted(c).state = "not_evaluated" /\ ~failsVerdict(Omitted(c))
         /\ Deferred(c).state = "deferred" /\ failsVerdict(Deferred(c))
  BY DEF Omitted, Deferred, failsVerdict

\* The verdict over six checks and four outcomes.
LEMMA VerdictMeans ==
  ASSUME NEW c1, NEW c2, NEW c3, NEW c4, NEW c5, NEW c6, NEW f1, NEW f2, NEW f3, NEW f4
  PROVE  VerdictOf(<<c1, c2, c3, c4, c5, c6>>, <<f1, f2, f3, f4>>) = "pass"
           <=> /\ c1.passed /\ c2.passed /\ c3.passed /\ c4.passed /\ c5.passed /\ c6.passed
               /\ ~failsVerdict(f1) /\ ~failsVerdict(f2) /\ ~failsVerdict(f3) /\ ~failsVerdict(f4)
  <1> DEFINE c == <<c1, c2, c3, c4, c5, c6>>
             f == <<f1, f2, f3, f4>>
             Good == /\ c1.passed /\ c2.passed /\ c3.passed /\ c4.passed /\ c5.passed /\ c6.passed
                     /\ ~failsVerdict(f1) /\ ~failsVerdict(f2) /\ ~failsVerdict(f3) /\ ~failsVerdict(f4)
  <1>1. /\ DOMAIN c = 1..6 /\ c[1] = c1 /\ c[2] = c2 /\ c[3] = c3 /\ c[4] = c4 /\ c[5] = c5 /\ c[6] = c6
        /\ DOMAIN f = 1..4 /\ f[1] = f1 /\ f[2] = f2 /\ f[3] = f3 /\ f[4] = f4
    OBVIOUS
  <1> HIDE DEF c, f
  <1>2. (\A i \in DOMAIN c : c[i].passed /\ \A m \in DOMAIN f : ~failsVerdict(f[m])) <=> Good
    <2>1. \A i \in 1..6 : i = 1 \/ i = 2 \/ i = 3 \/ i = 4 \/ i = 5 \/ i = 6
      OBVIOUS
    <2>2. \A i \in 1..4 : i = 1 \/ i = 2 \/ i = 3 \/ i = 4
      OBVIOUS
    <2>3. {1, 2, 3, 4, 5, 6} \subseteq DOMAIN c /\ {1, 2, 3, 4} \subseteq DOMAIN f
      BY <1>1
    <2>. QED
      BY <1>1, <2>1, <2>2, <2>3
  <1> HIDE DEF Good
  <1>3. VerdictOf(c, f) = "pass" <=> Good
    BY <1>2 DEF VerdictOf
  <1>. QED
    BY <1>3 DEF Good, c, f

\* Every repetition of both sides completed.
AllFinished == \A s \in BothSides : Finished(s) = Repetitions(s)

\* The completed repetitions are all of them.
LEMMA CompletedMeans ==
  ASSUME CountsAssumption, RepeatedInv, pc = "compared"
  PROVE  /\ reduced.reference.completed = n <=> Finished("reference") = Repetitions("reference")
         /\ reduced.candidate.completed = n <=> Finished("candidate") = Repetitions("candidate")
         /\ AllFinished => reduced.reference.completed # 0 /\ reduced.candidate.completed # 0 /\ ~missingSide(reduced)
         /\ AllFinished => \A i \in DOMAIN inputs : inputs[i].status = "completed"
         /\ reduced["reference"] = reduced.reference /\ reduced["candidate"] = reduced.candidate
  <1>1. n # 0 /\ DOMAIN inputs = Repetitions("reference") \cup Repetitions("candidate")
    BY SidesAre
  <1>2. "reference" \in BothSides /\ "candidate" \in BothSides
    BY DEF BothSides
  <1>3. /\ reduced.reference.completed = n <=> Finished("reference") = Repetitions("reference")
        /\ reduced.candidate.completed = n <=> Finished("candidate") = Repetitions("candidate")
    BY <1>2, PresenceIs
  <1>4. ASSUME AllFinished, NEW i \in DOMAIN inputs PROVE inputs[i].status = "completed"
    BY <1>1, <1>2, <1>4 DEF AllFinished, Finished
  <1>. QED
    BY <1>1, <1>2, <1>3, <1>4 DEF AllFinished, missingSide

\* The third check: no repetition is without records.
LEMMA MinimumMeans ==
  ASSUME CountsAssumption, RepeatedInv, pc = "compared", AllFinished
  PROVE  reduced.failingMinimum <= 0 <=> \A i \in DOMAIN inputs : Records(inputs[i].entries) > 0
  <1>1. reduced.failingMinimum \in Nat /\ (reduced.failingMinimum = 0 <=> NoneEmpty(inputs, Len(inputs)))
    BY PresenceIs DEF FoldAgrees
  <1>2. DOMAIN inputs = 1..Len(inputs)
    BY DEF RepeatedInv
  <1>3. NoneEmpty(inputs, Len(inputs)) <=> \A i \in DOMAIN inputs : Records(inputs[i].entries) > 0
    BY <1>2, CompletedMeans DEF NoneEmpty
  <1>. QED
    BY <1>1, <1>3

\* The behaviors in Seen are those some repetition shows.
LEMMA SeenIs ==
  ASSUME CountsAssumption, RepeatedInv, pc = "compared", NEW f \in Fingerprints
  PROVE  f \in Seen(reduced) <=> (Present(reduced, "reference", f) > 0 \/ Present(reduced, "candidate", f) > 0)
  <1>1. Present(reduced, "reference", f) \in Nat /\ Present(reduced, "candidate", f) \in Nat
    BY PresenceIs DEF BothSides
  <1>. QED
    BY <1>1 DEF Seen

\* The fourth check counts the behaviors the candidate repeatedly added.
LEMMA AddedMeans ==
  ASSUME CountsAssumption, RepeatedInv, pc = "compared", NEW l \in Limits, LimitsOk(n, l)
  PROVE  /\ AddedBehaviors(reduced, l)
              = {f \in Fingerprints : Cardinality(Shows("candidate", f)) >= l.k /\ Cardinality(Shows("reference", f)) <= l.j}
         /\ \A f \in Fingerprints :
              Present(reduced, "candidate", f) >= l.k /\ Present(reduced, "reference", f) <= l.j
                <=> classifyPresence(Present(reduced, "reference", f), Present(reduced, "candidate", f), l.k, l.j) = "added"
  <1>1. n \in Nat /\ l.k \in 1..n /\ l.j \in Nat /\ l.j < l.k
    BY SidesAre DEF LimitsOk, CountsAssumption
  <1>2. ASSUME NEW f \in Fingerprints
        PROVE  /\ Present(reduced, "reference", f) = Cardinality(Shows("reference", f))
               /\ Present(reduced, "candidate", f) = Cardinality(Shows("candidate", f))
               /\ Present(reduced, "reference", f) \in Nat /\ Present(reduced, "candidate", f) \in Nat
    BY PresenceIs DEF BothSides
  <1>3. ASSUME NEW f \in Fingerprints
        PROVE  classifyPresence(Present(reduced, "reference", f), Present(reduced, "candidate", f), l.k, l.j) = "added"
                 <=> (Present(reduced, "candidate", f) >= l.k /\ Present(reduced, "reference", f) <= l.j)
    <2>1. ASSUME NEW p \in Nat, NEW q \in Nat
          PROVE  classifyPresence(p, q, l.k, l.j) = "added" <=> (q >= l.k /\ p <= l.j)
      <3>1. CASE q >= l.k /\ p <= l.j
        <4>1. ~(p >= l.k /\ q <= l.j)
          BY <1>1, <3>1
        <4>. QED
          BY <3>1, <4>1 DEF classifyPresence
      <3>2. CASE ~(q >= l.k /\ p <= l.j)
        BY <3>2 DEF classifyPresence
      <3>. QED
        BY <3>1, <3>2
    <2>. QED
      BY <1>2, <2>1
  <1>4. ASSUME NEW f \in Fingerprints, Present(reduced, "candidate", f) >= l.k PROVE f \in Seen(reduced)
    BY <1>1, <1>2, <1>4, SeenIs
  <1>5. Seen(reduced) \subseteq Fingerprints
    BY DEF Seen
  <1>. QED
    BY <1>2, <1>3, <1>4, <1>5 DEF AddedBehaviors

\* The last two checks bound every candidate run's block decisions and its
\* critical-risk observations.
LEMMA WorstMeans ==
  ASSUME CountsAssumption, RepeatedInv, pc = "compared", AllFinished, NEW b \in Nat
  PROVE  /\ reduced.worstBlock <= b <=> \A i \in Repetitions("candidate") : inputs[i].blocks <= b
         /\ reduced.worstCR <= b <=> \A i \in Repetitions("candidate") : inputs[i].critical <= b
  <1> DEFINE C == Repetitions("candidate")
             gb == BlocksOf(inputs)
             gc == CriticalOf(inputs)
  <1>1. FinOf(inputs, "candidate", Len(inputs)) = C
    BY SidesAre DEF AllFinished, BothSides
  <1>2. WorstRight(reduced.worstBlock, C, gb) /\ WorstRight(reduced.worstCR, C, gc)
    BY <1>1, PresenceIs DEF FoldAgrees
  <1>3. \A i \in C : /\ gb[i] = inputs[i].blocks /\ gc[i] = inputs[i].critical
                     /\ inputs[i].blocks \in Nat /\ inputs[i].critical \in Nat
    <2>1. \A i \in DOMAIN inputs : inputs[i] \in InputType
      BY SidesAre
    <2>2. C \subseteq DOMAIN inputs
      BY DEF Repetitions
    <2>. QED
      BY <2>1, <2>2 DEF InputType, BlocksOf, CriticalOf
  <1> HIDE DEF C, gb, gc
  <1>4. ASSUME NEW w, NEW g, WorstRight(w, C, g), \A i \in C : g[i] \in Nat
        PROVE  w <= b <=> \A i \in C : g[i] <= b
    <2>1. ASSUME w <= b, NEW i \in C PROVE g[i] <= b
      BY <1>4, <2>1 DEF WorstRight
    <2>2. ASSUME \A i \in C : g[i] <= b PROVE w <= b
      BY <1>4, <2>2 DEF WorstRight
    <2>. QED
      BY <2>1, <2>2
  <1>5. reduced.worstBlock <= b <=> \A i \in C : gb[i] <= b
    BY <1>2, <1>3, <1>4
  <1>6. reduced.worstCR <= b <=> \A i \in C : gc[i] <= b
    BY <1>2, <1>3, <1>4
  <1>. QED
    BY <1>3, <1>5, <1>6 DEF C

\* min_candidate_frequency: some behavior is in every reference run, and none
\* of those is in fewer candidate runs than asked.
LEMMA FrequencyMeans ==
  ASSUME CountsAssumption, RepeatedInv, pc = "compared", AllFinished, NEW l \in Limits
  PROVE  ~failsVerdict(MinFrequencyFor(n, reduced, l)) <=>
           (l.minFrequency # None =>
              /\ \E f \in Fingerprints : Shows("reference", f) = Repetitions("reference")
              /\ \A f \in Fingerprints : Shows("reference", f) = Repetitions("reference") =>
                   Cardinality(Shows("candidate", f)) >= l.minFrequency)
  <1> DEFINE Q == Steady(n, reduced)
             V == {Present(reduced, "candidate", f) : f \in Q}
  <1>1. n \in Nat /\ n # 0
    BY SidesAre
  <1>2. ASSUME NEW f \in Fingerprints
        PROVE  /\ Present(reduced, "candidate", f) = Cardinality(Shows("candidate", f))
               /\ Present(reduced, "candidate", f) \in Nat
               /\ (Present(reduced, "reference", f) = n <=> Shows("reference", f) = Repetitions("reference"))
    BY PresenceIs DEF BothSides
  <1>3. Q = {f \in Fingerprints : Shows("reference", f) = Repetitions("reference")}
    <2>1. ASSUME NEW f \in Fingerprints, Present(reduced, "reference", f) = n PROVE f \in Seen(reduced)
      BY <1>1, <2>1, SeenIs
    <2>2. Seen(reduced) \subseteq Fingerprints
      BY DEF Seen
    <2>. QED
      BY <1>2, <2>1, <2>2 DEF Steady
  <1>4. ~missingSide(reduced)
    BY CompletedMeans
  <1>5. CASE l.minFrequency = None
    BY <1>5, LeftOutIs DEF MinFrequencyFor
  <1>6. CASE l.minFrequency # None /\ Q = {}
    <2>1. failsVerdict(MinFrequencyFor(n, reduced, l))
      BY <1>6, LeftOutIs DEF MinFrequencyFor
    <2>. QED
      BY <1>3, <1>6, <2>1
  <1>7. CASE l.minFrequency # None /\ Q # {}
    <2>1. MinFrequencyFor(n, reduced, l) = Evaluated("min_candidate_frequency", "at_least", Lowest(n, reduced), l.minFrequency)
      BY <1>4, <1>7 DEF MinFrequencyFor
    <2>2. l.minFrequency \in Nat
      BY <1>7 DEF CountsAssumption
    <2>3. V \subseteq Nat /\ V # {}
      BY <1>2, <1>3, <1>7
    <2>4. PICK m \in V : \A k \in V : m <= k
      <3> HIDE DEF V
      <3>. QED
        BY <2>3, LeastOf
    <2>5. Lowest(n, reduced) = m
      <3>1. Min(V) = m
        <4> HIDE DEF V
        <4>. QED
          BY <2>3, <2>4, MinIs
      <3>. QED
        BY <3>1 DEF Lowest
    <2>6. ~failsVerdict(MinFrequencyFor(n, reduced, l)) <=> m >= l.minFrequency
      BY <2>1, <2>5, EvaluatedIs
    <2>7. m >= l.minFrequency <=> \A f \in Q : Present(reduced, "candidate", f) >= l.minFrequency
      <3>1. m \in Nat /\ \A f \in Q : Present(reduced, "candidate", f) \in Nat /\ m <= Present(reduced, "candidate", f)
        BY <2>3, <2>4
      <3>2. \E f \in Q : m = Present(reduced, "candidate", f)
        BY <2>4
      <3> HIDE DEF Q
      <3>. QED
        BY <2>2, <3>1, <3>2
    <2>. QED
      BY <1>2, <1>3, <1>7, <2>6, <2>7
  <1>. QED
    BY <1>5, <1>6, <1>7

\* max_lost_behaviors: those of every reference run that some candidate run
\* does not show.
LEMMA LostMeans ==
  ASSUME CountsAssumption, RepeatedInv, pc = "compared", AllFinished, NEW l \in Limits
  PROVE  ~failsVerdict(MaxLostFor(n, reduced, l)) <=>
           (l.maxLost # None =>
              Cardinality({f \in Fingerprints : /\ Shows("reference", f) = Repetitions("reference")
                                                /\ Shows("candidate", f) # Repetitions("candidate")}) <= l.maxLost)
  <1> DEFINE L == {f \in Fingerprints : /\ Shows("reference", f) = Repetitions("reference")
                                        /\ Shows("candidate", f) # Repetitions("candidate")}
  <1>1. n \in Nat /\ n # 0
    BY SidesAre
  <1>2. ASSUME NEW f \in Fingerprints
        PROVE  /\ (Present(reduced, "reference", f) = n <=> Shows("reference", f) = Repetitions("reference"))
               /\ (Present(reduced, "candidate", f) < n <=> Shows("candidate", f) # Repetitions("candidate"))
    BY <1>1, PresenceIs DEF BothSides
  <1>3. Lost(n, reduced) = L
    <2>1. ASSUME NEW f \in Fingerprints, Present(reduced, "reference", f) = n PROVE f \in Seen(reduced)
      BY <1>1, <2>1, SeenIs
    <2>2. Seen(reduced) \subseteq Fingerprints
      BY DEF Seen
    <2>. QED
      BY <1>2, <2>1, <2>2 DEF Lost
  <1>4. ~missingSide(reduced)
    BY CompletedMeans
  <1> HIDE DEF L
  <1>5. CASE l.maxLost = None
    BY <1>5, LeftOutIs DEF MaxLostFor
  <1>6. CASE l.maxLost # None
    <2>1. MaxLostFor(n, reduced, l) = Evaluated("max_lost_behaviors", "at_most", Cardinality(L), l.maxLost)
      BY <1>3, <1>4, <1>6 DEF MaxLostFor
    <2>. QED
      BY <1>6, <2>1, EvaluatedIs DEF L
  <1>. QED
    BY <1>5, <1>6

\* What a side's counts say of the calls to a target.
LEMMA CalledIs ==
  ASSUME CountsAssumption, RepeatedInv, pc = "compared", NEW s \in BothSides, NEW t
  PROVE  /\ \A i \in DOMAIN inputs : CallsTo(inputs[i].entries, t) \in Nat
         /\ (t \in Targets /\ reduced[s].targets[t].presentRuns > 0)
              <=> \E i \in Finished(s) : CallsTo(inputs[i].entries, t) > 0
         /\ t \in Targets =>
              /\ reduced[s].targets[t].max \in Nat
              /\ \A i \in Finished(s) : CallsTo(inputs[i].entries, t) <= reduced[s].targets[t].max
              /\ reduced[s].targets[t].max = 0 \/ \E i \in Finished(s) : CallsTo(inputs[i].entries, t) = reduced[s].targets[t].max
  <1>1. Finished(s) \subseteq DOMAIN inputs /\ \A i \in DOMAIN inputs : inputs[i] \in InputType
    BY SidesAre
  <1>2. \A i \in DOMAIN inputs : inputs[i].entries \in Entries
    BY <1>1 DEF InputType
  <1>3. \A i \in DOMAIN inputs : CallsTo(inputs[i].entries, t) \in Nat
    BY <1>2, CallsAre
  <1>4. CASE t \notin Targets
    <2>1. \A i \in DOMAIN inputs : CallsTo(inputs[i].entries, t) = 0
      BY <1>2, <1>4, CallsAre
    <2>. QED
      BY <1>1, <1>3, <1>4, <2>1
  <1>5. CASE t \in Targets
    <2> DEFINE g == TargetCalls(inputs, t)
               a == reduced[s].targets[t]
    <2>1. AccRight(a, Finished(s), g)
      BY <1>5, SidesAre, PresenceIs DEF FoldAgrees, SideRight
    <2>2. \A i \in Finished(s) : g[i] = CallsTo(inputs[i].entries, t)
      BY <1>1 DEF TargetCalls
    <2> HIDE DEF g, a
    <2>3. /\ a.max \in Nat /\ \A i \in Finished(s) : g[i] <= a.max
          /\ a.max = 0 \/ \E i \in Finished(s) : g[i] = a.max
      BY <2>1 DEF AccRight, AccType
    <2>4. a.presentRuns > 0 <=> \E i \in Finished(s) : g[i] > 0
      <3>1. a.presentRuns \in Nat /\ a.presentRuns = Cardinality(Calling(Finished(s), g)) /\ IsFiniteSet(Finished(s))
        BY <2>1 DEF AccRight, AccType
      <3>2. Calling(Finished(s), g) \subseteq Finished(s)
        BY DEF Calling
      <3>3. IsFiniteSet(Calling(Finished(s), g))
        BY <3>1, <3>2, FS_Subset
      <3>4. a.presentRuns = 0 <=> Calling(Finished(s), g) = {}
        BY <3>1, <3>3, FS_EmptySet
      <3>5. Calling(Finished(s), g) = {} <=> ~\E i \in Finished(s) : g[i] > 0
        BY DEF Calling
      <3>. QED
        BY <3>1, <3>4, <3>5
    <2>. QED
      BY <1>3, <1>5, <2>2, <2>3, <2>4 DEF a
  <1>. QED
    BY <1>4, <1>5

\* max_calls_per_run: every target named is called, by no candidate run more
\* often than it may be.
LEMMA CallsMean ==
  ASSUME CountsAssumption, RepeatedInv, pc = "compared", AllFinished, NEW l \in Limits
  PROVE  /\ ~failsVerdict(MaxCallsPerRun(reduced, l)) <=>
             (l.maxCalls # None => \A t \in DOMAIN l.maxCalls :
                /\ \E i \in DOMAIN inputs : CallsTo(inputs[i].entries, t) > 0
                /\ \A i \in Repetitions("candidate") : CallsTo(inputs[i].entries, t) <= l.maxCalls[t])
  <1> DEFINE C == Repetitions("candidate")
             R == Repetitions("reference")
             called(side, t) == t \in Targets /\ reduced[side].targets[t].presentRuns > 0
             actual(t) == IF called("candidate", t) THEN reduced.candidate.targets[t].max ELSE 0
             outcome(t) == CASE ~called("candidate", t) /\ ~called("reference", t) -> "not_observed"
                             [] called("candidate", t) /\ actual(t) > l.maxCalls[t] -> "fail"
                             [] OTHER -> "pass"
             outcomes == [t \in DOMAIN l.maxCalls |-> outcome(t)]
             Want(t) == /\ \E i \in DOMAIN inputs : CallsTo(inputs[i].entries, t) > 0
                        /\ \A i \in C : CallsTo(inputs[i].entries, t) <= l.maxCalls[t]
  <1>1. CASE l.maxCalls = None
    BY <1>1, LeftOutIs DEF MaxCallsPerRun
  <1>2. CASE l.maxCalls # None
    <2>1. reduced.candidate.completed # 0
      BY CompletedMeans
    <2> DEFINE c == [check |-> "max_calls_per_run", state |-> "evaluated", targets |-> outcomes,
                     passed |-> \A t \in DOMAIN outcomes : outcomes[t] = "pass"]
    <2>2. MaxCallsPerRun(reduced, l) = c
      BY <1>2, <2>1 DEF MaxCallsPerRun
    <2>3. failsVerdict(c) <=> ~(\A t \in DOMAIN outcomes : outcomes[t] = "pass")
      <3> HIDE DEF outcomes
      <3>. QED
        BY DEF failsVerdict
    <2>4. ASSUME NEW t \in DOMAIN l.maxCalls PROVE outcome(t) = "pass" <=> Want(t)
      <3>1. l.maxCalls[t] \in Nat
        BY <1>2 DEF CountsAssumption
      <3>2. Finished("candidate") = C /\ Finished("reference") = R
        BY DEF AllFinished, BothSides
      <3>3. DOMAIN inputs = R \cup C
        BY SidesAre
      <3>4. /\ \A i \in DOMAIN inputs : CallsTo(inputs[i].entries, t) \in Nat
            /\ called("candidate", t) <=> \E i \in C : CallsTo(inputs[i].entries, t) > 0
            /\ called("reference", t) <=> \E i \in R : CallsTo(inputs[i].entries, t) > 0
        BY <3>2, CalledIs DEF BothSides
      <3>5. t \in Targets =>
              /\ reduced["candidate"].targets[t].max \in Nat
              /\ \A i \in C : CallsTo(inputs[i].entries, t) <= reduced["candidate"].targets[t].max
              /\ \/ reduced["candidate"].targets[t].max = 0
                 \/ \E i \in C : CallsTo(inputs[i].entries, t) = reduced["candidate"].targets[t].max
        BY <3>2, CalledIs DEF BothSides
      <3>6. called("candidate", t) => t \in Targets
        OBVIOUS
      <3>7. outcome(t) = "pass" <=> (called("candidate", t) \/ called("reference", t))
                                     /\ ~(called("candidate", t) /\ actual(t) > l.maxCalls[t])
        <4> HIDE DEF called, actual
        <4>1. CASE ~called("candidate", t) /\ ~called("reference", t)
          BY <4>1
        <4>2. CASE called("candidate", t) /\ actual(t) > l.maxCalls[t]
          BY <4>2
        <4>3. CASE ~(~called("candidate", t) /\ ~called("reference", t))
                   /\ ~(called("candidate", t) /\ actual(t) > l.maxCalls[t])
          BY <4>3
        <4>. QED
          BY <4>1, <4>2, <4>3
      <3> HIDE DEF called, outcome
      <3>8. CASE called("candidate", t)
        <4>1. actual(t) = reduced["candidate"].targets[t].max
          BY <3>8
        <4> HIDE DEF actual
        <4>2. actual(t) \in Nat /\ \A i \in C : CallsTo(inputs[i].entries, t) <= actual(t)
          BY <3>5, <3>6, <3>8, <4>1
        <4>3. actual(t) = 0 \/ \E i \in C : CallsTo(inputs[i].entries, t) = actual(t)
          BY <3>5, <3>6, <3>8, <4>1
        <4>4. ~(actual(t) > l.maxCalls[t]) <=> \A i \in C : CallsTo(inputs[i].entries, t) <= l.maxCalls[t]
          BY <3>1, <3>3, <3>4, <4>2, <4>3
        <4>. QED
          BY <3>3, <3>4, <3>7, <3>8, <4>4
      <3>9. CASE ~called("candidate", t)
        <4>1. \A i \in C : CallsTo(inputs[i].entries, t) <= l.maxCalls[t]
          BY <3>1, <3>3, <3>4, <3>9
        <4>. QED
          BY <3>3, <3>4, <3>7, <3>9, <4>1
      <3>. QED
        BY <3>8, <3>9
    <2> HIDE DEF outcome, Want, c
    <2>5. (\A t \in DOMAIN outcomes : outcomes[t] = "pass") <=> \A t \in DOMAIN l.maxCalls : Want(t)
      BY <2>4
    <2> HIDE DEF outcomes
    <2>. QED
      BY <1>2, <2>2, <2>3, <2>5 DEF Want
  <1>. QED
    BY <1>1, <1>2

\* max_llm_calls_per_run: every candidate run shows a model call, and no more
\* than it may.
LEMMA ModelsMean ==
  ASSUME CountsAssumption, RepeatedInv, pc = "compared", AllFinished, NEW l \in Limits
  PROVE  ~failsVerdict(MaxLLMCallsPerRun(reduced, l, Layers(inputs))) <=>
           (l.maxModelCalls # None => \A i \in Repetitions("candidate") :
              ModelCalls(inputs[i].entries) \in 1..l.maxModelCalls)
  <1> DEFINE C == Repetitions("candidate")
             y == Layers(inputs)
             V == {y[i] : i \in DOMAIN y}
  <1>1. C = {x \in DOMAIN inputs : inputs[x].side = "candidate" /\ inputs[x].status = "completed"}
    BY DEF AllFinished, BothSides, Finished, Repetitions
  <1>2. DOMAIN y = C /\ \A i \in C : y[i] = ModelCalls(inputs[i].entries)
    BY <1>1 DEF Layers
  <1>3. \A i \in C : y[i] \in Nat
    <2>1. \A i \in DOMAIN inputs : inputs[i] \in InputType
      BY SidesAre
    <2>2. \A i \in C : inputs[i].entries \in Entries
      BY <2>1 DEF InputType, Repetitions
    <2>. QED
      BY <1>2, <2>2, CallsAre
  <1>4. IsFiniteSet(C) /\ C # {}
    BY SidesAre, FS_EmptySet DEF BothSides
  <1> HIDE DEF C, y
  <1>5. CASE l.maxModelCalls = None
    BY <1>5, LeftOutIs DEF MaxLLMCallsPerRun
  <1>6. CASE l.maxModelCalls # None
    <2>1. reduced.candidate.completed # 0 /\ l.maxModelCalls \in Nat
      BY <1>6, CompletedMeans DEF CountsAssumption
    <2>2. CASE \E i \in DOMAIN y : y[i] = 0
      <3>1. failsVerdict(MaxLLMCallsPerRun(reduced, l, y))
        BY <1>6, <2>2, LeftOutIs DEF MaxLLMCallsPerRun
      <3>2. ~\A i \in C : ModelCalls(inputs[i].entries) \in 1..l.maxModelCalls
        <4>1. PICK i \in C : ModelCalls(inputs[i].entries) = 0
          BY <1>2, <2>2
        <4>2. 0 \notin 1..l.maxModelCalls
          OBVIOUS
        <4>. QED
          BY <4>1, <4>2
      <3>. QED
        BY <1>6, <3>1, <3>2 DEF C, y
    <2>3. CASE ~\E i \in DOMAIN y : y[i] = 0
      <3>1. PICK x \in C : \A i \in C : y[i] <= y[x]
        BY <1>3, <1>4, GreatestOf
      <3>2. V \subseteq Nat /\ y[x] \in V /\ \A k \in V : k <= y[x]
        BY <1>2, <1>3, <3>1
      <3>3. Max(V) = y[x]
        <4> HIDE DEF V
        <4>. QED
          BY <3>2, MaxIs
      <3>4. MaxLLMCallsPerRun(reduced, l, y) = Evaluated("max_llm_calls_per_run", "at_most", y[x], l.maxModelCalls)
        BY <1>6, <2>1, <2>3, <3>3 DEF MaxLLMCallsPerRun
      <3>5. ~failsVerdict(MaxLLMCallsPerRun(reduced, l, y)) <=> y[x] <= l.maxModelCalls
        BY <3>4, EvaluatedIs
      <3>6. y[x] <= l.maxModelCalls <=> \A i \in C : y[i] \in 1..l.maxModelCalls
        <4>1. \A i \in C : y[i] \in Nat /\ y[i] # 0 /\ y[i] <= y[x]
          BY <1>2, <1>3, <2>3, <3>1
        <4>. QED
          BY <2>1, <4>1
      <3>. QED
        BY <1>2, <1>6, <3>5, <3>6 DEF C, y
    <2>. QED
      BY <2>2, <2>3
  <1>. QED
    BY <1>5, <1>6

-----------------------------------------------------------------------------
(* The comparison means what it says. *)

\* The gate passes exactly when what was asked is shown.
LEMMA PassMeans ==
  ASSUME CountsAssumption, RepeatedInv, pc = "compared", NEW l \in Limits, LimitsOk(n, l)
  PROVE  VerdictOf(ChecksFor(n, reduced, l), FrequencyFor(n, reduced, l, Layers(inputs))) = "pass" <=> MayPass(l)
  <1> DEFINE v == VerdictOf(ChecksFor(n, reduced, l), FrequencyFor(n, reduced, l, Layers(inputs)))
             ck1 == reduced.reference.completed = n
             ck2 == reduced.candidate.completed = n
             ck3 == reduced.failingMinimum <= 0
             ck4 == Cardinality(AddedBehaviors(reduced, l)) <= l.maxAdded
             ck5 == reduced.worstBlock <= l.maxBlocks
             ck6 == reduced.worstCR <= l.maxCritical
             f1 == ~failsVerdict(MinFrequencyFor(n, reduced, l))
             f2 == ~failsVerdict(MaxLostFor(n, reduced, l))
             f3 == ~failsVerdict(MaxCallsPerRun(reduced, l))
             f4 == ~failsVerdict(MaxLLMCallsPerRun(reduced, l, Layers(inputs)))
  <1>1. v = "pass" <=> ck1 /\ ck2 /\ ck3 /\ ck4 /\ ck5 /\ ck6 /\ f1 /\ f2 /\ f3 /\ f4
    <2> DEFINE e1 == Evaluated("reference_repetitions_completed", "equals", reduced.reference.completed, n)
               e2 == Evaluated("candidate_repetitions_completed", "equals", reduced.candidate.completed, n)
               e3 == Evaluated("repetitions_failing_minimum_evidence", "at_most", reduced.failingMinimum, 0)
               e4 == Evaluated("repeatedly_added_behaviors", "at_most", Cardinality(AddedBehaviors(reduced, l)), l.maxAdded)
               e5 == Evaluated("worst_candidate_block_decisions", "at_most", reduced.worstBlock, l.maxBlocks)
               e6 == Evaluated("worst_candidate_critical_risk_observations", "at_most", reduced.worstCR, l.maxCritical)
    <2>1. e1.passed = ck1 /\ e2.passed = ck2 /\ e3.passed = ck3 /\ e4.passed = ck4 /\ e5.passed = ck5 /\ e6.passed = ck6
      BY EvaluatedIs
    <2>2. ChecksFor(n, reduced, l) = <<e1, e2, e3, e4, e5, e6>>
      BY DEF ChecksFor
    <2> HIDE DEF e1, e2, e3, e4, e5, e6, ck1, ck2, ck3, ck4, ck5, ck6
    <2>3. v = "pass" <=> /\ e1.passed /\ e2.passed /\ e3.passed /\ e4.passed /\ e5.passed /\ e6.passed
                         /\ f1 /\ f2 /\ f3 /\ f4
      BY <2>2, VerdictMeans DEF FrequencyFor
    <2>. QED
      BY <2>1, <2>3
  <1>2. (ck1 /\ ck2) <=> AllFinished
    BY CompletedMeans DEF AllFinished, BothSides
  <1>3. MayPass(l) => AllFinished
    BY DEF MayPass, AllFinished, BothSides
  <1>4. ASSUME AllFinished PROVE (ck3 /\ ck4 /\ ck5 /\ ck6 /\ f1 /\ f2 /\ f3 /\ f4) <=> MayPass(l)
    <2>1. Finished("reference") = Repetitions("reference") /\ Finished("candidate") = Repetitions("candidate")
      BY <1>4 DEF AllFinished, BothSides
    <2>2. ck3 <=> \A i \in DOMAIN inputs : Records(inputs[i].entries) > 0
      BY <1>4, MinimumMeans
    <2>3. ck4 <=> Cardinality({f \in Fingerprints :
                   Cardinality(Shows("candidate", f)) >= l.k /\ Cardinality(Shows("reference", f)) <= l.j}) <= l.maxAdded
      BY AddedMeans
    <2>4. (ck5 /\ ck6) <=> \A i \in Repetitions("candidate") :
                           inputs[i].blocks <= l.maxBlocks /\ inputs[i].critical <= l.maxCritical
      <3>1. l.maxBlocks \in Nat /\ l.maxCritical \in Nat
        BY DEF CountsAssumption
      <3>2. ck5 <=> \A i \in Repetitions("candidate") : inputs[i].blocks <= l.maxBlocks
        BY <1>4, <3>1, WorstMeans
      <3>3. ck6 <=> \A i \in Repetitions("candidate") : inputs[i].critical <= l.maxCritical
        BY <1>4, <3>1, WorstMeans
      <3>. QED
        BY <3>2, <3>3
    <2> HIDE DEF ck3, ck4, ck5, ck6, f1, f2, f3, f4
    <2>5. f1 <=> (l.minFrequency # None =>
              /\ \E f \in Fingerprints : Shows("reference", f) = Repetitions("reference")
              /\ \A f \in Fingerprints : Shows("reference", f) = Repetitions("reference") =>
                   Cardinality(Shows("candidate", f)) >= l.minFrequency)
      BY <1>4, FrequencyMeans DEF f1
    <2>6. f2 <=> (l.maxLost # None =>
              Cardinality({f \in Fingerprints : /\ Shows("reference", f) = Repetitions("reference")
                                                /\ Shows("candidate", f) # Repetitions("candidate")}) <= l.maxLost)
      BY <1>4, LostMeans DEF f2
    <2>7. f3 <=> (l.maxCalls # None => \A t \in DOMAIN l.maxCalls :
                /\ \E i \in DOMAIN inputs : CallsTo(inputs[i].entries, t) > 0
                /\ \A i \in Repetitions("candidate") : CallsTo(inputs[i].entries, t) <= l.maxCalls[t])
      BY <1>4, CallsMean DEF f3
    <2>8. f4 <=> (l.maxModelCalls # None => \A i \in Repetitions("candidate") :
              ModelCalls(inputs[i].entries) \in 1..l.maxModelCalls)
      BY <1>4, ModelsMean DEF f4
    <2>. QED
      BY <2>1, <2>2, <2>3, <2>4, <2>5, <2>6, <2>7, <2>8 DEF MayPass
  <1> HIDE DEF v, ck1, ck2, ck3, ck4, ck5, ck6, f1, f2, f3, f4
  <1>5. v = "pass" <=> MayPass(l)
    BY <1>1, <1>2, <1>3, <1>4
  <1>. QED
    BY <1>5 DEF v

\* A side's figures for f are those of its completed repetitions.
RowRight(s, side, f) ==
  /\ s.total = SumOver(Finished(side), LAMBDA i : inputs[i].entries[f]) /\ s.total <= MaxUint
  /\ s.min = Min({inputs[i].entries[f] : i \in Finished(side)})
  /\ s.max = Max({inputs[i].entries[f] : i \in Finished(side)})
  /\ s.min * 1000 <= s.mean /\ s.mean <= s.max * 1000

\* The statistics of a row are right.
LEMMA RowsMean ==
  ASSUME CountsAssumption, RepeatedInv, pc = "compared", ~reduced.overflow,
         NEW f \in Fingerprints, NEW side \in BothSides, Finished(side) # {},
         NEW s, s = stats(reduced[side].behaviors[f], reduced[side].completed)
  PROVE  RowRight(s, side, f)
  <1> DEFINE S == Finished(side)
             g == BehaviorCalls(inputs, f)
             a == reduced[side].behaviors[f]
  <1>1. S \subseteq DOMAIN inputs /\ S = FinOf(inputs, side, Len(inputs))
    BY SidesAre
  <1>2. reduced[side].completed = Cardinality(S)
    BY PresenceIs
  <1>3. SideRight(reduced[side], inputs, side, Len(inputs))
    BY PresenceIs DEF FoldAgrees
  <1>4. AccRight(a, S, g)
    BY <1>1, <1>3 DEF SideRight
  <1>5. \A i \in S : g[i] = inputs[i].entries[f]
    BY <1>1 DEF BehaviorCalls
  <1>6. {g[i] : i \in S} = {inputs[i].entries[f] : i \in S}
    BY <1>5
  <1>7. Cardinality(UNION {{x} \X (1..inputs[x].entries[f]) : x \in S}) = Total(S, g)
    <2>2. {{x} \X (1..inputs[x].entries[f]) : x \in S} = {{x} \X (1..g[x]) : x \in S}
      BY <1>5
    <2>. QED
      BY <2>2 DEF Total, Pairs
  <1>8. a.total <= MaxUint
    <2>1. target[f] \in Targets
      BY DEF Targets
    <2>2. /\ a.total \in Nat /\ reduced[side].targets[target[f]].total \in Nat
          /\ a.total <= reduced[side].targets[target[f]].total
      BY <1>3, <2>1 DEF SideRight, AccRight, AccType
    <2>3. reduced[side].targets[target[f]].total <= MaxUint /\ MaxUint \in Nat
      BY <2>1, PresenceIs DEF FoldAgrees, CountsAssumption
    <2> HIDE DEF a
    <2>. QED
      BY <2>2, <2>3
  <1> HIDE DEF S, g, a
  <1>9. s = stats(a, Cardinality(S)) /\ S # {}
    BY <1>2 DEF S, a
  <1>10. /\ s.total = Total(S, g)
         /\ s.min = Min({g[x] : x \in S}) /\ s.max = Max({g[x] : x \in S})
         /\ s.min * 1000 <= s.mean /\ s.mean <= s.max * 1000
    BY <1>4, <1>9, StatsRight
  <1>11. a.total = Total(S, g)
    BY <1>4 DEF AccRight
  <1>. QED
    <2>1. s.total = Cardinality(UNION {{x} \X (1..inputs[x].entries[f]) : x \in Finished(side)})
      BY <1>7, <1>10 DEF S
    <2>3. s.total <= MaxUint
      BY <1>8, <1>10, <1>11
    <2> DEFINE A == {g[i] : i \in S}
               B == {inputs[i].entries[f] : i \in Finished(side)}
    <2>4. s.min = Min(A) /\ s.max = Max(A)
      BY <1>10
    <2>5. A = B
      BY <1>6 DEF S
    <2> HIDE DEF A, B
    <2>6. s.min = Min(B) /\ s.max = Max(B)
      BY <2>4, <2>5
    <2>. QED
      BY <1>10, <2>1, <2>3, <2>6 DEF B, RowRight, SumOver

\* With one run a side the verdict is the single-run gate's.
LEMMA SingleMeans ==
  ASSUME CountsAssumption, RepeatedInv, pc = "compared", NEW l \in Limits, LimitsOk(n, l),
         n = 1, l.k = 1, l.j = 0, l.minFrequency = None, l.maxLost = None, l.maxCalls = None, l.maxModelCalls = None,
         Finished("reference") # {}, Finished("candidate") # {}
  PROVE  MayPass(l) <=> SingleRunVerdict(inputs[1], inputs[2], l) = "pass"
  <1>1. DOMAIN inputs = {1, 2} /\ inputs[1].side = "reference" /\ inputs[2].side = "candidate"
    <2>1. Len(inputs) = 2 /\ inputs \in Seq(InputType)
      BY DEF RepeatedInv
    <2>2. DOMAIN inputs = 1..2
      BY <2>1
    <2>3. 1 \in DOMAIN inputs /\ 2 \in DOMAIN inputs
      BY <2>2
    <2>4. inputs[1].side = "reference" /\ inputs[2].side = "candidate"
      BY <2>3 DEF RepeatedInv
    <2>5. 1..2 = {1, 2}
      OBVIOUS
    <2>. QED
      BY <2>2, <2>4, <2>5
  <1>2. Repetitions("reference") = {1} /\ Repetitions("candidate") = {2}
    BY <1>1 DEF Repetitions
  <1>3. Finished("reference") = {1} /\ Finished("candidate") = {2}
    BY <1>2 DEF Finished
  <1>4. inputs[1] \in InputType /\ inputs[2] \in InputType
    BY <1>1, SidesAre
  <1>5. inputs[1].entries \in Entries /\ inputs[2].entries \in Entries
    BY <1>4 DEF InputType
  <1>6. \A f \in Fingerprints : inputs[1].entries[f] \in Nat /\ inputs[2].entries[f] \in Nat
    BY <1>5, CallsAre
  <1>7. Records(inputs[1].entries) \in Nat /\ Records(inputs[2].entries) \in Nat
    BY <1>5, CallsAre
  <1>8. Cardinality({1}) = 1 /\ Cardinality({2}) = 1 /\ Cardinality({}) = 0
    BY FS_Singleton, FS_EmptySet
  <1>9. ASSUME NEW f \in Fingerprints
        PROVE  /\ Cardinality(Shows("candidate", f)) >= l.k <=> inputs[2].entries[f] > 0
               /\ Cardinality(Shows("reference", f)) <= l.j <=> inputs[1].entries[f] = 0
    <2>1. Shows("candidate", f) = IF inputs[2].entries[f] > 0 THEN {2} ELSE {}
      BY <1>3 DEF Shows
    <2>2. Shows("reference", f) = IF inputs[1].entries[f] > 0 THEN {1} ELSE {}
      BY <1>3 DEF Shows
    <2>3. Cardinality(Shows("candidate", f)) >= 1 <=> inputs[2].entries[f] > 0
      BY <1>8, <2>1
    <2>4. Cardinality(Shows("reference", f)) <= 0 <=> inputs[1].entries[f] = 0
      <3>1. CASE inputs[1].entries[f] > 0
        <4>1. Shows("reference", f) = {1} /\ inputs[1].entries[f] # 0
          BY <1>6, <2>2, <3>1
        <4>. QED
          BY <1>8, <4>1
      <3>2. CASE ~(inputs[1].entries[f] > 0)
        <4>1. Shows("reference", f) = {} /\ inputs[1].entries[f] = 0
          BY <1>6, <2>2, <3>2
        <4>. QED
          BY <1>8, <4>1
      <3>. QED
        BY <3>1, <3>2
    <2>. QED
      BY <2>3, <2>4
  <1>10. {f \in Fingerprints : Cardinality(Shows("candidate", f)) >= l.k /\ Cardinality(Shows("reference", f)) <= l.j}
           = {f \in Fingerprints : inputs[2].entries[f] > 0 /\ inputs[1].entries[f] = 0}
    BY <1>9
  <1>11. MayPass(l) <=> /\ Records(inputs[1].entries) > 0 /\ Records(inputs[2].entries) > 0
                        /\ inputs[2].blocks <= l.maxBlocks /\ inputs[2].critical <= l.maxCritical
                        /\ Cardinality({f \in Fingerprints : inputs[2].entries[f] > 0 /\ inputs[1].entries[f] = 0}) <= l.maxAdded
    BY <1>1, <1>2, <1>3, <1>10 DEF MayPass
  <1>. QED
    BY <1>7, <1>11 DEF SingleRunVerdict

\* The record an execution keeps of the gate is one its validation accepts.
LEMMA RecordMeans ==
  ASSUME CountsAssumption, RepeatedInv, pc = "compared", NEW l \in Limits, LimitsOk(n, l),
         NEW rec, rec.checks = ChecksFor(n, reduced, l), rec.frequency = FrequencyFor(n, reduced, l, Layers(inputs)),
         rec.verdict = VerdictOf(rec.checks, rec.frequency)
  PROVE  RecordValid(rec, l)
  <1> DEFINE bounds == <<n, n, 0, l.maxAdded, l.maxBlocks, l.maxCritical>>
             supplied == <<l.minFrequency, l.maxLost, l.maxCalls, l.maxModelCalls>>
             holds(c) == CASE c.rule = "at_most" -> c.actual <= c.bound
                           [] c.rule = "at_least" -> c.actual >= c.bound /\ c.actual <= n
                           [] c.rule = "equals" -> c.actual = c.bound
  <1>1. ASSUME NEW k, NEW a, NEW b
        PROVE  LET e == Evaluated(k, "at_most", a, b) IN
                 e.state = "evaluated" /\ e.bound = b /\ e.passed = holds(e)
    <2> DEFINE e == Evaluated(k, "at_most", a, b)
    <2>1. e.state = "evaluated" /\ e.rule = "at_most" /\ e.actual = a /\ e.bound = b /\ e.passed = (a <= b)
      BY EvaluatedIs
    <2> HIDE DEF e
    <2>. QED
      BY <2>1 DEF e
  <1>2. ASSUME NEW k, NEW a, NEW b
        PROVE  LET e == Evaluated(k, "equals", a, b) IN
                 e.state = "evaluated" /\ e.bound = b /\ e.passed = holds(e)
    <2> DEFINE e == Evaluated(k, "equals", a, b)
    <2>1. e.state = "evaluated" /\ e.rule = "equals" /\ e.actual = a /\ e.bound = b /\ e.passed = (a = b)
      BY EvaluatedIs
    <2> HIDE DEF e
    <2>. QED
      BY <2>1 DEF e
  <1>3. ASSUME NEW k, NEW a, NEW b, a <= n
        PROVE  LET e == Evaluated(k, "at_least", a, b) IN
                 e.state = "evaluated" /\ e.bound = b /\ e.passed = holds(e)
    <2> DEFINE e == Evaluated(k, "at_least", a, b)
    <2>1. e.state = "evaluated" /\ e.rule = "at_least" /\ e.actual = a /\ e.bound = b /\ e.passed = (a >= b)
      BY EvaluatedIs
    <2> HIDE DEF e
    <2>. QED
      BY <1>3, <2>1 DEF e
  <1>4. validateLimits(l)
    BY DEF validateLimits, LimitsOk
  <1>5. /\ rec.checks[1] = Evaluated("reference_repetitions_completed", "equals", reduced.reference.completed, n)
        /\ rec.checks[2] = Evaluated("candidate_repetitions_completed", "equals", reduced.candidate.completed, n)
        /\ rec.checks[3] = Evaluated("repetitions_failing_minimum_evidence", "at_most", reduced.failingMinimum, 0)
        /\ rec.checks[4] = Evaluated("repeatedly_added_behaviors", "at_most", Cardinality(AddedBehaviors(reduced, l)), l.maxAdded)
        /\ rec.checks[5] = Evaluated("worst_candidate_block_decisions", "at_most", reduced.worstBlock, l.maxBlocks)
        /\ rec.checks[6] = Evaluated("worst_candidate_critical_risk_observations", "at_most", reduced.worstCR, l.maxCritical)
    BY DEF ChecksFor
  <1>6. bounds[1] = n /\ bounds[2] = n /\ bounds[3] = 0 /\ bounds[4] = l.maxAdded /\ bounds[5] = l.maxBlocks
        /\ bounds[6] = l.maxCritical
    OBVIOUS
  <1>7. /\ supplied[1] = l.minFrequency /\ supplied[2] = l.maxLost /\ supplied[3] = l.maxCalls
        /\ supplied[4] = l.maxModelCalls
    OBVIOUS
  <1>8. /\ rec.frequency[1] = MinFrequencyFor(n, reduced, l) /\ rec.frequency[2] = MaxLostFor(n, reduced, l)
        /\ rec.frequency[3] = MaxCallsPerRun(reduced, l)
        /\ rec.frequency[4] = MaxLLMCallsPerRun(reduced, l, Layers(inputs))
    BY DEF FrequencyFor
  <1> HIDE DEF holds, bounds, supplied
  <1>9. ASSUME NEW i \in 1..6 PROVE rec.checks[i].bound = bounds[i] /\ rec.checks[i].passed = holds(rec.checks[i])
    <2>1. CASE i = 1
      BY <1>2, <1>5, <1>6, <2>1
    <2>2. CASE i = 2
      BY <1>2, <1>5, <1>6, <2>2
    <2>3. CASE i = 3
      BY <1>1, <1>5, <1>6, <2>3
    <2>4. CASE i = 4
      BY <1>1, <1>5, <1>6, <2>4
    <2>5. CASE i = 5
      BY <1>1, <1>5, <1>6, <2>5
    <2>6. CASE i = 6
      BY <1>1, <1>5, <1>6, <2>6
    <2>. QED
      BY <2>1, <2>2, <2>3, <2>4, <2>5, <2>6
  <1> DEFINE Fits(m, c) ==
               /\ (c.state = "not_evaluated") <=> (supplied[m] = None)
               /\ c.state = "evaluated" /\ m # 3 => c.bound = supplied[m] /\ c.passed = holds(c)
               /\ c.state = "evaluated" /\ m = 3 =>
                    /\ DOMAIN c.targets = DOMAIN l.maxCalls
                    /\ c.passed = \A t \in DOMAIN c.targets : c.targets[t] = "pass"
  <1>10. Fits(1, MinFrequencyFor(n, reduced, l))
    <2>1. CASE l.minFrequency = None
      BY <1>7, <2>1, LeftOutIs DEF MinFrequencyFor
    <2>2. CASE l.minFrequency # None /\ (missingSide(reduced) \/ Steady(n, reduced) = {})
      BY <1>7, <2>2, LeftOutIs DEF MinFrequencyFor
    <2>3. CASE l.minFrequency # None /\ ~(missingSide(reduced) \/ Steady(n, reduced) = {})
      <3> DEFINE V == {Present(reduced, "candidate", f) : f \in Steady(n, reduced)}
      <3>1. MinFrequencyFor(n, reduced, l) = Evaluated("min_candidate_frequency", "at_least", Lowest(n, reduced), l.minFrequency)
        BY <2>3 DEF MinFrequencyFor
      <3>2. V \subseteq Nat /\ V # {} /\ \A k \in V : k <= n
        <4>1. Steady(n, reduced) \subseteq Fingerprints
          BY DEF Steady, Seen
        <4>. QED
          BY <2>3, <4>1, PresenceIs DEF BothSides
      <3>3. Lowest(n, reduced) <= n
        <4> HIDE DEF V
        <4>1. PICK m \in V : \A k \in V : m <= k
          BY <3>2, LeastOf
        <4>2. Min(V) = m
          BY <3>2, <4>1, MinIs
        <4>. QED
          BY <3>2, <4>1, <4>2 DEF Lowest, V
      <3>4. LET e == Evaluated("min_candidate_frequency", "at_least", Lowest(n, reduced), l.minFrequency)
            IN e.state = "evaluated" /\ e.bound = l.minFrequency /\ e.passed = holds(e)
        BY <1>3, <3>3
      <3>. QED
        BY <1>7, <2>3, <3>1, <3>4
    <2>. QED
      BY <2>1, <2>2, <2>3
  <1>11. Fits(2, MaxLostFor(n, reduced, l))
    <2>1. CASE l.maxLost = None
      BY <1>7, <2>1, LeftOutIs DEF MaxLostFor
    <2>2. CASE l.maxLost # None /\ missingSide(reduced)
      BY <1>7, <2>2, LeftOutIs DEF MaxLostFor
    <2>3. CASE l.maxLost # None /\ ~missingSide(reduced)
      BY <1>1, <1>7, <2>3 DEF MaxLostFor
    <2>. QED
      BY <2>1, <2>2, <2>3
  <1>12. Fits(3, MaxCallsPerRun(reduced, l))
    <2>1. CASE l.maxCalls = None
      BY <1>7, <2>1, LeftOutIs DEF MaxCallsPerRun
    <2>2. CASE l.maxCalls # None /\ reduced.candidate.completed = 0
      BY <1>7, <2>2, LeftOutIs DEF MaxCallsPerRun
    <2>3. CASE l.maxCalls # None /\ reduced.candidate.completed # 0
      <3>1. PICK o : /\ DOMAIN o = DOMAIN l.maxCalls
                     /\ MaxCallsPerRun(reduced, l)
                          = [check |-> "max_calls_per_run", state |-> "evaluated", targets |-> o,
                             passed |-> \A t \in DOMAIN o : o[t] = "pass"]
        <4> DEFINE called(side, t) == t \in Targets /\ reduced[side].targets[t].presentRuns > 0
                   actual(t) == IF called("candidate", t) THEN reduced.candidate.targets[t].max ELSE 0
                   outcome(t) == CASE ~called("candidate", t) /\ ~called("reference", t) -> "not_observed"
                                   [] called("candidate", t) /\ actual(t) > l.maxCalls[t] -> "fail"
                                   [] OTHER -> "pass"
                   o == [t \in DOMAIN l.maxCalls |-> outcome(t)]
        <4>1. MaxCallsPerRun(reduced, l)
                = [check |-> "max_calls_per_run", state |-> "evaluated", targets |-> o,
                   passed |-> \A t \in DOMAIN o : o[t] = "pass"]
          BY <2>3 DEF MaxCallsPerRun
        <4> HIDE DEF outcome
        <4>2. DOMAIN o = DOMAIN l.maxCalls
          OBVIOUS
        <4> HIDE DEF o
        <4>. QED
          BY <4>1, <4>2
      <3> DEFINE c == MaxCallsPerRun(reduced, l)
      <3>2. c.state = "evaluated" /\ c.targets = o /\ c.passed = (\A t \in DOMAIN o : o[t] = "pass")
        BY <3>1
      <3> HIDE DEF c
      <3>. QED
        BY <1>7, <2>3, <3>1, <3>2 DEF c
    <2>. QED
      BY <2>1, <2>2, <2>3
  <1>13. Fits(4, MaxLLMCallsPerRun(reduced, l, Layers(inputs)))
    <2> DEFINE y == Layers(inputs)
               D == reduced.candidate.completed = 0 \/ \E i \in DOMAIN y : y[i] = 0
    <2>1. CASE l.maxModelCalls = None
      BY <1>7, <2>1, LeftOutIs DEF MaxLLMCallsPerRun
    <2>2. CASE l.maxModelCalls # None /\ D
      BY <1>7, <2>2, LeftOutIs DEF MaxLLMCallsPerRun
    <2>3. CASE l.maxModelCalls # None /\ ~D
      <3>1. MaxLLMCallsPerRun(reduced, l, y)
              = Evaluated("max_llm_calls_per_run", "at_most", Max({y[i] : i \in DOMAIN y}), l.maxModelCalls)
        BY <2>3 DEF MaxLLMCallsPerRun
      <3>. QED
        BY <1>1, <1>7, <2>3, <3>1
    <2>. QED
      BY <2>1, <2>2, <2>3
  <1> HIDE DEF Fits
  <1>14. ASSUME NEW m \in 1..4 PROVE Fits(m, rec.frequency[m])
    <2>1. m = 1 \/ m = 2 \/ m = 3 \/ m = 4
      OBVIOUS
    <2>. QED
      BY <1>8, <1>10, <1>11, <1>12, <1>13, <2>1
  <1>. QED
    BY <1>4, <1>9, <1>14 DEF RecordValid, Fits, bounds, supplied, holds

\* The invariant gives the property.
LEMMA RepeatedRight ==
  ASSUME CountsAssumption, RepeatedInv PROVE VerdictIsRight
  <1> SUFFICES ASSUME pc = "compared", ~result.refused
               PROVE  VerdictIsRight
    BY DEF VerdictIsRight
  <1>1. PICK l \in Limits : result = MadeFor(n, inputs, reduced, l)
    BY DEF RepeatedInv
  <1> DEFINE checks == ChecksFor(n, reduced, l)
             frequency == FrequencyFor(n, reduced, l, Layers(inputs))
  <1>2. LimitsOk(n, l) /\ ~reduced.overflow
    BY <1>1 DEF MadeFor
  <1>3. /\ result.limits = l /\ result.checks = checks /\ result.frequency = frequency
        /\ result.verdict = VerdictOf(checks, frequency)
        /\ result.behaviors = [f \in Seen(reduced) |-> RowFor(n, reduced, l, f)]
        /\ result.suggested.added = AddedAll(n, reduced) /\ result.suggested.lost = LostHalf(n, reduced)
    BY <1>1, <1>2 DEF MadeFor
  <1>4. Seen(reduced) \subseteq Fingerprints
    BY DEF Seen
  <1>5. /\ DOMAIN result.behaviors = Seen(reduced)
        /\ \A f \in Seen(reduced) : result.behaviors[f] = RowFor(n, reduced, l, f)
    BY <1>3
  <1>6. result.verdict = "pass" <=> MayPass(l)
    BY <1>2, <1>3, PassMeans
  <1>7. result.verdict \in {"pass", "fail"}
    BY <1>3 DEF VerdictOf
  <1> HIDE DEF checks, frequency
  <1>8. ASSUME NEW f \in DOMAIN result.behaviors, NEW side \in {"reference", "candidate"}, Finished(side) # {}
        PROVE  RowRight(result.behaviors[f][side], side, f)
    <2> DEFINE s == result.behaviors[f][side]
    <2>1. s = stats(reduced[side].behaviors[f], reduced[side].completed)
      <3>1. result.behaviors[f] = RowFor(n, reduced, l, f)
        BY <1>5
      <3>2. CASE side = "reference"
        <4>1. RowFor(n, reduced, l, f).reference = stats(reduced.reference.behaviors[f], reduced.reference.completed)
          BY DEF RowFor
        <4>. QED
          BY <3>1, <3>2, <4>1
      <3>3. CASE side = "candidate"
        <4>1. RowFor(n, reduced, l, f).candidate = stats(reduced.candidate.behaviors[f], reduced.candidate.completed)
          BY DEF RowFor
        <4>. QED
          BY <3>1, <3>3, <4>1
      <3>. QED
        BY <3>2, <3>3
    <2>2. f \in Fingerprints /\ side \in BothSides
      BY <1>4, <1>5 DEF BothSides
    <2> HIDE DEF s
    <2>3. RowRight(s, side, f)
      BY <1>2, <1>8, <2>1, <2>2, RowsMean
    <2>. QED
      BY <2>3 DEF s
  <1>9. ASSUME n = 1, l.k = 1, l.j = 0, \A m \in DOMAIN Given(l) : Given(l)[m] = None,
               Finished("reference") # {}, Finished("candidate") # {}
        PROVE  result.verdict = SingleRunVerdict(inputs[1], inputs[2], l)
    <2>1. l.minFrequency = None /\ l.maxLost = None /\ l.maxCalls = None /\ l.maxModelCalls = None
      BY <1>9 DEF Given
    <2>2. MayPass(l) <=> SingleRunVerdict(inputs[1], inputs[2], l) = "pass"
      BY <1>2, <1>9, <2>1, SingleMeans
    <2>3. SingleRunVerdict(inputs[1], inputs[2], l) \in {"pass", "fail"}
      BY DEF SingleRunVerdict
    <2>. QED
      BY <1>6, <1>7, <2>2, <2>3
  <1>10. RecordValid(result, l)
    BY <1>2, <1>3, RecordMeans DEF checks, frequency
  <1>11. ASSUME NEW f \in result.suggested.added PROVE result.behaviors[f].class = "added"
    <2>1. f \in Seen(reduced) /\ Present(reduced, "candidate", f) = n /\ Present(reduced, "reference", f) = 0
      BY <1>3 DEF AddedAll
    <2>2. n \in Nat /\ l.k \in 1..n /\ l.j \in Nat
      BY <1>2, SidesAre DEF LimitsOk, CountsAssumption
    <2>3. classifyPresence(Present(reduced, "reference", f), Present(reduced, "candidate", f), l.k, l.j) = "added"
      <3>1. Present(reduced, "candidate", f) >= l.k /\ Present(reduced, "reference", f) <= l.j
        BY <2>1, <2>2
      <3>. QED
        BY <1>2, <1>4, <2>1, <3>1, AddedMeans
    <2>4. result.behaviors[f] = RowFor(n, reduced, l, f)
      BY <1>5, <2>1
    <2>5. RowFor(n, reduced, l, f).class
            = classifyPresence(Present(reduced, "reference", f), Present(reduced, "candidate", f), l.k, l.j)
      BY DEF RowFor
    <2>. QED
      BY <2>3, <2>4, <2>5
  <1>12. ASSUME NEW f \in result.suggested.lost PROVE result.behaviors[f].lost
    <2>1. f \in Seen(reduced) /\ Present(reduced, "reference", f) = n /\ Present(reduced, "candidate", f) * 2 <= n
      BY <1>3 DEF LostHalf
    <2>2. n \in Nat /\ n # 0 /\ Present(reduced, "candidate", f) \in Nat
      BY <1>4, <2>1, SidesAre, PresenceIs DEF BothSides
    <2>3. Present(reduced, "candidate", f) < n
      BY <2>1, <2>2
    <2>4. result.behaviors[f] = RowFor(n, reduced, l, f)
      BY <1>5, <2>1
    <2>5. RowFor(n, reduced, l, f).lost = (Present(reduced, "reference", f) = n /\ Present(reduced, "candidate", f) < n)
      BY DEF RowFor
    <2>. QED
      BY <2>1, <2>3, <2>4, <2>5
  <1>13. result.limits = l
    BY <1>3
  <1>14. /\ result.verdict = "pass" <=> MayPass(result.limits)
         /\ RecordValid(result, result.limits)
    BY <1>6, <1>10, <1>13
  <1>15. n = 1 /\ result.limits.k = 1 /\ result.limits.j = 0
           /\ (\A m \in DOMAIN Given(result.limits) : Given(result.limits)[m] = None)
           /\ Finished("reference") # {} /\ Finished("candidate") # {}
           => result.verdict = SingleRunVerdict(inputs[1], inputs[2], result.limits)
    BY <1>9, <1>13
  <1>16. \A f \in DOMAIN result.behaviors, side \in {"reference", "candidate"} :
            Finished(side) # {} => RowRight(result.behaviors[f][side], side, f)
    BY <1>8
  <1>. QED
    BY <1>11, <1>12, <1>14, <1>15, <1>16 DEF VerdictIsRight, RowRight
=============================================================================
