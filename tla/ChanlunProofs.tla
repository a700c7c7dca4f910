---------------------------- MODULE ChanlunProofs ---------------------------
(***************************************************************************)
(* Theorems of Chanlun for every series that arrives in any portions: the  *)
(* chart is sound and typed, and a longer series takes nothing of it back. *)
(*                                                                         *)
(* The chart is computed anew at every step, so the invariant, ChartInv,   *)
(* only says of which series it is; the rest is about what the loops       *)
(* compute. Each is followed place by place (FoldProofs): merged bars go   *)
(* one way from a turn to the next, so tops and bottoms alternate; a       *)
(* stroke starts at the farthest fractal since the last one ended. Of two  *)
(* series, one of which goes on where the other ends, each loop goes on    *)
(* where the other's ended.                                                *)
(***************************************************************************)
EXTENDS Chanlun, FoldProofs, SequenceTheorems, TLAPS

-----------------------------------------------------------------------------
\* The merged bars go one way or the other.

\* A merged bar, and merged bars that are some.
MergedBar == [high : Nat, low : Nat, way : {"up", "down", "none"}, date : Nat]
SomeBars == Seq(MergedBar) \ {<<>>}

\* The merged bars behind each bar of a series.
MergedLog(F, s) ==
  /\ F \in [0..Len(s) -> SomeBars]
  /\ F[0] = <<FirstOf(s[1], 1, "none")>>
  /\ \A k \in 1..Len(s) : F[k] = IF k \in 2..Len(s) THEN MergeBar(F[k - 1], s[k], k) ELSE F[k - 1]

\* The larger and the smaller of two numbers.
LEMMA MaxOfTwo ==
  ASSUME NEW a \in Nat, NEW b \in Nat
  PROVE  /\ Max({a, b}) = IF a >= b THEN a ELSE b
         /\ Min({a, b}) = IF a <= b THEN a ELSE b
  <1>1. ASSUME NEW x \in {a, b}, \A y \in {a, b} : x >= y PROVE x = IF a >= b THEN a ELSE b
    BY <1>1
  <1>2. ASSUME NEW x \in {a, b}, \A y \in {a, b} : x <= y PROVE x = IF a <= b THEN a ELSE b
    BY <1>2
  <1>3. \E x \in {a, b} : \A y \in {a, b} : x >= y
    BY DEF Max
  <1>4. \E x \in {a, b} : \A y \in {a, b} : x <= y
    BY DEF Max
  <1> QED
    BY <1>1, <1>2, <1>3, <1>4 DEF Max, Min

\* What a bar is absorbed to.
LEMMA AbsorbedFields ==
  ASSUME NEW k \in MergedBar, NEW b \in ChartBar, NEW date \in Nat
  PROVE  /\ Absorbed(k, b, date) \in MergedBar
         /\ Absorbed(k, b, date).date = date /\ Absorbed(k, b, date).way = k.way
         /\ Absorbed(k, b, date).high = IF k.way = "down" THEN Min({b.high, k.high}) ELSE Max({b.high, k.high})
         /\ Absorbed(k, b, date).low = IF k.way = "up" THEN Max({b.low, k.low}) ELSE Min({b.low, k.low})
  <1>1. k.high \in Nat /\ k.low \in Nat /\ b.high \in Nat /\ b.low \in Nat
    BY DEF MergedBar, ChartBar
  <1>2. /\ Max({b.high, k.high}) \in Nat /\ Min({b.high, k.high}) \in Nat
        /\ Max({b.low, k.low}) \in Nat /\ Min({b.low, k.low}) \in Nat
    BY <1>1, MaxOfTwo
  <1> QED
    BY <1>1, <1>2 DEF Absorbed, MergedBar

\* A step of the merging keeps the type, and touches the last merged bar at most.
LEMMA MergeBarTyped ==
  ASSUME NEW m \in SomeBars, NEW b \in ChartBar, NEW date \in Nat
  PROVE  /\ MergeBar(m, b, date) \in SomeBars
         /\ Contained(b, Last(m)) =>
              /\ Len(MergeBar(m, b, date)) = Len(m)
              /\ \A j \in 1..Len(m) - 1 : MergeBar(m, b, date)[j] = m[j]
              /\ MergeBar(m, b, date)[Len(m)] = Absorbed(Last(m), b, date)
         /\ ~Contained(b, Last(m)) =>
              /\ Len(MergeBar(m, b, date)) = Len(m) + 1
              /\ \A j \in 1..Len(m) : MergeBar(m, b, date)[j] = m[j]
              /\ MergeBar(m, b, date)[Len(m) + 1] =
                   FirstOf(b, date, IF b.high > Last(m).high THEN "up" ELSE "down")
  <1>1. m \in Seq(MergedBar) /\ Len(m) \in Nat \ {0} /\ Last(m) \in MergedBar
    <2>1. m \in Seq(MergedBar) /\ Len(m) \in Nat \ {0}
      BY DEF SomeBars
    <2> QED
      BY <2>1 DEF Last
  <1>2. CASE Contained(b, Last(m))
    <2>1. MergeBar(m, b, date) = Append(Front(m), Absorbed(Last(m), b, date))
      BY <1>2 DEF MergeBar
    <2>2. Absorbed(Last(m), b, date) \in MergedBar
      BY <1>1, AbsorbedFields
    <2>3. /\ Front(m) \in Seq(MergedBar) /\ Len(Front(m)) = Len(m) - 1
          /\ \A j \in 1..Len(m) - 1 : Front(m)[j] = m[j]
      <3>1. Len(m) - 1 \in Int /\ 1 \in Int /\ \A i \in 1..Len(m) - 1 : m[i] \in MergedBar
        BY <1>1
      <3>2. /\ SubSeq(m, 1, Len(m) - 1) \in Seq(MergedBar)
            /\ Len(SubSeq(m, 1, Len(m) - 1)) = IF 1 <= Len(m) - 1 THEN Len(m) - 1 - 1 + 1 ELSE 0
            /\ \A i \in 1..Len(m) - 1 - 1 + 1 : SubSeq(m, 1, Len(m) - 1)[i] = m[1 + i - 1]
        BY <3>1, SubSeqProperties
      <3>3. Len(SubSeq(m, 1, Len(m) - 1)) = Len(m) - 1
        <4>1. \A x \in Nat \ {0} : (IF 1 <= x - 1 THEN x - 1 - 1 + 1 ELSE 0) = x - 1
          OBVIOUS
        <4> QED
          BY <1>1, <3>2, <4>1
      <3>4. ASSUME NEW i \in 1..Len(m) - 1 PROVE SubSeq(m, 1, Len(m) - 1)[i] = m[i]
        <4>1. 1 + i - 1 = i /\ i \in 1..Len(m) - 1 - 1 + 1
          BY <1>1
        <4> QED
          BY <3>2, <4>1
      <3> QED
        BY <3>2, <3>3, <3>4 DEF Front
    <2> QED
      BY <1>1, <1>2, <2>1, <2>2, <2>3 DEF SomeBars
  <1>3. CASE ~Contained(b, Last(m))
    <2> DEFINE x == FirstOf(b, date, IF b.high > Last(m).high THEN "up" ELSE "down")
    <2>1. MergeBar(m, b, date) = Append(m, x)
      BY <1>3 DEF MergeBar
    <2>2. x \in MergedBar
      BY DEF FirstOf, MergedBar, ChartBar
    <2> HIDE DEF x
    <2>3. MergeBar(m, b, date) \in SomeBars
      BY <1>1, <2>1, <2>2 DEF SomeBars
    <2>4. /\ Len(MergeBar(m, b, date)) = Len(m) + 1
          /\ \A j \in 1..Len(m) : MergeBar(m, b, date)[j] = m[j]
          /\ MergeBar(m, b, date)[Len(m) + 1] = x
      BY <1>1, <2>1, <2>2
    <2> QED
      BY <1>3, <2>3, <2>4 DEF x
  <1> QED
    BY <1>2, <1>3

\* Merging can be followed bar by bar.
LEMMA MergedFold ==
  ASSUME NEW s \in Seq(ChartBar), s # <<>>
  PROVE  \E F : MergedLog(F, s) /\ MergedKlines(s) = F[Len(s)]
  <1> DEFINE n == Len(s)
             T == 2..n
             base == <<FirstOf(s[1], 1, "none")>>
             G == [p \in T \X SomeBars |-> MergeBar(p[2], s[p[1]], p[1])]
             it == CHOOSE it : it = [S \in SUBSET T |-> IF S = {} THEN base
                                       ELSE MergeBar(it[S \ {LastOf(S)}], s[LastOf(S)], LastOf(S))]
             Runs(f) == f = [S \in SUBSET T |-> IF S = {} THEN base
                               ELSE MergeBar(f[S \ {LastOf(S)}], s[LastOf(S)], LastOf(S))]
  <1>1. MergedKlines(s) = it[T]
    BY DEF MergedKlines, FoldAt, MapThenFoldSet, LastOf, Max
  <1>2. Loop(n, T, SomeBars, base, G)
    <2>1. n \in Nat \ {0} /\ T \in SUBSET (1..n) /\ s[1] \in ChartBar
      OBVIOUS
    <2>2. base \in SomeBars
      <3>1. FirstOf(s[1], 1, "none") \in MergedBar
        BY <2>1 DEF FirstOf, MergedBar, ChartBar
      <3> QED
        BY <3>1 DEF SomeBars
    <2>3. ASSUME NEW k \in T, NEW x \in SomeBars PROVE MergeBar(x, s[k], k) \in SomeBars
      <3>1. s[k] \in ChartBar /\ k \in Nat
        OBVIOUS
      <3> QED
        BY <3>1, MergeBarTyped
    <2> QED
      BY <2>1, <2>2, <2>3 DEF Loop
  <1> HIDE DEF base
  <1>3. PICK g : Follower(g, T, SomeBars, base, G)
    <2> HIDE DEF T, G, n
    <2> QED
      BY <1>2, FollowerExists
  <1>4. Runs(g)
    <2>1. ASSUME NEW S \in SUBSET T
          PROVE g[S] = IF S = {} THEN base ELSE MergeBar(g[S \ {LastOf(S)}], s[LastOf(S)], LastOf(S))
      <3>1. S \ {LastOf(S)} \in SUBSET T /\ S \in SUBSET (1..n) /\ n \in Nat
        BY <1>2 DEF Loop
      <3>2. S # {} => LastOf(S) \in T
        BY <3>1, LastIn
      <3> QED
        BY <1>3, <3>1, <3>2 DEF Follower
    <2> QED
      BY <2>1, <1>3 DEF Follower
  <1>5. Runs(it)
    BY <1>4
  <1>6. Follows(it, T, base, SomeBars, G)
    <2>1. ASSUME NEW S \in SUBSET T
          PROVE it[S] = IF S = {} THEN base ELSE MergeBar(it[S \ {LastOf(S)}], s[LastOf(S)], LastOf(S))
      <3> HIDE DEF it
      <3> QED
        BY <1>5
    <2> HIDE DEF it
    <2>2. ASSUME NEW S \in SUBSET T, S # {}, NEW x \in SomeBars, it[S \ {LastOf(S)}] = x
          PROVE  it[S] = G[<<LastOf(S), x>>]
      <3>1. LastOf(S) \in T
        BY <1>2, <2>2, LastIn DEF Loop
      <3> QED
        BY <2>1, <2>2, <3>1
    <2> HIDE DEF T, G
    <2>3. it[{}] = base
      BY <2>1
    <2> QED
      BY <2>2, <2>3 DEF Follows
  <1>7. PICK F : Walked(F, n, T, base, SomeBars, G) /\ F[n] = it[T]
    <2> HIDE DEF it, T, G, n, Runs
    <2> QED
      BY <1>2, <1>6, FollowedSteps
  <1>8. MergedLog(F, s)
    <2> HIDE DEF it, Runs, G, T
    <2>1. /\ F \in [0..n -> SomeBars] /\ F[0] = base
          /\ \A k \in 1..n : F[k] = IF k \in T THEN G[<<k, F[k - 1]>>] ELSE F[k - 1]
      BY <1>7 DEF Walked
    <2>2. ASSUME NEW k \in T PROVE G[<<k, F[k - 1]>>] = MergeBar(F[k - 1], s[k], k)
      <3>1. F[k - 1] \in SomeBars
        BY <2>1 DEF T
      <3> QED
        BY <3>1 DEF G
    <2> QED
      BY <2>1, <2>2 DEF MergedLog, base, T
  <1> HIDE DEF it, T, G, Runs
  <1> QED
    BY <1>1, <1>7, <1>8

\* A merged bar goes beyond the one before it, its way.
Beyond(k, j) ==
  \/ k.way = "up" /\ k.high > j.high /\ k.low > j.low
  \/ k.way = "down" /\ k.high < j.high /\ k.low < j.low

\* Every merged bar goes beyond the one before it.
Monotone(m) ==
  /\ \A k \in 1..Len(m) : m[k].low <= m[k].high
  /\ \A k \in 2..Len(m) : Beyond(m[k], m[k - 1])

\* A bar that is absorbed takes the merged one no step back.
LEMMA AbsorbedBeyond ==
  ASSUME NEW k \in MergedBar, NEW b \in ChartBar, NEW date \in Nat, k.low <= k.high
  PROVE  /\ Absorbed(k, b, date).low <= Absorbed(k, b, date).high
         /\ \A j \in MergedBar : Beyond(k, j) => Beyond(Absorbed(k, b, date), j)
  <1> DEFINE a == Absorbed(k, b, date)
  <1>1. k.high \in Nat /\ k.low \in Nat /\ b.high \in Nat /\ b.low \in Nat /\ b.low <= b.high
    BY DEF MergedBar, ChartBar
  <1>2. /\ a.way = k.way
        /\ a.high = IF k.way = "down" THEN IF b.high <= k.high THEN b.high ELSE k.high
                    ELSE IF b.high >= k.high THEN b.high ELSE k.high
        /\ a.low = IF k.way = "up" THEN IF b.low >= k.low THEN b.low ELSE k.low
                   ELSE IF b.low <= k.low THEN b.low ELSE k.low
    <2>1. /\ a.way = k.way
          /\ a.high = IF k.way = "down" THEN Min({b.high, k.high}) ELSE Max({b.high, k.high})
          /\ a.low = IF k.way = "up" THEN Max({b.low, k.low}) ELSE Min({b.low, k.low})
      BY AbsorbedFields
    <2> HIDE DEF a
    <2>2. /\ Max({b.high, k.high}) = IF b.high >= k.high THEN b.high ELSE k.high
          /\ Min({b.high, k.high}) = IF b.high <= k.high THEN b.high ELSE k.high
          /\ Max({b.low, k.low}) = IF b.low >= k.low THEN b.low ELSE k.low
          /\ Min({b.low, k.low}) = IF b.low <= k.low THEN b.low ELSE k.low
      BY <1>1, MaxOfTwo
    <2> QED
      BY <2>1, <2>2
  <1> HIDE DEF a
  <1>3. a.low <= a.high
    BY <1>1, <1>2
  <1>4. ASSUME NEW j \in MergedBar, Beyond(k, j) PROVE Beyond(a, j)
    <2>1. j.high \in Nat /\ j.low \in Nat
      BY DEF MergedBar
    <2> QED
      BY <1>1, <1>2, <1>4, <2>1 DEF Beyond
  <1> QED
    BY <1>3, <1>4 DEF a

\* A bar that is not absorbed is beyond.
LEMMA FreshBeyond ==
  ASSUME NEW k \in MergedBar, NEW b \in ChartBar, NEW date \in Nat, ~Contained(b, k)
  PROVE  LET x == FirstOf(b, date, IF b.high > k.high THEN "up" ELSE "down")
         IN x.low <= x.high /\ Beyond(x, k)
  <1>1. k.high \in Nat /\ k.low \in Nat /\ b.high \in Nat /\ b.low \in Nat /\ b.low <= b.high
    BY DEF MergedBar, ChartBar
  <1>2. (b.high > k.high /\ b.low > k.low) \/ (~(b.high > k.high) /\ b.high < k.high /\ b.low < k.low)
    BY <1>1 DEF Contained
  <1> QED
    BY <1>1, <1>2 DEF FirstOf, Beyond

\* Merging keeps the order of the merged bars.
LEMMA MergeBarMonotone ==
  ASSUME NEW m \in SomeBars, NEW b \in ChartBar, NEW date \in Nat, Monotone(m)
  PROVE  Monotone(MergeBar(m, b, date))
  <1> DEFINE x == MergeBar(m, b, date)
             n == Len(m)
  <1>1. m \in Seq(MergedBar) /\ n \in Nat \ {0} /\ Last(m) = m[n] /\ m[n] \in MergedBar
    <2>1. m \in Seq(MergedBar) /\ Len(m) \in Nat \ {0}
      BY DEF SomeBars
    <2> QED
      BY <2>1 DEF Last
  <1>2. /\ \A k \in 1..n : m[k].low <= m[k].high
        /\ \A k \in 2..n : Beyond(m[k], m[k - 1])
    BY DEF Monotone
  <1>3. m[n].low <= m[n].high
    BY <1>1, <1>2
  <1> HIDE DEF x, n
  <1>4. CASE Contained(b, Last(m))
    <2>1. Len(x) = n /\ (\A j \in 1..n - 1 : x[j] = m[j]) /\ x[n] = Absorbed(m[n], b, date)
      BY <1>1, <1>4, MergeBarTyped DEF x, n
    <2>2. \A k \in 1..n : x[k].low <= x[k].high
      <3>1. x[n].low <= x[n].high
        BY <1>1, <1>3, <2>1, AbsorbedBeyond
      <3>2. \A k \in 1..n : k = n \/ k \in 1..n - 1
        BY <1>1
      <3> QED
        BY <1>2, <2>1, <3>1, <3>2
    <2>3. ASSUME NEW k \in 2..n PROVE Beyond(x[k], x[k - 1])
      <3>1. k \in 1..n /\ k - 1 \in 1..n - 1 /\ (k = n \/ k \in 1..n - 1) /\ m[k - 1] \in MergedBar
        BY <1>1 DEF n
      <3>2. x[k - 1] = m[k - 1] /\ Beyond(m[k], m[k - 1])
        BY <1>2, <2>1, <3>1
      <3>3. CASE k = n
        BY <1>1, <1>3, <2>1, <3>1, <3>2, <3>3, AbsorbedBeyond
      <3> QED
        BY <2>1, <3>1, <3>2, <3>3
    <2> QED
      BY <2>1, <2>2, <2>3 DEF Monotone, x
  <1>5. CASE ~Contained(b, Last(m))
    <2> DEFINE y == FirstOf(b, date, IF b.high > m[n].high THEN "up" ELSE "down")
    <2>1. Len(x) = n + 1 /\ (\A j \in 1..n : x[j] = m[j]) /\ x[n + 1] = y
      BY <1>1, <1>5, MergeBarTyped DEF x, n
    <2>2. y.low <= y.high /\ Beyond(y, m[n])
      BY <1>1, <1>5, FreshBeyond
    <2> HIDE DEF y
    <2>3. \A k \in 1..n + 1 : x[k].low <= x[k].high
      <3>1. \A k \in 1..n + 1 : k = n + 1 \/ k \in 1..n
        BY <1>1
      <3> QED
        BY <1>2, <2>1, <2>2, <3>1
    <2>4. ASSUME NEW k \in 2..n + 1 PROVE Beyond(x[k], x[k - 1])
      <3>1. k - 1 \in 1..n /\ ((k = n + 1 /\ k - 1 = n) \/ (k \in 2..n /\ k \in 1..n))
        BY <1>1
      <3> QED
        BY <1>2, <2>1, <2>2, <3>1
    <2> QED
      BY <2>1, <2>3, <2>4 DEF Monotone, x
  <1> QED
    BY <1>4, <1>5

\* What merging leaves is typed, in order, and no longer than the series
\* (merge_daily_klines).
LEMMA MergedSound ==
  ASSUME NEW s \in Seq(ChartBar)
  PROVE  /\ MergedKlines(s) \in Seq(MergedBar)
         /\ Monotone(MergedKlines(s))
         /\ Len(MergedKlines(s)) <= Len(s)
  <1>1. CASE s = <<>>
    <2>1. MergedKlines(s) = <<>>
      BY <1>1 DEF MergedKlines
    <2>2. Monotone(<<>>)
      BY DEF Monotone
    <2>3. <<>> \in Seq(MergedBar) /\ Len(<<>>) <= Len(s)
      BY <1>1
    <2> QED
      BY <2>1, <2>2, <2>3
  <1>2. CASE s # <<>>
    <2>1. PICK F : MergedLog(F, s) /\ MergedKlines(s) = F[Len(s)]
      BY <1>2, MergedFold
    <2> DEFINE n == Len(s)
               P == {k \in 0..n : Monotone(F[k]) /\ Len(F[k]) <= (IF k = 0 THEN 1 ELSE k)}
    <2>2. n \in Nat \ {0} /\ s[1] \in ChartBar
      BY <1>2
    <2>3. \A k \in 0..n : F[k] \in SomeBars /\ F[k] \in Seq(MergedBar)
      BY <2>1 DEF MergedLog, SomeBars
    <2>4. 0 \in P
      <3> DEFINE b == FirstOf(s[1], 1, "none")
      <3>1. F[0] = <<b>>
        BY <2>1 DEF MergedLog
      <3>2. b.low <= b.high
        BY <2>2 DEF FirstOf, ChartBar
      <3> HIDE DEF b
      <3>3. Len(<<b>>) = 1 /\ <<b>>[1] = b /\ 1..1 = {1} /\ 2..1 = {}
        OBVIOUS
      <3>4. Monotone(<<b>>)
        BY <3>2, <3>3 DEF Monotone
      <3>5. 0 \in 0..n
        BY <2>2
      <3>6. Monotone(F[0]) /\ Len(F[0]) = 1
        BY <3>1, <3>3, <3>4
      <3>7. Len(F[0]) <= (IF 0 = 0 THEN 1 ELSE 0)
        BY <3>6
      <3> HIDE DEF n
      <3> QED
        BY <3>5, <3>6, <3>7
    <2>5. ASSUME NEW k \in 1..n, k - 1 \in P PROVE k \in P
      <3>1. k - 1 \in 0..n /\ k \in 0..n /\ k \in Nat /\ k # 0 /\ s[k] \in ChartBar
        BY <2>2
      <3>2. F[k - 1] \in SomeBars /\ Monotone(F[k - 1]) /\ Len(F[k - 1]) <= (IF k - 1 = 0 THEN 1 ELSE k - 1)
        BY <2>3, <2>5, <3>1
      <3>3. F[k] = IF k \in 2..n THEN MergeBar(F[k - 1], s[k], k) ELSE F[k - 1]
        BY <2>1 DEF MergedLog
      <3>4. CASE k \in 2..n
        <4>1. Monotone(F[k])
          BY <3>1, <3>2, <3>3, <3>4, MergeBarMonotone
        <4>2. Len(F[k]) = Len(F[k - 1]) \/ Len(F[k]) = Len(F[k - 1]) + 1
          BY <3>1, <3>2, <3>3, <3>4, MergeBarTyped
        <4>3. Len(F[k - 1]) \in Nat
          BY <2>3, <3>1
        <4>4. Len(F[k - 1]) <= k - 1
          BY <3>2, <3>4
        <4>5. Len(F[k]) <= k
          BY <4>2, <4>3, <4>4, <3>1
        <4> QED
          BY <3>1, <4>1, <4>5
      <3>5. CASE k \notin 2..n
        <4>1. k = 1 /\ F[k] = F[k - 1]
          BY <3>3, <3>5
        <4> QED
          BY <3>1, <3>2, <4>1
      <3> QED
        BY <3>4, <3>5
    <2>6. n \in P
      <3> HIDE DEF P
      <3>1. \A k \in 0..n : k \in P
        BY <2>2, <2>4, <2>5, StepByStep
      <3> QED
        BY <2>2, <3>1
    <2> QED
      BY <2>1, <2>2, <2>3, <2>6
  <1> QED
    BY <1>1, <1>2

\* A merged bar has the date of a bar of the series.
LEMMA MergedDates ==
  ASSUME NEW s \in Seq(ChartBar)
  PROVE  \A i \in 1..Len(MergedKlines(s)) : MergedKlines(s)[i].date \in 1..Len(s)
  <1>1. CASE s = <<>>
    <2>1. MergedKlines(s) = <<>>
      BY <1>1 DEF MergedKlines
    <2> QED
      BY <2>1
  <1>2. CASE s # <<>>
    <2>1. PICK F : MergedLog(F, s) /\ MergedKlines(s) = F[Len(s)]
      BY <1>2, MergedFold
    <2> DEFINE n == Len(s)
               Dated(m) == \A i \in 1..Len(m) : m[i].date \in 1..n
               P == {k \in 0..n : Dated(F[k])}
    <2>2. n \in Nat \ {0} /\ n \in 0..n /\ 1 \in 1..n
      BY <1>2
    <2>3. \A k \in 0..n : F[k] \in SomeBars
      BY <2>1 DEF MergedLog
    <2>4. 0 \in P
      <3>1. F[0] = <<FirstOf(s[1], 1, "none")>>
        BY <2>1 DEF MergedLog
      <3>2. FirstOf(s[1], 1, "none").date = 1
        BY DEF FirstOf
      <3>3. Dated(F[0])
        BY <2>2, <3>1, <3>2
      <3> QED
        BY <2>2, <3>3
    <2>5. ASSUME NEW k \in 1..n, k - 1 \in P PROVE k \in P
      <3> DEFINE m == F[k - 1]
      <3>1. k - 1 \in 0..n /\ k \in 0..n /\ k \in Nat /\ s[k] \in ChartBar
        BY <2>2
      <3>2. m \in SomeBars /\ Dated(m)
        BY <2>3, <2>5, <3>1
      <3>3. F[k] = IF k \in 2..n THEN MergeBar(m, s[k], k) ELSE m
        BY <2>1 DEF MergedLog
      <3> HIDE DEF m
      <3>4. m \in Seq(MergedBar) /\ Len(m) \in Nat \ {0} /\ Last(m) \in MergedBar
        <4>1. m \in Seq(MergedBar) /\ Len(m) \in Nat \ {0}
          BY <3>2 DEF SomeBars
        <4> QED
          BY <4>1 DEF Last
      <3> DEFINE x == MergeBar(m, s[k], k)
      <3>5. Dated(x)
        <4>1. CASE Contained(s[k], Last(m))
          <5>1. /\ Len(x) = Len(m) /\ \A j \in 1..Len(m) - 1 : x[j] = m[j]
                /\ x[Len(m)] = Absorbed(Last(m), s[k], k)
            BY <3>1, <3>2, <4>1, MergeBarTyped
          <5>2. x[Len(m)].date = k
            <6>1. Absorbed(Last(m), s[k], k).date = k
              BY <3>1, <3>4, AbsorbedFields
            <6> HIDE DEF x
            <6> QED
              BY <5>1, <6>1
          <5> HIDE DEF x
          <5>3. ASSUME NEW i \in 1..Len(m) PROVE x[i].date \in 1..n
            <6>1. i = Len(m) \/ i \in 1..Len(m) - 1
              BY <3>4
            <6> QED
              BY <3>2, <5>1, <5>2, <6>1
          <5> QED
            BY <5>1, <5>3
        <4>2. CASE ~Contained(s[k], Last(m))
          <5>1. /\ Len(x) = Len(m) + 1 /\ \A j \in 1..Len(m) : x[j] = m[j]
                /\ x[Len(m) + 1] = FirstOf(s[k], k, IF s[k].high > Last(m).high THEN "up" ELSE "down")
            BY <3>1, <3>2, <4>2, MergeBarTyped
          <5>2. x[Len(m) + 1].date = k
            BY <5>1 DEF FirstOf
          <5> HIDE DEF x
          <5>3. ASSUME NEW i \in 1..Len(m) + 1 PROVE x[i].date \in 1..n
            <6>1. i = Len(m) + 1 \/ i \in 1..Len(m)
              BY <3>4
            <6> QED
              BY <3>2, <5>1, <5>2, <6>1
          <5> QED
            BY <5>1, <5>3
        <4> QED
          BY <4>1, <4>2
      <3> HIDE DEF x
      <3>6. Dated(F[k])
        BY <3>2, <3>3, <3>5 DEF x
      <3> QED
        BY <3>1, <3>6
    <2>6. n \in P
      <3> HIDE DEF P
      <3>1. \A k \in 0..n : k \in P
        BY <2>2, <2>4, <2>5, StepByStep
      <3> QED
        BY <2>2, <3>1
    <2> QED
      BY <2>1, <2>6
  <1> QED
    BY <1>1, <1>2

-----------------------------------------------------------------------------
\* Tops and bottoms alternate.

\* A bar behind another is beyond it one way.
LEMMA WayOf ==
  ASSUME NEW m \in Seq(MergedBar), Monotone(m), NEW k \in 2..Len(m)
  PROVE  /\ m[k] \in MergedBar /\ m[k - 1] \in MergedBar
         /\ m[k].way = "up" \/ m[k].way = "down"
         /\ m[k].way = "up" => m[k].high > m[k - 1].high /\ m[k].low > m[k - 1].low
         /\ m[k].way = "down" => m[k].high < m[k - 1].high /\ m[k].low < m[k - 1].low
  <1>1. k - 1 \in 1..Len(m) /\ k \in 1..Len(m)
    OBVIOUS
  <1>2. m[k] \in MergedBar /\ m[k - 1] \in MergedBar
    BY <1>1
  <1>3. Beyond(m[k], m[k - 1])
    BY DEF Monotone
  <1> QED
    BY <1>2, <1>3 DEF Beyond

\* A top is where the way down begins, a bottom where the way up does.
LEMMA TurnWays ==
  ASSUME NEW m \in Seq(MergedBar), Monotone(m), NEW k \in Inner(m)
  PROVE  /\ IsTop(m, k) <=> m[k].way = "up" /\ m[k + 1].way = "down"
         /\ IsBottom(m, k) <=> m[k].way = "down" /\ m[k + 1].way = "up"
  <1>1. k \in 2..Len(m) /\ k + 1 \in 2..Len(m) /\ (k + 1) - 1 = k
    BY DEF Inner
  <1>2. /\ m[k] \in MergedBar /\ m[k - 1] \in MergedBar
        /\ m[k].way = "up" \/ m[k].way = "down"
        /\ m[k].way = "up" => m[k].high > m[k - 1].high /\ m[k].low > m[k - 1].low
        /\ m[k].way = "down" => m[k].high < m[k - 1].high /\ m[k].low < m[k - 1].low
    BY <1>1, WayOf
  <1>3. /\ m[k + 1] \in MergedBar
        /\ m[k + 1].way = "up" \/ m[k + 1].way = "down"
        /\ m[k + 1].way = "up" => m[k + 1].high > m[k].high /\ m[k + 1].low > m[k].low
        /\ m[k + 1].way = "down" => m[k + 1].high < m[k].high /\ m[k + 1].low < m[k].low
    <2> DEFINE k2 == k + 1
    <2>1. k2 \in 2..Len(m)
      BY <1>1
    <2> HIDE DEF k2
    <2>2. /\ m[k2] \in MergedBar
          /\ m[k2].way = "up" \/ m[k2].way = "down"
          /\ m[k2].way = "up" => m[k2].high > m[k2 - 1].high /\ m[k2].low > m[k2 - 1].low
          /\ m[k2].way = "down" => m[k2].high < m[k2 - 1].high /\ m[k2].low < m[k2 - 1].low
      BY <2>1, WayOf
    <2>3. k2 - 1 = k
      BY <1>1 DEF k2
    <2> QED
      BY <2>2, <2>3 DEF k2
  <1>4. /\ m[k].high \in Nat /\ m[k].low \in Nat /\ m[k - 1].high \in Nat /\ m[k - 1].low \in Nat
        /\ m[k + 1].high \in Nat /\ m[k + 1].low \in Nat
    BY <1>2, <1>3 DEF MergedBar
  <1> QED
    BY <1>2, <1>3, <1>4 DEF IsTop, IsBottom

\* No top or bottom is between two places.
NoTurn(m, i, j) == \A x \in Turns(m) : ~(i < x /\ x < j)

\* Behind a turn the bars go one way up to the next.
LEMMA OneWay ==
  ASSUME NEW m \in Seq(MergedBar), Monotone(m), NEW i \in Turns(m), NEW j \in Turns(m), i < j, NoTurn(m, i, j),
         NEW way \in {"up", "down"}, m[i + 1].way = way
  PROVE  /\ m[j].way = way
         /\ way = "down" => m[j].low < m[i].high
         /\ way = "up" => m[j].high > m[i].low
  <1> DEFINE n == j - i - 1
             G(x) == /\ m[x].way = way
                     /\ way = "down" => m[x].low < m[i].high
                     /\ way = "up" => m[x].high > m[i].low
             P == {x \in 0..n : G(i + 1 + x)}
  <1>1. i \in Inner(m) /\ j \in Inner(m)
    BY DEF Turns
  <1>2. n \in Nat /\ i \in Nat /\ j \in Nat /\ Len(m) \in Nat /\ i >= 2 /\ j <= Len(m) - 1 /\ i + 1 + n = j
    BY <1>1 DEF Inner
  <1>3. m[i].low <= m[i].high /\ m[i].low \in Nat /\ m[i].high \in Nat
    <2>1. i \in 1..Len(m)
      BY <1>2
    <2>2. m[i] \in MergedBar
      BY <2>1
    <2>3. m[i].low <= m[i].high
      BY <2>1 DEF Monotone
    <2> QED
      BY <2>2, <2>3 DEF MergedBar
  <1>4. ASSUME NEW x \in 2..Len(m)
        PROVE /\ m[x] \in MergedBar /\ m[x - 1] \in MergedBar
              /\ m[x].high \in Nat /\ m[x].low \in Nat /\ m[x - 1].high \in Nat /\ m[x - 1].low \in Nat
              /\ m[x].way = "up" \/ m[x].way = "down"
              /\ m[x].way = "up" => m[x].high > m[x - 1].high /\ m[x].low > m[x - 1].low
              /\ m[x].way = "down" => m[x].high < m[x - 1].high /\ m[x].low < m[x - 1].low
    BY WayOf DEF MergedBar
  <1> HIDE DEF n
  <1>5. 0 \in P
    <2>1. i + 1 \in 2..Len(m) /\ i + 1 - 1 = i /\ 0 \in 0..n /\ i + 1 + 0 = i + 1
      BY <1>2
    <2> DEFINE x == i + 1
    <2>7. m[x].way = way
      OBVIOUS
    <2>8. x \in 2..Len(m) /\ x - 1 = i
      <3>1. x \in 2..Len(m)
        BY <2>1
      <3>2. x - 1 = i
        BY <1>2
      <3> QED
        BY <3>1, <3>2
    <2>2. x \in 2..Len(m) /\ x - 1 = i /\ m[x].way = way
      BY <2>7, <2>8
    <2> HIDE DEF x
    <2>3. /\ m[x].high \in Nat /\ m[x].low \in Nat
          /\ m[x].way = "up" => m[x].high > m[i].high /\ m[x].low > m[i].low
          /\ m[x].way = "down" => m[x].high < m[i].high /\ m[x].low < m[i].low
      BY <1>4, <2>2
    <2>4. way = "down" => m[x].low < m[i].high
      BY <1>3, <2>2, <2>3
    <2>5. way = "up" => m[x].high > m[i].low
      BY <1>3, <2>2, <2>3
    <2>6. G(x)
      BY <2>2, <2>4, <2>5
    <2> QED
      BY <2>1, <2>6 DEF x
  <1>6. ASSUME NEW k \in 1..n, k - 1 \in P PROVE k \in P
    <2> DEFINE x == i + k
    <2>1. x \in Nat /\ i + 1 + (k - 1) = x /\ i + 1 + k = x + 1 /\ i < x /\ x < j /\ k \in 0..n
      BY <1>2
    <2>2. x \in 2..Len(m) /\ x + 1 \in 2..Len(m) /\ x + 1 - 1 = x /\ x \in Inner(m)
      BY <1>2, <2>1 DEF Inner
    <2>3. x \notin Turns(m)
      BY <2>1 DEF NoTurn
    <2>4. G(x)
      BY <1>6, <2>1
    <2> HIDE DEF x, P
    <2>5. m[x + 1].way = way
      <3>1. ~IsTop(m, x) /\ ~IsBottom(m, x)
        BY <2>2, <2>3 DEF Turns
      <3>2. m[x + 1].way = "up" \/ m[x + 1].way = "down"
        BY <1>4, <2>2
      <3> QED
        BY <2>2, <2>4, <3>1, <3>2, TurnWays
    <2>6. way = "down" => m[x + 1].low < m[i].high
      BY <1>3, <1>4, <2>2, <2>4, <2>5
    <2>7. way = "up" => m[x + 1].high > m[i].low
      BY <1>3, <1>4, <2>2, <2>4, <2>5
    <2>8. G(i + 1 + k)
      BY <2>1, <2>5, <2>6, <2>7
    <2> QED
      BY <2>1, <2>8 DEF P
  <1>7. n \in P
    <2> HIDE DEF P
    <2>1. \A k \in 0..n : k \in P
      BY <1>2, <1>5, <1>6, StepByStep
    <2> QED
      BY <1>2, <2>1
  <1> QED
    BY <1>2, <1>7

\* Of two turns in a row one is a top and the other a bottom, and the top is
\* higher.
LEMMA TurnsAlternate ==
  ASSUME NEW m \in Seq(MergedBar), Monotone(m), NEW i \in Turns(m), NEW j \in Turns(m), i < j, NoTurn(m, i, j)
  PROVE  /\ IsTop(m, i) => ~IsTop(m, j) /\ m[j].low < m[i].high
         /\ ~IsTop(m, i) => IsTop(m, j) /\ m[j].high > m[i].low
  <1>1. i \in Inner(m) /\ j \in Inner(m)
    BY DEF Turns
  <1>2. CASE IsTop(m, i)
    <2>1. m[i + 1].way = "down"
      BY <1>1, <1>2, TurnWays
    <2>2. m[j].way = "down" /\ m[j].low < m[i].high
      BY <2>1, OneWay
    <2>3. ~IsTop(m, j)
      BY <1>1, <2>2, TurnWays
    <2> QED
      BY <1>2, <2>2, <2>3
  <1>3. CASE ~IsTop(m, i)
    <2>0. IsBottom(m, i)
      BY <1>3 DEF Turns
    <2>1. m[i + 1].way = "up"
      BY <1>1, <2>0, TurnWays
    <2>2. m[j].way = "up" /\ m[j].high > m[i].low
      BY <2>1, OneWay
    <2>3. ~IsBottom(m, j)
      BY <1>1, <2>2, TurnWays
    <2> QED
      BY <1>3, <2>2, <2>3 DEF Turns
  <1> QED
    BY <1>2, <1>3

\* A top or a bottom.
Fractal == [index : Nat, top : BOOLEAN, date : Nat, price : Nat]

\* The tops and bottoms up to each merged bar.
FractalsLog(F, m) ==
  /\ F \in [0..Len(m) -> Seq(Fractal)]
  /\ F[0] = <<>>
  /\ \A k \in 1..Len(m) : F[k] = IF k \in Turns(m) THEN Append(F[k - 1], FractalAt(m, k)) ELSE F[k - 1]

\* A turn is an inner bar, and what is marked there.
LEMMA FractalTyped ==
  ASSUME NEW m \in Seq(MergedBar), NEW k \in Turns(m)
  PROVE  FractalAt(m, k) \in Fractal /\ k \in 2..Len(m) /\ m[k] \in MergedBar
  <1>1. k \in Inner(m)
    BY DEF Turns
  <1>2. k \in 2..Len(m) /\ k \in Nat
    BY <1>1 DEF Inner
  <1>3. m[k] \in MergedBar
    BY <1>2
  <1>4. IsTop(m, k) \in BOOLEAN
    BY DEF IsTop
  <1>5. m[k].date \in Nat /\ m[k].high \in Nat /\ m[k].low \in Nat
    BY <1>3 DEF MergedBar
  <1> QED
    BY <1>2, <1>3, <1>4, <1>5 DEF FractalAt, Fractal

\* Marking can be followed bar by bar.
LEMMA FractalsFold ==
  ASSUME NEW m \in Seq(MergedBar)
  PROVE  \E F : FractalsLog(F, m) /\ Fractals(m) = F[Len(m)]
  <1> DEFINE n == Len(m)
             T == Turns(m)
             base == <<>>
             G == [p \in T \X Seq(Fractal) |-> Append(p[2], FractalAt(m, p[1]))]
             it == CHOOSE it : it = [S \in SUBSET T |-> IF S = {} THEN base
                                       ELSE Append(it[S \ {LastOf(S)}], FractalAt(m, LastOf(S)))]
             Runs(h) == h = [S \in SUBSET T |-> IF S = {} THEN base
                               ELSE Append(h[S \ {LastOf(S)}], FractalAt(m, LastOf(S)))]
  <1>1. Fractals(m) = it[T]
    BY DEF Fractals, FoldAt, MapThenFoldSet, LastOf, Max
  <1>2. Loop(n, T, Seq(Fractal), base, G)
    <2>1. n \in Nat /\ T \in SUBSET (1..n) /\ base \in Seq(Fractal)
      <3>1. n \in Nat
        OBVIOUS
      <3>2. ASSUME NEW k \in T PROVE k \in 1..n
        BY FractalTyped
      <3>3. base \in Seq(Fractal)
        OBVIOUS
      <3> QED
        BY <3>1, <3>2, <3>3
    <2>2. ASSUME NEW k \in T, NEW x \in Seq(Fractal) PROVE Append(x, FractalAt(m, k)) \in Seq(Fractal)
      <3>1. FractalAt(m, k) \in Fractal
        BY FractalTyped
      <3> QED
        BY <3>1
    <2> HIDE DEF T, n, base
    <2> QED
      BY <2>1, <2>2 DEF Loop
  <1> HIDE DEF base
  <1>3. PICK g : Follower(g, T, Seq(Fractal), base, G)
    <2> HIDE DEF T, G, n
    <2> QED
      BY <1>2, FollowerExists
  <1>4. Runs(g)
    <2>1. ASSUME NEW S \in SUBSET T
          PROVE g[S] = IF S = {} THEN base ELSE Append(g[S \ {LastOf(S)}], FractalAt(m, LastOf(S)))
      <3>1. S \ {LastOf(S)} \in SUBSET T /\ S \in SUBSET (1..n) /\ n \in Nat
        BY <1>2 DEF Loop
      <3>2. S # {} => LastOf(S) \in T
        BY <3>1, LastIn
      <3> HIDE DEF T
      <3> QED
        BY <1>3, <3>1, <3>2 DEF Follower
    <2> QED
      BY <2>1, <1>3 DEF Follower
  <1>5. Runs(it)
    BY <1>4
  <1>6. Follows(it, T, base, Seq(Fractal), G)
    <2>1. ASSUME NEW S \in SUBSET T
          PROVE it[S] = IF S = {} THEN base ELSE Append(it[S \ {LastOf(S)}], FractalAt(m, LastOf(S)))
      <3> HIDE DEF it
      <3> QED
        BY <1>5
    <2> HIDE DEF it
    <2>2. ASSUME NEW S \in SUBSET T, S # {}, NEW x \in Seq(Fractal), it[S \ {LastOf(S)}] = x
          PROVE  it[S] = G[<<LastOf(S), x>>]
      <3>1. LastOf(S) \in T
        BY <1>2, <2>2, LastIn DEF Loop
      <3> QED
        BY <2>1, <2>2, <3>1
    <2> HIDE DEF T, G
    <2>3. it[{}] = base
      BY <2>1
    <2> QED
      BY <2>2, <2>3 DEF Follows
  <1>7. PICK F : Walked(F, n, T, base, Seq(Fractal), G) /\ F[n] = it[T]
    <2> HIDE DEF it, T, G, n, Runs
    <2> QED
      BY <1>2, <1>6, FollowedSteps
  <1>8. FractalsLog(F, m)
    <2> HIDE DEF it, Runs, G, T
    <2>1. /\ F \in [0..n -> Seq(Fractal)] /\ F[0] = base
          /\ \A k \in 1..n : F[k] = IF k \in T THEN G[<<k, F[k - 1]>>] ELSE F[k - 1]
      BY <1>7 DEF Walked
    <2>2. ASSUME NEW k \in T PROVE G[<<k, F[k - 1]>>] = Append(F[k - 1], FractalAt(m, k))
      <3>1. F[k - 1] \in Seq(Fractal)
        <4>1. k \in 1..n /\ n \in Nat
          BY <1>2 DEF Loop
        <4>2. k - 1 \in 0..n
          BY <4>1
        <4> QED
          BY <2>1, <4>2
      <3> QED
        BY <3>1 DEF G
    <2> QED
      BY <2>1, <2>2 DEF FractalsLog, base, T
  <1> HIDE DEF it, T, G, Runs
  <1> QED
    BY <1>1, <1>7, <1>8

\* Tops and bottoms of m up to its bar k: all that are there, in order.
MarkedTo(f, m, k) ==
  /\ \A j \in 1..Len(f) : /\ f[j].index \in Turns(m) /\ f[j].index <= k
                          /\ f[j] = FractalAt(m, f[j].index)
  /\ \A j \in 2..Len(f) : f[j - 1].index < f[j].index /\ NoTurn(m, f[j - 1].index, f[j].index)
  /\ \A x \in Turns(m) : x <= k => f # <<>> /\ x <= f[Len(f)].index

\* The next bar is marked if it turns.
LEMMA MarkedNext ==
  ASSUME NEW m \in Seq(MergedBar), NEW f \in Seq(Fractal), NEW k \in 1..Len(m), MarkedTo(f, m, k - 1)
  PROVE  /\ k \in Turns(m) => MarkedTo(Append(f, FractalAt(m, k)), m, k)
         /\ k \notin Turns(m) => MarkedTo(f, m, k)
  <1>1. /\ \A j \in 1..Len(f) : f[j].index \in Turns(m) /\ f[j].index <= k - 1
                                /\ f[j] = FractalAt(m, f[j].index)
        /\ \A j \in 2..Len(f) : f[j - 1].index < f[j].index /\ NoTurn(m, f[j - 1].index, f[j].index)
        /\ \A x \in Turns(m) : x <= k - 1 => f # <<>> /\ x <= f[Len(f)].index
    BY DEF MarkedTo
  <1>2. k \in Nat /\ \A x \in Turns(m) : x \in Nat
    BY FractalTyped
  <1>3. ASSUME k \notin Turns(m) PROVE MarkedTo(f, m, k)
    <2>1. \A x \in Turns(m) : x <= k => x <= k - 1
      BY <1>2, <1>3
    <2>2. \A j \in 1..Len(f) : f[j].index <= k
      BY <1>1, <1>2
    <2> QED
      BY <1>1, <2>1, <2>2 DEF MarkedTo
  <1>4. ASSUME k \in Turns(m) PROVE MarkedTo(Append(f, FractalAt(m, k)), m, k)
    <2> DEFINE e == FractalAt(m, k)
               g == Append(f, e)
               n == Len(f)
    <2>1. e \in Fractal /\ e.index = k
      BY <1>4, FractalTyped DEF FractalAt
    <2>2. n \in Nat /\ Len(g) = n + 1 /\ g[n + 1] = e /\ g # <<>> /\ \A j \in 1..n : g[j] = f[j]
      BY <2>1
    <2> HIDE DEF g, e
    <2>3. ASSUME NEW j \in 1..n + 1
          PROVE  g[j].index \in Turns(m) /\ g[j].index <= k /\ g[j] = FractalAt(m, g[j].index)
      <3>1. CASE j = n + 1
        BY <1>2, <1>4, <2>1, <2>2, <3>1 DEF e
      <3>2. CASE j \in 1..n
        <4>1. g[j] = f[j] /\ f[j].index \in Turns(m) /\ f[j].index <= k - 1
                                /\ f[j] = FractalAt(m, f[j].index)
          BY <1>1, <2>2, <3>2
        <4> QED
          BY <1>2, <4>1
      <3> QED
        BY <2>2, <3>1, <3>2
    <2>4. ASSUME NEW j \in 2..n + 1
          PROVE  g[j - 1].index < g[j].index /\ NoTurn(m, g[j - 1].index, g[j].index)
      <3>1. CASE j = n + 1
        <4>1. n \in 1..n /\ n # 0 /\ j - 1 = n /\ f # <<>>
          BY <2>2, <3>1
        <4>2. g[j - 1] = f[n] /\ g[j].index = k
          BY <2>1, <2>2, <3>1, <4>1
        <4>3. /\ f[n].index \in Turns(m) /\ f[n].index <= k - 1
              /\ \A x \in Turns(m) : x <= k - 1 => x <= f[n].index
          BY <1>1, <4>1
        <4>4. f[n].index < k
          BY <1>2, <4>3
        <4>5. NoTurn(m, f[n].index, k)
          BY <1>2, <4>3 DEF NoTurn
        <4> QED
          BY <4>2, <4>4, <4>5
      <3>2. CASE j \in 2..n
        <4>1. j \in 1..n /\ j - 1 \in 1..n
          BY <2>2, <3>2
        <4> QED
          BY <1>1, <2>2, <3>2, <4>1
      <3> QED
        BY <2>2, <3>1, <3>2
    <2>5. \A x \in Turns(m) : x <= k => g # <<>> /\ x <= g[n + 1].index
      BY <2>1, <2>2
    <2> QED
      BY <2>2, <2>3, <2>4, <2>5 DEF MarkedTo, g, e
  <1> QED
    BY <1>3, <1>4

\* All the tops and bottoms of the merged bars are marked, in order.
LEMMA AllMarked ==
  ASSUME NEW m \in Seq(MergedBar)
  PROVE  Fractals(m) \in Seq(Fractal) /\ MarkedTo(Fractals(m), m, Len(m))
  <1>1. PICK F : FractalsLog(F, m) /\ Fractals(m) = F[Len(m)]
    BY FractalsFold
  <1> DEFINE n == Len(m)
             P == {k \in 0..n : MarkedTo(F[k], m, k)}
  <1>2. n \in Nat /\ \A k \in 0..n : F[k] \in Seq(Fractal)
    BY <1>1 DEF FractalsLog
  <1>3. 0 \in P
    <2>1. F[0] = <<>> /\ 0 \in 0..n
      BY <1>1, <1>2 DEF FractalsLog
    <2>2. \A x \in Turns(m) : ~(x <= 0)
      BY FractalTyped
    <2>3. MarkedTo(<<>>, m, 0)
      BY <2>2 DEF MarkedTo
    <2> QED
      BY <2>1, <2>3
  <1>4. ASSUME NEW k \in 1..n, k - 1 \in P PROVE k \in P
    <2>1. k - 1 \in 0..n /\ k \in 0..n
      BY <1>2
    <2>2. F[k - 1] \in Seq(Fractal) /\ MarkedTo(F[k - 1], m, k - 1)
      BY <1>2, <1>4, <2>1
    <2>3. F[k] = IF k \in Turns(m) THEN Append(F[k - 1], FractalAt(m, k)) ELSE F[k - 1]
      BY <1>1 DEF FractalsLog
    <2>4. MarkedTo(F[k], m, k)
      BY <2>2, <2>3, MarkedNext
    <2> QED
      BY <2>1, <2>4
  <1>5. n \in P
    <2> HIDE DEF P
    <2>1. \A k \in 0..n : k \in P
      BY <1>2, <1>3, <1>4, StepByStep
    <2> QED
      BY <1>2, <2>1
  <1>6. n \in 0..n
    BY <1>2
  <1> QED
    BY <1>1, <1>2, <1>5, <1>6

\* A list of tops and bottoms is sound.
MarksSound(f) ==
  \A j \in 2..Len(f) :
    /\ f[j - 1].index < f[j].index
    /\ f[j].top # f[j - 1].top
    /\ f[j].top => f[j].price > f[j - 1].price
    /\ ~f[j].top => f[j].price < f[j - 1].price

\* Tops and bottoms alternate, and a top is higher than the bottoms beside it
\* (find_daily_fractals).
LEMMA FractalsSound ==
  ASSUME NEW m \in Seq(MergedBar), Monotone(m)
  PROVE  /\ Fractals(m) \in Seq(Fractal)
         /\ \A j \in 1..Len(Fractals(m)) : /\ Fractals(m)[j].index \in 2..Len(m)
                                           /\ Fractals(m)[j].date = m[Fractals(m)[j].index].date
         /\ MarksSound(Fractals(m))
  <1> DEFINE f == Fractals(m)
  <1>1. f \in Seq(Fractal) /\ MarkedTo(f, m, Len(m))
    BY AllMarked
  <1> HIDE DEF f
  <1>2. ASSUME NEW j \in 1..Len(f)
        PROVE /\ f[j].index \in Turns(m) /\ f[j] = FractalAt(m, f[j].index) /\ f[j].index \in 2..Len(m)
              /\ f[j].date = m[f[j].index].date
    <2>1. f[j].index \in Turns(m) /\ f[j] = FractalAt(m, f[j].index) /\ f[j].index \in 2..Len(m)
      BY <1>1, FractalTyped DEF MarkedTo
    <2> DEFINE i == f[j].index
    <2>2. f[j] = FractalAt(m, i)
      BY <2>1
    <2> HIDE DEF i
    <2>3. f[j].date = m[i].date
      BY <2>2 DEF FractalAt
    <2> QED
      BY <2>1, <2>3 DEF i
  <1>3. ASSUME NEW j \in 2..Len(f)
        PROVE  /\ f[j - 1].index < f[j].index
               /\ f[j].top # f[j - 1].top
               /\ f[j].top => f[j].price > f[j - 1].price
               /\ ~f[j].top => f[j].price < f[j - 1].price
    <2> DEFINE a == f[j - 1].index
               b == f[j].index
    <2>1. j \in 1..Len(f) /\ j - 1 \in 1..Len(f)
      BY <1>1
    <2>2. a \in Turns(m) /\ f[j - 1] = FractalAt(m, a) /\ b \in Turns(m) /\ f[j] = FractalAt(m, b)
      BY <1>2, <2>1
    <2>3. a < b /\ NoTurn(m, a, b)
      BY <1>1 DEF MarkedTo
    <2> HIDE DEF a, b
    <2>4. /\ IsTop(m, a) => ~IsTop(m, b) /\ m[b].low < m[a].high
          /\ ~IsTop(m, a) => IsTop(m, b) /\ m[b].high > m[a].low
      BY <2>2, <2>3, TurnsAlternate
    <2>5. /\ f[j - 1].top = IsTop(m, a) /\ f[j].top = IsTop(m, b)
          /\ f[j - 1].price = IF IsTop(m, a) THEN m[a].high ELSE m[a].low
          /\ f[j].price = IF IsTop(m, b) THEN m[b].high ELSE m[b].low
      BY <2>2 DEF FractalAt
    <2>6. f[j - 1].index < f[j].index
      BY <2>3 DEF a, b
    <2>7. f[j].top # f[j - 1].top
      BY <2>4, <2>5
    <2>8. f[j].top => f[j].price > f[j - 1].price
      BY <2>4, <2>5
    <2>9. ~f[j].top => f[j].price < f[j - 1].price
      BY <2>4, <2>5
    <2> QED
      BY <2>6, <2>7, <2>8, <2>9
  <1>4. MarksSound(f)
    BY <1>3 DEF MarksSound
  <1> QED
    BY <1>1, <1>2, <1>4 DEF f

-----------------------------------------------------------------------------
\* Strokes.

\* A stroke, and the state of the walk that finds them.
Stroke == [up : BOOLEAN, from : Nat, to : Nat, since : Nat, until : Nat, startPrice : Nat, endPrice : Nat]

Walks(f) == [start : (1..Len(f)) \cup {1}, end : 0..Len(f), strokes : Seq(Stroke)]

\* The stroke that is open when the walk begins.
WalkBegins == [start |-> 1, end |-> 0, strokes |-> <<>>]

\* The walk behind each top and bottom.
WalkLog(F, f) ==
  /\ F \in [0..Len(f) -> Walks(f)]
  /\ F[0] = WalkBegins
  /\ \A j \in 1..Len(f) : F[j] = IF j \in 2..Len(f) THEN WalkFractal(f, F[j - 1], j) ELSE F[j - 1]

\* A walk and its parts.
LEMMA WalkParts ==
  ASSUME NEW f \in Seq(Fractal), NEW w \in Walks(f), 2 <= Len(f)
  PROVE  /\ w.start \in 1..Len(f) /\ w.end \in 0..Len(f) /\ w.strokes \in Seq(Stroke)
         /\ f[w.start] \in Fractal
         /\ w.end # 0 => w.end \in 1..Len(f) /\ f[w.end] \in Fractal
  <1>1. w.start \in (1..Len(f)) \cup {1} /\ w.end \in 0..Len(f) /\ w.strokes \in Seq(Stroke)
    BY DEF Walks
  <1>2. Len(f) \in Nat /\ w.start \in 1..Len(f)
    BY <1>1
  <1>3. w.end # 0 => w.end \in 1..Len(f)
    BY <1>1
  <1> QED
    BY <1>1, <1>2, <1>3

\* Closing a stroke.
LEMMA CloseParts ==
  ASSUME NEW f \in Seq(Fractal), NEW w \in Walks(f), 2 <= Len(f), w.end # 0
  PROVE  /\ CloseStroke(f, w) \in Walks(f)
         /\ CloseStroke(f, w).start = w.end /\ CloseStroke(f, w).end = 0
         /\ CloseStroke(f, w).strokes = Append(w.strokes, StrokeOf(f, w))
         /\ StrokeOf(f, w) \in Stroke
  <1>1. /\ w.start \in 1..Len(f) /\ w.end \in 1..Len(f) /\ w.strokes \in Seq(Stroke)
        /\ f[w.start] \in Fractal /\ f[w.end] \in Fractal
    BY WalkParts
  <1>2. StrokeOf(f, w) \in Stroke
    <2>1. /\ f[w.start].top \in BOOLEAN /\ f[w.start].date \in Nat /\ f[w.start].price \in Nat
          /\ f[w.end].date \in Nat /\ f[w.end].price \in Nat
      BY <1>1 DEF Fractal
    <2>2. w.start \in Nat /\ w.end \in Nat
      BY <1>1
    <2> QED
      BY <2>1, <2>2 DEF StrokeOf, Stroke
  <1>3. Append(w.strokes, StrokeOf(f, w)) \in Seq(Stroke)
    BY <1>1, <1>2
  <1>4. 0 \in 0..Len(f)
    BY <1>1
  <1> QED
    BY <1>1, <1>2, <1>3, <1>4 DEF CloseStroke, Walks

\* Looking for an end.
LEMMA SeekParts ==
  ASSUME NEW f \in Seq(Fractal), NEW w \in Walks(f), NEW j \in 2..Len(f)
  PROVE  /\ SeekEnd(f, w, j) \in Walks(f)
         /\ SeekEnd(f, w, j).start = w.start /\ SeekEnd(f, w, j).strokes = w.strokes
         /\ SeekEnd(f, w, j).end = IF f[j].index - f[w.start].index >= MinGap THEN j ELSE w.end
  <1>1. j \in 0..Len(f)
    OBVIOUS
  <1> QED
    BY <1>1 DEF SeekEnd, Walks

\* A step of the walk keeps the type.
LEMMA WalkTyped ==
  ASSUME NEW f \in Seq(Fractal), NEW w \in Walks(f), NEW j \in 2..Len(f)
  PROVE  WalkFractal(f, w, j) \in Walks(f)
  <1>0. 2 <= Len(f)
    OBVIOUS
  <1>1. CASE f[j].top # f[w.start].top
    BY <1>1, SeekParts DEF WalkFractal
  <1>2. CASE f[j].top = f[w.start].top /\ w.end # 0
    <2>1. CloseStroke(f, w) \in Walks(f)
      BY <1>0, <1>2, CloseParts
    <2> QED
      BY <1>2, <2>1, SeekParts DEF WalkFractal
  <1>3. CASE f[j].top = f[w.start].top /\ w.end = 0
    <2>1. [w EXCEPT !.start = j] \in Walks(f)
      <3>1. j \in (1..Len(f)) \cup {1}
        OBVIOUS
      <3> QED
        BY <3>1 DEF Walks
    <2> QED
      BY <1>3, <2>1 DEF WalkFractal
  <1> QED
    BY <1>1, <1>2, <1>3

\* The walk can be followed from one top or bottom to the next.
LEMMA WalkFold ==
  ASSUME NEW f \in Seq(Fractal)
  PROVE  \E F : /\ WalkLog(F, f) 
              /\ Strokes(f) = IF F[Len(f)].end # 0 THEN CloseStroke(f, F[Len(f)]).strokes ELSE F[Len(f)].strokes
  <1> DEFINE n == Len(f)
             T == 2..Len(f)
             base == WalkBegins
             G == [p \in T \X Walks(f) |-> WalkFractal(f, p[2], p[1])]
             it == CHOOSE it : it = [S \in SUBSET T |-> IF S = {} THEN base
                                       ELSE WalkFractal(f, it[S \ {LastOf(S)}], LastOf(S))]
             Runs(h) == h = [S \in SUBSET T |-> IF S = {} THEN base
                               ELSE WalkFractal(f, h[S \ {LastOf(S)}], LastOf(S))]
  <1>1. Strokes(f) = IF it[T].end # 0 THEN CloseStroke(f, it[T]).strokes ELSE it[T].strokes
    BY DEF Strokes, WalkBegins, FoldAt, MapThenFoldSet, LastOf, Max
  <1>2. Loop(n, T, Walks(f), base, G)
    <2>1. n \in Nat /\ T \in SUBSET (1..n)
      OBVIOUS
    <2>2. base \in Walks(f)
      <3>1. 0 \in 0..Len(f) /\ 1 \in (1..Len(f)) \cup {1} /\ <<>> \in Seq(Stroke)
        OBVIOUS
      <3> QED
        BY <3>1 DEF WalkBegins, Walks
    <2>3. ASSUME NEW k \in T, NEW x \in Walks(f) PROVE WalkFractal(f, x, k) \in Walks(f)
      BY WalkTyped
    <2> HIDE DEF T, n, base
    <2> QED
      BY <2>1, <2>2, <2>3 DEF Loop
  <1> HIDE DEF base
  <1>3. PICK g : Follower(g, T, Walks(f), base, G)
    <2> HIDE DEF T, G, n
    <2> QED
      BY <1>2, FollowerExists
  <1>4. Runs(g)
    <2>1. ASSUME NEW S \in SUBSET T
          PROVE g[S] = IF S = {} THEN base ELSE WalkFractal(f, g[S \ {LastOf(S)}], LastOf(S))
      <3>1. S \ {LastOf(S)} \in SUBSET T /\ S \in SUBSET (1..n) /\ n \in Nat
        BY <1>2 DEF Loop
      <3>2. S # {} => LastOf(S) \in T
        BY <3>1, LastIn
      <3> HIDE DEF T
      <3> QED
        BY <1>3, <3>1, <3>2 DEF Follower
    <2> QED
      BY <2>1, <1>3 DEF Follower
  <1>5. Runs(it)
    BY <1>4
  <1>6. Follows(it, T, base, Walks(f), G)
    <2>1. ASSUME NEW S \in SUBSET T
          PROVE it[S] = IF S = {} THEN base ELSE WalkFractal(f, it[S \ {LastOf(S)}], LastOf(S))
      <3> HIDE DEF it
      <3> QED
        BY <1>5
    <2> HIDE DEF it
    <2>2. ASSUME NEW S \in SUBSET T, S # {}, NEW x \in Walks(f), it[S \ {LastOf(S)}] = x
          PROVE  it[S] = G[<<LastOf(S), x>>]
      <3>1. LastOf(S) \in T
        BY <1>2, <2>2, LastIn DEF Loop
      <3> QED
        BY <2>1, <2>2, <3>1
    <2> HIDE DEF T, G
    <2>3. it[{}] = base
      BY <2>1
    <2> QED
      BY <2>2, <2>3 DEF Follows
  <1>7. PICK F : Walked(F, n, T, base, Walks(f), G) /\ F[n] = it[T]
    <2> HIDE DEF it, T, G, n, Runs
    <2> QED
      BY <1>2, <1>6, FollowedSteps
  <1>8. WalkLog(F, f)
    <2> HIDE DEF it, Runs, G, T
    <2>1. /\ F \in [0..n -> Walks(f)] /\ F[0] = base
          /\ \A k \in 1..n : F[k] = IF k \in T THEN G[<<k, F[k - 1]>>] ELSE F[k - 1]
      BY <1>7 DEF Walked
    <2>2. ASSUME NEW k \in T PROVE G[<<k, F[k - 1]>>] = WalkFractal(f, F[k - 1], k)
      <3>1. F[k - 1] \in Walks(f)
        <4>1. k \in 1..n /\ n \in Nat
          BY <1>2 DEF Loop
        <4>2. k - 1 \in 0..n
          BY <4>1
        <4> QED
          BY <2>1, <4>2
      <3> QED
        BY <3>1 DEF G
    <2> QED
      BY <2>1, <2>2 DEF WalkLog, base, T
  <1> HIDE DEF it, T, G, Runs
  <1> QED
    BY <1>1, <1>7, <1>8

\* Nothing from a to b is farther than x, the way of x.
Farthest(f, a, b, x) ==
  \A j \in a..b : IF f[x].top THEN f[j].price <= f[x].price ELSE f[j].price >= f[x].price

\* Where the stroke before a stroke ended, and the last one.
StrokeSince(s, k) == IF k = 1 THEN 1 ELSE s[k - 1].to
EndOf(s) == IF s = <<>> THEN 1 ELSE s[Len(s)].to

\* A stroke joins tops and bottoms of f, and follows the one before it.
StrokeFits(f, s, k) ==
  /\ s[k].from \in 1..Len(f) /\ s[k].to \in 1..Len(f)
  /\ s[k].endPrice = f[s[k].to].price /\ s[k].startPrice = f[s[k].from].price
  /\ s[k].since = f[s[k].from].date /\ s[k].until = f[s[k].to].date
  /\ s[k].up = ~f[s[k].from].top
  /\ f[s[k].to].top # f[s[k].from].top
  /\ s[k].up = (s[k].endPrice > s[k].startPrice)
  /\ StrokeSince(s, k) \in 1..Len(f) /\ StrokeSince(s, k) <= s[k].from
  /\ f[s[k].to].index - f[s[k].from].index >= MinGap
  /\ k > 1 => s[k].up # s[k - 1].up
  /\ Farthest(f, StrokeSince(s, k), s[k].to, s[k].from)

\* All of some strokes fit.
StrokesFit(f, s) == \A k \in 1..Len(s) : StrokeFits(f, s, k)

\* The walk behind fractal j.
WalkSound(f, w, j) ==
  /\ StrokesFit(f, w.strokes)
  /\ EndOf(w.strokes) \in 1..Len(f) /\ EndOf(w.strokes) <= w.start /\ w.start <= j
  /\ f[EndOf(w.strokes)].top = f[w.start].top
  /\ Farthest(f, EndOf(w.strokes), j, w.start)
  /\ w.end # 0 => /\ w.end = j /\ f[j].top # f[w.start].top
                  /\ f[j].index - f[w.start].index >= MinGap

\* A top or bottom and the next one.
LEMMA Adjacent ==
  ASSUME NEW f \in Seq(Fractal), MarksSound(f), NEW j \in 2..Len(f)
  PROVE  /\ j - 1 \in 1..Len(f) /\ j \in 1..Len(f)
         /\ f[j].price \in Nat /\ f[j - 1].price \in Nat /\ f[j].top \in BOOLEAN /\ f[j - 1].top \in BOOLEAN
         /\ f[j].top # f[j - 1].top
         /\ f[j].top => f[j].price > f[j - 1].price
         /\ ~f[j].top => f[j].price < f[j - 1].price
  <1>1. j - 1 \in 1..Len(f) /\ j \in 1..Len(f)
    OBVIOUS
  <1>2. f[j] \in Fractal /\ f[j - 1] \in Fractal
    BY <1>1
  <1>3. /\ f[j].price \in Nat /\ f[j - 1].price \in Nat /\ f[j].top \in BOOLEAN /\ f[j - 1].top \in BOOLEAN
    BY <1>2 DEF Fractal
  <1> QED
    BY <1>1, <1>3 DEF MarksSound

\* What is farthest stays so when the next one is not farther.
LEMMA FarthestNext ==
  ASSUME NEW f, NEW a \in Nat, NEW j \in Nat, NEW x, Farthest(f, a, j - 1, x),
         IF f[x].top THEN f[j].price <= f[x].price ELSE f[j].price >= f[x].price
  PROVE  Farthest(f, a, j, x)
  <1>1. \A i \in a..j : i \in a..j - 1 \/ i = j
    OBVIOUS
  <1> QED
    BY <1>1 DEF Farthest

\* A stroke that is closed fits.
LEMMA ClosedFits ==
  ASSUME NEW f \in Seq(Fractal), MarksSound(f), NEW w \in Walks(f), NEW j \in 1..Len(f),
         WalkSound(f, w, j), w.end # 0,
         2 <= Len(f)
  PROVE  /\ StrokesFit(f, Append(w.strokes, StrokeOf(f, w)))
         /\ EndOf(Append(w.strokes, StrokeOf(f, w))) = j
  <1> DEFINE e == StrokeOf(f, w)
             s == w.strokes
             t == Append(s, e)
             n == Len(s)
  <1>1. /\ w.start \in 1..Len(f) /\ s \in Seq(Stroke) /\ f[w.start] \in Fractal /\ f[j] \in Fractal
        /\ w.end = j /\ e \in Stroke
    BY WalkParts, CloseParts DEF WalkSound
  <1>2. /\ e.up = ~f[w.start].top /\ e.from = w.start /\ e.to = j
        /\ e.startPrice = f[w.start].price /\ e.endPrice = f[j].price
        /\ e.since = f[w.start].date /\ e.until = f[j].date
    BY <1>1 DEF StrokeOf
  <1> HIDE DEF e
  <1>3. n \in Nat /\ t \in Seq(Stroke) /\ Len(t) = n + 1 /\ t[n + 1] = e /\ \A k \in 1..n : t[k] = s[k]
    BY <1>1
  <1> HIDE DEF t
  <1>4. t # <<>>
    BY <1>3
  <1>5. EndOf(t) = j
    BY <1>2, <1>3, <1>4 DEF EndOf
  <1>6. ASSUME NEW k \in 1..n PROVE StrokeFits(f, t, k)
    <2>1. StrokeFits(f, s, k)
      BY <1>6 DEF WalkSound, StrokesFit
    <2>2. t[k] = s[k] /\ StrokeSince(t, k) = StrokeSince(s, k) /\ (k > 1 => t[k - 1] = s[k - 1])
      <3>1. k # 1 => k - 1 \in 1..n
        BY <1>3
      <3>2. k > 1 => k # 1
        OBVIOUS
      <3> QED
        BY <1>3, <3>1, <3>2 DEF StrokeSince
    <2> QED
      BY <2>1, <2>2 DEF StrokeFits
  <1>7. StrokeSince(t, n + 1) = EndOf(s)
    <2>1. CASE n = 0
      <3>1. s = <<>>
        BY <1>1, <2>1
      <3> QED
        BY <2>1, <3>1 DEF StrokeSince, EndOf
    <2>2. CASE n # 0
      <3>1. s # <<>> /\ n + 1 # 1 /\ n + 1 - 1 = n /\ n \in 1..n
        BY <1>1, <1>3, <2>2
      <3> QED
        BY <1>3, <3>1 DEF StrokeSince, EndOf
    <2> QED
      BY <2>1, <2>2
  <1>8. StrokeFits(f, t, n + 1)
    <2>1. /\ EndOf(s) \in 1..Len(f) /\ EndOf(s) <= w.start /\ w.start <= j
          /\ f[EndOf(s)].top = f[w.start].top
          /\ Farthest(f, EndOf(s), j, w.start)
          /\ f[j].top # f[w.start].top
          /\ f[j].index - f[w.start].index >= MinGap
      BY DEF WalkSound
    <2>2. e.up = (e.endPrice > e.startPrice)
      <3>1. w.start # j /\ w.start \in 1..j - 1 /\ j \in 2..Len(f) /\ j - 1 \in EndOf(s)..j /\ j \in EndOf(s)..j
        BY <1>1, <2>1
      <3>2. /\ f[j].price \in Nat /\ f[j - 1].price \in Nat /\ f[w.start].price \in Nat
            /\ f[j].top \in BOOLEAN /\ f[w.start].top \in BOOLEAN
            /\ f[j].top => f[j].price > f[j - 1].price
            /\ ~f[j].top => f[j].price < f[j - 1].price
        BY <1>1, <3>1, Adjacent DEF Fractal
      <3>3. IF f[w.start].top THEN f[j].price <= f[w.start].price ELSE f[j - 1].price >= f[w.start].price
        BY <2>1, <3>1 DEF Farthest
      <3>4. CASE f[w.start].top
        <4>1. ~(f[j].price > f[w.start].price)
          BY <3>2, <3>3, <3>4
        <4> QED
          BY <1>2, <3>4, <4>1
      <3>5. CASE ~f[w.start].top
        <4>1. f[j].top
          BY <2>1, <3>2, <3>5
        <4>2. f[j].price > f[w.start].price
          BY <3>2, <3>3, <3>5, <4>1
        <4> QED
          BY <1>2, <3>5, <4>2
      <3> QED
        BY <3>4, <3>5
    <2>3. n + 1 > 1 => t[n + 1].up # t[n + 1 - 1].up
      <3> SUFFICES ASSUME n + 1 > 1 PROVE t[n + 1].up # t[n].up
        BY <1>3
      <3>1. n \in 1..n /\ s # <<>>
        BY <1>3
      <3>2. StrokeFits(f, s, n)
        BY <3>1 DEF WalkSound, StrokesFit
      <3>3. s[n].up = ~f[s[n].from].top /\ f[s[n].to].top # f[s[n].from].top /\ s[n].to \in 1..Len(f)
            /\ s[n].from \in 1..Len(f)
        BY <3>2 DEF StrokeFits
      <3>4. f[s[n].to].top = f[w.start].top
        BY <2>1, <3>1 DEF EndOf
      <3>5. f[s[n].from].top \in BOOLEAN /\ f[w.start].top \in BOOLEAN
        <4>1. f[s[n].from] \in Fractal
          BY <3>3
        <4> QED
          BY <1>1, <4>1 DEF Fractal
      <3>6. t[n] = s[n] /\ t[n + 1] = e
        BY <1>3, <3>1
      <3> QED
        BY <1>2, <3>3, <3>4, <3>5, <3>6
    <2>4. t[n + 1] = e
      BY <1>3
    <2> DEFINE k == n + 1
               since == EndOf(s)
    <2>5. t[k] = e /\ StrokeSince(t, k) = since /\ (k > 1 => e.up # t[k - 1].up)
      BY <1>7, <2>3, <2>4
    <2>6. /\ since \in 1..Len(f) /\ since <= e.from /\ Farthest(f, since, e.to, e.from)
          /\ f[e.to].top # f[e.from].top /\ f[e.to].index - f[e.from].index >= MinGap
      BY <1>2, <2>1
    <2>7. /\ e.from \in 1..Len(f) /\ e.to \in 1..Len(f) /\ e.up = ~f[e.from].top
          /\ e.endPrice = f[e.to].price /\ e.startPrice = f[e.from].price
          /\ e.since = f[e.from].date /\ e.until = f[e.to].date
      BY <1>1, <1>2
    <2> HIDE DEF n, s, k, since
    <2>8. StrokeFits(f, t, k)
      BY <2>2, <2>5, <2>6, <2>7 DEF StrokeFits
    <2> QED
      BY <2>8 DEF k
  <1>9. StrokesFit(f, t)
    <2>1. \A k \in 1..Len(t) : k \in 1..n \/ k = n + 1
      BY <1>3
    <2> QED
      BY <1>6, <1>8, <2>1 DEF StrokesFit
  <1> QED
    BY <1>5, <1>9 DEF t, e

\* At a fractal of the other kind a walk may find its end.
LEMMA SeekSound ==
  ASSUME NEW f \in Seq(Fractal), MarksSound(f), NEW w \in Walks(f), NEW j \in 2..Len(f),
         WalkSound(f, w, j - 1), w.end = 0, f[j].top # f[w.start].top
  PROVE  WalkSound(f, SeekEnd(f, w, j), j)
  <1> DEFINE v == SeekEnd(f, w, j)
             since == EndOf(w.strokes)
  <1>1. /\ v.start = w.start /\ v.strokes = w.strokes
        /\ v.end = IF f[j].index - f[w.start].index >= MinGap THEN j ELSE 0
    BY SeekParts
  <1>2. /\ StrokesFit(f, w.strokes)
        /\ since \in 1..Len(f) /\ since <= w.start /\ w.start <= j - 1
        /\ f[since].top = f[w.start].top
        /\ Farthest(f, since, j - 1, w.start)
    BY DEF WalkSound
  <1> HIDE DEF v, since
  <1>3. w.start \in 1..Len(f) /\ f[w.start] \in Fractal
    <2>1. 2 <= Len(f)
      OBVIOUS
    <2> QED
      BY <2>1, WalkParts
  <1>4. IF f[w.start].top THEN f[j].price <= f[w.start].price ELSE f[j].price >= f[w.start].price
    <2>1. j - 1 \in since..j - 1
      BY <1>2, <1>3
    <2>2. IF f[w.start].top THEN f[j - 1].price <= f[w.start].price ELSE f[j - 1].price >= f[w.start].price
      BY <1>2, <2>1 DEF Farthest
    <2>3. /\ f[j].price \in Nat /\ f[j - 1].price \in Nat /\ f[j].top \in BOOLEAN
          /\ f[j].top => f[j].price > f[j - 1].price
          /\ ~f[j].top => f[j].price < f[j - 1].price
      BY Adjacent
    <2>4. f[w.start].price \in Nat /\ f[w.start].top \in BOOLEAN
      BY <1>3 DEF Fractal
    <2>5. CASE f[w.start].top
      <3>1. ~f[j].top
        BY <2>3, <2>4, <2>5
      <3> QED
        BY <2>2, <2>3, <2>4, <2>5, <3>1
    <2>6. CASE ~f[w.start].top
      <3>1. f[j].top
        BY <2>3, <2>4, <2>6
      <3> QED
        BY <2>2, <2>3, <2>4, <2>6, <3>1
    <2> QED
      BY <2>5, <2>6
  <1>5. Farthest(f, since, j, w.start)
    <2>1. since \in Nat /\ j \in Nat
      BY <1>2
    <2> QED
      BY <1>2, <1>4, <2>1, FarthestNext
  <1>6. w.start <= j
    BY <1>2, <1>3
  <1>7. v.end # 0 => v.end = j /\ f[j].index - f[w.start].index >= MinGap
    BY <1>1
  <1>8. WalkSound(f, v, j)
    BY <1>1, <1>2, <1>5, <1>6, <1>7 DEF WalkSound, since
  <1> QED
    BY <1>8 DEF v

\* A closed stroke leaves a walk that begins at its end.
LEMMA CloseSound ==
  ASSUME NEW f \in Seq(Fractal), MarksSound(f), NEW w \in Walks(f), NEW j \in 1..Len(f),
         WalkSound(f, w, j), w.end # 0,
         2 <= Len(f)
  PROVE  /\ WalkSound(f, CloseStroke(f, w), j)
         /\ CloseStroke(f, w).start = j /\ CloseStroke(f, w).end = 0
         /\ CloseStroke(f, w) \in Walks(f)
  <1> DEFINE v == CloseStroke(f, w)
  <1>1. w.end = j
    BY DEF WalkSound
  <1>2. v \in Walks(f) /\ v.start = j /\ v.end = 0 /\ v.strokes = Append(w.strokes, StrokeOf(f, w))
    BY <1>1, CloseParts
  <1> HIDE DEF v
  <1>3. StrokesFit(f, v.strokes) /\ EndOf(v.strokes) = j
    BY <1>2, ClosedFits
  <1>4. Farthest(f, j, j, j)
    <2>1. f[j] \in Fractal
      OBVIOUS
    <2>2. f[j].price \in Nat
      BY <2>1 DEF Fractal
    <2>3. \A i \in j..j : i = j
      OBVIOUS
    <2> QED
      BY <2>2, <2>3 DEF Farthest
  <1>5. WalkSound(f, v, j)
    <2>1. j <= j
      OBVIOUS
    <2> QED
      BY <1>2, <1>3, <1>4, <2>1 DEF WalkSound
  <1> QED
    BY <1>2, <1>5 DEF v

\* At a fractal of its kind an open walk may start anew.
LEMMA StartSound ==
  ASSUME NEW f \in Seq(Fractal), NEW w \in Walks(f), NEW j \in 2..Len(f),
         WalkSound(f, w, j - 1), w.end = 0, f[j].top = f[w.start].top
  PROVE  WalkSound(f, IF MoreExtreme(f[j], f[w.start]) THEN [w EXCEPT !.start = j] ELSE w, j)
  <1> DEFINE since == EndOf(w.strokes)
  <1>2. /\ StrokesFit(f, w.strokes)
        /\ since \in 1..Len(f) /\ since <= w.start /\ w.start <= j - 1
        /\ f[since].top = f[w.start].top
        /\ Farthest(f, since, j - 1, w.start)
    BY DEF WalkSound
  <1>3. w.start \in 1..Len(f) /\ f[w.start] \in Fractal /\ f[j] \in Fractal /\ j \in 1..Len(f)
    <2>1. 2 <= Len(f) /\ j \in 1..Len(f)
      OBVIOUS
    <2> QED
      BY <2>1, WalkParts
  <1>4. f[w.start].price \in Nat /\ f[j].price \in Nat /\ f[w.start].top \in BOOLEAN /\ f[j].top \in BOOLEAN
    BY <1>3 DEF Fractal
  <1>5. since \in Nat /\ j \in Nat /\ w.start <= j /\ since <= j
    BY <1>2, <1>3
  <1>6. CASE MoreExtreme(f[j], f[w.start])
    <2> DEFINE v == [w EXCEPT !.start = j]
    <2>1. v.start = j /\ v.end = 0 /\ v.strokes = w.strokes
      BY DEF Walks
    <2> HIDE DEF v, since
    <2>2. Farthest(f, since, j - 1, j)
      <3> SUFFICES ASSUME NEW i \in since..j - 1
                   PROVE  IF f[j].top THEN f[i].price <= f[j].price ELSE f[i].price >= f[j].price
        BY DEF Farthest
      <3>1. f[i].price \in Nat
        <4>1. i \in 1..Len(f)
          BY <1>2
        <4>2. f[i] \in Fractal
          BY <4>1
        <4> QED
          BY <4>2 DEF Fractal
      <3>2. IF f[w.start].top THEN f[i].price <= f[w.start].price ELSE f[i].price >= f[w.start].price
        BY <1>2 DEF Farthest
      <3>3. IF f[w.start].top THEN f[j].price > f[w.start].price ELSE f[j].price < f[w.start].price
        BY <1>6 DEF MoreExtreme
      <3>4. CASE f[j].top
        BY <1>4, <3>1, <3>2, <3>3, <3>4
      <3>5. CASE ~f[j].top
        BY <1>4, <3>1, <3>2, <3>3, <3>5
      <3> QED
        BY <3>4, <3>5
    <2>3. Farthest(f, since, j, j)
      <3>1. IF f[j].top THEN f[j].price <= f[j].price ELSE f[j].price >= f[j].price
        BY <1>4
      <3> QED
        BY <1>5, <2>2, <3>1, FarthestNext
    <2>4. WalkSound(f, v, j)
      <3>1. j <= j
        BY <1>5
      <3> QED
        BY <1>2, <1>5, <2>1, <2>3, <3>1 DEF WalkSound, since
    <2> QED
      BY <1>6, <2>4 DEF v
  <1>7. CASE ~MoreExtreme(f[j], f[w.start])
    <2> HIDE DEF since
    <2>1. IF f[w.start].top THEN f[j].price <= f[w.start].price ELSE f[j].price >= f[w.start].price
      <3>1. ~(IF f[w.start].top THEN f[j].price > f[w.start].price ELSE f[j].price < f[w.start].price)
        BY <1>7 DEF MoreExtreme
      <3>2. CASE f[w.start].top
        BY <1>4, <3>1, <3>2
      <3>3. CASE ~f[w.start].top
        BY <1>4, <3>1, <3>3
      <3> QED
        BY <3>2, <3>3
    <2>2. Farthest(f, since, j, w.start)
      BY <1>2, <1>5, <2>1, FarthestNext
    <2>3. WalkSound(f, w, j)
      BY <1>2, <1>5, <2>2 DEF WalkSound, since
    <2> QED
      BY <1>7, <2>3
  <1> QED
    BY <1>6, <1>7

\* Every step of the walk keeps it sound (find_daily_strokes).
LEMMA WalkStep ==
  ASSUME NEW f \in Seq(Fractal), MarksSound(f), NEW w \in Walks(f), NEW j \in 2..Len(f), WalkSound(f, w, j - 1)
  PROVE  WalkSound(f, WalkFractal(f, w, j), j)
  <1>1. /\ j - 1 \in 1..Len(f) /\ f[j].top \in BOOLEAN /\ f[j - 1].top \in BOOLEAN /\ f[j].top # f[j - 1].top
    BY Adjacent
  <1>2. 2 <= Len(f) /\ j - 1 # 0
    OBVIOUS
  <1>3. f[w.start].top \in BOOLEAN
    <2>1. f[w.start] \in Fractal
      BY <1>2, WalkParts
    <2> QED
      BY <2>1 DEF Fractal
  <1>4. w.end # 0 => w.end = j - 1 /\ f[j - 1].top # f[w.start].top
    BY DEF WalkSound
  <1>5. CASE f[j].top # f[w.start].top
    <2>1. w.end = 0
      BY <1>1, <1>3, <1>4, <1>5
    <2> QED
      BY <1>5, <2>1, SeekSound DEF WalkFractal
  <1>6. CASE f[j].top = f[w.start].top /\ w.end # 0
    <2> DEFINE v == CloseStroke(f, w)
    <2>1. WalkSound(f, v, j - 1) /\ v.start = j - 1 /\ v.end = 0 /\ v \in Walks(f)
      BY <1>1, <1>2, <1>6, CloseSound
    <2> HIDE DEF v
    <2>2. WalkSound(f, SeekEnd(f, v, j), j)
      BY <1>1, <2>1, SeekSound
    <2> QED
      BY <1>6, <2>2 DEF WalkFractal, v
  <1>7. CASE f[j].top = f[w.start].top /\ w.end = 0
    <2>1. WalkFractal(f, w, j) = IF MoreExtreme(f[j], f[w.start]) THEN [w EXCEPT !.start = j] ELSE w
      BY <1>7 DEF WalkFractal
    <2>2. WalkSound(f, IF MoreExtreme(f[j], f[w.start]) THEN [w EXCEPT !.start = j] ELSE w, j)
      BY <1>7, StartSound
    <2> QED
      BY <2>1, <2>2
  <1> QED
    BY <1>5, <1>6, <1>7

\* The walk is sound behind every top and bottom.
LEMMA WalkLogSound ==
  ASSUME NEW f \in Seq(Fractal), MarksSound(f), 2 <= Len(f), NEW F, WalkLog(F, f)
  PROVE  \A k \in 1..Len(f) : F[k] \in Walks(f) /\ WalkSound(f, F[k], k)
  <1> DEFINE n == Len(f)
             P == {k \in 0..n : k >= 1 => WalkSound(f, F[k], k)}
  <1>1. n \in Nat /\ \A k \in 0..n : F[k] \in Walks(f)
    BY DEF WalkLog
  <1>2. F[1] = WalkBegins /\ WalkSound(f, F[1], 1)
    <2>1. 1 \in 1..n /\ 1 \notin 2..n /\ 1 - 1 = 0
      OBVIOUS
    <2>2. F[1] = WalkBegins
      BY <2>1 DEF WalkLog
    <2>3. WalkBegins.start = 1 /\ WalkBegins.end = 0 /\ WalkBegins.strokes = <<>>
      BY DEF WalkBegins
    <2>4. StrokesFit(f, <<>>) /\ EndOf(<<>>) = 1
      BY DEF StrokesFit, EndOf
    <2>5. Farthest(f, 1, 1, 1)
      <3>1. f[1] \in Fractal
        BY <2>1
      <3>2. f[1].price \in Nat
        BY <3>1 DEF Fractal
      <3>3. \A i \in 1..1 : i = 1
        OBVIOUS
      <3> QED
        BY <3>2, <3>3 DEF Farthest
    <2>6. 1 <= 1
      OBVIOUS
    <2>7. WalkSound(f, WalkBegins, 1)
      BY <2>1, <2>3, <2>4, <2>5, <2>6 DEF WalkSound
    <2> QED
      BY <2>2, <2>7
  <1>3. 0 \in P
    BY <1>1
  <1>4. ASSUME NEW k \in 1..n, k - 1 \in P PROVE k \in P
    <2>1. k \in 0..n /\ k - 1 \in 0..n
      BY <1>1
    <2>2. CASE k = 1
      BY <1>2, <2>1, <2>2
    <2>3. CASE k # 1
      <3>1. k \in 2..n /\ k - 1 >= 1
        BY <1>1, <2>3
      <3>2. WalkSound(f, F[k - 1], k - 1) /\ F[k - 1] \in Walks(f)
        BY <1>1, <1>4, <2>1, <3>1
      <3>3. F[k] = WalkFractal(f, F[k - 1], k)
        BY <3>1 DEF WalkLog
      <3>4. WalkSound(f, F[k], k)
        BY <3>1, <3>2, <3>3, WalkStep
      <3> QED
        BY <2>1, <3>4
    <2> QED
      BY <2>2, <2>3
  <1>5. \A k \in 0..n : k \in P
    <2> HIDE DEF P
    <2> QED
      BY <1>1, <1>3, <1>4, StepByStep
  <1>6. ASSUME NEW k \in 1..n PROVE F[k] \in Walks(f) /\ WalkSound(f, F[k], k)
    <2>1. k \in 0..n /\ k >= 1
      BY <1>1
    <2> QED
      BY <1>1, <1>5, <2>1
  <1> QED
    BY <1>6

\* One top or bottom makes no stroke.
LEMMA NoStrokes ==
  ASSUME NEW f \in Seq(Fractal), Len(f) <= 1
  PROVE  Strokes(f) = <<>>
  <1> DEFINE n == Len(f)
  <1>1. PICK F : /\ WalkLog(F, f)
                 /\ Strokes(f) = IF F[n].end # 0 THEN CloseStroke(f, F[n]).strokes ELSE F[n].strokes
    BY WalkFold
  <1>2. n = 1 => F[1] = F[0]
    <2>1. n = 1 => 1 \in 1..n /\ 1 \notin 2..n /\ 1 - 1 = 0
      OBVIOUS
    <2> QED
      BY <1>1, <2>1 DEF WalkLog
  <1>3. n = 0 \/ n = 1
    <2>1. n \in Nat /\ n <= 1
      OBVIOUS
    <2>2. \A x \in Nat : x <= 1 => x = 0 \/ x = 1
      OBVIOUS
    <2> HIDE DEF n
    <2> QED
      BY <2>1, <2>2
  <1>4. F[n] = WalkBegins
    BY <1>1, <1>2, <1>3 DEF WalkLog
  <1> QED
    BY <1>1, <1>4 DEF WalkBegins

\* All the strokes of a chart fit.
LEMMA StrokesSound ==
  ASSUME NEW f \in Seq(Fractal), MarksSound(f)
  PROVE  Strokes(f) \in Seq(Stroke) /\ StrokesFit(f, Strokes(f))
  <1> DEFINE n == Len(f)
  <1>1. CASE n <= 1
    <2>1. Strokes(f) = <<>>
      BY <1>1, NoStrokes
    <2>2. <<>> \in Seq(Stroke) /\ StrokesFit(f, <<>>)
      BY DEF StrokesFit
    <2> QED
      BY <2>1, <2>2
  <1>2. CASE n >= 2
    <2>1. PICK F : /\ WalkLog(F, f)
                   /\ Strokes(f) = IF F[n].end # 0 THEN CloseStroke(f, F[n]).strokes ELSE F[n].strokes
      BY WalkFold
    <2> DEFINE w == F[n]
    <2>2. n \in 1..n /\ 2 <= n
      BY <1>2
    <2>3. w \in Walks(f) /\ WalkSound(f, w, n)
      BY <2>1, <2>2, WalkLogSound
    <2>4. Strokes(f) = IF w.end # 0 THEN CloseStroke(f, w).strokes ELSE w.strokes
      BY <2>1
    <2> HIDE DEF w
    <2>5. CASE w.end # 0
      <3>1. CloseStroke(f, w) \in Walks(f) /\ WalkSound(f, CloseStroke(f, w), n)
        BY <2>2, <2>3, <2>5, CloseSound
      <3> QED
        BY <2>4, <2>5, <3>1 DEF WalkSound, Walks
    <2>6. CASE w.end = 0
      BY <2>3, <2>4, <2>6 DEF WalkSound, Walks
    <2> QED
      BY <2>5, <2>6
  <1> QED
    BY <1>1, <1>2

-----------------------------------------------------------------------------
\* Zones.

\* A zone.
Zone == [zd : Nat, zg : Nat, first : Nat]

\* The zones up to each stroke.
ZonesLog(F, s) ==
  /\ F \in [0..Len(s) -> Seq(Zone)]
  /\ F[0] = <<>>
  /\ \A i \in 1..Len(s) : F[i] = IF i \in DOMAIN s THEN AddZone(s, F[i - 1], i) ELSE F[i - 1]

\* The zone of two strokes.
LEMMA ZoneTyped ==
  ASSUME NEW s \in Seq(Stroke), NEW i \in 1..Len(s), i + 2 <= Len(s)
  PROVE  ZoneOf(s, i) \in Zone /\ ZoneOf(s, i).first = i
  <1>1. i \in Nat /\ i + 1 \in 1..Len(s)
    OBVIOUS
  <1>2. ASSUME NEW k \in 1..Len(s) PROVE Floor(s[k]) \in Nat /\ Ceiling(s[k]) \in Nat
    <2>1. s[k] \in Stroke
      OBVIOUS
    <2>2. s[k].startPrice \in Nat /\ s[k].endPrice \in Nat
      BY <2>1 DEF Stroke
    <2> QED
      BY <2>2, MaxOfTwo DEF Floor, Ceiling
  <1>3. Floor(s[i]) \in Nat /\ Ceiling(s[i]) \in Nat /\ Floor(s[i + 1]) \in Nat /\ Ceiling(s[i + 1]) \in Nat
    BY <1>1, <1>2
  <1>4. Max({Floor(s[i]), Floor(s[i + 1])}) \in Nat /\ Min({Ceiling(s[i]), Ceiling(s[i + 1])}) \in Nat
    <2>1. \A a, b \in Nat : Max({a, b}) \in Nat /\ Min({a, b}) \in Nat
      BY MaxOfTwo
    <2> QED
      BY <1>3, <2>1
  <1> QED
    BY <1>1, <1>4 DEF ZoneOf, Zone

\* A step of the search keeps the type.
LEMMA AddZoneTyped ==
  ASSUME NEW s \in Seq(Stroke), NEW z \in Seq(Zone), NEW i \in 1..Len(s)
  PROVE  AddZone(s, z, i) \in Seq(Zone)
  <1>1. CASE i + 2 <= Len(s)
    <2>1. ZoneOf(s, i) \in Zone
      BY <1>1, ZoneTyped
    <2>2. Append(z, ZoneOf(s, i)) \in Seq(Zone)
      BY <2>1
    <2> QED
      BY <2>2 DEF AddZone
  <1>2. CASE ~(i + 2 <= Len(s))
    BY <1>2 DEF AddZone
  <1> QED
    BY <1>1, <1>2

\* The search for zones can be followed stroke by stroke.
LEMMA ZonesFold ==
  ASSUME NEW s \in Seq(Stroke)
  PROVE  \E F : ZonesLog(F, s) /\ Zones(s) = F[Len(s)]
  <1> DEFINE n == Len(s)
             T == DOMAIN s
             base == <<>>
             G == [p \in T \X Seq(Zone) |-> AddZone(s, p[2], p[1])]
             it == CHOOSE it : it = [S \in SUBSET T |-> IF S = {} THEN base
                                       ELSE AddZone(s, it[S \ {LastOf(S)}], LastOf(S))]
             Runs(h) == h = [S \in SUBSET T |-> IF S = {} THEN base
                               ELSE AddZone(s, h[S \ {LastOf(S)}], LastOf(S))]
  <1>1. Zones(s) = it[T]
    BY DEF Zones, FoldAt, MapThenFoldSet, LastOf, Max
  <1>2. Loop(n, T, Seq(Zone), base, G)
    <2>1. n \in Nat /\ T \in SUBSET (1..n) /\ base \in Seq(Zone)
      OBVIOUS
    <2>2. ASSUME NEW k \in T, NEW x \in Seq(Zone) PROVE AddZone(s, x, k) \in Seq(Zone)
      <3>1. k \in 1..Len(s)
        OBVIOUS
      <3> QED
        BY <3>1, AddZoneTyped
    <2> HIDE DEF T, n, base
    <2> QED
      BY <2>1, <2>2 DEF Loop
  <1> HIDE DEF base
  <1>3. PICK g : Follower(g, T, Seq(Zone), base, G)
    <2> HIDE DEF T, G, n
    <2> QED
      BY <1>2, FollowerExists
  <1>4. Runs(g)
    <2>1. ASSUME NEW S \in SUBSET T
          PROVE g[S] = IF S = {} THEN base ELSE AddZone(s, g[S \ {LastOf(S)}], LastOf(S))
      <3>1. S \ {LastOf(S)} \in SUBSET T /\ S \in SUBSET (1..n) /\ n \in Nat
        BY <1>2 DEF Loop
      <3>2. S # {} => LastOf(S) \in T
        BY <3>1, LastIn
      <3> HIDE DEF T
      <3> QED
        BY <1>3, <3>1, <3>2 DEF Follower
    <2> QED
      BY <2>1, <1>3 DEF Follower
  <1>5. Runs(it)
    BY <1>4
  <1>6. Follows(it, T, base, Seq(Zone), G)
    <2>1. ASSUME NEW S \in SUBSET T
          PROVE it[S] = IF S = {} THEN base ELSE AddZone(s, it[S \ {LastOf(S)}], LastOf(S))
      <3> HIDE DEF it
      <3> QED
        BY <1>5
    <2> HIDE DEF it
    <2>2. ASSUME NEW S \in SUBSET T, S # {}, NEW x \in Seq(Zone), it[S \ {LastOf(S)}] = x
          PROVE  it[S] = G[<<LastOf(S), x>>]
      <3>1. LastOf(S) \in T
        BY <1>2, <2>2, LastIn DEF Loop
      <3> QED
        BY <2>1, <2>2, <3>1
    <2> HIDE DEF T, G
    <2>3. it[{}] = base
      BY <2>1
    <2> QED
      BY <2>2, <2>3 DEF Follows
  <1>7. PICK F : Walked(F, n, T, base, Seq(Zone), G) /\ F[n] = it[T]
    <2> HIDE DEF it, T, G, n, Runs
    <2> QED
      BY <1>2, <1>6, FollowedSteps
  <1>8. ZonesLog(F, s)
    <2> HIDE DEF it, Runs, G, T
    <2>1. /\ F \in [0..n -> Seq(Zone)] /\ F[0] = base
          /\ \A k \in 1..n : F[k] = IF k \in T THEN G[<<k, F[k - 1]>>] ELSE F[k - 1]
      BY <1>7 DEF Walked
    <2>2. ASSUME NEW k \in T PROVE G[<<k, F[k - 1]>>] = AddZone(s, F[k - 1], k)
      <3>1. F[k - 1] \in Seq(Zone)
        <4>1. k \in 1..n /\ n \in Nat
          BY <1>2 DEF Loop
        <4>2. k - 1 \in 0..n
          BY <4>1
        <4> QED
          BY <2>1, <4>2
      <3> QED
        BY <3>1 DEF G
    <2> QED
      BY <2>1, <2>2 DEF ZonesLog, base, T
  <1> HIDE DEF it, T, G, Runs
  <1> QED
    BY <1>1, <1>7, <1>8

\* The zones among the first strokes: each is one, and no two share a stroke.
ZonesFit(s, z, i) ==
  /\ \A k \in 1..Len(z) : z[k].first \in 1..i /\ z[k].first + 2 <= Len(s) /\ z[k].zd < z[k].zg
  /\ \A k \in 2..Len(z) : z[k].first >= z[k - 1].first + 2

\* The next zone does not share a stroke either.
LEMMA AddZoneFits ==
  ASSUME NEW s \in Seq(Stroke), NEW z \in Seq(Zone), NEW i \in 1..Len(s), ZonesFit(s, z, i - 1)
  PROVE  ZonesFit(s, AddZone(s, z, i), i)
  <1> DEFINE n == Len(z)
             Takes == /\ i + 2 <= Len(s) /\ ZoneOf(s, i).zd < ZoneOf(s, i).zg
                      /\ z # <<>> => i >= Last(z).first + 2
  <1>1. /\ \A k \in 1..n : z[k].first \in 1..i /\ z[k].first + 2 <= Len(s) /\ z[k].zd < z[k].zg
        /\ \A k \in 2..n : z[k].first >= z[k - 1].first + 2
    <2>1. \A x \in 1..i - 1 : x \in 1..i
      OBVIOUS
    <2> QED
      BY <2>1 DEF ZonesFit
  <1>2. CASE ~Takes
    <2>1. AddZone(s, z, i) = z
      BY <1>2 DEF AddZone
    <2> QED
      BY <1>1, <2>1 DEF ZonesFit
  <1>3. CASE Takes
    <2> DEFINE x == ZoneOf(s, i)
               y == Append(z, x)
    <2>1. AddZone(s, z, i) = y
      BY <1>3 DEF AddZone
    <2>2. x \in Zone /\ x.first = i /\ i + 2 <= Len(s) /\ x.zd < x.zg
      BY <1>3, ZoneTyped
    <2>3. z # <<>> => i >= z[n].first + 2
      BY <1>3 DEF Last
    <2> HIDE DEF x
    <2>4. n \in Nat /\ Len(y) = n + 1 /\ y[n + 1] = x /\ \A k \in 1..n : y[k] = z[k]
      BY <2>2
    <2> HIDE DEF y, Takes
    <2>5. ASSUME NEW k \in 1..n + 1
          PROVE  y[k].first \in 1..i /\ y[k].first + 2 <= Len(s) /\ y[k].zd < y[k].zg
      <3>1. CASE k \in 1..n
        BY <1>1, <2>4, <3>1
      <3>2. CASE k = n + 1
        <4>1. i \in 1..i
          OBVIOUS
        <4> QED
          BY <2>2, <2>4, <3>2, <4>1
      <3> QED
        BY <2>4, <3>1, <3>2
    <2>6. ASSUME NEW k \in 2..n + 1 PROVE y[k].first >= y[k - 1].first + 2
      <3>1. CASE k \in 2..n
        <4>1. k \in 1..n /\ k - 1 \in 1..n
          BY <2>4, <3>1
        <4> QED
          BY <1>1, <2>4, <3>1, <4>1
      <3>2. CASE k = n + 1
        <4>1. n \in 1..n /\ k - 1 = n /\ z # <<>>
          BY <2>4, <3>2
        <4>2. y[k] = x /\ y[k - 1] = z[n]
          BY <2>4, <3>2, <4>1
        <4> QED
          BY <2>2, <2>3, <4>1, <4>2
      <3> QED
        BY <2>4, <3>1, <3>2
    <2>7. ZonesFit(s, y, i)
      BY <2>4, <2>5, <2>6 DEF ZonesFit
    <2> QED
      BY <2>1, <2>7
  <1> QED
    BY <1>2, <1>3

\* No two zones share a stroke (find_zhongshus).
LEMMA ZonesSound ==
  ASSUME NEW s \in Seq(Stroke)
  PROVE  Zones(s) \in Seq(Zone) /\ ZonesFit(s, Zones(s), Len(s))
  <1> DEFINE n == Len(s)
  <1>1. PICK F : ZonesLog(F, s) /\ Zones(s) = F[n]
    BY ZonesFold
  <1> DEFINE P == {k \in 0..n : ZonesFit(s, F[k], k)}
  <1>2. n \in Nat /\ n \in 0..n /\ \A k \in 0..n : F[k] \in Seq(Zone)
    BY <1>1 DEF ZonesLog
  <1>3. 0 \in P
    <2>1. F[0] = <<>> /\ 0 \in 0..n
      BY <1>1, <1>2 DEF ZonesLog
    <2>2. ZonesFit(s, <<>>, 0)
      BY DEF ZonesFit
    <2> QED
      BY <2>1, <2>2
  <1>4. ASSUME NEW k \in 1..n, k - 1 \in P PROVE k \in P
    <2>1. k - 1 \in 0..n /\ k \in 0..n /\ k \in DOMAIN s
      BY <1>2
    <2>2. F[k - 1] \in Seq(Zone) /\ ZonesFit(s, F[k - 1], k - 1)
      BY <1>2, <1>4, <2>1
    <2>3. F[k] = AddZone(s, F[k - 1], k)
      BY <1>1, <2>1 DEF ZonesLog
    <2>4. ZonesFit(s, F[k], k)
      BY <2>2, <2>3, AddZoneFits
    <2> QED
      BY <2>1, <2>4
  <1>5. n \in P
    <2> HIDE DEF P
    <2>1. \A k \in 0..n : k \in P
      BY <1>2, <1>3, <1>4, StepByStep
    <2> QED
      BY <1>2, <2>1
  <1> QED
    BY <1>1, <1>2, <1>5

\* The smallest of some numbers.
LEMMA MinOf ==
  ASSUME NEW T \in SUBSET Nat, T # {}
  PROVE  Min(T) \in T /\ \A y \in T : Min(T) <= y
  BY SmallestOf DEF Min

\* A zone is broken by the first stroke that leaves it, if any does.
LEMMA BrokenSound ==
  ASSUME NEW s \in Seq(Stroke), NEW z \in Zone
  PROVE  /\ BrokenBy(s, z) \in 0..Len(s)
         /\ BrokenBy(s, z) # 0 => /\ z.first + 2 <= BrokenBy(s, z) /\ Leaves(s[BrokenBy(s, z)], z)
                                  /\ \A j \in z.first + 2..BrokenBy(s, z) - 1 : ~Leaves(s[j], z)
         /\ BrokenBy(s, z) = 0 => \A j \in z.first + 2..Len(s) : ~Leaves(s[j], z)
  <1> DEFINE B == Breakers(s, z)
  <1>1. z.first \in Nat
    BY DEF Zone
  <1>2. B = {k \in z.first + 2..Len(s) : Leaves(s[k], z)}
    BY DEF Breakers
  <1>3. B \in SUBSET Nat /\ 0 \notin B /\ \A k \in B : k \in 0..Len(s) /\ z.first + 2 <= k /\ Leaves(s[k], z)
    BY <1>1, <1>2
  <1>4. BrokenBy(s, z) = IF B = {} THEN 0 ELSE Min(B)
    BY DEF BrokenBy
  <1> HIDE DEF B
  <1>5. CASE B = {}
    <2>1. 0 \in 0..Len(s)
      OBVIOUS
    <2> QED
      BY <1>2, <1>4, <1>5, <2>1
  <1>6. CASE B # {}
    <2> DEFINE b == Min(B)
    <2>1. b \in B /\ \A y \in B : b <= y
      BY <1>3, <1>6, MinOf
    <2> HIDE DEF b
    <2>2. b # 0 /\ b \in 0..Len(s) /\ z.first + 2 <= b /\ Leaves(s[b], z)
      BY <1>3, <2>1
    <2>3. \A j \in z.first + 2..b - 1 : ~Leaves(s[j], z)
      <3>1. \A j \in z.first + 2..b - 1 : j \in z.first + 2..Len(s) /\ ~(b <= j)
        BY <1>1, <2>2
      <3> QED
        BY <1>2, <2>1, <3>1
    <2>4. BrokenBy(s, z) = b
      BY <1>4, <1>6 DEF b
    <2> QED
      BY <2>2, <2>3, <2>4
  <1> QED
    BY <1>5, <1>6

-----------------------------------------------------------------------------
\* The chart.

\* The inductive invariant: the chart is what the series makes of it.
ChartInv ==
  /\ tape \in Tapes
  /\ bars \in Seq(ChartBar) /\ macd \in Seq(Nat) /\ Len(macd) = Len(bars)
  /\ chart = Analysed(bars, macd)

\* Tops and bottoms are fewer than the merged bars.
LEMMA FewerMarks ==
  ASSUME NEW m \in Seq(MergedBar), NEW f \in Seq(Fractal), MarksSound(f),
         \A j \in 1..Len(f) : f[j].index \in 2..Len(m)
  PROVE  Len(f) <= Len(m)
  <1> DEFINE n == Len(f)
             P == {k \in 0..n : k >= 1 => f[k].index >= k}
  <1>1. n \in Nat /\ n \in 0..n /\ 0 \in P
    OBVIOUS
  <1>2. ASSUME NEW k \in 1..n, k - 1 \in P PROVE k \in P
    <2>1. k \in 0..n /\ f[k].index \in 2..Len(m)
      OBVIOUS
    <2>2. CASE k = 1
      BY <2>1, <2>2
    <2>3. CASE k # 1
      <3>1. k \in 2..n /\ k - 1 >= 1 /\ k - 1 \in 1..n
        BY <2>3
      <3>2. f[k - 1].index < f[k].index
        BY <3>1 DEF MarksSound
      <3>3. f[k - 1].index >= k - 1 /\ f[k - 1].index \in 2..Len(m)
        BY <1>2, <3>1
      <3>4. f[k].index >= k
        BY <2>1, <3>1, <3>2, <3>3
      <3> QED
        BY <2>1, <3>4
    <2> QED
      BY <2>2, <2>3
  <1>3. n \in P
    <2> HIDE DEF P, n
    <2>1. \A k \in 0..n : k \in P
      BY <1>1, <1>2, StepByStep
    <2> QED
      BY <1>1, <2>1
  <1>4. CASE n = 0
    BY <1>4
  <1>5. CASE n # 0
    <2>1. n \in 1..n /\ n >= 1
      BY <1>5
    <2>2. f[n].index >= n /\ f[n].index \in 2..Len(m)
      BY <1>3, <2>1
    <2> QED
      BY <2>2
  <1> QED
    BY <1>4, <1>5

\* What there is to know of the parts of a chart.
PartsSound(b, f, s) ==
  /\ f \in Seq(Fractal) /\ MarksSound(f) /\ Len(f) <= Len(b)
  /\ \A j \in 1..Len(f) : f[j].date \in 1..Len(b)
  /\ s \in Seq(Stroke) /\ StrokesFit(f, s)
  /\ Zones(s) \in Seq(Zone) /\ ZonesFit(s, Zones(s), Len(s))

\* The parts of a chart are sound.
LEMMA ChartParts ==
  ASSUME NEW b \in Seq(ChartBar), NEW u
  PROVE  PartsSound(b, Analysed(b, u).fractals, Analysed(b, u).strokes)
  <1> DEFINE m == MergedKlines(b)
             f == Fractals(m)
             s == Strokes(f)
  <1>1. /\ m \in Seq(MergedBar) /\ Monotone(m) /\ Len(m) <= Len(b)
        /\ \A i \in 1..Len(m) : m[i].date \in 1..Len(b)
    BY MergedSound, MergedDates
  <1> HIDE DEF m
  <1>2. /\ f \in Seq(Fractal) /\ MarksSound(f)
        /\ \A j \in 1..Len(f) : f[j].index \in 2..Len(m) /\ f[j].date = m[f[j].index].date
    BY <1>1, FractalsSound
  <1> HIDE DEF f
  <1>3. Len(f) <= Len(m)
    BY <1>1, <1>2, FewerMarks
  <1>4. Len(f) <= Len(b)
    BY <1>1, <1>2, <1>3
  <1>8. ASSUME NEW j \in 1..Len(f) PROVE f[j].date \in 1..Len(b)
    <2>1. f[j].index \in 1..Len(m) /\ f[j].date = m[f[j].index].date
      BY <1>2
    <2> QED
      BY <1>1, <2>1
  <1>5. s \in Seq(Stroke) /\ StrokesFit(f, s)
    BY <1>2, StrokesSound
  <1> HIDE DEF s
  <1>6. Zones(s) \in Seq(Zone) /\ ZonesFit(s, Zones(s), Len(s))
    BY <1>5, ZonesSound
  <1>7. Analysed(b, u).fractals = f /\ Analysed(b, u).strokes = s
    BY DEF Analysed, m, f, s
  <1> QED
    BY <1>2, <1>4, <1>5, <1>6, <1>7, <1>8 DEF PartsSound

\* A broken zone is a zone, and the stroke that breaks it.
LEMMA ZhongshuOf ==
  ASSUME NEW s \in Seq(Stroke), Zones(s) \in Seq(Zone)
  PROVE  /\ DOMAIN Zhongshus(s) = 1..Len(Zones(s))
         /\ \A k \in 1..Len(Zones(s)) :
              /\ Zhongshus(s)[k].zd = Zones(s)[k].zd /\ Zhongshus(s)[k].zg = Zones(s)[k].zg
              /\ Zhongshus(s)[k].first = Zones(s)[k].first
              /\ Zhongshus(s)[k].brokenBy = BrokenBy(s, Zones(s)[k])
              /\ \A j : Leaves(s[j], Zhongshus(s)[k]) <=> Leaves(s[j], Zones(s)[k])
  <1>1. DOMAIN Zones(s) = 1..Len(Zones(s))
    OBVIOUS
  <1> QED
    BY <1>1 DEF Zhongshus, Leaves

\* Strokes that fit are sound.
LEMMA FitIsSound ==
  ASSUME PartsSound(bars, chart.fractals, chart.strokes)
  PROVE  StrokesAreSound
  <1> DEFINE f == chart.fractals
             s == chart.strokes
  <1>1. f \in Seq(Fractal) /\ MarksSound(f) /\ s \in Seq(Stroke) /\ StrokesFit(f, s)
    BY DEF PartsSound
  <1> HIDE DEF f, s
  <1>2. ASSUME NEW k \in DOMAIN f, k > 1 PROVE f[k].top # f[k - 1].top
    <2>1. k \in 2..Len(f)
      BY <1>1, <1>2
    <2> QED
      BY <1>1, <2>1 DEF MarksSound
  <1>3. ASSUME NEW k \in DOMAIN s
        PROVE  /\ s[k].up = (s[k].endPrice > s[k].startPrice)
               /\ StrokeSince(s, k) <= s[k].from /\ f[s[k].to].index - f[s[k].from].index >= MinGap
               /\ k > 1 => s[k].up # s[k - 1].up
               /\ \A j \in StrokeSince(s, k)..s[k].to :
                    IF s[k].up THEN f[j].price >= s[k].startPrice ELSE f[j].price <= s[k].startPrice
    <2>1. k \in 1..Len(s)
      BY <1>1
    <2>2. StrokeFits(f, s, k)
      BY <1>1, <2>1 DEF StrokesFit
    <2>3. s[k].up = ~f[s[k].from].top /\ s[k].startPrice = f[s[k].from].price
          /\ Farthest(f, StrokeSince(s, k), s[k].to, s[k].from)
      BY <2>2 DEF StrokeFits
    <2>4. f[s[k].from].top \in BOOLEAN
      <3>1. f[s[k].from] \in Fractal
        BY <1>1, <2>2 DEF StrokeFits
      <3> QED
        BY <3>1 DEF Fractal
    <2>5. ASSUME NEW j \in StrokeSince(s, k)..s[k].to
          PROVE  IF s[k].up THEN f[j].price >= s[k].startPrice ELSE f[j].price <= s[k].startPrice
      <3>1. IF f[s[k].from].top THEN f[j].price <= f[s[k].from].price ELSE f[j].price >= f[s[k].from].price
        BY <2>3 DEF Farthest
      <3> QED
        BY <2>3, <2>4, <3>1
    <2> QED
      BY <2>2, <2>5 DEF StrokeFits
  <1> QED
    BY <1>2, <1>3 DEF StrokesAreSound, StrokeSince, f, s

\* Zones that fit are sound.
LEMMA ZonesFitAreSound ==
  ASSUME PartsSound(bars, chart.fractals, chart.strokes), chart.zones = Zhongshus(chart.strokes)
  PROVE  ZonesAreSound
  <1> DEFINE s == chart.strokes
             y == Zones(s)
             z == Zhongshus(s)
  <1>1. s \in Seq(Stroke) /\ y \in Seq(Zone) /\ ZonesFit(s, y, Len(s))
    BY DEF PartsSound
  <1> HIDE DEF s
  <1>2. /\ DOMAIN z = 1..Len(y)
        /\ \A k \in 1..Len(y) :
             /\ z[k].zd = y[k].zd /\ z[k].zg = y[k].zg /\ z[k].first = y[k].first
             /\ z[k].brokenBy = BrokenBy(s, y[k])
             /\ \A j : Leaves(s[j], z[k]) <=> Leaves(s[j], y[k])
    BY <1>1, ZhongshuOf
  <1> HIDE DEF y, z
  <1>3. ASSUME NEW k \in DOMAIN z
        PROVE  /\ z[k].zd < z[k].zg
               /\ k > 1 => z[k].first > z[k - 1].first + 1
               /\ \A j \in z[k].first + 2..(IF z[k].brokenBy = 0 THEN Len(s) ELSE z[k].brokenBy - 1) :
                    ~Leaves(s[j], z[k])
    <2>1. k \in 1..Len(y) /\ y[k] \in Zone
      BY <1>1, <1>2
    <2>2. z[k].zd < z[k].zg
      BY <1>1, <1>2, <2>1 DEF ZonesFit
    <2>3. ASSUME k > 1 PROVE z[k].first > z[k - 1].first + 1
      <3>1. k \in 2..Len(y) /\ k - 1 \in 1..Len(y)
        BY <2>1, <2>3
      <3>2. y[k].first >= y[k - 1].first + 2
        BY <1>1, <3>1 DEF ZonesFit
      <3>3. y[k].first \in Nat /\ y[k - 1].first \in Nat
        <4>1. y[k - 1] \in Zone
          BY <1>1, <3>1
        <4> QED
          BY <2>1, <4>1 DEF Zone
      <3>4. y[k].first > y[k - 1].first + 1
        BY <3>2, <3>3
      <3> QED
        BY <1>2, <2>1, <3>1, <3>4
    <2>4. ASSUME NEW j \in z[k].first + 2..(IF z[k].brokenBy = 0 THEN Len(s) ELSE z[k].brokenBy - 1)
          PROVE  ~Leaves(s[j], z[k])
      <3>1. z[k].first = y[k].first /\ z[k].brokenBy = BrokenBy(s, y[k])
            /\ (Leaves(s[j], z[k]) <=> Leaves(s[j], y[k]))
        BY <1>2, <2>1
      <3>2. /\ BrokenBy(s, y[k]) # 0 => \A i \in y[k].first + 2..BrokenBy(s, y[k]) - 1 : ~Leaves(s[i], y[k])
            /\ BrokenBy(s, y[k]) = 0 => \A i \in y[k].first + 2..Len(s) : ~Leaves(s[i], y[k])
        BY <1>1, <2>1, BrokenSound
      <3> QED
        BY <3>1, <3>2
    <2> QED
      BY <2>2, <2>3, <2>4
  <1>4. chart.zones = z
    BY DEF z, s
  <1> QED
    BY <1>3, <1>4 DEF ZonesAreSound, s

\* Every signal is at the end of a stroke, against its way.
LEMMA SignalsAtEnds ==
  ASSUME NEW u, NEW s \in Seq(Stroke), Zones(s) \in Seq(Zone),
         NEW g \in FirstType(u, s) \cup SecondType(u, s) \cup ThirdType(s)
  PROVE  \E t \in ToSet(s) : t.until = g.date /\ t.endPrice = g.price /\ t.up # g.buy
  <1>1. ASSUME NEW i \in 1..Len(s), NEW type, g = SignalAt(s, i, type)
        PROVE  \E t \in ToSet(s) : t.until = g.date /\ t.endPrice = g.price /\ t.up # g.buy
    <2>1. s[i] \in Stroke /\ s[i] \in ToSet(s)
      <3>1. DOMAIN s = 1..Len(s)
        OBVIOUS
      <3> QED
        BY <3>1 DEF ToSet
    <2>2. s[i].up \in BOOLEAN
      BY <2>1 DEF Stroke
    <2>3. g.buy = ~s[i].up /\ g.price = s[i].endPrice /\ g.date = s[i].until
      BY <1>1 DEF SignalAt
    <2> QED
      BY <2>1, <2>2, <2>3
  <1>2. CASE g \in FirstType(u, s)
    <2>1. PICK i \in DOMAIN s : g = SignalAt(s, i, 1)
      BY <1>2 DEF FirstType
    <2>2. i \in 1..Len(s)
      OBVIOUS
    <2> QED
      BY <1>1, <2>1, <2>2
  <1>3. CASE g \in SecondType(u, s)
    <2>1. PICK i \in DOMAIN s : i + 2 <= Len(s) /\ g = SignalAt(s, i + 2, 2)
      BY <1>3 DEF SecondType
    <2>2. i + 2 \in 1..Len(s)
      BY <2>1
    <2> QED
      BY <1>1, <2>1, <2>2
  <1>4. CASE g \in ThirdType(s)
    <2>1. PICK z \in ToSet(Zhongshus(s)) : Retracement(z) <= Len(s) /\ g = SignalAt(s, Retracement(z), 3)
      BY <1>4 DEF ThirdType
    <2>2. PICK k \in 1..Len(Zones(s)) : z = Zhongshus(s)[k]
      BY <2>1, ZhongshuOf DEF ToSet
    <2>3. z.first \in Nat
      <3>1. z.first = Zones(s)[k].first
        BY <2>2, ZhongshuOf
      <3>2. Zones(s)[k] \in Zone
        OBVIOUS
      <3> QED
        BY <3>1, <3>2 DEF Zone
    <2>4. Retracement(z) \in 1..Len(s)
      BY <2>1, <2>3 DEF Retracement
    <2> QED
      BY <1>1, <2>1, <2>4
  <1> QED
    BY <1>2, <1>3, <1>4

\* An analysed chart is sound.
LEMMA AnalysedIsSound == ChartInv => ChartIsSound
  <1> SUFFICES ASSUME ChartInv PROVE ChartIsSound
    OBVIOUS
  <1>1. PartsSound(bars, chart.fractals, chart.strokes)
    BY ChartParts DEF ChartInv
  <1>2. /\ chart.zones = Zhongshus(chart.strokes)
        /\ chart.signals = FirstType(macd, chart.strokes) \cup SecondType(macd, chart.strokes)
                             \cup ThirdType(chart.strokes)
    BY DEF ChartInv, Analysed
  <1>3. StrokesAreSound
    BY <1>1, FitIsSound
  <1>4. ZonesAreSound
    BY <1>1, <1>2, ZonesFitAreSound
  <1>5. ASSUME NEW g \in chart.signals
        PROVE  \E s \in ToSet(chart.strokes) : s.until = g.date /\ s.endPrice = g.price /\ s.up # g.buy
    <2> DEFINE t == chart.strokes
    <2>1. t \in Seq(Stroke) /\ Zones(t) \in Seq(Zone)
      BY <1>1 DEF PartsSound
    <2>2. g \in FirstType(macd, t) \cup SecondType(macd, t) \cup ThirdType(t)
      BY <1>2
    <2> HIDE DEF t
    <2>3. \E s \in ToSet(t) : s.until = g.date /\ s.endPrice = g.price /\ s.up # g.buy
      BY <2>1, <2>2, SignalsAtEnds
    <2> QED
      BY <2>3 DEF t
  <1> QED
    BY <1>3, <1>4, <1>5 DEF ChartIsSound

\* What an analysed chart refers to is there.
LEMMA AnalysedIsTyped == ChartInv => ChartTypeOK
  <1> SUFFICES ASSUME ChartInv PROVE ChartTypeOK
    OBVIOUS
  <1> DEFINE f == chart.fractals
             s == chart.strokes
             y == Zones(s)
             z == Zhongshus(s)
  <1>1. PartsSound(bars, f, s)
    BY ChartParts DEF ChartInv
  <1>2. chart.zones = z
    BY DEF ChartInv, Analysed
  <1>3. /\ f \in Seq(Fractal) /\ Len(f) <= Len(bars) /\ s \in Seq(Stroke) /\ StrokesFit(f, s)
        /\ y \in Seq(Zone) /\ ZonesFit(s, y, Len(s))
    BY <1>1 DEF PartsSound
  <1> HIDE DEF f, s
  <1>4. DOMAIN f \subseteq 1..Len(bars)
    <2>1. Len(bars) \in Nat /\ Len(f) \in Nat /\ DOMAIN f = 1..Len(f)
      BY <1>3 DEF ChartInv
    <2> QED
      BY <1>3, <2>1
  <1>5. ASSUME NEW t \in ToSet(s) PROVE {t.from, t.to} \subseteq DOMAIN f
    <2>1. PICK k \in 1..Len(s) : t = s[k]
      BY <1>3 DEF ToSet
    <2>2. StrokeFits(f, s, k)
      BY <1>3 DEF StrokesFit
    <2> QED
      BY <1>3, <2>1, <2>2 DEF StrokeFits
  <1>6. ASSUME NEW t \in ToSet(z) PROVE {t.first, t.first + 1} \cup ({t.brokenBy} \ {0}) \subseteq DOMAIN s
    <2>1. PICK k \in 1..Len(y) : t = z[k]
      BY <1>3, ZhongshuOf DEF ToSet
    <2>2. t.first = y[k].first /\ t.brokenBy = BrokenBy(s, y[k])
      BY <1>3, <2>1, ZhongshuOf
    <2>3. y[k] \in Zone
      BY <1>3
    <2>4. t.brokenBy \in 0..Len(s)
      BY <1>3, <2>2, <2>3, BrokenSound
    <2>5. t.first \in 1..Len(s) /\ t.first + 2 <= Len(s)
      BY <1>3, <2>2 DEF ZonesFit
    <2>6. DOMAIN s = 1..Len(s) /\ Len(s) \in Nat
      BY <1>3
    <2>7. t.first + 1 \in 1..Len(s)
      BY <2>5, <2>6
    <2> QED
      BY <2>4, <2>5, <2>6, <2>7
  <1> QED
    BY <1>2, <1>4, <1>5, <1>6 DEF ChartTypeOK, ChartInv, f, s

\* The chart is what analyze_chanlun_daily makes of the series, at every time.
THEOREM ChartInvariant == ChartSpec => []ChartInv
  <1>1. ChartInit => ChartInv
    <2>1. <<>> \in Seq(ChartBar) /\ <<>> \in Seq(Nat)
      OBVIOUS
    <2> QED
      BY <2>1 DEF ChartInit, ChartInv
  <1>2. ChartInv /\ [SeriesGrows]_chartVars => ChartInv'
    <2> SUFFICES ASSUME ChartInv, [SeriesGrows]_chartVars PROVE ChartInv'
      OBVIOUS
    <2>1. CASE SeriesGrows
      <3>1. PICK b, m :
              /\ b \in Seq(ChartBar) /\ m \in Seq(Nat) /\ Len(m) = Len(bars \o b)
              /\ bars' = bars \o b /\ macd' = m /\ chart' = Analysed(bars', macd') /\ tape' = tape
        BY <2>1 DEF SeriesGrows
      <3>2. bars' \in Seq(ChartBar)
        BY <3>1 DEF ChartInv
      <3> QED
        BY <3>1, <3>2 DEF ChartInv
    <2>2. CASE UNCHANGED chartVars
      BY <2>2 DEF ChartInv, chartVars
    <2> QED
      BY <2>1, <2>2
  <1> QED
    BY <1>1, <1>2, PTL DEF ChartSpec

\* Strokes, zones and signals are sound, whatever the series
\* (find_daily_strokes, find_zhongshus, generate_daily_signals).
THEOREM ChartSound == ChartSpec => []ChartIsSound
  BY ChartInvariant, AnalysedIsSound, PTL

\* What a chart refers to is in it.
THEOREM ChartTypeCorrect == ChartSpec => []ChartTypeOK
  BY ChartInvariant, AnalysedIsTyped, PTL

-----------------------------------------------------------------------------
\* What goes on: a longer series, its merged bars, tops and bottoms.

\* A sequence that goes on as another one begins.
Starts(s, t) == Len(s) <= Len(t) /\ \A i \in 1..Len(s) : t[i] = s[i]

\* A sequence of sequences that grow ends no earlier than it begins.
LEMMA Grows ==
  ASSUME NEW A, NEW N \in Nat, NEW n \in 0..N, NEW H, \A k \in 0..N : H[k] \in Seq(A),
         \A k \in n + 1..N : Starts(H[k - 1], H[k])
  PROVE  Starts(H[n], H[N])
  <1> DEFINE d == N - n
             P == {k \in 0..d : Starts(H[n], H[n + k])}
  <1>1. d \in Nat /\ n \in Nat /\ 0 \in 0..d /\ d \in 0..d /\ n + 0 = n /\ n + d = N
    OBVIOUS
  <1>2. 0 \in P
    <2>1. H[n] \in Seq(A)
      OBVIOUS
    <2>2. Starts(H[n], H[n])
      BY <2>1 DEF Starts
    <2> QED
      BY <1>1, <2>2
  <1>3. ASSUME NEW k \in 1..d, k - 1 \in P PROVE k \in P
    <2>1. n + k \in n + 1..N /\ n + k - 1 = n + (k - 1) /\ k \in 0..d /\ n + (k - 1) \in 0..N /\ n + k \in 0..N
      OBVIOUS
    <2>2. Starts(H[n], H[n + (k - 1)]) /\ Starts(H[n + (k - 1)], H[n + k])
      BY <1>3, <2>1
    <2>3. H[n] \in Seq(A) /\ H[n + (k - 1)] \in Seq(A) /\ H[n + k] \in Seq(A)
      BY <2>1
    <2>4. Starts(H[n], H[n + k])
      <3> DEFINE a == H[n]
                 b == H[n + (k - 1)]
                 c == H[n + k]
      <3>1. a \in Seq(A) /\ b \in Seq(A) /\ c \in Seq(A) /\ Starts(a, b) /\ Starts(b, c)
        BY <2>2, <2>3
      <3> HIDE DEF a, b, c
      <3>2. Len(a) \in Nat /\ Len(b) \in Nat /\ Len(c) \in Nat
        BY <3>1
      <3>3. Starts(a, c)
        BY <3>1, <3>2 DEF Starts
      <3> QED
        BY <3>3 DEF a, c
    <2> QED
      BY <2>1, <2>4
  <1>4. d \in P
    <2> HIDE DEF P, d
    <2>1. \A k \in 0..d : k \in P
      BY <1>1, <1>2, <1>3, StepByStep
    <2> QED
      BY <1>1, <2>1
  <1> QED
    BY <1>1, <1>4

\* Appending is going on.
LEMMA AppendStarts ==
  ASSUME NEW A, NEW s \in Seq(A), NEW e \in A
  PROVE  Starts(s, Append(s, e)) /\ Starts(s, s)
  BY DEF Starts

\* Going on twice is going on.
LEMMA StartsTwice ==
  ASSUME NEW A, NEW a \in Seq(A), NEW b \in Seq(A), NEW c \in Seq(A), Starts(a, b), Starts(b, c)
  PROVE  Starts(a, c)
  <1>1. Len(a) \in Nat /\ Len(b) \in Nat /\ Len(c) \in Nat
    OBVIOUS
  <1> QED
    BY <1>1 DEF Starts

\* To go on is to have a prefix.
LEMMA StartsIsPrefix ==
  ASSUME NEW A, NEW s \in Seq(A), NEW t \in Seq(A), Starts(s, t)
  PROVE  IsPrefix(s, t)
  <1> DEFINE n == Len(s)
             r == SubSeq(t, 1, n)
  <1>1. n \in Nat /\ n <= Len(t) /\ \A i \in 1..n : t[i] = s[i]
    BY DEF Starts
  <1>2. n \in Int /\ 1 \in Int /\ \A i \in 1..n : t[i] \in A
    BY <1>1
  <1>3. /\ r \in Seq(A) /\ Len(r) = IF 1 <= n THEN n - 1 + 1 ELSE 0
        /\ \A i \in 1..n - 1 + 1 : r[i] = t[1 + i - 1]
    <2> HIDE DEF n
    <2> QED
      BY <1>2, SubSeqProperties
  <1> HIDE DEF r
  <1>4. Len(r) = n
    <2>1. \A x \in Nat : (IF 1 <= x THEN x - 1 + 1 ELSE 0) = x
      OBVIOUS
    <2> HIDE DEF n
    <2> QED
      BY <1>1, <1>3, <2>1
  <1>5. ASSUME NEW i \in 1..n PROVE r[i] = s[i]
    <2>1. i \in 1..n - 1 + 1 /\ 1 + i - 1 = i
      BY <1>1
    <2> QED
      BY <1>1, <1>3, <2>1
  <1>6. r = s
    BY <1>3, <1>4, <1>5
  <1>7. SubSeq(s, 1, Len(s)) = s
    BY SubSeqFull
  <1> QED
    BY <1>1, <1>6, <1>7 DEF IsPrefix, r

\* Merged bars that go on: the last one may be absorbed into, its way stays.
Continues(m, m2) ==
  /\ Len(m) <= Len(m2)
  /\ \A j \in 1..Len(m) - 1 : m2[j] = m[j]
  /\ m # <<>> => m2[Len(m)].way = m[Len(m)].way

\* A further bar leaves all merged bars but the last.
LEMMA MergeContinues ==
  ASSUME NEW m \in SomeBars, NEW x \in SomeBars, Continues(m, x), NEW b \in ChartBar, NEW date \in Nat
  PROVE  Continues(m, MergeBar(x, b, date))
  <1> DEFINE y == MergeBar(x, b, date)
             n == Len(m)
             k == Len(x)
  <1>1. /\ m # <<>> /\ n \in Nat \ {0} /\ k \in Nat \ {0}
        /\ x \in Seq(MergedBar) /\ Last(x) = x[k] /\ x[k] \in MergedBar
    <2>1. m \in Seq(MergedBar) /\ m # <<>> /\ x \in Seq(MergedBar) /\ x # <<>>
      BY DEF SomeBars
    <2>2. Len(m) \in Nat \ {0} /\ Len(x) \in Nat \ {0}
      BY <2>1
    <2>3. x[Len(x)] \in MergedBar
      BY <2>1, <2>2
    <2> QED
      BY <2>1, <2>2, <2>3 DEF Last
  <1>2. n <= k /\ (\A j \in 1..n - 1 : x[j] = m[j]) /\ x[n].way = m[n].way
    BY <1>1 DEF Continues
  <1> HIDE DEF y, n, k
  <1>3. CASE Contained(b, Last(x))
    <2>1. Len(y) = k /\ (\A j \in 1..k - 1 : y[j] = x[j]) /\ y[k] = Absorbed(Last(x), b, date)
      BY <1>3, MergeBarTyped DEF y, k
    <2>2. y[k].way = x[k].way
      <3>1. Absorbed(x[k], b, date).way = x[k].way
        BY <1>1, AbsorbedFields
      <3> QED
        BY <1>1, <2>1, <3>1
    <2>3. y[n].way = m[n].way
      <3>1. n = k \/ n \in 1..k - 1
        BY <1>1, <1>2
      <3> QED
        BY <1>2, <2>1, <2>2, <3>1
    <2>4. ASSUME NEW j \in 1..n - 1 PROVE y[j] = m[j]
      <3>1. j \in 1..k - 1
        BY <1>1, <1>2
      <3> QED
        BY <1>2, <2>1, <3>1
    <2> QED
      BY <1>2, <2>1, <2>3, <2>4 DEF Continues, y, n
  <1>4. CASE ~Contained(b, Last(x))
    <2>1. Len(y) = k + 1 /\ \A j \in 1..k : y[j] = x[j]
      BY <1>4, MergeBarTyped DEF y, k
    <2>2. n <= k + 1 /\ n \in 1..k /\ \A j \in 1..n - 1 : j \in 1..k
      BY <1>1, <1>2
    <2>3. \A j \in 1..n - 1 : y[j] = m[j]
      BY <1>2, <2>1, <2>2
    <2>4. y[n].way = m[n].way
      BY <1>2, <2>1, <2>2
    <2> QED
      BY <2>1, <2>2, <2>3, <2>4 DEF Continues, y, n
  <1> QED
    BY <1>3, <1>4

\* The merged bars of a longer series go on.
LEMMA MergedContinues ==
  ASSUME NEW b \in Seq(ChartBar), NEW c \in Seq(ChartBar), Starts(b, c)
  PROVE  Continues(MergedKlines(b), MergedKlines(c))
  <1> DEFINE n == Len(b)
             N == Len(c)
  <1>1. n \in Nat /\ N \in Nat /\ n <= N /\ \A i \in 1..n : c[i] = b[i]
    BY DEF Starts
  <1>2. MergedKlines(c) \in Seq(MergedBar)
    BY MergedSound
  <1>3. CASE b = <<>>
    <2>1. MergedKlines(b) = <<>> /\ Len(<<>>) = 0
      BY <1>3 DEF MergedKlines
    <2>2. 0 <= Len(MergedKlines(c))
      BY <1>2
    <2> QED
      BY <2>1, <2>2 DEF Continues
  <1>4. CASE b # <<>>
    <2>1. n # 0 /\ n \in 1..N /\ 1 \in 1..n /\ c # <<>>
      BY <1>1, <1>4
    <2>2. PICK F : MergedLog(F, b) /\ MergedKlines(b) = F[n]
      BY <1>4, MergedFold
    <2>3. PICK H : MergedLog(H, c) /\ MergedKlines(c) = H[N]
      BY <2>1, MergedFold
    <2>4. Alike(F, H, n)
      <3>1. F[0] = H[0]
        BY <1>1, <2>1, <2>2, <2>3 DEF MergedLog
      <3>2. ASSUME NEW k \in 1..n, F[k - 1] = H[k - 1] PROVE F[k] = H[k]
        <4>1. k \in 1..N /\ (k \in 2..n <=> k \in 2..N) /\ c[k] = b[k]
          BY <1>1
        <4>2. F[k] = IF k \in 2..n THEN MergeBar(F[k - 1], b[k], k) ELSE F[k - 1]
          BY <2>2 DEF MergedLog
        <4>3. H[k] = IF k \in 2..N THEN MergeBar(H[k - 1], c[k], k) ELSE H[k - 1]
          BY <2>3, <4>1 DEF MergedLog
        <4> QED
          BY <3>2, <4>1, <4>2, <4>3
      <3> QED
        BY <3>1, <3>2 DEF Alike
    <2>5. F[n] = H[n]
      <3> HIDE DEF n
      <3> QED
        BY <1>1, <2>4, SameSteps
    <2>6. \A k \in 0..N : H[k] \in SomeBars
      BY <2>3 DEF MergedLog
    <2> DEFINE d == N - n
               P == {k \in 0..d : Continues(H[n], H[n + k])}
    <2>7. d \in Nat /\ 0 \in 0..d /\ d \in 0..d /\ n + 0 = n /\ n + d = N /\ n \in 0..N
      BY <1>1
    <2>8. 0 \in P
      <3>1. H[n] \in Seq(MergedBar)
        BY <2>6, <2>7 DEF SomeBars
      <3>2. Continues(H[n], H[n])
        BY <3>1 DEF Continues
      <3> QED
        BY <2>7, <3>2
    <2>9. ASSUME NEW k \in 1..d, k - 1 \in P PROVE k \in P
      <3> DEFINE i == n + k
      <3>1. i \in 2..N /\ i - 1 = n + (k - 1) /\ i - 1 \in 0..N /\ i \in 1..N /\ k \in 0..d /\ i \in Nat
        BY <1>1, <2>1
      <3>2. c[i] \in ChartBar
        BY <3>1
      <3>3. H[n] \in SomeBars /\ H[i - 1] \in SomeBars /\ Continues(H[n], H[i - 1])
        BY <2>6, <2>7, <2>9, <3>1
      <3> HIDE DEF i, P, d
      <3>4. H[i] = MergeBar(H[i - 1], c[i], i)
        BY <2>3, <3>1 DEF MergedLog
      <3>5. Continues(H[n], H[i])
        BY <3>1, <3>2, <3>3, <3>4, MergeContinues
      <3> QED
        BY <3>1, <3>5 DEF i, P
    <2>10. d \in P
      <3> HIDE DEF P, d
      <3>1. \A k \in 0..d : k \in P
        BY <2>7, <2>8, <2>9, StepByStep
      <3> QED
        BY <2>7, <3>1
    <2>11. Continues(H[n], H[N])
      BY <2>7, <2>10
    <2> QED
      BY <2>2, <2>3, <2>5, <2>11
  <1> QED
    BY <1>3, <1>4

\* What turned before the last merged bar still does, and no other bar does.
LEMMA TurnsContinue ==
  ASSUME NEW m \in Seq(MergedBar), NEW x \in Seq(MergedBar), Monotone(m), Monotone(x), Continues(m, x),
         NEW i \in 1..Len(m) - 1
  PROVE  (i \in Turns(m) <=> i \in Turns(x)) /\ (i \in Turns(m) => FractalAt(x, i) = FractalAt(m, i))
  <1>1. Len(m) <= Len(x) /\ Len(m) \in Nat /\ Len(x) \in Nat /\ m # <<>>
    BY DEF Continues
  <1>2. (\A j \in 1..Len(m) - 1 : x[j] = m[j]) /\ x[Len(m)].way = m[Len(m)].way
    BY <1>1 DEF Continues
  <1>3. CASE i = 1
    BY <1>3 DEF Turns, Inner
  <1>4. CASE i # 1
    <2>1. i \in Inner(m) /\ i \in Inner(x)
      BY <1>1, <1>4 DEF Inner
    <2>2. x[i] = m[i] /\ x[i + 1].way = m[i + 1].way
      <3>1. i + 1 = Len(m) \/ i + 1 \in 1..Len(m) - 1
        BY <1>1
      <3> QED
        BY <1>2, <3>1
    <2>3. (IsTop(m, i) <=> IsTop(x, i)) /\ (IsBottom(m, i) <=> IsBottom(x, i))
      BY <2>1, <2>2, TurnWays
    <2>4. i \in Turns(m) <=> i \in Turns(x)
      BY <2>1, <2>3 DEF Turns
    <2>5. FractalAt(x, i) = FractalAt(m, i)
      <3>1. IsTop(m, i) = IsTop(x, i)
        BY <2>3 DEF IsTop
      <3> QED
        BY <2>2, <3>1 DEF FractalAt
    <2> QED
      BY <2>4, <2>5
  <1> QED
    BY <1>3, <1>4

\* No top or bottom is taken back.
LEMMA FractalsContinue ==
  ASSUME NEW m \in Seq(MergedBar), NEW x \in Seq(MergedBar), Monotone(m), Monotone(x), Continues(m, x)
  PROVE  Starts(Fractals(m), Fractals(x))
  <1> DEFINE n == Len(m)
             N == Len(x)
  <1>1. n \in Nat /\ N \in Nat /\ n <= N
    BY DEF Continues
  <1>2. PICK F : FractalsLog(F, m) /\ Fractals(m) = F[n]
    BY FractalsFold
  <1>3. PICK H : FractalsLog(H, x) /\ Fractals(x) = H[N]
    BY FractalsFold
  <1>4. /\ F \in [0..n -> Seq(Fractal)] /\ F[0] = <<>>
        /\ \A k \in 1..n : F[k] = IF k \in Turns(m) THEN Append(F[k - 1], FractalAt(m, k)) ELSE F[k - 1]
    BY <1>2 DEF FractalsLog
  <1>5. /\ H \in [0..N -> Seq(Fractal)] /\ H[0] = <<>>
        /\ \A k \in 1..N : H[k] = IF k \in Turns(x) THEN Append(H[k - 1], FractalAt(x, k)) ELSE H[k - 1]
    BY <1>3 DEF FractalsLog
  <1> HIDE DEF n, N
  <1>6. CASE n = 0
    <2>1. Fractals(m) = <<>>
      BY <1>2, <1>4, <1>6
    <2>2. Fractals(x) \in Seq(Fractal)
      BY <1>1, <1>3, <1>5
    <2> QED
      BY <2>1, <2>2 DEF Starts
  <1>7. CASE n # 0
    <2> DEFINE l == n - 1
    <2>1. l \in Nat /\ l \in 0..N /\ n \in 1..n /\ l \in 0..n /\ n - 1 = l
      BY <1>1, <1>7
    <2>2. F[n] = F[l]
      <3>1. n \notin Turns(m)
        BY <1>1 DEF Turns, Inner, n
      <3> QED
        BY <1>4, <2>1, <3>1
    <2>3. Alike(F, H, l)
      <3>1. ASSUME NEW k \in 1..l, F[k - 1] = H[k - 1] PROVE F[k] = H[k]
        <4>1. k \in 1..n /\ k \in 1..N /\ k \in 1..Len(m) - 1
          BY <1>1, <1>7 DEF n
        <4>2. (k \in Turns(m) <=> k \in Turns(x)) /\ (k \in Turns(m) => FractalAt(x, k) = FractalAt(m, k))
          BY <4>1, TurnsContinue
        <4>3. F[k] = IF k \in Turns(m) THEN Append(F[k - 1], FractalAt(m, k)) ELSE F[k - 1]
          BY <1>4, <4>1
        <4>4. H[k] = IF k \in Turns(x) THEN Append(H[k - 1], FractalAt(x, k)) ELSE H[k - 1]
          BY <1>5, <4>1
        <4> QED
          BY <3>1, <4>2, <4>3, <4>4
      <3> QED
        BY <1>4, <1>5, <3>1 DEF Alike
    <2>4. F[l] = H[l]
      <3> HIDE DEF l
      <3> QED
        BY <2>1, <2>3, SameSteps
    <2>5. \A k \in 0..N : H[k] \in Seq(Fractal)
      BY <1>5
    <2>6. ASSUME NEW k \in l + 1..N PROVE Starts(H[k - 1], H[k])
      <3>1. k \in 1..N /\ k - 1 \in 0..N
        BY <1>1, <2>1
      <3>2. H[k - 1] \in Seq(Fractal)
        BY <2>5, <3>1
      <3>3. CASE k \in Turns(x)
        <4>1. FractalAt(x, k) \in Fractal
          BY <3>3, FractalTyped
        <4>2. H[k] = Append(H[k - 1], FractalAt(x, k))
          BY <1>5, <3>1, <3>3
        <4> QED
          BY <3>2, <4>1, <4>2, AppendStarts
      <3>4. CASE k \notin Turns(x)
        <4>1. H[k] = H[k - 1]
          BY <1>5, <3>1, <3>4
        <4> QED
          BY <3>2, <4>1 DEF Starts
      <3> QED
        BY <3>3, <3>4
    <2>7. Starts(H[l], H[N])
      <3> HIDE DEF l
      <3> QED
        BY <1>1, <2>1, <2>5, <2>6, Grows
    <2> QED
      BY <1>2, <1>3, <2>2, <2>4, <2>7
  <1> QED
    BY <1>6, <1>7

\* A step of the walk sees no fractal behind its own.
LEMMA SameWalk ==
  ASSUME NEW f \in Seq(Fractal), NEW h \in Seq(Fractal), Starts(f, h), NEW w \in Walks(f), NEW j \in 2..Len(f)
  PROVE  /\ WalkFractal(h, w, j) = WalkFractal(f, w, j)
         /\ w.end # 0 => CloseStroke(h, w) = CloseStroke(f, w)
  <1>1. 2 <= Len(f) /\ \A i \in 1..Len(f) : h[i] = f[i]
    BY DEF Starts
  <1>2. w.start \in 1..Len(f) /\ (w.end # 0 => w.end \in 1..Len(f)) /\ j \in 1..Len(f)
    BY <1>1, WalkParts
  <1>3. h[w.start] = f[w.start] /\ h[j] = f[j] /\ (w.end # 0 => h[w.end] = f[w.end])
    BY <1>1, <1>2
  <1>4. ASSUME w.end # 0 PROVE CloseStroke(h, w) = CloseStroke(f, w)
    BY <1>3, <1>4 DEF CloseStroke, StrokeOf
  <1>5. SeekEnd(h, w, j) = SeekEnd(f, w, j)
    BY <1>3 DEF SeekEnd
  <1>6. ASSUME w.end # 0 PROVE SeekEnd(h, CloseStroke(h, w), j) = SeekEnd(f, CloseStroke(f, w), j)
    <2>1. CloseStroke(f, w).start = w.end
      BY <1>1, <1>6, CloseParts
    <2>2. CloseStroke(h, w) = CloseStroke(f, w)
      BY <1>4, <1>6
    <2> QED
      BY <1>3, <1>6, <2>1, <2>2 DEF SeekEnd
  <1> QED
    BY <1>3, <1>4, <1>5, <1>6 DEF WalkFractal

\* A step of the walk takes no stroke back.
LEMMA WalkGrows ==
  ASSUME NEW f \in Seq(Fractal), NEW w \in Walks(f), NEW j \in 2..Len(f)
  PROVE  Starts(w.strokes, WalkFractal(f, w, j).strokes)
  <1>1. 2 <= Len(f)
    OBVIOUS
  <1>2. w.strokes \in Seq(Stroke)
    BY <1>1, WalkParts
  <1>3. CASE f[j].top # f[w.start].top
    <2>1. WalkFractal(f, w, j).strokes = w.strokes
      BY <1>3, SeekParts DEF WalkFractal
    <2> QED
      BY <1>2, <2>1 DEF Starts
  <1>4. CASE f[j].top = f[w.start].top /\ w.end # 0
    <2> DEFINE v == CloseStroke(f, w)
    <2>1. v \in Walks(f) /\ v.strokes = Append(w.strokes, StrokeOf(f, w)) /\ StrokeOf(f, w) \in Stroke
      BY <1>1, <1>4, CloseParts
    <2>2. WalkFractal(f, w, j) = SeekEnd(f, v, j)
      BY <1>4 DEF WalkFractal
    <2> HIDE DEF v
    <2>3. SeekEnd(f, v, j).strokes = v.strokes
      BY <2>1, SeekParts
    <2>4. Starts(w.strokes, Append(w.strokes, StrokeOf(f, w)))
      BY <1>2, <2>1, AppendStarts
    <2> QED
      BY <2>1, <2>2, <2>3, <2>4
  <1>5. CASE f[j].top = f[w.start].top /\ w.end = 0
    <2>1. WalkFractal(f, w, j).strokes = w.strokes
      BY <1>5 DEF WalkFractal, Walks
    <2> QED
      BY <1>2, <2>1 DEF Starts
  <1> QED
    BY <1>3, <1>4, <1>5

-----------------------------------------------------------------------------
\* Strokes and zones that go on.

\* Two sequences as long that go on alike are one.
LEMMA StartsWhole ==
  ASSUME NEW A, NEW s \in Seq(A), NEW t \in Seq(A), Starts(s, t), Len(s) = Len(t)
  PROVE  s = t
  BY DEF Starts

\* The strokes of the walk behind a place are those the rest of it begins with.
LEMMA WalkGoesOn ==
  ASSUME NEW f \in Seq(Fractal), NEW H, WalkLog(H, f), NEW n \in 1..Len(f)
  PROVE  Starts(H[n].strokes, H[Len(f)].strokes)
  <1> DEFINE N == Len(f)
             S == [k \in 0..N |-> H[k].strokes]
  <1>1. N \in Nat /\ n \in 0..N /\ N \in 0..N
    OBVIOUS
  <1>2. /\ H \in [0..N -> Walks(f)]
        /\ \A k \in 1..N : H[k] = IF k \in 2..N THEN WalkFractal(f, H[k - 1], k) ELSE H[k - 1]
    BY DEF WalkLog
  <1>3. \A k \in 0..N : S[k] \in Seq(Stroke) /\ S[k] = H[k].strokes
    BY <1>2 DEF Walks
  <1> HIDE DEF S
  <1>4. ASSUME NEW k \in n + 1..N PROVE Starts(S[k - 1], S[k])
    <2>1. k \in 2..N /\ k \in 1..N /\ k \in 0..N /\ k - 1 \in 0..N
      BY <1>1
    <2>2. H[k] = WalkFractal(f, H[k - 1], k) /\ H[k - 1] \in Walks(f)
      BY <1>2, <2>1
    <2>3. Starts(H[k - 1].strokes, H[k].strokes)
      BY <2>1, <2>2, WalkGrows
    <2> QED
      BY <1>3, <2>1, <2>3
  <1>5. Starts(S[n], S[N])
    <2> HIDE DEF N
    <2> QED
      BY <1>1, <1>3, <1>4, Grows
  <1>6. Starts(H[n].strokes, H[N].strokes)
    BY <1>1, <1>3, <1>5
  <1> QED
    BY <1>6

\* What the walk has found stays in the strokes.
LEMMA StrokesGoOn ==
  ASSUME NEW f \in Seq(Fractal), 2 <= Len(f), NEW H, WalkLog(H, f), NEW n \in 1..Len(f),
         Strokes(f) = IF H[Len(f)].end # 0 THEN CloseStroke(f, H[Len(f)]).strokes ELSE H[Len(f)].strokes
  PROVE  Starts(H[n].strokes, Strokes(f))
  <1> DEFINE w == H[Len(f)]
             s == H[n].strokes
  <1>1. Starts(s, w.strokes)
    BY WalkGoesOn
  <1>2. w \in Walks(f) /\ s \in Seq(Stroke)
    <2>1. Len(f) \in 0..Len(f) /\ n \in 0..Len(f)
      OBVIOUS
    <2> QED
      BY <2>1 DEF WalkLog, Walks
  <1> HIDE DEF s
  <1>3. Strokes(f) = IF w.end # 0 THEN CloseStroke(f, w).strokes ELSE w.strokes
    OBVIOUS
  <1> HIDE DEF w
  <1>4. w.strokes \in Seq(Stroke)
    BY <1>2 DEF Walks
  <1>5. ASSUME w.end # 0 PROVE Starts(s, Strokes(f))
    <2>1. CloseStroke(f, w).strokes = Append(w.strokes, StrokeOf(f, w)) /\ StrokeOf(f, w) \in Stroke
      BY <1>2, <1>5, CloseParts
    <2>2. Starts(w.strokes, CloseStroke(f, w).strokes) /\ CloseStroke(f, w).strokes \in Seq(Stroke)
      BY <1>4, <2>1, AppendStarts
    <2>3. Starts(s, CloseStroke(f, w).strokes)
      BY <1>1, <1>2, <1>4, <2>2, StartsTwice
    <2> QED
      BY <1>3, <1>5, <2>3
  <1>6. ASSUME w.end = 0 PROVE Starts(s, Strokes(f))
    BY <1>1, <1>3, <1>6
  <1> QED
    BY <1>5, <1>6 DEF s

\* No stroke is taken back: what may be one at the last top or bottom is one
\* when the next comes, as it is of the other kind.
LEMMA StrokesContinue ==
  ASSUME NEW f \in Seq(Fractal), NEW h \in Seq(Fractal), MarksSound(f), MarksSound(h), Starts(f, h)
  PROVE  Starts(Strokes(f), Strokes(h))
  <1> DEFINE n == Len(f)
             N == Len(h)
  <1>1. n \in Nat /\ N \in Nat /\ n <= N
    BY DEF Starts
  <1>2. Strokes(f) \in Seq(Stroke) /\ Strokes(h) \in Seq(Stroke)
    BY StrokesSound
  <1>3. CASE n <= 1
    <2>1. Strokes(f) = <<>>
      BY <1>3, NoStrokes
    <2> QED
      BY <1>2, <2>1 DEF Starts
  <1>4. CASE n = N
    <2>1. f = h
      BY <1>4, StartsWhole
    <2> QED
      BY <1>2, <2>1 DEF Starts
  <1>5. CASE 2 <= n /\ n < N
    <2>1. PICK F : /\ WalkLog(F, f)
                   /\ Strokes(f) = IF F[n].end # 0 THEN CloseStroke(f, F[n]).strokes ELSE F[n].strokes
      BY WalkFold
    <2>2. PICK H : /\ WalkLog(H, h)
                   /\ Strokes(h) = IF H[N].end # 0 THEN CloseStroke(h, H[N]).strokes ELSE H[N].strokes
      BY WalkFold
    <2>3. /\ F \in [0..n -> Walks(f)] /\ F[0] = WalkBegins
          /\ \A k \in 1..n : F[k] = IF k \in 2..n THEN WalkFractal(f, F[k - 1], k) ELSE F[k - 1]
      BY <2>1 DEF WalkLog
    <2>4. /\ H \in [0..N -> Walks(h)] /\ H[0] = WalkBegins
          /\ \A k \in 1..N : H[k] = IF k \in 2..N THEN WalkFractal(h, H[k - 1], k) ELSE H[k - 1]
      BY <2>2 DEF WalkLog
    <2>5. n \in 1..n /\ n \in 2..n /\ n \in 1..N /\ n + 1 \in 2..N /\ n + 1 \in 1..N /\ n + 1 - 1 = n /\ 2 <= N
      BY <1>1, <1>5
    <2>6. F[n] \in Walks(f) /\ WalkSound(f, F[n], n)
      BY <1>5, <2>1, <2>5, WalkLogSound
    <2>7. Alike(F, H, n)
      <3>1. ASSUME NEW k \in 1..n, F[k - 1] = H[k - 1] PROVE F[k] = H[k]
        <4>1. k \in 1..N /\ (k \in 2..n <=> k \in 2..N) /\ k - 1 \in 0..n
          BY <1>1
        <4>2. F[k - 1] \in Walks(f)
          BY <2>3, <4>1
        <4>3. k \in 2..n => WalkFractal(h, F[k - 1], k) = WalkFractal(f, F[k - 1], k)
          BY <4>2, SameWalk
        <4> QED
          BY <2>3, <2>4, <3>1, <4>1, <4>3
      <3> QED
        BY <2>3, <2>4, <3>1 DEF Alike
    <2>8. F[n] = H[n]
      <3> HIDE DEF n
      <3> QED
        BY <1>1, <2>7, SameSteps
    <2> DEFINE w == F[n]
    <2>9. /\ w \in Walks(f) /\ WalkSound(f, w, n) /\ H[n] = w
          /\ Strokes(f) = IF w.end # 0 THEN CloseStroke(f, w).strokes ELSE w.strokes
      BY <2>1, <2>6, <2>8
    <2> HIDE DEF w
    <2>10. CASE w.end = 0
      <3>1. Starts(H[n].strokes, Strokes(h))
        BY <2>2, <2>5, StrokesGoOn
      <3> QED
        BY <2>9, <2>10, <3>1
    <2>11. CASE w.end # 0
      <3>1. w.end = n /\ f[n].top # f[w.start].top
        BY <2>9, <2>11 DEF WalkSound
      <3>2. w \in Walks(h)
        <4>1. n \in 0..N
          BY <2>5
        <4> QED
          BY <2>4, <2>9, <4>1
      <3>3. w.start \in 1..n /\ h[w.start] = f[w.start] /\ h[n] = f[n] /\ f[w.start] \in Fractal
        <4>1. w.start \in 1..n /\ f[w.start] \in Fractal
          BY <1>5, <2>9, WalkParts
        <4> QED
          BY <2>5, <4>1 DEF Starts
      <3>4. h[n + 1].top \in BOOLEAN /\ h[n].top \in BOOLEAN /\ h[n + 1].top # h[n].top
        <4> DEFINE j == n + 1
        <4>1. j \in 2..Len(h) /\ j - 1 = n
          BY <2>5
        <4> HIDE DEF j, n
        <4> QED
          BY <4>1, Adjacent DEF j
      <3>5. h[n + 1].top = h[w.start].top
        <4>1. f[w.start].top \in BOOLEAN
          BY <3>3 DEF Fractal
        <4> QED
          BY <3>1, <3>3, <3>4, <4>1
      <3>6. H[n + 1] = WalkFractal(h, w, n + 1)
        BY <2>4, <2>5, <2>9
      <3>7. WalkFractal(h, w, n + 1) = SeekEnd(h, CloseStroke(h, w), n + 1)
        BY <2>11, <3>5 DEF WalkFractal
      <3>8. CloseStroke(h, w) \in Walks(h)
        BY <2>5, <2>11, <3>2, CloseParts
      <3>9. H[n + 1].strokes = CloseStroke(h, w).strokes
        BY <2>5, <3>6, <3>7, <3>8, SeekParts
      <3>10. CloseStroke(h, w) = CloseStroke(f, w)
        BY <2>5, <2>9, <2>11, SameWalk
      <3>11. Starts(H[n + 1].strokes, Strokes(h))
        BY <2>2, <2>5, StrokesGoOn
      <3> QED
        BY <2>9, <2>11, <3>9, <3>10, <3>11
    <2> QED
      BY <2>10, <2>11
  <1> QED
    BY <1>1, <1>3, <1>4, <1>5

\* A step of the search takes no zone back.
LEMMA AddZoneGrows ==
  ASSUME NEW s \in Seq(Stroke), NEW z \in Seq(Zone), NEW i \in 1..Len(s)
  PROVE  Starts(z, AddZone(s, z, i))
  <1>1. CASE AddZone(s, z, i) = z
    BY <1>1 DEF Starts
  <1>2. CASE AddZone(s, z, i) # z
    <2>1. i + 2 <= Len(s) /\ AddZone(s, z, i) = Append(z, ZoneOf(s, i))
      BY <1>2 DEF AddZone
    <2>2. ZoneOf(s, i) \in Zone
      BY <2>1, ZoneTyped
    <2> QED
      BY <2>1, <2>2, AppendStarts
  <1> QED
    BY <1>1, <1>2

\* No zone is taken back: it waits for its third stroke.
LEMMA ZonesContinue ==
  ASSUME NEW s \in Seq(Stroke), NEW t \in Seq(Stroke), Starts(s, t)
  PROVE  Starts(Zones(s), Zones(t))
  <1> DEFINE n == Len(s)
             N == Len(t)
  <1>1. n \in Nat /\ N \in Nat /\ n <= N /\ \A i \in 1..n : t[i] = s[i]
    BY DEF Starts
  <1>2. PICK F : ZonesLog(F, s) /\ Zones(s) = F[n]
    BY ZonesFold
  <1>3. PICK H : ZonesLog(H, t) /\ Zones(t) = H[N]
    BY ZonesFold
  <1>4. /\ F \in [0..n -> Seq(Zone)] /\ F[0] = <<>>
        /\ \A k \in 1..n : F[k] = AddZone(s, F[k - 1], k)
    BY <1>2 DEF ZonesLog
  <1>5. /\ H \in [0..N -> Seq(Zone)] /\ H[0] = <<>>
        /\ \A k \in 1..N : H[k] = AddZone(t, H[k - 1], k)
    BY <1>3 DEF ZonesLog
  <1> DEFINE P == {k \in 0..n : Starts(F[k], H[k]) /\ (k + 2 <= n => F[k] = H[k])}
  <1>6. 0 \in P
    <2>1. Starts(<<>>, <<>>)
      BY DEF Starts
    <2> QED
      BY <1>1, <1>4, <1>5, <2>1
  <1>7. ASSUME NEW k \in 1..n, k - 1 \in P PROVE k \in P
    <2>1. k \in 0..n /\ k \in 1..N /\ k - 1 \in 0..n /\ k - 1 \in 0..N /\ (k + 2 <= n => k - 1 + 2 <= n)
      BY <1>1
    <2>2. F[k - 1] \in Seq(Zone) /\ H[k - 1] \in Seq(Zone) /\ H[k] = AddZone(t, H[k - 1], k)
          /\ F[k] = AddZone(s, F[k - 1], k) /\ Starts(F[k - 1], H[k - 1])
      BY <1>4, <1>5, <1>7, <2>1
    <2>3. H[k] \in Seq(Zone) /\ F[k] \in Seq(Zone)
      BY <1>4, <1>5, <2>1
    <2>4. CASE k + 2 <= n
      <3>1. F[k - 1] = H[k - 1]
        BY <1>7, <2>1, <2>4
      <3>2. k + 2 <= N /\ k + 1 \in 1..n
        BY <1>1, <2>4
      <3>3. t[k] = s[k] /\ t[k + 1] = s[k + 1]
        BY <1>1, <3>2
      <3>4. ZoneOf(t, k) = ZoneOf(s, k)
        BY <3>3 DEF ZoneOf
      <3>5. AddZone(t, F[k - 1], k) = AddZone(s, F[k - 1], k)
        BY <2>4, <3>2, <3>4 DEF AddZone
      <3>6. F[k] = H[k]
        BY <2>2, <3>1, <3>5
      <3>7. Starts(F[k], H[k])
        BY <2>3, <3>6 DEF Starts
      <3> QED
        BY <2>1, <3>6, <3>7
    <2>5. CASE ~(k + 2 <= n)
      <3>1. F[k] = F[k - 1]
        BY <2>2, <2>5 DEF AddZone
      <3>2. Starts(H[k - 1], H[k])
        BY <2>1, <2>2, AddZoneGrows
      <3>3. Starts(F[k], H[k])
        BY <2>2, <2>3, <3>1, <3>2, StartsTwice
      <3> QED
        BY <2>1, <2>5, <3>3
    <2> QED
      BY <2>4, <2>5
  <1>8. n \in P
    <2> HIDE DEF P
    <2>1. \A k \in 0..n : k \in P
      BY <1>1, <1>6, <1>7, StepByStep
    <2> QED
      BY <1>1, <2>1
  <1>9. Starts(H[n], H[N])
    <2>1. \A k \in 0..N : H[k] \in Seq(Zone)
      BY <1>5
    <2>2. ASSUME NEW k \in n + 1..N PROVE Starts(H[k - 1], H[k])
      <3>1. k \in 1..N /\ k - 1 \in 0..N
        BY <1>1
      <3> QED
        BY <1>5, <2>1, <3>1, AddZoneGrows
    <2>3. n \in 0..N
      BY <1>1
    <2> HIDE DEF n, N
    <2> QED
      BY <1>1, <2>1, <2>2, <2>3, Grows
  <1>10. F[n] \in Seq(Zone) /\ H[n] \in Seq(Zone) /\ H[N] \in Seq(Zone)
    <2>1. n \in 0..n /\ n \in 0..N /\ N \in 0..N
      BY <1>1
    <2> QED
      BY <1>4, <1>5, <2>1
  <1>11. Starts(F[n], H[n])
    BY <1>8
  <1>12. Starts(F[n], H[N])
    BY <1>9, <1>10, <1>11, StartsTwice
  <1> QED
    BY <1>2, <1>3, <1>12

\* A zone that is broken stays so, by the same stroke.
LEMMA BrokenContinues ==
  ASSUME NEW s \in Seq(Stroke), NEW t \in Seq(Stroke), Starts(s, t), NEW z \in Zone, BrokenBy(s, z) # 0
  PROVE  BrokenBy(t, z) = BrokenBy(s, z)
  <1> DEFINE a == BrokenBy(s, z)
             b == BrokenBy(t, z)
  <1>1. /\ a \in 0..Len(s) /\ a # 0 /\ z.first + 2 <= a /\ Leaves(s[a], z)
        /\ \A j \in z.first + 2..a - 1 : ~Leaves(s[j], z)
    BY BrokenSound
  <1>2. /\ b \in 0..Len(t)
        /\ b # 0 => /\ z.first + 2 <= b /\ Leaves(t[b], z)
                    /\ \A j \in z.first + 2..b - 1 : ~Leaves(t[j], z)
        /\ b = 0 => \A j \in z.first + 2..Len(t) : ~Leaves(t[j], z)
    BY BrokenSound
  <1>3. /\ z.first \in Nat /\ Len(s) \in Nat /\ Len(t) \in Nat /\ Len(s) <= Len(t)
        /\ \A i \in 1..Len(s) : t[i] = s[i]
    BY DEF Zone, Starts
  <1> HIDE DEF a, b
  <1>4. a \in 1..Len(s) /\ a \in z.first + 2..Len(t) /\ t[a] = s[a]
    BY <1>1, <1>3
  <1>5. b # 0
    BY <1>1, <1>2, <1>4
  <1>6. ~(b < a)
    <2> SUFFICES ASSUME b < a PROVE FALSE
      OBVIOUS
    <2>1. b \in 1..Len(s) /\ b \in z.first + 2..a - 1
      BY <1>1, <1>2, <1>3, <1>5
    <2>2. t[b] = s[b]
      BY <1>3, <2>1
    <2> QED
      BY <1>1, <1>2, <1>5, <2>1, <2>2
  <1>7. ~(a < b)
    <2> SUFFICES ASSUME a < b PROVE FALSE
      OBVIOUS
    <2>1. a \in z.first + 2..b - 1
      BY <1>1, <1>2, <1>3, <1>5
    <2> QED
      BY <1>1, <1>2, <1>4, <1>5, <2>1
  <1>8. a = b
    BY <1>1, <1>2, <1>3, <1>6, <1>7
  <1> QED
    BY <1>8 DEF a, b

-----------------------------------------------------------------------------
\* Signals that stay.

\* The force of a stroke up to each bar.
AreaLog(F, u, T, n) ==
  /\ F \in [0..n -> Nat]
  /\ F[0] = 0
  /\ \A i \in 1..n : F[i] = IF i \in T THEN F[i - 1] + u[i] ELSE F[i - 1]

\* The force of a stroke can be summed up bar by bar.
LEMMA AreaFold ==
  ASSUME NEW u \in Seq(Nat), NEW st \in Stroke, st.since..st.until \in SUBSET (1..Len(u)),
         NEW last \in Nat, st.since..st.until \in SUBSET (1..last)
  PROVE  \E F : AreaLog(F, u, st.since..st.until, last) /\ Area(u, st) = F[last]
  <1> DEFINE n == last
             T == st.since..st.until
             base == 0
             G == [p \in T \X Nat |-> p[2] + u[p[1]]]
             it == CHOOSE it : it = [S \in SUBSET T |-> IF S = {} THEN base
                                       ELSE it[S \ {LastOf(S)}] + u[LastOf(S)]]
             Runs(h) == h = [S \in SUBSET T |-> IF S = {} THEN base
                               ELSE h[S \ {LastOf(S)}] + u[LastOf(S)]]
  <1>1. Area(u, st) = it[T]
    BY DEF Area, FoldAt, MapThenFoldSet, LastOf, Max
  <1>2. Loop(n, T, Nat, base, G)
    <2>1. n \in Nat /\ T \in SUBSET (1..n) /\ base \in Nat
      OBVIOUS
    <2>2. ASSUME NEW k \in T, NEW x \in Nat PROVE x + u[k] \in Nat
      <3>1. k \in 1..Len(u)
        OBVIOUS
      <3>2. u[k] \in Nat
        BY <3>1
      <3> QED
        BY <3>2
    <2> HIDE DEF T, n, base
    <2> QED
      BY <2>1, <2>2 DEF Loop
  <1> HIDE DEF base
  <1>3. PICK g : Follower(g, T, Nat, base, G)
    <2> HIDE DEF T, G, n
    <2> QED
      BY <1>2, FollowerExists
  <1>4. Runs(g)
    <2>1. ASSUME NEW S \in SUBSET T
          PROVE g[S] = IF S = {} THEN base ELSE g[S \ {LastOf(S)}] + u[LastOf(S)]
      <3>1. S \ {LastOf(S)} \in SUBSET T /\ S \in SUBSET (1..n) /\ n \in Nat
        BY <1>2 DEF Loop
      <3>2. S # {} => LastOf(S) \in T
        BY <3>1, LastIn
      <3> HIDE DEF T
      <3> QED
        BY <1>3, <3>1, <3>2 DEF Follower
    <2> QED
      BY <2>1, <1>3 DEF Follower
  <1>5. Runs(it)
    BY <1>4
  <1>6. Follows(it, T, base, Nat, G)
    <2>1. ASSUME NEW S \in SUBSET T
          PROVE it[S] = IF S = {} THEN base ELSE it[S \ {LastOf(S)}] + u[LastOf(S)]
      <3> HIDE DEF it
      <3> QED
        BY <1>5
    <2> HIDE DEF it
    <2>2. ASSUME NEW S \in SUBSET T, S # {}, NEW x \in Nat, it[S \ {LastOf(S)}] = x
          PROVE  it[S] = G[<<LastOf(S), x>>]
      <3>1. LastOf(S) \in T
        BY <1>2, <2>2, LastIn DEF Loop
      <3> QED
        BY <2>1, <2>2, <3>1
    <2> HIDE DEF T, G
    <2>3. it[{}] = base
      BY <2>1
    <2> QED
      BY <2>2, <2>3 DEF Follows
  <1>7. PICK F : Walked(F, n, T, base, Nat, G) /\ F[n] = it[T]
    <2> HIDE DEF it, T, G, n, Runs
    <2> QED
      BY <1>2, <1>6, FollowedSteps
  <1>8. AreaLog(F, u, T, n)
    <2> HIDE DEF it, Runs, G, T
    <2>1. /\ F \in [0..n -> Nat] /\ F[0] = base
          /\ \A k \in 1..n : F[k] = IF k \in T THEN G[<<k, F[k - 1]>>] ELSE F[k - 1]
      BY <1>7 DEF Walked
    <2>2. ASSUME NEW k \in T PROVE G[<<k, F[k - 1]>>] = F[k - 1] + u[k]
      <3>1. F[k - 1] \in Nat
        <4>1. k \in 1..n /\ n \in Nat
          BY <1>2 DEF Loop
        <4>2. k - 1 \in 0..n
          BY <4>1
        <4> QED
          BY <2>1, <4>2
      <3> QED
        BY <3>1 DEF G
    <2> QED
      BY <2>1, <2>2 DEF AreaLog, base, T
  <1> HIDE DEF it, G, Runs
  <1> QED
    BY <1>1, <1>7, <1>8 DEF n, T

\* The force of a stroke does not change with what comes behind it.
LEMMA SameArea ==
  ASSUME NEW u \in Seq(Nat), NEW v \in Seq(Nat), Starts(u, v), NEW st \in Stroke,
         st.since..st.until \in SUBSET (1..Len(u))
  PROVE  Area(v, st) = Area(u, st)
  <1> DEFINE n == Len(u)
             T == st.since..st.until
  <1>1. n \in Nat /\ n <= Len(v) /\ \A i \in 1..n : v[i] = u[i]
    BY DEF Starts
  <1>2. T \in SUBSET (1..n) /\ T \in SUBSET (1..Len(v))
    BY <1>1
  <1> HIDE DEF n
  <1>3. PICK F : AreaLog(F, u, T, n) /\ Area(u, st) = F[n]
    BY <1>1, <1>2, AreaFold
  <1>4. PICK H : AreaLog(H, v, T, n) /\ Area(v, st) = H[n]
    BY <1>1, <1>2, AreaFold
  <1> HIDE DEF T
  <1>5. Alike(F, H, n)
    <2>1. F[0] = 0 /\ \A i \in 1..n : F[i] = IF i \in T THEN F[i - 1] + u[i] ELSE F[i - 1]
      BY <1>3 DEF AreaLog
    <2>2. H[0] = 0 /\ \A i \in 1..n : H[i] = IF i \in T THEN H[i - 1] + v[i] ELSE H[i - 1]
      BY <1>4 DEF AreaLog
    <2>3. ASSUME NEW k \in 1..n, F[k - 1] = H[k - 1] PROVE F[k] = H[k]
      BY <1>1, <2>1, <2>2, <2>3
    <2> QED
      BY <2>1, <2>2, <2>3 DEF Alike
  <1>6. F[n] = H[n]
    BY <1>1, <1>5, SameSteps
  <1> QED
    BY <1>3, <1>4, <1>6

\* Series and strokes that go on, and strokes within the series.
Redrawn(b, s, c, t) ==
  /\ b \in Seq(ChartBar) /\ c \in Seq(ChartBar) /\ Starts(b, c)
  /\ s \in Seq(Stroke) /\ t \in Seq(Stroke) /\ Starts(s, t)
  /\ \A i \in 1..Len(s) : s[i].since \in 1..Len(b) /\ s[i].until \in 1..Len(b)
  /\ Zones(s) \in Seq(Zone) /\ Zones(t) \in Seq(Zone)
  /\ \A k \in 1..Len(Zones(s)) : Zones(s)[k].first + 2 <= Len(s)

\* |MACD| of a series that is there, and of a longer one that has it too.
Weighed(b, u, v) ==
  u \in Seq(Nat) /\ v \in Seq(Nat) /\ Len(u) = Len(b) /\ Starts(u, v)

\* A stroke that diverges does so in a longer series.
LEMMA DivergesStill ==
  ASSUME NEW b, NEW s, NEW c, NEW t, Redrawn(b, s, c, t), NEW u, NEW v, Weighed(b, u, v),
         NEW i \in 1..Len(s), Diverges(u, s, i)
  PROVE  Diverges(v, t, i)
  <1>1. /\ u \in Seq(Nat) /\ v \in Seq(Nat) /\ Starts(u, v)
        /\ s \in Seq(Stroke) /\ t \in Seq(Stroke) /\ Starts(s, t)
        /\ \A k \in 1..Len(s) : s[k].since \in 1..Len(u) /\ s[k].until \in 1..Len(u)
    BY DEF Redrawn, Weighed
  <1>2. Len(s) \in Nat /\ Len(t) \in Nat /\ \A k \in 1..Len(s) : t[k] = s[k]
    BY <1>1 DEF Starts
  <1>3. SameWay(t, i) = SameWay(s, i)
    <2>1. \A j \in 1..i - 1 : j \in 1..Len(s)
      BY <1>2
    <2> QED
      BY <1>2, <2>1 DEF SameWay
  <1> DEFINE W == SameWay(s, i)
             l == Max(W)
  <1>4. W # {} /\ W \in SUBSET (1..Len(s))
    <2>1. \A j \in 1..i - 1 : j \in 1..Len(s)
      BY <1>2
    <2> QED
      BY <2>1 DEF Diverges, SameWay
  <1>5. l \in 1..Len(s)
    <2>1. l = LastOf(W)
      BY DEF Max, LastOf
    <2> HIDE DEF W, l
    <2> QED
      BY <1>2, <1>4, <2>1, LastIn
  <1>6. ASSUME NEW k \in 1..Len(s) PROVE Area(v, s[k]) = Area(u, s[k])
    <2> DEFINE st == s[k]
    <2>1. st \in Stroke /\ st.since \in 1..Len(u) /\ st.until \in 1..Len(u) /\ Len(u) \in Nat
      BY <1>1
    <2> HIDE DEF st
    <2>2. st.since..st.until \in SUBSET (1..Len(u))
      BY <2>1
    <2>3. Area(v, st) = Area(u, st)
      BY <1>1, <2>1, <2>2, SameArea
    <2> QED
      BY <2>3 DEF st
  <1>7. t[i] = s[i] /\ t[l] = s[l]
    BY <1>2, <1>5
  <1>8. Area(v, t[i]) = Area(u, s[i]) /\ Area(v, t[l]) = Area(u, s[l])
    BY <1>5, <1>6, <1>7
  <1>9. /\ Area(u, s[i]) < Area(u, s[l])
        /\ IF s[i].up THEN s[i].endPrice > s[l].endPrice ELSE s[i].endPrice < s[l].endPrice
    BY DEF Diverges
  <1>10. SameWay(t, i) = W /\ Max(SameWay(t, i)) = l
    BY <1>3
  <1> HIDE DEF W, l
  <1>11. /\ SameWay(t, i) # {}
         /\ Area(v, t[i]) < Area(v, t[Max(SameWay(t, i))])
         /\ IF t[i].up THEN t[i].endPrice > t[Max(SameWay(t, i))].endPrice
            ELSE t[i].endPrice < t[Max(SameWay(t, i))].endPrice
    BY <1>4, <1>7, <1>8, <1>9, <1>10
  <1> QED
    BY <1>11 DEF Diverges

\* Zone k of some strokes is one of those that go on, but may be broken.
ZoneStays(s, t, k) ==
  /\ k \in 1..Len(Zones(t))
  /\ Zhongshus(s)[k].brokenBy # 0 => Zhongshus(t)[k] = Zhongshus(s)[k]
  /\ Zhongshus(s)[k].brokenBy = 0 => Zhongshus(s)[k] = [Zhongshus(t)[k] EXCEPT !.brokenBy = 0]
  /\ Zhongshus(s)[k].first = Zones(s)[k].first /\ Zhongshus(s)[k].brokenBy \in 0..Len(s)

\* A zone stays, but may be broken.
LEMMA ZonesStay ==
  ASSUME NEW b, NEW s, NEW c, NEW t, Redrawn(b, s, c, t), NEW k \in 1..Len(Zones(s))
  PROVE  ZoneStays(s, t, k)
  <1> DEFINE z == Zones(s)[k]
  <1>1. /\ s \in Seq(Stroke) /\ t \in Seq(Stroke) /\ Starts(s, t)
        /\ Zones(s) \in Seq(Zone) /\ Zones(t) \in Seq(Zone)
    BY DEF Redrawn
  <1>2. Starts(Zones(s), Zones(t))
    BY <1>1, ZonesContinue
  <1>3. k \in 1..Len(Zones(t)) /\ Zones(t)[k] = z /\ z \in Zone
    <2>1. Len(Zones(s)) \in Nat /\ Len(Zones(t)) \in Nat
      BY <1>1
    <2> QED
      BY <1>1, <1>2, <2>1 DEF Starts
  <1>4. /\ Zhongshus(s)[k] = [zd |-> z.zd, zg |-> z.zg, first |-> z.first, brokenBy |-> BrokenBy(s, z)]
        /\ Zhongshus(t)[k] = [zd |-> z.zd, zg |-> z.zg, first |-> z.first, brokenBy |-> BrokenBy(t, z)]
    <2>1. DOMAIN Zones(s) = 1..Len(Zones(s)) /\ DOMAIN Zones(t) = 1..Len(Zones(t))
      BY <1>1
    <2> QED
      BY <1>3, <2>1 DEF Zhongshus
  <1> HIDE DEF z
  <1>5. BrokenBy(s, z) # 0 => BrokenBy(t, z) = BrokenBy(s, z)
    BY <1>1, <1>3, BrokenContinues
  <1>6. BrokenBy(s, z) \in 0..Len(s)
    BY <1>1, <1>3, BrokenSound
  <1>7. Zhongshus(s)[k].brokenBy # 0 => Zhongshus(t)[k] = Zhongshus(s)[k]
    BY <1>4, <1>5
  <1>8. Zhongshus(s)[k].brokenBy = 0 => Zhongshus(s)[k] = [Zhongshus(t)[k] EXCEPT !.brokenBy = 0]
    BY <1>4
  <1>9. Zhongshus(s)[k].first = z.first /\ Zhongshus(s)[k].brokenBy \in 0..Len(s)
    BY <1>4, <1>6
  <1> QED
    BY <1>3, <1>7, <1>8, <1>9 DEF z, ZoneStays

\* A signal of divergence, or behind one, stays while |MACD| does.
LEMMA DivergencesStay ==
  ASSUME NEW b, NEW s, NEW c, NEW t, Redrawn(b, s, c, t), NEW u, NEW v, Weighed(b, u, v)
  PROVE  FirstType(u, s) \subseteq FirstType(v, t) /\ SecondType(u, s) \subseteq SecondType(v, t)
  <1>1. /\ s \in Seq(Stroke) /\ t \in Seq(Stroke) /\ Starts(s, t)
        /\ Zones(s) \in Seq(Zone) /\ Zones(t) \in Seq(Zone)
        /\ \A k \in 1..Len(Zones(s)) : Zones(s)[k].first + 2 <= Len(s)
    BY DEF Redrawn
  <1>2. /\ Len(s) \in Nat /\ Len(t) \in Nat /\ Len(s) <= Len(t) /\ (\A k \in 1..Len(s) : t[k] = s[k])
        /\ DOMAIN s = 1..Len(s) /\ DOMAIN t = 1..Len(t)
    BY <1>1 DEF Starts
  <1>3. \A i \in 1..Len(s) : i \in DOMAIN t /\ \A type : SignalAt(t, i, type) = SignalAt(s, i, type)
    BY <1>2 DEF SignalAt
  <1>4. ASSUME NEW g \in FirstType(u, s) PROVE g \in FirstType(v, t)
    <2>1. PICK i \in 1..Len(s) : Diverges(u, s, i) /\ g = SignalAt(s, i, 1)
      BY <1>2 DEF FirstType
    <2>2. Diverges(v, t, i)
      BY <2>1, DivergesStill
    <2> QED
      BY <1>3, <2>1, <2>2 DEF FirstType
  <1>5. ASSUME NEW g \in SecondType(u, s) PROVE g \in SecondType(v, t)
    <2>1. PICK i \in 1..Len(s) :
            /\ Diverges(u, s, i) /\ i + 2 <= Len(s) /\ s[i + 2].up = s[i].up
            /\ IF s[i].up THEN s[i + 2].endPrice < s[i].endPrice ELSE s[i + 2].endPrice > s[i].endPrice
            /\ g = SignalAt(s, i + 2, 2)
      BY <1>2 DEF SecondType
    <2>2. i + 2 \in 1..Len(s) /\ i + 2 <= Len(t)
      BY <1>2, <2>1
    <2>3. t[i] = s[i] /\ t[i + 2] = s[i + 2] /\ g = SignalAt(t, i + 2, 2) /\ i \in DOMAIN t
      BY <1>2, <1>3, <2>1, <2>2
    <2>4. Diverges(v, t, i)
      BY <2>1, DivergesStill
    <2> QED
      BY <2>1, <2>2, <2>3, <2>4 DEF SecondType
  <1> QED
    BY <1>4, <1>5

\* A signal behind a zone stays.
LEMMA ThirdTypeStays ==
  ASSUME NEW b, NEW s, NEW c, NEW t, Redrawn(b, s, c, t)
  PROVE  ThirdType(s) \subseteq ThirdType(t)
  <1>1. /\ s \in Seq(Stroke) /\ t \in Seq(Stroke) /\ Starts(s, t)
        /\ Zones(s) \in Seq(Zone) /\ Zones(t) \in Seq(Zone)
        /\ \A k \in 1..Len(Zones(s)) : Zones(s)[k].first + 2 <= Len(s)
    BY DEF Redrawn
  <1>2. /\ Len(s) \in Nat /\ Len(t) \in Nat /\ Len(s) <= Len(t) /\ (\A k \in 1..Len(s) : t[k] = s[k])
        /\ DOMAIN s = 1..Len(s) /\ DOMAIN t = 1..Len(t)
    BY <1>1 DEF Starts
  <1>3. \A i \in 1..Len(s) : i \in DOMAIN t /\ \A type : SignalAt(t, i, type) = SignalAt(s, i, type)
    BY <1>2 DEF SignalAt
  <1>4. ASSUME NEW g \in ThirdType(s) PROVE g \in ThirdType(t)
    <2>1. PICK z \in ToSet(Zhongshus(s)) :
            /\ z.brokenBy # 0 /\ Retracement(z) <= Len(s)
            /\ s[Retracement(z)].up # s[z.brokenBy].up
            /\ IF s[Retracement(z)].up THEN s[Retracement(z)].endPrice < z.zd
               ELSE s[Retracement(z)].endPrice > z.zg
            /\ g = SignalAt(s, Retracement(z), 3)
      BY DEF ThirdType
    <2>2. PICK k \in 1..Len(Zones(s)) : z = Zhongshus(s)[k]
      BY <1>1, <2>1, ZhongshuOf DEF ToSet
    <2>3. /\ k \in 1..Len(Zones(t)) /\ z = Zhongshus(t)[k]
          /\ z.first = Zones(s)[k].first /\ z.brokenBy \in 1..Len(s)
      <3>3. ZoneStays(s, t, k)
        BY ZonesStay
      <3>1. /\ k \in 1..Len(Zones(t))
            /\ Zhongshus(s)[k].brokenBy # 0 => Zhongshus(t)[k] = Zhongshus(s)[k]
            /\ Zhongshus(s)[k].first = Zones(s)[k].first /\ Zhongshus(s)[k].brokenBy \in 0..Len(s)
        BY <3>3 DEF ZoneStays
      <3>2. z.brokenBy \in 1..Len(s)
        BY <1>2, <2>1, <2>2, <3>1
      <3> QED
        BY <2>1, <2>2, <3>1, <3>2
    <2>4. Zones(s)[k] \in Zone
      BY <1>1
    <2>5. z.first \in Nat
      BY <2>3, <2>4 DEF Zone
    <2>6. Retracement(z) \in 1..Len(s)
      BY <1>2, <2>1, <2>5 DEF Retracement
    <2>7. z \in ToSet(Zhongshus(t))
      <3>1. k \in DOMAIN Zhongshus(t)
        BY <1>1, <2>3, ZhongshuOf
      <3> QED
        BY <2>3, <3>1 DEF ToSet
    <2>8. /\ t[Retracement(z)] = s[Retracement(z)] /\ t[z.brokenBy] = s[z.brokenBy]
          /\ g = SignalAt(t, Retracement(z), 3) /\ Retracement(z) <= Len(t)
      BY <1>2, <1>3, <2>1, <2>3, <2>6
    <2> QED
      BY <2>1, <2>7, <2>8 DEF ThirdType
  <1> QED
    BY <1>4

\* What a longer chart keeps of a chart, and what besides once |MACD| is settled.
Kept(x, y, settled) ==
  /\ IsPrefix(x.fractals, y.fractals)
  /\ IsPrefix(x.strokes, y.strokes)
  /\ Len(x.zones) <= Len(y.zones)
  /\ \A k \in DOMAIN x.zones :
       y.zones[k] = x.zones[k] \/ x.zones[k] = [y.zones[k] EXCEPT !.brokenBy = 0]
  /\ {g \in x.signals : g.type = 3 \/ settled} \subseteq y.signals

\* The tops and bottoms, and the strokes, of a longer series go on.
LEMMA AnalysedContinues ==
  ASSUME NEW b \in Seq(ChartBar), NEW c \in Seq(ChartBar), Starts(b, c), NEW u, NEW v
  PROVE  /\ Starts(Analysed(b, u).fractals, Analysed(c, v).fractals)
         /\ Starts(Analysed(b, u).strokes, Analysed(c, v).strokes)
  <1> DEFINE m == MergedKlines(b)
             x == MergedKlines(c)
             f == Fractals(m)
             h == Fractals(x)
  <1>1. m \in Seq(MergedBar) /\ Monotone(m) /\ x \in Seq(MergedBar) /\ Monotone(x)
    BY MergedSound
  <1>2. Continues(m, x)
    BY MergedContinues
  <1>3. /\ Analysed(b, u).fractals = f /\ Analysed(b, u).strokes = Strokes(f)
        /\ Analysed(c, v).fractals = h /\ Analysed(c, v).strokes = Strokes(h)
    BY DEF Analysed
  <1> HIDE DEF m, x
  <1>4. Starts(f, h)
    BY <1>1, <1>2, FractalsContinue
  <1>5. f \in Seq(Fractal) /\ MarksSound(f) /\ h \in Seq(Fractal) /\ MarksSound(h)
    BY <1>1, FractalsSound
  <1> HIDE DEF f, h
  <1>6. Starts(Strokes(f), Strokes(h))
    BY <1>4, <1>5, StrokesContinue
  <1> QED
    BY <1>3, <1>4, <1>6

\* The strokes of a series and of a longer one.
LEMMA AnalysedIsRedrawn ==
  ASSUME NEW b \in Seq(ChartBar), NEW c \in Seq(ChartBar), Starts(b, c), NEW u, NEW v
  PROVE  Redrawn(b, Analysed(b, u).strokes, c, Analysed(c, v).strokes)
  <1> DEFINE f == Analysed(b, u).fractals
             s == Analysed(b, u).strokes
             h == Analysed(c, v).fractals
             t == Analysed(c, v).strokes
  <1>1. PartsSound(b, f, s) /\ PartsSound(c, h, t) /\ Starts(s, t)
    BY ChartParts, AnalysedContinues
  <1> HIDE DEF f, s, h, t
  <1>2. /\ s \in Seq(Stroke) /\ StrokesFit(f, s) /\ t \in Seq(Stroke)
        /\ Zones(s) \in Seq(Zone) /\ ZonesFit(s, Zones(s), Len(s)) /\ Zones(t) \in Seq(Zone)
        /\ \A j \in 1..Len(f) : f[j].date \in 1..Len(b)
    BY <1>1 DEF PartsSound
  <1>3. ASSUME NEW i \in 1..Len(s) PROVE s[i].since \in 1..Len(b) /\ s[i].until \in 1..Len(b)
    <2>1. StrokeFits(f, s, i)
      BY <1>2 DEF StrokesFit
    <2>2. /\ s[i].from \in 1..Len(f) /\ s[i].to \in 1..Len(f)
          /\ s[i].since = f[s[i].from].date /\ s[i].until = f[s[i].to].date
      BY <2>1 DEF StrokeFits
    <2> QED
      BY <1>2, <2>2
  <1>4. ASSUME NEW k \in 1..Len(Zones(s)) PROVE Zones(s)[k].first + 2 <= Len(s)
    BY <1>2 DEF ZonesFit
  <1>5. Redrawn(b, s, c, t)
    BY <1>1, <1>2, <1>3, <1>4 DEF Redrawn
  <1> QED
    BY <1>5 DEF s, t

\* A chart is kept when the series goes on.
LEMMA ChartKept ==
  ASSUME NEW b \in Seq(ChartBar), NEW c \in Seq(ChartBar), Starts(b, c), NEW u \in Seq(Nat), NEW v \in Seq(Nat),
         Len(u) = Len(b), NEW settled \in BOOLEAN, settled => Starts(u, v)
  PROVE  Kept(Analysed(b, u), Analysed(c, v), settled)
  <1> DEFINE x == Analysed(b, u)
             y == Analysed(c, v)
             s == x.strokes
             t == y.strokes
  <1>1. Starts(x.fractals, y.fractals) /\ Starts(s, t) /\ Redrawn(b, s, c, t)
    BY AnalysedContinues, AnalysedIsRedrawn
  <1>2. /\ x.fractals \in Seq(Fractal) /\ s \in Seq(Stroke) /\ Zones(s) \in Seq(Zone)
        /\ y.fractals \in Seq(Fractal) /\ t \in Seq(Stroke) /\ Zones(t) \in Seq(Zone)
    BY ChartParts DEF PartsSound
  <1>3. /\ x.zones = Zhongshus(s) /\ x.signals = FirstType(u, s) \cup SecondType(u, s) \cup ThirdType(s)
        /\ y.zones = Zhongshus(t) /\ y.signals = FirstType(v, t) \cup SecondType(v, t) \cup ThirdType(t)
    BY DEF Analysed
  <1> HIDE DEF x, y
  <1>4. IsPrefix(x.fractals, y.fractals)
    BY <1>1, <1>2, StartsIsPrefix
  <1> HIDE DEF s, t
  <1>5. IsPrefix(s, t)
    BY <1>1, <1>2, StartsIsPrefix
  <1>6. Len(x.zones) <= Len(y.zones)
    <2>1. DOMAIN Zhongshus(s) = 1..Len(Zones(s)) /\ DOMAIN Zhongshus(t) = 1..Len(Zones(t))
      BY <1>2, ZhongshuOf
    <2>2. Len(Zones(s)) \in Nat /\ Len(Zones(t)) \in Nat
      BY <1>2
    <2>3. Len(Zhongshus(s)) = Len(Zones(s)) /\ Len(Zhongshus(t)) = Len(Zones(t))
      BY <2>1, <2>2
    <2>4. Starts(Zones(s), Zones(t))
      BY <1>1, <1>2, ZonesContinue
    <2> QED
      BY <1>3, <2>3, <2>4 DEF Starts
  <1>7. ASSUME NEW k \in DOMAIN x.zones
        PROVE  y.zones[k] = x.zones[k] \/ x.zones[k] = [y.zones[k] EXCEPT !.brokenBy = 0]
    <2>1. k \in 1..Len(Zones(s))
      BY <1>2, <1>3, ZhongshuOf
    <2>2. ZoneStays(s, t, k)
      BY <1>1, <2>1, ZonesStay
    <2> QED
      BY <1>3, <2>2 DEF ZoneStays
  <1>8. ASSUME NEW g \in x.signals, g.type = 3 \/ settled PROVE g \in y.signals
    <2>1. CASE g \in ThirdType(s)
      BY <1>1, <1>3, <2>1, ThirdTypeStays
    <2>2. CASE g \in FirstType(u, s) \cup SecondType(u, s)
      <3>1. g.type # 3
        BY <2>2 DEF FirstType, SecondType, SignalAt
      <3>2. Weighed(b, u, v)
        BY <1>8, <3>1 DEF Weighed
      <3> QED
        BY <1>1, <1>3, <2>2, <3>2, DivergencesStay
    <2> QED
      BY <1>3, <2>1, <2>2
  <1>9. Kept(x, y, settled)
    BY <1>4, <1>5, <1>6, <1>7, <1>8 DEF Kept, s, t
  <1> QED
    BY <1>9 DEF x, y

\* A series and one that goes on, by the prefix.
LEMMA PrefixStarts ==
  ASSUME NEW u \in Seq(Nat), NEW v \in Seq(Nat), IsPrefix(u, v)
  PROVE  Starts(u, v)
  <1> DEFINE n == Len(u)
             x == SubSeq(u, 1, n)
             y == SubSeq(v, 1, n)
  <1>1. n \in Nat /\ n <= Len(v) /\ x = y
    BY DEF IsPrefix
  <1>2. \A i \in 1..n : u[i] \in Nat /\ v[i] \in Nat
    BY <1>1
  <1>3. \A i \in 1..n : x[i] = u[1 + i - 1]
    <2> HIDE DEF n
    <2>1. \A i \in 1..n - 1 + 1 : x[i] = u[1 + i - 1]
      BY <1>1, <1>2, SubSeqProperties
    <2> QED
      BY <1>1, <2>1
  <1>4. \A i \in 1..n : y[i] = v[1 + i - 1]
    <2> HIDE DEF n
    <2>1. \A i \in 1..n - 1 + 1 : y[i] = v[1 + i - 1]
      BY <1>1, <1>2, SubSeqProperties
    <2> QED
      BY <1>1, <2>1
  <1> HIDE DEF x, y
  <1>5. \A i \in 1..n : v[i] = u[i]
    <2>1. ASSUME NEW i \in 1..n PROVE v[i] = u[i]
      <3>1. 1 + i - 1 = i
        BY <1>1
      <3> QED
        BY <1>1, <1>3, <1>4, <3>1
    <2> QED
      BY <2>1
  <1> QED
    BY <1>1, <1>5 DEF Starts

\* More bars keep the chart.
LEMMA GrowthKeeps ==
  ASSUME ChartInv, SeriesGrows
  PROVE  Kept(chart, chart', Seeded)
  <1>1. PICK a, m :
          /\ a \in Seq(ChartBar) /\ m \in Seq(Nat)
          /\ Seeded => IsPrefix(macd, m)
          /\ bars' = bars \o a /\ macd' = m /\ chart' = Analysed(bars', macd')
    BY DEF SeriesGrows
  <1>2. /\ bars \in Seq(ChartBar) /\ macd \in Seq(Nat) /\ Len(macd) = Len(bars)
        /\ chart = Analysed(bars, macd)
    BY DEF ChartInv
  <1>3. bars \o a \in Seq(ChartBar) /\ Starts(bars, bars \o a)
    <2>1. /\ bars \o a \in Seq(ChartBar) /\ Len(bars \o a) = Len(bars) + Len(a)
          /\ \A i \in 1..Len(bars) : (bars \o a)[i] = bars[i]
      BY <1>1, <1>2
    <2>2. Len(bars) \in Nat /\ Len(a) \in Nat
      BY <1>1, <1>2
    <2> QED
      BY <2>1, <2>2 DEF Starts
  <1>4. Seeded => Starts(macd, m)
    BY <1>1, <1>2, PrefixStarts
  <1>5. Seeded \in BOOLEAN
    BY DEF Seeded
  <1>6. Kept(Analysed(bars, macd), Analysed(bars \o a, m), Seeded)
    BY <1>1, <1>2, <1>3, <1>4, <1>5, ChartKept
  <1> QED
    BY <1>1, <1>2, <1>6

\* A chart that stays is kept.
LEMMA StillKept ==
  ASSUME ChartInv, UNCHANGED chartVars
  PROVE  Kept(chart, chart', Seeded)
  <1>1. /\ bars \in Seq(ChartBar) /\ macd \in Seq(Nat) /\ Len(macd) = Len(bars)
        /\ chart = Analysed(bars, macd) /\ chart' = Analysed(bars, macd)
    BY DEF ChartInv, chartVars
  <1>2. Starts(bars, bars) /\ Starts(macd, macd)
    BY <1>1 DEF Starts
  <1>3. Seeded \in BOOLEAN
    BY DEF Seeded
  <1>4. Kept(Analysed(bars, macd), Analysed(bars, macd), Seeded)
    BY <1>1, <1>2, <1>3, ChartKept
  <1> QED
    BY <1>1, <1>4

\* What was drawn is not taken back when the series grows, whatever comes: tops,
\* bottoms, strokes, zones and signals of the third type over any series, and the
\* signals of divergence once the series has the bars the averages of |MACD| are
\* seeded with.  Before, whatever |MACD| turns into, only they may go
\* (analyze_chanlun_daily, calc_daily_macd).
THEOREM ChartNotRepainted == ChartSpec => NothingRepainted
  <1>1. ChartInv /\ [SeriesGrows]_chartVars => Kept(chart, chart', Seeded)
    BY GrowthKeeps, StillKept
  <1>2. ChartInv /\ [SeriesGrows]_chartVars =>
          [/\ IsPrefix(chart.fractals, chart'.fractals)
           /\ IsPrefix(chart.strokes, chart'.strokes)
           /\ Len(chart.zones) <= Len(chart'.zones)
           /\ \A k \in DOMAIN chart.zones :
                \/ chart'.zones[k] = chart.zones[k]
                \/ chart.zones[k] = [chart'.zones[k] EXCEPT !.brokenBy = 0]
           /\ {g \in chart.signals : g.type = 3 \/ Seeded} \subseteq chart'.signals]_chartVars
    BY <1>1 DEF Kept
  <1> QED
    BY ChartInvariant, <1>2, PTL DEF ChartSpec, NothingRepainted
=============================================================================
