----------------------------- MODULE FoldProofs -----------------------------
(***************************************************************************)
(* What a fold computes, without an induction theorem: a function that     *)
(* folds exists for every length, since of the lengths without one none is *)
(* the smallest, and so a loop can be followed place by place. The proofs  *)
(* of modules that fold cite these lemmas.                                 *)
(***************************************************************************)
EXTENDS Naturals, Sequences, NaturalsInduction, WellFoundedInduction, TLAPS

-----------------------------------------------------------------------------
\* Folds of sequences.

\* A set of naturals has a smallest element, which stands for induction below.
LEMMA SmallestOf ==
  ASSUME NEW T \in SUBSET Nat, T # {}
  PROVE  \E x \in T : \A y \in T : x <= y
  <1>1. PICK x \in T : \A y \in T : ~(<<y, x>> \in OpToRel(<, Nat))
    BY NatLessThanWellFounded, WFMin
  <1>2. ASSUME NEW y \in T PROVE x <= y
    <2>1. x \in Nat /\ y \in Nat /\ ~(y < x)
      BY <1>1 DEF OpToRel
    <2> QED
      BY <2>1
  <1> QED
    BY <1>2

\* The last of a set of indices, which FoldLeft takes off first.
LastOf(s) == CHOOSE x \in s : \A y \in s : x >= y

\* g[s] is the fold of the elements at indices s, H one step of it.
Folds(g, n, A, base, H) ==
  /\ g \in [SUBSET (1..n) -> A]
  /\ \A s \in SUBSET (1..n) : g[s] = IF s = {} THEN base ELSE H[<<s, g[s \ {LastOf(s)}]>>]

\* A function that folds a sequence exists for every length: of the lengths
\* without one none is the smallest.
LEMMA FoldExists ==
  ASSUME NEW n \in Nat, NEW A, NEW base \in A, NEW H \in [(SUBSET (1..n)) \X A -> A]
  PROVE  \E g : Folds(g, n, A, base, H)
  <1> DEFINE Bad == {m \in 0..n : \A g : ~Folds(g, m, A, base, H)}
  <1>1. ASSUME Bad # {} PROVE FALSE
    <2>0. Bad \in SUBSET Nat
      OBVIOUS
    <2>1. PICK m \in Bad : \A k \in Bad : m <= k
      <3> HIDE DEF Bad
      <3> QED
        BY <1>1, <2>0, SmallestOf
    <2>2. m # 0
      <3> SUFFICES ASSUME m = 0 PROVE \E g : Folds(g, m, A, base, H)
        BY <2>1
      <3> DEFINE none == [s \in SUBSET (1..0) |-> base]
      <3>1. 1..0 = {}
        OBVIOUS
      <3>2. Folds(none, 0, A, base, H)
        BY <3>1 DEF Folds
      <3> QED
        BY <3>2
    <2>3. m - 1 \in 0..n /\ m \in 1..n
      BY <2>1, <2>2
    <2>4. PICK g : Folds(g, m - 1, A, base, H)
      BY <2>1, <2>3
    <2> DEFINE g2 == [s \in SUBSET (1..m) |-> IF m \in s THEN H[<<s, g[s \ {m}]>>] ELSE g[s]]
    <2>5. ASSUME NEW s \in SUBSET (1..m)
          PROVE  /\ m \in s => LastOf(s) = m /\ s \ {m} \in SUBSET (1..(m - 1)) /\ s # {}
                 /\ m \notin s => s \in SUBSET (1..(m - 1))
                 /\ s \in SUBSET (1..n)
      <3>1. ASSUME m \in s PROVE LastOf(s) = m
        <4>1. \A x \in s : m >= x /\ (x >= m => x = m)
          BY <2>3
        <4> QED
          BY <3>1, <4>1 DEF LastOf
      <3>2. \A x \in s : x # m => x \in 1..(m - 1)
        BY <2>3
      <3> QED
        BY <3>1, <3>2, <2>3
    <2>6. g2 \in [SUBSET (1..m) -> A]
      <3> SUFFICES ASSUME NEW s \in SUBSET (1..m) PROVE g2[s] \in A
        OBVIOUS
      <3>1. CASE m \in s
        <4>1. g[s \ {m}] \in A
          BY <3>1, <2>5, <2>4 DEF Folds
        <4> QED
          BY <4>1, <3>1, <2>5
      <3>2. CASE m \notin s
        BY <3>2, <2>5, <2>4 DEF Folds
      <3> QED
        BY <3>1, <3>2
    <2>7. ASSUME NEW s \in SUBSET (1..m)
          PROVE  g2[s] = IF s = {} THEN base ELSE H[<<s, g2[s \ {LastOf(s)}]>>]
      <3>1. CASE m \in s
        <4>1. LastOf(s) = m /\ s # {} /\ s \ {m} \in SUBSET (1..m) /\ m \notin s \ {m}
          BY <3>1, <2>5
        <4> QED
          BY <4>1, <3>1
      <3>2. CASE m \notin s
        <4>1. g2[s] = g[s] /\ g[s] = IF s = {} THEN base ELSE H[<<s, g[s \ {LastOf(s)}]>>]
          BY <3>2, <2>4, <2>5 DEF Folds
        <4>2. s \ {LastOf(s)} \in SUBSET (1..m) /\ m \notin s \ {LastOf(s)}
          BY <3>2
        <4>3. g2[s \ {LastOf(s)}] = g[s \ {LastOf(s)}]
          BY <4>2
        <4> QED
          BY <4>1, <4>3
      <3> QED
        BY <3>1, <3>2
    <2>8. Folds(g2, m, A, base, H)
      BY <2>6, <2>7 DEF Folds
    <2> QED
      BY <2>1, <2>8
  <1>2. n \in 0..n /\ n \notin Bad
    BY <1>1
  <1> QED
    BY <1>2

\* The last element is one of the set.
LEMMA LastIn ==
  ASSUME NEW n \in Nat, NEW s \in SUBSET (1..n), s # {}
  PROVE  LastOf(s) \in s /\ LastOf(s) \in 1..n
  <1> DEFINE T == {n - i : i \in s}
  <1>1. T \in SUBSET Nat /\ T # {}
    <2>1. \A i \in s : n - i \in Nat
      OBVIOUS
    <2>2. PICK i \in s : TRUE
      OBVIOUS
    <2> QED
      BY <2>1, <2>2
  <1>2. PICK x \in s : \A y \in s : y <= x
    <2>1. PICK t \in T : \A u \in T : t <= u
      <3> HIDE DEF T
      <3> QED
        BY <1>1, SmallestOf
    <2>2. PICK x \in s : t = n - x
      BY <2>1
    <2>3. ASSUME NEW y \in s PROVE y <= x
      <3>1. n - y \in T /\ x \in Int /\ y \in Int
        OBVIOUS
      <3> QED
        BY <2>1, <2>2, <3>1
    <2> QED
      BY <2>3
  <1>3. \A y \in s : x >= y
    BY <1>2
  <1> QED
    BY <1>3 DEF LastOf

\* FoldLeft takes the indices from the last one down.
LEMMA LastOfRange ==
  ASSUME NEW k \in Nat \ {0}
  PROVE  LastOf(1..k) = k /\ (1..k) \ {k} = 1..(k - 1) /\ 1..k # {}
  <1>1. k \in 1..k /\ \A x \in 1..k : k >= x
    OBVIOUS
  <1>2. LastOf(1..k) = k
    BY <1>1 DEF LastOf
  <1> QED
    BY <1>1, <1>2

\* So the fold of a sequence is that of one element less, and one step.
LEMMA FoldSteps ==
  ASSUME NEW n \in Nat, NEW A, NEW base, NEW H, NEW g, Folds(g, n, A, base, H)
  PROVE  /\ \A k \in 0..n : g[1..k] \in A
         /\ g[1..0] = base
         /\ \A k \in 1..n : g[1..k] = H[<<1..k, g[1..(k - 1)]>>]
  <1>1. \A k \in 0..n : 1..k \in SUBSET (1..n)
    OBVIOUS
  <1>2. 1..0 = {}
    OBVIOUS
  <1>4. \A k \in 0..n : g[1..k] \in A
    BY <1>1 DEF Folds
  <1>5. g[1..0] = base
    <2>1. {} \in SUBSET (1..n)
      OBVIOUS
    <2> QED
      BY <2>1, <1>2 DEF Folds
  <1>6. ASSUME NEW k \in 1..n PROVE g[1..k] = H[<<1..k, g[1..(k - 1)]>>]
    <2>0. k \in Nat \ {0}
      OBVIOUS
    <2>1. LastOf(1..k) = k /\ (1..k) \ {k} = 1..(k - 1) /\ 1..k # {}
      BY <2>0, LastOfRange
    <2>3. 1..k \in SUBSET (1..n)
      OBVIOUS
    <2>2. g[1..k] = H[<<1..k, g[(1..k) \ {LastOf(1..k)}]>>]
      BY <2>1, <2>3 DEF Folds
    <2> QED
      BY <2>1, <2>2
  <1> QED
    BY <1>4, <1>5, <1>6

\* Two functions that start alike and go on alike.
Alike(f, g, n) == f[0] = g[0] /\ \A k \in 1..n : f[k - 1] = g[k - 1] => f[k] = g[k]

\* Functions that start and go on alike end alike.
LEMMA SameSteps ==
  ASSUME NEW n \in Nat, NEW f, NEW g, Alike(f, g, n)
  PROVE  f[n] = g[n]
  <1> DEFINE Bad == {k \in 0..n : f[k] # g[k]}
  <1>1. ASSUME Bad # {} PROVE FALSE
    <2>0. Bad \in SUBSET Nat
      OBVIOUS
    <2>1. PICK k \in Bad : \A j \in Bad : k <= j
      <3> HIDE DEF Bad
      <3> QED
        BY <1>1, <2>0, SmallestOf
    <2>2. k # 0 /\ k - 1 \in 0..n /\ k \in 1..n /\ k - 1 \notin Bad
      BY <2>1 DEF Alike
    <2> QED
      BY <2>1, <2>2 DEF Alike
  <1>2. n \in 0..n /\ n \notin Bad
    BY <1>1
  <1> QED
    BY <1>2

\* What holds at 0 and goes on from place to place holds everywhere.
LEMMA StepByStep ==
  ASSUME NEW n \in Nat, NEW P, 0 \in P, \A k \in 1..n : k - 1 \in P => k \in P
  PROVE  \A k \in 0..n : k \in P
  <1> DEFINE Bad == {k \in 0..n : k \notin P}
  <1>1. ASSUME Bad # {} PROVE FALSE
    <2>1. PICK k \in Bad : \A j \in Bad : k <= j
      <3>1. Bad \in SUBSET Nat
        OBVIOUS
      <3> HIDE DEF Bad
      <3> QED
        BY <1>1, <3>1, SmallestOf
    <2>2. k # 0 /\ k \in 0..n /\ k \notin P
      BY <2>1
    <2>3. k \in 1..n /\ k - 1 \in 0..n /\ ~(k <= k - 1)
      BY <2>2
    <2> QED
      BY <2>1, <2>2, <2>3
  <1> QED
    BY <1>1

-----------------------------------------------------------------------------
\* Loops over the places of a set, in order.

\* A loop over the places T of 1..n, which starts with base and goes on with G.
Loop(n, T, A, base, G) ==
  n \in Nat /\ T \in SUBSET (1..n) /\ base \in A /\ G \in [T \X A -> A]

\* A function of the sets of places that goes on with G.
Follower(g, T, A, base, G) ==
  /\ g \in [SUBSET T -> A]
  /\ \A s \in SUBSET T : g[s] = IF s = {} THEN base ELSE G[<<LastOf(s), g[s \ {LastOf(s)}]>>]

\* A function of the sets of places that starts with base and goes on with G.
Follows(it, T, base, A, G) ==
  /\ it[{}] = base
  /\ \A s \in SUBSET T : s # {} => \A x \in A : it[s \ {LastOf(s)}] = x => it[s] = G[<<LastOf(s), x>>]

\* What a loop has come to behind each place.
Walked(F, n, T, base, A, G) ==
  /\ F \in [0..n -> A]
  /\ F[0] = base
  /\ \A k \in 1..n : F[k] = IF k \in T THEN G[<<k, F[k - 1]>>] ELSE F[k - 1]

\* A function that goes along a set of places exists.
LEMMA FollowerExists ==
  ASSUME NEW n, NEW T, NEW A, NEW base, NEW G, Loop(n, T, A, base, G)
  PROVE  \E g : Follower(g, T, A, base, G)
  <1>0. n \in Nat /\ T \in SUBSET (1..n) /\ base \in A /\ G \in [T \X A -> A]
    BY DEF Loop
  <1> DEFINE H == [p \in (SUBSET (1..n)) \X A |->
                     IF LastOf(p[1]) \in T THEN G[<<LastOf(p[1]), p[2]>>] ELSE base]
  <1>1. H \in [(SUBSET (1..n)) \X A -> A]
    <2>1. ASSUME NEW s \in SUBSET (1..n), NEW a \in A, LastOf(s) \in T PROVE G[<<LastOf(s), a>>] \in A
      BY <1>0, <2>1
    <2> QED
      BY <1>0, <2>1
  <1>2. PICK g : Folds(g, n, A, base, H)
    <2> HIDE DEF H
    <2> QED
      BY <1>0, <1>1, FoldExists
  <1> DEFINE g2 == [s \in SUBSET T |-> g[s]]
  <1>3. g2 \in [SUBSET T -> A]
    BY <1>0, <1>2 DEF Folds
  <1>4. ASSUME NEW s \in SUBSET T
        PROVE  g2[s] = IF s = {} THEN base ELSE G[<<LastOf(s), g2[s \ {LastOf(s)}]>>]
    <2>1. s \in SUBSET (1..n) /\ s \ {LastOf(s)} \in SUBSET T /\ s \ {LastOf(s)} \in SUBSET (1..n)
      BY <1>0
    <2>2. CASE s = {}
      BY <2>1, <2>2, <1>2 DEF Folds
    <2>3. CASE s # {}
      <3>1. LastOf(s) \in T
        BY <1>0, <2>1, <2>3, LastIn
      <3>2. g[s] = H[<<s, g[s \ {LastOf(s)}]>>] /\ g[s \ {LastOf(s)}] \in A
        <4> HIDE DEF H
        <4> QED
          BY <2>1, <2>3, <1>2 DEF Folds
      <3>3. H[<<s, g[s \ {LastOf(s)}]>>] = G[<<LastOf(s), g[s \ {LastOf(s)}]>>]
        BY <3>1, <3>2, <2>1
      <3> HIDE DEF H
      <3> QED
        BY <2>1, <2>3, <3>2, <3>3
    <2> QED
      BY <2>2, <2>3
  <1> HIDE DEF g2
  <1> QED
    BY <1>3, <1>4 DEF Follower

\* The places up to k, and the last of them.
LEMMA LastOfPart ==
  ASSUME NEW n \in Nat, NEW T \in SUBSET (1..n), NEW k \in 1..n
  PROVE  /\ k \in T => /\ LastOf(T \cap (1..k)) = k
                       /\ (T \cap (1..k)) \ {k} = T \cap (1..(k - 1))
                       /\ T \cap (1..k) # {}
         /\ k \notin T => T \cap (1..k) = T \cap (1..(k - 1))
  <1>1. ASSUME k \in T PROVE LastOf(T \cap (1..k)) = k /\ T \cap (1..k) # {}
    <2>1. k \in T \cap (1..k) /\ \A x \in T \cap (1..k) : k >= x /\ (x >= k => x = k)
      BY <1>1
    <2> QED
      BY <2>1 DEF LastOf
  <1>2. \A x \in 1..n : x \in 1..(k - 1) <=> x \in 1..k /\ x # k
    OBVIOUS
  <1> QED
    BY <1>1, <1>2

\* So a loop over a set of places can be followed place by place.
LEMMA FollowedSteps ==
  ASSUME NEW n, NEW T, NEW A, NEW base, NEW G, Loop(n, T, A, base, G),
         NEW it, Follows(it, T, base, A, G)
  PROVE  \E F : Walked(F, n, T, base, A, G) /\ F[n] = it[T]
  <1>0. n \in Nat /\ T \in SUBSET (1..n) /\ base \in A /\ G \in [T \X A -> A]
    BY DEF Loop
  <1> DEFINE at(k) == it[T \cap (1..k)]
             Bad == {k \in 0..n : at(k) \notin A}
  <1>1. at(0) = base
    <2>1. T \cap (1..0) = {}
      OBVIOUS
    <2> QED
      BY <2>1 DEF Follows
  <1>2. ASSUME NEW k \in 1..n, at(k - 1) \in A
        PROVE  at(k) = IF k \in T THEN G[<<k, at(k - 1)>>] ELSE at(k - 1)
    <2>1. CASE k \in T
      <3>1. LastOf(T \cap (1..k)) = k /\ (T \cap (1..k)) \ {k} = T \cap (1..(k - 1)) /\ T \cap (1..k) # {}
        BY <1>0, <2>1, LastOfPart
      <3>2. T \cap (1..k) \in SUBSET T
        OBVIOUS
      <3> QED
        BY <1>2, <2>1, <3>1, <3>2 DEF Follows
    <2>2. CASE k \notin T
      <3>1. T \cap (1..k) = T \cap (1..(k - 1))
        BY <1>0, <2>2, LastOfPart
      <3> QED
        BY <2>2, <3>1
    <2> QED
      BY <2>1, <2>2
  <1>3. Bad = {}
    <2> SUFFICES ASSUME Bad # {} PROVE FALSE
      OBVIOUS
    <2>1. PICK k \in Bad : \A j \in Bad : k <= j
      <3>1. Bad \in SUBSET Nat
        BY <1>0
      <3> HIDE DEF Bad
      <3> QED
        BY <3>1, SmallestOf
    <2>2. k # 0
      BY <1>0, <2>1, <1>1
    <2>3. k \in 1..n /\ k - 1 \in 0..n /\ ~(k <= k - 1)
      BY <1>0, <2>1, <2>2
    <2>4. at(k - 1) \in A
      BY <2>1, <2>3
    <2>5. at(k) \in A
      <3> HIDE DEF at
      <3>1. k \in T => G[<<k, at(k - 1)>>] \in A
        BY <1>0, <2>4
      <3> QED
        BY <1>2, <2>3, <2>4, <3>1
    <2> QED
      BY <2>1, <2>5
  <1> DEFINE F == [k \in 0..n |-> at(k)]
  <1>4. Walked(F, n, T, base, A, G)
    <2>1. \A k \in 0..n : F[k] = at(k) /\ at(k) \in A
      BY <1>0, <1>3
    <2> HIDE DEF at
    <2>2. F \in [0..n -> A]
      BY <2>1
    <2> HIDE DEF F
    <2>3. F[0] = base
      BY <1>0, <1>1, <2>1
    <2>4. ASSUME NEW k \in 1..n PROVE F[k] = IF k \in T THEN G[<<k, F[k - 1]>>] ELSE F[k - 1]
      <3>1. k - 1 \in 0..n /\ k \in 0..n
        BY <1>0
      <3> QED
        BY <1>2, <2>1, <3>1
    <2> QED
      BY <2>2, <2>3, <2>4 DEF Walked
  <1>5. F[n] = it[T]
    <2>1. T \cap (1..n) = T
      BY <1>0
    <2>2. n \in 0..n
      BY <1>0
    <2> QED
      BY <2>1, <2>2
  <1> HIDE DEF F
  <1> QED
    BY <1>4, <1>5
=============================================================================
