------------------------- MODULE ModelStreamProofs --------------------------
(***************************************************************************)
(* Proofs about one streamed round of the model, for any replies, limits   *)
(* and fragments.                                                          *)
(*                                                                         *)
(* Filtered and Public are recursive functions over texts.  That each does *)
(* what its definition says rests on Solution: a step that asks for what   *)
(* measures less has a fixed point.  RoundIsWhole compares the two on the  *)
(* text passed on so far, which is not inductive: what is kept back counts *)
(* too, and so does what may still come.  FilterAgrees says of every text  *)
(* that may follow that filter and Public agree on it, and RoundOrdered    *)
(* that nothing is passed on before the commit and nothing restarts after  *)
(* it.                                                                     *)
(***************************************************************************)
EXTENDS ModelStream, NaturalsInduction, WellFoundedInduction, SequenceTheorems, TLAPS

-----------------------------------------------------------------------------
\* Recursive definitions.

\* A set of naturals has a smallest element, which stands for induction below.
LEMMA SmallestOf ==
  ASSUME NEW T \in SUBSET Nat, T # {}
  PROVE  \E x \in T : \A y \in T : x <= y
  <1>1. PICK x \in T : \A y \in T : ~(<<y, x>> \in OpToRel(<, Nat))
    BY NatLessThanWellFounded, WFMin
  <1>2. ASSUME NEW y \in T PROVE x <= y
    <2>1. x \in Nat /\ y \in Nat /\ ~(y < x)
      BY <1>1 DEF OpToRel
    <2> QED
      BY <2>1
  <1> QED
    BY <1>2

\* What a recursive definition over D comes to: a step G whose value at x looks
\* only at what measures less, has a fixed point.
LocalIn(G, D, T, m) ==
  \A u, v \in [D -> T] : \A x \in D :
    (\A y \in D : m[y] < m[x] => u[y] = v[y]) => G[u][x] = G[v][x]

\* g does what G says up to measure n.
SolvesBelow(g, n, G, D, T, m) ==
  g \in [D -> T] /\ \A x \in D : m[x] < n => g[x] = G[g][x]

\* Any two such functions agree.
Agreed(G, D, T, m) ==
  \A n, k \in Nat : \A g, h :
    SolvesBelow(g, n, G, D, T, m) /\ SolvesBelow(h, k, G, D, T, m) =>
      \A x \in D : m[x] < n /\ m[x] < k => g[x] = h[x]

\* Two solutions, each up to some measure, agree where both are: of the measures
\* where they differ none is the smallest.
LEMMA SolutionsAgree ==
  ASSUME NEW D, NEW T, NEW m \in [D -> Nat], NEW G \in [[D -> T] -> [D -> T]], LocalIn(G, D, T, m)
  PROVE  Agreed(G, D, T, m)
  <1> SUFFICES ASSUME NEW n \in Nat, NEW k \in Nat, NEW g, NEW h,
                      SolvesBelow(g, n, G, D, T, m), SolvesBelow(h, k, G, D, T, m)
               PROVE  \A x \in D : m[x] < n /\ m[x] < k => g[x] = h[x]
    BY DEF Agreed
  <1> DEFINE Bad == {i \in Nat : \E y \in D : m[y] = i /\ i < n /\ i < k /\ g[y] # h[y]}
  <1>1. ASSUME Bad # {} PROVE FALSE
    <2>0. Bad \in SUBSET Nat
      OBVIOUS
    <2>1. PICK i \in Bad : \A j \in Bad : i <= j
      <3> HIDE DEF Bad
      <3> QED
        BY <1>1, <2>0, SmallestOf
    <2>2. PICK y \in D : m[y] = i /\ i < n /\ i < k /\ g[y] # h[y]
      BY <2>1
    <2>3. ASSUME NEW z \in D, m[z] < m[y] PROVE g[z] = h[z]
      <3>1. m[z] \in Nat /\ m[z] < i /\ m[z] < n /\ m[z] < k
        BY <2>2, <2>3
      <3>2. m[z] \notin Bad
        BY <3>1, <2>1
      <3> QED
        BY <3>1, <3>2
    <2>4. G[g][y] = G[h][y]
      BY <2>3 DEF LocalIn, SolvesBelow
    <2>5. g[y] = G[g][y] /\ h[y] = G[h][y]
      BY <2>2 DEF SolvesBelow
    <2> QED
      BY <2>2, <2>4, <2>5
  <1>2. ASSUME NEW x \in D, m[x] < n, m[x] < k PROVE g[x] = h[x]
    <2>1. m[x] \in Nat /\ m[x] \notin Bad
      BY <1>1
    <2> QED
      BY <2>1, <1>2
  <1> QED
    BY <1>2

\* There is a solution up to any measure: of those without one none is the smallest.
LEMMA SolutionBelow ==
  ASSUME NEW D, NEW T, NEW m \in [D -> Nat], NEW G \in [[D -> T] -> [D -> T]], LocalIn(G, D, T, m),
         NEW t \in T, NEW n \in Nat
  PROVE  \E g : SolvesBelow(g, n, G, D, T, m)
  <1> DEFINE Bad == {i \in Nat : ~\E g : SolvesBelow(g, i, G, D, T, m)}
  <1>1. ASSUME Bad # {} PROVE FALSE
    <2>0. Bad \in SUBSET Nat
      OBVIOUS
    <2>1. PICK i \in Bad : \A j \in Bad : i <= j
      <3> HIDE DEF Bad
      <3> QED
        BY <1>1, <2>0, SmallestOf
    <2>2. i # 0
      <3> DEFINE c == [x \in D |-> t]
      <3>1. SolvesBelow(c, 0, G, D, T, m)
        BY DEF SolvesBelow
      <3> QED
        BY <3>1, <2>1
    <2>3. i - 1 \in Nat /\ i - 1 \notin Bad
      <3>1. i \in Nat
        BY <2>1
      <3> HIDE DEF Bad
      <3> QED
        BY <2>1, <2>2, <3>1
    <2>4. PICK g : SolvesBelow(g, i - 1, G, D, T, m)
      BY <2>3
    <2> DEFINE h == G[g]
    <2>5. g \in [D -> T] /\ h \in [D -> T]
      BY <2>4 DEF SolvesBelow
    <2>6. ASSUME NEW x \in D, m[x] < i PROVE h[x] = G[h][x]
      <3>1. ASSUME NEW y \in D, m[y] < m[x] PROVE g[y] = h[y]
        <4>1. m[y] < i - 1
          BY <3>1, <2>6
        <4> QED
          BY <4>1, <2>4 DEF SolvesBelow
      <3> HIDE DEF h
      <3>2. G[g][x] = G[h][x]
        BY <3>1, <2>5 DEF LocalIn
      <3> QED
        BY <3>2 DEF h
    <2>7. SolvesBelow(h, i, G, D, T, m)
      <3> HIDE DEF h
      <3> QED
        BY <2>5, <2>6 DEF SolvesBelow
    <2> QED
      BY <2>1, <2>7
  <1>2. n \notin Bad
    BY <1>1
  <1> QED
    BY <1>2

\* g does what G says everywhere.
Fixed(g, G, D, T) == g \in [D -> T] /\ g = G[g]

\* So there is a fixed point: at each argument the solution up to its measure.
LEMMA Solution ==
  ASSUME NEW D, NEW T, NEW m \in [D -> Nat], NEW G \in [[D -> T] -> [D -> T]], LocalIn(G, D, T, m),
         NEW t \in T
  PROVE  \E g : Fixed(g, G, D, T)
  <1> DEFINE s(n) == CHOOSE g : SolvesBelow(g, n, G, D, T, m)
             g == [x \in D |-> s(m[x] + 1)[x]]
  <1>0. Agreed(G, D, T, m)
    BY SolutionsAgree
  <1>1. \A n \in Nat : SolvesBelow(s(n), n, G, D, T, m)
    BY SolutionBelow
  <1>2. g \in [D -> T]
    <2>1. ASSUME NEW x \in D PROVE s(m[x] + 1)[x] \in T
      <3>1. SolvesBelow(s(m[x] + 1), m[x] + 1, G, D, T, m)
        BY <1>1
      <3> QED
        BY <3>1 DEF SolvesBelow
    <2> QED
      BY <2>1
  <1>3. \A x \in D : g[x] = s(m[x] + 1)[x]
    OBVIOUS
  <1> HIDE DEF g, s
  <1>4. ASSUME NEW x \in D PROVE g[x] = G[g][x]
    <2> DEFINE n == m[x] + 1
    <2>1. n \in Nat /\ m[x] < n /\ SolvesBelow(s(n), n, G, D, T, m)
      BY <1>1
    <2>2. ASSUME NEW y \in D, m[y] < m[x] PROVE s(n)[y] = g[y]
      <3> DEFINE k == m[y] + 1
      <3>1. k \in Nat /\ m[y] < k /\ m[y] < n /\ SolvesBelow(s(k), k, G, D, T, m)
        BY <2>2, <1>1
      <3>2. g[y] = s(k)[y]
        BY <1>3
      <3>3. s(n)[y] = s(k)[y]
        BY <1>0, <3>1, <2>1 DEF Agreed
      <3> QED
        BY <3>2, <3>3
    <2>3. g[x] = s(n)[x] /\ s(n)[x] = G[s(n)][x]
      BY <1>3, <2>1 DEF SolvesBelow
    <2> HIDE DEF n
    <2>4. s(n) \in [D -> T]
      BY <2>1 DEF SolvesBelow
    <2>5. G[s(n)][x] = G[g][x]
      BY <2>2, <2>4, <1>2 DEF LocalIn
    <2> QED
      BY <2>3, <2>5
  <1>5. G[g] \in [D -> T]
    BY <1>2
  <1>6. g = G[g]
    BY <1>2, <1>4, <1>5
  <1> QED
    BY <1>2, <1>6 DEF Fixed

-----------------------------------------------------------------------------
\* Where a marker of three symbols is found in a text.

\* Marker m is at place i of t.
At(t, m, i) == i \in 1..(Len(t) - 2) /\ t[i] = m[1] /\ t[i + 1] = m[2] /\ t[i + 2] = m[3]

\* Sequences with the same elements are the same.
LEMMA SameSeq ==
  ASSUME NEW X, NEW Y, NEW s \in Seq(X), NEW t \in Seq(Y), Len(s) = Len(t),
         \A i \in 1..Len(s) : s[i] = t[i]
  PROVE  s = t
  <1>1. s \in Seq(X \cup Y) /\ t \in Seq(X \cup Y)
    OBVIOUS
  <1> QED
    BY <1>1

\* What SubSeq returns.
LEMMA Slice ==
  ASSUME NEW X, NEW t \in Seq(X), NEW i \in Nat, NEW k \in Nat, i >= 1, k <= Len(t), i <= k + 1
  PROVE  /\ SubSeq(t, i, k) \in Seq(X) /\ Len(SubSeq(t, i, k)) = k + 1 - i
         /\ \A j \in 1..(k + 1 - i) : SubSeq(t, i, k)[j] = t[i + j - 1]
  OBVIOUS

\* What is in a text made of two.
LEMMA Concat ==
  ASSUME NEW X, NEW s \in Seq(X), NEW t \in Seq(X)
  PROVE  /\ s \o t \in Seq(X) /\ Len(s \o t) = Len(s) + Len(t)
         /\ \A i \in 1..Len(s) : (s \o t)[i] = s[i]
         /\ \A i \in 1..Len(t) : (s \o t)[Len(s) + i] = t[i]
  OBVIOUS

\* Places finds a marker where its three symbols are.
LEMMA PlacesAre ==
  ASSUME NEW X, NEW Y, NEW t \in Seq(X), NEW m \in Seq(Y), Len(m) = 3
  PROVE  Places(t, m) = {i \in 1..(Len(t) - 2) : At(t, m, i)}
  <1>1. ASSUME NEW i \in 1..(Len(t) - 2)
        PROVE  SubSeq(t, i, i + 2) = m <=> At(t, m, i)
    <2> DEFINE q == SubSeq(t, i, i + 2)
    <2>1. i \in Nat /\ i + 2 \in Nat /\ i >= 1 /\ i + 2 <= Len(t) /\ i <= i + 2 + 1
      OBVIOUS
    <2>2. q \in Seq(X) /\ Len(q) = 3
      BY <2>1, Slice
    <2>3. q[1] = t[i] /\ q[2] = t[i + 1] /\ q[3] = t[i + 2]
      BY <2>1, Slice
    <2> HIDE DEF q
    <2>4. q = m => At(t, m, i)
      BY <2>3 DEF At
    <2>5. ASSUME At(t, m, i) PROVE q = m
      <3>1. \A j \in 1..3 : q[j] = m[j]
        BY <2>3, <2>5 DEF At
      <3> QED
        BY <3>1, <2>2, SameSeq
    <2> QED
      BY <2>4, <2>5 DEF q
  <1>2. Len(t) + 1 - Len(m) = Len(t) - 2 /\ \A i \in Int : i + Len(m) - 1 = i + 2
    OBVIOUS
  <1>3. Places(t, m) = {i \in 1..(Len(t) - 2) : SubSeq(t, i, i + 2) = m}
    <2>1. Places(t, m) = {i \in 1..(Len(t) - 2) : SubSeq(t, i, i + Len(m) - 1) = m}
      BY <1>2 DEF Places
    <2>2. \A i \in 1..(Len(t) - 2) : i + Len(m) - 1 = i + 2
      BY <1>2
    <2> QED
      BY <2>1, <2>2
  <1> QED
    BY <1>1, <1>3

\* Min of a set of naturals.
LEMMA MinOf ==
  ASSUME NEW T \in SUBSET Nat, T # {}
  PROVE  Min(T) \in T /\ \A y \in T : Min(T) <= y
  BY SmallestOf DEF Min

\* The first marker of t is at i, and Before and After cut there.
CutAt(X, t, m, i) ==
  /\ i \in 1..(Len(t) - 2) /\ At(t, m, i)
  /\ \A k \in 1..(Len(t) - 2) : At(t, m, k) => i <= k
  /\ Before(t, m) = SubSeq(t, 1, i - 1) /\ Before(t, m) \in Seq(X) /\ Len(Before(t, m)) = i - 1
  /\ After(t, m) = SubSeq(t, i + 3, Len(t)) /\ After(t, m) \in Seq(X)
  /\ Len(After(t, m)) = Len(t) - i - 2

\* Before and After cut a text at the first marker in it.
LEMMA FirstPlace ==
  ASSUME NEW X, NEW Y, NEW t \in Seq(X), NEW m \in Seq(Y), Len(m) = 3, Places(t, m) # {}
  PROVE  CutAt(X, t, m, Min(Places(t, m)))
  <1> DEFINE i == Min(Places(t, m))
  <1>1. Places(t, m) = {k \in 1..(Len(t) - 2) : At(t, m, k)}
    BY PlacesAre
  <1>2. Places(t, m) \in SUBSET Nat
    BY <1>1
  <1>3. i \in Places(t, m) /\ \A k \in Places(t, m) : i <= k
    BY <1>2, MinOf
  <1>4. i \in 1..(Len(t) - 2) /\ At(t, m, i) /\ \A k \in 1..(Len(t) - 2) : At(t, m, k) => i <= k
    BY <1>1, <1>3
  <1>5. Before(t, m) = SubSeq(t, 1, i - 1) /\ After(t, m) = SubSeq(t, i + 3, Len(t))
    BY DEF Before, After
  <1> HIDE DEF i
  <1>6. i - 1 \in Nat /\ 1 \in Nat /\ 1 >= 1 /\ i - 1 <= Len(t) /\ 1 <= i - 1 + 1
        /\ i + 3 \in Nat /\ Len(t) \in Nat /\ i + 3 >= 1 /\ i + 3 <= Len(t) + 1
    BY <1>4
  <1>7. SubSeq(t, 1, i - 1) \in Seq(X) /\ Len(SubSeq(t, 1, i - 1)) = i - 1
    BY <1>6, Slice
  <1>8. SubSeq(t, i + 3, Len(t)) \in Seq(X) /\ Len(SubSeq(t, i + 3, Len(t))) = Len(t) - i - 2
    <2>1. SubSeq(t, i + 3, Len(t)) \in Seq(X) /\ Len(SubSeq(t, i + 3, Len(t))) = Len(t) + 1 - (i + 3)
      BY <1>6, Slice
    <2> QED
      BY <2>1, <1>6, <1>4
  <1> QED
    BY <1>4, <1>5, <1>7, <1>8 DEF i, CutAt

\* What comes later does not change where the first marker is.
LEMMA GoesOn ==
  ASSUME NEW X, NEW Y, NEW t \in Seq(X), NEW u \in Seq(X), NEW m \in Seq(Y), Len(m) = 3,
         Places(t, m) # {}
  PROVE  /\ Places(t \o u, m) # {}
         /\ Before(t \o u, m) = Before(t, m)
         /\ After(t \o u, m) = After(t, m) \o u
  <1> DEFINE w == t \o u
             i == Min(Places(t, m))
             k == Min(Places(w, m))
  <1>1. /\ w \in Seq(X) /\ Len(w) = Len(t) + Len(u)
        /\ \A j \in 1..Len(t) : w[j] = t[j]
        /\ \A j \in 1..Len(u) : w[Len(t) + j] = u[j]
        /\ Len(t) \in Nat /\ Len(u) \in Nat /\ Len(w) \in Nat
    OBVIOUS
  <1>2. /\ i \in 1..(Len(t) - 2) /\ At(t, m, i)
        /\ \A j \in 1..(Len(t) - 2) : At(t, m, j) => i <= j
        /\ Before(t, m) = SubSeq(t, 1, i - 1) /\ Before(t, m) \in Seq(X) /\ Len(Before(t, m)) = i - 1
        /\ After(t, m) = SubSeq(t, i + 3, Len(t)) /\ After(t, m) \in Seq(X)
        /\ Len(After(t, m)) = Len(t) - i - 2
        /\ i \in Int /\ Len(t) \in Int /\ i >= 1 /\ i <= Len(t) - 2
    <2>1. CutAt(X, t, m, i)
      BY FirstPlace
    <2> HIDE DEF i
    <2> QED
      BY <2>1 DEF CutAt
  <1> HIDE DEF w, i
  <1>N. /\ Len(t) \in Nat /\ Len(u) \in Nat /\ Len(w) \in Nat /\ Len(w) = Len(t) + Len(u)
        /\ i \in Int /\ i >= 1 /\ i <= Len(t) - 2
    BY <1>1, <1>2
  <1>3. i \in 1..(Len(w) - 2) /\ At(w, m, i)
    <2>1. i \in 1..(Len(w) - 2) /\ i \in 1..Len(t) /\ i + 1 \in 1..Len(t) /\ i + 2 \in 1..Len(t)
      BY <1>N
    <2> QED
      BY <1>1, <1>2, <2>1 DEF At
  <1>4. Places(w, m) # {}
    <2>1. Places(w, m) = {j \in 1..(Len(w) - 2) : At(w, m, j)}
      BY <1>1, PlacesAre
    <2> QED
      BY <1>3, <2>1
  <1>5. /\ k \in 1..(Len(w) - 2) /\ At(w, m, k)
        /\ \A j \in 1..(Len(w) - 2) : At(w, m, j) => k <= j
        /\ Before(w, m) = SubSeq(w, 1, k - 1) /\ Before(w, m) \in Seq(X) /\ Len(Before(w, m)) = k - 1
        /\ After(w, m) = SubSeq(w, k + 3, Len(w)) /\ After(w, m) \in Seq(X)
        /\ Len(After(w, m)) = Len(w) - k - 2
        /\ k \in Int /\ k >= 1
    <2>1. CutAt(X, w, m, k)
      BY <1>1, <1>4, FirstPlace
    <2> HIDE DEF k
    <2> QED
      BY <2>1 DEF CutAt
  <1> HIDE DEF k
  <1>6. k <= i
    BY <1>3, <1>5
  <1>7. k \in 1..(Len(t) - 2) /\ At(t, m, k)
    <2>1. k \in 1..(Len(t) - 2) /\ k \in 1..Len(t) /\ k + 1 \in 1..Len(t) /\ k + 2 \in 1..Len(t)
      BY <1>1, <1>2, <1>5, <1>6
    <2> QED
      BY <1>1, <1>5, <2>1 DEF At
  <1>8. k = i
    BY <1>2, <1>6, <1>7
  <1>9. SubSeq(w, 1, i - 1) = SubSeq(t, 1, i - 1)
    <2>1. i - 1 \in Nat /\ 1 \in Nat /\ 1 >= 1 /\ i - 1 <= Len(t) /\ i - 1 <= Len(w) /\ 1 <= i - 1 + 1
      BY <1>N
    <2>2. \A j \in 1..(i - 1) : SubSeq(w, 1, i - 1)[j] = w[j] /\ SubSeq(t, 1, i - 1)[j] = t[j] /\ w[j] = t[j]
      <3>1. \A j \in 1..(i - 1) : SubSeq(w, 1, i - 1)[j] = w[1 + j - 1]
        BY <1>1, <2>1, Slice
      <3>2. \A j \in 1..(i - 1) : SubSeq(t, 1, i - 1)[j] = t[1 + j - 1]
        BY <2>1, Slice
      <3> QED
        BY <3>1, <3>2, <1>1, <2>1
    <2> QED
      BY <1>2, <1>5, <1>8, <2>2, SameSeq
  <1>10. After(w, m) = After(t, m) \o u
    <2> DEFINE a == After(t, m)
               b == After(w, m)
    <2>1. /\ i + 3 \in Nat /\ i + 3 >= 1 /\ Len(t) \in Nat /\ i + 3 <= Len(t) + 1
          /\ Len(w) \in Nat /\ i + 3 <= Len(w) + 1
      BY <1>1, <1>2
    <2>2. \A j \in 1..(Len(t) - i - 2) : a[j] = t[i + j + 2]
      BY <1>2, <2>1, Slice
    <2>3. \A j \in 1..(Len(w) - i - 2) : b[j] = w[i + j + 2]
      BY <1>1, <1>5, <1>8, <2>1, Slice
    <2>4. a \in Seq(X) /\ Len(a) = Len(t) - i - 2 /\ b \in Seq(X) /\ Len(b) = Len(w) - i - 2
      BY <1>2, <1>5, <1>8
    <2> HIDE DEF a, b
    <2>a. Len(a) \in Int /\ Len(b) \in Int
      BY <2>4
    <2>5. a \o u \in Seq(X) /\ Len(a \o u) = Len(b)
      <3>1. a \o u \in Seq(X) /\ Len(a \o u) = Len(a) + Len(u)
        BY <2>4, Concat
      <3> QED
        BY <1>N, <2>4, <3>1
    <2>6. ASSUME NEW j \in 1..Len(b) PROVE b[j] = (a \o u)[j]
      <3>1. CASE j <= Len(a)
        <4>1. (a \o u)[j] = a[j] /\ j \in 1..(Len(t) - i - 2) /\ i + j + 2 \in 1..Len(t)
          BY <3>1, <2>4, <2>1, <1>2
        <4> QED
          BY <4>1, <2>2, <2>3, <2>4, <1>1
      <3>2. CASE j > Len(a)
        <4>1. (a \o u)[j] = u[j - Len(a)] /\ j - Len(a) \in 1..Len(u)
          BY <3>2, <2>4, <2>5, <1>1
        <4>2. i + j + 2 = Len(t) + (j - Len(a))
          BY <2>4, <1>2
        <4> QED
          BY <4>1, <4>2, <2>3, <2>4, <1>1
      <3>3. j <= Len(a) \/ j > Len(a)
        BY <2>a
      <3> QED
        BY <3>1, <3>2, <3>3
    <2>7. b = a \o u
      BY <2>4, <2>5, <2>6, SameSeq
    <2> QED
      BY <2>7 DEF a, b
  <1> QED
    BY <1>2, <1>4, <1>5, <1>8, <1>9, <1>10 DEF w

-----------------------------------------------------------------------------
\* What MarkerTail keeps of the end of a text.

\* The last n symbols of t are the first n of m.
Ends2(t, m, n) == n <= Len(t) /\ \A j \in 1..n : m[j] = t[Len(t) - n + j]

\* What Reverse returns.
LEMMA ReverseIs ==
  ASSUME NEW X, NEW s \in Seq(X)
  PROVE  /\ Reverse(s) \in Seq(X) /\ Len(Reverse(s)) = Len(s)
         /\ \A i \in 1..Len(s) : Reverse(s)[i] = s[Len(s) - i + 1]
  <1>1. \A i \in 1..Len(s) : Len(s) - i + 1 \in 1..Len(s)
    OBVIOUS
  <1> QED
    BY <1>1 DEF Reverse

\* p is the end of t.
EndsAs(p, t) == \A j \in 1..Len(p) : p[j] = t[Len(t) - Len(p) + j]

\* IsSuffix compares the end of a text.
LEMMA SuffixIs ==
  ASSUME NEW X, NEW Y, NEW t \in Seq(X), NEW p \in Seq(Y), Len(p) <= Len(t)
  PROVE  IsSuffix(p, t) <=> EndsAs(p, t)
  <1> DEFINE n == Len(p)
             l == Len(t)
             a == Reverse(p)
             b == Reverse(t)
  <1>1. n \in Nat /\ l \in Nat /\ n <= l
    OBVIOUS
  <1>2. a \in Seq(Y) /\ Len(a) = n /\ b \in Seq(X) /\ Len(b) = l
    BY ReverseIs
  <1>3. (\A i \in 1..n : a[i] = p[n - i + 1]) /\ (\A i \in 1..l : b[i] = t[l - i + 1])
    BY ReverseIs
  <1>4. IsSuffix(p, t) <=> SubSeq(a, 1, n) = SubSeq(b, 1, n)
    BY <1>1, <1>2 DEF IsSuffix, IsPrefix
  <1> HIDE DEF n, l, a, b
  <1>5. /\ SubSeq(a, 1, n) \in Seq(Y) /\ Len(SubSeq(a, 1, n)) = n /\ \A i \in 1..n : SubSeq(a, 1, n)[i] = a[i]
        /\ SubSeq(b, 1, n) \in Seq(X) /\ Len(SubSeq(b, 1, n)) = n /\ \A i \in 1..n : SubSeq(b, 1, n)[i] = b[i]
    BY <1>1, <1>2
  <1>6. SubSeq(a, 1, n) = SubSeq(b, 1, n) <=> \A i \in 1..n : a[i] = b[i]
    <2>1. SubSeq(a, 1, n) = SubSeq(b, 1, n) => \A i \in 1..n : a[i] = b[i]
      BY <1>5
    <2>2. ASSUME \A i \in 1..n : a[i] = b[i] PROVE SubSeq(a, 1, n) = SubSeq(b, 1, n)
      <3>1. \A i \in 1..n : SubSeq(a, 1, n)[i] = SubSeq(b, 1, n)[i]
        BY <1>5, <2>2
      <3> QED
        BY <1>5, <3>1, SameSeq
    <2> QED
      BY <2>1, <2>2
  <1>7. (\A i \in 1..n : a[i] = b[i]) <=> \A j \in 1..n : p[j] = t[l - n + j]
    <2>1. ASSUME \A i \in 1..n : a[i] = b[i], NEW j \in 1..n PROVE p[j] = t[l - n + j]
      <3> DEFINE i == n - j + 1
      <3>1. i \in 1..n /\ i \in 1..l /\ n - i + 1 = j /\ l - i + 1 = l - n + j
        BY <1>1
      <3> HIDE DEF i
      <3>2. a[i] = b[i] /\ a[i] = p[n - i + 1] /\ b[i] = t[l - i + 1]
        BY <1>3, <2>1, <3>1
      <3> QED
        BY <3>1, <3>2
    <2>2. ASSUME \A j \in 1..n : p[j] = t[l - n + j], NEW i \in 1..n PROVE a[i] = b[i]
      <3> DEFINE j == n - i + 1
      <3>1. j \in 1..n /\ i \in 1..l /\ l - i + 1 = l - n + j
        BY <1>1
      <3>2. a[i] = p[j] /\ b[i] = t[l - i + 1]
        BY <1>3, <3>1
      <3> HIDE DEF j
      <3>3. p[j] = t[l - n + j]
        BY <2>2, <3>1
      <3> QED
        BY <3>1, <3>2, <3>3
    <2> QED
      BY <2>1, <2>2
  <1> QED
    BY <1>4, <1>6, <1>7 DEF n, l, EndsAs

\* MarkerTail keeps the last k symbols.
Kept(X, t, m, k) ==
  /\ k \in 0..2 /\ k <= Len(t)
  /\ MarkerTail(t, m) = SubSeq(t, Len(t) - k + 1, Len(t))
  /\ \A n \in 1..2 : Ends2(t, m, n) => n <= k

\* MarkerTail (suffix_prefix_len) keeps the longest end that may begin a marker.
LEMMA TailIs ==
  ASSUME NEW X, NEW Y, NEW t \in Seq(X), NEW m \in Seq(Y), Len(m) = 3
  PROVE  \E k : Kept(X, t, m, k)
  <1> DEFINE lengths == {n \in 1..(Len(m) - 1) : n <= Len(t) /\ IsSuffix(SubSeq(m, 1, n), t)}
  <1>1. MarkerTail(t, m) = IF lengths = {} THEN <<>> ELSE SubSeq(m, 1, Max(lengths))
    BY DEF MarkerTail
  <1>2. ASSUME NEW n \in 1..2
        PROVE  /\ SubSeq(m, 1, n) \in Seq(Y) /\ Len(SubSeq(m, 1, n)) = n
               /\ \A j \in 1..n : SubSeq(m, 1, n)[j] = m[j]
    <2>1. 1 \in Nat /\ n \in Nat /\ 1 >= 1 /\ n <= Len(m) /\ 1 <= n + 1 /\ n + 1 - 1 = n
          /\ \A j \in 1..n : 1 + j - 1 = j
      OBVIOUS
    <2>2. /\ SubSeq(m, 1, n) \in Seq(Y) /\ Len(SubSeq(m, 1, n)) = n + 1 - 1
          /\ \A j \in 1..(n + 1 - 1) : SubSeq(m, 1, n)[j] = m[1 + j - 1]
      BY <2>1, Slice
    <2> QED
      BY <2>1, <2>2
  <1>3. ASSUME NEW n \in 1..2 PROVE n \in lengths <=> Ends2(t, m, n)
    <2>1. CASE n <= Len(t)
      <3> DEFINE p == SubSeq(m, 1, n)
      <3>1. p \in Seq(Y) /\ Len(p) = n /\ \A j \in 1..n : p[j] = m[j]
        BY <1>2
      <3> HIDE DEF p
      <3>2. IsSuffix(p, t) <=> EndsAs(p, t)
        BY <2>1, <3>1, SuffixIs
      <3>3. IsSuffix(p, t) <=> Ends2(t, m, n)
        BY <2>1, <3>1, <3>2 DEF Ends2, EndsAs
      <3> QED
        BY <2>1, <3>3 DEF p
    <2>2. CASE ~(n <= Len(t))
      BY <2>2 DEF Ends2
    <2> QED
      BY <2>1, <2>2
  <1>4. lengths \subseteq 1..2
    OBVIOUS
  <1> HIDE DEF lengths
  <1>5. CASE lengths = {}
    <2>1. MarkerTail(t, m) = SubSeq(t, Len(t) - 0 + 1, Len(t))
      BY <1>1, <1>5
    <2>2. Kept(X, t, m, 0)
      BY <1>3, <1>5, <2>1 DEF Kept
    <2> QED
      BY <2>2
  <1>6. CASE lengths # {}
    <2> DEFINE k == Max(lengths)
    <2>1. k \in lengths /\ \A n \in lengths : n <= k
      <3>1. CASE 2 \in lengths
        <4>1. \A n \in lengths : 2 >= n
          BY <1>4
        <4> QED
          BY <3>1, <4>1, <1>4 DEF Max
      <3>2. CASE 2 \notin lengths
        <4>1. \A n \in lengths : n = 1
          BY <3>2, <1>4
        <4>2. lengths = {1}
          BY <4>1, <1>6
        <4>3. 1 \in lengths /\ \A n \in lengths : 1 >= n
          BY <4>2
        <4> QED
          BY <4>1, <4>3 DEF Max
      <3> QED
        BY <3>1, <3>2
    <2> HIDE DEF k
    <2>2. k \in 1..2 /\ Ends2(t, m, k)
      BY <1>3, <1>4, <2>1
    <2>3. k <= Len(t) /\ \A j \in 1..k : m[j] = t[Len(t) - k + j]
      BY <2>2 DEF Ends2
    <2>4. SubSeq(m, 1, k) = SubSeq(t, Len(t) - k + 1, Len(t))
      <3> DEFINE q == SubSeq(t, Len(t) - k + 1, Len(t))
                 i == Len(t) - k + 1
      <3>1. i \in Nat /\ Len(t) \in Nat /\ i >= 1 /\ Len(t) <= Len(t) /\ i <= Len(t) + 1
            /\ Len(t) + 1 - i = k /\ \A j \in 1..k : i + j - 1 = Len(t) - k + j
        BY <2>2, <2>3
      <3>2. q \in Seq(X) /\ Len(q) = Len(t) + 1 - i /\ \A j \in 1..(Len(t) + 1 - i) : q[j] = t[i + j - 1]
        <4> HIDE DEF i
        <4>1. q = SubSeq(t, i, Len(t))
          BY DEF i
        <4> HIDE DEF q
        <4> QED
          BY <4>1, <3>1, Slice
      <3> HIDE DEF q, i
      <3>3. q \in Seq(X) /\ Len(q) = k /\ \A j \in 1..k : q[j] = t[Len(t) - k + j]
        BY <3>1, <3>2
      <3>4. SubSeq(m, 1, k) \in Seq(Y) /\ Len(SubSeq(m, 1, k)) = k
            /\ \A j \in 1..k : SubSeq(m, 1, k)[j] = m[j]
        BY <1>2, <2>2
      <3>5. \A j \in 1..k : q[j] = SubSeq(m, 1, k)[j]
        BY <2>3, <3>3, <3>4
      <3>6. q = SubSeq(m, 1, k)
        BY <3>3, <3>4, <3>5, SameSeq
      <3> QED
        BY <3>6 DEF q
    <2>5. MarkerTail(t, m) = SubSeq(t, Len(t) - k + 1, Len(t))
      BY <1>1, <1>6, <2>4 DEF k
    <2>6. \A n \in 1..2 : Ends2(t, m, n) => n <= k
      BY <1>3, <2>1
    <2>7. Kept(X, t, m, k)
      BY <2>2, <2>3, <2>5, <2>6 DEF Kept
    <2> QED
      BY <2>7
  <1> QED
    BY <1>5, <1>6

\* A text in front without a marker stays in front.
StaysInFront(f, w, m) ==
  /\ Places(f \o w, m) = {} <=> Places(w, m) = {}
  /\ Places(w, m) # {} => /\ Before(f \o w, m) = f \o Before(w, m)
                          /\ After(f \o w, m) = After(w, m)

\* A text in front is passed over when no marker begins in it.
LEMMA InFront ==
  ASSUME NEW X, NEW Y, NEW f \in Seq(X), NEW w \in Seq(X), NEW m \in Seq(Y), Len(m) = 3,
         \A i \in 1..Len(f) : ~At(f \o w, m, i)
  PROVE  StaysInFront(f, w, m)
  <1> DEFINE t == f \o w
             n == Len(f)
             l == Len(w)
  <1>1. /\ t \in Seq(X) /\ n \in Nat /\ l \in Nat /\ Len(t) = n + l
        /\ \A i \in 1..n : t[i] = f[i]
        /\ \A i \in 1..l : t[n + i] = w[i]
    BY Concat
  <1>2. \A i \in 1..n : ~At(t, m, i)
    OBVIOUS
  <1>3. Places(t, m) = {i \in 1..(Len(t) - 2) : At(t, m, i)} /\ Places(w, m) = {i \in 1..(l - 2) : At(w, m, i)}
    <2>1. Places(w, m) = {i \in 1..(l - 2) : At(w, m, i)}
      BY PlacesAre
    <2> HIDE DEF t
    <2>2. Places(t, m) = {i \in 1..(Len(t) - 2) : At(t, m, i)}
      BY <1>1, PlacesAre
    <2> QED
      BY <2>1, <2>2
  <1> HIDE DEF t, n, l
  <1>4. ASSUME NEW i \in 1..(l - 2)
        PROVE  n + i \in 1..(Len(t) - 2) /\ (At(t, m, n + i) <=> At(w, m, i))
    <2>1. n + i \in 1..(Len(t) - 2) /\ i \in 1..l /\ i + 1 \in 1..l /\ i + 2 \in 1..l
          /\ n + i + 1 = n + (i + 1) /\ n + i + 2 = n + (i + 2)
      BY <1>1
    <2>2. t[n + i] = w[i] /\ t[n + i + 1] = w[i + 1] /\ t[n + i + 2] = w[i + 2]
      <3>1. t[n + i] = w[i]
        BY <1>1, <2>1
      <3>2. t[n + (i + 1)] = w[i + 1]
        BY <1>1, <2>1
      <3>3. t[n + (i + 2)] = w[i + 2]
        BY <1>1, <2>1
      <3> QED
        BY <2>1, <3>1, <3>2, <3>3
    <2> QED
      BY <2>1, <2>2 DEF At, l
  <1>5. ASSUME NEW k \in 1..(Len(t) - 2), At(t, m, k)
        PROVE  k - n \in 1..(l - 2) /\ At(w, m, k - n) /\ n + (k - n) = k
    <2>1. k > n
      BY <1>1, <1>2, <1>5
    <2>2. k - n \in 1..(l - 2) /\ n + (k - n) = k
      BY <1>1, <2>1
    <2> QED
      BY <1>4, <1>5, <2>2
  <1>6. Places(t, m) = {} <=> Places(w, m) = {}
    <2>1. ASSUME Places(w, m) # {} PROVE Places(t, m) # {}
      <3>1. PICK i \in 1..(l - 2) : At(w, m, i)
        BY <1>3, <2>1
      <3> QED
        BY <1>3, <1>4, <3>1
    <2>2. ASSUME Places(t, m) # {} PROVE Places(w, m) # {}
      <3>1. PICK k \in 1..(Len(t) - 2) : At(t, m, k)
        BY <1>3, <2>2
      <3> QED
        BY <1>3, <1>5, <3>1
    <2> QED
      BY <2>1, <2>2
  <1>7. ASSUME Places(w, m) # {}
        PROVE  Before(t, m) = f \o Before(w, m) /\ After(t, m) = After(w, m)
    <2> DEFINE k == Min(Places(t, m))
               i == Min(Places(w, m))
    <2>1. CutAt(X, t, m, k) /\ CutAt(X, w, m, i)
      BY <1>1, <1>6, <1>7, FirstPlace
    <2> HIDE DEF k, i
    <2>2. /\ k \in 1..(Len(t) - 2) /\ At(t, m, k)
          /\ \A j \in 1..(Len(t) - 2) : At(t, m, j) => k <= j
          /\ i \in 1..(l - 2) /\ At(w, m, i)
          /\ \A j \in 1..(l - 2) : At(w, m, j) => i <= j
      BY <2>1 DEF CutAt, l
    <2>3. k = n + i
      <3>1. n + i \in 1..(Len(t) - 2) /\ At(t, m, n + i)
        BY <1>4, <2>2
      <3>2. k - n \in 1..(l - 2) /\ At(w, m, k - n)
        BY <1>5, <2>2
      <3>3. k <= n + i /\ i <= k - n
        BY <2>2, <3>1, <3>2
      <3>4. k \in Int /\ n \in Int /\ i \in Int
        BY <1>1, <2>2
      <3> QED
        BY <3>3, <3>4
    <2> DEFINE a == Before(t, m)
               b == Before(w, m)
               c == After(t, m)
               d == After(w, m)
    <2>4. /\ a = SubSeq(t, 1, k - 1) /\ a \in Seq(X) /\ Len(a) = k - 1
          /\ b = SubSeq(w, 1, i - 1) /\ b \in Seq(X) /\ Len(b) = i - 1
          /\ c = SubSeq(t, k + 3, Len(t)) /\ c \in Seq(X) /\ Len(c) = Len(t) - k - 2
          /\ d = SubSeq(w, i + 3, l) /\ d \in Seq(X) /\ Len(d) = l - i - 2
      BY <2>1 DEF CutAt, l
    <2> HIDE DEF a, b, c, d
    <2>5. /\ k \in Nat /\ i \in Nat /\ i >= 1 /\ k >= 1 /\ i <= l - 2 /\ k <= Len(t) - 2
          /\ Len(t) = n + l /\ Len(t) \in Nat /\ l \in Nat /\ n \in Nat
      BY <1>1, <2>2
    <2>6. (\A j \in 1..(k - 1) : a[j] = t[j]) /\ (\A j \in 1..(i - 1) : b[j] = w[j])
      <3>1. k - 1 \in Nat /\ i - 1 \in Nat /\ k - 1 <= Len(t) /\ i - 1 <= l /\ 1 <= k - 1 + 1 /\ 1 <= i - 1 + 1
            /\ 1 \in Nat /\ 1 >= 1
        BY <2>5
      <3>2. \A j \in 1..(k - 1 + 1 - 1) : SubSeq(t, 1, k - 1)[j] = t[1 + j - 1]
        BY <1>1, <3>1, Slice
      <3>3. \A j \in 1..(i - 1 + 1 - 1) : SubSeq(w, 1, i - 1)[j] = w[1 + j - 1]
        BY <3>1, Slice DEF l
      <3>4. k - 1 + 1 - 1 = k - 1 /\ i - 1 + 1 - 1 = i - 1 /\ \A j \in Int : 1 + j - 1 = j
        BY <2>5
      <3>5. \A j \in 1..(k - 1) : a[j] = t[j]
        <4>1. a = SubSeq(t, 1, k - 1)
          BY <2>4
        <4> QED
          BY <4>1, <3>2, <3>4, <2>5
      <3>6. \A j \in 1..(i - 1) : b[j] = w[j]
        <4>1. b = SubSeq(w, 1, i - 1)
          BY <2>4
        <4> QED
          BY <4>1, <3>3, <3>4, <2>5
      <3> QED
        BY <3>5, <3>6
    <2>7. (\A j \in 1..(l - i - 2) : c[j] = t[k + j + 2]) /\ (\A j \in 1..(l - i - 2) : d[j] = w[i + j + 2])
      <3>1. k + 3 \in Nat /\ i + 3 \in Nat /\ k + 3 >= 1 /\ i + 3 >= 1 /\ k + 3 <= Len(t) + 1 /\ i + 3 <= l + 1
            /\ Len(t) <= Len(t) /\ l <= l
        BY <2>5
      <3>2. \A j \in 1..(Len(t) + 1 - (k + 3)) : SubSeq(t, k + 3, Len(t))[j] = t[k + 3 + j - 1]
        BY <1>1, <3>1, <2>5, Slice
      <3>3. \A j \in 1..(l + 1 - (i + 3)) : SubSeq(w, i + 3, l)[j] = w[i + 3 + j - 1]
        BY <3>1, <2>5, Slice DEF l
      <3>4. /\ Len(t) + 1 - (k + 3) = l - i - 2 /\ l + 1 - (i + 3) = l - i - 2
            /\ \A j \in Int : k + 3 + j - 1 = k + j + 2 /\ i + 3 + j - 1 = i + j + 2
        BY <2>3, <2>5
      <3>5. \A j \in 1..(l - i - 2) : c[j] = t[k + j + 2]
        <4>1. c = SubSeq(t, k + 3, Len(t))
          BY <2>4
        <4> QED
          BY <4>1, <3>2, <3>4, <2>5
      <3>6. \A j \in 1..(l - i - 2) : d[j] = w[i + j + 2]
        <4>1. d = SubSeq(w, i + 3, l)
          BY <2>4
        <4> QED
          BY <4>1, <3>3, <3>4, <2>5
      <3> QED
        BY <3>5, <3>6
    <2>8. a = f \o b
      <3>0. b \in Seq(X)
        BY <2>4
      <3>1. f \o b \in Seq(X) /\ Len(f \o b) = Len(f) + Len(b) /\ (\A j \in 1..Len(f) : (f \o b)[j] = f[j])
            /\ \A j \in 1..Len(b) : (f \o b)[Len(f) + j] = b[j]
        BY <3>0, Concat
      <3> DEFINE g == f \o b
      <3> HIDE DEF g
      <3>2. g \in Seq(X) /\ Len(g) = n + (i - 1) /\ (\A j \in 1..n : g[j] = f[j])
            /\ \A j \in 1..(i - 1) : g[n + j] = b[j]
        BY <3>1, <2>4 DEF g, n
      <3>3. Len(a) = Len(g)
        <4>1. Len(a) = k - 1
          BY <2>4
        <4> QED
          BY <4>1, <2>3, <2>5, <3>2
      <3>4. ASSUME NEW j \in 1..Len(a) PROVE a[j] = g[j]
        <4>0. j \in 1..(k - 1) /\ a[j] = t[j] /\ j \in Int
          BY <2>4, <2>5, <2>6
        <4>1. CASE j <= n
          <5>1. j \in 1..n
            BY <4>0, <4>1, <2>5
          <5> QED
            BY <4>0, <5>1, <3>2, <1>1
        <4>2. CASE j > n
          <5>1. j - n \in 1..(i - 1) /\ j - n \in 1..l /\ n + (j - n) = j
            BY <4>0, <4>2, <2>3, <2>5
          <5>2. t[n + (j - n)] = w[j - n] /\ g[n + (j - n)] = b[j - n] /\ b[j - n] = w[j - n]
            BY <5>1, <3>2, <1>1, <2>6
          <5> QED
            BY <4>0, <5>1, <5>2
        <4> QED
          BY <4>0, <4>1, <4>2, <2>5
      <3>5. a = g
        BY <2>4, <3>2, <3>3, <3>4, SameSeq
      <3> QED
        BY <3>5 DEF g
    <2>9. c = d
      <3>1. Len(c) = Len(d) /\ Len(c) = l - i - 2
        BY <2>3, <2>4, <2>5
      <3>2. ASSUME NEW j \in 1..Len(c) PROVE c[j] = d[j]
        <4>1. j \in 1..(l - i - 2) /\ i + j + 2 \in 1..l /\ k + j + 2 = n + (i + j + 2)
          BY <3>1, <2>3, <2>5
        <4>2. t[n + (i + j + 2)] = w[i + j + 2]
          BY <4>1, <1>1
        <4> QED
          BY <4>1, <4>2, <2>7
      <3> QED
        BY <2>4, <3>1, <3>2, SameSeq
    <2> QED
      BY <2>8, <2>9 DEF a, b, c, d
  <1> QED
    BY <1>6, <1>7 DEF t, StaysInFront

-----------------------------------------------------------------------------
\* A text without a marker: what may begin one is kept.

\* What is kept may begin a marker, and what is in front of it cannot.
LEMMA TailKept ==
  ASSUME NEW X, NEW Y, NEW t \in Seq(X), NEW m \in Seq(Y), Len(m) = 3
  PROVE  LET keep  == MarkerTail(t, m)
             front == SubSeq(t, 1, Len(t) - Len(keep)) IN
         /\ keep \in Seq(X) /\ front \in Seq(X) /\ front \o keep = t
         /\ Len(keep) \in 0..2 /\ Len(keep) <= Len(t) /\ Len(front) = Len(t) - Len(keep)
         /\ \A n \in 1..2 : Ends2(t, m, n) => n <= Len(keep)
  <1> DEFINE keep  == MarkerTail(t, m)
             l == Len(t)
  <1>1. PICK k : Kept(X, t, m, k)
    BY TailIs
  <1> DEFINE front == SubSeq(t, 1, l - k)
  <1>2. /\ k \in 0..2 /\ k <= l /\ keep = SubSeq(t, l - k + 1, l)
        /\ \A n \in 1..2 : Ends2(t, m, n) => n <= k
    BY <1>1 DEF Kept
  <1>3. k \in Nat /\ l \in Nat /\ l - k \in Nat /\ l - k + 1 \in Nat /\ l - k + 1 >= 1 /\ l - k + 1 <= l + 1
        /\ 1 \in Nat /\ 1 >= 1 /\ l - k <= l /\ 1 <= l - k + 1 /\ l <= l /\ l + 1 - (l - k + 1) = k
        /\ l - k + 1 - 1 = l - k
    BY <1>2
  <1>4. /\ keep \in Seq(X) /\ Len(keep) = l + 1 - (l - k + 1)
        /\ \A j \in 1..(l + 1 - (l - k + 1)) : keep[j] = t[l - k + 1 + j - 1]
    <2> DEFINE q == SubSeq(t, l - k + 1, l)
    <2>1. /\ q \in Seq(X) /\ Len(q) = l + 1 - (l - k + 1)
          /\ \A j \in 1..(l + 1 - (l - k + 1)) : q[j] = t[l - k + 1 + j - 1]
      BY <1>3, Slice
    <2> HIDE DEF l
    <2> QED
      BY <1>2, <2>1
  <1>5. /\ front \in Seq(X) /\ Len(front) = l - k + 1 - 1
        /\ \A j \in 1..(l - k + 1 - 1) : front[j] = t[1 + j - 1]
    <2> DEFINE n == l - k
    <2>1. n \in Nat /\ n <= Len(t) /\ 1 <= n + 1
      BY <1>3
    <2> HIDE DEF n
    <2>2. /\ SubSeq(t, 1, n) \in Seq(X) /\ Len(SubSeq(t, 1, n)) = n + 1 - 1
          /\ \A j \in 1..(n + 1 - 1) : SubSeq(t, 1, n)[j] = t[1 + j - 1]
      BY <2>1, Slice
    <2> QED
      BY <2>2 DEF n
  <1> HIDE DEF l, keep, front
  <1>6. Len(keep) = k /\ \A j \in 1..k : keep[j] = t[l - k + j]
    <2>1. \A j \in 1..k : l - k + 1 + j - 1 = l - k + j
      BY <1>3
    <2> QED
      BY <1>3, <1>4, <2>1
  <1>7. Len(front) = l - k /\ \A j \in 1..(l - k) : front[j] = t[j]
    <2>1. \A j \in 1..(l - k) : 1 + j - 1 = j
      BY <1>3
    <2> QED
      BY <1>3, <1>5, <2>1
  <1>8. front \o keep = t
    <2>0. front \in Seq(X) /\ keep \in Seq(X)
      BY <1>4, <1>5
    <2> DEFINE g == front \o keep
    <2>1. /\ g \in Seq(X) /\ Len(g) = Len(front) + Len(keep)
          /\ \A j \in 1..Len(front) : g[j] = front[j]
          /\ \A j \in 1..Len(keep) : g[Len(front) + j] = keep[j]
      BY <2>0, Concat
    <2> HIDE DEF g
    <2>2. Len(g) = l
      BY <1>3, <1>6, <1>7, <2>1
    <2>3. ASSUME NEW j \in 1..l PROVE g[j] = t[j]
      <3>1. CASE j <= l - k
        <4>1. j \in 1..(l - k)
          BY <1>3, <3>1
        <4> QED
          BY <4>1, <1>7, <2>1
      <3>2. CASE j > l - k
        <4>1. j - (l - k) \in 1..k /\ (l - k) + (j - (l - k)) = j
          BY <1>3, <3>2
        <4>2. g[(l - k) + (j - (l - k))] = keep[j - (l - k)] /\ keep[j - (l - k)] = t[(l - k) + (j - (l - k))]
          BY <4>1, <1>6, <1>7, <2>1
        <4> QED
          BY <4>1, <4>2
      <3>3. j <= l - k \/ j > l - k
        BY <1>3
      <3> QED
        BY <3>1, <3>2, <3>3
    <2>4. g = t
      BY <2>1, <2>2, <2>3, SameSeq DEF l
    <2> QED
      BY <2>4 DEF g
  <1> QED
    BY <1>2, <1>4, <1>5, <1>6, <1>7, <1>8 DEF l, keep, front

\* t is front and keep, and only keep matters to what follows it.
HeldBack(X, t, u, m, front, keep) ==
  /\ keep \in Seq(X) /\ front \in Seq(X) /\ front \o keep = t
  /\ Places(keep, m) = {}
  /\ Places(t \o u, m) = {} <=> Places(keep \o u, m) = {}
  /\ Places(keep \o u, m) # {} => /\ Before(t \o u, m) = front \o Before(keep \o u, m)
                                  /\ After(t \o u, m) = After(keep \o u, m)

LEMMA Associated ==
  ASSUME NEW X, NEW a \in Seq(X), NEW b \in Seq(X), NEW c \in Seq(X)
  PROVE  (a \o b) \o c = a \o (b \o c)
  BY ConcatAssociative

\* A text without a marker may be shown but for what MarkerTail keeps of it,
\* whatever comes next (push).
LEMMA TailHeld ==
  ASSUME NEW X, NEW Y, NEW t \in Seq(X), NEW u \in Seq(X), NEW m \in Seq(Y), Len(m) = 3, Places(t, m) = {}
  PROVE  HeldBack(X, t, u, m, SubSeq(t, 1, Len(t) - Len(MarkerTail(t, m))), MarkerTail(t, m))
  <1> DEFINE keep  == MarkerTail(t, m)
             front == SubSeq(t, 1, Len(t) - Len(keep))
             w == keep \o u
  <1>1. /\ keep \in Seq(X) /\ front \in Seq(X) /\ front \o keep = t
        /\ Len(keep) \in 0..2 /\ Len(keep) <= Len(t) /\ Len(front) = Len(t) - Len(keep)
        /\ \A n \in 1..2 : Ends2(t, m, n) => n <= Len(keep)
    BY TailKept
  <1> HIDE DEF keep, front
  <1>2. w \in Seq(X)
    BY <1>1, Concat
  <1>3. front \o w = t \o u
    <2>1. front \in Seq(X) /\ keep \in Seq(X)
      BY <1>1
    <2>2. (front \o keep) \o u = front \o (keep \o u)
      BY <2>1, Associated
    <2>3. front \o keep = t
      BY <1>1
    <2> QED
      BY <2>2, <2>3 DEF w
  <1>4. /\ t \o u \in Seq(X) /\ \A j \in 1..Len(t) : (t \o u)[j] = t[j]
    BY Concat
  <1>5. ASSUME NEW i \in 1..Len(front) PROVE ~At(t \o u, m, i)
    <2> SUFFICES ASSUME At(t \o u, m, i) PROVE FALSE
      OBVIOUS
    <2>0. Len(t) \in Nat /\ i \in Int /\ Len(keep) \in Int /\ i >= 1 /\ i <= Len(t) - Len(keep)
      BY <1>1
    <2>1. (t \o u)[i] = m[1] /\ (t \o u)[i + 1] = m[2] /\ (t \o u)[i + 2] = m[3]
      BY DEF At
    <2>2. CASE i <= Len(t) - 2
      <3>1. i \in 1..(Len(t) - 2) /\ i \in 1..Len(t) /\ i + 1 \in 1..Len(t) /\ i + 2 \in 1..Len(t)
        BY <2>0, <2>2
      <3>2. At(t, m, i)
        BY <1>4, <2>1, <3>1 DEF At
      <3>3. i \in Places(t, m)
        BY <3>1, <3>2, PlacesAre
      <3> QED
        BY <3>3
    <2>3. CASE i = Len(t) - 1
      <3>1. i \in 1..Len(t) /\ i + 1 \in 1..Len(t) /\ 2 <= Len(t) /\ Len(t) - 2 + 1 = i /\ Len(t) - 2 + 2 = i + 1
        BY <2>0, <2>3
      <3>2. t[i] = m[1] /\ t[i + 1] = m[2]
        BY <1>4, <2>1, <3>1
      <3>3. \A j \in 1..2 : j = 1 \/ j = 2
        OBVIOUS
      <3>4. Ends2(t, m, 2)
        BY <3>1, <3>2, <3>3 DEF Ends2
      <3>5. 2 <= Len(keep)
        BY <1>1, <3>4
      <3> QED
        BY <2>0, <2>3, <3>5
    <2>4. CASE i = Len(t)
      <3>1. i \in 1..Len(t) /\ 1 <= Len(t) /\ Len(t) - 1 + 1 = i
        BY <2>0, <2>4
      <3>2. t[i] = m[1]
        BY <1>4, <2>1, <3>1
      <3>3. \A j \in 1..1 : j = 1
        OBVIOUS
      <3>4. Ends2(t, m, 1)
        BY <3>1, <3>2, <3>3 DEF Ends2
      <3>5. 1 <= Len(keep)
        BY <1>1, <3>4
      <3> QED
        BY <2>0, <2>4, <3>5
    <2>5. i <= Len(t) - 2 \/ i = Len(t) - 1 \/ i = Len(t)
      BY <1>1, <2>0
    <2> QED
      BY <2>2, <2>3, <2>4, <2>5
  <1>6. Places(keep, m) = {}
    <2>1. 1..(Len(keep) - 2) = {}
      <3>1. Len(keep) \in 0..2
        BY <1>1
      <3>2. \A k \in 0..2 : 1..(k - 2) = {}
        OBVIOUS
      <3> QED
        BY <3>1, <3>2
    <2>2. Places(keep, m) = {i \in 1..(Len(keep) - 2) : At(keep, m, i)}
      BY <1>1, PlacesAre
    <2> QED
      BY <2>1, <2>2
  <1> HIDE DEF w
  <1>7. StaysInFront(front, w, m)
    <2>1. \A i \in 1..Len(front) : ~At(front \o w, m, i)
      BY <1>3, <1>5
    <2>2. front \in Seq(X)
      BY <1>1
    <2> QED
      BY <1>2, <2>1, <2>2, InFront
  <1>8. HeldBack(X, t, u, m, front, keep)
    BY <1>1, <1>3, <1>6, <1>7 DEF HeldBack, StaysInFront, w
  <1> QED
    BY <1>8 DEF keep, front

-----------------------------------------------------------------------------
\* Public, as its equation.

\* Texts are sequences of symbols; the markers are of these.
Texts == Seq(STRING)
Symbols == {"<", "/", "t", ">"}

\* Both markers have three symbols.
LEMMA Markers ==
  /\ Open \in Seq(Symbols) /\ Len(Open) = 3
  /\ Close \in Seq(Symbols) /\ Len(Close) = 3
  BY DEF Open, Close, Symbols

\* A text is cut behind a marker into shorter ones.
LEMMA Shorter ==
  ASSUME NEW t \in Texts, NEW m \in {Open, Close}, Places(t, m) # {}
  PROVE  /\ Before(t, m) \in Texts /\ After(t, m) \in Texts
         /\ Len(After(t, m)) \in Nat /\ Len(After(t, m)) < Len(t)
  <1> DEFINE i == Min(Places(t, m))
  <1>1. m \in Seq(Symbols) /\ Len(m) = 3
    BY Markers
  <1>2. CutAt(STRING, t, m, i)
    BY <1>1, FirstPlace DEF Texts
  <1> HIDE DEF i
  <1>3. /\ i \in 1..(Len(t) - 2) /\ Before(t, m) \in Texts /\ After(t, m) \in Texts
        /\ Len(After(t, m)) = Len(t) - i - 2
    BY <1>2 DEF CutAt, Texts
  <1>4. Len(t) \in Nat /\ Len(After(t, m)) \in Nat
    BY <1>3 DEF Texts
  <1>5. Len(After(t, m)) < Len(t)
    <2>1. i \in Int /\ i >= 1
      BY <1>3
    <2> QED
      BY <2>1, <1>3, <1>4
  <1> QED
    BY <1>3, <1>4, <1>5

\* One step of Public.
PublicStep(p, text) ==
  IF Places(text, Open) = {} THEN text
  ELSE Before(text, Open) \o
       (IF Places(After(text, Open), Close) = {} THEN <<>> ELSE p[After(After(text, Open), Close)])

\* A step of Public asks for shorter texts only.
LEMMA PublicUses ==
  ASSUME NEW t \in Texts, NEW p, NEW q,
         \A y \in Texts : Len(y) < Len(t) => p[y] = q[y]
  PROVE  PublicStep(p, t) = PublicStep(q, t)
  <1>1. CASE Places(t, Open) = {}
    BY <1>1 DEF PublicStep
  <1>2. CASE Places(t, Open) # {} /\ Places(After(t, Open), Close) = {}
    BY <1>2 DEF PublicStep
  <1>3. CASE Places(t, Open) # {} /\ Places(After(t, Open), Close) # {}
    <2> DEFINE r == After(t, Open)
               y == After(r, Close)
    <2>1. r \in Texts /\ Len(r) \in Nat /\ Len(r) < Len(t)
      BY <1>3, Shorter
    <2>2. y \in Texts /\ Len(y) \in Nat /\ Len(y) < Len(r)
      BY <1>3, <2>1, Shorter
    <2>3. Len(t) \in Nat
      BY DEF Texts
    <2>4. p[y] = q[y]
      BY <2>1, <2>2, <2>3
    <2> QED
      BY <1>3, <2>4 DEF PublicStep
  <1> QED
    BY <1>1, <1>2, <1>3

\* It returns a text if those do.
LEMMA PublicStepTyped ==
  ASSUME NEW t \in Texts, NEW p, \A y \in Texts : Len(y) < Len(t) => p[y] \in Texts
  PROVE  PublicStep(p, t) \in Texts
  <1>1. CASE Places(t, Open) = {}
    BY <1>1 DEF PublicStep
  <1>2. CASE Places(t, Open) # {}
    <2> DEFINE r == After(t, Open)
               y == After(r, Close)
               b == Before(t, Open)
               rest == IF Places(r, Close) = {} THEN <<>> ELSE p[y]
    <2>1. r \in Texts /\ Len(r) \in Nat /\ Len(r) < Len(t) /\ b \in Texts /\ Len(t) \in Nat
      BY <1>2, Shorter DEF Texts
    <2>2. Places(r, Close) # {} => y \in Texts /\ Len(y) \in Nat /\ Len(y) < Len(r)
      BY <2>1, Shorter
    <2>3. Places(r, Close) # {} => p[y] \in Texts
      BY <2>1, <2>2
    <2>4. rest \in Texts
      <3>1. <<>> \in Texts
        BY DEF Texts
      <3> QED
        BY <2>3, <3>1
    <2>5. PublicStep(p, t) = b \o rest
      BY <1>2 DEF PublicStep
    <2> HIDE DEF b, rest
    <2> QED
      BY <2>1, <2>4, <2>5 DEF Texts
  <1> QED
    BY <1>1, <1>2

\* Public does what its definition says.
LEMMA PublicIs == \A t \in Texts : Public[t] = PublicStep(Public, t)
  <1> DEFINE m == [t \in Texts |-> Len(t)]
             G == [p \in [Texts -> Texts] |-> [t \in Texts |-> PublicStep(p, t)]]
             Runs(p) == p = [t \in Texts |-> PublicStep(p, t)]
  <1>1. m \in [Texts -> Nat]
    BY DEF Texts
  <1>2. G \in [[Texts -> Texts] -> [Texts -> Texts]]
    <2>1. ASSUME NEW p \in [Texts -> Texts], NEW t \in Texts PROVE PublicStep(p, t) \in Texts
      BY PublicStepTyped
    <2> QED
      BY <2>1
  <1>3. LocalIn(G, Texts, Texts, m)
    <2> SUFFICES ASSUME NEW u \in [Texts -> Texts], NEW v \in [Texts -> Texts], NEW x \in Texts,
                        \A y \in Texts : m[y] < m[x] => u[y] = v[y]
                 PROVE  G[u][x] = G[v][x]
      BY DEF LocalIn
    <2>1. PublicStep(u, x) = PublicStep(v, x)
      BY PublicUses
    <2> QED
      BY <2>1
  <1>4. <<>> \in Texts
    BY DEF Texts
  <1>5. PICK g : Fixed(g, G, Texts, Texts)
    <2> HIDE DEF m, G
    <2> QED
      BY <1>1, <1>2, <1>3, <1>4, Solution
  <1>6. Runs(g)
    BY <1>5 DEF Fixed
  <1>7. Public = CHOOSE p : Runs(p)
    BY DEF Public, PublicStep, Texts
  <1>8. Runs(Public)
    <2> HIDE DEF Runs
    <2> QED
      BY <1>6, <1>7
  <1> QED
    BY <1>8

\* What is public of a text is a text.
LEMMA PublicTyped == \A t \in Texts : Public[t] \in Texts
  <1> DEFINE Bad == {i \in Nat : \E t \in Texts : Len(t) = i /\ Public[t] \notin Texts}
  <1>1. ASSUME Bad # {} PROVE FALSE
    <2>0. Bad \in SUBSET Nat
      OBVIOUS
    <2>1. PICK i \in Bad : \A j \in Bad : i <= j
      <3> HIDE DEF Bad
      <3> QED
        BY <1>1, <2>0, SmallestOf
    <2>2. PICK t \in Texts : Len(t) = i /\ Public[t] \notin Texts
      BY <2>1
    <2>3. ASSUME NEW y \in Texts, Len(y) < Len(t) PROVE Public[y] \in Texts
      <3>1. Len(y) \in Nat /\ i \in Nat
        BY <2>1 DEF Texts
      <3>2. Len(y) \notin Bad
        <4> HIDE DEF Bad
        <4> QED
          BY <3>1, <2>1, <2>2, <2>3
      <3> QED
        BY <3>1, <3>2
    <2>4. PublicStep(Public, t) \in Texts
      BY <2>3, PublicStepTyped
    <2> QED
      BY <2>2, <2>4, PublicIs
  <1>2. ASSUME NEW t \in Texts PROVE Public[t] \in Texts
    <2>1. Len(t) \in Nat /\ Len(t) \notin Bad
      BY <1>1 DEF Texts
    <2> QED
      BY <2>1
  <1> QED
    BY <1>2

-----------------------------------------------------------------------------
\* Filtered, as its equation.

\* The states of VisibilityFilter, and the marker each looks for.
FilterStates == [inside : BOOLEAN, rest : Texts, out : Texts]
MarkerOf(f) == IF f.inside THEN Close ELSE Open

\* The filter looks for one of the two markers.
LEMMA MarkerOfIs == \A f : MarkerOf(f) \in {Open, Close}
  BY DEF MarkerOf

\* One step of Filtered: behind a marker, or all but what may begin one is shown.
Beyond(f) ==
  [inside |-> ~f.inside, rest |-> After(f.rest, MarkerOf(f)),
   out |-> IF f.inside THEN f.out ELSE f.out \o Before(f.rest, MarkerOf(f))]
WithoutTail(t, m) == SubSeq(t, 1, Len(t) - Len(MarkerTail(t, m)))
AtRest(f) ==
  [inside |-> f.inside, rest |-> MarkerTail(f.rest, MarkerOf(f)),
   out |-> IF f.inside THEN f.out ELSE f.out \o WithoutTail(f.rest, MarkerOf(f))]
FilterStep(g, f) == IF Places(f.rest, MarkerOf(f)) # {} THEN g[Beyond(f)] ELSE AtRest(f)

\* A state of the filter is made of its three fields.
LEMMA FilterFields ==
  \A f \in FilterStates : f = [inside |-> f.inside, rest |-> f.rest, out |-> f.out]
  BY DEF FilterStates

\* A state with another rest and another output.
LEMMA WithRest ==
  ASSUME NEW f \in FilterStates, NEW a \in Texts, NEW b \in Texts
  PROVE  [f EXCEPT !.rest = a, !.out = b] = [inside |-> f.inside, rest |-> a, out |-> b]
  <1> DEFINE e == [f EXCEPT !.rest = a, !.out = b]
  <1>1. e \in FilterStates /\ e.inside = f.inside /\ e.rest = a /\ e.out = b
    BY DEF FilterStates
  <1> HIDE DEF e
  <1>2. e = [inside |-> f.inside, rest |-> a, out |-> b]
    BY <1>1, FilterFields
  <1> QED
    BY <1>2 DEF e

\* Texts follow one another.
LEMMA ConcatTexts == \A a, b \in Texts : a \o b \in Texts
  BY DEF Texts

\* The order in which they are put together does not matter.
LEMMA AssocTexts == \A a, b, c \in Texts : (a \o b) \o c = a \o (b \o c)
  BY ConcatAssociative DEF Texts

\* Behind a marker less is left (push).
LEMMA BeyondTyped ==
  ASSUME NEW f \in FilterStates, Places(f.rest, MarkerOf(f)) # {}
  PROVE  Beyond(f) \in FilterStates /\ Len(Beyond(f).rest) \in Nat /\ Len(Beyond(f).rest) < Len(f.rest)
  <1>1. f.inside \in BOOLEAN /\ f.rest \in Texts /\ f.out \in Texts
    BY DEF FilterStates
  <1> DEFINE a == After(f.rest, MarkerOf(f))
             b == Before(f.rest, MarkerOf(f))
             o == IF f.inside THEN f.out ELSE f.out \o b
  <1>2. a \in Texts /\ b \in Texts /\ Len(a) \in Nat /\ Len(a) < Len(f.rest)
    BY <1>1, MarkerOfIs, Shorter
  <1>3. o \in Texts
    BY <1>1, <1>2, ConcatTexts
  <1>4. Beyond(f) = [inside |-> ~f.inside, rest |-> a, out |-> o]
    BY DEF Beyond
  <1> HIDE DEF a, b, o
  <1>5. Beyond(f).rest = a
    BY <1>4
  <1>6. Beyond(f) \in FilterStates
    BY <1>1, <1>2, <1>3, <1>4 DEF FilterStates
  <1> QED
    BY <1>2, <1>5, <1>6

\* Without a marker the filter stays well-formed (push).
LEMMA AtRestTyped ==
  ASSUME NEW f \in FilterStates
  PROVE  AtRest(f) \in FilterStates
  <1>1. f.inside \in BOOLEAN /\ f.rest \in Texts /\ f.out \in Texts
    BY DEF FilterStates
  <1> DEFINE m == MarkerOf(f)
             k == MarkerTail(f.rest, m)
             t == WithoutTail(f.rest, m)
             o == IF f.inside THEN f.out ELSE f.out \o t
  <1>2. m \in Seq(Symbols) /\ Len(m) = 3
    BY MarkerOfIs, Markers
  <1>3. k \in Texts /\ t \in Texts
    <2> HIDE DEF m
    <2>1. k \in Seq(STRING) /\ SubSeq(f.rest, 1, Len(f.rest) - Len(k)) \in Seq(STRING)
      BY <1>1, <1>2, TailKept DEF Texts
    <2> QED
      BY <2>1 DEF Texts, WithoutTail
  <1>4. o \in Texts
    <2> HIDE DEF t
    <2> QED
      BY <1>1, <1>3, ConcatTexts
  <1>5. AtRest(f) = [inside |-> f.inside, rest |-> k, out |-> o]
    BY DEF AtRest
  <1> HIDE DEF k, o
  <1> QED
    BY <1>1, <1>3, <1>4, <1>5 DEF FilterStates

\* Filtered does what its definition says.
LEMMA FilteredIs == \A f \in FilterStates : Filtered[f] = FilterStep(Filtered, f)
  <1> DEFINE m == [f \in FilterStates |-> Len(f.rest)]
             G == [g \in [FilterStates -> FilterStates] |-> [f \in FilterStates |-> FilterStep(g, f)]]
             Runs(g) == g = [f \in FilterStates |-> FilterStep(g, f)]
  <1>1. m \in [FilterStates -> Nat]
    BY DEF FilterStates, Texts
  <1>2. G \in [[FilterStates -> FilterStates] -> [FilterStates -> FilterStates]]
    <2>1. ASSUME NEW g \in [FilterStates -> FilterStates], NEW f \in FilterStates
          PROVE  FilterStep(g, f) \in FilterStates
      BY BeyondTyped, AtRestTyped DEF FilterStep
    <2> QED
      BY <2>1
  <1>3. LocalIn(G, FilterStates, FilterStates, m)
    <2> SUFFICES ASSUME NEW u \in [FilterStates -> FilterStates], NEW v \in [FilterStates -> FilterStates],
                        NEW x \in FilterStates, \A y \in FilterStates : m[y] < m[x] => u[y] = v[y]
                 PROVE  G[u][x] = G[v][x]
      BY DEF LocalIn
    <2>1. FilterStep(u, x) = FilterStep(v, x)
      BY BeyondTyped DEF FilterStep
    <2> QED
      BY <2>1
  <1>4. [inside |-> TRUE, rest |-> <<>>, out |-> <<>>] \in FilterStates
    <2>1. <<>> \in Texts
      BY DEF Texts
    <2> QED
      BY <2>1 DEF FilterStates
  <1>5. PICK g : Fixed(g, G, FilterStates, FilterStates)
    <2> HIDE DEF m, G
    <2> QED
      BY <1>1, <1>2, <1>3, <1>4, Solution
  <1>6. Runs(g)
    BY <1>5 DEF Fixed
  <1> DEFINE Exact(h) ==
               h = [f \in FilterStates |->
                      IF Places(f.rest, MarkerOf(f)) # {} THEN h[Beyond(f)]
                      ELSE [f EXCEPT !.rest = MarkerTail(f.rest, MarkerOf(f)),
                                     !.out = IF f.inside THEN f.out ELSE f.out \o WithoutTail(f.rest, MarkerOf(f))]]
  <1>7. Filtered = CHOOSE i : Exact(i)
    BY DEF Filtered, FilterStates, Texts, MarkerOf, Beyond, WithoutTail
  <1>8. \A f \in FilterStates :
          [f EXCEPT !.rest = MarkerTail(f.rest, MarkerOf(f)),
                    !.out = IF f.inside THEN f.out ELSE f.out \o WithoutTail(f.rest, MarkerOf(f))] = AtRest(f)
    <2> SUFFICES ASSUME NEW f \in FilterStates
                 PROVE  [f EXCEPT !.rest = MarkerTail(f.rest, MarkerOf(f)),
                                  !.out = IF f.inside THEN f.out ELSE f.out \o WithoutTail(f.rest, MarkerOf(f))]
                        = AtRest(f)
      OBVIOUS
    <2> DEFINE a == MarkerTail(f.rest, MarkerOf(f))
               b == IF f.inside THEN f.out ELSE f.out \o WithoutTail(f.rest, MarkerOf(f))
    <2>1. AtRest(f) = [inside |-> f.inside, rest |-> a, out |-> b]
      BY DEF AtRest
    <2>2. AtRest(f) \in FilterStates
      BY AtRestTyped
    <2> HIDE DEF a, b
    <2>3. a \in Texts /\ b \in Texts
      BY <2>1, <2>2 DEF FilterStates
    <2>4. [f EXCEPT !.rest = a, !.out = b] = [inside |-> f.inside, rest |-> a, out |-> b]
      BY <2>3, WithRest
    <2> QED
      BY <2>1, <2>4 DEF a, b
  <1>9. Exact(g)
    <2>1. \A f \in FilterStates : g[f] = FilterStep(g, f)
      BY <1>6
    <2>2. g = [f \in FilterStates |-> g[f]]
      BY <1>6
    <2> QED
      BY <1>8, <2>1, <2>2 DEF FilterStep
  <1>10. Exact(Filtered)
    <2> HIDE DEF Exact
    <2> QED
      BY <1>7, <1>9
  <1>11. ASSUME NEW f \in FilterStates PROVE Filtered[f] = FilterStep(Filtered, f)
    BY <1>8, <1>10 DEF FilterStep
  <1> QED
    BY <1>11

-----------------------------------------------------------------------------
\* What the filter makes of a text.

\* What is public of a text that begins inside or outside private reasoning, and
\* what the visible text of a state of the filter comes to when u is still to come.
PublicFrom(inside, t) ==
  IF inside THEN (IF Places(t, Close) = {} THEN <<>> ELSE Public[After(t, Close)]) ELSE Public[t]
Means(f, u) == f.out \o PublicFrom(f.inside, f.rest \o u)
SameMeaning(f, r) == \A u \in Texts : Means(f, u) = Means(r, u)

\* What is public is a text, wherever one begins.
LEMMA PublicFromTyped ==
  ASSUME NEW i \in BOOLEAN, NEW t \in Texts
  PROVE  PublicFrom(i, t) \in Texts
  <1>1. <<>> \in Texts
    BY DEF Texts
  <1>2. Places(t, Close) # {} => After(t, Close) \in Texts
    BY Shorter
  <1> QED
    BY <1>1, <1>2, PublicTyped DEF PublicFrom

\* What is public of a text with private reasoning in it.
LEMMA PublicOpens ==
  ASSUME NEW t \in Texts, Places(t, Open) # {}
  PROVE  Public[t] = Before(t, Open) \o PublicFrom(TRUE, After(t, Open))
  BY PublicIs DEF PublicStep, PublicFrom

\* To go behind a marker does not change what the text comes to (push).
LEMMA BeyondMeans ==
  ASSUME NEW f \in FilterStates, Places(f.rest, MarkerOf(f)) # {}
  PROVE  SameMeaning(f, Beyond(f))
  <1> SUFFICES ASSUME NEW u \in Texts
               PROVE  Means(f, u) = Means(Beyond(f), u)
    BY DEF SameMeaning
  <1> DEFINE t == f.rest
             m == MarkerOf(f)
             w == t \o u
             a == After(t, m)
             b == Before(t, m)
  <1>1. f.inside \in BOOLEAN /\ t \in Texts /\ f.out \in Texts
    BY DEF FilterStates
  <1>2. m \in {Open, Close} /\ m \in Seq(Symbols) /\ Len(m) = 3 /\ Places(t, m) # {}
    BY MarkerOfIs, Markers
  <1>3. a \in Texts /\ b \in Texts
    <2> HIDE DEF m
    <2> QED
      BY <1>1, <1>2, Shorter
  <1>4. Places(w, m) # {} /\ Before(w, m) = b /\ After(w, m) = a \o u
    <2> HIDE DEF m, t
    <2>1. t \in Seq(STRING) /\ u \in Seq(STRING)
      BY <1>1 DEF Texts
    <2> QED
      BY <1>2, <2>1, GoesOn
  <1>5. w \in Texts /\ a \o u \in Texts
    BY <1>1, <1>3, ConcatTexts
  <1>6. Means(f, u) = f.out \o PublicFrom(f.inside, w)
    BY DEF Means
  <1>7. CASE f.inside
    <2>1. m = Close
      BY <1>7 DEF MarkerOf
    <2>2. PublicFrom(TRUE, w) = PublicFrom(FALSE, a \o u)
      BY <1>4, <2>1 DEF PublicFrom
    <2>3. Beyond(f).inside = FALSE /\ Beyond(f).rest = a /\ Beyond(f).out = f.out
      BY <1>7 DEF Beyond
    <2>4. f.inside = TRUE
      BY <1>1, <1>7
    <2> HIDE DEF a
    <2> QED
      BY <1>6, <2>2, <2>3, <2>4 DEF Means
  <1>8. CASE ~f.inside
    <2>1. m = Open /\ f.inside = FALSE
      BY <1>1, <1>8 DEF MarkerOf
    <2>2. Public[w] = b \o PublicFrom(TRUE, a \o u)
      BY <1>4, <1>5, <2>1, PublicOpens
    <2>3. PublicFrom(FALSE, w) = b \o PublicFrom(TRUE, a \o u)
      BY <2>2 DEF PublicFrom
    <2>4. Beyond(f).inside = TRUE /\ Beyond(f).rest = a /\ Beyond(f).out = f.out \o b
      BY <1>8 DEF Beyond
    <2>5. PublicFrom(TRUE, a \o u) \in Texts
      BY <1>5, PublicFromTyped
    <2> HIDE DEF a, b
    <2>6. Means(Beyond(f), u) = (f.out \o b) \o PublicFrom(TRUE, a \o u)
      BY <2>4 DEF Means
    <2>7. Means(f, u) = f.out \o (b \o PublicFrom(TRUE, a \o u))
      BY <1>6, <2>1, <2>3
    <2> QED
      BY <1>1, <1>3, <2>5, <2>6, <2>7, AssocTexts
  <1> QED
    BY <1>7, <1>8

\* Nor does showing all but what may begin a marker (push).
LEMMA SettledMeans ==
  ASSUME NEW f \in FilterStates, Places(f.rest, MarkerOf(f)) = {}
  PROVE  SameMeaning(f, AtRest(f)) /\ Places(AtRest(f).rest, MarkerOf(AtRest(f))) = {}
  <1> DEFINE t == f.rest
             m == MarkerOf(f)
             k == MarkerTail(t, m)
             s == WithoutTail(t, m)
  <1>1. f.inside \in BOOLEAN /\ t \in Texts /\ f.out \in Texts
    BY DEF FilterStates
  <1>2. m \in {Open, Close} /\ m \in Seq(Symbols) /\ Len(m) = 3 /\ Places(t, m) = {}
    BY MarkerOfIs, Markers
  <1>3. ASSUME NEW u \in Texts PROVE HeldBack(STRING, t, u, m, s, k)
    <2>1. t \in Seq(STRING) /\ u \in Seq(STRING)
      BY <1>1 DEF Texts
    <2>2. HeldBack(STRING, t, u, m, SubSeq(t, 1, Len(t) - Len(MarkerTail(t, m))), MarkerTail(t, m))
      <3> HIDE DEF m, t
      <3> QED
        BY <1>2, <2>1, TailHeld
    <2> QED
      BY <2>2 DEF WithoutTail
  <1>4. AtRest(f).inside = f.inside /\ AtRest(f).rest = k
        /\ AtRest(f).out = IF f.inside THEN f.out ELSE f.out \o s
    BY DEF AtRest
  <1>5. MarkerOf(AtRest(f)) = m
    BY <1>4 DEF MarkerOf
  <1>6. Places(AtRest(f).rest, MarkerOf(AtRest(f))) = {}
    <2>1. <<>> \in Texts
      BY DEF Texts
    <2> QED
      BY <1>3, <1>4, <1>5, <2>1 DEF HeldBack
  <1>7. ASSUME NEW u \in Texts PROVE Means(f, u) = Means(AtRest(f), u)
    <2> DEFINE w == t \o u
               v == k \o u
    <2> HIDE DEF m, s, k
    <2>1. /\ k \in Texts /\ s \in Texts /\ s \o k = t
          /\ Places(w, m) = {} <=> Places(v, m) = {}
          /\ Places(v, m) # {} => Before(w, m) = s \o Before(v, m) /\ After(w, m) = After(v, m)
      BY <1>3 DEF HeldBack, Texts
    <2>2. w \in Texts /\ v \in Texts
      BY <1>1, <2>1, ConcatTexts
    <2>3. w = s \o v
      <3>1. (s \o k) \o u = s \o (k \o u)
        BY <2>1, AssocTexts
      <3> QED
        BY <2>1, <3>1
    <2>4. Means(f, u) = f.out \o PublicFrom(f.inside, w)
      BY DEF Means
    <2>5. CASE f.inside
      <3>1. m = Close /\ f.inside = TRUE
        BY <1>1, <2>5 DEF MarkerOf, m
      <3>2. PublicFrom(TRUE, w) = PublicFrom(TRUE, v)
        <4> HIDE DEF w, v
        <4> QED
          BY <2>1, <3>1 DEF PublicFrom
      <3>3. Means(AtRest(f), u) = f.out \o PublicFrom(TRUE, v)
        BY <1>4, <3>1 DEF Means
      <3> QED
        BY <2>4, <3>1, <3>2, <3>3
    <2>6. CASE ~f.inside
      <3>1. m = Open /\ f.inside = FALSE
        BY <1>1, <2>6 DEF MarkerOf, m
      <3>2. Public[v] \in Texts
        BY <2>2, PublicTyped
      <3>3. Public[w] = s \o Public[v]
        <4>1. CASE Places(v, Open) = {}
          <5>1. Public[v] = v /\ Public[w] = w
            <6> HIDE DEF w, v
            <6> QED
              BY <2>1, <2>2, <3>1, <4>1, PublicIs DEF PublicStep
          <5> QED
            BY <2>3, <5>1
        <4>2. CASE Places(v, Open) # {}
          <5> DEFINE b == Before(v, Open)
                     p == PublicFrom(TRUE, After(v, Open))
          <5>1. Places(w, Open) # {} /\ Before(w, Open) = s \o b /\ After(w, Open) = After(v, Open)
            BY <2>1, <3>1, <4>2
          <5>2. b \in Texts /\ After(v, Open) \in Texts
            BY <2>2, <4>2, Shorter
          <5>3. p \in Texts
            BY <5>2, PublicFromTyped
          <5> HIDE DEF w, v
          <5>4. Public[v] = b \o p
            BY <2>2, <4>2, PublicOpens
          <5>5. Public[w] = (s \o b) \o p
            BY <2>2, <5>1, PublicOpens
          <5> HIDE DEF b, p
          <5> QED
            BY <2>1, <5>2, <5>3, <5>4, <5>5, AssocTexts
        <4> QED
          BY <4>1, <4>2
      <3>4. Means(f, u) = f.out \o (s \o Public[v])
        BY <2>4, <3>1, <3>3 DEF PublicFrom
      <3>5. Means(AtRest(f), u) = (f.out \o s) \o Public[v]
        BY <1>4, <3>1 DEF Means, PublicFrom
      <3> QED
        BY <1>1, <2>1, <3>2, <3>4, <3>5, AssocTexts
    <2> QED
      BY <2>5, <2>6
  <1> QED
    BY <1>6, <1>7 DEF SameMeaning

\* What Filtered makes of a state: all that can be shown is shown, and no more.
Sound(f, r) ==
  r \in FilterStates /\ Places(r.rest, MarkerOf(r)) = {} /\ SameMeaning(f, r)

\* So push keeps what the text comes to, whatever is still to come: of the lengths
\* for which it does not none is the smallest.
LEMMA FilterSound == \A f \in FilterStates : Sound(f, Filtered[f])
  <1> DEFINE Bad == {i \in Nat : \E f \in FilterStates : Len(f.rest) = i /\ ~Sound(f, Filtered[f])}
  <1>1. ASSUME Bad # {} PROVE FALSE
    <2>0. Bad \in SUBSET Nat
      OBVIOUS
    <2>1. PICK i \in Bad : \A j \in Bad : i <= j
      <3> HIDE DEF Bad
      <3> QED
        BY <1>1, <2>0, SmallestOf
    <2>2. PICK f \in FilterStates : Len(f.rest) = i /\ ~Sound(f, Filtered[f])
      BY <2>1
    <2>3. Filtered[f] = FilterStep(Filtered, f)
      BY FilteredIs
    <2>4. CASE Places(f.rest, MarkerOf(f)) # {}
      <3> DEFINE g == Beyond(f)
                 n == Len(g.rest)
      <3>1. g \in FilterStates /\ n \in Nat /\ n < Len(f.rest)
        BY <2>4, BeyondTyped
      <3>2. n \notin Bad
        <4> HIDE DEF Bad, n
        <4>1. i \in Nat /\ n \in Nat /\ n < i
          BY <2>0, <2>1, <2>2, <3>1
        <4> QED
          BY <2>1, <4>1
      <3>3. Sound(g, Filtered[g])
        <4> HIDE DEF g
        <4> QED
          BY <3>1, <3>2
      <3>4. Filtered[f] = Filtered[g]
        BY <2>3, <2>4 DEF FilterStep
      <3>5. SameMeaning(f, g)
        BY <2>4, BeyondMeans
      <3> HIDE DEF g
      <3>6. Sound(f, Filtered[f])
        BY <3>3, <3>4, <3>5 DEF Sound, SameMeaning
      <3> QED
        BY <2>2, <3>6
    <2>5. CASE Places(f.rest, MarkerOf(f)) = {}
      <3>1. Filtered[f] = AtRest(f)
        BY <2>3, <2>5 DEF FilterStep
      <3>2. Sound(f, AtRest(f))
        BY <2>5, SettledMeans, AtRestTyped DEF Sound
      <3> QED
        BY <2>2, <3>1, <3>2
    <2> QED
      BY <2>4, <2>5
  <1>2. ASSUME NEW f \in FilterStates PROVE Sound(f, Filtered[f])
    <2>1. Len(f.rest) \in Nat
      BY DEF FilterStates, Texts
    <2>2. Len(f.rest) \notin Bad
      BY <1>1
    <2> QED
      BY <2>1, <2>2
  <1> QED
    BY <1>2

-----------------------------------------------------------------------------
\* The inductive invariant.

\* The values of the parts of a round.
ChunkKinds == {"private", "text", "tool", "finish"}
LinkStates == [open : BOOLEAN, no : Nat, left : Texts, sent : ChunkKinds \cup {"nothing"}]
GivenStates == [from : SUBSET Nat, text : Texts, kinds : SUBSET ChunkKinds]

\* The parts of a round have their types.
RoundTyped ==
  /\ link \in LinkStates /\ attempt \in 1..MaxAttempts /\ restart_count \in 0..MaxPrecommitRestarts
  /\ buffered \in Seq(Chunk) /\ Len(buffered) < MaxBuffered /\ pending \in Seq(Chunk)
  /\ committed \in BOOLEAN /\ finished \in BOOLEAN /\ ended \in {"no", "clean", "error"}
  /\ filter \in FilterStates /\ given \in GivenStates

\* The finish reason was passed on, or will be.
FinishComes(kinds, chunks) == "finish" \in kinds \/ \E i \in 1..Len(chunks) : chunks[i].kind = "finish"

\* What the order of the steps keeps: after the commit there is no new connection.
RoundOrdered ==
  /\ link.no <= restart_count + 1 /\ (~link.open /\ ended = "no" => link.no <= restart_count)
  /\ committed => buffered = <<>> /\ (link.open \/ ended # "no")
  /\ pending # <<>> => committed /\ link.open /\ ended = "no"
  /\ given.from \subseteq {link.no} /\ (given.from # {} => committed)
  /\ finished => committed /\ link.left = <<>> /\ FinishComes(given.kinds, pending)

\* The filter stands for the text passed on, whatever is still to come.
FilterAgrees == /\ Places(filter.rest, MarkerOf(filter)) = {}
                /\ \A u \in Texts : Public[given.text \o u] = Means(filter, u)
RoundShown ==
  /\ ended # "clean" => FilterAgrees
  /\ ended = "clean" => filter.out = Public[given.text] /\ finished /\ "finish" \in given.kinds

RoundInv == RoundTyped /\ RoundOrdered /\ RoundShown

\* Nothing is a text, and a sequence of chunks.
LEMMA EmptyTexts == <<>> \in Texts /\ Len(<<>>) = 0 /\ <<>> \in Seq(Chunk)
  BY DEF Texts

\* There is no marker in an empty sequence.
LEMMA NoPlaceIn ==
  ASSUME NEW X, NEW Y, NEW t \in Seq(X), NEW m \in Seq(Y), Len(m) = 3
  PROVE  Len(t) = 0 => Places(t, m) = {}
  <1>1. Places(t, m) = {i \in 1..(Len(t) - 2) : At(t, m, i)}
    BY PlacesAre
  <1>2. Len(t) = 0 => 1..(Len(t) - 2) = {}
    OBVIOUS
  <1> QED
    BY <1>1, <1>2

\* Nor in an empty text.
LEMMA NoPlaces ==
  ASSUME NEW e \in Texts, Len(e) = 0, NEW m \in {Open, Close}
  PROVE  Places(e, m) = {}
  <1>1. m \in Seq(Symbols) /\ Len(m) = 3
    BY Markers
  <1>2. e \in Seq(STRING)
    BY DEF Texts
  <1> QED
    BY <1>1, <1>2, NoPlaceIn

\* A round begins with nothing sent and nothing shown.
LEMMA RoundBegins == StreamInit => RoundInv
  <1> SUFFICES ASSUME StreamInit PROVE RoundInv
    OBVIOUS
  <1>1. /\ link.open = FALSE /\ link.no = 0 /\ link.left = <<>> /\ link.sent = "nothing"
        /\ link \in LinkStates
    <2>1. <<>> \in Texts
      BY EmptyTexts
    <2> QED
      BY <2>1 DEF StreamInit, NoLink, LinkStates
  <1>2. filter = [inside |-> FALSE, rest |-> <<>>, out |-> <<>>] /\ filter \in FilterStates
    <2>1. <<>> \in Texts
      BY EmptyTexts
    <2> QED
      BY <2>1 DEF StreamInit, FilterStates
  <1>3. given.from = {} /\ given.text = <<>> /\ given.kinds = {} /\ given \in GivenStates
    <2>1. <<>> \in Texts
      BY EmptyTexts
    <2> QED
      BY <2>1 DEF StreamInit, GivenStates
  <1>4. RoundTyped
    <2>1. buffered \in Seq(Chunk) /\ pending \in Seq(Chunk) /\ Len(buffered) = 0
      BY EmptyTexts DEF StreamInit
    <2>2. attempt = 1 /\ restart_count = 0 /\ committed = FALSE /\ finished = FALSE /\ ended = "no"
      BY DEF StreamInit
    <2>3. attempt \in 1..MaxAttempts /\ restart_count \in 0..MaxPrecommitRestarts /\ Len(buffered) < MaxBuffered
      BY <2>1, <2>2, StreamAssumption
    <2> QED
      BY <1>1, <1>2, <1>3, <2>1, <2>2, <2>3 DEF RoundTyped
  <1>5. RoundOrdered
    <2>1. restart_count = 0 /\ committed = FALSE /\ finished = FALSE /\ pending = <<>>
      BY DEF StreamInit
    <2> QED
      BY <1>1, <1>3, <2>1 DEF RoundOrdered
  <1>6. FilterAgrees
    <2>1. filter.inside = FALSE /\ filter.rest = <<>> /\ filter.out = <<>>
      BY <1>2
    <2>2. Places(filter.rest, MarkerOf(filter)) = {}
      BY <2>1, EmptyTexts, NoPlaces, MarkerOfIs
    <2>3. ASSUME NEW u \in Texts PROVE Public[given.text \o u] = Means(filter, u)
      <3>1. <<>> \o u = u /\ <<>> \o Public[u] = Public[u]
        BY PublicTyped DEF Texts
      <3>2. given.text \o u = u
        BY <1>3, <3>1
      <3>3. Means(filter, u) = Public[u]
        BY <2>1, <3>1 DEF Means, PublicFrom
      <3> QED
        BY <3>2, <3>3
    <2> QED
      BY <2>2, <2>3 DEF FilterAgrees
  <1>7. RoundShown
    BY <1>6 DEF RoundShown, StreamInit
  <1> QED
    BY <1>4, <1>5, <1>7 DEF RoundInv

\* A connection that fails, closes or falls silent.
LEMMA LinkStops ==
  ASSUME NEW transient \in BOOLEAN, LinkFails(transient) \/ LinkCloses \/ LinkSilent
  PROVE  /\ Listening
         /\ \/ NotCommitted /\ Restarts
            \/ Ends("error")
            \/ committed /\ finished /\ Ends("clean")
  BY DEF LinkFails, LinkCloses, LinkSilent

\* What a step of a round may be.
LEMMA StreamCases ==
  ASSUME StreamNext
  PROVE  \/ \E reply \in Replies : Connect(reply)
         \/ \E transient \in BOOLEAN : ConnectFails(transient)
         \/ \E chunk \in Chunks : Receive(chunk)
         \/ Deliver
         \/ Listening /\ NotCommitted /\ Restarts
         \/ Listening /\ Ends("error")
         \/ Listening /\ committed /\ finished /\ Ends("clean")
  BY LinkStops DEF StreamNext

\* The fields of a connection.
LEMMA LinkFields ==
  \A l \in LinkStates : /\ l.open \in BOOLEAN /\ l.no \in Nat /\ l.left \in Texts
                        /\ l.sent \in ChunkKinds \cup {"nothing"}
  BY DEF LinkStates

\* A connection that is closed, or has sent a chunk.
LEMMA LinkClosed ==
  ASSUME link \in LinkStates, link' = [link EXCEPT !.open = FALSE]
  PROVE  link' \in LinkStates /\ link'.open = FALSE /\ link'.no = link.no /\ link'.left = link.left
  BY DEF LinkStates

\* What a connection may send; the finish reason is the last of it.
LEMMA ChunkIs ==
  ASSUME link \in LinkStates, NEW chunk \in Chunks
  PROVE  chunk \in Chunk /\ Len(chunk.text) \in Nat /\ (chunk.kind = "finish" => link.left = <<>>)
  <1>1. link.left \in Texts /\ Len(link.left) \in Nat
    BY LinkFields DEF Texts
  <1>2. \/ \E n \in 1..Len(link.left) : chunk = [kind |-> "text", text |-> SubSeq(link.left, 1, n)]
        \/ \E k \in {"private", "tool", "finish"} :
             chunk = [kind |-> k, text |-> <<>>] /\ (k # "private" => link.left = <<>>)
    BY DEF Chunks
  <1>3. ASSUME NEW n \in 1..Len(link.left), chunk = [kind |-> "text", text |-> SubSeq(link.left, 1, n)]
        PROVE  chunk \in Chunk /\ Len(chunk.text) \in Nat /\ chunk.kind = "text"
    <2> DEFINE x == SubSeq(link.left, 1, n)
    <2>1. x \in Seq(STRING) /\ Len(x) \in Nat
      BY <1>1, Slice DEF Texts
    <2> HIDE DEF x
    <2>2. chunk = [kind |-> "text", text |-> x]
      BY <1>3 DEF x
    <2> QED
      BY <2>1, <2>2 DEF Chunk
  <1>4. ASSUME NEW k \in {"private", "tool", "finish"}, chunk = [kind |-> k, text |-> <<>>]
        PROVE  chunk \in Chunk /\ Len(chunk.text) \in Nat /\ chunk.kind = k
    <2>1. <<>> \in Seq(STRING) /\ Len(<<>>) = 0
      OBVIOUS
    <2> QED
      BY <1>4, <2>1 DEF Chunk
  <1> QED
    BY <1>2, <1>3, <1>4

\* A connection that has sent a chunk has less left, and nothing if it had nothing.
LEMMA LinkSends ==
  ASSUME link \in LinkStates, NEW chunk \in Chunks,
         link' = [link EXCEPT !.sent = chunk.kind, !.left = SubSeq(@, Len(chunk.text) + 1, Len(@))]
  PROVE  /\ link' \in LinkStates /\ link'.open = link.open /\ link'.no = link.no
         /\ link.left = <<>> => link'.left = <<>>
  <1> DEFINE x == SubSeq(link.left, Len(chunk.text) + 1, Len(link.left))
  <1>1. link.left \in Texts /\ chunk \in Chunk /\ Len(chunk.text) \in Nat
    BY ChunkIs, LinkFields
  <1>2. x \in Texts
    BY <1>1 DEF Texts
  <1>3. link.left = <<>> => x = <<>>
    <2> SUFFICES ASSUME link.left = <<>> PROVE x = <<>>
      OBVIOUS
    <2>1. Len(link.left) = 0
      OBVIOUS
    <2>2. Len(x) = 0
      BY <1>1, <2>1 DEF Texts
    <2> HIDE DEF x
    <2> QED
      BY <1>2, <2>2 DEF Texts
  <1>4. chunk.kind \in ChunkKinds
    BY <1>1 DEF Chunk, ChunkKinds
  <1> HIDE DEF x
  <1>5. link' = [link EXCEPT !.sent = chunk.kind, !.left = x]
    BY DEF x
  <1>6. link'.left = x /\ link'.open = link.open /\ link'.no = link.no /\ link' \in LinkStates
    BY <1>2, <1>4, <1>5 DEF LinkStates
  <1> QED
    BY <1>3, <1>6

\* One chunk is passed on.
LEMMA Passed ==
  ASSUME RoundTyped, Deliver
  PROVE  /\ Head(pending) \in Chunk /\ Tail(pending) \in Seq(Chunk)
         /\ given' \in GivenStates /\ given'.from = given.from \cup {link.no}
         /\ given'.text = given.text \o Head(pending).text
         /\ given'.kinds = given.kinds \cup {Head(pending).kind}
  <1>1. pending \in Seq(Chunk) /\ pending # <<>>
    BY DEF RoundTyped, Deliver
  <1>2. Head(pending) \in Chunk /\ Tail(pending) \in Seq(Chunk)
    BY <1>1
  <1> DEFINE h == Head(pending)
  <1> HIDE DEF h
  <1>3. h \in Chunk
    BY <1>2 DEF h
  <1>4. h.kind \in ChunkKinds /\ h.text \in Texts
    BY <1>3 DEF Chunk, ChunkKinds, Texts
  <1>5. given.from \in SUBSET Nat /\ given.text \in Texts /\ given.kinds \in SUBSET ChunkKinds /\ link.no \in Nat
    BY DEF RoundTyped, GivenStates, LinkStates
  <1>6. given' = [from |-> given.from \cup {link.no}, text |-> given.text \o h.text,
                  kinds |-> given.kinds \cup {h.kind}]
    BY DEF Deliver, h
  <1>7. given.text \o h.text \in Texts
    BY <1>4, <1>5, ConcatTexts
  <1>8. given' \in GivenStates
    BY <1>4, <1>5, <1>6, <1>7 DEF GivenStates
  <1> QED
    BY <1>2, <1>6, <1>8 DEF h

\* It goes through the filter.
LEMMA PushedIs ==
  ASSUME NEW f \in FilterStates, NEW x \in Texts
  PROVE  /\ [f EXCEPT !.rest = @ \o x] \in FilterStates
         /\ \A u \in Texts : Means([f EXCEPT !.rest = @ \o x], u) = Means(f, x \o u)
  <1> DEFINE g == [f EXCEPT !.rest = @ \o x]
  <1>1. f.inside \in BOOLEAN /\ f.rest \in Texts /\ f.out \in Texts
    BY DEF FilterStates
  <1>2. f.rest \o x \in Texts
    BY <1>1, ConcatTexts
  <1>3. g \in FilterStates /\ g.inside = f.inside /\ g.rest = f.rest \o x /\ g.out = f.out
    BY <1>2 DEF FilterStates
  <1> HIDE DEF g
  <1>4. ASSUME NEW u \in Texts PROVE Means(g, u) = Means(f, x \o u)
    <2>1. (f.rest \o x) \o u = f.rest \o (x \o u)
      BY <1>1, AssocTexts
    <2> QED
      BY <1>3, <2>1 DEF Means
  <1> QED
    BY <1>3, <1>4 DEF g

\* A chunk passed on (push) leaves the filter standing for the text.
LEMMA DeliverAgrees ==
  ASSUME RoundTyped, FilterAgrees, Deliver
  PROVE  filter' \in FilterStates /\ FilterAgrees'
  <1> DEFINE x == Head(pending).text
             g == [filter EXCEPT !.rest = @ \o x]
  <1>1. x \in Texts
    BY Passed DEF Chunk, Texts
  <1>2. filter \in FilterStates /\ given.text \in Texts
    BY DEF RoundTyped, GivenStates
  <1> HIDE DEF x
  <1>3. g \in FilterStates /\ \A u \in Texts : Means(g, u) = Means(filter, x \o u)
    BY <1>1, <1>2, PushedIs
  <1>4. filter' = Filtered[g] /\ given'.text = given.text \o x
    BY Passed DEF Deliver, Pushed, x
  <1> HIDE DEF g
  <1>5. Sound(g, filter')
    BY <1>3, <1>4, FilterSound
  <1>6. ASSUME NEW u \in Texts PROVE Public[given'.text \o u] = Means(filter', u)
    <2>1. x \o u \in Texts
      BY <1>1, ConcatTexts
    <2>2. (given.text \o x) \o u = given.text \o (x \o u)
      BY <1>1, <1>2, AssocTexts
    <2>3. Public[given.text \o (x \o u)] = Means(filter, x \o u)
      BY <2>1 DEF FilterAgrees
    <2>4. Means(filter', u) = Means(g, u)
      BY <1>5 DEF Sound, SameMeaning
    <2> QED
      BY <1>3, <1>4, <2>2, <2>3, <2>4
  <1> QED
    BY <1>5, <1>6 DEF FilterAgrees, Sound

\* The end of a round shows what is left.
LEMMA FlushedIs ==
  ASSUME RoundTyped, FilterAgrees
  PROVE  Flushed \in Texts /\ Flushed = Public[given.text]
  <1>1. filter.inside \in BOOLEAN /\ filter.rest \in Texts /\ filter.out \in Texts /\ given.text \in Texts
    BY DEF RoundTyped, FilterStates, GivenStates
  <1>2. <<>> \in Texts /\ given.text \o <<>> = given.text /\ filter.rest \o <<>> = filter.rest
        /\ filter.out \o <<>> = filter.out
    BY <1>1 DEF Texts
  <1>3. Public[given.text] = filter.out \o PublicFrom(filter.inside, filter.rest)
    <2>1. Public[given.text \o <<>>] = Means(filter, <<>>)
      BY <1>2 DEF FilterAgrees
    <2> QED
      BY <1>2, <2>1 DEF Means
  <1>4. CASE filter.inside
    <2>1. Places(filter.rest, Close) = {}
      BY <1>4 DEF FilterAgrees, MarkerOf
    <2>2. PublicFrom(filter.inside, filter.rest) = <<>>
      BY <1>4, <2>1 DEF PublicFrom
    <2> QED
      BY <1>1, <1>2, <1>3, <1>4, <2>2 DEF Flushed
  <1>5. CASE ~filter.inside
    <2>1. Places(filter.rest, Open) = {}
      BY <1>5 DEF FilterAgrees, MarkerOf
    <2>2. Public[filter.rest] = filter.rest
      BY <1>1, <2>1, PublicIs DEF PublicStep
    <2>3. PublicFrom(filter.inside, filter.rest) = filter.rest
      BY <1>5, <2>2 DEF PublicFrom
    <2>4. filter.out \o filter.rest \in Texts
      BY <1>1, ConcatTexts
    <2> QED
      BY <1>3, <1>5, <2>3, <2>4 DEF Flushed
  <1> QED
    BY <1>4, <1>5

\* So the end (finish) leaves the whole public text.
LEMMA FlushedFilter ==
  ASSUME RoundTyped, FilterAgrees, filter' = [filter EXCEPT !.out = Flushed, !.rest = <<>>]
  PROVE  filter' \in FilterStates /\ filter'.out = Public[given.text]
  <1> DEFINE o == Flushed
             e == <<>>
  <1>1. o \in Texts /\ o = Public[given.text] /\ e \in Texts
    BY FlushedIs, EmptyTexts
  <1> HIDE DEF o, e
  <1>2. filter' = [filter EXCEPT !.out = o, !.rest = e]
    BY DEF o, e
  <1>3. filter \in FilterStates
    BY DEF RoundTyped
  <1>4. filter' \in FilterStates /\ filter'.out = o
    BY <1>1, <1>2, <1>3 DEF FilterStates
  <1> QED
    BY <1>1, <1>4

\* A connection is established (RateGate::run).
LEMMA ConnectTyped ==
  ASSUME RoundTyped, NEW reply \in Replies, Connect(reply)
  PROVE  RoundTyped' /\ link'.open = TRUE /\ link'.no = link.no + 1
  <1>1. reply \in Texts
    BY StreamAssumption DEF Texts
  <1>2. link.no \in Nat
    BY LinkFields DEF RoundTyped
  <1>3. link' = [open |-> TRUE, no |-> link.no + 1, left |-> reply, sent |-> "nothing"]
    BY DEF Connect
  <1>4. link' \in LinkStates /\ link'.open = TRUE /\ link'.no = link.no + 1
    BY <1>1, <1>2, <1>3 DEF LinkStates
  <1>5. attempt' \in 1..MaxAttempts
    <2>1. attempt' = 1
      BY DEF Connect
    <2> QED
      BY <2>1, StreamAssumption
  <1>6. UNCHANGED <<restart_count, buffered, committed, finished, pending, filter, given, ended>>
    BY DEF Connect
  <1> QED
    BY <1>4, <1>5, <1>6 DEF RoundTyped

\* It is not: another attempt, a restart or the end.
LEMMA ConnectFailsTyped ==
  ASSUME RoundTyped, NEW transient \in BOOLEAN, ConnectFails(transient)
  PROVE  RoundTyped'
  <1>1. attempt' \in 1..MaxAttempts
    <2>1. attempt \in 1..MaxAttempts
      BY DEF RoundTyped
    <2>2. attempt' = 1 \/ attempt' = attempt \/ (attempt < MaxAttempts /\ attempt' = attempt + 1)
      BY DEF ConnectFails
    <2> QED
      BY <2>1, <2>2, StreamAssumption
  <1>2. restart_count' \in 0..MaxPrecommitRestarts
    <2>1. restart_count \in 0..MaxPrecommitRestarts
      BY DEF RoundTyped
    <2>2. \/ restart_count' = restart_count
          \/ restart_count < MaxPrecommitRestarts /\ restart_count' = restart_count + 1
      BY DEF ConnectFails, NotCommitted
    <2> QED
      BY <2>1, <2>2, StreamAssumption
  <1>3. ended' \in {"no", "clean", "error"}
    BY DEF ConnectFails, RoundTyped
  <1>4. UNCHANGED <<link, buffered, committed, finished, pending, filter, given>>
    BY DEF ConnectFails
  <1> QED
    BY <1>1, <1>2, <1>3, <1>4 DEF RoundTyped

\* A chunk comes: it is held back or commits (chunk_commits_protocol).
LEMMA ReceiveTyped ==
  ASSUME RoundTyped, NEW chunk \in Chunks, Receive(chunk)
  PROVE  RoundTyped'
  <1>1. link \in LinkStates
    BY DEF RoundTyped
  <1>2. chunk \in Chunk
    BY <1>1, ChunkIs
  <1>3. link' \in LinkStates
    <2>1. link' = [link EXCEPT !.sent = chunk.kind, !.left = SubSeq(@, Len(chunk.text) + 1, Len(@))]
      BY DEF Receive
    <2> QED
      BY <1>1, <2>1, LinkSends
  <1>4. buffered \in Seq(Chunk) /\ Append(buffered, chunk) \in Seq(Chunk)
        /\ Len(Append(buffered, chunk)) = Len(buffered) + 1 /\ Len(buffered) \in Nat
    BY <1>2 DEF RoundTyped
  <1>5. buffered' \in Seq(Chunk) /\ pending' \in Seq(Chunk) /\ committed' \in BOOLEAN
    BY <1>4, EmptyTexts DEF Receive, RoundTyped
  <1>6. Len(buffered') < MaxBuffered
    <2>1. \/ buffered' = <<>>
          \/ buffered' = Append(buffered, chunk) /\ ~(Len(buffered) + 1 >= MaxBuffered)
      BY DEF Receive, Commits
    <2>2. CASE buffered' = <<>>
      BY <2>2, EmptyTexts, StreamAssumption
    <2>3. CASE buffered' = Append(buffered, chunk) /\ ~(Len(buffered) + 1 >= MaxBuffered)
      BY <2>3, <1>4, StreamAssumption
    <2> QED
      BY <2>1, <2>2, <2>3
  <1>7. finished' \in BOOLEAN
    BY DEF Receive, RoundTyped
  <1>8. UNCHANGED <<attempt, restart_count, filter, given, ended>>
    BY DEF Receive
  <1> QED
    BY <1>3, <1>5, <1>6, <1>7, <1>8 DEF RoundTyped

\* A chunk is passed on.
LEMMA DeliverTyped ==
  ASSUME RoundTyped, FilterAgrees, Deliver
  PROVE  RoundTyped'
  <1>1. filter' \in FilterStates
    BY DeliverAgrees
  <1>2. given' \in GivenStates /\ Tail(pending) \in Seq(Chunk)
    BY Passed
  <1>3. pending' = Tail(pending)
    BY DEF Deliver
  <1>4. UNCHANGED <<link, attempt, restart_count, buffered, committed, finished, ended>>
    BY DEF Deliver
  <1> QED
    BY <1>1, <1>2, <1>3, <1>4 DEF RoundTyped

\* The round starts again (prepare_restart).
LEMMA RestartsTyped ==
  ASSUME RoundTyped, NotCommitted, Restarts
  PROVE  RoundTyped' /\ link'.open = FALSE /\ link'.no = link.no /\ link'.left = link.left
  <1>1. link \in LinkStates /\ link' = [link EXCEPT !.open = FALSE]
    BY DEF RoundTyped, Restarts
  <1>2. link' \in LinkStates /\ link'.open = FALSE /\ link'.no = link.no /\ link'.left = link.left
    BY <1>1, LinkClosed
  <1>3. attempt' \in 1..MaxAttempts /\ restart_count' \in 0..MaxPrecommitRestarts
    <2>1. restart_count \in 0..MaxPrecommitRestarts /\ restart_count < MaxPrecommitRestarts
      BY DEF RoundTyped, NotCommitted
    <2>2. attempt' = 1 /\ restart_count' = restart_count + 1
      BY DEF Restarts
    <2> QED
      BY <2>1, <2>2, StreamAssumption
  <1>4. buffered' \in Seq(Chunk) /\ pending' \in Seq(Chunk) /\ Len(buffered') < MaxBuffered
    <2>1. buffered' = <<>> /\ pending' = <<>>
      BY DEF Restarts
    <2>2. Len(buffered') = 0 /\ 0 < MaxBuffered
      BY <2>1, EmptyTexts, StreamAssumption
    <2> QED
      BY <2>1, <2>2, EmptyTexts
  <1>5. finished' = FALSE /\ UNCHANGED <<committed, filter, given, ended>>
    BY DEF Restarts
  <1> QED
    BY <1>2, <1>3, <1>4, <1>5 DEF RoundTyped

\* The round ends.
LEMMA EndsTyped ==
  ASSUME RoundTyped, FilterAgrees, NEW how \in {"clean", "error"}, Ends(how)
  PROVE  RoundTyped' /\ link'.open = FALSE /\ link'.no = link.no /\ link'.left = link.left
  <1>1. link \in LinkStates /\ link' = [link EXCEPT !.open = FALSE]
    BY DEF RoundTyped, Ends
  <1>2. link' \in LinkStates /\ link'.open = FALSE /\ link'.no = link.no /\ link'.left = link.left
    BY <1>1, LinkClosed
  <1>3. filter' \in FilterStates
    <2>1. CASE how = "clean"
      BY <2>1, FlushedFilter DEF Ends
    <2>2. CASE how # "clean"
      BY <2>2 DEF Ends, RoundTyped
    <2> QED
      BY <2>1, <2>2
  <1>4. ended' = how /\ UNCHANGED <<attempt, restart_count, buffered, committed, finished, pending, given>>
    BY DEF Ends
  <1> QED
    BY <1>2, <1>3, <1>4 DEF RoundTyped

-----------------------------------------------------------------------------
\* A connection is established only before the commit, so nothing was passed on.
LEMMA ConnectOrdered ==
  ASSUME RoundTyped, RoundOrdered, NEW reply \in Replies, Connect(reply)
  PROVE  RoundOrdered'
  <1>1. link'.open = TRUE /\ link'.no = link.no + 1
    BY ConnectTyped
  <1>2. ended = "no" /\ ~link.open
        /\ UNCHANGED <<restart_count, buffered, committed, finished, pending, filter, given, ended>>
    BY DEF Connect
  <1>3. ~committed /\ pending = <<>> /\ given.from = {} /\ ~finished
    BY <1>2 DEF RoundOrdered
  <1>4. link'.no <= restart_count + 1
    <2>1. link.no \in Nat /\ restart_count \in Nat
      BY LinkFields DEF RoundTyped
    <2>2. link.no <= restart_count
      BY <1>2 DEF RoundOrdered
    <2> QED
      BY <1>1, <2>1, <2>2
  <1> QED
    BY <1>1, <1>2, <1>3, <1>4 DEF RoundOrdered

\* The same of a failure; a restart makes room for the next connection.
LEMMA ConnectFailsOrdered ==
  ASSUME RoundTyped, RoundOrdered, NEW transient \in BOOLEAN, ConnectFails(transient)
  PROVE  RoundOrdered'
  <1>1. ended = "no" /\ ~link.open
        /\ UNCHANGED <<link, buffered, committed, finished, pending, filter, given>>
    BY DEF ConnectFails
  <1>2. ~committed /\ pending = <<>> /\ given.from = {} /\ ~finished /\ link.no <= restart_count
    BY <1>1 DEF RoundOrdered
  <1>3. link.no \in Nat /\ restart_count \in Nat
    BY LinkFields DEF RoundTyped
  <1>4. restart_count' = restart_count \/ restart_count' = restart_count + 1
    BY DEF ConnectFails
  <1>5. link.no <= restart_count'  /\ link.no <= restart_count' + 1
    BY <1>2, <1>3, <1>4
  <1> QED
    BY <1>1, <1>2, <1>5 DEF RoundOrdered

\* A finish reason commits, and waits to be passed on.
LEMMA ReceiveOrdered ==
  ASSUME RoundTyped, RoundOrdered, NEW chunk \in Chunks, Receive(chunk)
  PROVE  RoundOrdered'
  <1>1. link \in LinkStates
    BY DEF RoundTyped
  <1>2. link'.open = link.open /\ link'.no = link.no /\ (link.left = <<>> => link'.left = <<>>)
    <2>1. link' = [link EXCEPT !.sent = chunk.kind, !.left = SubSeq(@, Len(chunk.text) + 1, Len(@))]
      BY DEF Receive
    <2> QED
      BY <1>1, <2>1, LinkSends
  <1>3. ended = "no" /\ link.open /\ pending = <<>> /\ UNCHANGED <<attempt, restart_count, filter, given, ended>>
    BY DEF Receive
  <1>4. link'.no <= restart_count' + 1
    BY <1>2, <1>3 DEF RoundOrdered
  <1>5. committed => committed'
    BY DEF Receive
  <1>6. committed' => buffered' = <<>>
    BY DEF Receive, RoundOrdered
  <1>7. pending' # <<>> => committed'
    BY <1>3 DEF Receive
  <1>8. finished' => committed' /\ link'.left = <<>> /\ FinishComes(given.kinds, pending')
    <2>1. CASE chunk.kind = "finish"
      <3>1. link.left = <<>>
        BY <1>1, <2>1, ChunkIs
      <3>2. committed' /\ pending' = Append(buffered, chunk)
        BY <2>1 DEF Receive, Commits
      <3>3. \E i \in 1..Len(pending') : pending'[i].kind = "finish"
        <4>1. buffered \in Seq(Chunk) /\ chunk \in Chunk
          BY <1>1, ChunkIs DEF RoundTyped
        <4>2. Len(buffered) + 1 \in 1..Len(pending') /\ pending'[Len(buffered) + 1] = chunk
          BY <3>2, <4>1
        <4> QED
          BY <2>1, <4>2
      <3> QED
        BY <1>2, <3>1, <3>2, <3>3 DEF FinishComes
    <2>2. CASE chunk.kind # "finish" /\ finished
      <3>1. committed /\ link.left = <<>> /\ "finish" \in given.kinds
        <4>1. committed /\ link.left = <<>> /\ FinishComes(given.kinds, pending)
          BY <2>2 DEF RoundOrdered
        <4>2. Len(pending) = 0
          BY <1>3, EmptyTexts
        <4>3. 1..Len(pending) = {}
          BY <4>2
        <4> QED
          BY <4>1, <4>3 DEF FinishComes
      <3> QED
        BY <1>2, <1>5, <3>1 DEF FinishComes
    <2>3. CASE chunk.kind # "finish" /\ ~finished
      BY <2>3 DEF Receive
    <2> QED
      BY <2>1, <2>2, <2>3
  <1>9. given'.from \subseteq {link'.no} /\ (given'.from # {} => committed')
    BY <1>2, <1>3, <1>5 DEF RoundOrdered
  <1> QED
    BY <1>2, <1>3, <1>4, <1>6, <1>7, <1>8, <1>9 DEF RoundOrdered

\* What waits is passed on of the connection at hand.
LEMMA DeliverOrdered ==
  ASSUME RoundTyped, RoundOrdered, Deliver
  PROVE  RoundOrdered'
  <1>1. pending # <<>> /\ pending' = Tail(pending)
        /\ UNCHANGED <<link, attempt, restart_count, buffered, committed, finished, ended>>
    BY DEF Deliver
  <1>2. given'.from = given.from \cup {link.no} /\ given'.kinds = given.kinds \cup {Head(pending).kind}
    BY Passed
  <1>3. committed /\ link.open /\ ended = "no"
    BY <1>1 DEF RoundOrdered
  <1>4. FinishComes(given.kinds, pending) => FinishComes(given'.kinds, pending')
    <2> SUFFICES ASSUME FinishComes(given.kinds, pending), "finish" \notin given'.kinds
                 PROVE  \E i \in 1..Len(pending') : pending'[i].kind = "finish"
      BY DEF FinishComes
    <2>1. PICK i \in 1..Len(pending) : pending[i].kind = "finish"
      BY <1>2 DEF FinishComes
    <2>2. pending \in Seq(Chunk) /\ Len(pending) \in Nat
      BY DEF RoundTyped
    <2>3. i # 1
      BY <1>1, <1>2, <2>1, <2>2
    <2>4. Len(pending') = Len(pending) - 1 /\ i - 1 \in 1..Len(pending') /\ pending'[i - 1] = pending[i]
      BY <1>1, <2>1, <2>2, <2>3
    <2> QED
      BY <2>1, <2>4
  <1>5. given'.from \subseteq {link'.no}
    BY <1>1, <1>2 DEF RoundOrdered
  <1> QED
    BY <1>1, <1>3, <1>4, <1>5 DEF RoundOrdered

\* A restart is before the commit, and forgets what was received.
LEMMA RestartsOrdered ==
  ASSUME RoundTyped, RoundOrdered, NotCommitted, Restarts
  PROVE  RoundOrdered'
  <1>1. link'.open = FALSE /\ link'.no = link.no
    BY RestartsTyped
  <1>2. ~committed /\ restart_count' = restart_count + 1 /\ pending' = <<>> /\ finished' = FALSE
        /\ UNCHANGED <<committed, filter, given, ended>>
    BY DEF Restarts, NotCommitted
  <1>3. link.no <= restart_count' /\ link.no <= restart_count' + 1
    <2>1. link.no \in Nat /\ restart_count \in Nat
      BY LinkFields DEF RoundTyped
    <2> QED
      BY <1>2, <2>1 DEF RoundOrdered
  <1> QED
    BY <1>1, <1>2, <1>3 DEF RoundOrdered

\* An end leaves what was passed on.
LEMMA EndsOrdered ==
  ASSUME RoundTyped, RoundOrdered, FilterAgrees, Listening, NEW how \in {"clean", "error"}, Ends(how)
  PROVE  RoundOrdered'
  <1>1. link'.open = FALSE /\ link'.no = link.no /\ link'.left = link.left
    BY EndsTyped
  <1>2. ended' = how /\ ended' # "no" /\ pending = <<>>
        /\ UNCHANGED <<attempt, restart_count, buffered, committed, finished, pending, given>>
    BY DEF Ends, Listening
  <1> QED
    BY <1>1, <1>2 DEF RoundOrdered

-----------------------------------------------------------------------------
\* As long as the round goes on the filter stands for the text.
LEMMA NowShown ==
  ASSUME RoundShown, ended = "no"
  PROVE  FilterAgrees
  BY DEF RoundShown

\* It does while neither changes.
LEMMA AsBefore ==
  ASSUME FilterAgrees, UNCHANGED <<filter, given>>
  PROVE  FilterAgrees'
  BY DEF FilterAgrees

\* Every step keeps the invariant.
LEMMA RoundSteps == RoundInv /\ [StreamNext]_streamVars => RoundInv'
  <1> SUFFICES ASSUME RoundInv, [StreamNext]_streamVars PROVE RoundInv'
    OBVIOUS
  <1> USE DEF RoundInv
  <1>1. ASSUME NEW reply \in Replies, Connect(reply) PROVE RoundInv'
    <2>1. ended = "no" /\ ended' = "no" /\ UNCHANGED <<filter, given>>
      BY <1>1 DEF Connect
    <2>2. RoundShown'
      BY <2>1, NowShown, AsBefore DEF RoundShown
    <2> QED
      BY <1>1, <2>2, ConnectTyped, ConnectOrdered
  <1>2. ASSUME NEW transient \in BOOLEAN, ConnectFails(transient) PROVE RoundInv'
    <2>1. ended = "no" /\ ended' # "clean" /\ UNCHANGED <<filter, given>>
      BY <1>2 DEF ConnectFails
    <2>2. RoundShown'
      BY <2>1, NowShown, AsBefore DEF RoundShown
    <2> QED
      BY <1>2, <2>2, ConnectFailsTyped, ConnectFailsOrdered
  <1>3. ASSUME NEW chunk \in Chunks, Receive(chunk) PROVE RoundInv'
    <2>1. ended = "no" /\ ended' = "no" /\ UNCHANGED <<filter, given>>
      BY <1>3 DEF Receive
    <2>2. RoundShown'
      BY <2>1, NowShown, AsBefore DEF RoundShown
    <2> QED
      BY <1>3, <2>2, ReceiveTyped, ReceiveOrdered
  <1>4. CASE Deliver
    <2>1. ended = "no" /\ ended' = ended
      BY <1>4 DEF Deliver, RoundOrdered
    <2>2. FilterAgrees
      BY <2>1, NowShown
    <2>3. RoundShown'
      BY <1>4, <2>1, <2>2, DeliverAgrees DEF RoundShown
    <2> QED
      BY <1>4, <2>2, <2>3, DeliverTyped, DeliverOrdered
  <1>5. CASE Listening /\ NotCommitted /\ Restarts
    <2>1. ended = "no" /\ ended' = "no" /\ UNCHANGED <<filter, given>>
      BY <1>5 DEF Listening, Restarts
    <2>2. RoundShown'
      BY <2>1, NowShown, AsBefore DEF RoundShown
    <2> QED
      BY <1>5, <2>2, RestartsTyped, RestartsOrdered
  <1>6. CASE Listening /\ Ends("error")
    <2>1. ended = "no" /\ ended' = "error" /\ UNCHANGED <<filter, given>>
      BY <1>6 DEF Listening, Ends
    <2>2. FilterAgrees
      BY <2>1, NowShown
    <2>3. RoundShown'
      BY <2>1, <2>2, AsBefore DEF RoundShown
    <2> QED
      BY <1>6, <2>2, <2>3, EndsTyped, EndsOrdered
  <1>7. CASE Listening /\ committed /\ finished /\ Ends("clean")
    <2>1. ended = "no" /\ ended' = "clean" /\ pending = <<>> /\ UNCHANGED <<given, finished>>
      BY <1>7 DEF Listening, Ends
    <2>2. FilterAgrees
      BY <2>1, NowShown
    <2>3. filter'.out = Public[given.text]
      BY <1>7, <2>2, FlushedFilter DEF Ends
    <2>4. "finish" \in given.kinds
      <3>1. FinishComes(given.kinds, pending)
        BY <1>7 DEF RoundOrdered
      <3>2. Len(pending) = 0
        BY <2>1, EmptyTexts
      <3>3. 1..Len(pending) = {}
        BY <3>2
      <3> QED
        BY <3>1, <3>3 DEF FinishComes
    <2>5. RoundShown'
      BY <1>7, <2>1, <2>3, <2>4 DEF RoundShown
    <2> QED
      BY <1>7, <2>2, <2>5, EndsTyped, EndsOrdered
  <1>8. CASE UNCHANGED streamVars
    BY <1>8 DEF streamVars, RoundTyped, RoundOrdered, RoundShown, FilterAgrees
  <1> QED
    <2>1. StreamNext \/ UNCHANGED streamVars
      OBVIOUS
    <2> QED
      BY <2>1, <1>1, <1>2, <1>3, <1>4, <1>5, <1>6, <1>7, <1>8, StreamCases

\* A text is a beginning of what goes on from it.
LEMMA PrefixOf ==
  ASSUME NEW X, NEW s \in Seq(X), NEW t \in Seq(X)
  PROVE  IsPrefix(s, s \o t)
  <1> DEFINE w == s \o t
  <1>1. w \in Seq(X) /\ Len(w) = Len(s) + Len(t) /\ (\A i \in 1..Len(s) : w[i] = s[i])
        /\ Len(s) \in Nat /\ Len(t) \in Nat
    OBVIOUS
  <1> HIDE DEF w
  <1>2. Len(s) <= Len(w)
    BY <1>1
  <1>3. SubSeq(s, 1, Len(s)) = SubSeq(w, 1, Len(s))
    <2>1. SubSeq(s, 1, Len(s)) = s
      BY <1>1
    <2>2. SubSeq(w, 1, Len(s)) \in Seq(X) /\ Len(SubSeq(w, 1, Len(s))) = Len(s)
          /\ \A i \in 1..Len(s) : SubSeq(w, 1, Len(s))[i] = w[i]
      BY <1>1, <1>2
    <2> DEFINE v == SubSeq(w, 1, Len(s))
    <2>3. v \in Seq(X) /\ Len(v) = Len(s) /\ \A i \in 1..Len(s) : v[i] = s[i]
      BY <1>1, <2>2
    <2> HIDE DEF v
    <2>4. v = s
      BY <2>3, SameSeq
    <2> QED
      BY <2>1, <2>4 DEF v
  <1> QED
    BY <1>2, <1>3 DEF IsPrefix, w

\* With nothing to come, what is shown is a beginning of what is public.
LEMMA RoundHolds == RoundInv => RoundIsWhole
  <1> SUFFICES ASSUME RoundInv PROVE RoundIsWhole
    OBVIOUS
  <1>1. filter.out \in Texts /\ filter.inside \in BOOLEAN /\ filter.rest \in Texts /\ given.text \in Texts
    BY DEF RoundInv, RoundTyped, FilterStates, GivenStates
  <1>2. \A m, n \in given.from : m = n
    BY DEF RoundInv, RoundOrdered
  <1>3. IsPrefix(filter.out, Public[given.text])
    <2>1. \E p \in Texts : Public[given.text] = filter.out \o p
      <3>1. CASE ended # "clean"
        <4>1. <<>> \in Texts /\ given.text \o <<>> = given.text /\ filter.rest \o <<>> = filter.rest
          BY <1>1 DEF Texts
        <4>2. Public[given.text \o <<>>] = Means(filter, <<>>)
          BY <3>1, <4>1 DEF RoundInv, RoundShown, FilterAgrees
        <4>3. Public[given.text] = filter.out \o PublicFrom(filter.inside, filter.rest)
          BY <4>1, <4>2 DEF Means
        <4> QED
          BY <1>1, <4>3, PublicFromTyped
      <3>2. CASE ended = "clean"
        <4>1. Public[given.text] = filter.out
          BY <3>2 DEF RoundInv, RoundShown
        <4>2. <<>> \in Texts /\ filter.out \o <<>> = filter.out
          BY <1>1 DEF Texts
        <4> QED
          BY <4>1, <4>2
      <3> QED
        BY <3>1, <3>2
    <2>2. PICK p \in Texts : Public[given.text] = filter.out \o p
      BY <2>1
    <2>3. filter.out \in Seq(STRING) /\ p \in Seq(STRING)
      BY <1>1 DEF Texts
    <2>4. IsPrefix(filter.out, filter.out \o p)
      BY <2>3, PrefixOf
    <2> QED
      BY <2>2, <2>4
  <1>4. ended = "clean" => /\ link.left = <<>> /\ "finish" \in given.kinds
                           /\ filter.out = Public[given.text]
    BY DEF RoundInv, RoundShown, RoundOrdered
  <1> QED
    BY <1>2, <1>3, <1>4 DEF RoundIsWhole

\* The invariant contains the type invariant.
LEMMA RoundTypes == RoundInv => StreamTypeOK
  <1> SUFFICES ASSUME RoundInv PROVE StreamTypeOK
    OBVIOUS
  <1>1. RoundTyped /\ RoundOrdered
    BY DEF RoundInv
  <1>2. link.open \in BOOLEAN /\ link.no \in Nat
    BY <1>1, LinkFields DEF RoundTyped
  <1>3. link.no \in 0..(MaxPrecommitRestarts + 1)
    <2>1. restart_count \in 0..MaxPrecommitRestarts /\ link.no <= restart_count + 1
      BY <1>1 DEF RoundTyped, RoundOrdered
    <2> QED
      BY <1>2, <2>1, StreamAssumption
  <1>4. committed => buffered = <<>>
    BY <1>1 DEF RoundOrdered
  <1> QED
    BY <1>1, <1>2, <1>3, <1>4 DEF RoundTyped, StreamTypeOK

\* The inductive invariant of a round (client.rs, rate_gate.rs and minimax.rs): its
\* parts have their types, nothing is passed on before the commit nor of a second
\* connection, and the filter stands for the text that was passed on.
THEOREM RoundInvariant == StreamSpec => []RoundInv
  <1>1. StreamInit => RoundInv
    BY RoundBegins
  <1>2. RoundInv /\ [StreamNext]_streamVars => RoundInv'
    BY RoundSteps
  <1> QED
    BY <1>1, <1>2, PTL DEF StreamSpec

\* A round is well-formed: no more restarts, attempts and chunks held back than
\* their limits (client.rs: max_precommit_restarts, max_buffered_bytes), and nothing
\* is held back after the commit.
THEOREM StreamTypeCorrect == StreamSpec => []StreamTypeOK
  BY RoundInvariant, RoundTypes, PTL

\* A round is passed on from one connection only, what is visible of it is public
\* (minimax.rs: VisibilityFilter) for every reply cut into any fragments, and a
\* round that ends without an error is complete (client.rs).
THEOREM StreamRoundIsWhole == StreamSpec => []RoundIsWhole
  BY RoundInvariant, RoundHolds, PTL
=============================================================================
