----------------------------- MODULE MerkleProofs -----------------------------
(***************************************************************************)
(* The root of a day commits to its events: days of distinct events with   *)
(* one root are the same, event by event and in the same order.  Induction *)
(* goes over sets of naturals: a set that holds 0 and, with each number,   *)
(* the next one, holds them all.                                           *)
(***************************************************************************)
EXTENDS MerkleRoot, TLAPS, WellFoundedInduction

\* Every nonempty set of naturals has a least element.
LEMMA LeastElement ==
    ASSUME NEW T \in SUBSET Nat, T # {}
    PROVE  \E x \in T : \A y \in T : x <= y
<1> DEFINE R == OpToRel(<, Nat)
<1>1. IsWellFoundedOn(R, Nat)
  BY NatLessThanWellFounded
<1>2. \A m, n \in Nat : m < n => <<m, n>> \in R
  BY DEF OpToRel
<1> HIDE DEF R
<1>3. PICK x \in T : \A y \in T : ~ (<<y, x>> \in R)
  BY <1>1, WFMin
<1>4. \A y \in T : ~ (y < x)
  BY <1>2, <1>3
<1> QED
  BY <1>3, <1>4

\* Induction up to a bound.
LEMMA BoundedInduction ==
    ASSUME NEW N \in Nat, NEW T, 0 \in T,
           \A n \in Nat : n < N /\ n \in T => n + 1 \in T
    PROVE  \A n \in 0 .. N : n \in T
<1> SUFFICES ASSUME NEW m \in 0 .. N, m \notin T
             PROVE  FALSE
  OBVIOUS
<1> DEFINE U == {n \in 0 .. N : n \notin T}
<1>1. U \in SUBSET Nat /\ U # {}
  OBVIOUS
<1>2. PICK x \in U : \A y \in U : x <= y
  BY <1>1, LeastElement
<1>3. x \in Nat /\ x # 0 /\ x <= N /\ x \notin T
  OBVIOUS
<1>4. x - 1 \in 0 .. N /\ x - 1 \in Nat /\ x - 1 < N /\ (x - 1) + 1 = x /\ ~ (x <= x - 1)
  BY <1>3
<1>5. x - 1 \in T
  BY <1>2, <1>4
<1> QED
  BY <1>3, <1>4, <1>5

-----------------------------------------------------------------------------
Distinct(s) == \A i, j \in 1 .. Len(s) : s[i] = s[j] => i = j

IsSeq(s) == \E V : s \in Seq(V)

LEMMA SeqLength ==
    ASSUME NEW s, IsSeq(s)
    PROVE  Len(s) \in Nat
  BY DEF IsSeq

\* Of a sequence that is not empty, one of length 1 is one not longer.
LEMMA LengthOne ==
    ASSUME NEW s, IsSeq(s), Len(s) > 0
    PROVE  ~ (Len(s) > 1) <=> Len(s) = 1
<1>1. \A k \in Nat : k > 0 => (~ (k > 1) <=> k = 1)
  OBVIOUS
<1>2. Len(s) \in Nat
  BY SeqLength
<1> QED
  BY <1>1, <1>2

\* A round halves the number of nodes, rounded up, and pairs them.
LEMMA LevelShape ==
    ASSUME NEW s, IsSeq(s)
    PROVE  /\ IsSeq(Level(s))
           /\ Len(Level(s)) = (Len(s) + 1) \div 2
           /\ \A i \in 1 .. (Len(s) + 1) \div 2 :
                 Level(s)[i] = <<s[2*i - 1], IF 2*i <= Len(s) THEN s[2*i] ELSE s[2*i - 1]>>
<1>1. PICK V : s \in Seq(V)
  BY DEF IsSeq
<1> DEFINE h == (Len(s) + 1) \div 2
<1>2. Len(s) \in Nat /\ h \in Nat /\ 2*h <= Len(s) + 1
  BY <1>1
<1>3. \A i \in 1 .. h : /\ 2*i - 1 \in 1 .. Len(s)
                        /\ 2*i <= Len(s) => 2*i \in 1 .. Len(s)
  BY <1>2
<1> DEFINE pair(i) == <<s[2*i - 1], IF 2*i <= Len(s) THEN s[2*i] ELSE s[2*i - 1]>>
<1>4. \A i \in 1 .. h : pair(i) \in V \X V
  BY <1>1, <1>3
<1>5. Level(s) = [i \in 1 .. h |-> pair(i)]
  BY DEF Level, Parent
<1> HIDE DEF h, pair
<1>6. Level(s) \in Seq(V \X V) /\ Len(Level(s)) = h /\ \A i \in 1 .. h : Level(s)[i] = pair(i)
  BY <1>2, <1>4, <1>5
<1> QED
  BY <1>6 DEF IsSeq, h, pair

LEMMA ParentNode ==
    ASSUME NEW x, IsSeq(x), NEW i \in 1 .. Len(Level(x))
    PROVE  \E l, r : Level(x)[i] = <<l, r>>
<1> DEFINE h == (Len(x) + 1) \div 2
           pair(k) == <<x[2*k - 1], IF 2*k <= Len(x) THEN x[2*k] ELSE x[2*k - 1]>>
<1>1. Len(Level(x)) = h /\ \A k \in 1 .. h : Level(x)[k] = pair(k)
  BY LevelShape
<1> HIDE DEF h
<1>2. Level(x)[i] = pair(i)
  BY <1>1
<1> QED
  BY <1>2

\* Distinct nodes have distinct parents.
LEMMA LevelDistinct ==
    ASSUME NEW s, IsSeq(s), Distinct(s)
    PROVE  Distinct(Level(s))
<1> DEFINE h == (Len(s) + 1) \div 2
<1>1. Len(s) \in Nat /\ h \in Nat /\ 2*h <= Len(s) + 1
  BY DEF IsSeq
<1>2. Len(Level(s)) = h /\ \A i \in 1 .. h : Level(s)[i][1] = s[2*i - 1]
  BY LevelShape
<1>3. \A i \in 1 .. h : 2*i - 1 \in 1 .. Len(s)
  BY <1>1
<1> HIDE DEF h
<1> SUFFICES ASSUME NEW i \in 1 .. h, NEW j \in 1 .. h, Level(s)[i] = Level(s)[j]
             PROVE  i = j
  BY <1>2 DEF Distinct
<1>4. s[2*i - 1] = s[2*j - 1]
  BY <1>2
<1>5. 2*i - 1 = 2*j - 1
  BY <1>3, <1>4 DEF Distinct
<1> QED
  BY <1>5, <1>1

\* Distinct nodes are known from their parents: also from the last one,
\* because a node that is paired with itself is told from two that differ.
LEMMA LevelInjective ==
    ASSUME NEW s, NEW t, IsSeq(s), IsSeq(t), Distinct(s), Distinct(t), Level(s) = Level(t)
    PROVE  s = t
<1> DEFINE h == (Len(s) + 1) \div 2
           k == (Len(t) + 1) \div 2
<1>1. Len(s) \in Nat /\ Len(t) \in Nat
  BY DEF IsSeq
<1>2. h \in Nat /\ k \in Nat /\ 2*h \in {Len(s), Len(s) + 1} /\ 2*k \in {Len(t), Len(t) + 1}
  BY <1>1
<1>3. /\ h = k
      /\ \A i \in 1 .. h :
            /\ s[2*i - 1] = t[2*i - 1]
            /\ (IF 2*i <= Len(s) THEN s[2*i] ELSE s[2*i - 1])
               = (IF 2*i <= Len(t) THEN t[2*i] ELSE t[2*i - 1])
  <2> DEFINE u(i) == IF 2*i <= Len(s) THEN s[2*i] ELSE s[2*i - 1]
             v(i) == IF 2*i <= Len(t) THEN t[2*i] ELSE t[2*i - 1]
  <2>1. Len(Level(s)) = h /\ \A i \in 1 .. h : Level(s)[i] = <<s[2*i - 1], u(i)>>
    BY LevelShape
  <2>2. Len(Level(t)) = k /\ \A i \in 1 .. k : Level(t)[i] = <<t[2*i - 1], v(i)>>
    BY LevelShape
  <2> HIDE DEF h, k, u, v
  <2>3. h = k
    BY <2>1, <2>2
  <2>4. \A i \in 1 .. h : s[2*i - 1] = t[2*i - 1] /\ u(i) = v(i)
    BY <2>1, <2>2, <2>3
  <2> QED
    BY <2>3, <2>4 DEF u, v
<1> HIDE DEF h, k
<1>4. Len(s) = Len(t)
  <2>1. ASSUME 2*h = Len(s), 2*h = Len(t) + 1 PROVE FALSE
    <3>1. h \in 1 .. h /\ 2*h \in 1 .. Len(s) /\ 2*h - 1 \in 1 .. Len(s) /\ ~ (2*h <= Len(t))
      BY <1>1, <1>2, <2>1
    <3>2. s[2*h] = s[2*h - 1]
      BY <1>3, <3>1
    <3>3. 2*h = 2*h - 1
      BY <3>1, <3>2 DEF Distinct
    <3> QED
      BY <1>2, <3>3
  <2>2. ASSUME 2*h = Len(t), 2*h = Len(s) + 1 PROVE FALSE
    <3>1. h \in 1 .. h /\ 2*h \in 1 .. Len(t) /\ 2*h - 1 \in 1 .. Len(t) /\ ~ (2*h <= Len(s))
      BY <1>1, <1>2, <2>2
    <3>2. t[2*h] = t[2*h - 1]
      BY <1>3, <3>1
    <3>3. 2*h = 2*h - 1
      BY <3>1, <3>2 DEF Distinct
    <3> QED
      BY <1>2, <3>3
  <2> QED
    BY <1>1, <1>2, <1>3, <2>1, <2>2
<1>5. ASSUME NEW j \in 1 .. Len(s) PROVE s[j] = t[j]
  <2> DEFINE i == (j + 1) \div 2
  <2>1. i \in 1 .. h /\ j \in {2*i - 1, 2*i}
    BY <1>1, <1>2
  <2> HIDE DEF i
  <2>2. CASE j = 2*i - 1
    BY <1>3, <2>1, <2>2
  <2>3. CASE j = 2*i
    BY <1>3, <1>4, <2>1, <2>3
  <2> QED
    BY <2>1, <2>2, <2>3
<1> QED
  BY <1>4, <1>5 DEF IsSeq

-----------------------------------------------------------------------------
\* The recursive function of Levels exists, so that its equation holds.
LEMMA LevelsEquation ==
    ASSUME NEW s, IsSeq(s)
    PROVE  /\ Levels(s)[0] = s
           /\ \A n \in 0 .. Len(s) : n # 0 => Levels(s)[n] = Round(Levels(s)[n - 1])
<1> DEFINE N == Len(s)
           Rounds(f, k) == f = [n \in 0 .. k |-> IF n = 0 THEN s ELSE Round(f[n - 1])]
           T == {k \in Nat : \E f : Rounds(f, k)}
<1>1. N \in Nat
  BY DEF IsSeq
<1>2. 0 \in T
  <2>1. Rounds([n \in 0 .. 0 |-> s], 0)
    OBVIOUS
  <2> QED
    BY <2>1
<1>3. ASSUME NEW k \in Nat, k \in T PROVE k + 1 \in T
  <2>1. PICK f : Rounds(f, k)
    BY <1>3
  <2> DEFINE g == [n \in 0 .. k + 1 |-> IF n = k + 1 THEN Round(f[k]) ELSE f[n]]
  <2>2. \A n \in 0 .. k + 1 : g[n] = IF n = 0 THEN s ELSE Round(g[n - 1])
    <3>1. CASE TRUE
      <4> SUFFICES ASSUME NEW n \in 0 .. k + 1
                   PROVE  g[n] = IF n = 0 THEN s ELSE Round(g[n - 1])
        OBVIOUS
      <4>1. CASE n = k + 1
        <5>1. n # 0 /\ n - 1 = k /\ k \in 0 .. k + 1 /\ k # k + 1
          BY <4>1
        <5>2. g[n] = Round(f[k]) /\ g[k] = f[k]
          BY <4>1, <5>1
        <5> QED
          BY <5>1, <5>2
      <4>2. CASE n # k + 1 /\ n # 0
        <5>1. n \in 0 .. k /\ n - 1 \in 0 .. k + 1 /\ n - 1 # k + 1
          BY <4>2
        <5>2. g[n] = f[n] /\ g[n - 1] = f[n - 1]
          BY <4>2, <5>1
        <5>3. f[n] = Round(f[n - 1])
          BY <2>1, <4>2, <5>1
        <5> QED
          BY <4>2, <5>2, <5>3
      <4>3. CASE n = 0
        <5>1. 0 \in 0 .. k /\ 0 # k + 1 /\ f[0] = s
          BY <2>1
        <5> QED
          BY <4>3, <5>1
      <4> QED
        BY <4>1, <4>2, <4>3
    <3> QED
      BY <3>1
  <2>3. Rounds(g, k + 1)
    BY <2>2
  <2> HIDE DEF g, Rounds
  <2>4. k + 1 \in Nat /\ \E r : Rounds(r, k + 1)
    BY <2>3
  <2> QED
    BY <2>4
<1> DEFINE level == CHOOSE f : Rounds(f, N)
<1>4. N \in T
  <2> HIDE DEF T
  <2>1. \A n \in 0 .. N : n \in T
    BY <1>1, <1>2, <1>3, BoundedInduction
  <2> QED
    BY <1>1, <2>1
<1>5. Rounds(level, N)
  BY <1>4
<1>6. Levels(s) = level
  BY DEF Levels
<1> HIDE DEF level
<1>7. \A n \in 0 .. N : level[n] = IF n = 0 THEN s ELSE Round(level[n - 1])
  BY <1>5
<1> QED
  BY <1>1, <1>6, <1>7

\* Half of more than one node, rounded up, is fewer.
LEMMA HalfIsLess ==
    ASSUME NEW l \in Nat, l > 1
    PROVE  (l + 1) \div 2 \in Nat /\ (l + 1) \div 2 > 0 /\ (l + 1) \div 2 <= l - 1
  OBVIOUS

\* What holds of the nodes after any round of a day that has events.
LEMMA LevelsShape ==
    ASSUME NEW s, IsSeq(s), Distinct(s), Len(s) > 0
    PROVE  \A n \in 0 .. Len(s) :
              /\ IsSeq(Levels(s)[n]) /\ Distinct(Levels(s)[n])
              /\ Len(Levels(s)[n]) > 0
              /\ Len(Levels(s)[n]) = 1 \/ Len(Levels(s)[n]) <= Len(s) - n
<1> DEFINE N == Len(s)
           L == Levels(s)
           Fine(x, n) == /\ IsSeq(x) /\ Distinct(x) /\ Len(x) > 0
                         /\ Len(x) = 1 \/ Len(x) <= N - n
           T == {n \in Nat : Fine(L[n], n)}
<1>1. N \in Nat
  BY DEF IsSeq
<1>2. 0 \in T
  BY <1>1, LevelsEquation
<1>3. ASSUME NEW n \in Nat, n < N, n \in T PROVE n + 1 \in T
  <2>1. n + 1 \in 0 .. N /\ n + 1 # 0 /\ (n + 1) - 1 = n
    BY <1>1, <1>3
  <2>2. L[n + 1] = Round(L[n])
    BY <2>1, LevelsEquation
  <2> DEFINE x == L[n]
  <2>3. IsSeq(x) /\ Distinct(x) /\ Len(x) > 0 /\ (Len(x) = 1 \/ Len(x) <= N - n) /\ Len(x) \in Nat
    BY <1>3 DEF IsSeq
  <2>4. L[n + 1] = Round(x)
    BY <2>2
  <2> HIDE DEF x, L
  <2>5. CASE Len(x) > 1
    <3>1. Round(x) = Level(x)
      BY <2>5 DEF Round
    <3>2. IsSeq(Level(x)) /\ Distinct(Level(x)) /\ Len(Level(x)) = (Len(x) + 1) \div 2
      BY <2>3, LevelShape, LevelDistinct
    <3> DEFINE l == Len(x)
               h == (Len(x) + 1) \div 2
    <3>3. l \in Nat /\ l > 1 /\ h \in Nat /\ h > 0 /\ h <= l - 1
      BY <2>3, <2>5, HalfIsLess
    <3> HIDE DEF l, h, N
    <3>4. l <= N - n
      <4>1. l # 1
        BY <3>3
      <4> QED
        BY <2>3, <4>1, Zenon DEF l
    <3>5. h > 0 /\ h <= N - (n + 1)
      BY <1>1, <3>3, <3>4
    <3>6. Fine(Level(x), n + 1)
      BY <3>2, <3>5 DEF h
    <3> HIDE DEF Fine
    <3> QED
      BY <2>4, <3>1, <3>6
  <2>6. CASE ~ (Len(x) > 1)
    <3>1. Round(x) = x
      BY <2>6 DEF Round
    <3>2. Len(x) = 1
      BY <2>3, <2>6, LengthOne
    <3>3. Fine(x, n + 1)
      BY <2>3, <3>2
    <3> HIDE DEF Fine
    <3> QED
      BY <2>4, <3>1, <3>3
  <2>7. Fine(L[n + 1], n + 1)
    BY <2>5, <2>6
  <2> HIDE DEF Fine
  <2> QED
    BY <2>7
<1>4. \A n \in 0 .. N : n \in T
  <2> HIDE DEF T, N
  <2> QED
    BY <1>1, <1>2, <1>3, BoundedInduction
<1> QED
  BY <1>4

-----------------------------------------------------------------------------
\* The loop runs to the first round that leaves one node, and then rests.
Depth(s, d) ==
    /\ d \in 0 .. Len(s)
    /\ Len(Levels(s)[d]) = 1
    /\ \A n \in 0 .. Len(s) : n < d => Len(Levels(s)[n]) > 1

LEMMA DepthExists ==
    ASSUME NEW s, IsSeq(s), Distinct(s), Len(s) > 0
    PROVE  \E d : Depth(s, d)
<1> DEFINE L == Levels(s)
           T == {n \in 0 .. Len(s) : Len(L[n]) = 1}
<1>1. Len(s) \in Nat
  BY DEF IsSeq
<1>2. \A n \in 0 .. Len(s) : IsSeq(L[n]) /\ Len(L[n]) > 0
  BY LevelsShape
<1>3. Len(s) \in 0 .. Len(s)
  BY <1>1
<1>4. Len(s) \in T
  <2> DEFINE x == L[Len(s)]
  <2>1. Len(x) = 1 \/ Len(x) <= Len(s) - Len(s)
    BY <1>3, LevelsShape
  <2>2. Len(x) \in Nat /\ Len(x) > 0
    BY <1>2, <1>3, SeqLength
  <2> HIDE DEF x
  <2>3. Len(x) = 1
    BY <1>1, <2>1, <2>2
  <2> QED
    BY <1>3, <2>3 DEF x
<1>5. T \in SUBSET Nat /\ T # {}
  BY <1>1, <1>4
<1> HIDE DEF T
<1>6. PICK d \in T : \A n \in T : d <= n
  BY <1>5, LeastElement
<1>7. ASSUME NEW n \in 0 .. Len(s), n < d PROVE Len(L[n]) > 1
  <2>1. n \notin T
    BY <1>5, <1>6, <1>7
  <2>2. Len(L[n]) # 1
    BY <2>1 DEF T
  <2> QED
    BY <1>2, <2>2, LengthOne
<1>8. d \in 0 .. Len(s) /\ Len(L[d]) = 1
  BY <1>6 DEF T
<1> QED
  BY <1>7, <1>8 DEF Depth, L

\* The root is the node that is left there: the padding changes nothing.
LEMMA RootAtDepth ==
    ASSUME NEW s, IsSeq(s), Distinct(s), Len(s) > 0, NEW d, Depth(s, d)
    PROVE  Root(s) = Levels(s)[d][1]
<1> DEFINE L == Levels(s)
           T == {n \in Nat : n < d \/ L[n] = L[d]}
<1>1. Len(s) \in Nat /\ d \in 0 .. Len(s) /\ d \in Nat /\ Len(L[d]) = 1
  BY DEF IsSeq, Depth
<1>2. 0 \in T
  <2>1. 0 < d \/ 0 = d
    BY <1>1
  <2> HIDE DEF L
  <2> QED
    BY <2>1
<1>3. ASSUME NEW n \in Nat, n < Len(s), n \in T PROVE n + 1 \in T
  <2>1. n + 1 \in 0 .. Len(s) /\ n + 1 # 0 /\ (n + 1) - 1 = n
    BY <1>1, <1>3
  <2>2. L[n + 1] = Round(L[n])
    BY <2>1, LevelsEquation
  <2> HIDE DEF L
  <2>3. CASE n + 1 <= d
    <3>1. n + 1 < d \/ n + 1 = d
      BY <1>1, <2>3
    <3> QED
      BY <3>1
  <2>4. CASE ~ (n + 1 <= d)
    <3>1. ~ (n < d)
      BY <1>1, <2>4
    <3>2. L[n] = L[d]
      BY <1>3, <3>1
    <3> DEFINE x == L[d]
    <3>3. L[n + 1] = Round(x) /\ Len(x) = 1
      BY <1>1, <2>2, <3>2
    <3> HIDE DEF x
    <3>4. ~ (Len(x) > 1)
      BY <3>3
    <3>5. Round(x) = x
      BY <3>4 DEF Round
    <3>6. L[n + 1] = L[d]
      BY <3>3, <3>5 DEF x
    <3> QED
      BY <3>6
  <2> QED
    BY <2>3, <2>4
<1>4. Len(s) \in T
  <2> HIDE DEF T
  <2>1. \A n \in 0 .. Len(s) : n \in T
    BY <1>1, <1>2, <1>3, BoundedInduction
  <2> QED
    BY <1>1, <2>1
<1>5. ~ (Len(s) < d)
  BY <1>1
<1>6. L[Len(s)] = L[d]
  <2> HIDE DEF L
  <2> QED
    BY <1>4, <1>5
<1>7. s # <<>>
  OBVIOUS
<1> QED
  BY <1>6, <1>7 DEF Root

\* Up to its depth a level is the parents of the one before.
LEMMA LevelBelow ==
    ASSUME NEW s, IsSeq(s), NEW d, Depth(s, d), NEW n \in 0 .. Len(s), 0 < n, n <= d
    PROVE  n - 1 \in 0 .. Len(s) /\ Levels(s)[n] = Level(Levels(s)[n - 1])
<1>1. Len(s) \in Nat /\ d \in 0 .. Len(s)
  BY DEF IsSeq, Depth
<1>2. n - 1 \in 0 .. Len(s) /\ n - 1 < d /\ n # 0
  BY <1>1
<1>3. Len(Levels(s)[n - 1]) > 1
  BY <1>2 DEF Depth
<1>4. Levels(s)[n] = Round(Levels(s)[n - 1])
  BY <1>2, LevelsEquation
<1> QED
  BY <1>2, <1>3, <1>4 DEF Round

-----------------------------------------------------------------------------
\* The leaves of a day, as the nodes its tree starts from.
Leaves(s) == \A i \in 1 .. Len(s) : \E x : s[i] = Leaf(x)

LEMMA SingleNode ==
    ASSUME NEW x, NEW y, IsSeq(x), IsSeq(y), Len(x) = 1, Len(y) = 1, x[1] = y[1]
    PROVE  x = y
  BY DEF IsSeq

\* A leaf is no parent, so no level of a tree is the leaves of a day.
LEMMA NoLeafAbove ==
    ASSUME NEW s, Leaves(s), Len(s) > 0, NEW x, IsSeq(x), s = Level(x)
    PROVE  FALSE
<1>1. 1 \in 1 .. Len(s)
  BY SeqLength, LevelShape
<1>2. PICK y : s[1] = <<y>>
  BY <1>1 DEF Leaves, Leaf
<1>3. PICK l, r : s[1] = <<l, r>>
  BY <1>1, ParentNode
<1> QED
  BY <1>2, <1>3

\* Two trees with one root are the same from the root down, as far as the
\* shorter of them goes; and that is all the way, since a leaf is no parent.
LEMMA TreesAgree ==
    ASSUME NEW s, IsSeq(s), Distinct(s), Len(s) > 0, Leaves(s),
           NEW t, IsSeq(t), Distinct(t), Len(t) > 0,
           NEW d, Depth(s, d), NEW e, Depth(t, e), d <= e,
           Root(s) = Root(t)
    PROVE  s = t
<1> DEFINE K == Levels(s)
           L == Levels(t)
           T == {j \in Nat : K[d - j] = L[e - j]}
<1>1. Len(s) \in Nat /\ Len(t) \in Nat /\ d \in 0 .. Len(s) /\ e \in 0 .. Len(t)
  BY SeqLength DEF Depth
<1>2. IsSeq(K[d]) /\ IsSeq(L[e]) /\ Len(K[d]) = 1 /\ Len(L[e]) = 1
  BY <1>1, LevelsShape DEF Depth
<1>3. K[d][1] = L[e][1]
  BY RootAtDepth
<1>4. 0 \in T
  <2>1. K[d] = L[e]
    <3> HIDE DEF K, L
    <3> QED
      BY <1>2, <1>3, SingleNode
  <2>2. d - 0 = d /\ e - 0 = e
    BY <1>1
  <2> HIDE DEF K, L
  <2> QED
    BY <2>1, <2>2
<1>5. ASSUME NEW j \in Nat, j < d, j \in T PROVE j + 1 \in T
  <2> DEFINE a == d - j
             b == e - j
  <2>1. /\ a \in 0 .. Len(s) /\ 0 < a /\ a <= d /\ d - (j + 1) = a - 1
        /\ b \in 0 .. Len(t) /\ 0 < b /\ b <= e /\ e - (j + 1) = b - 1
    BY <1>1, <1>5
  <2>2. K[a] = L[b]
    BY <1>5
  <2> HIDE DEF a, b
  <2>3. a - 1 \in 0 .. Len(s) /\ K[a] = Level(K[a - 1])
    BY <2>1, LevelBelow
  <2>4. b - 1 \in 0 .. Len(t) /\ L[b] = Level(L[b - 1])
    BY <2>1, LevelBelow
  <2>5. IsSeq(K[a - 1]) /\ Distinct(K[a - 1])
    BY <2>3, LevelsShape
  <2>6. IsSeq(L[b - 1]) /\ Distinct(L[b - 1])
    BY <2>4, LevelsShape
  <2> HIDE DEF K, L
  <2>7. K[a - 1] = L[b - 1]
    BY <2>2, <2>3, <2>4, <2>5, <2>6, LevelInjective
  <2> QED
    BY <2>1, <2>7
<1>6. d \in T
  <2> HIDE DEF T
  <2>1. \A j \in 0 .. d : j \in T
    BY <1>1, <1>4, <1>5, BoundedInduction
  <2> QED
    BY <1>1, <2>1
<1>7. s = L[e - d]
  <2>1. d - d = 0 /\ K[0] = s
    BY <1>1, LevelsEquation
  <2> HIDE DEF K, L
  <2> QED
    BY <1>6, <2>1
<1>8. CASE d = e
  <2>1. e - d = 0 /\ L[0] = t
    BY <1>1, <1>8, LevelsEquation
  <2> QED
    BY <1>7, <2>1
<1>9. CASE d # e
  <2> DEFINE b == e - d
  <2>1. b \in 0 .. Len(t) /\ 0 < b /\ b <= e
    BY <1>1, <1>9
  <2> HIDE DEF b
  <2>2. b - 1 \in 0 .. Len(t) /\ L[b] = Level(L[b - 1])
    BY <2>1, LevelBelow
  <2>3. IsSeq(L[b - 1]) /\ s = Level(L[b - 1])
    BY <1>7, <2>2, LevelsShape DEF b
  <2> QED
    BY <2>3, NoLeafAbove
<1> QED
  BY <1>8, <1>9

-----------------------------------------------------------------------------
\* The root of a day with events is a leaf or a pair, never the empty one.
LEMMA RootNotEmpty ==
    ASSUME NEW s, IsSeq(s), Distinct(s), Len(s) > 0, Leaves(s)
    PROVE  Root(s) # <<>>
<1>1. PICK d : Depth(s, d)
  BY DepthExists
<1>2. Len(s) \in Nat /\ d \in 0 .. Len(s) /\ Len(Levels(s)[d]) = 1
  BY <1>1, SeqLength DEF Depth
<1>3. Root(s) = Levels(s)[d][1]
  BY <1>1, RootAtDepth
<1>4. CASE d = 0
  <2>1. 1 \in 1 .. Len(s) /\ Root(s) = s[1]
    BY <1>2, <1>3, <1>4, LevelsEquation
  <2> QED
    BY <2>1 DEF Leaves, Leaf
<1>5. CASE d # 0
  <2> DEFINE x == Levels(s)[d - 1]
  <2>1. 0 < d /\ d <= d
    BY <1>2, <1>5
  <2>2. d - 1 \in 0 .. Len(s) /\ Levels(s)[d] = Level(x)
    BY <1>1, <1>2, <2>1, LevelBelow
  <2>3. IsSeq(x)
    BY <2>2, LevelsShape
  <2>4. Root(s) = Level(x)[1] /\ Len(Level(x)) = 1
    BY <1>2, <1>3, <2>2
  <2> HIDE DEF x
  <2>5. PICK l, r : Level(x)[1] = <<l, r>>
    <3>1. 1 \in 1 .. Len(Level(x))
      BY <2>4
    <3> QED
      BY <2>3, <3>1, ParentNode
  <2> QED
    BY <2>4, <2>5
<1> QED
  BY <1>4, <1>5

\* computeDailyMerkleRoot tells days apart: two days of distinct events with
\* the same root hold the same events in the same order.  The ids of
\* audit_events are distinct; with an event twice, [a, b, c] and [a, b, c, c]
\* would share a root.
THEOREM RootCommitsToDay ==
    ASSUME NEW a, IsSeq(a), Distinct(a), NEW b, IsSeq(b), Distinct(b),
           MerkleOf(a) = MerkleOf(b)
    PROVE  a = b
<1> DEFINE leaves(x) == [i \in 1 .. Len(x) |-> Leaf(x[i])]
<1>1. ASSUME NEW x, IsSeq(x), Distinct(x)
      PROVE  /\ IsSeq(leaves(x)) /\ Distinct(leaves(x)) /\ Leaves(leaves(x))
             /\ Len(leaves(x)) = Len(x) /\ Len(x) \in Nat
             /\ \A i \in 1 .. Len(x) : leaves(x)[i] = <<x[i]>>
             /\ MerkleOf(x) = Root(leaves(x))
  <2>1. PICK V : x \in Seq(V)
    BY <1>1 DEF IsSeq
  <2> DEFINE W == {<<v>> : v \in V}
  <2>2. leaves(x) \in Seq(W) /\ Len(leaves(x)) = Len(x) /\ Len(x) \in Nat
    BY <2>1 DEF Leaf
  <2>3. \A i \in 1 .. Len(x) : leaves(x)[i] = <<x[i]>>
    BY DEF Leaf
  <2>4. IsSeq(leaves(x))
    BY <2>2 DEF IsSeq
  <2>5. Distinct(leaves(x)) /\ Leaves(leaves(x))
    BY <1>1, <2>2, <2>3 DEF Distinct, Leaves, Leaf
  <2> QED
    BY <2>2, <2>3, <2>4, <2>5 DEF MerkleOf
<1> DEFINE s == leaves(a)
           t == leaves(b)
<1>2. /\ IsSeq(s) /\ Distinct(s) /\ Leaves(s) /\ Len(s) = Len(a) /\ Len(a) \in Nat
      /\ \A i \in 1 .. Len(a) : s[i] = <<a[i]>>
  BY <1>1
<1>3. /\ IsSeq(t) /\ Distinct(t) /\ Leaves(t) /\ Len(t) = Len(b) /\ Len(b) \in Nat
      /\ \A i \in 1 .. Len(b) : t[i] = <<b[i]>>
  BY <1>1
<1>4. Root(s) = Root(t)
  BY <1>1
<1> HIDE DEF s, t
<1>5. s = t
  <2>1. ASSUME NEW x, IsSeq(x), ~ (Len(x) > 0) PROVE x = <<>>
    BY <2>1 DEF IsSeq
  <2>2. CASE Len(s) > 0 /\ Len(t) > 0
    <3>1. PICK d : Depth(s, d)
      BY <1>2, <2>2, DepthExists
    <3>2. PICK e : Depth(t, e)
      BY <1>3, <2>2, DepthExists
    <3>3. d \in Nat /\ e \in Nat
      BY <1>2, <1>3, <3>1, <3>2 DEF Depth
    <3>4. CASE d <= e
      BY <1>2, <1>3, <1>4, <2>2, <3>1, <3>2, <3>4, TreesAgree
    <3>5. CASE e <= d
      BY <1>2, <1>3, <1>4, <2>2, <3>1, <3>2, <3>5, TreesAgree
    <3> QED
      BY <3>3, <3>4, <3>5
  <2>3. CASE ~ (Len(s) > 0)
    <3>1. s = <<>> /\ Root(s) = <<>>
      BY <1>2, <2>1, <2>3 DEF Root
    <3>2. ~ (Len(t) > 0)
      BY <1>3, <1>4, <3>1, RootNotEmpty
    <3> QED
      BY <1>3, <2>1, <3>1, <3>2
  <2>4. CASE ~ (Len(t) > 0)
    <3>1. t = <<>> /\ Root(t) = <<>>
      BY <1>3, <2>1, <2>4 DEF Root
    <3>2. ~ (Len(s) > 0)
      BY <1>2, <1>4, <3>1, RootNotEmpty
    <3> QED
      BY <1>2, <2>1, <3>1, <3>2
  <2> QED
    BY <2>2, <2>3, <2>4
<1>6. Len(a) = Len(b) /\ \A i \in 1 .. Len(a) : a[i] = b[i]
  <2>1. Len(a) = Len(b)
    BY <1>2, <1>3, <1>5
  <2>2. ASSUME NEW i \in 1 .. Len(a) PROVE a[i] = b[i]
    <3>1. <<a[i]>> = <<b[i]>>
      BY <1>2, <1>3, <1>5, <2>1
    <3> QED
      BY <3>1
  <2> QED
    BY <2>1, <2>2
<1> QED
  BY <1>6 DEF IsSeq

=============================================================================
