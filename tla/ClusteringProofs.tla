--------------------------- MODULE ClusteringProofs ---------------------------
(***************************************************************************)
(* Proofs about GraphSimilarity and DynamicClustering: similarities are    *)
(* numbers for all stages of all graphs, what the loops over them return   *)
(* is one of what they walk over, and so no index of a cluster, a medoid   *)
(* or a match is out of its range; where clusterings settle, clusters hold *)
(* the graphs closest to their medoids, and where graphs are told apart,   *)
(* what is asked for is found.                                             *)
(***************************************************************************)
EXTENDS MCDynamicClustering, MCGraphSimilarity, FiniteSums

-----------------------------------------------------------------------------
(* Scores.                                                                 *)

\* The sum of a list of integers.
LEMMA TotalType ==
    ASSUME NEW s \in Seq(Int)
    PROVE  Total(s) \in Int /\ Total(s) = Sum(s, DOMAIN s)
<1>1. Total(s) = Sum(s, DOMAIN s)
  BY FoldLeftIsSum DEF Total, FoldLeft, MapThenFoldSet
<1>2. IsFiniteSet(DOMAIN s) /\ \A i \in DOMAIN s : s[i] \in Int
  BY LastIndex
<1> QED
  BY <1>1, <1>2, SumType

\* A loop that keeps the best of some finds one.
LEMMA BestExists ==
    ASSUME NEW S \in SUBSET Int, IsFiniteSet(S), S # {}, NEW score,
           \A i \in S : score[i] \in Int
    PROVE  \E i \in S :
             \A j \in S : score[j] < score[i] \/ (score[j] = score[i] /\ i <= j)
<1> DEFINE less == [i \in S |-> -score[i]]
<1>1. \A i \in S : less[i] \in Int /\ less[i] = -score[i]
  OBVIOUS
<1> HIDE DEF less
<1>2. PICK k \in S : \A j \in S : less[k] < less[j] \/ (less[k] = less[j] /\ k <= j)
  BY <1>1, FirstOfLeast
<1>3. ASSUME NEW j \in S
      PROVE  score[j] < score[k] \/ (score[j] = score[k] /\ k <= j)
  BY <1>1, <1>2
<1> QED
  BY <1>2, <1>3

\* Nodes are as similar one way as the other.
LEMMA KernelType ==
    ASSUME NEW a \in Int, NEW b \in Int
    PROVE  /\ Kernel(a, b) \in Nat
           /\ Kernel(a, b) = Kernel(b, a)
<1> DEFINE d == IF a >= b THEN a - b ELSE b - a
           e == IF b >= a THEN b - a ELSE a - b
           k == IF d > 3 THEN 0 ELSE <<100, 61, 14, 1>>[d + 1]
<1>1. d \in Nat /\ e = d
  OBVIOUS
<1>2. Kernel(a, b) = k /\ Kernel(b, a) = IF e > 3 THEN 0 ELSE <<100, 61, 14, 1>>[e + 1]
  BY DEF Kernel
<1> HIDE DEF d, e
<1>3. d > 3 \/ d = 0 \/ d = 1 \/ d = 2 \/ d = 3
  BY <1>1
<1>4. k \in Nat
  BY <1>1, <1>3
<1> HIDE DEF k
<1>5. Kernel(b, a) = k
  BY <1>1, <1>2 DEF k
<1> QED
  BY <1>1, <1>2, <1>4, <1>5

\* No two lengths are as similar as those that are the same.
LEMMA KernelBound ==
    ASSUME NEW a \in Int, NEW b \in Int
    PROVE  /\ Kernel(a, b) <= 100
           /\ Kernel(a, b) = 100 => a = b
           /\ a = b => Kernel(a, b) = 100
<1> DEFINE d == IF a >= b THEN a - b ELSE b - a
           k == IF d > 3 THEN 0 ELSE <<100, 61, 14, 1>>[d + 1]
<1>1. d \in Nat /\ (d = 0 => a = b) /\ (a = b => d = 0)
  OBVIOUS
<1>2. Kernel(a, b) = k
  BY DEF Kernel
<1> HIDE DEF d
<1>3. d > 3 \/ d = 0 \/ d = 1 \/ d = 2 \/ d = 3
  BY <1>1
<1>4. k <= 100 /\ (k = 100 => d = 0) /\ (d = 0 => k = 100)
  BY <1>1, <1>3
<1> QED
  BY <1>1, <1>2, <1>4

LEMMA NodeSimilarityType ==
    ASSUME NEW m \in Node, NEW n \in Node
    PROVE  /\ NodeSimilarity(m, n) \in Nat
           /\ NodeSimilarity(m, n) = NodeSimilarity(n, m)
<1>1. m[1] \in Int /\ m[2] \in Int /\ n[1] \in Int /\ n[2] \in Int
  BY DEF Node, NoOutput
<1> DEFINE i == Kernel(m[1], n[1])
           o == Kernel(m[2], n[2])
           none == NoOutput \in {m[2], n[2]}
<1>2. /\ i \in Nat /\ i = Kernel(n[1], m[1])
      /\ o \in Nat /\ o = Kernel(n[2], m[2])
  BY <1>1, KernelType
<1>3. /\ NodeSimilarity(m, n) = 3 * i + (IF none THEN 0 ELSE 7 * o)
      /\ NodeSimilarity(n, m) = 3 * i + (IF none THEN 0 ELSE 7 * o)
  <2>1. NoOutput \in {n[2], m[2]} <=> none
    OBVIOUS
  <2> HIDE DEF i, o, none
  <2> QED
    BY <1>2, <2>1 DEF NodeSimilarity, i, o, none
<1> HIDE DEF i, o, none
<1> QED
  BY <1>2, <1>3

\* The nodes of requests that have run.
RunNode == Nat \X Nat

\* Of nodes that have run, none are more similar than those that are the same.
LEMMA RunNodeSimilarity ==
    ASSUME NEW m \in RunNode, NEW n \in RunNode
    PROVE  /\ m \in Node /\ NodeSimilarity(m, n) <= 1000
           /\ NodeSimilarity(m, n) = 1000 => m = n
           /\ m = n => NodeSimilarity(m, n) = 1000
<1>1. /\ m[1] \in Int /\ m[2] \in Int /\ n[1] \in Int /\ n[2] \in Int
      /\ m[2] >= 0 /\ n[2] >= 0
      /\ m = <<m[1], m[2]>> /\ n = <<n[1], n[2]>>
  BY DEF RunNode
<1> DEFINE i == Kernel(m[1], n[1])
           o == Kernel(m[2], n[2])
<1>2. i \in Nat /\ i <= 100 /\ (i = 100 => m[1] = n[1]) /\ (m[1] = n[1] => i = 100)
  <2>1. i \in Nat
    BY <1>1, KernelType
  <2>2. i <= 100 /\ (i = 100 => m[1] = n[1]) /\ (m[1] = n[1] => i = 100)
    BY <1>1, KernelBound
  <2> QED
    BY <2>1, <2>2
<1>3. o \in Nat /\ o <= 100 /\ (o = 100 => m[2] = n[2]) /\ (m[2] = n[2] => o = 100)
  <2>1. o \in Nat
    BY <1>1, KernelType
  <2>2. o <= 100 /\ (o = 100 => m[2] = n[2]) /\ (m[2] = n[2] => o = 100)
    BY <1>1, KernelBound
  <2> QED
    BY <2>1, <2>2
<1>4. NodeSimilarity(m, n) = 3 * i + 7 * o
  BY <1>1 DEF NodeSimilarity, NoOutput
<1>5. m \in Node
  BY DEF RunNode, Node
<1> HIDE DEF i, o
<1>6. 3 * i + 7 * o <= 1000 /\ (3 * i + 7 * o = 1000 => i = 100 /\ o = 100)
  BY <1>2, <1>3
<1>7. NodeSimilarity(m, n) = 1000 => m = n
  BY <1>1, <1>2, <1>3, <1>4, <1>6
<1>8. m = n => NodeSimilarity(m, n) = 1000
  BY <1>2, <1>3, <1>4
<1> QED
  BY <1>4, <1>5, <1>6, <1>7, <1>8

\* There are finitely many functions from one finite set to another.
LEMMA FiniteFunctions ==
    ASSUME NEW S, IsFiniteSet(S), NEW T, IsFiniteSet(T)
    PROVE  IsFiniteSet([S -> T])
<1> DEFINE F == [S -> T]
           P == SUBSET (S \X T)
           pairs == [f \in F |-> {<<x, f[x]>> : x \in S}]
<1>1. IsFiniteSet(P)
  BY FS_Product, FS_SUBSET
<1>2. \A f \in F : pairs[f] = {<<x, f[x]>> : x \in S} /\ pairs[f] \in P
  OBVIOUS
<1>3. pairs \in [F -> P]
  <2> HIDE DEF P, F
  <2> QED
    BY <1>2
<1> HIDE DEF pairs
<1>4. ASSUME NEW f \in F, NEW g \in F, pairs[f] = pairs[g]
      PROVE  f = g
  <2>1. ASSUME NEW x \in S PROVE f[x] = g[x]
    <3>1. <<x, f[x]>> \in pairs[f]
      BY <1>2
    <3>2. PICK y \in S : <<x, f[x]>> = <<y, g[y]>>
      BY <1>2, <1>4, <3>1
    <3> QED
      BY <3>2
  <2> QED
    BY <2>1
<1>5. pairs \in Injection(F, P)
  <2> HIDE DEF F, P
  <2> QED
    BY <1>3, <1>4, Fun_IsInj
<1> HIDE DEF P
<1> QED
  BY <1>1, <1>5, FS_Injection

\* The orders in which the elements of S may be taken.
Orders(S) == Bijection(S, S)

LEMMA OrdersType ==
    ASSUME NEW S, IsFiniteSet(S)
    PROVE  /\ IsFiniteSet(Orders(S))
           /\ [i \in S |-> i] \in Orders(S)
           /\ Orders(S) \subseteq [S -> S]
<1> DEFINE id == [i \in S |-> i]
<1>1. Orders(S) \subseteq [S -> S]
  BY DEF Orders, Bijection, Injection
<1>2. id \in [S -> S] /\ \A i \in S : id[i] = i
  OBVIOUS
<1>3. id \in Orders(S)
  <2> HIDE DEF id
  <2> QED
    BY <1>2, Fun_IsBij DEF Orders
<1> QED
  BY <1>1, <1>3, FiniteFunctions, FS_Subset

\* The similarities of two stages, for each way to match their nodes.
Similarities(q, t, p) == [i \in DOMAIN q |-> NodeSimilarity(q[i], t[p[i]])]

LEMMA SimilaritiesType ==
    ASSUME NEW q \in Seq(Node), NEW t \in Seq(Node), Len(q) = Len(t),
           NEW p \in Orders(DOMAIN t)
    PROVE  /\ Similarities(q, t, p) \in Seq(Int)
           /\ DOMAIN Similarities(q, t, p) = DOMAIN q
           /\ Total(Similarities(q, t, p)) \in Int
           /\ Total(Similarities(q, t, p)) = Sum(Similarities(q, t, p), DOMAIN q)
<1> DEFINE v == Similarities(q, t, p)
           n == Len(q)
<1>1. n \in Nat /\ DOMAIN q = 1..n /\ DOMAIN t = 1..n /\ p \in [1..n -> 1..n]
  BY LenProperties, OrdersType, LastIndex
<1> HIDE DEF n
<1>2. ASSUME NEW i \in 1..n PROVE NodeSimilarity(q[i], t[p[i]]) \in Int
  <2>1. /\ \A k \in 1..n : q[k] \in Node
        /\ \A k \in 1..n : t[k] \in Node
    BY <1>1, ElementOfSeq
  <2>2. p[i] \in 1..n
    BY <1>1
  <2>3. q[i] \in Node /\ t[p[i]] \in Node
    BY <2>1, <2>2, Zenon
  <2>4. NodeSimilarity(q[i], t[p[i]]) \in Nat
    BY <2>3, NodeSimilarityType, Zenon
  <2> QED
    BY <2>4
<1>3. v \in Seq(Int) /\ DOMAIN v = 1..n
  BY <1>1, <1>2 DEF Similarities
<1> HIDE DEF v
<1> QED
  BY <1>1, <1>3, TotalType DEF v

LEMMA PermutedType ==
    ASSUME NEW q \in Seq(Node), NEW t \in Seq(Node), Len(q) = Len(t)
    PROVE  /\ PermutedSimilarity(q, t) =
                Max({Total(Similarities(q, t, p)) : p \in Orders(DOMAIN t)})
           /\ PermutedSimilarity(q, t) \in
                {Total(Similarities(q, t, p)) : p \in Orders(DOMAIN t)}
           /\ \A p \in Orders(DOMAIN t) :
                Total(Similarities(q, t, p)) <= PermutedSimilarity(q, t)
           /\ PermutedSimilarity(q, t) \in Int
<1> DEFINE P == Orders(DOMAIN t)
           v == [p \in P |-> Total(Similarities(q, t, p))]
           X == {Total(Similarities(q, t, p)) : p \in P}
<1>1. IsFiniteSet(P) /\ P # {}
  BY LastIndex, OrdersType
<1>2. \A p \in P : Total(Similarities(q, t, p)) \in Int
  BY SimilaritiesType
<1>3. PermutedSimilarity(q, t) = Max(X)
  BY DEF PermutedSimilarity, Similarities, Orders
<1> HIDE DEF P
<1>4. X \in SUBSET Int /\ X # {}
  BY <1>1, <1>2
<1>5. IsFiniteSet(X)
  <2>1. v \in [P -> X] /\ \A x \in X : \E p \in P : v[p] = x
    OBVIOUS
  <2> HIDE DEF v, X
  <2> QED
    BY <1>1, <2>1, Fun_IsSurj, FS_Surjection
<1>6. Max(X) \in X /\ \A x \in X : x <= Max(X)
  <2> HIDE DEF X
  <2>1. PICK hi \in X : \A x \in X : x <= hi
    BY <1>4, <1>5, ExtremesExist DEF HasExtremes
  <2>2. \A x \in X : hi >= x
    BY <1>4, <2>1
  <2>3. Max(X) \in X /\ \A x \in X : Max(X) >= x
    BY <2>2 DEF Max
  <2> QED
    BY <1>4, <2>3
<1>7. PermutedSimilarity(q, t) \in X /\ PermutedSimilarity(q, t) \in Int
  <2> HIDE DEF X
  <2> QED
    BY <1>3, <1>4, <1>6
<1> QED
  BY <1>3, <1>6, <1>7 DEF P

-----------------------------------------------------------------------------
(* The order of the nodes of a stage.                                      *)

LEMMA OrderType ==
    ASSUME NEW S, NEW r \in Orders(S)
    PROVE  /\ r \in [S -> S]
           /\ \A a, b \in S : r[a] = r[b] => a = b
           /\ \A b \in S : \E a \in S : r[a] = b
  BY Fun_BijectionProperties DEF Orders

\* Orders can be undone and composed.
LEMMA OrderInverse ==
    ASSUME NEW S, NEW r \in Orders(S)
    PROVE  \E b \in Orders(S) : \A i \in S : b[r[i]] = i /\ r[b[i]] = i
<1> DEFINE b == [i \in S |-> CHOOSE a \in S : r[a] = i]
<1>1. \A i \in S : b[i] \in S /\ r[b[i]] = i
  BY OrderType
<1>2. \A i \in S : r[i] \in S /\ b[r[i]] = i
  BY <1>1, OrderType
<1>3. b \in [S -> S]
  BY <1>1
<1> HIDE DEF b
<1>4. b \in Orders(S)
  <2>1. \A x, y \in S : b[x] = b[y] => x = y
    BY <1>1
  <2>2. \A y \in S : \E x \in S : b[x] = y
    BY <1>2
  <2> QED
    BY <1>3, <2>1, <2>2, Fun_IsBij DEF Orders
<1> QED
  BY <1>1, <1>2, <1>4

LEMMA OrderComposes ==
    ASSUME NEW S, NEW r \in Orders(S), NEW b \in Orders(S)
    PROVE  [i \in S |-> r[b[i]]] \in Orders(S)
  BY Fun_BijTransitive DEF Orders

\* A sum does not change with the order of its summands.
LEMMA SumReindexed ==
    ASSUME NEW S, IsFiniteSet(S), NEW b \in Orders(S), NEW v, NEW w,
           \A x \in S : v[x] \in Int /\ w[b[x]] = v[x]
    PROVE  Sum(v, S) = Sum(w, S)
<1> DEFINE Image(T) == {b[x] : x \in T}
           Good == {T \in SUBSET S : Sum(v, T) = Sum(w, Image(T))}
<1>1. /\ \A x \in S : b[x] \in S
      /\ \A x, y \in S : b[x] = b[y] => x = y
      /\ \A y \in S : \E x \in S : b[x] = y
  BY OrderType
<1>2. \A y \in S : w[y] \in Int
  BY <1>1
<1>3. ASSUME NEW T \in SUBSET S, \A U \in SUBSET T : U # T => U \in Good
      PROVE  T \in Good
  <2>1. CASE T = {}
    <3>1. Image(T) = T
      BY <2>1
    <3>2. Sum(v, T) = 0 /\ Sum(w, T) = 0
      BY <2>1, SumOfNone
    <3> QED
      BY <3>1, <3>2
  <2>2. CASE T # {}
    <3>1. PICK p \in T : TRUE
      BY <2>2
    <3>2. Sum(v, T \ {p}) = Sum(w, Image(T \ {p}))
      BY <1>3, <3>1
    <3>3. /\ IsFiniteSet(T) /\ IsFiniteSet(Image(T))
          /\ b[p] \in Image(T) /\ Image(T) \in SUBSET S
      <4>1. Image(T) \in SUBSET S
        BY <1>1
      <4>2. IsFiniteSet(T) /\ IsFiniteSet(Image(T))
        BY <4>1, FS_Subset
      <4> QED
        BY <3>1, <4>1, <4>2
    <3>4. Image(T) \ {b[p]} = Image(T \ {p})
      BY <1>1, <3>1
    <3> HIDE DEF Image
    <3>5. Sum(v, T) = v[p] + Sum(v, T \ {p})
      BY <3>1, <3>3, SumTakes
    <3>6. Sum(w, Image(T)) = w[b[p]] + Sum(w, Image(T) \ {b[p]})
      BY <1>2, <3>3, SumTakes
    <3> QED
      BY <3>1, <3>2, <3>4, <3>5, <3>6 DEF Image
  <2> QED
    BY <2>1, <2>2
<1>4. Image(S) = S
  BY <1>1
<1> HIDE DEF Good
<1>5. \A T \in SUBSET S : T \in Good
  BY <1>3, SubsetInduction
<1> QED
  BY <1>4, <1>5 DEF Good

\* Matchings of one pair of stages that are matchings of another, node for
\* node, are no better than the best of those.
LEMMA MatchingsCarryOver ==
    ASSUME NEW q \in Seq(Node), NEW t \in Seq(Node), Len(q) = Len(t),
           NEW q2 \in Seq(Node), NEW t2 \in Seq(Node), Len(q2) = Len(t2),
           Len(q) = Len(q2),
           \A r \in Orders(DOMAIN q) : \E r2, b \in Orders(DOMAIN q) :
             \A i \in DOMAIN q :
               NodeSimilarity(q2[b[i]], t2[r2[b[i]]]) = NodeSimilarity(q[i], t[r[i]])
    PROVE  PermutedSimilarity(q, t) <= PermutedSimilarity(q2, t2)
<1> DEFINE D == DOMAIN q
<1>1. DOMAIN t = D /\ DOMAIN q2 = D /\ DOMAIN t2 = D /\ IsFiniteSet(D)
  BY LenProperties, LastIndex
<1>2. PICK r \in Orders(D) : PermutedSimilarity(q, t) = Total(Similarities(q, t, r))
  BY <1>1, PermutedType
<1>3. PICK r2 \in Orders(D), b \in Orders(D) :
        \A i \in D : NodeSimilarity(q2[b[i]], t2[r2[b[i]]])
                       = NodeSimilarity(q[i], t[r[i]])
  BY <1>2
<1> HIDE DEF D
<1> DEFINE v == Similarities(q, t, r)
           w == Similarities(q2, t2, r2)
<1>4. /\ v \in Seq(Int) /\ DOMAIN v = D /\ Total(v) = Sum(v, D)
      /\ Total(w) = Sum(w, D) /\ Total(w) <= PermutedSimilarity(q2, t2)
  <2>1. v \in Seq(Int) /\ DOMAIN v = D /\ Total(v) = Sum(v, D)
    BY <1>1, <1>2, SimilaritiesType DEF D
  <2>2. Total(w) = Sum(w, D)
    BY <1>1, <1>3, SimilaritiesType
  <2>3. Total(w) <= PermutedSimilarity(q2, t2)
    BY <1>1, <1>3, PermutedType
  <2> QED
    BY <2>1, <2>2, <2>3
<1>5. \A i \in D : v[i] \in Int /\ w[b[i]] = v[i]
  <2>1. \A i \in D : v[i] \in Int
    BY <1>4, ElementOfSeq, LenProperties
  <2>2. \A i \in D : b[i] \in D
    BY <1>3, OrderType
  <2>3. \A i \in D : v[i] = NodeSimilarity(q[i], t[r[i]])
    BY DEF Similarities, D
  <2>4. \A i \in D : w[i] = NodeSimilarity(q2[i], t2[r2[i]])
    BY <1>1 DEF Similarities
  <2> HIDE DEF v, w
  <2>5. ASSUME NEW i \in D PROVE w[b[i]] = v[i]
    <3>1. b[i] \in D /\ v[i] = NodeSimilarity(q[i], t[r[i]])
      BY <2>2, <2>3
    <3>2. w[b[i]] = NodeSimilarity(q2[b[i]], t2[r2[b[i]]])
      BY <2>4, <3>1
    <3> QED
      BY <1>3, <3>1, <3>2
  <2> QED
    BY <2>1, <2>5
<1> HIDE DEF v, w
<1>6. Sum(v, D) = Sum(w, D)
  <2>1. IsFiniteSet(D) /\ b \in Orders(D)
    BY <1>1, <1>3
  <2>2. ASSUME NEW x, NEW y, \A i \in D : x[i] \in Int /\ y[b[i]] = x[i]
        PROVE  Sum(x, D) = Sum(y, D)
    BY <2>1, <2>2, SumReindexed
  <2> QED
    BY <1>5, <2>2
<1> QED
  BY <1>2, <1>4, <1>6 DEF v, w

\* A stage is as similar to another as that one to it.
LEMMA PermutedIsSymmetric ==
    ASSUME NEW q \in Seq(Node), NEW t \in Seq(Node), Len(q) = Len(t)
    PROVE  PermutedSimilarity(q, t) = PermutedSimilarity(t, q)
<1>1. ASSUME NEW x \in Seq(Node), NEW y \in Seq(Node), Len(x) = Len(y)
      PROVE  PermutedSimilarity(x, y) <= PermutedSimilarity(y, x)
  <2> DEFINE D == DOMAIN x
  <2>1. /\ \A i \in D : x[i] \in Node
        /\ \A i \in D : y[i] \in Node
    BY <1>1, LenProperties, ElementOfSeq
  <2>2. ASSUME NEW r \in Orders(D)
        PROVE  \E r2, b \in Orders(D) : \A i \in D :
                 NodeSimilarity(y[b[i]], x[r2[b[i]]]) = NodeSimilarity(x[i], y[r[i]])
    <3>1. PICK c \in Orders(D) : \A i \in D : c[r[i]] = i /\ r[c[i]] = i
      BY OrderInverse
    <3>2. \A i \in D : r[i] \in D
      BY OrderType
    <3>3. ASSUME NEW i \in D
          PROVE  NodeSimilarity(y[r[i]], x[c[r[i]]]) = NodeSimilarity(x[i], y[r[i]])
      <4>1. c[r[i]] = i /\ x[i] \in Node /\ y[r[i]] \in Node
        BY <2>1, <3>1, <3>2
      <4>2. NodeSimilarity(y[r[i]], x[i]) = NodeSimilarity(x[i], y[r[i]])
        BY <4>1, NodeSimilarityType
      <4> QED
        BY <4>1, <4>2
    <3> QED
      BY <3>1, <3>3
  <2> QED
    BY <1>1, <2>2, MatchingsCarryOver
<1>2. /\ PermutedSimilarity(q, t) <= PermutedSimilarity(t, q)
      /\ PermutedSimilarity(t, q) <= PermutedSimilarity(q, t)
  BY <1>1
<1>3. PermutedSimilarity(q, t) \in Int /\ PermutedSimilarity(t, q) \in Int
  BY PermutedType
<1> QED
  BY <1>2, <1>3

\* The nodes of a stage in another order.
Reordered(s, p) == [i \in DOMAIN s |-> s[p[i]]]

LEMMA ReorderedType ==
    ASSUME NEW S, NEW s \in Seq(S), NEW p \in Orders(DOMAIN s)
    PROVE  /\ Reordered(s, p) \in Seq(S) /\ Len(Reordered(s, p)) = Len(s)
           /\ DOMAIN Reordered(s, p) = DOMAIN s
           /\ \A i \in DOMAIN s : Reordered(s, p)[i] = s[p[i]]
<1>1. DOMAIN s = 1..Len(s) /\ Len(s) \in Nat
  BY LenProperties
<1>2. \A i \in DOMAIN s : s[p[i]] \in S
  BY <1>1, OrderType, ElementOfSeq
<1>3. Reordered(s, p) \in [1..Len(s) -> S]
  BY <1>1, <1>2 DEF Reordered
<1>4. \A i \in DOMAIN s : Reordered(s, p)[i] = s[p[i]]
  BY DEF Reordered
<1> HIDE DEF Reordered
<1>5. Reordered(s, p) \in Seq(S) /\ Len(Reordered(s, p)) = Len(s)
  BY <1>1, <1>3
<1> QED
  BY <1>1, <1>3, <1>4, <1>5

\* The order of the nodes does not change the best matching.
LEMMA PermutedIgnoresOrder ==
    ASSUME NEW q \in Seq(Node), NEW t \in Seq(Node), Len(q) = Len(t),
           NEW p \in Orders(DOMAIN q)
    PROVE  PermutedSimilarity(Reordered(q, p), t) = PermutedSimilarity(q, t)
<1> DEFINE D == DOMAIN q
           z == Reordered(q, p)
<1>1. /\ z \in Seq(Node) /\ Len(z) = Len(q) /\ DOMAIN z = D
      /\ \A i \in D : z[i] = q[p[i]]
  BY ReorderedType
<1>2. PICK c \in Orders(D) : \A i \in D : c[p[i]] = i /\ p[c[i]] = i
  BY OrderInverse
<1>3. /\ \A i \in D : p[i] \in D
      /\ \A i \in D : c[i] \in D
  BY <1>2, OrderType
<1> HIDE DEF z
<1>4. PermutedSimilarity(z, t) <= PermutedSimilarity(q, t)
  <2>1. ASSUME NEW r \in Orders(D)
        PROVE  \E r2, b \in Orders(D) : \A i \in D :
                 NodeSimilarity(q[b[i]], t[r2[b[i]]]) = NodeSimilarity(z[i], t[r[i]])
    <3> DEFINE r2 == [i \in D |-> r[c[i]]]
    <3>1. r2 \in Orders(D) /\ \A i \in D : r2[i] = r[c[i]]
      BY <1>2, OrderComposes
    <3> HIDE DEF r2
    <3>2. \A i \in D : r2[p[i]] = r[i] /\ z[i] = q[p[i]]
      BY <1>1, <1>2, <1>3, <3>1
    <3>3. \A i \in D :
            NodeSimilarity(q[p[i]], t[r2[p[i]]]) = NodeSimilarity(z[i], t[r[i]])
      BY <3>2
    <3> QED
      BY <3>1, <3>3
  <2>2. \A r \in Orders(DOMAIN z) : \E r2, b \in Orders(DOMAIN z) : \A i \in DOMAIN z :
          NodeSimilarity(q[b[i]], t[r2[b[i]]]) = NodeSimilarity(z[i], t[r[i]])
    <3>1. DOMAIN z = D
      BY <1>1
    <3> HIDE DEF D
    <3> QED
      BY <2>1, <3>1
  <2> QED
    BY <1>1, <2>2, MatchingsCarryOver
<1>5. PermutedSimilarity(q, t) <= PermutedSimilarity(z, t)
  <2>1. ASSUME NEW r \in Orders(D)
        PROVE  \E r2, b \in Orders(D) : \A i \in D :
                 NodeSimilarity(z[b[i]], t[r2[b[i]]]) = NodeSimilarity(q[i], t[r[i]])
    <3> DEFINE r2 == [i \in D |-> r[p[i]]]
    <3>1. r2 \in Orders(D) /\ \A i \in D : r2[i] = r[p[i]]
      BY OrderComposes
    <3> HIDE DEF r2
    <3>2. \A i \in D : r2[c[i]] = r[i] /\ z[c[i]] = q[i]
      BY <1>1, <1>2, <1>3, <3>1
    <3>3. \A i \in D :
            NodeSimilarity(z[c[i]], t[r2[c[i]]]) = NodeSimilarity(q[i], t[r[i]])
      BY <3>2
    <3> QED
      BY <1>2, <3>1, <3>3
  <2> QED
    BY <1>1, <2>1, MatchingsCarryOver
<1>6. PermutedSimilarity(z, t) \in Int /\ PermutedSimilarity(q, t) \in Int
  BY <1>1, PermutedType
<1> QED
  BY <1>4, <1>5, <1>6 DEF z

\* What the greedy matching may have come to.
Found(t) == [used : SUBSET DOMAIN t, total : Int]

\* What has been found when the node is matched to target i.
Matched(found, node, t, i) ==
    [used |-> found.used \cup {i},
     total |-> found.total + NodeSimilarity(node, t[i])]

\* A round takes the most similar of the targets that are left, or none if none
\* of them is similar at all.
Takes(next, found, node, t) ==
    LET left == DOMAIN t \ found.used
    IN \/ next = found /\ \A i \in left : NodeSimilarity(node, t[i]) = 0
       \/ \E i \in left :
            /\ \A j \in left : NodeSimilarity(node, t[j]) <= NodeSimilarity(node, t[i])
            /\ next = Matched(found, node, t, i)

LEMMA TakesOne ==
    ASSUME NEW t \in Seq(Node), NEW found \in Found(t), NEW node \in Node
    PROVE  /\ TakeBestLeft(found, node, t) \in Found(t)
           /\ Takes(TakeBestLeft(found, node, t), found, node, t)
<1> DEFINE left == DOMAIN t \ found.used
           score == [j \in left |-> NodeSimilarity(node, t[j])]
           i == FirstBest(left, LAMBDA j : NodeSimilarity(node, t[j]))
           next == TakeBestLeft(found, node, t)
           more == Matched(found, node, t, i)
<1>1. /\ left \in SUBSET Int /\ IsFiniteSet(left)
      /\ \A j \in DOMAIN t : t[j] \in Node
  <2>1. DOMAIN t \in SUBSET Int /\ IsFiniteSet(DOMAIN t) /\ IsFiniteSet(left)
    BY LenProperties, LastIndex
  <2> QED
    BY <2>1, ElementOfSeq, LenProperties
<1>2. ASSUME NEW j \in left
      PROVE  NodeSimilarity(node, t[j]) \in Nat /\ score[j] = NodeSimilarity(node, t[j])
  <2>1. t[j] \in Node
    BY <1>1
  <2>2. NodeSimilarity(node, t[j]) \in Nat
    BY <2>1, NodeSimilarityType, Zenon
  <2> QED
    BY <2>2
<1>3. CASE left = {}
  <2>1. next = found
    BY <1>3 DEF TakeBestLeft
  <2> QED
    BY <1>3, <2>1 DEF Takes
<1>4. CASE left # {}
  <2>1. /\ i \in left
        /\ \A j \in left : \/ NodeSimilarity(node, t[j]) < NodeSimilarity(node, t[i])
                           \/ /\ NodeSimilarity(node, t[j]) = NodeSimilarity(node, t[i])
                              /\ i <= j
    <3> HIDE DEF left
    <3>1. \A j \in left : score[j] \in Int /\ score[j] = NodeSimilarity(node, t[j])
      BY <1>2
    <3> HIDE DEF score
    <3>2. PICK k \in left : \A j \in left :
            score[j] < score[k] \/ (score[j] = score[k] /\ k <= j)
      BY <1>1, <1>4, <3>1, BestExists
    <3>3. \A j \in left : \/ NodeSimilarity(node, t[j]) < NodeSimilarity(node, t[k])
                          \/ /\ NodeSimilarity(node, t[j]) = NodeSimilarity(node, t[k])
                             /\ k <= j
      BY <3>1, <3>2
    <3> QED
      BY <3>3 DEF FirstBest
  <2>2. next = IF NodeSimilarity(node, t[i]) = 0 THEN found ELSE more
    BY <1>4 DEF TakeBestLeft, Matched
  <2> HIDE DEF i, next
  <2>3. ASSUME NEW j \in left
        PROVE  NodeSimilarity(node, t[j]) <= NodeSimilarity(node, t[i])
    <3> DEFINE a == NodeSimilarity(node, t[j])
               b == NodeSimilarity(node, t[i])
    <3>1. a \in Nat /\ b \in Nat /\ (a < b \/ a = b)
      BY <1>2, <2>1
    <3> HIDE DEF a, b
    <3>2. a <= b
      BY <3>1
    <3> QED
      BY <3>2 DEF a, b
  <2>4. CASE NodeSimilarity(node, t[i]) = 0
    <3>1. next = found
      BY <2>2, <2>4
    <3>2. ASSUME NEW j \in left PROVE NodeSimilarity(node, t[j]) = 0
      <4> DEFINE a == NodeSimilarity(node, t[j])
      <4>1. a \in Nat /\ a <= 0
        BY <1>2, <2>3, <2>4
      <4> HIDE DEF a
      <4>2. a = 0
        BY <4>1
      <4> QED
        BY <4>2 DEF a
    <3> QED
      BY <3>1, <3>2 DEF next, Takes
  <2>5. CASE NodeSimilarity(node, t[i]) # 0
    <3>1. next = more
      BY <2>2, <2>5
    <3>2. next \in Found(t)
      BY <1>2, <2>1, <3>1 DEF Found, Matched
    <3> QED
      BY <2>1, <2>3, <3>1, <3>2 DEF next, Takes
  <2> QED
    BY <2>4, <2>5
<1> QED
  BY <1>3, <1>4

\* How the greedy matching goes through the query: found[k] is what it has come
\* to after k nodes.
IsGreedy(found, q, t) ==
    /\ GreedySimilarity(q, t) = found[Len(q)].total
    /\ found[0] = [used |-> {}, total |-> 0]
    /\ \A k \in 0..Len(q) : found[k] \in Found(t)
    /\ \A k \in 1..Len(q) : found[k] = TakeBestLeft(found[k - 1], q[k], t)

LEMMA GreedyFolds ==
    ASSUME NEW q \in Seq(Node), NEW t \in Seq(Node)
    PROVE  \E found : IsGreedy(found, q, t)
<1> DEFINE D == DOMAIN q
           n == Len(q)
           none == [used |-> {}, total |-> 0]
           Folds(f) == f = [T \in SUBSET D |->
                              IF T = {} THEN none
                              ELSE TakeBestLeft(f[T \ {Max(T)}], q[Max(T)], t)]
           F == CHOOSE f : Folds(f)
           step == [x \in Found(t) \X D |-> TakeBestLeft(x[1], q[x[2]], t)]
<1>1. GreedySimilarity(q, t) = F[D].total
  BY DEF GreedySimilarity, FoldLeft, MapThenFoldSet
<1>2. /\ n \in Nat /\ D = 1..n
      /\ \A i \in D : q[i] \in Node
      /\ \A T \in SUBSET D : T # {} => Max(T) \in T
  <2>1. n \in Nat /\ D = 1..n
    BY LenProperties
  <2> QED
    BY <2>1, ElementOfSeq, LastIndex
<1>3. ASSUME NEW x \in Found(t), NEW i \in D
      PROVE  /\ step[<<x, i>>] = TakeBestLeft(x, q[i], t)
             /\ step[<<x, i>>] \in Found(t)
  <2>1. step[<<x, i>>] = TakeBestLeft(x, q[i], t)
    OBVIOUS
  <2>2. TakeBestLeft(x, q[i], t) \in Found(t)
    BY <1>2, TakesOne
  <2> QED
    BY <2>1, <2>2
<1>4. none \in Found(t)
  BY DEF Found
<1> HIDE DEF step, none
<1>5. PICK h : /\ h = [T \in SUBSET D |->
                         IF T = {} THEN none ELSE step[<<h[T \ {Max(T)}], Max(T)>>]]
               /\ \A T \in SUBSET D : h[T] \in Found(t)
  <2>1. \A x \in Found(t), i \in DOMAIN q : step[<<x, i>>] \in Found(t)
    BY <1>3
  <2> HIDE DEF D
  <2>2. \E f : /\ IsListFold(f, q, none, step)
              /\ \A T \in SUBSET DOMAIN q : f[T] \in Found(t)
    BY <1>4, <2>1, FoldOfList, Zenon
  <2> QED
    BY <2>2 DEF D, IsListFold
<1>6. Folds(h)
  <2>1. ASSUME NEW T \in SUBSET D
        PROVE  h[T] = IF T = {} THEN none
                      ELSE TakeBestLeft(h[T \ {Max(T)}], q[Max(T)], t)
    <3>1. CASE T = {}
      BY <1>5, <3>1
    <3>2. CASE T # {}
      <4>1. Max(T) \in D /\ h[T \ {Max(T)}] \in Found(t)
        BY <1>2, <1>5, <3>2
      <4>2. h[T] = step[<<h[T \ {Max(T)}], Max(T)>>]
        BY <1>5, <3>2
      <4> QED
        BY <1>3, <3>2, <4>1, <4>2, Zenon
    <3> QED
      BY <3>1, <3>2
  <2>2. h = [T \in SUBSET D |-> h[T]]
    BY <1>5
  <2> QED
    BY <2>1, <2>2, Zenon
<1>7. Folds(F)
  <2> HIDE DEF Folds
  <2> QED
    BY <1>6
<1> HIDE DEF F
<1>8. /\ F[{}] = none
      /\ \A T \in SUBSET D : T # {} =>
           F[T] = TakeBestLeft(F[T \ {Max(T)}], q[Max(T)], t)
  BY <1>7
<1>9. \A T \in SUBSET D : F[T] \in Found(t)
  <2> DEFINE Good == {T \in SUBSET D : F[T] \in Found(t)}
  <2>1. ASSUME NEW T \in SUBSET D, \A U \in SUBSET T : U # T => U \in Good
        PROVE  T \in Good
    <3>1. CASE T = {}
      BY <1>4, <1>8, <3>1
    <3>2. CASE T # {}
      <4>1. Max(T) \in T /\ F[T] = TakeBestLeft(F[T \ {Max(T)}], q[Max(T)], t)
        BY <1>2, <1>8, <3>2
      <4>2. F[T \ {Max(T)}] \in Found(t)
        BY <2>1, <4>1
      <4>3. q[Max(T)] \in Node
        BY <1>2, <4>1
      <4>4. TakeBestLeft(F[T \ {Max(T)}], q[Max(T)], t) \in Found(t)
        BY <4>2, <4>3, TakesOne
      <4> QED
        BY <4>1, <4>4
    <3> QED
      BY <3>1, <3>2
  <2>2. IsFiniteSet(D)
    BY LastIndex
  <2> HIDE DEF Good, D
  <2>3. \A T \in SUBSET D : T \in Good
    BY <2>1, <2>2, SubsetInduction
  <2> QED
    BY <2>3 DEF Good
<1> DEFINE found == [k \in 0..n |-> F[1..k]]
<1>10. ASSUME NEW k \in 1..n
       PROVE  /\ 1..k \in SUBSET D /\ 1..k # {} /\ Max(1..k) = k
              /\ (1..k) \ {k} = 1..(k - 1)
  <2>1. 1..k \in SUBSET D /\ k \in 1..k /\ \A x \in 1..k : k >= x
    BY <1>2
  <2>2. Max(1..k) \in 1..k /\ \A x \in 1..k : Max(1..k) >= x
    BY <2>1 DEF Max
  <2>3. Max(1..k) = k
    BY <2>1, <2>2
  <2> QED
    BY <2>1, <2>3
<1>11. ASSUME NEW k \in 1..n
       PROVE  F[1..k] = TakeBestLeft(F[1..(k - 1)], q[k], t)
  BY <1>8, <1>10
<1>12. found[0] = none
  <2>1. 1..0 = {} /\ 0 \in 0..n
    BY <1>2
  <2> QED
    BY <1>8, <2>1
<1>13. \A k \in 1..n : found[k] = TakeBestLeft(found[k - 1], q[k], t)
  BY <1>2, <1>11
<1>14. \A k \in 0..n : found[k] \in Found(t)
  <2>1. \A k \in 0..n : 1..k \in SUBSET D
    BY <1>2
  <2> QED
    BY <1>9, <2>1
<1>15. found[n] = F[D]
  BY <1>2
<1> HIDE DEF found
<1>16. IsGreedy(found, q, t)
  BY <1>1, <1>12, <1>13, <1>14, <1>15 DEF IsGreedy, none
<1> QED
  BY <1>16

\* An order in which two elements have changed places.
Swapped(r, a, b) == [r EXCEPT ![a] = r[b], ![b] = r[a]]

LEMMA SwappedType ==
    ASSUME NEW S, NEW r \in Orders(S), NEW a \in S, NEW b \in S
    PROVE  /\ Swapped(r, a, b) \in Orders(S)
           /\ Swapped(r, a, b)[a] = r[b] /\ Swapped(r, a, b)[b] = r[a]
           /\ \A i \in S : i # a /\ i # b => Swapped(r, a, b)[i] = r[i]
<1> DEFINE s == Swapped(r, a, b)
<1>1. /\ r \in [S -> S]
      /\ \A x, y \in S : r[x] = r[y] => x = y
      /\ \A y \in S : \E x \in S : r[x] = y
  BY OrderType
<1>2. /\ s \in [S -> S] /\ s[a] = r[b] /\ s[b] = r[a]
      /\ \A i \in S : i # a /\ i # b => s[i] = r[i]
  BY <1>1 DEF Swapped
<1> HIDE DEF s
<1>3. \A x, y \in S : s[x] = s[y] => x = y
  <2>1. ASSUME NEW x \in S, NEW y \in S, s[x] = s[y] PROVE x = y
    <3>1. CASE x = a \/ x = b \/ y = a \/ y = b
      BY <1>1, <1>2, <2>1, <3>1
    <3>2. CASE x \in S \ {a, b} /\ y \in S \ {a, b}
      BY <1>1, <1>2, <2>1, <3>2
    <3> QED
      BY <3>1, <3>2
  <2> QED
    BY <2>1
<1>4. \A y \in S : \E x \in S : s[x] = y
  <2>1. ASSUME NEW y \in S PROVE \E x \in S : s[x] = y
    <3>1. PICK x \in S : r[x] = y
      BY <1>1
    <3>2. CASE x = a
      BY <1>2, <3>1, <3>2
    <3>3. CASE x = b
      BY <1>2, <3>1, <3>3
    <3>4. CASE x \in S \ {a, b}
      BY <1>2, <3>1, <3>4
    <3> QED
      BY <3>2, <3>3, <3>4
  <2> QED
    BY <2>1
<1>5. s \in Orders(S)
  BY <1>2, <1>3, <1>4, Fun_IsBij DEF Orders
<1> QED
  BY <1>2, <1>5 DEF s

\* What the greedy matching has found is the matching r of all nodes, as far as
\* the nodes M are concerned.
Follows(found, q, t, r, M) ==
    /\ r \in Orders(DOMAIN q) /\ M \in SUBSET DOMAIN q
    /\ found.used = {r[i] : i \in M}
    /\ found.total = Sum(Similarities(q, t, r), M)

\* The matching with which found goes on when node k has taken target j: in r
\* this was the target of m, which now has that of k.
GoesOn(found, q, t, r, M, k, j) ==
    \E m \in DOMAIN q \ M :
      r[m] = j /\ Follows(found, q, t, Swapped(r, k, m), M \cup {k})

\* A round adds to the matching the node that it takes, which changes places
\* with one that is not matched yet.
LEMMA RoundFollows ==
    ASSUME NEW q \in Seq(Node), NEW t \in Seq(Node), Len(q) = Len(t),
           NEW r, NEW M, NEW found, Follows(found, q, t, r, M),
           NEW k \in DOMAIN q \ M, NEW j \in DOMAIN t \ found.used
    PROVE  GoesOn(Matched(found, q[k], t, j), q, t, r, M, k, j)
<1> DEFINE D == DOMAIN q
           next == Matched(found, q[k], t, j)
<1>1. /\ D = 1..Len(q) /\ DOMAIN t = D /\ Len(q) \in Nat /\ IsFiniteSet(D)
      /\ \A i \in D : q[i] \in Node /\ t[i] \in Node
  BY LenProperties, LastIndex, ElementOfSeq
<1>2. /\ r \in Orders(D) /\ M \in SUBSET D /\ k \in D \ M
      /\ found.used = {r[i] : i \in M}
      /\ found.total = Sum(Similarities(q, t, r), M)
      /\ M \cup {k} \in SUBSET D
  BY <1>1 DEF Follows
<1>3. PICK m \in D \ M : r[m] = j
  <2>1. j \in D /\ j \notin {r[i] : i \in M}
    BY <1>1, <1>2
  <2>2. PICK m \in D : r[m] = j
    BY <1>2, <2>1, OrderType
  <2> QED
    BY <2>1, <2>2
<1> DEFINE s == Swapped(r, k, m)
           v == Similarities(q, t, r)
           w == Similarities(q, t, s)
<1>next. /\ next.used = found.used \cup {j}
         /\ next.total = found.total + NodeSimilarity(q[k], t[j])
  BY DEF Matched
<1> HIDE DEF next
<1>4. s \in Orders(D) /\ s[k] = j /\ \A i \in M : s[i] = r[i]
  <2>1. /\ s \in Orders(D) /\ s[k] = r[m]
        /\ \A i \in D : i # k /\ i # m => s[i] = r[i]
    <3>1. r \in Orders(D) /\ k \in D /\ m \in D
      BY <1>2
    <3> HIDE DEF D, s
    <3>2. s \in Orders(D) /\ s[k] = r[m]
      BY <3>1, SwappedType DEF s
    <3>3. ASSUME NEW i \in D, i # k, i # m PROVE s[i] = r[i]
      <4>1. r \in [D -> D]
        BY <3>1, OrderType
      <4> QED
        BY <3>1, <3>3, <4>1 DEF s, Swapped
    <3> QED
      BY <3>2, <3>3
  <2> HIDE DEF s, D
  <2> QED
    BY <1>2, <1>3, <2>1
<1> HIDE DEF D, s
<1>5. {s[i] : i \in M \cup {k}} = next.used
  BY <1>2, <1>4, <1>next
<1>6. /\ \A i \in D : w[i] \in Int
      /\ \A i \in M : w[i] = v[i]
      /\ w[k] = NodeSimilarity(q[k], t[j])
  <2>1. w \in Seq(Int) /\ DOMAIN w = D
    BY <1>1, <1>4, SimilaritiesType DEF D
  <2>2. \A i \in D : w[i] = NodeSimilarity(q[i], t[s[i]])
    BY DEF Similarities, D
  <2>3. \A i \in D : v[i] = NodeSimilarity(q[i], t[r[i]])
    BY DEF Similarities, D
  <2> HIDE DEF v, w
  <2>4. \A i \in D : w[i] \in Int
    BY <2>1, ElementOfSeq, LenProperties
  <2>5. \A i \in M : i \in D
    BY <1>2
  <2>6. \A i \in M : w[i] = v[i]
    BY <1>4, <2>2, <2>3, <2>5
  <2>7. w[k] = NodeSimilarity(q[k], t[j])
    BY <1>2, <1>4, <2>2
  <2> QED
    BY <2>4, <2>6, <2>7
<1> HIDE DEF v, w
<1>7. Sum(w, M \cup {k}) = next.total
  <2>1. IsFiniteSet(M) /\ IsFiniteSet(M \cup {k}) /\ (M \cup {k}) \ {k} = M
    <3>1. M \cup {k} \in SUBSET D /\ (M \cup {k}) \ {k} = M
      BY <1>2
    <3> QED
      BY <1>1, <1>2, <3>1, FS_Subset
  <2>2. \A i \in M \cup {k} : w[i] \in Int
    BY <1>2, <1>6
  <2>3. Sum(w, M \cup {k}) = w[k] + Sum(w, M)
    <3>1. k \in M \cup {k}
      OBVIOUS
    <3>2. Sum(w, M \cup {k}) = w[k] + Sum(w, (M \cup {k}) \ {k})
      BY <2>1, <2>2, <3>1, SumTakes
    <3> QED
      BY <2>1, <3>2
  <2>4. Sum(w, M) = Sum(v, M)
    BY <1>6, <2>1, SumOfEqual
  <2>5. w[k] \in Int /\ Sum(w, M) \in Int
    BY <2>1, <2>2, SumType
  <2>6. next.total = Sum(v, M) + w[k]
    BY <1>2, <1>6, <1>next DEF v
  <2> QED
    BY <1>next, <2>1, <2>3, <2>4, <2>5, <2>6
<1>8. Follows(next, q, t, s, M \cup {k})
  BY <1>2, <1>4, <1>5, <1>7 DEF Follows, D, w
<1> QED
  BY <1>3, <1>8 DEF s, D, next, GoesOn

\* What the greedy matching has come to is always a part of a matching.
LEMMA GreedyFollows ==
    ASSUME NEW q \in Seq(Node), NEW t \in Seq(Node), Len(q) = Len(t),
           NEW found, IsGreedy(found, q, t)
    PROVE  \E r, M : Follows(found[Len(q)], q, t, r, M)
<1> DEFINE n == Len(q)
           IsPart(k) ==
             \E r, M : M \in SUBSET (1..k) /\ Follows(found[k], q, t, r, M)
           G == {k \in 0..n : IsPart(k)}
<1>1. n \in Nat /\ DOMAIN q = 1..n /\ IsFiniteSet(DOMAIN q) /\ \A i \in 1..n : q[i] \in Node
  BY LenProperties, LastIndex, ElementOfSeq
<1>2. 0 \in G
  <2> DEFINE id == [i \in DOMAIN q |-> i]
  <2>1. id \in Orders(DOMAIN q)
    BY <1>1, OrdersType
  <2>2. found[0].used = {} /\ found[0].total = 0
    BY DEF IsGreedy
  <2>3. Sum(Similarities(q, t, id), {}) = 0
    BY SumOfNone
  <2> HIDE DEF id
  <2>4. Follows(found[0], q, t, id, {})
    BY <2>1, <2>2, <2>3 DEF Follows
  <2>5. 0 \in 0..n /\ {} \in SUBSET (1..0)
    BY <1>1
  <2> QED
    BY <2>4, <2>5
<1>3. ASSUME NEW k \in 1..n, k - 1 \in G PROVE k \in G
  <2>1. PICK r, M :
          M \in SUBSET (1..(k - 1)) /\ Follows(found[k - 1], q, t, r, M)
    BY <1>3
  <2> DEFINE before == found[k - 1]
             left == DOMAIN t \ before.used
  <2>2. before \in Found(t) /\ found[k] = TakeBestLeft(before, q[k], t) /\ q[k] \in Node
    BY <1>1 DEF IsGreedy
  <2>3. \/ found[k] = before
        \/ \E j \in left : found[k] = Matched(before, q[k], t, j)
    <3>1. Takes(found[k], before, q[k], t)
      BY <2>2, TakesOne, Zenon
    <3> QED
      BY <3>1 DEF Takes
  <2>4. ASSUME found[k] = before
        PROVE  IsPart(k)
    <3>1. M \in SUBSET (1..k)
      BY <1>1, <2>1
    <3>2. Follows(found[k], q, t, r, M)
      BY <2>1, <2>4
    <3> QED
      BY <3>1, <3>2
  <2>5. ASSUME NEW j \in left, found[k] = Matched(before, q[k], t, j)
        PROVE  IsPart(k)
    <3>1. k \in DOMAIN q \ M /\ M \cup {k} \in SUBSET (1..k)
      BY <1>1, <2>1
    <3>2. GoesOn(Matched(before, q[k], t, j), q, t, r, M, k, j)
      <4>1. Follows(before, q, t, r, M) /\ j \in DOMAIN t \ before.used
        BY <2>1, <2>5
      <4> HIDE DEF before, left
      <4> QED
        BY <3>1, <4>1, RoundFollows
    <3>3. \E s : Follows(found[k], q, t, s, M \cup {k})
      BY <2>5, <3>2 DEF GoesOn
    <3> QED
      BY <3>1, <3>3
  <2>6. IsPart(k)
    BY <2>3, <2>4, <2>5
  <2> HIDE DEF IsPart
  <2> QED
    BY <1>1, <2>6
<1> HIDE DEF G, n
<1>4. \A k \in 0..n : k \in G
  BY <1>1, <1>2, <1>3, RoundInduction
<1>5. n \in 0..n
  BY <1>1
<1> QED
  BY <1>4, <1>5 DEF G, n

\* And so it never claims more than the best matching.
LEMMA GreedyIsBounded ==
    ASSUME NEW q \in Seq(Node), NEW t \in Seq(Node), Len(q) = Len(t)
    PROVE  GreedySimilarity(q, t) <= PermutedSimilarity(q, t)
<1> DEFINE D == DOMAIN q
<1>1. PICK found : IsGreedy(found, q, t)
  BY GreedyFolds
<1>2. PICK r, M : Follows(found[Len(q)], q, t, r, M)
  BY <1>1, GreedyFollows
<1>3. /\ IsFiniteSet(D) /\ D = 1..Len(q) /\ DOMAIN t = D
      /\ \A i \in D : q[i] \in Node
      /\ \A i \in D : t[i] \in Node
  BY LenProperties, LastIndex, ElementOfSeq
<1> DEFINE v == Similarities(q, t, r)
<1>4. r \in Orders(D) /\ M \subseteq D /\ GreedySimilarity(q, t) = Sum(v, M)
  BY <1>1, <1>2, <1>3 DEF Follows, IsGreedy
<1>5. ASSUME NEW i \in D PROVE v[i] \in Nat
  <2>1. r[i] \in D
    BY <1>4, OrderType
  <2>2. q[i] \in Node /\ t[r[i]] \in Node
    BY <1>3, <2>1
  <2>3. NodeSimilarity(q[i], t[r[i]]) \in Nat
    BY <2>2, NodeSimilarityType
  <2> QED
    BY <2>3 DEF Similarities
<1>6. Sum(v, M) \in Nat /\ Sum(v, D) \in Nat /\ Sum(v, M) <= Sum(v, D)
  <2> HIDE DEF D, v
  <2> QED
    BY <1>3, <1>4, <1>5, SumOfNaturals
<1>7. Total(v) = Sum(v, D)
  BY <1>3, <1>4, SimilaritiesType
<1>8. Total(v) <= PermutedSimilarity(q, t) /\ PermutedSimilarity(q, t) \in Int
  BY <1>3, <1>4, PermutedType
<1> HIDE DEF D, v
<1> QED
  BY <1>4, <1>6, <1>7, <1>8

\* r matches every node with an equal one, and the greedy matching has found
\* these for the first k.
Finds(found, q, t, k, r) ==
    /\ Follows(found, q, t, r, 1..k)
    /\ \A i \in DOMAIN q : t[r[i]] = q[i]

\* A round finds another of the equal nodes: of the targets that are left one is
\* equal to the node, and none is more similar.
LEMMA RoundFinds ==
    ASSUME NEW q \in Seq(RunNode), NEW t \in Seq(RunNode), Len(q) = Len(t),
           NEW found, IsGreedy(found, q, t), NEW k \in 1..Len(q),
           NEW r, Finds(found[k - 1], q, t, k - 1, r)
    PROVE  \E s : Finds(found[k], q, t, k, s)
<1> DEFINE D == DOMAIN q
           before == found[k - 1]
           left == D \ before.used
<1>1. /\ Len(q) \in Nat /\ D = 1..Len(q) /\ DOMAIN t = D
      /\ q \in Seq(Node) /\ t \in Seq(Node)
  <2>1. RunNode \subseteq Node
    BY DEF RunNode, Node
  <2>2. Len(q) \in Nat /\ D = 1..Len(q) /\ DOMAIN t = 1..Len(t)
    BY LenProperties
  <2>3. q \in Seq(Node)
    BY <2>1
  <2>4. t \in Seq(Node)
    BY <2>1
  <2> QED
    BY <2>2, <2>3, <2>4
<1>2. ASSUME NEW i \in D
      PROVE  q[i] \in RunNode /\ t[i] \in RunNode /\ q[i] \in Node
  <2>1. q[i] \in RunNode /\ t[i] \in RunNode
    BY <1>1, ElementOfSeq
  <2> QED
    BY <2>1, RunNodeSimilarity
<1>3. /\ r \in Orders(D) /\ k \in D
      /\ before.used = {r[i] : i \in 1..(k - 1)}
      /\ \A i \in D : t[r[i]] = q[i]
  BY <1>1 DEF Finds, Follows
<1>4. r[k] \in left
  <2>1. r[k] \in D /\ \A i \in 1..(k - 1) : r[k] # r[i]
    <3>1. \A i \in 1..(k - 1) : i \in D /\ i # k
      BY <1>1
    <3> QED
      BY <1>3, <3>1, OrderType
  <2> QED
    BY <1>3, <2>1
<1>5. before \in Found(t) /\ found[k] = TakeBestLeft(before, q[k], t)
  BY <1>1 DEF IsGreedy
<1>6. NodeSimilarity(q[k], t[r[k]]) = 1000
  <2>1. t[r[k]] = q[k] /\ q[k] \in RunNode
    BY <1>2, <1>3
  <2> QED
    BY <2>1, RunNodeSimilarity
<1>7. PICK j \in left :
        /\ \A i \in left : NodeSimilarity(q[k], t[i]) <= NodeSimilarity(q[k], t[j])
        /\ found[k] = Matched(before, q[k], t, j)
  <2>1. q[k] \in Node /\ DOMAIN t \ before.used = left
    BY <1>1, <1>2, <1>3
  <2>2. \/ \A i \in left : NodeSimilarity(q[k], t[i]) = 0
        \/ \E i \in left :
             /\ \A j \in left : NodeSimilarity(q[k], t[j]) <= NodeSimilarity(q[k], t[i])
             /\ found[k] = Matched(before, q[k], t, i)
    <3>1. Takes(found[k], before, q[k], t)
      BY <1>1, <1>5, <2>1, TakesOne, Zenon
    <3> QED
      BY <2>1, <3>1 DEF Takes
  <2>3. ~ \A i \in left : NodeSimilarity(q[k], t[i]) = 0
    BY <1>4, <1>6
  <2> QED
    BY <2>2, <2>3
<1>8. t[j] = q[k]
  <2>1. q[k] \in RunNode /\ t[j] \in RunNode /\ NodeSimilarity(q[k], t[j]) >= 1000
    <3>1. j \in D
      BY <1>7
    <3>2. NodeSimilarity(q[k], t[r[k]]) <= NodeSimilarity(q[k], t[j])
      BY <1>4, <1>7
    <3> QED
      BY <1>2, <1>3, <1>6, <3>1, <3>2
  <2>2. NodeSimilarity(q[k], t[j]) = 1000
    <3>1. NodeSimilarity(q[k], t[j]) <= 1000
      BY <2>1, RunNodeSimilarity
    <3>2. q[k] \in Node /\ t[j] \in Node
      BY <2>1 DEF RunNode, Node
    <3>3. NodeSimilarity(q[k], t[j]) \in Nat
      BY <3>2, NodeSimilarityType
    <3> QED
      BY <2>1, <3>1, <3>3
  <2>3. q[k] = t[j]
    BY <2>1, <2>2, RunNodeSimilarity
  <2> QED
    BY <2>3
<1>9. PICK m \in D \ (1..(k - 1)) :
        r[m] = j /\ Follows(found[k], q, t, Swapped(r, k, m), (1..(k - 1)) \cup {k})
  <2> DEFINE M == 1..(k - 1)
             next == Matched(before, q[k], t, j)
  <2>1. Follows(before, q, t, r, M)
    BY DEF Finds
  <2>2. j \in DOMAIN t \ before.used
    BY <1>1, <1>7
  <2>3. k \in DOMAIN q \ M
    BY <1>1
  <2> HIDE DEF before, D, M
  <2>4. GoesOn(next, q, t, r, M, k, j)
    BY <1>1, <2>1, <2>2, <2>3, RoundFollows
  <2> QED
    BY <1>7, <2>4 DEF D, M, GoesOn
<1> DEFINE s == Swapped(r, k, m)
<1>10. (1..(k - 1)) \cup {k} = 1..k
  BY <1>1
<1>11. ASSUME NEW i \in D PROVE t[s[i]] = q[i]
  <2>1. s[k] = r[m] /\ s[m] = r[k] /\ (i # k /\ i # m => s[i] = r[i])
    <3>1. r \in [D -> D] /\ k \in D /\ m \in D
      BY <1>3, OrderType
    <3> QED
      BY <3>1 DEF Swapped
  <2>2. t[r[m]] = q[m] /\ t[r[k]] = q[k]
    BY <1>3
  <2> HIDE DEF s
  <2>3. CASE i = k
    BY <1>8, <1>9, <2>1, <2>3
  <2>4. CASE i = m
    BY <1>8, <1>9, <2>1, <2>2, <2>4
  <2>5. CASE i # k /\ i # m
    BY <1>3, <2>1, <2>5
  <2> QED
    BY <2>3, <2>4, <2>5
<1>12. Follows(found[k], q, t, s, 1..k)
  BY <1>9, <1>10
<1> HIDE DEF s
<1> QED
  BY <1>11, <1>12 DEF Finds

\* The greedy matching finds the stage whose requests are the same ones in
\* another order.
LEMMA GreedyFindsTheSame ==
    ASSUME NEW q \in Seq(RunNode), NEW p \in Orders(DOMAIN q)
    PROVE  GreedySimilarity(q, Reordered(q, p)) = PermutedSimilarity(q, q)
<1> DEFINE D == DOMAIN q
           n == Len(q)
           t == Reordered(q, p)
<1>1. /\ n \in Nat /\ D = 1..n /\ IsFiniteSet(D)
      /\ \A i \in D : q[i] \in RunNode
  BY LenProperties, LastIndex, ElementOfSeq
<1>2. /\ t \in Seq(RunNode) /\ Len(t) = n /\ DOMAIN t = D
      /\ \A i \in D : t[i] = q[p[i]]
  BY ReorderedType
<1>3. q \in Seq(Node) /\ t \in Seq(Node)
  BY <1>2 DEF RunNode, Node
<1>4. PICK c \in Orders(D) : \A i \in D : c[p[i]] = i /\ p[c[i]] = i
  BY OrderInverse
<1> HIDE DEF t
<1>5. PICK found : IsGreedy(found, q, t)
  BY <1>3, GreedyFolds
<1> DEFINE G == {k \in 0..n : \E r : Finds(found[k], q, t, k, r)}
<1>6. 0 \in G
  <2>1. found[0].used = {} /\ found[0].total = 0
    BY <1>5 DEF IsGreedy
  <2>2. Sum(Similarities(q, t, c), {}) = 0
    BY SumOfNone
  <2> HIDE DEF D
  <2>4. Follows(found[0], q, t, c, {})
    BY <1>4, <2>1, <2>2 DEF Follows, D
  <2> USE DEF D
  <2> DEFINE none == 1..0
  <2>3. none = {}
    OBVIOUS
  <2> HIDE DEF none
  <2>5. Follows(found[0], q, t, c, none)
    BY <2>3, <2>4
  <2>6. \A i \in D : t[c[i]] = q[i]
    <3>1. c \in [D -> D]
      BY <1>4, OrderType
    <3> QED
      BY <1>2, <1>4, <3>1
  <2>7. Finds(found[0], q, t, 0, c)
    BY <2>5, <2>6 DEF Finds, none
  <2> QED
    BY <1>1, <2>7
<1>7. ASSUME NEW k \in 1..n, k - 1 \in G PROVE k \in G
  <2>1. PICK r : Finds(found[k - 1], q, t, k - 1, r)
    BY <1>7
  <2>2. \E s : Finds(found[k], q, t, k, s)
    BY <1>2, <1>5, <2>1, RoundFinds
  <2> QED
    BY <1>1, <2>2
<1> HIDE DEF n, G
<1>8. \A k \in 0..n : k \in G
  BY <1>1, <1>6, <1>7, RoundInduction
<1>9. PICK r : Finds(found[n], q, t, n, r)
  <2>1. n \in 0..n
    BY <1>1
  <2> QED
    BY <1>8, <2>1 DEF G
<1> DEFINE id == [i \in D |-> i]
           v == Similarities(q, t, r)
           w == Similarities(q, q, id)
<1>10. GreedySimilarity(q, t) = Sum(v, D)
  BY <1>1, <1>5, <1>9 DEF Finds, Follows, IsGreedy, n
<1>11. Sum(v, D) = Sum(w, D)
  <2>1. ASSUME NEW i \in D PROVE v[i] = w[i]
    <3>1. t[r[i]] = q[i] /\ id[i] = i
      BY <1>9 DEF Finds
    <3> QED
      BY <3>1 DEF Similarities
  <2> HIDE DEF v, w, D
  <2> QED
    BY <1>1, <2>1, SumOfEqual
<1>12. id \in Orders(D)
  BY <1>1, OrdersType
<1>13. Total(w) = Sum(w, D) /\ Total(w) <= PermutedSimilarity(q, q)
  <2> HIDE DEF id
  <2>1. Total(w) = Sum(w, D)
    BY <1>3, <1>12, SimilaritiesType
  <2>2. Total(w) <= PermutedSimilarity(q, q)
    BY <1>3, <1>12, PermutedType
  <2> QED
    BY <2>1, <2>2
<1>14. GreedySimilarity(q, t) <= PermutedSimilarity(q, q)
  BY <1>10, <1>11, <1>13
<1>15. PICK o \in Orders(D) : PermutedSimilarity(q, q) = Total(Similarities(q, q, o))
  BY <1>3, PermutedType
<1> DEFINE x == Similarities(q, q, o)
<1>16. Total(x) = Sum(x, D) /\ PermutedSimilarity(q, q) \in Int
  <2>1. Total(x) = Sum(x, D)
    BY <1>3, <1>15, SimilaritiesType
  <2>2. PermutedSimilarity(q, q) \in Int
    BY <1>3, PermutedType
  <2> QED
    BY <2>1, <2>2
<1>17. ASSUME NEW i \in D PROVE x[i] \in Int /\ w[i] \in Int /\ x[i] <= w[i]
  <2>1. q[i] \in RunNode /\ q[o[i]] \in RunNode
    <3>1. o \in [D -> D]
      BY <1>15, OrderType
    <3> QED
      BY <1>1, <3>1
  <2>2. NodeSimilarity(q[i], q[o[i]]) <= 1000 /\ NodeSimilarity(q[i], q[i]) = 1000
    BY <2>1, RunNodeSimilarity
  <2>3. NodeSimilarity(q[i], q[o[i]]) \in Nat
    <3>1. q[i] \in Node /\ q[o[i]] \in Node
      BY <2>1 DEF RunNode, Node
    <3> QED
      BY <3>1, NodeSimilarityType
  <2>4. x[i] = NodeSimilarity(q[i], q[o[i]]) /\ w[i] = NodeSimilarity(q[i], q[i])
    BY DEF Similarities
  <2> HIDE DEF x, w
  <2> QED
    BY <2>2, <2>3, <2>4
<1>18. Sum(x, D) <= Sum(w, D)
  <2> HIDE DEF x, w, D
  <2> QED
    BY <1>1, <1>17, SumOfLess
<1>19. Sum(w, D) \in Int
  <2> HIDE DEF x, w, D
  <2> QED
    BY <1>1, <1>17, SumType
<1> HIDE DEF v, w, x, D
<1>20. PermutedSimilarity(q, q) <= GreedySimilarity(q, t)
  BY <1>10, <1>11, <1>15, <1>16, <1>18 DEF x
<1>21. GreedySimilarity(q, t) \in Int
  BY <1>10, <1>11, <1>19
<1> QED
  BY <1>14, <1>16, <1>20, <1>21 DEF t

LEMMA GreedyType ==
    ASSUME NEW q \in Seq(Node), NEW t \in Seq(Node)
    PROVE  GreedySimilarity(q, t) \in Int
<1>1. PICK found : IsGreedy(found, q, t)
  BY GreedyFolds
<1>2. found[Len(q)] \in Found(t)
  BY <1>1, LenProperties DEF IsGreedy
<1> QED
  BY <1>1, <1>2 DEF IsGreedy, Found

-----------------------------------------------------------------------------
(* Distances.                                                              *)

LEMMA PadType ==
    ASSUME NEW s \in Seq(Node), NEW n \in Nat, n >= Len(s), NEW node \in Node
    PROVE  Pad(s, n, node) \in Seq(Node) /\ Len(Pad(s, n, node)) = n
<1> DEFINE rest == [i \in 1..(n - Len(s)) |-> node]
<1>1. Len(s) \in Nat /\ n - Len(s) \in Nat
  BY LenProperties
<1>2. rest \in Seq(Node) /\ Len(rest) = n - Len(s)
  BY <1>1
<1> HIDE DEF rest
<1>3. s \o rest \in Seq(Node) /\ Len(s \o rest) = Len(s) + Len(rest)
  BY <1>2, ConcatProperties
<1>4. Pad(s, n, node) = s \o rest
  BY DEF Pad, rest
<1> QED
  BY <1>1, <1>2, <1>3, <1>4

LEMMA StageType ==
    ASSUME NEW q \in Seq(Node), NEW t \in Seq(Node), Len(q) = Len(t)
    PROVE  StageSimilarity(q, t) \in Int
<1>1. GreedySimilarity(q, t) \in Int
  BY GreedyType
<1>2. PermutedSimilarity(q, t) \in Int
  BY PermutedType
<1> QED
  BY <1>1, <1>2 DEF StageSimilarity

LEMMA PaddedType ==
    ASSUME NEW q \in Seq(Node), NEW t \in Seq(Node)
    PROVE  PaddedSimilarity(q, t) \in Int
<1> DEFINE n == IF Len(q) >= Len(t) THEN Len(q) ELSE Len(t)
           empty == IF q # <<>> /\ q[1][2] # NoOutput THEN <<0, 0>>
                                                      ELSE <<0, NoOutput>>
<1>1. <<0, 0>> \in Node /\ <<0, NoOutput>> \in Node
  BY DEF Node
<1>2. n \in Nat /\ n >= Len(q) /\ n >= Len(t) /\ empty \in Node
  BY <1>1, LenProperties
<1>3. PaddedSimilarity(q, t) = StageSimilarity(Pad(q, n, empty), Pad(t, n, <<0, 0>>))
  BY DEF PaddedSimilarity
<1> HIDE DEF n, empty
<1> DEFINE pq == Pad(q, n, empty)
           pt == Pad(t, n, <<0, 0>>)
<1>4. pq \in Seq(Node) /\ Len(pq) = n
  BY <1>2, PadType
<1>5. pt \in Seq(Node) /\ Len(pt) = n
  BY <1>1, <1>2, PadType
<1> HIDE DEF pq, pt
<1>6. StageSimilarity(pq, pt) \in Int
  BY <1>4, <1>5, StageType
<1> QED
  BY <1>3, <1>6 DEF pq, pt

\* The similarities of the stages of two graphs.
StageScores(g, h) == [i \in DOMAIN g.nodes |-> PaddedSimilarity(g.nodes[i], h.nodes[i])]

LEMMA StageScoresType ==
    ASSUME NEW g, IsGraph(g), NEW h, IsGraph(h), Len(g.nodes) = Len(h.nodes)
    PROVE  StageScores(g, h) \in Seq(Int)
<1>1. g.nodes \in Seq(Seq(Node)) /\ h.nodes \in Seq(Seq(Node))
  BY DEF IsGraph
<1>2. DOMAIN g.nodes = 1..Len(g.nodes) /\ Len(g.nodes) \in Nat
  BY <1>1, LenProperties
<1>3. \A i \in 1..Len(g.nodes) : g.nodes[i] \in Seq(Node) /\ h.nodes[i] \in Seq(Node)
  BY <1>1, ElementOfSeq
<1>4. \A i \in 1..Len(g.nodes) : PaddedSimilarity(g.nodes[i], h.nodes[i]) \in Int
  BY <1>3, PaddedType
<1> QED
  BY <1>2, <1>4 DEF StageScores

LEMMA GraphDistanceType ==
    ASSUME NEW g, IsGraph(g), NEW h, IsGraph(h)
    PROVE  /\ GraphDistance(g, h) =
                IF Len(g.nodes) # Len(h.nodes) THEN 0 ELSE Total(StageScores(g, h))
           /\ GraphDistance(g, h) \in Int
<1>1. GraphDistance(g, h) =
        IF Len(g.nodes) # Len(h.nodes) THEN 0 ELSE Total(StageScores(g, h))
  BY DEF GraphDistance, StageScores
<1>2. CASE Len(g.nodes) = Len(h.nodes)
  BY <1>1, <1>2, StageScoresType, TotalType
<1> QED
  BY <1>1, <1>2

LEMMA DistanceType ==
    ASSUME NEW g, IsGraph(g), NEW graph \in Graphs
    PROVE  /\ Distance(g, graph) = GraphDistance(g, graph)
           /\ Distance(g, graph) \in Int
<1>1. IsGraph(graph)
  BY ClusteringAssumption
<1>2. GraphDistance(g, graph) \in Int
  BY <1>1, GraphDistanceType
<1>3. Distance(g, graph) = GraphDistance(g, graph)
  BY DEF Distance, DistanceTable
<1> QED
  BY <1>2, <1>3

\* Of the graphs of a list whose indices are in ms, the first that is closest.
ClosestIn(list, graph, ms) ==
    FirstBest(DOMAIN ms, LAMBDA c : Distance(graph, list[ms[c]]))

Leads(list, graph, ms, c) ==
    /\ c \in DOMAIN ms
    /\ \A d \in DOMAIN ms :
         \/ Distance(graph, list[ms[d]]) < Distance(graph, list[ms[c]])
         \/ Distance(graph, list[ms[d]]) = Distance(graph, list[ms[c]]) /\ c <= d

LEMMA ListedDistances ==
    ASSUME NEW list \in Seq(Graphs), NEW graph, IsGraph(graph),
           NEW ms \in Seq(DOMAIN list)
    PROVE  \A c \in DOMAIN ms : Distance(graph, list[ms[c]]) \in Int
<1> SUFFICES ASSUME NEW c \in DOMAIN ms PROVE Distance(graph, list[ms[c]]) \in Int
  OBVIOUS
<1>1. ms[c] \in DOMAIN list
  BY ElementOfSeq, LenProperties
<1>2. list[ms[c]] \in Graphs
  BY <1>1, ElementOfSeq, LenProperties
<1> QED
  BY <1>2, DistanceType

LEMMA ClosestLeads ==
    ASSUME NEW list \in Seq(Graphs), NEW graph, IsGraph(graph),
           NEW ms \in Seq(DOMAIN list), ms # <<>>
    PROVE  Leads(list, graph, ms, ClosestIn(list, graph, ms))
<1> DEFINE C == DOMAIN ms
           score == [c \in C |-> Distance(graph, list[ms[c]])]
<1>1. C \in SUBSET Int /\ IsFiniteSet(C) /\ C # {}
  <2>1. C = 1..Len(ms) /\ Len(ms) \in Nat /\ Len(ms) # 0
    BY LenProperties, EmptySeq
  <2>2. IsFiniteSet(DOMAIN ms)
    BY LastIndex
  <2>3. C \in SUBSET Int /\ 1 \in C
    BY <2>1
  <2> QED
    BY <2>2, <2>3
<1>2. ASSUME NEW c \in C
      PROVE  /\ score[c] = Distance(graph, list[ms[c]])
             /\ score[c] \in Int
  BY ListedDistances
<1> HIDE DEF C, score
<1>3. PICK k \in C : \A j \in C : score[j] < score[k] \/ (score[j] = score[k] /\ k <= j)
  BY <1>1, <1>2, BestExists
<1>4. \A j \in C : \/ Distance(graph, list[ms[j]]) < Distance(graph, list[ms[k]])
                   \/ Distance(graph, list[ms[j]]) = Distance(graph, list[ms[k]]) /\ k <= j
  BY <1>2, <1>3, Zenon
<1> QED
  BY <1>4 DEF ClosestIn, Leads, FirstBest, C

\* There is only one first of the closest.
LEMMA LeaderIsFirst ==
    ASSUME NEW list \in Seq(Graphs), NEW graph, IsGraph(graph),
           NEW ms \in Seq(DOMAIN list), NEW c, Leads(list, graph, ms, c)
    PROVE  ClosestIn(list, graph, ms) = c
<1> DEFINE b == ClosestIn(list, graph, ms)
<1>1. c \in DOMAIN ms
  BY DEF Leads
<1>2. DOMAIN ms = 1..Len(ms) /\ Len(ms) \in Nat /\ ms # <<>>
  BY <1>1, LenProperties, EmptySeq
<1>3. Leads(list, graph, ms, b)
  BY <1>2, ClosestLeads
<1>4. \A d \in DOMAIN ms : Distance(graph, list[ms[d]]) \in Int
  BY ListedDistances
<1> HIDE DEF b
<1>5. b <= c /\ c <= b /\ b \in DOMAIN ms
  BY <1>1, <1>3, <1>4 DEF Leads
<1>6. b = c
  BY <1>1, <1>2, <1>5
<1> QED
  BY <1>6 DEF b

\* A list that grows keeps what is closest.
LEMMA LeadersKept ==
    ASSUME NEW list \in Seq(Graphs), NEW more \in Seq(Graphs),
           \A i \in DOMAIN list : i \in DOMAIN more /\ more[i] = list[i],
           NEW graph, IsGraph(graph), NEW ms \in Seq(DOMAIN list), ms # <<>>
    PROVE  ClosestIn(more, graph, ms) = ClosestIn(list, graph, ms)
<1> DEFINE c == ClosestIn(list, graph, ms)
<1>1. Leads(list, graph, ms, c)
  BY ClosestLeads
<1>2. ms \in Seq(DOMAIN more)
  BY SeqMonotonic
<1>3. \A d \in DOMAIN ms : more[ms[d]] = list[ms[d]]
  BY ElementOfSeq, LenProperties
<1> HIDE DEF c
<1>4. Leads(more, graph, ms, c)
  BY <1>1, <1>3 DEF Leads
<1>5. ClosestIn(more, graph, ms) = c
  BY <1>2, <1>4, LeaderIsFirst
<1> QED
  BY <1>5 DEF c

\* The closest medoid is one of those there are, and no other is closer.
LEMMA ClosestType ==
    ASSUME finished \in Seq(Graphs), NEW graph, IsGraph(graph),
           NEW ms \in Seq(DOMAIN finished), ms # <<>>
    PROVE  /\ Closest(graph, ms) \in DOMAIN ms
           /\ \A d \in DOMAIN ms :
                Distance(graph, finished[ms[d]])
                  <= Distance(graph, finished[ms[Closest(graph, ms)]])
<1>1. Closest(graph, ms) = ClosestIn(finished, graph, ms)
  BY DEF Closest, ClosestIn
<1>2. Leads(finished, graph, ms, Closest(graph, ms))
  BY <1>1, ClosestLeads
<1> DEFINE c == Closest(graph, ms)
<1>3. \A d \in DOMAIN ms : Distance(graph, finished[ms[d]]) \in Int
  BY ListedDistances
<1> HIDE DEF c
<1>4. c \in DOMAIN ms
  BY <1>2 DEF Leads, c
<1>5. ASSUME NEW d \in DOMAIN ms
      PROVE  Distance(graph, finished[ms[d]]) <= Distance(graph, finished[ms[c]])
  <2> DEFINE x == Distance(graph, finished[ms[d]])
             y == Distance(graph, finished[ms[c]])
  <2>1. x < y \/ x = y
    BY <1>2 DEF Leads, c
  <2>2. x \in Int /\ y \in Int
    BY <1>3, <1>4
  <2> HIDE DEF x, y
  <2>3. x <= y
    BY <2>1, <2>2
  <2> QED
    BY <2>3 DEF x, y
<1> QED
  BY <1>4, <1>5 DEF c

-----------------------------------------------------------------------------
(* The order of the nodes of a graph.                                      *)

\* A stage of requests that have run, filled with empty nodes to n.
Filled(s, n) == Pad(s, n, <<0, 0>>)
Longer(q, t) == IF Len(q) >= Len(t) THEN Len(q) ELSE Len(t)

LEMMA FilledType ==
    ASSUME NEW s \in Seq(RunNode), NEW n \in Nat, n >= Len(s)
    PROVE  /\ Filled(s, n) \in Seq(Node) /\ Len(Filled(s, n)) = n
           /\ DOMAIN Filled(s, n) = 1..n
           /\ \A i \in 1..n : Filled(s, n)[i] = IF i <= Len(s) THEN s[i] ELSE <<0, 0>>
<1> DEFINE rest == [i \in 1..(n - Len(s)) |-> <<0, 0>>]
           e == <<0, 0>>
<1>1. Len(s) \in Nat /\ n - Len(s) \in Nat /\ s \in Seq(Node) /\ e \in Node
  BY LenProperties DEF RunNode, Node
<1>2. /\ rest \in Seq(Node) /\ Len(rest) = n - Len(s)
      /\ \A i \in 1..(n - Len(s)) : rest[i] = e
  <2> HIDE DEF e
  <2>1. [i \in 1..(n - Len(s)) |-> e] \in Seq(Node)
    BY <1>1
  <2> QED
    BY <1>1, <2>1 DEF e
<1>3. Filled(s, n) = s \o rest
  BY DEF Filled, Pad
<1> HIDE DEF rest
<1>4. /\ s \o rest \in Seq(Node) /\ Len(s \o rest) = Len(s) + Len(rest)
      /\ \A i \in 1..(Len(s) + Len(rest)) :
           (s \o rest)[i] = IF i <= Len(s) THEN s[i] ELSE rest[i - Len(s)]
  BY <1>1, <1>2, ConcatProperties
<1>5. Filled(s, n) \in Seq(Node) /\ Len(Filled(s, n)) = n
  BY <1>1, <1>2, <1>3, <1>4
<1>6. ASSUME NEW i \in 1..n
      PROVE  Filled(s, n)[i] = IF i <= Len(s) THEN s[i] ELSE <<0, 0>>
  <2>1. Len(s) + Len(rest) = n
    BY <1>1, <1>2
  <2>2. Filled(s, n)[i] = IF i <= Len(s) THEN s[i] ELSE rest[i - Len(s)]
    BY <1>3, <1>4, <2>1
  <2>3. ~(i <= Len(s)) => i - Len(s) \in 1..(n - Len(s))
    BY <1>1
  <2> HIDE DEF e
  <2>4. ~(i <= Len(s)) => rest[i - Len(s)] = e
    BY <1>2, <2>3
  <2> QED
    BY <2>2, <2>4 DEF e
<1> QED
  BY <1>5, <1>6, LenProperties

\* Stages of requests that have run, small enough to try all permutations.
SmallStage(s) == s \in Seq(RunNode) /\ s # <<>> /\ Len(s) <= MaxPermuted

LEMMA PaddedIsBest ==
    ASSUME NEW q, SmallStage(q), NEW t, SmallStage(t)
    PROVE  /\ Longer(q, t) \in Nat
           /\ Longer(q, t) >= Len(q) /\ Longer(q, t) >= Len(t)
           /\ PaddedSimilarity(q, t) =
                PermutedSimilarity(Filled(q, Longer(q, t)), Filled(t, Longer(q, t)))
<1> DEFINE n == Longer(q, t)
           empty == IF q # <<>> /\ q[1][2] # NoOutput THEN <<0, 0>>
                                                      ELSE <<0, NoOutput>>
<1>1. /\ q \in Seq(RunNode) /\ t \in Seq(RunNode)
      /\ Len(q) \in Nat /\ Len(t) \in Nat /\ Len(q) # 0 /\ Len(t) # 0
      /\ Len(q) <= MaxPermuted /\ Len(t) <= MaxPermuted
  BY LenProperties, EmptySeq DEF SmallStage
<1>2. n \in Nat /\ n >= Len(q) /\ n >= Len(t) /\ n # 0 /\ n <= MaxPermuted
  BY <1>1 DEF Longer
<1>3. empty = <<0, 0>>
  <2>1. q[1] \in RunNode
    BY <1>1, ElementOfSeq
  <2>2. q[1][2] # NoOutput
    BY <2>1 DEF RunNode, NoOutput
  <2> QED
    BY <2>2 DEF SmallStage
<1>4. PaddedSimilarity(q, t) = StageSimilarity(Filled(q, n), Filled(t, n))
  BY <1>3 DEF PaddedSimilarity, Filled, Longer
<1> HIDE DEF n
<1>5. Len(Filled(q, n)) = n /\ Len(Filled(t, n)) = n
  BY <1>1, <1>2, FilledType
<1>6. Filled(q, n) # <<>> /\ Filled(t, n) # <<>>
  BY <1>2, <1>5, EmptySeq
<1>7. ~(Len(Filled(t, n)) > MaxPermuted)
  BY <1>2, <1>5, SimilarityAssumption
<1>8. StageSimilarity(Filled(q, n), Filled(t, n))
        = PermutedSimilarity(Filled(q, n), Filled(t, n))
  BY <1>6, <1>7 DEF StageSimilarity
<1> QED
  BY <1>2, <1>4, <1>8 DEF n

LEMMA PaddedIsSymmetric ==
    ASSUME NEW q, SmallStage(q), NEW t, SmallStage(t)
    PROVE  PaddedSimilarity(q, t) = PaddedSimilarity(t, q)
<1> DEFINE n == Longer(q, t)
<1>1. n = Longer(t, q) /\ n \in Nat /\ n >= Len(q) /\ n >= Len(t)
  BY LenProperties DEF Longer, SmallStage
<1>2. /\ PaddedSimilarity(q, t) = PermutedSimilarity(Filled(q, n), Filled(t, n))
      /\ PaddedSimilarity(t, q) = PermutedSimilarity(Filled(t, n), Filled(q, n))
  BY <1>1, PaddedIsBest
<1> HIDE DEF n
<1>3. /\ Filled(q, n) \in Seq(Node) /\ Len(Filled(q, n)) = n
      /\ Filled(t, n) \in Seq(Node) /\ Len(Filled(t, n)) = n
  BY <1>1, FilledType DEF SmallStage
<1> QED
  BY <1>2, <1>3, PermutedIsSymmetric

LEMMA PaddedIgnoresOrder ==
    ASSUME NEW q, SmallStage(q), NEW t, SmallStage(t), NEW p \in Orders(DOMAIN q)
    PROVE  PaddedSimilarity(Reordered(q, p), t) = PaddedSimilarity(q, t)
<1> DEFINE z == Reordered(q, p)
           n == Longer(q, t)
           e == [i \in 1..n |-> IF i <= Len(q) THEN p[i] ELSE i]
           full == Filled(q, n)
<1>1. /\ q \in Seq(RunNode) /\ Len(q) \in Nat /\ DOMAIN q = 1..Len(q) /\ Len(q) # 0
      /\ Len(q) <= MaxPermuted
  BY LenProperties, EmptySeq DEF SmallStage
<1>2. /\ z \in Seq(RunNode) /\ Len(z) = Len(q)
      /\ \A i \in 1..Len(q) : z[i] = q[p[i]]
  BY <1>1, ReorderedType
<1> HIDE DEF z
<1>3. SmallStage(z)
  BY <1>1, <1>2, EmptySeq DEF SmallStage
<1>4. n = Longer(z, t) /\ n \in Nat /\ n >= Len(q)
  BY <1>1, <1>2, LenProperties DEF Longer, SmallStage
<1>5. /\ PaddedSimilarity(q, t) = PermutedSimilarity(full, Filled(t, n))
      /\ PaddedSimilarity(z, t) = PermutedSimilarity(Filled(z, n), Filled(t, n))
      /\ n >= Len(t)
  BY <1>3, <1>4, PaddedIsBest
<1> HIDE DEF n
<1>6. /\ full \in Seq(Node) /\ Len(full) = n /\ DOMAIN full = 1..n
      /\ \A i \in 1..n : full[i] = IF i <= Len(q) THEN q[i] ELSE <<0, 0>>
  BY <1>1, <1>4, FilledType
<1>7. /\ Filled(z, n) \in Seq(Node) /\ Len(Filled(z, n)) = n
      /\ \A i \in 1..n : Filled(z, n)[i] = IF i <= Len(q) THEN z[i] ELSE <<0, 0>>
  <2>1. n >= Len(z)
    BY <1>2, <1>4
  <2>2. /\ Filled(z, n) \in Seq(Node) /\ Len(Filled(z, n)) = n
        /\ \A i \in 1..n : Filled(z, n)[i] = IF i <= Len(z) THEN z[i] ELSE <<0, 0>>
    BY <1>2, <1>4, <2>1, FilledType
  <2> QED
    BY <1>2, <2>2
<1>8. /\ \A i \in 1..Len(q) : p[i] \in 1..Len(q)
      /\ \A i, j \in 1..Len(q) : p[i] = p[j] => i = j
      /\ \A j \in 1..Len(q) : \E i \in 1..Len(q) : p[i] = j
  <2>1. /\ \A i \in DOMAIN q : p[i] \in DOMAIN q
        /\ \A i, j \in DOMAIN q : p[i] = p[j] => i = j
        /\ \A j \in DOMAIN q : \E i \in DOMAIN q : p[i] = j
    BY OrderType
  <2> QED
    BY <1>1, <2>1
<1>9. e \in Orders(1..n)
  <2>1. \A i \in 1..n : e[i] = IF i <= Len(q) THEN p[i] ELSE i
    OBVIOUS
  <2>2. \A i \in 1..n : IF i <= Len(q) THEN i \in 1..Len(q) /\ e[i] \in 1..Len(q)
                                       ELSE e[i] = i
    BY <1>1, <1>8, <2>1
  <2>3. \A i \in 1..n : e[i] \in 1..n
    BY <1>1, <1>4, <2>2
  <2>4. e \in [1..n -> 1..n]
    BY <2>3
  <2> HIDE DEF e
  <2>5. ASSUME NEW i \in 1..n, NEW j \in 1..n, e[i] = e[j] PROVE i = j
    <3>1. CASE i <= Len(q) /\ j <= Len(q)
      BY <1>8, <2>1, <2>2, <2>5, <3>1
    <3>2. CASE ~(i <= Len(q)) \/ ~(j <= Len(q))
      BY <1>1, <2>2, <2>5, <3>2
    <3> QED
      BY <3>1, <3>2
  <2>6. ASSUME NEW j \in 1..n PROVE \E i \in 1..n : e[i] = j
    <3>1. CASE j <= Len(q)
      <4>1. PICK i \in 1..Len(q) : p[i] = j
        BY <1>1, <1>8, <3>1
      <4>2. i \in 1..n /\ i <= Len(q)
        BY <1>1, <1>4
      <4> QED
        BY <2>1, <4>1, <4>2
    <3>2. CASE ~(j <= Len(q))
      BY <2>2, <3>2
    <3> QED
      BY <3>1, <3>2
  <2> QED
    BY <2>4, <2>5, <2>6, Fun_IsBij DEF Orders
<1> HIDE DEF full
<1>10. /\ Reordered(full, e) \in Seq(Node) /\ Len(Reordered(full, e)) = n
       /\ \A i \in 1..n : Reordered(full, e)[i] = full[e[i]]
  <2> HIDE DEF e
  <2> QED
    BY <1>6, <1>9, ReorderedType
<1>11. ASSUME NEW i \in 1..n PROVE Reordered(full, e)[i] = Filled(z, n)[i]
  <2>1. CASE i <= Len(q)
    <3>1. i \in 1..Len(q) /\ e[i] = p[i] /\ p[i] \in 1..Len(q)
      BY <1>1, <1>8, <2>1
    <3>2. p[i] \in 1..n /\ p[i] <= Len(q)
      BY <1>1, <1>4, <3>1
    <3> HIDE DEF e
    <3> QED
      BY <1>2, <1>6, <1>7, <1>10, <2>1, <3>1, <3>2
  <2>2. CASE ~(i <= Len(q))
    <3>1. e[i] = i
      BY <2>2
    <3> HIDE DEF e
    <3> QED
      BY <1>6, <1>7, <1>10, <2>2, <3>1
  <2> QED
    BY <2>1, <2>2
<1> HIDE DEF e
<1>12. Reordered(full, e) = Filled(z, n)
  BY <1>4, <1>7, <1>10, <1>11, SeqEqual
<1>13. Filled(t, n) \in Seq(Node) /\ Len(Filled(t, n)) = n
  BY <1>4, <1>5, FilledType DEF SmallStage
<1>14. PermutedSimilarity(Reordered(full, e), Filled(t, n))
         = PermutedSimilarity(full, Filled(t, n))
  BY <1>6, <1>9, <1>13, PermutedIgnoresOrder
<1> QED
  BY <1>5, <1>12, <1>14 DEF z

\* The distance of two graphs is that of their stages.
LEMMA DistanceIsOfStages ==
    ASSUME NEW g, NEW h, NEW g2, NEW h2,
           Len(g.nodes) = Len(h.nodes), Len(g2.nodes) = Len(h2.nodes),
           DOMAIN g.nodes = DOMAIN g2.nodes,
           \A i \in DOMAIN g.nodes :
             PaddedSimilarity(g.nodes[i], h.nodes[i])
               = PaddedSimilarity(g2.nodes[i], h2.nodes[i])
    PROVE  GraphDistance(g, h) = GraphDistance(g2, h2)
<1>1. StageScores(g, h) = StageScores(g2, h2)
  BY DEF StageScores
<1> QED
  BY <1>1 DEF GraphDistance, StageScores

-----------------------------------------------------------------------------
(* Clusters and their number.                                              *)

\* The list of one of the clusters of ClustersOf.
ListOf(ids, assigned, c) ==
    FoldLeft(LAMBDA list, i : IF assigned[i] = c THEN Append(list, i) ELSE list,
             <<>>, ids)

LEMMA AppendedSet ==
    ASSUME NEW X, NEW s \in Seq(X), NEW x \in X
    PROVE  ToSet(Append(s, x)) = ToSet(s) \cup {x}
<1>1. /\ Append(s, x) \in Seq(X) /\ Len(Append(s, x)) = Len(s) + 1
      /\ \A i \in 1..Len(s) : Append(s, x)[i] = s[i]
      /\ Append(s, x)[Len(s) + 1] = x
  BY AppendProperties
<1>2. /\ DOMAIN s = 1..Len(s) /\ Len(s) \in Nat
      /\ DOMAIN Append(s, x) = 1..(Len(s) + 1)
  BY <1>1, LenProperties
<1>3. 1..(Len(s) + 1) = (1..Len(s)) \cup {Len(s) + 1}
  BY <1>2
<1> QED
  BY <1>1, <1>2, <1>3 DEF ToSet

\* The list of a cluster has what was assigned to it.
Members(T, assigned, c) == {i \in T : assigned[i] = c}

LEMMA MembersType ==
    ASSUME NEW X, NEW ids \in Seq(X), NEW assigned, NEW c,
           \A i \in DOMAIN ids : ids[i] = i
    PROVE  /\ ListOf(ids, assigned, c) \in Seq(X)
           /\ ToSet(ListOf(ids, assigned, c)) = Members(DOMAIN ids, assigned, c)
<1> DEFINE D == DOMAIN ids
           next(list, i) == IF assigned[i] = c THEN Append(list, i) ELSE list
           Folds(f) == f = [T \in SUBSET D |->
                              IF T = {} THEN <<>>
                              ELSE next(f[T \ {Max(T)}], ids[Max(T)])]
           F == CHOOSE f : Folds(f)
           step == [x \in Seq(X) \X D |-> next(x[1], ids[x[2]])]
<1>1. ListOf(ids, assigned, c) = F[D]
  BY DEF ListOf, FoldLeft, MapThenFoldSet
<1>2. /\ \A i \in D : ids[i] \in X /\ ids[i] = i
      /\ \A T \in SUBSET D : T # {} => Max(T) \in T
  BY ElementOfSeq, LenProperties, LastIndex
<1>3. ASSUME NEW x \in Seq(X), NEW i \in D
      PROVE  /\ step[<<x, i>>] = next(x, ids[i])
             /\ step[<<x, i>>] \in Seq(X)
  <2>1. step[<<x, i>>] = next(x, ids[i])
    OBVIOUS
  <2>2. next(x, ids[i]) \in Seq(X)
    BY <1>2, AppendProperties
  <2> QED
    BY <2>1, <2>2
<1>4. <<>> \in Seq(X)
  OBVIOUS
<1> HIDE DEF step, next
<1>5. PICK h : /\ IsListFold(h, ids, <<>>, step)
               /\ \A T \in SUBSET D : h[T] \in Seq(X)
  <2>1. \A x \in Seq(X), i \in DOMAIN ids : step[<<x, i>>] \in Seq(X)
    BY <1>3
  <2> HIDE DEF D
  <2>2. \E f : /\ IsListFold(f, ids, <<>>, step)
               /\ \A T \in SUBSET DOMAIN ids : f[T] \in Seq(X)
    BY <1>4, <2>1, FoldOfList, Zenon
  <2> QED
    BY <2>2 DEF D
<1>6. ASSUME NEW T \in SUBSET D
      PROVE  h[T] = IF T = {} THEN <<>> ELSE next(h[T \ {Max(T)}], ids[Max(T)])
  <2>1. CASE T = {}
    BY <1>5, <2>1 DEF IsListFold
  <2>2. CASE T # {}
    <3>1. Max(T) \in D /\ h[T \ {Max(T)}] \in Seq(X)
      BY <1>2, <1>5, <2>2
    <3>2. h[T] = step[<<h[T \ {Max(T)}], Max(T)>>]
      BY <1>5, <2>2 DEF IsListFold
    <3> QED
      BY <1>3, <2>2, <3>1, <3>2, Zenon
  <2> QED
    BY <2>1, <2>2
<1>7. Folds(h)
  <2>1. h = [T \in SUBSET D |-> h[T]]
    BY <1>5 DEF IsListFold
  <2> QED
    BY <1>6, <2>1, Zenon
<1>8. Folds(F)
  <2> HIDE DEF Folds
  <2> QED
    BY <1>7
<1> HIDE DEF F
<1> DEFINE Good == {T \in SUBSET D : /\ F[T] \in Seq(X)
                                     /\ ToSet(F[T]) = Members(T, assigned, c)}
<1>9. ASSUME NEW T \in SUBSET D, \A U \in SUBSET T : U # T => U \in Good
      PROVE  T \in Good
  <2>1. CASE T = {}
    <3>1. F[T] = <<>>
      BY <1>8, <2>1
    <3>2. ToSet(<<>>) = {} /\ Members({}, assigned, c) = {}
      BY DEF ToSet, Members
    <3> QED
      BY <1>4, <2>1, <3>1, <3>2
  <2>2. CASE T # {}
    <3> DEFINE m == Max(T)
               rest == T \ {m}
               list == F[rest]
    <3>1. m \in T /\ F[T] = next(list, m)
      BY <1>2, <1>8, <2>2
    <3>2. list \in Seq(X) /\ ToSet(list) = Members(rest, assigned, c)
      BY <1>9, <3>1
    <3>3. m \in X
      BY <1>2, <3>1
    <3> HIDE DEF list, m
    <3>4. CASE assigned[m] = c
      <4>1. F[T] = Append(list, m)
        BY <3>1, <3>4 DEF next
      <4>2. F[T] \in Seq(X) /\ ToSet(F[T]) = ToSet(list) \cup {m}
        BY <3>2, <3>3, <4>1, AppendProperties, AppendedSet
      <4>3. Members(T, assigned, c) = Members(rest, assigned, c) \cup {m}
        BY <3>1, <3>4 DEF Members
      <4> QED
        BY <3>2, <4>2, <4>3
    <3>5. CASE assigned[m] # c
      <4>1. F[T] = list
        BY <3>1, <3>5 DEF next
      <4>2. Members(T, assigned, c) = Members(rest, assigned, c)
        BY <3>1, <3>5 DEF Members
      <4> QED
        BY <3>2, <4>1, <4>2
    <3> QED
      BY <3>4, <3>5
  <2> QED
    BY <2>1, <2>2
<1>10. IsFiniteSet(D)
  BY LastIndex
<1> HIDE DEF Good, D
<1>11. \A T \in SUBSET D : T \in Good
  BY <1>9, <1>10, SubsetInduction
<1> QED
  BY <1>1, <1>11 DEF Good, D

LEMMA ClustersType ==
    ASSUME NEW S, NEW assigned \in Seq(S), NEW k \in Nat
    PROVE  /\ ClustersOf(assigned, k) \in Seq(Seq(DOMAIN assigned))
           /\ Len(ClustersOf(assigned, k)) = k
           /\ \A c \in 1..k : ToSet(ClustersOf(assigned, k)[c])
                              = Members(DOMAIN assigned, assigned, c)
<1> DEFINE ids == [i \in DOMAIN assigned |-> i]
<1>1. /\ ids \in Seq(DOMAIN assigned) /\ DOMAIN ids = DOMAIN assigned
      /\ \A i \in DOMAIN ids : ids[i] = i
  BY LenProperties
<1>2. \A c \in 1..k : /\ ListOf(ids, assigned, c) \in Seq(DOMAIN assigned)
                     /\ ToSet(ListOf(ids, assigned, c))
                          = Members(DOMAIN assigned, assigned, c)
  <2> HIDE DEF ids
  <2> QED
    BY <1>1, MembersType
<1>3. ClustersOf(assigned, k) = [c \in 1..k |-> ListOf(ids, assigned, c)]
  BY DEF ClustersOf, ListOf
<1> HIDE DEF ids
<1> QED
  BY <1>2, <1>3

\* There are never more clusters than graphs.
LEMMA TargetType ==
    ASSUME NEW n \in Nat
    PROVE  TargetK(n) \in 0..n
<1> DEFINE R == {i \in DOMAIN Thresholds : n >= Thresholds[i]}
<1>1. ASSUME NEW i \in R PROVE i \in 1..(n - 1)
  <2>1. i \in Nat \ {0} /\ Thresholds[i] \in Nat /\ Thresholds[i] > i
    BY ClusteringAssumption, LenProperties, ElementOfSeq
  <2> QED
    BY <2>1
<1> HIDE DEF R
<1>2. CASE R = {}
  <2>1. Cardinality(R) = 0
    BY <1>2, FS_EmptySet
  <2> QED
    BY <2>1 DEF TargetK, R
<1>3. CASE R # {}
  <2>1. n - 1 \in Nat
    BY <1>1, <1>3
  <2>2. \A m \in Nat : IsFiniteSet(1..m) /\ Cardinality(1..m) = m
    <3>1. ASSUME NEW m \in Nat
          PROVE  IsFiniteSet(1..m) /\ Cardinality(1..m) = IF 1 > m THEN 0 ELSE m - 1 + 1
      BY FS_Interval
    <3>2. ASSUME NEW m \in Nat PROVE (IF 1 > m THEN 0 ELSE m - 1 + 1) = m
      OBVIOUS
    <3> QED
      BY <3>1, <3>2, Zenon
  <2>3. IsFiniteSet(1..(n - 1)) /\ Cardinality(1..(n - 1)) = n - 1
    BY <2>1, <2>2
  <2>4. R \subseteq 1..(n - 1)
    BY <1>1
  <2>5. IsFiniteSet(R) /\ Cardinality(R) <= n - 1
    BY <2>3, <2>4, FS_Subset
  <2>6. Cardinality(R) \in Nat
    BY <2>5, FS_CardinalityType
  <2> QED
    BY <2>5, <2>6 DEF TargetK, R
<1> QED
  BY <1>2, <1>3

-----------------------------------------------------------------------------
(* The inductive invariant.                                                *)

\* The update under way: how many clusters for how many graphs, the medoids
\* once they are chosen, and the clusters of the graphs walked over so far.
UpdateInv ==
    /\ update \in [at : {"none", "begin", "assign", "medoids", "install"}, n : Nat,
                   k : Nat, iteration : Nat, medoids : Seq(Nat),
                   assigned : Seq(Nat)]
    /\ update.n <= Len(finished)
    /\ update.k <= update.n
    /\ update.assigned \in Seq(1..update.k)
    /\ Len(update.assigned) <= Len(finished)
    /\ update.at # "none" => update.k # 0
    /\ update.at \in {"assign", "medoids", "install"} =>
         update.medoids \in Seq(DOMAIN finished) /\ Len(update.medoids) = update.k

\* What is installed: one medoid and one list of graphs for each cluster.
InstalledInv ==
    /\ currentK \in Nat
    /\ medoids \in Seq(DOMAIN finished) /\ Len(medoids) = currentK
    /\ clusters \in Seq(Seq(DOMAIN finished)) /\ Len(clusters) = currentK

ClusteringInv ==
    /\ finished \in Seq(Graphs)
    /\ InstalledInv
    /\ UpdateInv
    /\ inProgress \in BOOLEAN
    /\ inProgress <=> update.at # "none"

\* Graphs finish only.
LEMMA FinishedGrows ==
    ASSUME finished \in Seq(Graphs), NEW graph \in Graphs
    PROVE  LET more == Append(finished, graph)
           IN /\ more \in Seq(Graphs) /\ Len(more) = Len(finished) + 1
              /\ DOMAIN finished \subseteq DOMAIN more
              /\ Len(finished) \in Nat
<1>1. /\ Append(finished, graph) \in Seq(Graphs)
      /\ Len(Append(finished, graph)) = Len(finished) + 1
  BY AppendProperties
<1>2. /\ DOMAIN finished = 1..Len(finished) /\ Len(finished) \in Nat
      /\ DOMAIN Append(finished, graph) = 1..Len(Append(finished, graph))
  BY <1>1, LenProperties
<1> QED
  BY <1>1, <1>2

LEMMA InitInv == Init => ClusteringInv
<1> SUFFICES ASSUME Init PROVE ClusteringInv
  OBVIOUS
<1>1. \A S : <<>> \in Seq(S)
  OBVIOUS
<1>2. UpdateInv
  BY <1>1 DEF Init, NoUpdate, UpdateInv
<1>3. InstalledInv
  BY <1>1 DEF Init, InstalledInv
<1> QED
  BY <1>1, <1>2, <1>3 DEF Init, NoUpdate, ClusteringInv

LEMMA AddFinishedRequestKeeps ==
    ASSUME ClusteringInv, NEW graph \in Graphs, AddFinishedRequest(graph)
    PROVE  ClusteringInv'
<1>1. /\ finished' \in Seq(Graphs) /\ Len(finished') = Len(finished) + 1
      /\ DOMAIN finished \subseteq DOMAIN finished' /\ Len(finished) \in Nat
  BY FinishedGrows DEF ClusteringInv, AddFinishedRequest
<1>2. UNCHANGED <<clusters, medoids, currentK, inProgress, update>>
  BY DEF AddFinishedRequest
<1>3. InstalledInv'
  <2>1. medoids \in Seq(DOMAIN finished')
    BY <1>1, SeqMonotonic DEF ClusteringInv, InstalledInv
  <2>2. Seq(DOMAIN finished) \subseteq Seq(DOMAIN finished')
    BY <1>1, SeqMonotonic
  <2>3. clusters \in Seq(Seq(DOMAIN finished'))
    BY <2>2, SeqMonotonic DEF ClusteringInv, InstalledInv
  <2> QED
    BY <1>2, <2>1, <2>3 DEF ClusteringInv, InstalledInv
<1>4. UpdateInv'
  <2>1. update.at \in {"assign", "medoids", "install"} =>
          update.medoids \in Seq(DOMAIN finished')
    BY <1>1, SeqMonotonic DEF ClusteringInv, UpdateInv
  <2>2. update.assigned \in Seq(1..update.k) /\ Len(update.assigned) \in Nat
    BY LenProperties DEF ClusteringInv, UpdateInv
  <2>3. /\ update.n \in Nat /\ update.n <= Len(finished')
        /\ Len(update.assigned) <= Len(finished')
    BY <1>1, <2>2 DEF ClusteringInv, UpdateInv
  <2> QED
    BY <1>2, <2>1, <2>2, <2>3 DEF ClusteringInv, UpdateInv
<1> QED
  BY <1>1, <1>2, <1>3, <1>4 DEF ClusteringInv

LEMMA UpdateClusteringKeeps ==
    ASSUME ClusteringInv, UpdateClustering
    PROVE  ClusteringInv'
<1> DEFINE n == Len(finished)
           k == TargetK(n)
<1>1. n \in Nat /\ k \in Nat /\ k <= n /\ finished' = finished
  BY LenProperties, TargetType DEF ClusteringInv, UpdateClustering
<1>2. CASE UNCHANGED <<clusters, medoids, currentK, inProgress, update>>
  BY <1>1, <1>2 DEF ClusteringInv, InstalledInv, UpdateInv
<1>3. CASE /\ clusters' = <<>> /\ medoids' = <<>> /\ currentK' = 0
           /\ UNCHANGED <<inProgress, update>>
  <2>1. InstalledInv'
    <3>1. \A S : <<>> \in Seq(S)
      OBVIOUS
    <3> QED
      BY <1>3, <3>1 DEF InstalledInv
  <2> QED
    BY <1>1, <1>3, <2>1 DEF ClusteringInv, UpdateInv
<1>4. CASE /\ k > 0 /\ inProgress' = TRUE
           /\ update' = [NoUpdate EXCEPT !.at = "begin", !.n = n, !.k = k]
           /\ UNCHANGED <<clusters, medoids, currentK>>
  <2> HIDE DEF n, k
  <2>1. update' = [at |-> "begin", n |-> n, k |-> k, iteration |-> 0,
                   medoids |-> <<>>, assigned |-> <<>>]
    BY <1>4 DEF NoUpdate
  <2>2. /\ <<>> \in Seq(Nat) /\ <<>> \in Seq(1..k)
        /\ Len(<<>>) = 0
    OBVIOUS
  <2>3. /\ update'.at = "begin" /\ update'.n = n /\ update'.k = k
        /\ update'.iteration = 0 /\ update'.assigned = <<>>
        /\ update' \in [at : {"none", "begin", "assign", "medoids", "install"},
                        n : Nat, k : Nat, iteration : Nat, medoids : Seq(Nat),
                        assigned : Seq(Nat)]
    BY <1>1, <2>1, <2>2
  <2>4. Len(finished') = n
    BY <1>1 DEF n
  <2>5. Len(update'.assigned) = 0 /\ update'.assigned \in Seq(1..update'.k)
    BY <2>2, <2>3
  <2>6. update'.k # 0 /\ update'.k <= update'.n
    BY <1>1, <1>4, <2>3
  <2>7. UpdateInv'
    BY <1>1, <2>3, <2>4, <2>5, <2>6 DEF UpdateInv
  <2> QED
    BY <1>1, <1>4, <2>3, <2>7 DEF ClusteringInv, InstalledInv
<1>5. CASE /\ k > 0 /\ ~ShouldRecluster(n)
           /\ clusters' = [clusters EXCEPT
                             ![Closest(finished[n], medoids)] = Append(@, n)]
           /\ UNCHANGED <<medoids, currentK, inProgress, update>>
  <2> DEFINE c == Closest(finished[n], medoids)
  <2>1. n \in DOMAIN finished
    BY <1>1, <1>5, LenProperties DEF ClusteringInv
  <2>2. IsGraph(finished[n])
    BY <2>1, ElementOfSeq, LenProperties, ClusteringAssumption DEF ClusteringInv
  <2>3. clusters \in Seq(Seq(DOMAIN finished)) /\ Len(clusters) = currentK
    BY DEF ClusteringInv, InstalledInv
  <2> HIDE DEF n, k
  <2>4. c \in DOMAIN clusters
    <3>1. currentK = k
      BY <1>5 DEF ShouldRecluster, k
    <3>2. medoids \in Seq(DOMAIN finished) /\ Len(medoids) = currentK
      BY DEF ClusteringInv, InstalledInv
    <3>3. medoids # <<>>
      BY <1>1, <1>5, <3>1, <3>2
    <3>4. c \in DOMAIN medoids
      BY <2>2, <3>2, <3>3, ClosestType DEF ClusteringInv
    <3>5. DOMAIN medoids = DOMAIN clusters
      BY <2>3, <3>2, LenProperties
    <3> QED
      BY <3>4, <3>5
  <2> HIDE DEF c
  <2>5. Append(clusters[c], n) \in Seq(DOMAIN finished)
    BY <2>1, <2>3, <2>4, ElementOfSeq, LenProperties, AppendProperties
  <2>6. clusters' \in Seq(Seq(DOMAIN finished)) /\ Len(clusters') = currentK
    <3>1. clusters' = [clusters EXCEPT ![c] = Append(clusters[c], n)]
      BY <1>5 DEF c
    <3> QED
      BY <2>3, <2>4, <2>5, <3>1, ExceptSeq
  <2> QED
    BY <1>1, <1>5, <2>6 DEF ClusteringInv, InstalledInv, UpdateInv
<1> QED
  BY <1>2, <1>3, <1>4, <1>5 DEF UpdateClustering

LEMMA ChooseMedoidsKeeps ==
    ASSUME ClusteringInv, ChooseMedoids
    PROVE  ClusteringInv'
<1>1. PICK ms \in Samples(Len(finished), update.k) :
        update' = [update EXCEPT !.at = "assign", !.medoids = ms]
  BY DEF ChooseMedoids
<1>2. UNCHANGED <<finished, clusters, medoids, currentK, inProgress>>
  BY DEF ChooseMedoids
<1>3. /\ Len(finished) \in Nat /\ DOMAIN finished = 1..Len(finished)
      /\ update.k \in Nat /\ update.at = "begin"
  BY LenProperties DEF ClusteringInv, UpdateInv, ChooseMedoids
<1>4. ms \in Seq(DOMAIN finished) /\ Len(ms) = update.k /\ ms \in Seq(Nat)
  <2>1. ms \in [1..update.k -> DOMAIN finished]
    BY <1>1, <1>3 DEF Samples
  <2>2. ms \in Seq(DOMAIN finished) /\ Len(ms) = update.k
    BY <1>3, <2>1
  <2> QED
    BY <1>3, <2>2, SeqMonotonic
<1>5. UpdateInv'
  BY <1>1, <1>2, <1>3, <1>4 DEF ClusteringInv, UpdateInv
<1> QED
  BY <1>1, <1>2, <1>3, <1>5 DEF ClusteringInv, InstalledInv, UpdateInv

LEMMA AssignSomeKeeps ==
    ASSUME ClusteringInv, AssignSome
    PROVE  ClusteringInv'
<1> DEFINE from == Len(update.assigned)
           next == IF from = 0 THEN 1 ELSE from + YieldEvery
           to == IF next <= Len(finished) THEN next ELSE Len(finished)
           added == [i \in 1..(to - from) |->
                       Closest(finished[from + i], update.medoids)]
           at == IF to < next THEN "medoids" ELSE "assign"
<1>1. /\ UNCHANGED <<finished, clusters, medoids, currentK, inProgress>>
      /\ update.at = "assign"
      /\ update' = [update EXCEPT !.assigned = update.assigned \o added, !.at = at]
  BY DEF AssignSome
<1>2. /\ Len(finished) \in Nat /\ from \in Nat /\ from <= Len(finished)
      /\ to \in Nat /\ from <= to /\ to <= Len(finished)
  <2>1. Len(finished) \in Nat /\ from \in Nat /\ from <= Len(finished)
    BY LenProperties DEF ClusteringInv, UpdateInv
  <2> QED
    BY <2>1, ClusteringAssumption
<1>3. /\ update.k \in Nat /\ update.k # 0
      /\ update.medoids \in Seq(DOMAIN finished) /\ Len(update.medoids) = update.k
      /\ update.assigned \in Seq(1..update.k)
  BY <1>1 DEF ClusteringInv, UpdateInv
<1> HIDE DEF from, to, at
<1>4. ASSUME NEW i \in 1..(to - from)
      PROVE  Closest(finished[from + i], update.medoids) \in 1..update.k
  <2>1. from + i \in 1..Len(finished)
    BY <1>2
  <2>2. finished[from + i] \in Graphs
    BY <2>1, ElementOfSeq DEF ClusteringInv
  <2>3. IsGraph(finished[from + i])
    BY <2>2, ClusteringAssumption
  <2>4. update.medoids # <<>>
    BY <1>3
  <2>5. DOMAIN update.medoids = 1..update.k
    BY <1>3, LenProperties
  <2>6. finished \in Seq(Graphs)
    BY DEF ClusteringInv
  <2>7. Closest(finished[from + i], update.medoids) \in DOMAIN update.medoids
    BY <1>3, <2>3, <2>4, <2>6, ClosestType
  <2> QED
    BY <2>5, <2>7
<1>5. added \in Seq(1..update.k) /\ Len(added) = to - from
  BY <1>2, <1>4
<1> HIDE DEF added
<1> DEFINE all == update.assigned \o added
<1>6. all \in Seq(1..update.k) /\ Len(all) = to /\ all \in Seq(Nat)
  <2>1. all \in Seq(1..update.k) /\ Len(all) = Len(update.assigned) + Len(added)
    BY <1>3, <1>5, ConcatProperties, Zenon
  <2>2. 1..update.k \subseteq Nat
    OBVIOUS
  <2>3. Len(update.assigned) + Len(added) = to
    BY <1>2, <1>5 DEF from
  <2> HIDE DEF all
  <2>4. all \in Seq(Nat)
    BY <2>1, <2>2, SeqMonotonic, Zenon
  <2> QED
    BY <2>1, <2>3, <2>4
<1> HIDE DEF all
<1>7. at \in {"assign", "medoids"}
  BY DEF at
<1>8. update' = [update EXCEPT !.assigned = all, !.at = at]
  BY <1>1 DEF all
<1>9. UpdateInv'
  BY <1>1, <1>2, <1>3, <1>6, <1>7, <1>8 DEF ClusteringInv, UpdateInv
<1> QED
  BY <1>1, <1>7, <1>8, <1>9 DEF ClusteringInv, InstalledInv, UpdateInv

\* The graph of S that is closest to the graphs of cluster c.
Central(assigned, c, S) ==
    FirstBest(S, LAMBDA i : Total([j \in DOMAIN assigned |->
                              IF j = i \/ assigned[j] # c THEN 0
                              ELSE Distance(finished[i], finished[j])]))

\* The most central of some of the graphs is one of them.
LEMMA CentralType ==
    ASSUME finished \in Seq(Graphs),
           NEW k \in Nat, NEW assigned \in Seq(1..k), Len(assigned) <= Len(finished),
           NEW c, NEW S, S \subseteq DOMAIN assigned, S # {}
    PROVE  Central(assigned, c, S) \in S
<1> DEFINE parts(i) == [j \in DOMAIN assigned |->
                          IF j = i \/ assigned[j] # c THEN 0
                          ELSE Distance(finished[i], finished[j])]
           score == [i \in S |-> Total(parts(i))]
<1>1. /\ DOMAIN assigned = 1..Len(assigned) /\ Len(assigned) \in Nat
      /\ DOMAIN assigned \subseteq 1..Len(finished)
      /\ IsFiniteSet(S)
  <2>1. DOMAIN assigned = 1..Len(assigned) /\ Len(assigned) \in Nat
    BY LenProperties
  <2>2. Len(finished) \in Nat
    BY LenProperties
  <2>3. IsFiniteSet(S)
    BY LastIndex
  <2> QED
    BY <2>1, <2>2, <2>3
<1>2. ASSUME NEW i \in S
      PROVE  Total(parts(i)) \in Int /\ score[i] = Total(parts(i))
  <2>1. \A j \in DOMAIN assigned : Distance(finished[i], finished[j]) \in Int
    <3>1. ASSUME NEW j \in DOMAIN assigned
          PROVE  Distance(finished[i], finished[j]) \in Int
      <4>1. finished[i] \in Graphs /\ finished[j] \in Graphs
        BY <1>1, ElementOfSeq
      <4>2. IsGraph(finished[i])
        BY <4>1, ClusteringAssumption
      <4> QED
        BY <4>1, <4>2, DistanceType
    <3> QED
      BY <3>1
  <2>2. parts(i) \in Seq(Int)
    BY <1>1, <2>1
  <2>3. Total(parts(i)) \in Int
    <3> HIDE DEF parts
    <3> QED
      BY <2>2, TotalType
  <2>4. score[i] = Total(parts(i))
    <3> HIDE DEF parts
    <3> QED
      OBVIOUS
  <2> HIDE DEF parts, score
  <2> QED
    BY <2>3, <2>4
<1>3. PICK m \in S : \A i \in S : score[i] < score[m] \/ (score[i] = score[m] /\ m <= i)
  <2> HIDE DEF parts, score
  <2>1. \A i \in S : score[i] \in Int
    BY <1>2
  <2>2. S \in SUBSET Int
    BY <1>1
  <2> QED
    BY <1>1, <2>1, <2>2, BestExists
<1>4. \A i \in S : \/ Total(parts(i)) < Total(parts(m))
                   \/ Total(parts(i)) = Total(parts(m)) /\ m <= i
  <2> HIDE DEF parts, score
  <2> QED
    BY <1>2, <1>3, Zenon
<1> QED
  BY <1>4 DEF Central, FirstBest

LEMMA UpdateMedoidsKeeps ==
    ASSUME ClusteringInv, UpdateMedoids
    PROVE  ClusteringInv'
<1> DEFINE members(c) == {i \in DOMAIN update.assigned : update.assigned[i] = c}
           central(c) == Central(update.assigned, c, members(c))
           medoid(c) == IF members(c) = {} THEN update.medoids[c] ELSE central(c)
           new == [c \in 1..update.k |-> medoid(c)]
           over == new = update.medoids \/ update.iteration + 1 = MaxIterations
           iteration == update.iteration + 1
           at == IF over THEN "install" ELSE "assign"
           assigned == IF over THEN update.assigned ELSE <<>>
<1>1. /\ UNCHANGED <<finished, clusters, medoids, currentK, inProgress>>
      /\ update.at = "medoids"
      /\ update' = [update EXCEPT !.medoids = new, !.iteration = iteration, !.at = at,
                                  !.assigned = assigned]
  BY DEF UpdateMedoids, Central
<1>2. /\ finished \in Seq(Graphs) /\ Len(finished) \in Nat
      /\ DOMAIN finished = 1..Len(finished)
      /\ update.k \in Nat /\ update.assigned \in Seq(1..update.k)
      /\ Len(update.assigned) <= Len(finished) /\ Len(update.assigned) \in Nat
      /\ DOMAIN update.assigned = 1..Len(update.assigned)
      /\ update.medoids \in Seq(DOMAIN finished) /\ Len(update.medoids) = update.k
  BY <1>1, LenProperties DEF ClusteringInv, UpdateInv
<1>3. ASSUME NEW c \in 1..update.k
      PROVE  medoid(c) \in DOMAIN finished
  <2>1. CASE members(c) = {}
    <3>1. update.medoids[c] \in DOMAIN finished
      BY <1>2, ElementOfSeq
    <3> QED
      BY <2>1, <3>1
  <2>2. CASE members(c) # {}
    <3>1. members(c) \subseteq DOMAIN update.assigned
      OBVIOUS
    <3>2. central(c) \in members(c)
      <4> HIDE DEF members
      <4> QED
        BY <1>2, <2>2, <3>1, CentralType
    <3>3. members(c) \subseteq DOMAIN finished
      BY <1>2, <3>1
    <3> HIDE DEF members, central
    <3> QED
      BY <2>2, <3>2, <3>3
  <2> HIDE DEF members, central
  <2> QED
    BY <2>1, <2>2
<1> HIDE DEF medoid
<1>4. new \in Seq(DOMAIN finished) /\ Len(new) = update.k /\ new \in Seq(Nat)
  <2>1. new \in Seq(DOMAIN finished) /\ Len(new) = update.k
    <3>1. new \in [1..update.k -> DOMAIN finished]
      BY <1>3
    <3>2. update.k \in Nat
      BY <1>2
    <3> HIDE DEF new
    <3> QED
      BY <3>1, <3>2
  <2>2. DOMAIN finished \subseteq Nat
    BY <1>2
  <2> HIDE DEF new
  <2> QED
    BY <2>1, <2>2, SeqMonotonic
<1> HIDE DEF new, over
<1>5. /\ at \in {"install", "assign"}
      /\ assigned \in Seq(1..update.k) /\ assigned \in Seq(Nat)
      /\ Len(assigned) <= Len(finished)
  <2>1. <<>> \in Seq(1..update.k) /\ <<>> \in Seq(Nat) /\ Len(<<>>) = 0
    OBVIOUS
  <2>2. update.assigned \in Seq(Nat)
    BY DEF ClusteringInv, UpdateInv
  <2>3. 0 <= Len(finished)
    BY <1>2
  <2>4. CASE over
    BY <1>2, <2>2, <2>4
  <2>5. CASE ~over
    BY <2>1, <2>3, <2>5
  <2> QED
    BY <2>4, <2>5
<1>6. iteration \in Nat
  BY DEF ClusteringInv, UpdateInv
<1> HIDE DEF at, assigned, iteration
<1>7. UpdateInv'
  <2>1. /\ update'.at = at /\ update'.n = update.n /\ update'.k = update.k
        /\ update'.medoids = new /\ update'.assigned = assigned
        /\ update' \in [at : {"none", "begin", "assign", "medoids", "install"},
                        n : Nat, k : Nat, iteration : Nat, medoids : Seq(Nat),
                        assigned : Seq(Nat)]
    <3>1. update \in [at : {"none", "begin", "assign", "medoids", "install"},
                     n : Nat, k : Nat, iteration : Nat, medoids : Seq(Nat),
                     assigned : Seq(Nat)]
      BY DEF ClusteringInv, UpdateInv
    <3> QED
      BY <1>1, <1>4, <1>5, <1>6, <3>1
  <2>2. update.k # 0 /\ update.k <= update.n /\ update.n <= Len(finished)
    BY <1>1 DEF ClusteringInv, UpdateInv
  <2> QED
    BY <1>1, <1>4, <1>5, <2>1, <2>2 DEF UpdateInv
<1> QED
  BY <1>1, <1>5, <1>7 DEF ClusteringInv, InstalledInv, UpdateInv

\* What is installed is one medoid and one list for each cluster.
LEMMA InstallKeeps ==
    ASSUME ClusteringInv, NEW ms \in Seq(DOMAIN finished), Len(ms) = update.k,
           NEW S, NEW assigned \in Seq(S), Len(assigned) <= Len(finished),
           Install(ms, assigned)
    PROVE  ClusteringInv'
<1>1. /\ finished' = finished /\ medoids' = ms /\ currentK' = update.k
      /\ clusters' = ClustersOf(assigned, update.k)
      /\ inProgress' = FALSE /\ update' = NoUpdate
  BY DEF Install
<1>2. /\ finished \in Seq(Graphs) /\ Len(finished) \in Nat
      /\ DOMAIN finished = 1..Len(finished) /\ update.k \in Nat
  BY LenProperties DEF ClusteringInv, UpdateInv
<1>3. clusters' \in Seq(Seq(DOMAIN finished)) /\ Len(clusters') = update.k
  <2>1. /\ clusters' \in Seq(Seq(DOMAIN assigned)) /\ Len(clusters') = update.k
    BY <1>1, <1>2, ClustersType
  <2>2. DOMAIN assigned \subseteq DOMAIN finished
    BY <1>2, LenProperties
  <2>3. Seq(DOMAIN assigned) \subseteq Seq(DOMAIN finished)
    BY <2>2, SeqMonotonic
  <2> QED
    BY <2>1, <2>3, SeqMonotonic
<1>4. UpdateInv'
  <2>1. \A S1 : <<>> \in Seq(S1)
    OBVIOUS
  <2>2. update' = [at |-> "none", n |-> 0, k |-> 0, iteration |-> 0,
                   medoids |-> <<>>, assigned |-> <<>>]
    BY <1>1 DEF NoUpdate
  <2> QED
    BY <1>1, <1>2, <2>1, <2>2 DEF UpdateInv
<1>5. InstalledInv'
  BY <1>1, <1>2, <1>3 DEF InstalledInv
<1> QED
  BY <1>1, <1>2, <1>4, <1>5 DEF ClusteringInv, NoUpdate

LEMMA InstallClusteringKeeps ==
    ASSUME ClusteringInv, InstallClustering
    PROVE  ClusteringInv'
<1>1. update.at = "install" /\ Install(update.medoids, update.assigned)
  BY DEF InstallClustering
<1>2. /\ update.medoids \in Seq(DOMAIN finished) /\ Len(update.medoids) = update.k
      /\ update.assigned \in Seq(1..update.k)
      /\ Len(update.assigned) <= Len(finished)
  BY <1>1 DEF ClusteringInv, UpdateInv
<1> QED
  BY <1>1, <1>2, InstallKeeps

LEMMA TimeOutKeeps ==
    ASSUME ClusteringInv, TimeOut
    PROVE  ClusteringInv'
<1> DEFINE dealt == [i \in 1..update.n |-> ((i - 1) % update.k) + 1]
<1>1. PICK ms \in Samples(update.n, update.k) : Install(ms, dealt)
  BY DEF TimeOut
<1>2. update.at # "none"
  BY DEF TimeOut
<1>3. /\ update.n \in Nat /\ update.n <= Len(finished) /\ Len(finished) \in Nat
      /\ update.k \in Nat /\ update.k # 0 /\ DOMAIN finished = 1..Len(finished)
  BY <1>2, LenProperties DEF ClusteringInv, UpdateInv
<1>4. ms \in Seq(DOMAIN finished) /\ Len(ms) = update.k
  <2>1. ms \in [1..update.k -> 1..update.n] /\ 1..update.n \subseteq DOMAIN finished
    BY <1>1, <1>3 DEF Samples
  <2>2. ms \in [1..update.k -> DOMAIN finished]
    BY <2>1
  <2> QED
    BY <1>3, <2>2
<1>5. dealt \in Seq(Int) /\ Len(dealt) <= Len(finished)
  <2>1. \A i \in 1..update.n : ((i - 1) % update.k) + 1 \in Int
    BY <1>3
  <2>2. dealt \in Seq(Int) /\ Len(dealt) = update.n
    BY <1>3, <2>1
  <2> QED
    BY <1>3, <2>2
<1> HIDE DEF dealt
<1> QED
  BY <1>1, <1>4, <1>5, InstallKeeps

LEMMA NextInv == ClusteringInv /\ [Next]_vars => ClusteringInv'
<1> SUFFICES ASSUME ClusteringInv, [Next]_vars PROVE ClusteringInv'
  OBVIOUS
<1>1. CASE \E graph \in Graphs : AddFinishedRequest(graph)
  BY <1>1, AddFinishedRequestKeeps
<1>2. CASE UpdateClustering
  BY <1>2, UpdateClusteringKeeps
<1>3. CASE ChooseMedoids
  BY <1>3, ChooseMedoidsKeeps
<1>4. CASE AssignSome
  BY <1>4, AssignSomeKeeps
<1>5. CASE UpdateMedoids
  BY <1>5, UpdateMedoidsKeeps
<1>6. CASE InstallClustering
  BY <1>6, InstallClusteringKeeps
<1>7. CASE TimeOut
  BY <1>7, TimeOutKeeps
<1>8. CASE UNCHANGED vars
  BY <1>8 DEF vars, ClusteringInv, InstalledInv, UpdateInv
<1> QED
  BY <1>1, <1>2, <1>3, <1>4, <1>5, <1>6, <1>7, <1>8 DEF Next

LEMMA ClusteringInvHolds == Spec => []ClusteringInv
<1>1. Init => ClusteringInv
  BY InitInv
<1>2. ClusteringInv /\ [Next]_vars => ClusteringInv'
  BY NextInv
<1> QED
  BY <1>1, <1>2, PTL DEF Spec

-----------------------------------------------------------------------------
(* The theorems.                                                           *)

\* The indices in the clusters and the medoids are those of finished graphs,
\* there is one medoid for each cluster, and the flag is up exactly while an
\* update runs: for any graphs, thresholds and intervals between the awaits,
\* whatever finishes or times out meanwhile (similarity.py:757-825).
THEOREM ClustersAreInRange == Spec => []TypeOK
<1>1. ASSUME ClusteringInv PROVE TypeOK
  <2>1. ToSet(medoids) \subseteq DOMAIN finished
    BY <1>1, ElementOfSeq, LenProperties DEF ToSet, ClusteringInv, InstalledInv
  <2>2. ASSUME NEW c \in DOMAIN clusters
        PROVE  ToSet(clusters[c]) \subseteq DOMAIN finished
    <3>1. clusters[c] \in Seq(DOMAIN finished)
      BY <1>1, ElementOfSeq, LenProperties DEF ClusteringInv, InstalledInv
    <3> QED
      BY <3>1, ElementOfSeq, LenProperties DEF ToSet
  <2>3. Len(medoids) = currentK /\ Len(clusters) = currentK
    BY <1>1 DEF ClusteringInv, InstalledInv
  <2>4. inProgress = (update.at # "none")
    BY <1>1 DEF ClusteringInv
  <2> QED
    BY <2>1, <2>2, <2>3, <2>4 DEF TypeOK
<1> QED
  BY <1>1, ClusteringInvHolds, PTL

\* What find_best_match returns is a graph of the cluster whose medoid is
\* closest to the query, and no other graph of that cluster is closer.
MatchIsBest ==
    \A graph : IsGraph(graph) =>
      LET match == FindBestMatch(graph)
      IN match # 0 =>
           /\ match \in DOMAIN finished
           /\ \E c \in DOMAIN clusters :
                /\ match \in ToSet(clusters[c])
                /\ \A i \in ToSet(clusters[c]) :
                     Distance(graph, finished[i]) <= Distance(graph, finished[match])
                /\ \A d \in DOMAIN medoids :
                     Distance(graph, finished[medoids[d]])
                       <= Distance(graph, finished[medoids[c]])

\* Every match is the best of the closest cluster, in every state in which a
\* request may ask for one (similarity.py:837-869).
THEOREM MatchesAreBest == Spec => []MatchIsBest
<1>1. ASSUME ClusteringInv PROVE MatchIsBest
  <2> SUFFICES ASSUME NEW graph, IsGraph(graph), FindBestMatch(graph) # 0
               PROVE  LET match == FindBestMatch(graph)
                      IN /\ match \in DOMAIN finished
                         /\ \E c \in DOMAIN clusters :
                              /\ match \in ToSet(clusters[c])
                              /\ \A i \in ToSet(clusters[c]) :
                                   Distance(graph, finished[i])
                                     <= Distance(graph, finished[match])
                              /\ \A d \in DOMAIN medoids :
                                   Distance(graph, finished[medoids[d]])
                                     <= Distance(graph, finished[medoids[c]])
    BY DEF MatchIsBest
  <2> DEFINE c == Closest(graph, medoids)
             cluster == clusters[c]
             place == FirstBest(DOMAIN cluster,
                                LAMBDA p : Distance(graph, finished[cluster[p]]))
             match == FindBestMatch(graph)
  <2>1. medoids # <<>> /\ cluster # <<>> /\ match = cluster[place]
    BY DEF FindBestMatch
  <2>2. /\ finished \in Seq(Graphs) /\ medoids \in Seq(DOMAIN finished)
        /\ clusters \in Seq(Seq(DOMAIN finished)) /\ DOMAIN clusters = DOMAIN medoids
    BY <1>1, LenProperties DEF ClusteringInv, InstalledInv
  <2>3. /\ c \in DOMAIN clusters
        /\ \A d \in DOMAIN medoids : Distance(graph, finished[medoids[d]])
                                       <= Distance(graph, finished[medoids[c]])
    <3>1. /\ Closest(graph, medoids) \in DOMAIN medoids
          /\ \A d \in DOMAIN medoids :
               Distance(graph, finished[medoids[d]])
                 <= Distance(graph, finished[medoids[Closest(graph, medoids)]])
      BY <2>1, <2>2, ClosestType
    <3> QED
      BY <2>2, <3>1
  <2> HIDE DEF c
  <2>4. cluster \in Seq(DOMAIN finished)
    BY <2>2, <2>3, ElementOfSeq, LenProperties
  <2> HIDE DEF cluster
  <2>5. place = Closest(graph, cluster)
    BY DEF Closest
  <2>6. /\ Closest(graph, cluster) \in DOMAIN cluster
        /\ \A p \in DOMAIN cluster :
             Distance(graph, finished[cluster[p]])
               <= Distance(graph, finished[cluster[Closest(graph, cluster)]])
    BY <2>1, <2>2, <2>4, ClosestType
  <2> HIDE DEF place, match
  <2>7. /\ place \in DOMAIN cluster
        /\ \A p \in DOMAIN cluster :
             Distance(graph, finished[cluster[p]]) <= Distance(graph, finished[match])
    BY <2>1, <2>5, <2>6
  <2>8. match \in DOMAIN finished /\ match \in ToSet(cluster)
    BY <2>1, <2>4, <2>7, ElementOfSeq, LenProperties DEF ToSet
  <2>9. \A i \in ToSet(cluster) :
          Distance(graph, finished[i]) <= Distance(graph, finished[match])
    BY <2>7 DEF ToSet
  <2> QED
    BY <2>3, <2>8, <2>9 DEF cluster, match
<1> QED
  BY <1>1, ClusteringInvHolds, PTL

-----------------------------------------------------------------------------
(* What the clusters hold.                                                 *)

\* The graphs walked over are with their closest medoid, and when the walk is
\* over it has met the medoids.
WalkInv ==
    /\ update.at = "begin" => update.assigned = <<>>
    /\ update.at \in {"assign", "medoids", "install"} =>
         \A i \in DOMAIN update.assigned :
           update.assigned[i] = ClosestIn(finished, finished[i], update.medoids)
    /\ update.at \in {"medoids", "install"} =>
         \A c \in DOMAIN update.medoids : update.medoids[c] \in DOMAIN update.assigned

\* The medoids are in the clusters of the closest medoids, which are their own
\* unless an earlier medoid is the same graph.
HoldsMedoids ==
    \A c \in DOMAIN medoids :
      medoids[c] \in ToSet(clusters[ClosestIn(finished, finished[medoids[c]], medoids)])

HoldsClosest ==
    \A c \in DOMAIN clusters : \A i \in ToSet(clusters[c]) :
      ClosestIn(finished, finished[i], medoids) = c

\* A clustering that has timed out deals graphs to all of the clusters.
MembershipInv ==
    /\ WalkInv
    /\ HoldsMedoids \/ \A c \in DOMAIN clusters : clusters[c] # <<>>
    /\ ~mayTimeOut => HoldsMedoids /\ HoldsClosest

\* The loop of k_medoids_clustering ends since no medoid has changed, and not
\* since max_iterations have gone by.
Converging ==
    update.at = "medoids" /\ update'.at = "install" => update'.medoids = update.medoids

LEMMA MembershipInit == Init => MembershipInv
  BY DEF Init, NoUpdate, MembershipInv, WalkInv, HoldsMedoids, HoldsClosest

\* What the invariant says of the medoids and the lists of a state.
LEMMA ClusteringFacts ==
    ASSUME ClusteringInv
    PROVE  /\ finished \in Seq(Graphs) /\ Len(finished) \in Nat
           /\ DOMAIN finished = 1..Len(finished)
           /\ \A i \in DOMAIN finished : finished[i] \in Graphs /\ IsGraph(finished[i])
           /\ medoids \in Seq(DOMAIN finished)
           /\ DOMAIN clusters = DOMAIN medoids
           /\ \A c \in DOMAIN medoids : medoids # <<>> /\ medoids[c] \in DOMAIN finished
           /\ \A c \in DOMAIN clusters : clusters[c] \in Seq(DOMAIN finished)
           /\ \A c \in DOMAIN clusters : ToSet(clusters[c]) \subseteq DOMAIN finished
<1>1. /\ finished \in Seq(Graphs) /\ medoids \in Seq(DOMAIN finished)
      /\ clusters \in Seq(Seq(DOMAIN finished))
      /\ Len(medoids) = currentK /\ Len(clusters) = currentK
  BY DEF ClusteringInv, InstalledInv
<1>2. /\ Len(finished) \in Nat /\ DOMAIN finished = 1..Len(finished)
      /\ DOMAIN clusters = DOMAIN medoids
  BY <1>1, LenProperties
<1>3. \A i \in DOMAIN finished : finished[i] \in Graphs /\ IsGraph(finished[i])
  BY <1>1, <1>2, ElementOfSeq, ClusteringAssumption
<1>4. \A c \in DOMAIN medoids : medoids # <<>> /\ medoids[c] \in DOMAIN finished
  BY <1>1, ElementOfSeq, LenProperties, EmptySeq
<1>5. ASSUME NEW c \in DOMAIN clusters
      PROVE  /\ clusters[c] \in Seq(DOMAIN finished)
             /\ ToSet(clusters[c]) \subseteq DOMAIN finished
  <2>1. clusters[c] \in Seq(DOMAIN finished)
    BY <1>1, ElementOfSeq, LenProperties
  <2> QED
    BY <2>1, ElementOfSeq, LenProperties DEF ToSet
<1> QED
  BY <1>1, <1>2, <1>3, <1>4, <1>5

\* What it says of the update under way.
LEMMA UpdateFacts ==
    ASSUME ClusteringInv, update.at \in {"assign", "medoids", "install"}
    PROVE  /\ update.medoids \in Seq(DOMAIN finished) /\ update.medoids # <<>>
           /\ DOMAIN update.medoids = 1..update.k
           /\ update.k \in Nat
           /\ update.assigned \in Seq(1..update.k)
           /\ Len(update.assigned) \in Nat
           /\ DOMAIN update.assigned = 1..Len(update.assigned)
           /\ DOMAIN update.assigned \subseteq DOMAIN finished
<1>1. /\ update.medoids \in Seq(DOMAIN finished) /\ Len(update.medoids) = update.k
      /\ update.k \in Nat /\ update.k # 0
      /\ update.assigned \in Seq(1..update.k)
      /\ Len(update.assigned) <= Len(finished)
      /\ finished \in Seq(Graphs)
  BY DEF ClusteringInv, UpdateInv
<1>2. /\ Len(update.assigned) \in Nat /\ DOMAIN update.assigned = 1..Len(update.assigned)
      /\ DOMAIN update.medoids = 1..update.k
      /\ Len(finished) \in Nat /\ DOMAIN finished = 1..Len(finished)
  BY <1>1, LenProperties
<1>3. update.medoids # <<>>
  BY <1>1
<1> QED
  BY <1>1, <1>2, <1>3

LEMMA AddFinishedRequestKeepsMembers ==
    ASSUME ClusteringInv, MembershipInv,
           NEW graph \in Graphs, AddFinishedRequest(graph)
    PROVE  MembershipInv'
<1>1. finished' \in Seq(Graphs)
  BY FinishedGrows DEF ClusteringInv, AddFinishedRequest
<1>2. \A i \in DOMAIN finished : i \in DOMAIN finished' /\ finished'[i] = finished[i]
  <2>1. /\ Len(finished') = Len(finished) + 1
        /\ \A i \in 1..Len(finished) : finished'[i] = finished[i]
    BY AppendProperties DEF ClusteringInv, AddFinishedRequest
  <2>2. /\ DOMAIN finished = 1..Len(finished) /\ DOMAIN finished' = 1..Len(finished')
        /\ Len(finished) \in Nat
    BY <1>1, LenProperties DEF ClusteringInv
  <2> QED
    BY <2>1, <2>2
<1>3. UNCHANGED <<mayTimeOut, clusters, medoids, update>>
  BY DEF AddFinishedRequest
<1>4. ASSUME NEW i \in DOMAIN finished, NEW ms \in Seq(DOMAIN finished), ms # <<>>
      PROVE  ClosestIn(finished', finished'[i], ms) = ClosestIn(finished, finished[i], ms)
  <2> DEFINE more == finished'
             g == finished[i]
  <2>1. more[i] = g /\ IsGraph(g) /\ finished \in Seq(Graphs) /\ more \in Seq(Graphs)
    BY <1>1, <1>2, ClusteringFacts
  <2>2. \A j \in DOMAIN finished : j \in DOMAIN more /\ more[j] = finished[j]
    BY <1>2
  <2> HIDE DEF more, g
  <2>3. ClosestIn(more, g, ms) = ClosestIn(finished, g, ms)
    BY <1>4, <2>1, <2>2, LeadersKept
  <2> QED
    BY <2>1, <2>3 DEF more, g
<1>5. WalkInv'
  <2>1. ASSUME update.at \in {"assign", "medoids", "install"},
               NEW i \in DOMAIN update.assigned
        PROVE  update.assigned[i] = ClosestIn(finished', finished'[i], update.medoids)
    <3>1. i \in DOMAIN finished /\ update.medoids \in Seq(DOMAIN finished)
          /\ update.medoids # <<>>
      BY <2>1, UpdateFacts
    <3>2. update.assigned[i] = ClosestIn(finished, finished[i], update.medoids)
      BY <2>1 DEF MembershipInv, WalkInv
    <3> QED
      BY <1>4, <3>1, <3>2
  <2> QED
    BY <1>3, <2>1 DEF MembershipInv, WalkInv
<1>6. HoldsMedoids => HoldsMedoids'
  <2>1. ASSUME NEW c \in DOMAIN medoids
        PROVE  ClosestIn(finished', finished'[medoids[c]], medoids)
                 = ClosestIn(finished, finished[medoids[c]], medoids)
    BY <1>4, ClusteringFacts
  <2> QED
    BY <1>3, <2>1 DEF HoldsMedoids
<1>7. HoldsClosest => HoldsClosest'
  <2>1. ASSUME NEW c \in DOMAIN clusters, NEW i \in ToSet(clusters[c])
        PROVE  ClosestIn(finished', finished'[i], medoids)
                 = ClosestIn(finished, finished[i], medoids)
    <3>1. i \in DOMAIN finished /\ medoids \in Seq(DOMAIN finished) /\ medoids # <<>>
      BY ClusteringFacts
    <3> QED
      BY <1>4, <3>1
  <2> QED
    BY <1>3, <2>1 DEF HoldsClosest
<1> QED
  BY <1>3, <1>5, <1>6, <1>7 DEF MembershipInv

LEMMA UpdateClusteringKeepsMembers ==
    ASSUME ClusteringInv, MembershipInv, UpdateClustering
    PROVE  MembershipInv'
<1> DEFINE n == Len(finished)
           k == TargetK(n)
<1>1. UNCHANGED <<mayTimeOut, finished>>
  BY DEF UpdateClustering
<1>2. CASE UNCHANGED <<clusters, medoids, currentK, inProgress, update>>
  BY <1>1, <1>2 DEF MembershipInv, WalkInv, HoldsMedoids, HoldsClosest
<1>3. CASE /\ clusters' = <<>> /\ medoids' = <<>> /\ currentK' = 0
           /\ UNCHANGED <<inProgress, update>>
  <2>1. DOMAIN <<>> = {}
    OBVIOUS
  <2> QED
    BY <1>1, <1>3, <2>1 DEF MembershipInv, WalkInv, HoldsMedoids, HoldsClosest
<1>4. CASE /\ k > 0 /\ inProgress' = TRUE
           /\ update' = [NoUpdate EXCEPT !.at = "begin", !.n = n, !.k = k]
           /\ UNCHANGED <<clusters, medoids, currentK>>
  <2> HIDE DEF n, k
  <2>1. update'.at = "begin" /\ update'.assigned = <<>>
    BY <1>4 DEF NoUpdate
  <2>2. WalkInv'
    BY <2>1 DEF WalkInv
  <2> QED
    BY <1>1, <1>4, <2>2 DEF MembershipInv, HoldsMedoids, HoldsClosest
<1>5. CASE /\ k > 0 /\ ~ShouldRecluster(n)
           /\ clusters' = [clusters EXCEPT
                             ![Closest(finished[n], medoids)] = Append(@, n)]
           /\ UNCHANGED <<medoids, currentK, inProgress, update>>
  <2> DEFINE c == ClosestIn(finished, finished[n], medoids)
  <2>1. n \in DOMAIN finished
    <3>1. TargetK(n) \in 0..n /\ n \in Nat
      BY TargetType, ClusteringFacts
    <3> QED
      BY <1>5, <3>1, ClusteringFacts
  <2>2. clusters' = [clusters EXCEPT ![c] = Append(clusters[c], n)]
    BY <1>5 DEF Closest, ClosestIn
  <2> HIDE DEF n, k, c
  <2>3. ASSUME NEW d \in DOMAIN clusters
        PROVE  /\ d # c => clusters'[d] = clusters[d]
               /\ d = c => clusters'[d] = Append(clusters[d], n)
               /\ d = c => ToSet(clusters'[d]) = ToSet(clusters[d]) \cup {n}
               /\ ToSet(clusters[d]) \subseteq ToSet(clusters'[d])
               /\ clusters[d] # <<>> => clusters'[d] # <<>>
    <3>1. clusters[d] \in Seq(DOMAIN finished)
      BY ClusteringFacts
    <3>2. CASE d # c
      BY <2>2, <3>2
    <3>3. CASE d = c
      <4>1. clusters'[d] = Append(clusters[d], n)
        BY <2>2, <3>3
      <4>2. ToSet(clusters'[d]) = ToSet(clusters[d]) \cup {n}
        BY <2>1, <3>1, <4>1, AppendedSet
      <4>3. Append(clusters[d], n) # <<>>
        BY <2>1, <3>1, AppendProperties
      <4> QED
        BY <3>3, <4>1, <4>2, <4>3
    <3> QED
      BY <3>2, <3>3
  <2>4. DOMAIN clusters' = DOMAIN clusters
    BY <2>2
  <2>5. HoldsMedoids => HoldsMedoids'
    <3> SUFFICES ASSUME HoldsMedoids PROVE HoldsMedoids'
      OBVIOUS
    <3>1. ASSUME NEW d \in DOMAIN medoids
          PROVE  medoids[d] \in ToSet(clusters'[ClosestIn(finished, finished[medoids[d]],
                                                          medoids)])
      <4> DEFINE e == ClosestIn(finished, finished[medoids[d]], medoids)
      <4>1. medoids[d] \in ToSet(clusters[e])
        BY DEF HoldsMedoids
      <4>2. e \in DOMAIN clusters
        <5>1. /\ finished \in Seq(Graphs) /\ medoids \in Seq(DOMAIN finished)
              /\ medoids # <<>> /\ IsGraph(finished[medoids[d]])
              /\ DOMAIN clusters = DOMAIN medoids
          BY ClusteringFacts
        <5>2. Leads(finished, finished[medoids[d]], medoids, e)
          BY <5>1, ClosestLeads
        <5> QED
          BY <5>1, <5>2 DEF Leads
      <4> HIDE DEF e
      <4>3. medoids[d] \in ToSet(clusters'[e])
        BY <2>3, <4>1, <4>2
      <4> QED
        BY <4>3 DEF e
    <3> QED
      BY <1>1, <1>5, <3>1 DEF HoldsMedoids
  <2>6. HoldsClosest => HoldsClosest'
    <3> SUFFICES ASSUME HoldsClosest PROVE HoldsClosest'
      OBVIOUS
    <3>1. ASSUME NEW d \in DOMAIN clusters, NEW i \in ToSet(clusters'[d])
          PROVE  ClosestIn(finished, finished[i], medoids) = d
      <4>1. CASE i \in ToSet(clusters[d])
        BY <4>1 DEF HoldsClosest
      <4>2. CASE d = c /\ i = n
        BY <4>2 DEF c
      <4> QED
        BY <2>3, <4>1, <4>2
    <3> QED
      BY <1>1, <1>5, <2>4, <3>1 DEF HoldsClosest
  <2>7. (\A d \in DOMAIN clusters : clusters[d] # <<>>) =>
          \A d \in DOMAIN clusters' : clusters'[d] # <<>>
    BY <2>3, <2>4
  <2> QED
    BY <1>1, <1>5, <2>5, <2>6, <2>7 DEF MembershipInv, WalkInv
<1> QED
  BY <1>2, <1>3, <1>4, <1>5 DEF UpdateClustering

LEMMA ChooseMedoidsKeepsMembers ==
    ASSUME ClusteringInv, MembershipInv, ChooseMedoids
    PROVE  MembershipInv'
<1>1. PICK ms \in Samples(Len(finished), update.k) :
        update' = [update EXCEPT !.at = "assign", !.medoids = ms]
  BY DEF ChooseMedoids
<1>2. /\ UNCHANGED <<mayTimeOut, finished, clusters, medoids>>
      /\ update.at = "begin"
  BY DEF ChooseMedoids
<1>3. update'.at = "assign" /\ update'.assigned = <<>>
  BY <1>1, <1>2 DEF MembershipInv, WalkInv, ClusteringInv, UpdateInv
<1>4. DOMAIN <<>> = {}
  OBVIOUS
<1>5. WalkInv'
  BY <1>3, <1>4 DEF WalkInv
<1> QED
  BY <1>2, <1>5 DEF MembershipInv, HoldsMedoids, HoldsClosest

LEMMA AssignSomeKeepsMembers ==
    ASSUME ClusteringInv, MembershipInv, AssignSome
    PROVE  MembershipInv'
<1> DEFINE from == Len(update.assigned)
           next == IF from = 0 THEN 1 ELSE from + YieldEvery
           to == IF next <= Len(finished) THEN next ELSE Len(finished)
           added == [i \in 1..(to - from) |->
                       Closest(finished[from + i], update.medoids)]
           at == IF to < next THEN "medoids" ELSE "assign"
           all == update.assigned \o added
<1>1. /\ UNCHANGED <<mayTimeOut, finished, clusters, medoids>>
      /\ update.at = "assign"
      /\ update' = [update EXCEPT !.assigned = update.assigned \o added, !.at = at]
  BY DEF AssignSome
<1>2. /\ Len(finished) \in Nat /\ from \in Nat /\ from <= Len(finished)
      /\ to \in Nat /\ from <= to /\ to <= Len(finished)
      /\ at \in {"assign", "medoids"}
      /\ at = "medoids" => to = Len(finished)
  <2>1. Len(finished) \in Nat /\ from \in Nat /\ from <= Len(finished)
    BY LenProperties DEF ClusteringInv, UpdateInv
  <2> QED
    BY <2>1, ClusteringAssumption
<1> HIDE DEF from, to, at
<1>3. /\ DOMAIN all = 1..to
      /\ \A i \in 1..from : all[i] = update.assigned[i]
      /\ \A i \in (from + 1)..to :
           all[i] = ClosestIn(finished, finished[i], update.medoids)
  <2>1. /\ DOMAIN added = 1..(to - from)
        /\ \A i \in 1..(to - from) :
             added[i] = ClosestIn(finished, finished[from + i], update.medoids)
    BY DEF Closest, ClosestIn
  <2>2. Len(added) = to - from
    BY <1>2, <2>1
  <2>3. all = [i \in 1..(from + (to - from)) |->
                 IF i <= from THEN update.assigned[i] ELSE added[i - from]]
    <3> HIDE DEF added
    <3> QED
      BY <2>2 DEF from
  <2> HIDE DEF added, all
  <2>4. from + (to - from) = to
    BY <1>2
  <2>5. \A i \in 1..to : all[i] = IF i <= from THEN update.assigned[i] ELSE added[i - from]
    BY <2>3, <2>4
  <2>6. ASSUME NEW i \in (from + 1)..to
        PROVE  all[i] = ClosestIn(finished, finished[i], update.medoids)
    <3>1. /\ i \in 1..to /\ ~(i <= from)
          /\ i - from \in 1..(to - from) /\ from + (i - from) = i
      BY <1>2
    <3> QED
      BY <2>1, <2>5, <3>1, Zenon
  <2>7. \A i \in 1..from : all[i] = update.assigned[i]
    BY <1>2, <2>5
  <2>8. DOMAIN all = 1..to
    BY <2>3, <2>4
  <2> QED
    BY <2>6, <2>7, <2>8
<1>4. /\ update'.at = at /\ update'.medoids = update.medoids
      /\ update'.assigned = all
  BY <1>1 DEF ClusteringInv, UpdateInv
<1> HIDE DEF all
<1>5. /\ DOMAIN update.assigned = 1..from
      /\ DOMAIN finished = 1..Len(finished)
      /\ update.medoids \in Seq(DOMAIN finished)
  BY <1>1, UpdateFacts, ClusteringFacts DEF from
<1>6. \A i \in DOMAIN all : all[i] = ClosestIn(finished, finished[i], update.medoids)
  <2>1. \A i \in 1..from :
          update.assigned[i] = ClosestIn(finished, finished[i], update.medoids)
    BY <1>1, <1>5 DEF MembershipInv, WalkInv
  <2>2. \A i \in 1..to : i \in 1..from \/ i \in (from + 1)..to
    BY <1>2
  <2> QED
    BY <1>3, <2>1, <2>2, Zenon
<1>7. at = "medoids" =>
        \A c \in DOMAIN update.medoids : update.medoids[c] \in DOMAIN all
  BY <1>2, <1>3, <1>5, ElementOfSeq, LenProperties
<1>8. WalkInv'
  BY <1>1, <1>2, <1>4, <1>6, <1>7 DEF WalkInv
<1> QED
  BY <1>1, <1>8 DEF MembershipInv, HoldsMedoids, HoldsClosest

LEMMA UpdateMedoidsKeepsMembers ==
    ASSUME ClusteringInv, MembershipInv, UpdateMedoids, [Converging]_vars
    PROVE  MembershipInv'
<1>1. /\ UNCHANGED <<mayTimeOut, finished, clusters, medoids>>
      /\ update.at = "medoids"
  BY DEF UpdateMedoids
<1>2. \/ update'.at = "assign" /\ update'.assigned = <<>>
      \/ update'.at = "install" /\ update'.assigned = update.assigned
  BY DEF UpdateMedoids, ClusteringInv, UpdateInv
<1>3. WalkInv'
  <2>1. CASE update'.at = "assign" /\ update'.assigned = <<>>
    <3>1. DOMAIN <<>> = {}
      OBVIOUS
    <3> QED
      BY <2>1, <3>1 DEF WalkInv
  <2>2. CASE update'.at = "install" /\ update'.assigned = update.assigned
    <3>1. update' # update
      BY <1>1, <2>2
    <3>2. Converging
      BY <3>1 DEF vars
    <3>3. update'.medoids = update.medoids
      BY <1>1, <2>2, <3>2 DEF Converging
    <3> QED
      BY <1>1, <2>2, <3>3 DEF MembershipInv, WalkInv
  <2> QED
    BY <1>2, <2>1, <2>2
<1> QED
  BY <1>1, <1>3 DEF MembershipInv, HoldsMedoids, HoldsClosest

\* The clustering that is installed is that of the walk.
LEMMA InstallClusteringKeepsMembers ==
    ASSUME ClusteringInv, MembershipInv, InstallClustering
    PROVE  MembershipInv'
<1> DEFINE ms == update.medoids
           assigned == update.assigned
           k == update.k
<1>1. /\ update.at = "install" /\ UNCHANGED <<mayTimeOut, finished>>
      /\ medoids' = ms /\ clusters' = ClustersOf(assigned, k) /\ update' = NoUpdate
  BY DEF InstallClustering, Install
<1>2. /\ ms \in Seq(DOMAIN finished) /\ ms # <<>> /\ DOMAIN ms = 1..k /\ k \in Nat
      /\ assigned \in Seq(1..k)
      /\ \A i \in DOMAIN assigned : assigned[i] \in 1..k
  BY <1>1, UpdateFacts, ElementOfSeq
<1>3. /\ DOMAIN clusters' = 1..k
      /\ \A c \in 1..k : ToSet(clusters'[c]) = Members(DOMAIN assigned, assigned, c)
  <2> HIDE DEF assigned, k
  <2>1. /\ ClustersOf(assigned, k) \in Seq(Seq(DOMAIN assigned))
        /\ Len(ClustersOf(assigned, k)) = k
        /\ \A c \in 1..k : ToSet(ClustersOf(assigned, k)[c])
                             = Members(DOMAIN assigned, assigned, c)
    BY <1>2, ClustersType
  <2> QED
    BY <1>1, <2>1, LenProperties
<1>4. /\ \A i \in DOMAIN assigned : assigned[i] = ClosestIn(finished, finished[i], ms)
      /\ \A c \in DOMAIN ms : ms[c] \in DOMAIN assigned
  BY <1>1 DEF MembershipInv, WalkInv
<1> HIDE DEF ms, assigned, k
<1>5. HoldsMedoids'
  <2>1. ASSUME NEW c \in DOMAIN ms
        PROVE  ms[c] \in ToSet(clusters'[ClosestIn(finished, finished[ms[c]], ms)])
    <3> DEFINE m == ms[c]
               e == ClosestIn(finished, finished[m], ms)
    <3>1. m \in DOMAIN assigned /\ assigned[m] = e /\ assigned[m] \in 1..k
      BY <1>2, <1>4
    <3> HIDE DEF m, e
    <3>2. m \in ToSet(clusters'[e])
      BY <1>3, <3>1 DEF Members
    <3> QED
      BY <3>2 DEF m, e
  <2> QED
    BY <1>1, <2>1 DEF HoldsMedoids
<1>6. HoldsClosest'
  <2>1. ASSUME NEW c \in 1..k, NEW i \in ToSet(clusters'[c])
        PROVE  ClosestIn(finished, finished[i], ms) = c
    BY <1>3, <1>4 DEF Members
  <2> QED
    BY <1>1, <1>3, <2>1 DEF HoldsClosest
<1>7. WalkInv'
  BY <1>1 DEF WalkInv, NoUpdate
<1> QED
  BY <1>5, <1>6, <1>7 DEF MembershipInv

\* A clustering that times out leaves no cluster empty.
LEMMA TimeOutKeepsMembers ==
    ASSUME ClusteringInv, MembershipInv, TimeOut
    PROVE  MembershipInv'
<1> DEFINE k == update.k
           dealt == [i \in 1..update.n |-> ((i - 1) % k) + 1]
<1>1. /\ mayTimeOut /\ update.at # "none"
      /\ \E ms \in Samples(update.n, k) : Install(ms, dealt)
  BY DEF TimeOut
<1>2. /\ UNCHANGED <<mayTimeOut, finished>>
      /\ clusters' = ClustersOf(dealt, k) /\ update' = NoUpdate
  BY <1>1 DEF Install
<1>3. k \in Nat /\ k # 0 /\ update.n \in Nat /\ k <= update.n
  BY <1>1 DEF ClusteringInv, UpdateInv
<1> HIDE DEF k
<1>4. dealt \in Seq(Int) /\ DOMAIN dealt = 1..update.n
  <2>1. \A i \in 1..update.n : ((i - 1) % k) + 1 \in Int
    BY <1>3
  <2> QED
    BY <1>3, <2>1
<1>5. ASSUME NEW c \in 1..k PROVE c \in DOMAIN dealt /\ dealt[c] = c
  <2>1. c \in 1..update.n /\ c - 1 \in 0..(k - 1)
    BY <1>3
  <2>2. (c - 1) % k = c - 1
    BY <1>3, <2>1
  <2> QED
    BY <2>1, <2>2
<1> HIDE DEF dealt
<1>6. /\ DOMAIN clusters' = 1..k
      /\ \A c \in 1..k : ToSet(clusters'[c]) = Members(DOMAIN dealt, dealt, c)
  <2>1. /\ ClustersOf(dealt, k) \in Seq(Seq(DOMAIN dealt))
        /\ Len(ClustersOf(dealt, k)) = k
        /\ \A c \in 1..k : ToSet(ClustersOf(dealt, k)[c]) = Members(DOMAIN dealt, dealt, c)
    BY <1>3, <1>4, ClustersType
  <2> QED
    BY <1>2, <2>1, LenProperties
<1>7. ASSUME NEW c \in 1..k PROVE clusters'[c] # <<>>
  <2>1. c \in ToSet(clusters'[c])
    BY <1>5, <1>6 DEF Members
  <2>2. ToSet(<<>>) = {}
    BY DEF ToSet
  <2> QED
    BY <2>1, <2>2
<1>8. WalkInv'
  BY <1>2 DEF WalkInv, NoUpdate
<1> QED
  BY <1>1, <1>2, <1>6, <1>7, <1>8 DEF MembershipInv

LEMMA NextMembership ==
    ClusteringInv /\ MembershipInv /\ [Next]_vars /\ [Converging]_vars => MembershipInv'
<1> SUFFICES ASSUME ClusteringInv, MembershipInv, [Next]_vars, [Converging]_vars
             PROVE  MembershipInv'
  OBVIOUS
<1>1. CASE \E graph \in Graphs : AddFinishedRequest(graph)
  BY <1>1, AddFinishedRequestKeepsMembers
<1>2. CASE UpdateClustering
  BY <1>2, UpdateClusteringKeepsMembers
<1>3. CASE ChooseMedoids
  BY <1>3, ChooseMedoidsKeepsMembers
<1>4. CASE AssignSome
  BY <1>4, AssignSomeKeepsMembers
<1>5. CASE UpdateMedoids
  BY <1>5, UpdateMedoidsKeepsMembers
<1>6. CASE InstallClustering
  BY <1>6, InstallClusteringKeepsMembers
<1>7. CASE TimeOut
  BY <1>7, TimeOutKeepsMembers
<1>8. CASE UNCHANGED vars
  BY <1>8 DEF vars, MembershipInv, WalkInv, HoldsMedoids, HoldsClosest
<1> QED
  BY <1>1, <1>2, <1>3, <1>4, <1>5, <1>6, <1>7, <1>8 DEF Next

LEMMA MembershipHolds ==
    Spec /\ [][Converging]_vars => [](ClusteringInv /\ MembershipInv)
<1>1. Init => MembershipInv
  BY MembershipInit
<1>2. ClusteringInv /\ MembershipInv /\ [Next]_vars /\ [Converging]_vars => MembershipInv'
  BY NextMembership
<1>3. Spec => []ClusteringInv
  BY ClusteringInvHolds
<1> QED
  BY <1>1, <1>2, <1>3, PTL DEF Spec

\* Where every clustering ends because its medoids have settled, no graph of a
\* cluster is closer to the medoid of another one, those that were appended or
\* finished while it ran included (similarity.py:667-729, 809-823).  A
\* clustering that is cut off at max_iterations installs medoids its
\* assignments do not belong to.
THEOREM SettledClustersAreClosest ==
    Spec /\ [][Converging]_vars => []InClosestCluster
<1>1. ASSUME ClusteringInv, MembershipInv PROVE InClosestCluster
  <2> SUFFICES ASSUME ~mayTimeOut, NEW c \in DOMAIN clusters, NEW d \in DOMAIN clusters,
                      NEW i \in ToSet(clusters[c])
               PROVE  Distance(finished[i], finished[medoids[c]])
                        >= Distance(finished[i], finished[medoids[d]])
    BY DEF InClosestCluster
  <2>1. ClosestIn(finished, finished[i], medoids) = c
    BY <1>1 DEF MembershipInv, HoldsClosest
  <2>2. /\ finished \in Seq(Graphs) /\ medoids \in Seq(DOMAIN finished)
        /\ medoids # <<>> /\ DOMAIN clusters = DOMAIN medoids
        /\ IsGraph(finished[i])
    BY <1>1, ClusteringFacts
  <2>3. Leads(finished, finished[i], medoids, c)
    BY <2>1, <2>2, ClosestLeads
  <2> DEFINE own == Distance(finished[i], finished[medoids[c]])
             other == Distance(finished[i], finished[medoids[d]])
  <2>4. own \in Int /\ other \in Int
    BY <2>2, ListedDistances
  <2>5. other < own \/ other = own
    BY <2>2, <2>3 DEF Leads
  <2> HIDE DEF own, other
  <2>6. own >= other
    BY <2>4, <2>5
  <2> QED
    BY <2>6 DEF own, other
<1> QED
  BY <1>1, MembershipHolds, PTL

\* No other graph is as close to a graph as it is itself.
ToldApart == \A g, h \in Graphs : Distance(g, h) >= Distance(g, g) => g = h

\* The first of the medoids that are closest to a medoid is the same graph.
LEMMA ClosestToItself ==
    ASSUME ToldApart, ClusteringInv, NEW c \in DOMAIN medoids
    PROVE  LET d == ClosestIn(finished, finished[medoids[c]], medoids)
           IN /\ d \in DOMAIN medoids /\ d <= c
              /\ finished[medoids[d]] = finished[medoids[c]]
<1> DEFINE g == finished[medoids[c]]
           d == ClosestIn(finished, g, medoids)
<1>1. /\ finished \in Seq(Graphs) /\ medoids \in Seq(DOMAIN finished)
      /\ medoids # <<>> /\ g \in Graphs /\ IsGraph(g)
      /\ \A e \in DOMAIN medoids : finished[medoids[e]] \in Graphs
      /\ DOMAIN medoids = 1..Len(medoids)
  BY ClusteringFacts, LenProperties
<1>2. Leads(finished, g, medoids, d)
  <2> HIDE DEF g
  <2> QED
    BY <1>1, ClosestLeads
<1>3. Distance(g, g) \in Int /\ Distance(g, finished[medoids[d]]) \in Int
  BY <1>1, <1>2, ListedDistances DEF Leads
<1> HIDE DEF d
<1>4. d \in DOMAIN medoids /\ Distance(g, finished[medoids[d]]) >= Distance(g, g)
  BY <1>2, <1>3 DEF Leads
<1>5. finished[medoids[d]] = g
  <2> HIDE DEF g
  <2> QED
    BY <1>1, <1>4 DEF ToldApart
<1>6. d <= c
  BY <1>1, <1>2, <1>3, <1>5 DEF Leads
<1> QED
  BY <1>4, <1>5, <1>6 DEF d

\* Clusters have medoids.
LEMMA ClusteredHasMedoids ==
    ASSUME ClusteringInv, Clustered
    PROVE  medoids # <<>>
<1>1. clusters \in Seq(Seq(DOMAIN finished)) /\ Len(clusters) = Len(medoids)
  BY DEF ClusteringInv, InstalledInv
<1>2. Len(medoids) # 0
  BY <1>1, EmptySeq DEF Clustered
<1> QED
  BY <1>2

\* The match of a query in a cluster that has graphs.
LEMMA MatchInCluster ==
    ASSUME ClusteringInv, NEW graph, IsGraph(graph), Clustered,
           clusters[ClosestIn(finished, graph, medoids)] # <<>>
    PROVE  LET cluster == clusters[ClosestIn(finished, graph, medoids)]
           IN /\ FindBestMatch(graph) \in DOMAIN finished
              /\ \A i \in ToSet(cluster) :
                   Distance(graph, finished[i])
                     <= Distance(graph, finished[FindBestMatch(graph)])
<1> DEFINE c == ClosestIn(finished, graph, medoids)
           cluster == clusters[c]
           p == ClosestIn(finished, graph, cluster)
<1>1. /\ finished \in Seq(Graphs) /\ medoids \in Seq(DOMAIN finished)
      /\ DOMAIN clusters = DOMAIN medoids
  BY ClusteringFacts
<1>2. medoids # <<>>
  BY ClusteredHasMedoids
<1>3. c \in DOMAIN clusters
  BY <1>1, <1>2, ClosestLeads DEF Leads
<1>4. FindBestMatch(graph) = cluster[p]
  BY <1>2 DEF FindBestMatch, Closest, ClosestIn, Clustered
<1>5. cluster \in Seq(DOMAIN finished) /\ cluster # <<>>
  BY <1>3, ClusteringFacts
<1> HIDE DEF c, cluster
<1>6. Leads(finished, graph, cluster, p)
  BY <1>1, <1>5, ClosestLeads
<1>7. \A d \in DOMAIN cluster : Distance(graph, finished[cluster[d]]) \in Int
  BY <1>1, <1>5, ListedDistances
<1> HIDE DEF p
<1>8. p \in DOMAIN cluster /\ cluster[p] \in DOMAIN finished
  BY <1>5, <1>6, ElementOfSeq, LenProperties DEF Leads
<1>9. \A d \in DOMAIN cluster : Distance(graph, finished[cluster[d]])
                                  <= Distance(graph, finished[cluster[p]])
  BY <1>6, <1>7 DEF Leads
<1>10. \A i \in ToSet(cluster) :
         Distance(graph, finished[i]) <= Distance(graph, finished[cluster[p]])
  BY <1>9 DEF ToSet
<1> QED
  BY <1>4, <1>8, <1>10 DEF c, cluster

\* What find_best_match is asked for is a graph, if stages have requests.
Staged == \A g \in Graphs : \A n \in DOMAIN g.nodes : g.nodes[n] # <<>>

LEMMA QueriesAreGraphs ==
    ASSUME Staged, NEW graph \in Queries
    PROVE  IsGraph(graph)
<1>1. PICK g \in Graphs : \E n \in DOMAIN g.nodes : graph = Query(g, n)
  BY DEF Queries
<1>2. PICK n \in DOMAIN g.nodes : graph = Query(g, n)
  BY <1>1
<1> DEFINE node == <<g.nodes[n][1][1], NoOutput>>
           before == SubSeq(g.nodes, 1, n - 1)
<1>3. g.nodes \in Seq(Seq(Node)) /\ n \in 1..Len(g.nodes) /\ Len(g.nodes) \in Nat
  BY ClusteringAssumption, LenProperties DEF IsGraph
<1>4. g.nodes[n] \in Seq(Node) /\ g.nodes[n] # <<>>
  BY <1>3, ElementOfSeq DEF Staged
<1>5. g.nodes[n][1] \in Node
  BY <1>4, EmptySeq, LenProperties, ElementOfSeq
<1>6. node \in Node
  BY <1>5 DEF Node
<1>7. before \in Seq(Seq(Node))
  BY <1>3
<1> HIDE DEF node, before
<1>8. before \o <<<<node>>>> \in Seq(Seq(Node))
  BY <1>6, <1>7
<1>9. graph.nodes = before \o <<<<node>>>>
  BY <1>2 DEF Query, before, node
<1> QED
  BY <1>8, <1>9 DEF IsGraph

\* The cluster of the medoid closest to a query holds that medoid, where the
\* medoids are in clusters at all.
LEMMA ClosestHoldsMedoid ==
    ASSUME ToldApart, ClusteringInv, HoldsMedoids, Clustered,
           NEW graph, IsGraph(graph)
    PROVE  LET c == ClosestIn(finished, graph, medoids)
           IN /\ Leads(finished, graph, medoids, c)
              /\ medoids[c] \in ToSet(clusters[c])
<1> DEFINE c == ClosestIn(finished, graph, medoids)
           d == ClosestIn(finished, finished[medoids[c]], medoids)
<1>1. /\ finished \in Seq(Graphs) /\ medoids \in Seq(DOMAIN finished)
      /\ DOMAIN clusters = DOMAIN medoids
      /\ DOMAIN medoids = 1..Len(medoids) /\ Len(medoids) \in Nat
  BY ClusteringFacts, LenProperties
<1>2. medoids # <<>>
  BY ClusteredHasMedoids
<1>3. Leads(finished, graph, medoids, c)
  BY <1>1, <1>2, ClosestLeads
<1>4. c \in DOMAIN medoids
  BY <1>3 DEF Leads
<1>5. /\ d \in DOMAIN medoids /\ d <= c
      /\ finished[medoids[d]] = finished[medoids[c]]
  BY <1>4, ClosestToItself
<1>6. medoids[c] \in ToSet(clusters[d])
  BY <1>4 DEF HoldsMedoids
<1> HIDE DEF c, d
<1>7. Distance(graph, finished[medoids[c]]) \in Int
  BY <1>1, <1>4, ListedDistances
<1>8. c <= d
  BY <1>3, <1>5, <1>7 DEF Leads
<1>9. c = d
  BY <1>1, <1>4, <1>5, <1>8
<1> QED
  BY <1>3, <1>6, <1>9 DEF c

\* Where clusterings settle and graphs are told apart, every query finds a match
\* as soon as there are clusters, after a time-out too: the closest cluster is
\* never one that has lost all its graphs (similarity.py:854-857).
THEOREM EveryQueryFindsAMatch ==
    ASSUME ToldApart, Staged
    PROVE  Spec /\ [][Converging]_vars => []MatchExists
<1>1. ASSUME ClusteringInv, MembershipInv PROVE MatchExists
  <2> SUFFICES ASSUME Clustered, NEW graph \in Queries PROVE FindBestMatch(graph) # 0
    BY DEF MatchExists
  <2> DEFINE c == ClosestIn(finished, graph, medoids)
  <2>1. /\ finished \in Seq(Graphs) /\ medoids \in Seq(DOMAIN finished)
        /\ DOMAIN clusters = DOMAIN medoids
        /\ DOMAIN finished = 1..Len(finished)
    BY <1>1, ClusteringFacts, LenProperties
  <2>2. IsGraph(graph) /\ medoids # <<>>
    BY <1>1, QueriesAreGraphs, ClusteredHasMedoids
  <2>3. c \in DOMAIN clusters
    BY <2>1, <2>2, ClosestLeads DEF Leads
  <2>4. clusters[c] # <<>>
    <3>1. CASE \A d \in DOMAIN clusters : clusters[d] # <<>>
      BY <2>3, <3>1
    <3>2. CASE HoldsMedoids
      <4>1. medoids[c] \in ToSet(clusters[c])
        BY <1>1, <2>2, <3>2, ClosestHoldsMedoid
      <4>2. ToSet(<<>>) = {}
        BY DEF ToSet
      <4> HIDE DEF c
      <4> QED
        BY <4>1, <4>2
    <3> QED
      BY <1>1, <3>1, <3>2 DEF MembershipInv
  <2>5. FindBestMatch(graph) \in DOMAIN finished
    BY <1>1, <2>2, <2>4, MatchInCluster
  <2> QED
    BY <2>1, <2>5
<1> QED
  BY <1>1, MembershipHolds, PTL

\* Where clusterings settle in time and graphs are told apart, searching one
\* cluster is enough to find a graph as close to a query as any medoid
\* (similarity.py:837-869).
THEOREM SearchFindsTheClosest ==
    ASSUME ToldApart, Staged
    PROVE  Spec /\ [][Converging]_vars => []ClosestIsFound
<1>1. ASSUME ClusteringInv, MembershipInv PROVE ClosestIsFound
  <2> SUFFICES ASSUME ~mayTimeOut, Clustered, NEW graph \in Queries,
                      NEW m \in ToSet(medoids)
               PROVE  Distance(graph, finished[FindBestMatch(graph)])
                        >= Distance(graph, finished[m])
    BY DEF ClosestIsFound
  <2> DEFINE c == ClosestIn(finished, graph, medoids)
             match == FindBestMatch(graph)
  <2>1. /\ finished \in Seq(Graphs) /\ medoids \in Seq(DOMAIN finished)
        /\ IsGraph(graph)
    BY <1>1, ClusteringFacts, QueriesAreGraphs
  <2>2. PICK e \in DOMAIN medoids : m = medoids[e]
    BY DEF ToSet
  <2>3. Leads(finished, graph, medoids, c) /\ medoids[c] \in ToSet(clusters[c])
    BY <1>1, <2>1, ClosestHoldsMedoid DEF MembershipInv
  <2>4. clusters[c] # <<>>
    <3>1. ToSet(<<>>) = {}
      BY DEF ToSet
    <3> HIDE DEF c
    <3> QED
      BY <2>3, <3>1
  <2>5. /\ match \in DOMAIN finished
        /\ \A j \in ToSet(clusters[c]) :
             Distance(graph, finished[j]) <= Distance(graph, finished[match])
    BY <1>1, <2>1, <2>4, MatchInCluster
  <2> HIDE DEF c, match
  <2>6. /\ Distance(graph, finished[m]) \in Int
        /\ Distance(graph, finished[medoids[c]]) \in Int
    BY <2>1, <2>2, <2>3, ListedDistances DEF Leads
  <2>7. Distance(graph, finished[match]) \in Int
    <3>1. finished[match] \in Graphs
      BY <2>1, <2>5, ElementOfSeq, LenProperties
    <3> QED
      BY <2>1, <3>1, DistanceType
  <2>8. Distance(graph, finished[m]) <= Distance(graph, finished[medoids[c]])
    BY <2>2, <2>3, <2>6 DEF Leads
  <2>9. Distance(graph, finished[medoids[c]]) <= Distance(graph, finished[match])
    BY <2>3, <2>5
  <2>10. Distance(graph, finished[match]) >= Distance(graph, finished[m])
    BY <2>6, <2>7, <2>8, <2>9
  <2> QED
    BY <2>10 DEF match
<1> QED
  BY <1>1, MembershipHolds, PTL

-----------------------------------------------------------------------------
(* Graphs that are told apart.                                             *)

\* Sums of summands that are no greater are only as great if all are equal.
LEMMA SumsTie ==
    ASSUME NEW S, IsFiniteSet(S), NEW v, NEW w,
           \A x \in S : v[x] \in Int /\ w[x] \in Int /\ v[x] <= w[x],
           Sum(v, S) >= Sum(w, S)
    PROVE  \A x \in S : v[x] = w[x]
<1> SUFFICES ASSUME NEW y \in S PROVE v[y] = w[y]
  OBVIOUS
<1> DEFINE rest == S \ {y}
<1>1. IsFiniteSet(rest) /\ rest \subseteq S
  BY FS_RemoveElement
<1>2. Sum(v, S) = v[y] + Sum(v, rest) /\ Sum(w, S) = w[y] + Sum(w, rest)
  BY SumTakes
<1>3. Sum(v, rest) <= Sum(w, rest)
  <2> HIDE DEF rest
  <2> QED
    BY <1>1, SumOfLess
<1>4. Sum(v, rest) \in Int /\ Sum(w, rest) \in Int
  <2> HIDE DEF rest
  <2> QED
    BY <1>1, SumType
<1> HIDE DEF rest
<1> QED
  BY <1>2, <1>3, <1>4

\* Stages of the same size need no padding.
LEMMA PaddedOfSameSize ==
    ASSUME NEW q \in Seq(RunNode), NEW t \in Seq(RunNode), q # <<>>, Len(q) = Len(t)
    PROVE  PaddedSimilarity(q, t) = StageSimilarity(q, t)
<1> DEFINE empty == IF q # <<>> /\ q[1][2] # NoOutput THEN <<0, 0>>
                                                      ELSE <<0, NoOutput>>
<1>1. Len(q) \in Nat /\ Len(q) # 0
  BY LenProperties, EmptySeq
<1>2. empty = <<0, 0>>
  <2>1. q[1] \in RunNode
    BY <1>1, ElementOfSeq
  <2>2. q[1][2] # NoOutput
    BY <2>1 DEF RunNode, NoOutput
  <2> QED
    BY <2>2
<1>3. ASSUME NEW s \in Seq(RunNode) PROVE Filled(s, Len(s)) = s
  <2>1. Len(s) \in Nat /\ DOMAIN s = 1..Len(s)
    BY LenProperties
  <2> DEFINE f == Filled(s, Len(s))
  <2>2. /\ f \in Seq(Node) /\ DOMAIN f = 1..Len(s)
        /\ \A i \in 1..Len(s) : f[i] = s[i]
    BY <2>1, FilledType
  <2>3. s = [i \in 1..Len(s) |-> s[i]] /\ f = [i \in 1..Len(s) |-> f[i]]
    <3> HIDE DEF f
    <3> QED
      BY <2>1, <2>2
  <2> HIDE DEF f
  <2>4. f = s
    BY <2>2, <2>3
  <2> QED
    BY <2>4 DEF f
<1>4. PaddedSimilarity(q, t) = StageSimilarity(Filled(q, Len(q)), Filled(t, Len(t)))
  BY <1>1, <1>2 DEF PaddedSimilarity, Filled
<1> QED
  BY <1>3, <1>4

\* The best matching of two stages of a size is no better than that of the first
\* with itself, and as good only if it matches equal nodes.
LEMMA PermutedWithItself ==
    ASSUME NEW q \in Seq(RunNode), NEW t \in Seq(RunNode), Len(q) = Len(t), q # <<>>
    PROVE  /\ PermutedSimilarity(q, t) <= PermutedSimilarity(q, q)
           /\ PermutedSimilarity(q, t) >= PermutedSimilarity(q, q) =>
                \E p \in Orders(DOMAIN q) : \A i \in DOMAIN q : t[p[i]] = q[i]
           /\ PermutedSimilarity(q, q) > 0
<1> DEFINE D == DOMAIN q
           id == [i \in D |-> i]
           w == Similarities(q, q, id)
<1>1. /\ D = 1..Len(q) /\ DOMAIN t = D /\ IsFiniteSet(D) /\ 1 \in D
      /\ q \in Seq(Node) /\ t \in Seq(Node)
  <2>1. RunNode \subseteq Node
    BY DEF RunNode, Node
  <2>2. Len(q) \in Nat /\ Len(q) # 0 /\ D = 1..Len(q) /\ DOMAIN t = 1..Len(t)
    BY LenProperties, EmptySeq
  <2>3. IsFiniteSet(D)
    BY LastIndex
  <2>4. q \in Seq(Node) /\ t \in Seq(Node)
    BY <2>1, SeqMonotonic
  <2> QED
    BY <2>2, <2>3, <2>4
<1>2. \A i \in D : q[i] \in RunNode /\ t[i] \in RunNode
  BY <1>1, ElementOfSeq
<1>3. PICK r \in Orders(D) : PermutedSimilarity(q, t) = Total(Similarities(q, t, r))
  BY <1>1, PermutedType
<1>4. r \in [D -> D] /\ id \in Orders(D)
  BY <1>1, <1>3, OrderType, OrdersType
<1> DEFINE v == Similarities(q, t, r)
<1>5. ASSUME NEW i \in D
      PROVE  /\ v[i] \in Int /\ w[i] \in Nat /\ v[i] <= w[i] /\ w[i] = 1000
             /\ v[i] = w[i] => t[r[i]] = q[i]
  <2>1. q[i] \in RunNode /\ t[r[i]] \in RunNode
    BY <1>2, <1>4
  <2>2. /\ NodeSimilarity(q[i], t[r[i]]) <= 1000
        /\ NodeSimilarity(q[i], t[r[i]]) = 1000 => q[i] = t[r[i]]
        /\ NodeSimilarity(q[i], q[i]) = 1000
    BY <2>1, RunNodeSimilarity
  <2>3. NodeSimilarity(q[i], t[r[i]]) \in Nat
    <3>1. q[i] \in Node /\ t[r[i]] \in Node
      BY <2>1 DEF RunNode, Node
    <3> QED
      BY <3>1, NodeSimilarityType
  <2>4. v[i] = NodeSimilarity(q[i], t[r[i]]) /\ w[i] = NodeSimilarity(q[i], q[i])
    BY DEF Similarities
  <2> HIDE DEF v, w
  <2> QED
    BY <2>2, <2>3, <2>4
<1> HIDE DEF id
<1>6. /\ Total(w) = Sum(w, D) /\ Total(w) <= PermutedSimilarity(q, q)
      /\ PermutedSimilarity(q, q) \in Int
  <2>1. Total(w) = Sum(w, D)
    BY <1>1, <1>4, SimilaritiesType
  <2>2. Total(w) <= PermutedSimilarity(q, q) /\ PermutedSimilarity(q, q) \in Int
    BY <1>1, <1>4, PermutedType
  <2> QED
    BY <2>1, <2>2
<1>7. Total(v) = Sum(v, D)
  BY <1>1, <1>3, SimilaritiesType
<1> HIDE DEF D, v, w
<1>8. Sum(v, D) <= Sum(w, D)
  BY <1>1, <1>5, SumOfLess
<1>9. Sum(v, D) \in Int /\ Sum(w, D) \in Int
  BY <1>1, <1>5, SumType
<1>10. Sum(w, D) > 0
  <2>1. Sum(w, D) = w[1] + Sum(w, D \ {1})
    <3>1. 1 \in D /\ \A x \in D : w[x] \in Int
      BY <1>1, <1>5
    <3> QED
      BY <1>1, <3>1, SumTakes
  <2>2. D \ {1} \subseteq D
    OBVIOUS
  <2>3. Sum(w, D \ {1}) \in Nat
    BY <1>1, <1>5, <2>2, SumOfNaturals
  <2> QED
    BY <1>1, <1>5, <2>1, <2>3
<1>11. PermutedSimilarity(q, t) <= PermutedSimilarity(q, q)
  BY <1>3, <1>6, <1>7, <1>8, <1>9 DEF v
<1>12. ASSUME PermutedSimilarity(q, t) >= PermutedSimilarity(q, q)
       PROVE  \E p \in Orders(D) : \A i \in D : t[p[i]] = q[i]
  <2>1. Sum(v, D) >= Sum(w, D)
    BY <1>3, <1>6, <1>7, <1>9, <1>12 DEF v
  <2>2. \A i \in D : v[i] = w[i]
    BY <1>1, <1>5, <2>1, SumsTie
  <2> QED
    BY <1>3, <1>5, <2>2
<1>13. PermutedSimilarity(q, q) > 0
  BY <1>6, <1>9, <1>10
<1> QED
  BY <1>11, <1>12, <1>13 DEF D

\* The same of find_best_matching_similarity, greedy or not.
LEMMA PaddedWithItself ==
    ASSUME NEW q \in Seq(RunNode), NEW t \in Seq(RunNode), Len(q) = Len(t), q # <<>>
    PROVE  /\ PaddedSimilarity(q, t) \in Int /\ PaddedSimilarity(q, q) \in Int
           /\ PaddedSimilarity(q, t) <= PaddedSimilarity(q, q)
           /\ PaddedSimilarity(q, t) >= PaddedSimilarity(q, q) =>
                \E p \in Orders(DOMAIN q) : \A i \in DOMAIN q : t[p[i]] = q[i]
           /\ PaddedSimilarity(q, q) > 0
<1>1. q \in Seq(Node) /\ t \in Seq(Node) /\ t # <<>>
  <2>1. RunNode \subseteq Node
    BY DEF RunNode, Node
  <2>2. q \in Seq(Node) /\ t \in Seq(Node)
    BY <2>1, SeqMonotonic
  <2>3. Len(q) # 0
    BY EmptySeq
  <2> QED
    BY <2>2, <2>3
<1>2. /\ PaddedSimilarity(q, t) = StageSimilarity(q, t)
      /\ PaddedSimilarity(q, q) = StageSimilarity(q, q)
  BY PaddedOfSameSize
<1>3. /\ PermutedSimilarity(q, t) \in Int /\ PermutedSimilarity(q, q) \in Int
      /\ GreedySimilarity(q, t) \in Int
  BY <1>1, PermutedType, GreedyType
<1>4. StageSimilarity(q, t) <= PermutedSimilarity(q, t) /\ StageSimilarity(q, t) \in Int
  <2>1. GreedySimilarity(q, t) <= PermutedSimilarity(q, t)
    BY <1>1, GreedyIsBounded
  <2>2. \/ StageSimilarity(q, t) = GreedySimilarity(q, t)
        \/ StageSimilarity(q, t) = PermutedSimilarity(q, t)
    BY <1>1 DEF StageSimilarity
  <2> QED
    BY <1>3, <2>1, <2>2
<1>5. StageSimilarity(q, q) = PermutedSimilarity(q, q)
  <2> DEFINE id == [i \in DOMAIN q |-> i]
  <2>1. id \in Orders(DOMAIN q)
    BY LastIndex, OrdersType
  <2>2. Reordered(q, id) = q
    <3>1. q = [i \in DOMAIN q |-> q[i]]
      BY LenProperties
    <3> QED
      BY <3>1 DEF Reordered
  <2> HIDE DEF id
  <2>3. GreedySimilarity(q, q) = PermutedSimilarity(q, q)
    BY <2>1, <2>2, GreedyFindsTheSame
  <2> QED
    BY <1>1, <2>3 DEF StageSimilarity
<1>6. /\ PermutedSimilarity(q, t) <= PermutedSimilarity(q, q)
      /\ PermutedSimilarity(q, t) >= PermutedSimilarity(q, q) =>
           \E p \in Orders(DOMAIN q) : \A i \in DOMAIN q : t[p[i]] = q[i]
      /\ PermutedSimilarity(q, q) > 0
  BY PermutedWithItself
<1> QED
  BY <1>2, <1>3, <1>4, <1>5, <1>6

\* Graphs of collections that have run, with as many requests in the same stage
\* of graphs with as many stages, as those of one pattern or of super-nodes
\* have, that are not each other with the requests of the stages reordered.
Patterned ==
    \A g, h \in Graphs :
      /\ g.nodes \in Seq(Seq(RunNode)) /\ g.nodes # <<>>
      /\ \A i \in DOMAIN g.nodes : g.nodes[i] # <<>>
      /\ Len(g.nodes) = Len(h.nodes) =>
           \A i \in DOMAIN g.nodes : Len(g.nodes[i]) = Len(h.nodes[i])
      /\ /\ Len(g.nodes) = Len(h.nodes)
         /\ \A i \in DOMAIN g.nodes : \E p \in Orders(DOMAIN g.nodes[i]) :
              \A j \in DOMAIN g.nodes[i] : h.nodes[i][p[j]] = g.nodes[i][j]
         => g = h

\* Such graphs are closest to themselves: what EveryQueryFindsAMatch and
\* SearchFindsTheClosest assume of the graphs.  In general it is not so, since a
\* stage is as close to one that has all its requests and more
\* (similarity.py:586-636).
THEOREM PatternedGraphsAreToldApart == Patterned => ToldApart
<1> SUFFICES ASSUME Patterned, NEW g \in Graphs, NEW h \in Graphs,
                    Distance(g, h) >= Distance(g, g)
             PROVE  g = h
  BY DEF ToldApart
<1> DEFINE D == DOMAIN g.nodes
           v == StageScores(g, h)
           w == StageScores(g, g)
<1>1. /\ IsGraph(g) /\ IsGraph(h)
      /\ g.nodes \in Seq(Seq(RunNode)) /\ h.nodes \in Seq(Seq(RunNode))
      /\ g.nodes # <<>>
  BY ClusteringAssumption DEF Patterned
<1>2. D = 1..Len(g.nodes) /\ Len(g.nodes) \in Nat /\ IsFiniteSet(D) /\ 1 \in D
  <2>1. D = 1..Len(g.nodes) /\ Len(g.nodes) \in Nat /\ Len(g.nodes) # 0
    BY <1>1, LenProperties, EmptySeq
  <2>2. IsFiniteSet(D)
    BY <1>1, LastIndex
  <2> QED
    BY <2>1, <2>2
<1>3. /\ Distance(g, h) = IF Len(g.nodes) # Len(h.nodes) THEN 0 ELSE Total(v)
      /\ Distance(g, g) = Total(w)
  BY <1>1, DistanceType, GraphDistanceType
<1>4. ASSUME NEW i \in D
      PROVE  g.nodes[i] \in Seq(RunNode) /\ g.nodes[i] # <<>>
  BY <1>1, <1>2, ElementOfSeq DEF Patterned
<1>5. ASSUME NEW i \in D PROVE w[i] \in Nat /\ w[i] > 0
  <2>1. PaddedSimilarity(g.nodes[i], g.nodes[i]) \in Int
        /\ PaddedSimilarity(g.nodes[i], g.nodes[i]) > 0
    BY <1>4, PaddedWithItself
  <2> QED
    BY <2>1 DEF StageScores
<1>6. Total(w) = Sum(w, D)
  <2>1. w \in Seq(Int)
    BY <1>1, StageScoresType
  <2>2. DOMAIN w = D
    BY DEF StageScores
  <2> HIDE DEF D, w
  <2> QED
    BY <2>1, <2>2, TotalType
<1> HIDE DEF D, v, w
<1>7. Sum(w, D) > 0
  <2>1. Sum(w, D) = w[1] + Sum(w, D \ {1})
    <3>1. 1 \in D /\ \A x \in D : w[x] \in Int
      BY <1>2, <1>5
    <3> QED
      BY <1>2, <3>1, SumTakes
  <2>2. D \ {1} \subseteq D
    OBVIOUS
  <2>3. Sum(w, D \ {1}) \in Nat
    BY <1>2, <1>5, <2>2, SumOfNaturals
  <2> QED
    BY <1>2, <1>5, <2>1, <2>3
<1>8. Sum(w, D) \in Int
  BY <1>2, <1>5, SumType
<1>9. Len(g.nodes) = Len(h.nodes)
  BY <1>3, <1>6, <1>7, <1>8
<1>10. ASSUME NEW i \in D
       PROVE  /\ v[i] \in Int /\ v[i] <= w[i]
              /\ v[i] >= w[i] => \E p \in Orders(DOMAIN g.nodes[i]) :
                   \A j \in DOMAIN g.nodes[i] : h.nodes[i][p[j]] = g.nodes[i][j]
  <2>1. h.nodes[i] \in Seq(RunNode) /\ Len(g.nodes[i]) = Len(h.nodes[i])
    BY <1>1, <1>2, <1>9, ElementOfSeq DEF Patterned, D
  <2>2. /\ v[i] = PaddedSimilarity(g.nodes[i], h.nodes[i])
        /\ w[i] = PaddedSimilarity(g.nodes[i], g.nodes[i])
    BY DEF v, w, D, StageScores
  <2> DEFINE q == g.nodes[i]
             t == h.nodes[i]
  <2>3. q \in Seq(RunNode) /\ t \in Seq(RunNode) /\ Len(q) = Len(t) /\ q # <<>>
    BY <1>4, <2>1
  <2> HIDE DEF q, t
  <2>4. /\ PaddedSimilarity(q, t) \in Int
        /\ PaddedSimilarity(q, t) <= PaddedSimilarity(q, q)
        /\ PaddedSimilarity(q, t) >= PaddedSimilarity(q, q) =>
             \E p \in Orders(DOMAIN q) : \A j \in DOMAIN q : t[p[j]] = q[j]
    BY <2>3, PaddedWithItself
  <2> HIDE DEF v, w
  <2> QED
    BY <2>2, <2>4 DEF q, t
<1>11. Total(v) = Sum(v, D)
  <2>1. v \in Seq(Int)
    BY <1>1, <1>9, StageScoresType DEF v
  <2>2. DOMAIN v = D
    BY DEF StageScores, v, D
  <2> QED
    BY <2>1, <2>2, TotalType
<1>12. Sum(v, D) >= Sum(w, D)
  BY <1>3, <1>6, <1>9, <1>11
<1>13. \A i \in D : v[i] = w[i]
  BY <1>2, <1>5, <1>10, <1>12, SumsTie
<1>14. \A i \in D : \E p \in Orders(DOMAIN g.nodes[i]) :
         \A j \in DOMAIN g.nodes[i] : h.nodes[i][p[j]] = g.nodes[i][j]
  BY <1>5, <1>10, <1>13
<1> QED
  BY <1>9, <1>14 DEF Patterned, D

-----------------------------------------------------------------------------
(* The stages of MCGraphSimilarity.                                        *)

StagesTypeInv ==
    /\ query \in Seq(Nodes) /\ Len(query) <= MaxNodes
    /\ target \in Seq(Nodes) /\ Len(target) <= MaxNodes

LEMMA StagesTypeInvHolds == StagesSpec => []StagesTypeInv
<1>1. StagesInit => StagesTypeInv
  BY StagesAssumption, EmptySeq DEF StagesInit, StagesTypeInv
<1>2. ASSUME StagesTypeInv, [StagesNext]_stages PROVE StagesTypeInv'
  <2>1. CASE UNCHANGED stages
    BY <1>2, <2>1 DEF StagesTypeInv, stages
  <2>2. ASSUME NEW n \in Nodes, AddQuery(n) PROVE StagesTypeInv'
    <3>1. /\ query' \in Seq(Nodes) /\ Len(query') = Len(query) + 1
          /\ UNCHANGED target /\ Len(query) < MaxNodes
      BY <1>2, <2>2, AppendProperties DEF AddQuery, StagesTypeInv
    <3>2. Len(query) \in Nat
      BY <1>2, LenProperties DEF StagesTypeInv
    <3> QED
      BY <1>2, <3>1, <3>2, StagesAssumption DEF StagesTypeInv
  <2>3. ASSUME NEW n \in Nodes, AddTarget(n) PROVE StagesTypeInv'
    <3>1. /\ target' \in Seq(Nodes) /\ Len(target') = Len(target) + 1
          /\ UNCHANGED query /\ Len(target) < MaxNodes
      BY <1>2, <2>3, AppendProperties DEF AddTarget, StagesTypeInv
    <3>2. Len(target) \in Nat
      BY <1>2, LenProperties DEF StagesTypeInv
    <3> QED
      BY <1>2, <3>1, <3>2, StagesAssumption DEF StagesTypeInv
  <2> QED
    BY <1>2, <2>1, <2>2, <2>3 DEF StagesNext
<1> QED
  BY <1>1, <1>2, PTL DEF StagesSpec

LEMMA StagesHaveRun ==
    StagesTypeInv => query \in Seq(RunNode) /\ target \in Seq(RunNode)
<1>1. Nodes \subseteq RunNode
  BY StagesAssumption DEF Nodes, RunNode
<1> QED
  BY <1>1 DEF StagesTypeInv

\* Neither the order in which the requests of a stage complete nor which of two
\* stages is the query changes how close they are: for stages of any nodes that
\* find_best_matching_similarity matches by trying all permutations
\* (similarity.py:455-485, 586-636).
THEOREM CompletionOrderIsIrrelevant ==
    ASSUME MaxNodes <= MaxPermuted
    PROVE  StagesSpec => []OrderIsIrrelevant
<1>1. ASSUME StagesTypeInv PROVE OrderIsIrrelevant
  <2> SUFFICES ASSUME query # <<>>, target # <<>>,
                      NEW p \in Bijection(DOMAIN query, DOMAIN query)
               PROVE  GraphDistance(Graph([i \in DOMAIN query |-> query[p[i]]]),
                                    Graph(target))
                        = GraphDistance(Graph(target), Graph(query))
    BY DEF OrderIsIrrelevant
  <2> DEFINE z == Reordered(query, p)
  <2>1. SmallStage(query) /\ SmallStage(target)
    <3>1. Len(query) \in Nat /\ Len(target) \in Nat
      BY <1>1, LenProperties DEF StagesTypeInv
    <3> QED
      BY <1>1, <3>1, StagesHaveRun, StagesAssumption, SimilarityAssumption
         DEF SmallStage, StagesTypeInv
  <2>2. p \in Orders(DOMAIN query)
    BY DEF Orders
  <2>3. PaddedSimilarity(z, target) = PaddedSimilarity(target, query)
    <3>1. PaddedSimilarity(z, target) = PaddedSimilarity(query, target)
      BY <2>1, <2>2, PaddedIgnoresOrder
    <3>2. PaddedSimilarity(query, target) = PaddedSimilarity(target, query)
      BY <2>1, PaddedIsSymmetric
    <3> QED
      BY <3>1, <3>2
  <2> HIDE DEF z
  <2>4. /\ Graph(z).nodes = <<z>> /\ Graph(target).nodes = <<target>>
        /\ Graph(query).nodes = <<query>>
    BY DEF Graph
  <2>5. GraphDistance(Graph(z), Graph(target))
          = GraphDistance(Graph(target), Graph(query))
    BY <2>3, <2>4, DistanceIsOfStages
  <2> QED
    BY <2>5 DEF z, Reordered
<1> QED
  BY <1>1, StagesTypeInvHolds, PTL

\* The greedy matching of the large stages is one of the matchings, and so never
\* better than the best, and it recognises the stage that it has seen already:
\* for stages of any number of any nodes (similarity.py:488-523).
THEOREM GreedyFindsAMatching == StagesSpec => []GreedyIsMatching
<1>1. ASSUME StagesTypeInv PROVE GreedyIsMatching
  <2>1. query \in Seq(RunNode) /\ target \in Seq(RunNode)
    BY <1>1, StagesHaveRun
  <2>2. query \in Seq(Node) /\ target \in Seq(Node)
    BY <2>1 DEF RunNode, Node
  <2>3. Len(query) = Len(target) =>
          GreedySimilarity(query, target) <= PermutedSimilarity(query, target)
    BY <2>2, GreedyIsBounded
  <2> DEFINE D == DOMAIN query
             p == [i \in D |-> Len(query) - i + 1]
  <2>4. D = 1..Len(query) /\ Len(query) \in Nat
    BY <2>1, LenProperties
  <2>5. \A i \in D : p[i] = Len(query) - i + 1 /\ p[i] \in D /\ p[p[i]] = i
    BY <2>4
  <2>6. p \in [D -> D]
    BY <2>5
  <2> HIDE DEF p, D
  <2>7. p \in Orders(D)
    <3>1. \A i, j \in D : p[i] = p[j] => i = j
      BY <2>5
    <3>2. \A j \in D : \E i \in D : p[i] = j
      BY <2>5
    <3> QED
      BY <2>6, <3>1, <3>2, Fun_IsBij DEF Orders
  <2>8. Reverse(query) = Reordered(query, p)
    BY <2>4, <2>5 DEF Reverse, Reordered, D
  <2>9. GreedySimilarity(query, Reordered(query, p)) = PermutedSimilarity(query, query)
    BY <2>1, <2>7, GreedyFindsTheSame DEF D
  <2> QED
    BY <2>3, <2>8, <2>9 DEF GreedyIsMatching
<1> QED
  BY <1>1, StagesTypeInvHolds, PTL

-----------------------------------------------------------------------------
(* The collection of MCGraphSimilarity, learned from its completions.      *)

\* A request of a collection and the entry of its completion.
ShortNodes == {<<n[1], n[2] - Least>> : n \in Nodes}
Arrival(n) == [node |-> n, out |-> n[2]]
Arrivals == {Arrival(n) : n \in ShortNodes}
Arrived(nodes) == [i \in DOMAIN nodes |-> Arrival(nodes[i])]

\* What the structure of the collection may be like.
Structures ==
    [app : {"deepresearch"}, pattern : {<<Len(query), Len(target)>>}, num : {2},
     done : Seq(Seq(Arrivals)), current : Seq(Arrivals), times : Seq(Nat),
     finished : BOOLEAN]

AddNode(s, n) == Learned!AddLength(s, Arrival(n), 1)
AddNodes(s, nodes) == FoldLeft(LAMBDA x, n : AddNode(x, n), s, nodes)
EmptyStructure ==
    Learned!NewStructure("deepresearch", <<Len(query), Len(target)>>, 2)

LEMMA CompletedIsFolded ==
    Completed = AddNodes(AddNodes(EmptyStructure, Shortened(query)), Shortened(target))
BY DEF Completed, AddNodes, AddNode, Arrival, EmptyStructure

LEMMA AddNodeType ==
    ASSUME NEW s \in Structures, NEW n \in ShortNodes
    PROVE  AddNode(s, n) \in Structures
<1> DEFINE current == Append(s.current, Arrival(n))
<1>1. current \in Seq(Arrivals)
  <2>1. s.current \in Seq(Arrivals) /\ Arrival(n) \in Arrivals
    BY DEF Structures, Arrivals
  <2> QED
    BY <2>1, AppendProperties
<1>2. Append(s.done, current) \in Seq(Seq(Arrivals))
  <2>1. s.done \in Seq(Seq(Arrivals))
    BY DEF Structures
  <2> HIDE DEF current
  <2> QED
    BY <1>1, <2>1, AppendProperties
<1>3. Append(s.times, 1) \in Seq(Nat)
  <2>1. s.times \in Seq(Nat)
    BY DEF Structures
  <2> QED
    BY <2>1, AppendProperties
<1>4. \/ AddNode(s, n) = s
      \/ \E last \in BOOLEAN :
           AddNode(s, n) = [s EXCEPT !.done = Append(@, current), !.current = <<>>,
                                     !.times = Append(@, 1), !.finished = last]
      \/ AddNode(s, n) = [s EXCEPT !.current = current]
  <2>1. s.finished \in BOOLEAN
    BY DEF Structures
  <2> DEFINE last == s.finished \/ Len(s.done) + 1 >= s.num
  <2>2. last \in BOOLEAN
    BY <2>1
  <2> QED
    BY <2>2 DEF AddNode, Learned!AddLength
<1> HIDE DEF current
<1>5. <<>> \in Seq(Arrivals)
  BY EmptySeq
<1> QED
  BY <1>1, <1>2, <1>3, <1>4, <1>5 DEF Structures

\* How the completions of a stage go into a structure: fed[k] is what it has
\* come to after k of them.
IsFed(fed, s, nodes) ==
    /\ AddNodes(s, nodes) = fed[Len(nodes)]
    /\ fed[0] = s
    /\ \A k \in 0..Len(nodes) : fed[k] \in Structures
    /\ \A k \in 1..Len(nodes) : fed[k] = AddNode(fed[k - 1], nodes[k])

LEMMA StageFeeds ==
    ASSUME NEW s \in Structures, NEW nodes \in Seq(ShortNodes)
    PROVE  \E fed : IsFed(fed, s, nodes)
<1> DEFINE D == DOMAIN nodes
           n == Len(nodes)
           Folds(f) == f = [T \in SUBSET D |->
                              IF T = {} THEN s
                              ELSE AddNode(f[T \ {Max(T)}], nodes[Max(T)])]
           F == CHOOSE f : Folds(f)
           step == [x \in Structures \X D |-> AddNode(x[1], nodes[x[2]])]
<1>1. AddNodes(s, nodes) = F[D]
  BY DEF AddNodes, FoldLeft, MapThenFoldSet
<1>2. /\ n \in Nat /\ D = 1..n
      /\ \A i \in D : nodes[i] \in ShortNodes
      /\ \A T \in SUBSET D : T # {} => Max(T) \in T
  <2>1. n \in Nat /\ D = 1..n
    BY LenProperties
  <2> QED
    BY <2>1, ElementOfSeq, LastIndex
<1>3. ASSUME NEW x \in Structures, NEW i \in D
      PROVE  /\ step[<<x, i>>] = AddNode(x, nodes[i])
             /\ step[<<x, i>>] \in Structures
  <2>1. step[<<x, i>>] = AddNode(x, nodes[i])
    OBVIOUS
  <2>2. AddNode(x, nodes[i]) \in Structures
    BY <1>2, AddNodeType
  <2> QED
    BY <2>1, <2>2
<1>4. s \in Structures
  OBVIOUS
<1> HIDE DEF step
<1>5. PICK h : /\ h = [T \in SUBSET D |->
                         IF T = {} THEN s ELSE step[<<h[T \ {Max(T)}], Max(T)>>]]
               /\ \A T \in SUBSET D : h[T] \in Structures
  <2>1. \A x \in Structures, i \in DOMAIN nodes : step[<<x, i>>] \in Structures
    BY <1>3
  <2> HIDE DEF D
  <2>2. \E f : /\ IsListFold(f, nodes, s, step)
              /\ \A T \in SUBSET DOMAIN nodes : f[T] \in Structures
    BY <1>4, <2>1, FoldOfList, Zenon
  <2> QED
    BY <2>2 DEF D, IsListFold
<1>6. Folds(h)
  <2>1. ASSUME NEW T \in SUBSET D
        PROVE  h[T] = IF T = {} THEN s
                      ELSE AddNode(h[T \ {Max(T)}], nodes[Max(T)])
    <3>1. CASE T = {}
      BY <1>5, <3>1
    <3>2. CASE T # {}
      <4>1. Max(T) \in D /\ h[T \ {Max(T)}] \in Structures
        BY <1>2, <1>5, <3>2
      <4>2. h[T] = step[<<h[T \ {Max(T)}], Max(T)>>]
        BY <1>5, <3>2
      <4> QED
        BY <1>3, <3>2, <4>1, <4>2, Zenon
    <3> QED
      BY <3>1, <3>2
  <2>2. h = [T \in SUBSET D |-> h[T]]
    BY <1>5
  <2> QED
    BY <2>1, <2>2, Zenon
<1>7. Folds(F)
  <2> HIDE DEF Folds
  <2> QED
    BY <1>6
<1> HIDE DEF F
<1>8. /\ F[{}] = s
      /\ \A T \in SUBSET D : T # {} =>
           F[T] = AddNode(F[T \ {Max(T)}], nodes[Max(T)])
  BY <1>7
<1>9. \A T \in SUBSET D : F[T] \in Structures
  <2> DEFINE Good == {T \in SUBSET D : F[T] \in Structures}
  <2>1. ASSUME NEW T \in SUBSET D, \A U \in SUBSET T : U # T => U \in Good
        PROVE  T \in Good
    <3>1. CASE T = {}
      BY <1>4, <1>8, <3>1
    <3>2. CASE T # {}
      <4>1. Max(T) \in T /\ F[T] = AddNode(F[T \ {Max(T)}], nodes[Max(T)])
        BY <1>2, <1>8, <3>2
      <4>2. F[T \ {Max(T)}] \in Structures
        BY <2>1, <4>1
      <4>3. nodes[Max(T)] \in ShortNodes
        BY <1>2, <4>1
      <4>4. AddNode(F[T \ {Max(T)}], nodes[Max(T)]) \in Structures
        BY <4>2, <4>3, AddNodeType
      <4> QED
        BY <4>1, <4>4
    <3> QED
      BY <3>1, <3>2
  <2>2. IsFiniteSet(D)
    BY LastIndex
  <2> HIDE DEF Good, D
  <2>3. \A T \in SUBSET D : T \in Good
    BY <2>1, <2>2, SubsetInduction
  <2> QED
    BY <2>3 DEF Good
<1> DEFINE fed == [k \in 0..n |-> F[1..k]]
<1>10. ASSUME NEW k \in 1..n
       PROVE  /\ 1..k \in SUBSET D /\ 1..k # {} /\ Max(1..k) = k
              /\ (1..k) \ {k} = 1..(k - 1)
  <2>1. 1..k \in SUBSET D /\ k \in 1..k /\ \A x \in 1..k : k >= x
    BY <1>2
  <2>2. Max(1..k) \in 1..k /\ \A x \in 1..k : Max(1..k) >= x
    BY <2>1 DEF Max
  <2>3. Max(1..k) = k
    BY <2>1, <2>2
  <2>4. (1..k) \ {k} = 1..(k - 1)
    <3> HIDE DEF F, D, n
    <3> QED
      BY <1>2
  <2> QED
    BY <2>1, <2>3, <2>4
<1>11. ASSUME NEW k \in 1..n
       PROVE  F[1..k] = AddNode(F[1..(k - 1)], nodes[k])
  BY <1>8, <1>10
<1>12. fed[0] = s
  <2>1. 1..0 = {} /\ 0 \in 0..n
    BY <1>2
  <2> QED
    BY <1>8, <2>1
<1>13. \A k \in 1..n : fed[k] = AddNode(fed[k - 1], nodes[k])
  BY <1>2, <1>11
<1>14. \A k \in 0..n : fed[k] \in Structures
  <2>1. \A k \in 0..n : 1..k \in SUBSET D
    BY <1>2
  <2> QED
    BY <1>9, <2>1
<1>15. fed[n] = F[D]
  BY <1>2
<1> HIDE DEF fed
<1>16. IsFed(fed, s, nodes)
  BY <1>1, <1>12, <1>13, <1>14, <1>15 DEF IsFed
<1> QED
  BY <1>16

\* A list that ends with what is appended to its beginning.
LEMMA PrefixGrows ==
    ASSUME NEW S, NEW seq \in Seq(S), NEW k \in 1..Len(seq)
    PROVE  Append([i \in 1..(k - 1) |-> seq[i]], seq[k]) = [i \in 1..k |-> seq[i]]
<1> DEFINE front == [i \in 1..(k - 1) |-> seq[i]]
           next == [i \in 1..k |-> seq[i]]
<1>1. /\ Len(seq) \in Nat /\ k \in Int /\ k >= 1
      /\ \A i \in 1..Len(seq) : seq[i] \in S
  <2>1. Len(seq) \in Nat /\ DOMAIN seq = 1..Len(seq)
    BY LenProperties
  <2> QED
    BY <2>1, ElementOfSeq
<1>2. front \in Seq(S) /\ Len(front) = k - 1
  <2>1. \A i \in 1..(k - 1) : seq[i] \in S
    BY <1>1
  <2> QED
    BY <1>1, <2>1, IsASeq, LenProperties
<1>3. next \in Seq(S) /\ Len(next) = k
  <2>1. \A i \in 1..k : seq[i] \in S
    BY <1>1
  <2> QED
    BY <1>1, <2>1, IsASeq, LenProperties
<1>4. seq[k] \in S
  BY <1>1
<1>5. /\ Append(front, seq[k]) \in Seq(S)
      /\ Len(Append(front, seq[k])) = k
      /\ \A i \in 1..(k - 1) : Append(front, seq[k])[i] = front[i]
      /\ Append(front, seq[k])[k] = seq[k]
  <2> HIDE DEF front
  <2> QED
    BY <1>1, <1>2, <1>4, AppendProperties
<1>6. \A i \in 1..k : Append(front, seq[k])[i] = next[i]
  <2>1. \A i \in 1..(k - 1) : front[i] = seq[i]
    OBVIOUS
  <2>2. \A i \in 1..k : next[i] = seq[i]
    OBVIOUS
  <2>3. \A i \in 1..k : i = k \/ i \in 1..(k - 1)
    BY <1>1
  <2> HIDE DEF front, next
  <2> QED
    BY <1>5, <2>1, <2>2, <2>3
<1> HIDE DEF next
<1> DEFINE longer == Append(front, seq[k])
<1>7. longer = next
  <2>1. longer \in Seq(S) /\ Len(longer) = Len(next) /\ Len(next) = k
        /\ \A i \in 1..k : longer[i] = next[i]
    BY <1>3, <1>5, <1>6
  <2> HIDE DEF longer
  <2> QED
    BY <1>3, <2>1, SeqEqual
<1> QED
  BY <1>7 DEF next

\* Prefix(nodes, k): the entries of the first k completions of a stage.
Prefix(nodes, k) == [i \in 1..k |-> Arrived(nodes)[i]]

\* A structure that has a stage more.
WithStage(s, stage) ==
    [s EXCEPT !.done = Append(@, stage), !.times = Append(@, 1),
              !.finished = Len(s.done) + 1 >= 2]

LEMMA ArrivedType ==
    ASSUME NEW nodes \in Seq(ShortNodes)
    PROVE  /\ Arrived(nodes) \in Seq(Arrivals)
           /\ Len(Arrived(nodes)) = Len(nodes)
           /\ Len(nodes) \in Nat /\ DOMAIN nodes = 1..Len(nodes)
           /\ \A i \in 1..Len(nodes) : /\ nodes[i] \in ShortNodes
                                       /\ Arrived(nodes)[i] = Arrival(nodes[i])
           /\ Prefix(nodes, 0) = <<>>
           /\ Prefix(nodes, Len(nodes)) = Arrived(nodes)
<1>1. Len(nodes) \in Nat /\ DOMAIN nodes = 1..Len(nodes)
  BY LenProperties
<1>2. \A i \in 1..Len(nodes) : nodes[i] \in ShortNodes
  BY <1>1, ElementOfSeq
<1>3. Arrived(nodes) = [i \in 1..Len(nodes) |-> Arrival(nodes[i])]
  BY <1>1 DEF Arrived
<1>4. \A i \in 1..Len(nodes) : Arrival(nodes[i]) \in Arrivals
  BY <1>2 DEF Arrivals
<1>5. Arrived(nodes) \in Seq(Arrivals) /\ Len(Arrived(nodes)) = Len(nodes)
  BY <1>1, <1>3, <1>4, IsASeq, LenProperties
<1>6. Prefix(nodes, Len(nodes)) = Arrived(nodes)
  BY <1>1, <1>3 DEF Prefix
<1>7. Prefix(nodes, 0) = <<>>
  <2>1. 1..0 = {}
    OBVIOUS
  <2> QED
    BY <2>1, EmptySeq DEF Prefix
<1> QED
  BY <1>1, <1>2, <1>3, <1>5, <1>6, <1>7

\* The completions of a stage end it, and not before the last.
LEMMA StageCompletes ==
    ASSUME NEW s \in Structures, NEW nodes \in Seq(ShortNodes), nodes # <<>>,
           s.current = <<>>, ~s.finished, Learned!StageSize(s) = Len(nodes)
    PROVE  AddNodes(s, nodes) = WithStage(s, Arrived(nodes))
<1> DEFINE n == Len(nodes)
           last == n - 1
           At(k) == [s EXCEPT !.current = Prefix(nodes, k)]
<1>1. n \in Nat /\ n >= 1 /\ last \in Nat
  <2>1. n \in Nat /\ n # 0
    BY LenProperties, EmptySeq
  <2> QED
    BY <2>1
<1>2. PICK fed : IsFed(fed, s, nodes)
  BY StageFeeds
<1>3. ASSUME NEW k \in 1..n
      PROVE  /\ Append(Prefix(nodes, k - 1), Arrival(nodes[k])) = Prefix(nodes, k)
             /\ Len(Prefix(nodes, k)) = k
  <2>1. /\ Arrived(nodes) \in Seq(Arrivals)
        /\ Len(Arrived(nodes)) = n
        /\ Arrived(nodes)[k] = Arrival(nodes[k])
        /\ \A i \in 1..n : Arrived(nodes)[i] \in Arrivals
    BY ArrivedType, ElementOfSeq
  <2>2. Append(Prefix(nodes, k - 1), Arrived(nodes)[k]) = Prefix(nodes, k)
    BY <2>1, PrefixGrows DEF Prefix
  <2>3. Len(Prefix(nodes, k)) = k
    <3>1. \A i \in 1..k : Arrived(nodes)[i] \in Arrivals
      BY <1>1, <2>1
    <3> QED
      BY <1>1, <3>1, IsASeq, LenProperties DEF Prefix
  <2> QED
    BY <2>1, <2>2, <2>3
<1>4. s = [s EXCEPT !.current = s.current]
  BY DEF Structures
<1>5. ASSUME NEW k \in 1..n, fed[k - 1] = At(k - 1)
      PROVE  fed[k] = IF k = n THEN WithStage(s, Arrived(nodes)) ELSE At(k)
  <2> DEFINE t == fed[k - 1]
  <2>1. fed[k] = AddNode(t, nodes[k])
    BY <1>2 DEF IsFed
  <2>2. /\ t.current = Prefix(nodes, k - 1) /\ t.app = s.app /\ t.num = 2
        /\ t.done = s.done /\ t.times = s.times /\ t.pattern = s.pattern
        /\ t.finished = FALSE /\ s.app = "deepresearch"
    BY <1>5 DEF Structures
  <2>3. Learned!StageSize(t) = n
    BY <2>2 DEF Learned!StageSize
  <2>4. fed[k] = IF k = n
                 THEN [t EXCEPT !.done = Append(@, Prefix(nodes, k)), !.current = <<>>,
                                !.times = Append(@, 1),
                                !.finished = FALSE \/ Len(s.done) + 1 >= 2]
                 ELSE [t EXCEPT !.current = Prefix(nodes, k)]
    <3>1. ~(t.app = "deepresearch" /\ t.finished)
      BY <2>2
    <3>2. /\ Append(t.current, Arrival(nodes[k])) = Prefix(nodes, k)
          /\ Len(Prefix(nodes, k)) = k
      BY <1>3, <2>2
    <3> HIDE DEF t, n, At
    <3> QED
      BY <2>1, <2>2, <2>3, <3>1, <3>2 DEF AddNode, Learned!AddLength
  <2>5. t = At(k - 1)
    BY <1>5
  <2> HIDE DEF t
  <2>6. CASE k # n
    <3>1. [t EXCEPT !.current = Prefix(nodes, k)] = At(k)
      BY <2>5 DEF Structures
    <3> QED
      BY <2>4, <2>6, <3>1
  <2>7. CASE k = n
    <3>1. Prefix(nodes, k) = Arrived(nodes)
      BY <2>7, ArrivedType
    <3>2. fed[k] = [t EXCEPT !.done = Append(@, Arrived(nodes)), !.current = <<>>,
                             !.times = Append(@, 1),
                             !.finished = Len(s.done) + 1 >= 2]
      BY <2>4, <2>7, <3>1
    <3>3. fed[k] = [s EXCEPT !.done = Append(@, Arrived(nodes)), !.current = <<>>,
                             !.times = Append(@, 1),
                             !.finished = Len(s.done) + 1 >= 2]
      BY <2>5, <3>2 DEF Structures
    <3>4. fed[k] = WithStage(s, Arrived(nodes))
      BY <3>3 DEF WithStage, Structures
    <3> QED
      BY <2>7, <3>4
  <2> QED
    BY <2>6, <2>7
<1> DEFINE G == {k \in 0..last : fed[k] = At(k)}
<1>6. 0 \in G
  <2>1. fed[0] = s /\ Prefix(nodes, 0) = <<>>
    BY <1>2, ArrivedType DEF IsFed
  <2>2. At(0) = s
    BY <1>4, <2>1
  <2> QED
    BY <1>1, <2>1, <2>2
<1>7. ASSUME NEW k \in 1..last, k - 1 \in G PROVE k \in G
  <2>1. k \in 1..n /\ k # n /\ k \in 0..last
    BY <1>1
  <2> HIDE DEF At
  <2> QED
    BY <1>5, <1>7, <2>1
<1> HIDE DEF G, last
<1>8. \A k \in 0..last : k \in G
  BY <1>1, <1>6, <1>7, RoundInduction
<1>9. fed[last] = At(last)
  <2>1. last \in 0..last
    BY <1>1
  <2> QED
    BY <1>8, <2>1 DEF G
<1> HIDE DEF At
<1>10. fed[n] = WithStage(s, Arrived(nodes))
  <2>1. n \in 1..n /\ n - 1 = last
    BY <1>1 DEF last
  <2> QED
    BY <1>5, <1>9, <2>1
<1> QED
  BY <1>2, <1>10 DEF IsFed

LEMMA WithStageType ==
    ASSUME NEW s \in Structures, NEW stage \in Seq(Arrivals)
    PROVE  WithStage(s, stage) \in Structures
<1>1. s.done \in Seq(Seq(Arrivals)) /\ s.times \in Seq(Nat)
  BY DEF Structures
<1>2. Append(s.done, stage) \in Seq(Seq(Arrivals))
  BY <1>1, AppendProperties
<1>3. Append(s.times, 1) \in Seq(Nat)
  BY <1>1, AppendProperties
<1> DEFINE done == Append(s.done, stage)
           times == Append(s.times, 1)
           last == Len(s.done) + 1 >= 2
<1>4. WithStage(s, stage) = [s EXCEPT !.done = done, !.times = times, !.finished = last]
  BY DEF WithStage, Structures
<1>5. last \in BOOLEAN
  OBVIOUS
<1>6. done \in Seq(Seq(Arrivals)) /\ times \in Seq(Nat)
  BY <1>2, <1>3
<1> HIDE DEF done, times, last
<1> QED
  BY <1>4, <1>5, <1>6 DEF Structures

LEMMA TwoInARow ==
    ASSUME NEW a, NEW b
    PROVE  Append(<<a>>, b) = <<a, b>>
<1> DEFINE S == {a, b}
           one == <<a>>
           two == <<a, b>>
           more == Append(one, b)
<1>1. /\ one \in Seq(S) /\ Len(one) = 1 /\ one[1] = a
      /\ two \in Seq(S) /\ Len(two) = 2 /\ two[1] = a /\ two[2] = b
  OBVIOUS
<1>2. a \in S /\ b \in S
  OBVIOUS
<1> HIDE DEF one, two, more
<1>3. /\ Append(one, b) \in Seq(S)
      /\ Len(Append(one, b)) = Len(one) + 1
      /\ \A i \in 1..Len(one) : Append(one, b)[i] = one[i]
      /\ Append(one, b)[Len(one) + 1] = b
  <2> HIDE DEF S
  <2>1. one \in Seq(S) /\ b \in S
    BY <1>1, <1>2
  <2> QED
    BY <2>1, AppendProperties
<1>4. /\ more \in Seq(S) /\ Len(more) = 2
      /\ \A i \in 1..Len(more) : more[i] = two[i]
  <2>1. more \in Seq(S) /\ Len(more) = 2 /\ more[1] = a /\ more[2] = b
    BY <1>1, <1>3 DEF more
  <2> QED
    BY <1>1, <2>1
<1>5. more = two
  BY <1>1, <1>4, SeqEqual
<1> QED
  BY <1>5 DEF more, one, two

\* A collection of two stages, each learned from its completions.
LEMMA CollectionCompletes ==
    ASSUME StagesTypeInv, query # <<>>, target # <<>>
    PROVE  /\ Completed.done = <<Arrived(Shortened(query)), Arrived(Shortened(target))>>
           /\ Completed.app = "deepresearch"
<1> DEFINE q == Shortened(query)
           t == Shortened(target)
           s == WithStage(EmptyStructure, Arrived(q))
<1>1. /\ q \in Seq(ShortNodes) /\ Len(q) = Len(query) /\ q # <<>>
      /\ t \in Seq(ShortNodes) /\ Len(t) = Len(target) /\ t # <<>>
  <2>1. ASSUME NEW nodes \in Seq(Nodes), nodes # <<>>
        PROVE  /\ Shortened(nodes) \in Seq(ShortNodes)
               /\ Len(Shortened(nodes)) = Len(nodes)
               /\ Shortened(nodes) # <<>>
    <3>1. /\ Len(nodes) \in Nat /\ Len(nodes) # 0
          /\ DOMAIN nodes = 1..Len(nodes)
          /\ \A i \in 1..Len(nodes) : nodes[i] \in Nodes
      BY <2>1, LenProperties, ElementOfSeq, EmptySeq
    <3>2. \A i \in 1..Len(nodes) : <<nodes[i][1], nodes[i][2] - Least>> \in ShortNodes
      BY <3>1 DEF ShortNodes
    <3>3. Shortened(nodes) =
            [i \in 1..Len(nodes) |-> <<nodes[i][1], nodes[i][2] - Least>>]
      BY <3>1 DEF Shortened
    <3>4. /\ Shortened(nodes) \in Seq(ShortNodes)
          /\ Len(Shortened(nodes)) = Len(nodes)
      BY <3>1, <3>2, <3>3, IsASeq, LenProperties
    <3> QED
      BY <3>1, <3>4, EmptySeq
  <2> QED
    BY <2>1 DEF StagesTypeInv
<1>2. /\ EmptyStructure \in Structures
      /\ EmptyStructure.current = <<>> /\ ~EmptyStructure.finished
      /\ EmptyStructure.done = <<>>
      /\ Learned!StageSize(EmptyStructure) = Len(q)
  <2>1. EmptyStructure =
          [app |-> "deepresearch", pattern |-> <<Len(query), Len(target)>>, num |-> 2,
           done |-> <<>>, current |-> <<>>, times |-> <<>>, finished |-> FALSE]
    BY DEF EmptyStructure, Learned!NewStructure
  <2>2. /\ <<>> \in Seq(Arrivals) /\ <<>> \in Seq(Seq(Arrivals)) /\ <<>> \in Seq(Nat)
    BY EmptySeq
  <2>3. EmptyStructure \in Structures
    BY <2>1, <2>2 DEF Structures
  <2>4. Learned!StageSize(EmptyStructure) = Len(query)
    BY <2>1 DEF Learned!StageSize
  <2> QED
    BY <1>1, <2>1, <2>3, <2>4
<1> HIDE DEF q, t
<1>3. AddNodes(EmptyStructure, q) = s
  BY <1>1, <1>2, StageCompletes
<1>4. Arrived(q) \in Seq(Arrivals) /\ Arrived(t) \in Seq(Arrivals)
  BY <1>1, ArrivedType
<1>5. /\ s \in Structures /\ s.done = <<Arrived(q)>> /\ s.current = <<>> /\ ~s.finished
  <2>1. s \in Structures
    BY <1>2, <1>4, WithStageType
  <2>2. /\ s.done = Append(<<>>, Arrived(q)) /\ s.current = <<>>
        /\ s.finished = (0 + 1 >= 2)
    BY <1>2 DEF WithStage, Structures
  <2>3. ~(0 + 1 >= 2)
    OBVIOUS
  <2> HIDE DEF s
  <2> DEFINE a == Arrived(q)
  <2>4. Append(<<>>, a) = <<a>>
    <3> HIDE DEF a
    <3> QED
      OBVIOUS
  <2> QED
    BY <2>1, <2>2, <2>3, <2>4
<1> HIDE DEF s
<1>6. Learned!StageSize(s) = Len(t)
  BY <1>1, <1>5 DEF Learned!StageSize, Structures
<1>7. Completed = WithStage(s, Arrived(t))
  <2>1. AddNodes(s, t) = WithStage(s, Arrived(t))
    BY <1>1, <1>5, <1>6, StageCompletes
  <2> QED
    BY <1>3, <2>1, CompletedIsFolded DEF q, t
<1>8. Completed.done = Append(s.done, Arrived(t)) /\ Completed.app = "deepresearch"
  BY <1>5, <1>7 DEF WithStage, Structures
<1> DEFINE a == Arrived(q)
           b == Arrived(t)
<1>9. Append(<<a>>, b) = <<a, b>>
  BY TwoInARow
<1> QED
  BY <1>5, <1>8, <1>9 DEF q, t

\* The instance and the module fold in the same way.
LEMMA SameLargest ==
    ASSUME NEW s
    PROVE  Learned!MaxSeq(s) = LargestOf(s)
BY DEF Learned!MaxSeq, LargestOf, Learned!FoldLeft, FoldLeft,
       Learned!MapThenFoldSet, MapThenFoldSet, Learned!Max, Max

LEMMA SameTotal ==
    ASSUME NEW s
    PROVE  Learned!SumSeq(s) = Total(s)
BY DEF Learned!SumSeq, Total, Learned!FoldLeft, FoldLeft,
       Learned!MapThenFoldSet, MapThenFoldSet, Learned!Max, Max

\* Shortened outputs are lengths.
LEMMA ShortenedType ==
    ASSUME NEW nodes \in Seq(Nodes)
    PROVE  /\ [j \in DOMAIN Shortened(nodes) |-> Shortened(nodes)[j][2]] \in Seq(Nat)
           /\ DOMAIN Shortened(nodes) = DOMAIN nodes
<1>1. /\ Len(nodes) \in Nat /\ DOMAIN nodes = 1..Len(nodes)
      /\ \A j \in 1..Len(nodes) : nodes[j] \in Nodes
  BY LenProperties, ElementOfSeq
<1>2. ASSUME NEW j \in 1..Len(nodes)
      PROVE  nodes[j][2] - Least \in Nat
  <2> DEFINE n == nodes[j][2]
             Low == {m \in OutputLens : m <= n}
  <2>1. n \in OutputLens /\ OutputLens \subseteq Nat
    BY <1>1, StagesAssumption DEF Nodes
  <2> HIDE DEF n
  <2>2. Low \in SUBSET Int /\ n \in Low /\ IsFiniteSet(Low)
    <3>1. n \in Nat /\ \A m \in Low : m \in Nat /\ m <= n
      BY <2>1
    <3>2. n \in Low
      BY <2>1, <3>1
    <3> HIDE DEF Low
    <3>3. Low \subseteq 0..n /\ Low \in SUBSET Int
      BY <3>1
    <3>4. IsFiniteSet(0..n)
      BY <3>1, FS_Interval
    <3> QED
      BY <3>2, <3>3, <3>4, FS_Subset
  <2>3. HasExtremes(Low)
    <3> HIDE DEF Low
    <3> QED
      BY <2>2, ExtremesExist
  <2>4. PICK l \in Low : \A x \in Low : l <= x
    BY <2>3 DEF HasExtremes
  <2>5. l \in OutputLens /\ \A m \in OutputLens : l <= m
    BY <2>1, <2>4
  <2>6. Least \in OutputLens /\ \A m \in OutputLens : Least <= m
    BY <2>5 DEF Least
  <2>7. n - Least \in Nat
    BY <2>1, <2>6
  <2> QED
    BY <2>7 DEF n
<1>3. Shortened(nodes) = [j \in 1..Len(nodes) |-> <<nodes[j][1], nodes[j][2] - Least>>]
  BY <1>1 DEF Shortened
<1>4. [j \in DOMAIN Shortened(nodes) |-> Shortened(nodes)[j][2]]
        = [j \in 1..Len(nodes) |-> nodes[j][2] - Least]
  BY <1>3
<1>5. [j \in 1..Len(nodes) |-> nodes[j][2] - Least] \in Seq(Nat)
  BY <1>1, <1>2, IsASeq
<1> QED
  BY <1>1, <1>3, <1>4, <1>5

\* The largest of a list is its sum if no two of it are positive.
LEMMA LargestIsTotal ==
    ASSUME NEW s \in Seq(Nat),
           \A i, j \in DOMAIN s : i = j \/ s[i] = 0 \/ s[j] = 0
    PROVE  LargestOf(s) = Total(s) /\ Total(s) \in Nat
<1> DEFINE D == DOMAIN s
           Folds(f) == f = [T \in SUBSET D |->
                              IF T = {} THEN 0
                              ELSE IF f[T \ {Max(T)}] >= s[Max(T)] THEN f[T \ {Max(T)}]
                                   ELSE s[Max(T)]]
           F == CHOOSE f : Folds(f)
           Sums == [T \in SUBSET D |-> Sum(s, T)]
<1>1. LargestOf(s) = F[D]
  BY DEF LargestOf, FoldLeft, MapThenFoldSet
<1>2. /\ IsFiniteSet(D)
      /\ \A T \in SUBSET D : IsFiniteSet(T) /\ (T # {} => Max(T) \in T)
  BY LastIndex
<1>3. \A x \in D : s[x] \in Nat
  BY ElementOfSeq, LenProperties
<1>4. \A T \in SUBSET D : Sum(s, T) \in Nat
  BY <1>2, <1>3, SumOfNaturals
<1>5. ASSUME NEW T \in SUBSET D, NEW m \in T
      PROVE  /\ Sum(s, T) = IF Sum(s, T \ {m}) >= s[m] THEN Sum(s, T \ {m}) ELSE s[m]
             /\ T \ {m} \in SUBSET D /\ T \ {m} # T
  <2>1. Sum(s, T) = s[m] + Sum(s, T \ {m})
    <3>1. IsFiniteSet(T) /\ \A x \in T : s[x] \in Int
      BY <1>2, <1>3
    <3> QED
      BY <3>1, SumTakes
  <2>2. Sum(s, T \ {m}) \in Nat /\ s[m] \in Nat
    BY <1>3, <1>4
  <2>3. CASE s[m] = 0
    BY <2>1, <2>2, <2>3
  <2>4. CASE s[m] # 0
    <3>1. \A x \in T \ {m} : s[x] = 0 /\ s[x] \in Int
      BY <2>4
    <3>2. {} \subseteq T \ {m} /\ IsFiniteSet(T \ {m})
      BY <1>2
    <3>3. Sum(s, {}) = Sum(s, T \ {m})
      <4> DEFINE rest == T \ {m}
      <4>1. /\ \A x \in rest : s[x] \in Int
            /\ \A x \in rest \ {} : s[x] = 0
            /\ {} \subseteq rest /\ IsFiniteSet(rest)
        BY <3>1, <3>2
      <4> HIDE DEF rest
      <4>2. Sum(s, {}) = Sum(s, rest)
        BY <4>1, SumOfPart
      <4> QED
        BY <4>2 DEF rest
    <3>4. Sum(s, T \ {m}) = 0
      BY <3>3, SumOfNone
    <3> QED
      BY <2>1, <2>2, <2>4, <3>4
  <2> QED
    BY <2>3, <2>4
<1>6. Folds(Sums)
  <2>1. ASSUME NEW T \in SUBSET D
        PROVE  Sum(s, T) = IF T = {} THEN 0
                           ELSE IF Sums[T \ {Max(T)}] >= s[Max(T)]
                                THEN Sums[T \ {Max(T)}] ELSE s[Max(T)]
    <3>1. CASE T = {}
      BY <3>1, SumOfNone
    <3>2. CASE T # {}
      BY <1>2, <1>5, <3>2
    <3> QED
      BY <3>1, <3>2
  <2> QED
    BY <2>1, Zenon
<1>7. Folds(F)
  <2> HIDE DEF Folds, Sums
  <2> QED
    BY <1>6
<1> HIDE DEF F
<1> DEFINE Good == {T \in SUBSET D : F[T] = Sum(s, T)}
<1>8. ASSUME NEW T \in SUBSET D, \A U \in SUBSET T : U # T => U \in Good
      PROVE  T \in Good
  <2>1. CASE T = {}
    BY <1>7, <2>1, SumOfNone
  <2>2. CASE T # {}
    <3> DEFINE m == Max(T)
    <3>1. F[T] = IF F[T \ {m}] >= s[m] THEN F[T \ {m}] ELSE s[m]
      BY <1>7, <2>2
    <3>2. m \in T
      BY <1>2, <2>2
    <3> HIDE DEF m
    <3>3. F[T \ {m}] = Sum(s, T \ {m})
      BY <1>5, <1>8, <3>2
    <3>4. F[T] = Sum(s, T)
      BY <1>5, <3>1, <3>2, <3>3
    <3> QED
      BY <3>4
  <2> QED
    BY <2>1, <2>2
<1> HIDE DEF Good
<1>9. \A T \in SUBSET D : T \in Good
  <2>1. IsFiniteSet(D)
    BY <1>2
  <2> HIDE DEF D
  <2> QED
    BY <1>8, <2>1, SubsetInduction
<1>10. F[D] = Sum(s, D) /\ Sum(s, D) \in Nat
  BY <1>4, <1>9 DEF Good
<1>11. Total(s) = Sum(s, D)
  <2>1. s \in Seq(Int)
    <3>1. s \in [1..Len(s) -> Nat] /\ Len(s) \in Nat
      BY LenProperties
    <3>2. \A i \in 1..Len(s) : s[i] \in Int
      BY <3>1
    <3> QED
      BY <3>1, <3>2, SeqDef
  <2> QED
    BY <2>1, TotalType
<1> QED
  BY <1>1, <1>10, <1>11

\* The weight of a stage in a trace, with a node for each of its requests or
\* with one of their sums.
Weight(stage, allNode) ==
    LET outputs == [j \in DOMAIN stage |-> stage[j][2]]
    IN LargestOf(IF allNode THEN outputs ELSE <<Total(outputs)>>)

LEMMA TraceWeights ==
    ASSUME NEW q, NEW t, NEW allNode \in BOOLEAN
    PROVE  TraceGraph(<<q, t>>, allNode).times
             = LET most == <<Weight(q, allNode), Weight(t, allNode)>>
               IN IF Total(most) > 0 THEN most ELSE <<1, 1>>
<1> DEFINE trace == <<q, t>>
           Sums(requests) == <<Total([j \in DOMAIN requests |-> requests[j][1]]),
                               Total([j \in DOMAIN requests |-> requests[j][2]])>>
           nodes == [i \in DOMAIN trace |->
                       IF allNode THEN trace[i] ELSE <<Sums(trace[i])>>]
           most == [i \in DOMAIN trace |->
                      LargestOf([j \in DOMAIN nodes[i] |-> nodes[i][j][2]])]
           weights == <<Weight(q, allNode), Weight(t, allNode)>>
           flat == [i \in DOMAIN trace |-> 1]
<1>1. TraceGraph(trace, allNode).times = IF Total(most) > 0 THEN most ELSE flat
  BY DEF TraceGraph
<1>2. DOMAIN trace = 1..2 /\ trace[1] = q /\ trace[2] = t
  OBVIOUS
<1>3. ASSUME NEW i \in 1..2
      PROVE  most[i] = Weight(trace[i], allNode)
  <2> DEFINE stage == trace[i]
             outputs == [j \in DOMAIN stage |-> stage[j][2]]
             total == Total(outputs)
  <2>1. most[i] = LargestOf([j \in DOMAIN nodes[i] |-> nodes[i][j][2]])
    BY <1>2
  <2>2. CASE allNode
    <3>1. nodes[i] = stage
      BY <1>2, <2>2
    <3> QED
      BY <2>1, <2>2, <3>1 DEF Weight
  <2>3. CASE ~allNode
    <3>1. nodes[i] = <<Sums(stage)>>
      BY <1>2, <2>3
    <3>2. Sums(stage)[2] = total
      OBVIOUS
    <3> HIDE DEF stage, total, nodes, Sums
    <3>3. [j \in DOMAIN nodes[i] |-> nodes[i][j][2]] = <<total>>
      BY <3>1, <3>2
    <3>4. Weight(stage, allNode) = LargestOf(<<total>>)
      BY <2>3 DEF Weight, total
    <3> QED
      BY <2>1, <3>3, <3>4 DEF stage
  <2> QED
    BY <2>2, <2>3
<1>4. most = weights
  <2>1. most = [i \in 1..2 |-> Weight(trace[i], allNode)]
    <3>1. most = [i \in 1..2 |-> most[i]]
      BY <1>2
    <3> HIDE DEF most
    <3> QED
      BY <1>3, <3>1
  <2>2. weights = [i \in 1..2 |-> weights[i]]
    OBVIOUS
  <2>3. \A i \in 1..2 : weights[i] = Weight(trace[i], allNode)
    BY <1>2
  <2> HIDE DEF most, weights, trace
  <2> QED
    BY <2>1, <2>2, <2>3
<1>5. flat = <<1, 1>>
  BY <1>2
<1> HIDE DEF most, flat, trace, weights
<1>6. TraceGraph(trace, allNode).times = IF Total(weights) > 0 THEN weights ELSE <<1, 1>>
  BY <1>1, <1>4, <1>5
<1> QED
  BY <1>6 DEF trace, weights

LEMMA LearnedWeights ==
    ASSUME StagesTypeInv, query # <<>>, target # <<>>
    PROVE  Learned!ToGraph(Completed).times
             = LET most == <<Weight(Shortened(query), TRUE),
                             Weight(Shortened(target), TRUE)>>
               IN IF Total(most) > 0 THEN most ELSE <<1, 1>>
<1> DEFINE q == Shortened(query)
           t == Shortened(target)
           done == Completed.done
           most == [i \in DOMAIN done |-> Learned!MaxSeq(Learned!Outputs(done[i]))]
           weights == <<Weight(q, TRUE), Weight(t, TRUE)>>
           flat == [i \in 1..Len(done) |-> 1]
<1>1. done = <<Arrived(q), Arrived(t)>>
  BY CollectionCompletes
<1> HIDE DEF q, t
<1>2. Learned!ToGraph(Completed).times =
        IF Learned!SumSeq(most) > 0 THEN most ELSE flat
  <2>1. Learned!ToGraph(Completed).times =
          IF done = <<>> THEN Learned!Ones(Completed.num)
          ELSE IF Learned!SumSeq(most) > 0 THEN most
          ELSE Learned!Ones(Len(done))
    BY DEF Learned!ToGraph, Learned!StageWeights
  <2>2. done # <<>>
    BY <1>1
  <2> HIDE DEF most, done
  <2> QED
    BY <2>1, <2>2 DEF Learned!Ones
<1> HIDE DEF done
<1>3. ASSUME NEW nodes
      PROVE  Learned!MaxSeq(Learned!Outputs(Arrived(nodes))) = Weight(nodes, TRUE)
  <2>1. Learned!Outputs(Arrived(nodes)) = [j \in DOMAIN nodes |-> nodes[j][2]]
    BY DEF Learned!Outputs, Arrived, Arrival
  <2> QED
    BY <2>1, SameLargest DEF Weight
<1>4. /\ DOMAIN done = 1..2 /\ Len(done) = 2
      /\ done[1] = Arrived(q) /\ done[2] = Arrived(t)
  BY <1>1
<1>5. most = weights
  <2>1. weights = [i \in 1..2 |-> weights[i]] /\ weights[1] = Weight(q, TRUE)
        /\ weights[2] = Weight(t, TRUE)
    OBVIOUS
  <2> HIDE DEF weights
  <2>2. \A i \in 1..2 : Learned!MaxSeq(Learned!Outputs(done[i])) = weights[i]
    <3>1. /\ Learned!MaxSeq(Learned!Outputs(done[1])) = weights[1]
          /\ Learned!MaxSeq(Learned!Outputs(done[2])) = weights[2]
      BY <1>3, <1>4, <2>1, Zenon
    <3> QED
      BY <3>1
  <2> QED
    BY <1>4, <2>1, <2>2
<1>6. flat = <<1, 1>>
  BY <1>4
<1> HIDE DEF most, flat, weights
<1>7. Learned!ToGraph(Completed).times = IF Total(weights) > 0 THEN weights ELSE <<1, 1>>
  BY <1>2, <1>5, <1>6, SameTotal
<1> QED
  BY <1>7 DEF weights, q, t

\* Where only one request has an output, the sum is the largest.
LEMMA SameWeights ==
    ASSUME NEW nodes \in Seq(Nodes), OneOutput(Shortened(nodes))
    PROVE  Weight(Shortened(nodes), FALSE) = Weight(Shortened(nodes), TRUE)
<1> DEFINE outputs == [j \in DOMAIN Shortened(nodes) |-> Shortened(nodes)[j][2]]
           total == Total(outputs)
           one == <<total>>
<1>1. outputs \in Seq(Nat)
  BY ShortenedType
<1>2. \A i, j \in DOMAIN outputs : i = j \/ outputs[i] = 0 \/ outputs[j] = 0
  BY DEF OneOutput
<1>3. Weight(Shortened(nodes), TRUE) = LargestOf(outputs)
  BY DEF Weight
<1>4. Weight(Shortened(nodes), FALSE) = LargestOf(one)
  BY DEF Weight
<1> HIDE DEF outputs
<1>5. LargestOf(outputs) = total /\ total \in Nat
  BY <1>1, <1>2, LargestIsTotal
<1> HIDE DEF total
<1>6. /\ one \in Seq(Nat) /\ one \in Seq(Int) /\ DOMAIN one = {1} /\ one[1] = total
      /\ \A i, j \in DOMAIN one : i = j \/ one[i] = 0 \/ one[j] = 0
  BY <1>5
<1> HIDE DEF one
<1>7. LargestOf(one) = Total(one) /\ Total(one) = Sum(one, {1})
  BY <1>6, LargestIsTotal, TotalType
<1>8. Sum(one, {1}) = total
  <2>1. /\ \A x \in {1} : one[x] \in Int
        /\ {1} \ {1} = {} /\ one[1] + 0 = total
    BY <1>5, <1>6
  <2>2. Sum(one, {1}) = one[1] + Sum(one, {1} \ {1})
    BY <2>1, FS_Singleton, SumTakes
  <2> QED
    BY <2>1, <2>2, SumOfNone
<1> QED
  BY <1>3, <1>4, <1>5, <1>7, <1>8

\* A collection that is read from a trace with a node for each request weighs
\* its stages as the structure does that learned it, by output length, from the
\* completions of its requests, whatever their numbers and their lengths: the
\* completions of a stage end that stage and no other.  Read with a node for
\* each stage it does so if no stage has two requests with an output
\* (deepresearch_trace_reader.py:68-96, similarity.py:285-332).
THEOREM TracesAreLearned == StagesSpec => []TraceIsLearned
<1>1. ASSUME StagesTypeInv PROVE TraceIsLearned
  <2> DEFINE q == Shortened(query)
             t == Shortened(target)
             trace == <<q, t>>
             learned == Learned!ToGraph(Completed).times
  <2> SUFFICES ASSUME query # <<>>, target # <<>>
               PROVE  /\ TraceGraph(trace, TRUE).times = learned
                      /\ OneOutput(q) /\ OneOutput(t) =>
                           TraceGraph(trace, FALSE).times = learned
    BY DEF TraceIsLearned
  <2> DEFINE Weighed(allNode) ==
               LET most == <<Weight(q, allNode), Weight(t, allNode)>>
               IN IF Total(most) > 0 THEN most ELSE <<1, 1>>
  <2>1. learned = Weighed(TRUE)
    BY <1>1, LearnedWeights
  <2>2. ASSUME NEW allNode \in BOOLEAN
        PROVE  TraceGraph(trace, allNode).times = Weighed(allNode)
    <3> HIDE DEF q, t
    <3> QED
      BY TraceWeights
  <2>3. ASSUME OneOutput(q), OneOutput(t)
        PROVE  Weighed(FALSE) = Weighed(TRUE)
    <3>1. Weight(q, FALSE) = Weight(q, TRUE) /\ Weight(t, FALSE) = Weight(t, TRUE)
      BY <1>1, <2>3, SameWeights DEF StagesTypeInv
    <3> HIDE DEF q, t
    <3> QED
      BY <3>1
  <2> HIDE DEF q, t, trace, learned, Weighed
  <2> QED
    BY <2>1, <2>2, <2>3
<1> QED
  BY <1>1, StagesTypeInvHolds, PTL
=============================================================================
