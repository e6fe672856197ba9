----------------------------- MODULE FiniteSums -----------------------------
(***************************************************************************)
(* Sums of integers over a finite set: what MapThenSumSet computes, and    *)
(* how a sum changes with its summands.  The sum of the community modules  *)
(* takes its elements by CHOOSE; the lemmas show that the order does not   *)
(* matter.  And the least and the greatest of a finite set of integers,    *)
(* and the folds of the community modules over functions and lists.        *)
(*                                                                         *)
(* The library's induction theorems take the predicate as an operator.     *)
(* SubsetInduction takes the set of the subsets that have the property,    *)
(* which is first-order, and so can be used by the provers.                *)
(***************************************************************************)
EXTENDS Integers, SequencesExt, FiniteSetTheorems, FunctionTheorems,
        SequenceTheorems, WellFoundedInduction, TLAPS

\* The element that a sum takes first.
Pick(s) == CHOOSE x \in s : TRUE

\* f is the recursive function by which v is summed over the subsets of S.
IsSum(f, v, S) ==
    f = [s \in SUBSET S |-> IF s = {} THEN 0 ELSE v[Pick(s)] + f[s \ {Pick(s)}]]

Sum(v, S) == (CHOOSE f : IsSum(f, v, S))[S]

LEMMA PickIsMember ==
    ASSUME NEW s, s # {}
    PROVE  Pick(s) \in s
  BY DEF Pick

\* Induction over the subsets of a finite set.
LEMMA SubsetInduction ==
    ASSUME NEW S, IsFiniteSet(S), NEW Good,
           ASSUME NEW T \in SUBSET S,
                  \A U \in SUBSET T : U # T => U \in Good
           PROVE  T \in Good
    PROVE  \A T \in SUBSET S : T \in Good
<1> DEFINE Bad == {T \in SUBSET S : T \notin Good}
           R == StrictSubsetOrdering(S)
<1> SUFFICES ASSUME Bad # {} PROVE FALSE
  OBVIOUS
<1>1. IsWellFoundedOn(R, SUBSET S)
  <2>1. IsWellFoundedOn(R, FiniteSubsetsOf(S))
    BY FS_StrictSubsetOrderingWellFounded
  <2>2. FiniteSubsetsOf(S) = SUBSET S
    BY FS_FiniteSubsetsOfFinite
  <2> QED
    BY <2>1, <2>2
<1>2. Bad \subseteq SUBSET S
  OBVIOUS
<1>3. PICK T \in Bad : \A U \in Bad : ~(<<U, T>> \in R)
  <2> HIDE DEF R, Bad
  <2> QED
    BY <1>1, <1>2, WFMin
<1>4. ASSUME NEW U \in SUBSET T, U # T
      PROVE  U \in Good
  <2>1. <<U, T>> \in R
    BY <1>3, <1>4 DEF R, StrictSubsetOrdering
  <2> QED
    BY <1>3, <2>1
<1> QED
  BY <1>3, <1>4

\* Two sums of the same summands agree on the subsets that they share.
LEMMA SumsAgree ==
    ASSUME NEW S, IsFiniteSet(S), NEW T, S \subseteq T, NEW v, NEW w,
           \A x \in S : v[x] = w[x],
           NEW f, IsSum(f, v, S), NEW g, IsSum(g, w, T)
    PROVE  f[S] = g[S]
<1> DEFINE Good == {s \in SUBSET S : f[s] = g[s]}
<1>1. ASSUME NEW s \in SUBSET S, \A u \in SUBSET s : u # s => u \in Good
      PROVE  s \in Good
  <2>1. CASE s = {}
    BY <2>1 DEF IsSum
  <2>2. CASE s # {}
    <3> DEFINE p == Pick(s)
    <3>1. p \in s
      BY <2>2, PickIsMember
    <3>2. s \ {p} \in Good
      BY <1>1, <3>1
    <3>3. f[s] = v[p] + f[s \ {p}]
      BY <2>2 DEF IsSum
    <3>4. g[s] = w[p] + g[s \ {p}]
      BY <2>2 DEF IsSum
    <3> HIDE DEF p
    <3> QED
      BY <3>1, <3>2, <3>3, <3>4
  <2> QED
    BY <2>1, <2>2
<1> HIDE DEF Good
<1>2. \A s \in SUBSET S : s \in Good
  BY <1>1, SubsetInduction
<1> QED
  BY <1>2 DEF Good

\* There is a sum.
LEMMA SumExists ==
    ASSUME NEW S, IsFiniteSet(S), NEW v
    PROVE  \E f : IsSum(f, v, S)
<1> DEFINE G(T) == CHOOSE f : IsSum(f, v, T)
           Good == {T \in SUBSET S : \E f : IsSum(f, v, T)}
<1>1. ASSUME NEW T \in SUBSET S, \A U \in SUBSET T : U # T => U \in Good
      PROVE  T \in Good
  <2> DEFINE rest == T \ {Pick(T)}
             top == IF T = {} THEN 0 ELSE v[Pick(T)] + G(rest)[rest]
             f == [s \in SUBSET T |-> IF s = T THEN top ELSE G(s)[s]]
  <2>1. ASSUME NEW s \in SUBSET T, s # T
        PROVE  /\ IsSum(G(s), v, s) /\ f[s] = G(s)[s] /\ IsFiniteSet(s)
    BY <1>1, <2>1, FS_Subset
  <2> HIDE DEF f, G
  <2>2. ASSUME NEW s \in SUBSET T
        PROVE  f[s] = IF s = {} THEN 0 ELSE v[Pick(s)] + f[s \ {Pick(s)}]
    <3> DEFINE u == s \ {Pick(s)}
    <3>1. CASE s = {} /\ s # T
      BY <2>1, <3>1 DEF IsSum
    <3>2. CASE s # {} /\ s # T
      <4>1. Pick(s) \in s
        BY <3>2, PickIsMember
      <4>2. u \in SUBSET s /\ u \in SUBSET T /\ u # T
        BY <4>1, <3>2
      <4>3. G(s)[s] = v[Pick(s)] + G(s)[u]
        BY <2>1, <3>2 DEF IsSum
      <4>4. G(u)[u] = G(s)[u]
        BY <2>1, <3>2, <4>2, SumsAgree
      <4>5. f[s] = G(s)[s] /\ f[u] = G(u)[u]
        BY <2>1, <3>2, <4>2
      <4> QED
        BY <3>2, <4>3, <4>4, <4>5
    <3>3. CASE s = T
      <4>1. f[T] = top
        BY DEF f
      <4>2. T # {} => rest \in SUBSET T /\ rest # T
        BY PickIsMember
      <4>3. T # {} => f[rest] = G(rest)[rest]
        BY <2>1, <4>2
      <4> QED
        BY <3>3, <4>1, <4>3
    <3> QED
      BY <3>1, <3>2, <3>3
  <2>3. f = [s \in SUBSET T |-> f[s]]
    BY DEF f
  <2>4. IsSum(f, v, T)
    BY <2>2, <2>3, Zenon DEF IsSum
  <2> QED
    BY <2>4
<1> HIDE DEF Good
<1>2. \A T \in SUBSET S : T \in Good
  BY <1>1, SubsetInduction
<1> QED
  BY <1>2 DEF Good

LEMMA SumIsSum ==
    ASSUME NEW S, IsFiniteSet(S), NEW v
    PROVE  IsSum(CHOOSE f : IsSum(f, v, S), v, S)
  BY SumExists

\* Whatever function satisfies the recursion computes the sum.
LEMMA SumIsUnique ==
    ASSUME NEW S, IsFiniteSet(S), NEW v, NEW f, IsSum(f, v, S)
    PROVE  f[S] = Sum(v, S)
  BY SumIsSum, SumsAgree DEF Sum

\* The sum depends on the summands alone.
LEMMA SumOfEqual ==
    ASSUME NEW S, IsFiniteSet(S), NEW v, NEW w, \A x \in S : v[x] = w[x]
    PROVE  Sum(v, S) = Sum(w, S)
  BY SumIsSum, SumsAgree DEF Sum

LEMMA SumOfNone ==
    ASSUME NEW v
    PROVE  Sum(v, {}) = 0
<1>1. IsSum(CHOOSE f : IsSum(f, v, {}), v, {})
  BY SumIsSum, FS_EmptySet
<1> QED
  BY <1>1 DEF Sum, IsSum

LEMMA SumUnfolds ==
    ASSUME NEW S, IsFiniteSet(S), NEW v, S # {}
    PROVE  Sum(v, S) = v[Pick(S)] + Sum(v, S \ {Pick(S)})
<1> DEFINE f == CHOOSE h : IsSum(h, v, S)
           rest == S \ {Pick(S)}
           g == CHOOSE h : IsSum(h, v, rest)
<1>1. IsSum(f, v, S)
  BY SumIsSum
<1>2. f[S] = v[Pick(S)] + f[rest]
  BY <1>1 DEF IsSum
<1>3. IsFiniteSet(rest) /\ rest \subseteq S
  BY FS_RemoveElement
<1>4. IsSum(g, v, rest)
  BY <1>3, SumIsSum
<1>5. g[rest] = f[rest]
  BY <1>1, <1>3, <1>4, SumsAgree
<1> QED
  BY <1>2, <1>5 DEF Sum

\* A sum of integers is an integer.
LEMMA SumType ==
    ASSUME NEW S, IsFiniteSet(S), NEW v, \A x \in S : v[x] \in Int
    PROVE  Sum(v, S) \in Int
<1> DEFINE Good == {T \in SUBSET S : Sum(v, T) \in Int}
<1>1. ASSUME NEW T \in SUBSET S, \A U \in SUBSET T : U # T => U \in Good
      PROVE  T \in Good
  <2>1. CASE T = {}
    BY <2>1, SumOfNone
  <2>2. CASE T # {}
    <3>1. Pick(T) \in T /\ IsFiniteSet(T)
      BY <2>2, PickIsMember, FS_Subset
    <3>2. Sum(v, T \ {Pick(T)}) \in Int
      BY <1>1, <3>1
    <3>3. Sum(v, T) = v[Pick(T)] + Sum(v, T \ {Pick(T)})
      BY <2>2, <3>1, SumUnfolds
    <3>4. v[Pick(T)] \in Int
      BY <3>1
    <3> QED
      BY <3>2, <3>3, <3>4
  <2> QED
    BY <2>1, <2>2
<1> HIDE DEF Good
<1>2. \A T \in SUBSET S : T \in Good
  BY <1>1, SubsetInduction
<1> QED
  BY <1>2 DEF Good

\* Any element may be taken first.
LEMMA SumTakes ==
    ASSUME NEW S, IsFiniteSet(S), NEW v, \A x \in S : v[x] \in Int,
           NEW y \in S
    PROVE  Sum(v, S) = v[y] + Sum(v, S \ {y})
<1> DEFINE Good == {T \in SUBSET S :
                      \A x \in T : Sum(v, T) = v[x] + Sum(v, T \ {x})}
<1>1. ASSUME NEW T \in SUBSET S, \A U \in SUBSET T : U # T => U \in Good
      PROVE  T \in Good
  <2> SUFFICES ASSUME NEW x \in T
               PROVE  Sum(v, T) = v[x] + Sum(v, T \ {x})
    OBVIOUS
  <2> DEFINE p == Pick(T)
  <2>1. p \in T /\ IsFiniteSet(T)
    BY PickIsMember, FS_Subset
  <2>2. Sum(v, T) = v[p] + Sum(v, T \ {p})
    BY <2>1, SumUnfolds
  <2>3. CASE p = x
    BY <2>2, <2>3
  <2>4. CASE p # x
    <3> HIDE DEF p
    <3> DEFINE rest == T \ {p, x}
    <3>1. (T \ {p}) \ {x} = rest /\ (T \ {x}) \ {p} = rest
      OBVIOUS
    <3>2. Sum(v, T \ {p}) = v[x] + Sum(v, rest)
      <4>1. T \ {p} \in Good
        BY <1>1, <2>1
      <4> QED
        BY <2>4, <3>1, <4>1
    <3>3. Sum(v, T \ {x}) = v[p] + Sum(v, rest)
      <4>1. T \ {x} \in Good
        BY <1>1
      <4> QED
        BY <2>1, <2>4, <3>1, <4>1
    <3>4. Sum(v, rest) \in Int /\ v[p] \in Int /\ v[x] \in Int
      BY <2>1, SumType, FS_Subset
    <3> QED
      BY <2>2, <3>2, <3>3, <3>4
  <2> QED
    BY <2>3, <2>4
<1> HIDE DEF Good
<1>2. \A T \in SUBSET S : T \in Good
  BY <1>1, SubsetInduction
<1> QED
  BY <1>2 DEF Good

\* A sum to which one summand is added.
LEMMA SumAdds ==
    ASSUME NEW S, IsFiniteSet(S), NEW v, NEW y, y \notin S,
           \A x \in S \cup {y} : v[x] \in Int
    PROVE  Sum(v, S \cup {y}) = v[y] + Sum(v, S)
<1>1. IsFiniteSet(S \cup {y}) /\ (S \cup {y}) \ {y} = S
  BY FS_AddElement
<1> QED
  BY <1>1, SumTakes

\* A sum of which one summand changes.
LEMMA SumChanges ==
    ASSUME NEW S, IsFiniteSet(S), NEW v, NEW w, NEW y \in S,
           \A x \in S : v[x] \in Int /\ w[x] \in Int,
           \A x \in S \ {y} : w[x] = v[x]
    PROVE  Sum(w, S) - Sum(v, S) = w[y] - v[y]
<1>1. IsFiniteSet(S \ {y})
  BY FS_RemoveElement
<1>2. Sum(w, S \ {y}) = Sum(v, S \ {y}) /\ Sum(v, S \ {y}) \in Int
  BY <1>1, SumOfEqual, SumType
<1>3. Sum(w, S) = w[y] + Sum(w, S \ {y}) /\ Sum(v, S) = v[y] + Sum(v, S \ {y})
  BY SumTakes
<1> QED
  BY <1>2, <1>3

\* What a part of the set contributes is what the whole does when the other
\* summands are zero.
LEMMA SumOfPart ==
    ASSUME NEW S, IsFiniteSet(S), NEW P, P \subseteq S, NEW v, NEW w,
           \A x \in S : w[x] \in Int,
           \A x \in P : v[x] = w[x],
           \A x \in S \ P : w[x] = 0
    PROVE  Sum(v, P) = Sum(w, S)
<1> DEFINE Good == {T \in SUBSET S : Sum(w, T \cap P) = Sum(w, T)}
<1>1. ASSUME NEW T \in SUBSET S, \A U \in SUBSET T : U # T => U \in Good
      PROVE  T \in Good
  <2>1. CASE T = {}
    <3>1. T \cap P = T
      BY <2>1
    <3> QED
      BY <3>1
  <2>2. CASE T # {}
    <3> DEFINE p == Pick(T)
    <3>1. p \in T /\ IsFiniteSet(T) /\ IsFiniteSet(T \cap P)
      BY <2>2, PickIsMember, FS_Subset
    <3> HIDE DEF p
    <3>2. Sum(w, (T \ {p}) \cap P) = Sum(w, T \ {p})
      BY <1>1, <3>1
    <3>3. Sum(w, T) = w[p] + Sum(w, T \ {p})
      BY <3>1, SumTakes
    <3>4. Sum(w, T \ {p}) \in Int
      BY <3>1, SumType, FS_RemoveElement
    <3>5. CASE p \in P
      <4>1. Sum(w, T \cap P) = w[p] + Sum(w, (T \cap P) \ {p})
        BY <3>1, <3>5, SumTakes
      <4>2. (T \cap P) \ {p} = (T \ {p}) \cap P
        OBVIOUS
      <4> QED
        BY <3>2, <3>3, <4>1, <4>2
    <3>6. CASE p \notin P
      <4>1. T \cap P = (T \ {p}) \cap P
        BY <3>6
      <4>2. w[p] = 0
        BY <3>1, <3>6
      <4>3. Sum(w, T) = Sum(w, T \ {p})
        BY <3>3, <3>4, <4>2
      <4> QED
        BY <3>2, <4>1, <4>3
    <3> QED
      BY <3>5, <3>6
  <2> QED
    BY <2>1, <2>2
<1> HIDE DEF Good
<1>2. \A T \in SUBSET S : T \in Good
  BY <1>1, SubsetInduction
<1>3. Sum(w, S \cap P) = Sum(w, S)
  BY <1>2 DEF Good
<1>4. IsFiniteSet(P) /\ S \cap P = P
  BY FS_Subset
<1>5. Sum(v, P) = Sum(w, P)
  BY <1>4, SumOfEqual
<1> QED
  BY <1>3, <1>4, <1>5

\* A sum of naturals is at least the sum of a part of them.
LEMMA SumOfNaturals ==
    ASSUME NEW S, IsFiniteSet(S), NEW P, P \subseteq S, NEW v,
           \A x \in S : v[x] \in Nat
    PROVE  /\ Sum(v, P) \in Nat /\ Sum(v, S) \in Nat
           /\ Sum(v, P) <= Sum(v, S)
<1> DEFINE Good == {T \in SUBSET S : Sum(v, T \cap P) \in Nat /\ Sum(v, T) \in Nat
                                       /\ Sum(v, T \cap P) <= Sum(v, T)}
<1>1. ASSUME NEW T \in SUBSET S, \A U \in SUBSET T : U # T => U \in Good
      PROVE  T \in Good
  <2>1. CASE T = {}
    <3>1. T \cap P = T
      BY <2>1
    <3> QED
      BY <2>1, <3>1, SumOfNone
  <2>2. CASE T # {}
    <3> DEFINE p == Pick(T)
    <3>1. p \in T /\ IsFiniteSet(T) /\ IsFiniteSet(T \cap P)
      BY <2>2, PickIsMember, FS_Subset
    <3> HIDE DEF p
    <3> DEFINE part == Sum(v, (T \ {p}) \cap P)
               rest == Sum(v, T \ {p})
    <3>2. part \in Nat /\ rest \in Nat /\ part <= rest
      BY <1>1, <3>1
    <3>3. Sum(v, T) = v[p] + rest /\ v[p] \in Nat
      BY <3>1, SumTakes
    <3> SUFFICES Sum(v, T \cap P) \in {part, part + v[p]}
      <4> HIDE DEF part, rest
      <4> QED
        BY <3>2, <3>3
    <3>4. CASE p \in P
      <4>1. Sum(v, T \cap P) = v[p] + Sum(v, (T \cap P) \ {p})
        BY <3>1, <3>4, SumTakes
      <4>2. (T \cap P) \ {p} = (T \ {p}) \cap P
        OBVIOUS
      <4> QED
        BY <3>2, <3>3, <4>1, <4>2
    <3>5. CASE p \notin P
      <4>1. T \cap P = (T \ {p}) \cap P
        BY <3>5
      <4> QED
        BY <4>1
    <3> QED
      BY <3>4, <3>5
  <2> QED
    BY <2>1, <2>2
<1> HIDE DEF Good
<1>2. \A T \in SUBSET S : T \in Good
  BY <1>1, SubsetInduction
<1>3. S \cap P = P
  OBVIOUS
<1> QED
  BY <1>2, <1>3 DEF Good

\* A sum of less is less.
LEMMA SumOfLess ==
    ASSUME NEW S, IsFiniteSet(S), NEW v, NEW w,
           \A x \in S : v[x] \in Int /\ w[x] \in Int /\ v[x] <= w[x]
    PROVE  Sum(v, S) <= Sum(w, S)
<1> DEFINE Good == {T \in SUBSET S : Sum(v, T) <= Sum(w, T)}
<1>1. ASSUME NEW T \in SUBSET S, \A U \in SUBSET T : U # T => U \in Good
      PROVE  T \in Good
  <2>1. CASE T = {}
    BY <2>1, SumOfNone
  <2>2. CASE T # {}
    <3> DEFINE p == Pick(T)
               rest == T \ {p}
    <3>1. p \in T /\ IsFiniteSet(T) /\ IsFiniteSet(rest)
      BY <2>2, PickIsMember, FS_Subset
    <3>2. Sum(v, rest) <= Sum(w, rest)
      BY <1>1, <3>1
    <3>3. Sum(v, T) = v[p] + Sum(v, rest) /\ Sum(w, T) = w[p] + Sum(w, rest)
      BY <2>2, <3>1, SumUnfolds
    <3>4. Sum(v, rest) \in Int /\ Sum(w, rest) \in Int
      <4>1. \A x \in rest : v[x] \in Int /\ w[x] \in Int
        OBVIOUS
      <4> HIDE DEF rest
      <4> QED
        BY <3>1, <4>1, SumType
    <3>5. v[p] \in Int /\ w[p] \in Int /\ v[p] <= w[p]
      BY <3>1
    <3> HIDE DEF p, rest
    <3>6. Sum(v, T) <= Sum(w, T)
      BY <3>2, <3>3, <3>4, <3>5
    <3> QED
      BY <3>6
  <2> QED
    BY <2>1, <2>2
<1> HIDE DEF Good
<1>2. \A T \in SUBSET S : T \in Good
  BY <1>1, SubsetInduction
<1> QED
  BY <1>2 DEF Good

-----------------------------------------------------------------------------
(* The least and the greatest of a set.                                    *)

\* X has a least and a greatest element.
HasExtremes(X) == \E lo, hi \in X : \A x \in X : lo <= x /\ x <= hi

\* A finite set of integers has a least and a greatest element.  (By induction
\* over the set: a counterexample without proper subsets that are ones.)
LEMMA ExtremesExist ==
    ASSUME NEW S \in SUBSET Int, IsFiniteSet(S), S # {}
    PROVE  HasExtremes(S)
<1> DEFINE Bad == {X \in FiniteSubsetsOf(Int) : X # {} /\ ~HasExtremes(X)}
<1>1. SUFFICES ASSUME ~HasExtremes(S) PROVE FALSE
  OBVIOUS
<1>2. S \in Bad /\ Bad \subseteq FiniteSubsetsOf(Int)
  BY <1>1 DEF FiniteSubsetsOf
<1>3. PICK X \in Bad : \A Y \in Bad : <<Y, X>> \notin StrictSubsetOrdering(Int)
  <2> HIDE DEF Bad
  <2> QED
    BY <1>2, FS_StrictSubsetOrderingWellFounded, WFMin
<1>4. /\ X \in SUBSET Int /\ IsFiniteSet(X) /\ X # {} /\ ~HasExtremes(X)
  BY <1>2, <1>3 DEF FiniteSubsetsOf
<1>5. PICK x \in X : TRUE
  BY <1>4
<1> DEFINE Y == X \ {x}
<1>6. Y \in SUBSET Int /\ IsFiniteSet(Y) /\ <<Y, X>> \in StrictSubsetOrdering(Int)
  BY <1>4, <1>5, FS_RemoveElement DEF StrictSubsetOrdering
<1>7. CASE Y = {}
  <2>1. \A z \in X : z = x
    BY <1>7
  <2> QED
    BY <1>4, <1>5, <2>1 DEF HasExtremes
<1>8. CASE Y # {}
  <2>1. HasExtremes(Y)
    BY <1>3, <1>6, <1>8 DEF FiniteSubsetsOf
  <2>2. PICK lo \in Y, hi \in Y : \A y \in Y : lo <= y /\ y <= hi
    BY <2>1 DEF HasExtremes
  <2> DEFINE l == IF x <= lo THEN x ELSE lo
             h == IF hi <= x THEN x ELSE hi
  <2>3. lo \in Int /\ hi \in Int /\ x \in Int /\ lo <= hi
    BY <1>4, <1>5, <2>2
  <2>4. l \in X /\ h \in X
    BY <1>5, <2>2
  <2>5. ASSUME NEW z \in X PROVE l <= z /\ z <= h
    BY <1>4, <1>5, <2>2, <2>3, z \in Int
  <2> QED
    BY <1>4, <2>4, <2>5 DEF HasExtremes
<1> QED
  BY <1>7, <1>8

\* Min and Max of a finite set of integers are in it.
LEMMA MaxMinType ==
    ASSUME NEW S \in SUBSET Int, IsFiniteSet(S), S # {}
    PROVE  Max(S) \in S /\ Min(S) \in S
<1>1. PICK lo \in S, hi \in S : \A x \in S : lo <= x /\ x <= hi
  BY ExtremesExist DEF HasExtremes
<1>2. \A x \in S : hi >= x
  BY <1>1
<1> QED
  BY <1>1, <1>2 DEF Max, Min

\* A finite set has a first member of least score.
LEMMA FirstOfLeast ==
    ASSUME NEW S \in SUBSET Int, IsFiniteSet(S), S # {}, NEW score,
           \A i \in S : score[i] \in Int
    PROVE  \E k \in S :
             \A j \in S : score[k] < score[j] \/ (score[k] = score[j] /\ k <= j)
<1> DEFINE Scores == {score[i] : i \in S}
<1>1. Scores \in SUBSET Int /\ Scores # {} /\ IsFiniteSet(Scores)
  <2>1. IsFiniteSet(Scores)
    <3> DEFINE f == [i \in S |-> score[i]]
    <3>1. f \in [S -> Scores] /\ \A x \in Scores : \E i \in S : f[i] = x
      OBVIOUS
    <3> HIDE DEF f, Scores
    <3> QED
      BY <3>1, Fun_IsSurj, FS_Surjection
  <2> QED
    BY <2>1
<1>2. PICK i0 \in S : \A x \in Scores : score[i0] <= x
  <2>1. HasExtremes(Scores)
    <3> HIDE DEF Scores
    <3> QED
      BY <1>1, ExtremesExist
  <2> QED
    BY <2>1 DEF HasExtremes
<1> DEFINE Best == {i \in S : score[i] = score[i0]}
<1>3. Best \in SUBSET Int /\ Best # {} /\ IsFiniteSet(Best)
  BY <1>2, FS_Subset
<1>4. PICK i \in Best : \A j \in Best : i <= j
  <2>1. HasExtremes(Best)
    <3> HIDE DEF Best
    <3> QED
      BY <1>3, ExtremesExist
  <2> QED
    BY <2>1 DEF HasExtremes
<1>5. ASSUME NEW j \in S
      PROVE  score[i] < score[j] \/ (score[i] = score[j] /\ i <= j)
  <2>1. score[i0] <= score[j] /\ score[i] = score[i0]
    BY <1>2, <1>4
  <2>2. score[i] \in Int /\ score[j] \in Int
    BY <1>4
  <2>3. score[i] = score[j] => i <= j
    BY <1>4, <2>1
  <2> QED
    BY <2>1, <2>2, <2>3
<1> HIDE DEF Best
<1> QED
  BY <1>4, <1>5 DEF Best

-----------------------------------------------------------------------------
(* Folds.                                                                  *)

\* f is the function by which step folds the subsets of D, taking pick first.
IsFold(f, D, base, step, pick) ==
    f = [T \in SUBSET D |->
           IF T = {} THEN base ELSE step[<<f[T \ {pick[T]}], pick[T]>>]]

\* Two folds agree on the subsets that they share.
LEMMA FoldsAgree ==
    ASSUME NEW D, IsFiniteSet(D), NEW E, D \subseteq E, NEW base, NEW step, NEW pick,
           \A T \in SUBSET D : T # {} => pick[T] \in T,
           NEW f, IsFold(f, D, base, step, pick), NEW g, IsFold(g, E, base, step, pick)
    PROVE  f[D] = g[D]
<1> DEFINE Good == {T \in SUBSET D : f[T] = g[T]}
<1>1. ASSUME NEW T \in SUBSET D, \A U \in SUBSET T : U # T => U \in Good
      PROVE  T \in Good
  <2>1. CASE T = {}
    BY <2>1 DEF IsFold
  <2>2. CASE T # {}
    <3>1. T \ {pick[T]} \in Good
      BY <1>1, <2>2
    <3>2. f[T] = step[<<f[T \ {pick[T]}], pick[T]>>]
      BY <2>2 DEF IsFold
    <3>3. g[T] = step[<<g[T \ {pick[T]}], pick[T]>>]
      BY <2>2 DEF IsFold
    <3> QED
      BY <3>1, <3>2, <3>3
  <2> QED
    BY <2>1, <2>2
<1> HIDE DEF Good
<1>2. \A T \in SUBSET D : T \in Good
  BY <1>1, SubsetInduction
<1> QED
  BY <1>2 DEF Good

\* There is a fold.
LEMMA FoldExists ==
    ASSUME NEW D, IsFiniteSet(D), NEW base, NEW step, NEW pick,
           \A T \in SUBSET D : T # {} => pick[T] \in T
    PROVE  \E f : IsFold(f, D, base, step, pick)
<1> DEFINE G(T) == CHOOSE f : IsFold(f, T, base, step, pick)
           Good == {T \in SUBSET D : \E f : IsFold(f, T, base, step, pick)}
<1>1. ASSUME NEW T \in SUBSET D, \A U \in SUBSET T : U # T => U \in Good
      PROVE  T \in Good
  <2> DEFINE rest == T \ {pick[T]}
             top == IF T = {} THEN base ELSE step[<<G(rest)[rest], pick[T]>>]
             f == [U \in SUBSET T |-> IF U = T THEN top ELSE G(U)[U]]
  <2>1. ASSUME NEW U \in SUBSET T, U # T
        PROVE  /\ IsFold(G(U), U, base, step, pick) /\ f[U] = G(U)[U] /\ IsFiniteSet(U)
    BY <1>1, <2>1, FS_Subset
  <2> HIDE DEF f, G
  <2>2. ASSUME NEW U \in SUBSET T
        PROVE  f[U] = IF U = {} THEN base ELSE step[<<f[U \ {pick[U]}], pick[U]>>]
    <3> DEFINE V == U \ {pick[U]}
    <3>1. CASE U = {} /\ U # T
      BY <2>1, <3>1 DEF IsFold
    <3>2. CASE U # {} /\ U # T
      <4>1. V \in SUBSET U /\ V \in SUBSET T /\ V # T
        BY <3>2
      <4>2. G(U)[U] = step[<<G(U)[V], pick[U]>>]
        BY <2>1, <3>2 DEF IsFold
      <4>3. G(V)[V] = G(U)[V]
        <5>1. \A W \in SUBSET V : W # {} => pick[W] \in W
          BY <4>1
        <5>2. /\ IsFold(G(V), V, base, step, pick) /\ IsFiniteSet(V)
              /\ IsFold(G(U), U, base, step, pick)
          BY <2>1, <3>2, <4>1
        <5> HIDE DEF V
        <5> QED
          BY <4>1, <5>1, <5>2, FoldsAgree
      <4>4. f[U] = G(U)[U] /\ f[V] = G(V)[V]
        BY <2>1, <3>2, <4>1
      <4> QED
        BY <3>2, <4>2, <4>3, <4>4
    <3>3. CASE U = T
      <4>1. f[T] = top
        BY DEF f
      <4>2. T # {} => rest \in SUBSET T /\ rest # T
        OBVIOUS
      <4>3. T # {} => f[rest] = G(rest)[rest]
        BY <2>1, <4>2
      <4> QED
        BY <3>3, <4>1, <4>3
    <3> QED
      BY <3>1, <3>2, <3>3
  <2>3. f = [U \in SUBSET T |-> f[U]]
    BY DEF f
  <2>4. IsFold(f, T, base, step, pick)
    BY <2>2, <2>3, Zenon DEF IsFold
  <2> QED
    BY <2>4
<1> HIDE DEF Good
<1>2. \A T \in SUBSET D : T \in Good
  BY <1>1, SubsetInduction
<1> QED
  BY <1>2 DEF Good

-----------------------------------------------------------------------------
(* Sums of functions and sequences.                                        *)

\* FoldFunction adds up.
LEMMA FoldIsSum ==
    ASSUME NEW v
    PROVE  FoldFunction(+, 0, v) = Sum(v, DOMAIN v)
  BY DEF FoldFunction, FoldFunctionOnSet, MapThenFoldSet, Sum, IsSum, Pick

\* A prefix of the indices of a sequence, and the greatest of them.
LEMMA LastIndex ==
    ASSUME NEW S, NEW s \in Seq(S), NEW T \in SUBSET DOMAIN s
    PROVE  /\ IsFiniteSet(DOMAIN s) /\ IsFiniteSet(T)
           /\ T # {} => Max(T) \in T
<1>1. DOMAIN s = 1..Len(s) /\ Len(s) \in Nat
  BY LenProperties
<1>2. IsFiniteSet(DOMAIN s) /\ IsFiniteSet(T)
  <2>1. IsFiniteSet(1..Len(s))
    BY <1>1, FS_Interval
  <2> QED
    BY <1>1, <2>1, FS_Subset
<1>3. T \in SUBSET Int
  BY <1>1
<1> QED
  BY <1>2, <1>3, MaxMinType

\* The sum of a sequence is the sum over its indices.
LEMMA FoldLeftIsSum ==
    ASSUME NEW s \in Seq(Int)
    PROVE  FoldLeft(LAMBDA a, b : a + b, 0, s) = Sum(s, DOMAIN s)
<1> DEFINE D == DOMAIN s
           Folds(f) == f = [T \in SUBSET D |->
                              IF T = {} THEN 0 ELSE f[T \ {Max(T)}] + s[Max(T)]]
           F == CHOOSE f : Folds(f)
           Sums == [T \in SUBSET D |-> Sum(s, T)]
<1>1. FoldLeft(LAMBDA a, b : a + b, 0, s) = F[D]
  BY DEF FoldLeft, MapThenFoldSet
<1>2. /\ IsFiniteSet(D)
      /\ \A T \in SUBSET D : IsFiniteSet(T) /\ (T # {} => Max(T) \in T)
  BY LastIndex
<1>3. \A x \in D : s[x] \in Int
  BY ElementOfSeq, LenProperties
<1>4. ASSUME NEW T \in SUBSET D, T # {}
      PROVE  /\ Sum(s, T) = Sum(s, T \ {Max(T)}) + s[Max(T)]
             /\ T \ {Max(T)} \in SUBSET D /\ T \ {Max(T)} # T
  <2> DEFINE m == Max(T)
  <2>1. m \in T /\ IsFiniteSet(T) /\ IsFiniteSet(T \ {m})
    BY <1>2, <1>4, FS_RemoveElement
  <2> HIDE DEF m
  <2>2. Sum(s, T) = s[m] + Sum(s, T \ {m}) /\ Sum(s, T \ {m}) \in Int
    BY <1>3, <2>1, SumTakes, SumType
  <2>3. s[m] \in Int
    BY <1>3, <2>1
  <2>4. Sum(s, T) = Sum(s, T \ {m}) + s[m] /\ T \ {m} \in SUBSET D /\ T \ {m} # T
    BY <2>1, <2>2, <2>3
  <2> QED
    BY <2>4 DEF m
<1>5. Folds(Sums)
  <2>1. ASSUME NEW T \in SUBSET D
        PROVE  Sum(s, T) = IF T = {} THEN 0 ELSE Sums[T \ {Max(T)}] + s[Max(T)]
    <3>1. CASE T = {}
      BY <3>1, SumOfNone
    <3>2. CASE T # {}
      BY <1>4, <3>2
    <3> QED
      BY <3>1, <3>2
  <2> QED
    BY <2>1, Zenon
<1>6. Folds(F)
  <2> HIDE DEF Folds, Sums
  <2> QED
    BY <1>5
<1> HIDE DEF F
<1> DEFINE Good == {T \in SUBSET D : F[T] = Sum(s, T)}
<1>7. ASSUME NEW T \in SUBSET D, \A U \in SUBSET T : U # T => U \in Good
      PROVE  T \in Good
  <2>1. CASE T = {}
    BY <1>6, <2>1, SumOfNone
  <2>2. CASE T # {}
    <3> DEFINE m == Max(T)
    <3>1. F[T] = F[T \ {m}] + s[m]
      BY <1>6, <2>2
    <3>2. T \ {m} \in Good
      BY <1>4, <1>7, <2>2
    <3> QED
      BY <1>4, <2>2, <3>1, <3>2
  <2> QED
    BY <2>1, <2>2
<1> HIDE DEF Good
<1>8. \A T \in SUBSET D : T \in Good
  BY <1>2, <1>7, SubsetInduction
<1> QED
  BY <1>1, <1>8 DEF Good

\* Induction over the rounds of a loop.
LEMMA RoundInduction ==
    ASSUME NEW n \in Nat, NEW G, 0 \in G,
           \A k \in 1..n : k - 1 \in G => k \in G
    PROVE  \A k \in 0..n : k \in G
<1> DEFINE Bad == {k \in 0..n : k \notin G}
<1>1. SUFFICES ASSUME Bad # {} PROVE FALSE
  OBVIOUS
<1>2. Bad \in SUBSET Int /\ IsFiniteSet(Bad)
  <2>1. IsFiniteSet(0..n)
    BY FS_Interval
  <2>2. Bad \subseteq 0..n /\ Bad \in SUBSET Int
    OBVIOUS
  <2> HIDE DEF Bad
  <2> QED
    BY <2>1, <2>2, FS_Subset
<1>3. PICK k \in Bad : \A j \in Bad : k <= j
  <2> HIDE DEF Bad
  <2> QED
    BY <1>1, <1>2, ExtremesExist DEF HasExtremes
<1>4. k \in 1..n
  OBVIOUS
<1>5. k - 1 \in 0..n /\ ~(k <= k - 1)
  BY <1>4
<1>6. k - 1 \in G
  BY <1>3, <1>5
<1> QED
  BY <1>4, <1>6

\* f is the function by which step folds a list, the greatest index first: step
\* maps what the fold has come to and an index to what it comes to next.
IsListFold(f, s, base, step) ==
    f = [T \in SUBSET DOMAIN s |->
           IF T = {} THEN base ELSE step[<<f[T \ {Max(T)}], Max(T)>>]]

\* There is a fold over a list, and what it comes to stays in A.
LEMMA FoldOfList ==
    ASSUME NEW S, NEW s \in Seq(S), NEW A, NEW base \in A, NEW step,
           \A x \in A, i \in DOMAIN s : step[<<x, i>>] \in A
    PROVE  \E f : /\ IsListFold(f, s, base, step)
                  /\ \A T \in SUBSET DOMAIN s : f[T] \in A
<1> DEFINE D == DOMAIN s
           pick == [T \in SUBSET D |-> Max(T)]
<1>1. /\ IsFiniteSet(D)
      /\ \A T \in SUBSET D : T # {} => Max(T) \in T
  BY LastIndex
<1>2. \A T \in SUBSET D : pick[T] = Max(T)
  OBVIOUS
<1> HIDE DEF D, pick
<1>3. PICK f : IsFold(f, D, base, step, pick)
  <2>1. \A T \in SUBSET D : T # {} => pick[T] \in T
    BY <1>1, <1>2
  <2> QED
    BY <1>1, <2>1, FoldExists
<1>4. f = [T \in SUBSET D |-> f[T]]
  BY <1>3 DEF IsFold
<1>5. ASSUME NEW T \in SUBSET D
      PROVE  f[T] = IF T = {} THEN base ELSE step[<<f[T \ {Max(T)}], Max(T)>>]
  <2>1. f[T] = IF T = {} THEN base ELSE step[<<f[T \ {pick[T]}], pick[T]>>]
    BY <1>3 DEF IsFold
  <2> QED
    BY <1>2, <2>1
<1> DEFINE Good == {T \in SUBSET D : f[T] \in A}
<1>6. ASSUME NEW T \in SUBSET D, \A U \in SUBSET T : U # T => U \in Good
      PROVE  T \in Good
  <2>1. CASE T = {}
    BY <1>5, <2>1
  <2>2. CASE T # {}
    <3> DEFINE m == Max(T)
    <3>1. m \in D /\ T \ {m} \in Good
      BY <1>1, <1>6, <2>2
    <3>2. f[T] = step[<<f[T \ {m}], m>>]
      BY <1>5, <2>2
    <3> HIDE DEF m
    <3> QED
      BY <3>1, <3>2 DEF D
  <2> QED
    BY <2>1, <2>2
<1> HIDE DEF Good
<1>7. \A T \in SUBSET D : T \in Good
  BY <1>1, <1>6, SubsetInduction
<1>8. f = [T \in SUBSET D |->
             IF T = {} THEN base ELSE step[<<f[T \ {Max(T)}], Max(T)>>]]
  BY <1>4, <1>5, Zenon
<1> QED
  BY <1>7, <1>8 DEF Good, D, IsListFold
=============================================================================
