------------------------- MODULE GraphContextProofs -------------------------
(***************************************************************************)
(* What the server promises of collective requests holds for any number of *)
(* collections of any shape, any outputs and any number of rounds.         *)
(*                                                                         *)
(* GraphInv is inductive whatever the clients do; CalmInv needs that none  *)
(* of them times out and that no handler fails (Calm).                     *)
(***************************************************************************)
EXTENDS GraphContextProperties, SequenceTheorems, FiniteSums

-----------------------------------------------------------------------------
(* Sums and greatest elements of sequences.                                *)

\* The sum of a sequence is the sum over its indices.
LEMMA SumSeqIsSum ==
    ASSUME NEW s \in Seq(Int)
    PROVE  SumSeq(s) = Sum(s, DOMAIN s)
  BY FoldLeftIsSum DEF SumSeq, FoldLeft, MapThenFoldSet

\* m is the greatest of 0 and the elements of s at T.
IsGreatest(m, s, T) ==
    m \in Nat /\ (m = 0 \/ \E i \in T : s[i] = m) /\ \A i \in T : s[i] <= m

\* The greatest element of a sequence of naturals is a natural.
LEMMA MaxSeqType ==
    ASSUME NEW s \in Seq(Nat)
    PROVE  MaxSeq(s) \in Nat
<1> DEFINE D == DOMAIN s
           Larger(a, b) == IF a >= b THEN a ELSE b
           Folds(f) == f = [T \in SUBSET D |->
                              IF T = {} THEN 0
                              ELSE Larger(f[T \ {Max(T)}], s[Max(T)])]
           F == CHOOSE f : Folds(f)
           Great(T) == CHOOSE m : IsGreatest(m, s, T)
           Greats == [T \in SUBSET D |-> Great(T)]
<1>1. MaxSeq(s) = F[D]
  BY DEF MaxSeq, FoldLeft, MapThenFoldSet
<1>2. /\ IsFiniteSet(D)
      /\ \A T \in SUBSET D : IsFiniteSet(T) /\ (T # {} => Max(T) \in T)
  BY LastIndex
<1>3. \A x \in D : s[x] \in Nat
  BY ElementOfSeq, LenProperties
<1>4. ASSUME NEW T \in SUBSET D, T # {}
      PROVE  T \ {Max(T)} \in SUBSET D /\ T \ {Max(T)} # T /\ s[Max(T)] \in Nat
  BY <1>2, <1>3, <1>4
<1>5. ASSUME NEW T \in SUBSET D, T # {}, NEW m, IsGreatest(m, s, T \ {Max(T)})
      PROVE  IsGreatest(Larger(m, s[Max(T)]), s, T)
  <2> DEFINE x == Max(T)
  <2>1. x \in T /\ s[x] \in Nat /\ \A i \in T : s[i] \in Nat
    BY <1>2, <1>3, <1>5
  <2> HIDE DEF x
  <2>2. IsGreatest(m, s, T \ {x})
    BY <1>5 DEF x
  <2>3. IsGreatest(Larger(m, s[x]), s, T)
    BY <2>1, <2>2 DEF IsGreatest
  <2> QED
    BY <2>3 DEF x
<1>6. \A T \in SUBSET D : IsGreatest(Great(T), s, T)
  <2> DEFINE Good == {T \in SUBSET D : \E m : IsGreatest(m, s, T)}
  <2>1. ASSUME NEW T \in SUBSET D, \A U \in SUBSET T : U # T => U \in Good
        PROVE  T \in Good
    <3>1. CASE T = {}
      <4>1. IsGreatest(0, s, T)
        BY <3>1 DEF IsGreatest
      <4> QED
        BY <4>1
    <3>2. CASE T # {}
      <4>1. T \ {Max(T)} \in Good
        BY <1>4, <2>1, <3>2
      <4>2. PICK m : IsGreatest(m, s, T \ {Max(T)})
        BY <4>1
      <4>3. IsGreatest(Larger(m, s[Max(T)]), s, T)
        BY <1>5, <3>2, <4>2
      <4> QED
        BY <4>3
    <3> QED
      BY <3>1, <3>2
  <2> HIDE DEF Good
  <2>2. \A T \in SUBSET D : T \in Good
    BY <1>2, <2>1, SubsetInduction
  <2> QED
    BY <2>2 DEF Good
<1>7. ASSUME NEW T \in SUBSET D, NEW a, NEW b,
             IsGreatest(a, s, T), IsGreatest(b, s, T)
      PROVE  a = b
  BY <1>3, <1>7 DEF IsGreatest
<1>8. Folds(Greats)
  <2>1. ASSUME NEW T \in SUBSET D
        PROVE  Great(T) = IF T = {} THEN 0
                          ELSE Larger(Greats[T \ {Max(T)}], s[Max(T)])
    <3>1. CASE T = {}
      BY <1>6, <3>1 DEF IsGreatest
    <3>2. CASE T # {}
      <4> DEFINE U == T \ {Max(T)}
      <4>1. U \in SUBSET D
        BY <1>4, <3>2
      <4>2. IsGreatest(Great(U), s, U) /\ Greats[U] = Great(U)
        BY <1>6, <4>1
      <4> HIDE DEF Great, Greats
      <4>3. IsGreatest(Larger(Greats[U], s[Max(T)]), s, T)
        BY <1>5, <3>2, <4>2
      <4>4. IsGreatest(Great(T), s, T)
        BY <1>6
      <4>5. Great(T) = Larger(Greats[U], s[Max(T)])
        <5> HIDE DEF Larger
        <5> QED
          BY <1>7, <4>3, <4>4
      <4> QED
        BY <3>2, <4>5
    <3> QED
      BY <3>1, <3>2
  <2> HIDE DEF Great, Larger
  <2> QED
    BY <2>1, Zenon
<1>9. Folds(F)
  <2> HIDE DEF Folds, Greats
  <2> QED
    BY <1>8
<1> HIDE DEF F, Greats, Great
<1> DEFINE Fine == {T \in SUBSET D : F[T] \in Nat}
<1>10. ASSUME NEW T \in SUBSET D, \A U \in SUBSET T : U # T => U \in Fine
       PROVE  T \in Fine
  <2>1. CASE T = {}
    BY <1>9, <2>1
  <2>2. CASE T # {}
    <3> DEFINE m == Max(T)
    <3>1. F[T] = Larger(F[T \ {m}], s[m])
      BY <1>9, <2>2
    <3>2. T \ {m} \in Fine /\ s[m] \in Nat
      BY <1>4, <1>10, <2>2
    <3> QED
      BY <3>1, <3>2
  <2> QED
    BY <2>1, <2>2
<1> HIDE DEF Fine
<1>11. \A T \in SUBSET D : T \in Fine
  BY <1>2, <1>10, SubsetInduction
<1> QED
  BY <1>1, <1>11 DEF Fine

\* A sequence of naturals sums to a natural, at least the sum of a prefix and
\* at least each element.
LEMMA SumSeqOfNaturals ==
    ASSUME NEW s \in Seq(Nat)
    PROVE  /\ SumSeq(s) \in Nat
           /\ \A k \in 0..Len(s) : /\ SumSeq(SubSeq(s, 1, k)) \in Nat
                                   /\ SumSeq(SubSeq(s, 1, k)) <= SumSeq(s)
           /\ \A i \in 1..Len(s) : s[i] \in Nat /\ s[i] <= SumSeq(s)
<1>1. /\ DOMAIN s = 1..Len(s) /\ Len(s) \in Nat /\ IsFiniteSet(DOMAIN s)
      /\ \A i \in DOMAIN s : s[i] \in Nat
      /\ s \in Seq(Int)
  BY LastIndex, LenProperties, ElementOfSeq, SeqMonotonic
<1>2. SumSeq(s) = Sum(s, DOMAIN s) /\ SumSeq(s) \in Nat
  BY <1>1, SumSeqIsSum, SumOfNaturals
<1>3. ASSUME NEW k \in 0..Len(s)
      PROVE  /\ SumSeq(SubSeq(s, 1, k)) \in Nat
             /\ SumSeq(SubSeq(s, 1, k)) <= SumSeq(s)
  <2> DEFINE t == SubSeq(s, 1, k)
  <2>1. t \in Seq(Int) /\ Len(t) = k /\ \A i \in 1..k : t[i] = s[i]
    BY <1>1, SubSeqProperties
  <2>2. DOMAIN t = 1..k
    BY <2>1, LenProperties
  <2> HIDE DEF t
  <2>3. SumSeq(t) = Sum(t, 1..k)
    BY <2>1, <2>2, SumSeqIsSum
  <2>4. 1..k \subseteq DOMAIN s /\ IsFiniteSet(1..k)
    BY <1>1, FS_Interval
  <2>5. Sum(t, 1..k) = Sum(s, 1..k)
    BY <2>1, <2>4, SumOfEqual
  <2>6. Sum(s, 1..k) \in Nat /\ Sum(s, 1..k) <= Sum(s, DOMAIN s)
    BY <1>1, <2>4, SumOfNaturals
  <2> QED
    BY <1>2, <2>3, <2>5, <2>6 DEF t
<1>4. ASSUME NEW i \in 1..Len(s)
      PROVE  s[i] \in Nat /\ s[i] <= SumSeq(s)
  <2>1. Sum(s, DOMAIN s) = s[i] + Sum(s, DOMAIN s \ {i})
    BY <1>1, SumTakes
  <2>2. Sum(s, DOMAIN s \ {i}) \in Nat
    BY <1>1, SumOfNaturals
  <2> QED
    BY <1>1, <1>2, <2>1, <2>2
<1> QED
  BY <1>2, <1>3, <1>4

\* A sequence of positive naturals that is not empty has a positive sum.
LEMMA SumSeqOfPositives ==
    ASSUME NEW s \in Seq(Nat \ {0}), s # <<>>
    PROVE  s \in Seq(Nat) /\ SumSeq(s) > 0
<1>1. s \in Seq(Nat)
  BY SeqMonotonic
<1>2. Len(s) >= 1 /\ 1 \in 1..Len(s)
  BY EmptySeq
<1>3. s[1] \in Nat \ {0}
  BY <1>2, ElementOfSeq
<1> QED
  BY <1>1, <1>2, <1>3, SumSeqOfNaturals

-----------------------------------------------------------------------------
(* The invariant, for every server and every client.                       *)

Apps == {"tot", "deepresearch"}
Widths == Seq(Nat \ {0})
Entry == [round : Nat \ {0}, out : Nat]

\* A structure of a collection with that shape: the stages that are done have
\* the requests of the shape, and the structure is finished when all are done.
IsStructure(s, app, shape) ==
    /\ s \in [app : Apps, pattern : Widths, num : Nat, done : Seq(Seq(Entry)),
              current : Seq(Entry), times : Widths, finished : BOOLEAN]
    /\ s.app = app /\ s.pattern = shape /\ s.num = Len(shape)
    /\ Len(s.done) <= Len(shape) /\ Len(s.times) = Len(s.done)
    /\ \A i \in 1..Len(s.done) : Len(s.done[i]) = shape[i]
    /\ s.finished <=> Len(s.done) = Len(shape)
    /\ ~s.finished => Len(s.current) < shape[Len(s.done) + 1]

Graph == [app : Apps, nodes : Seq(Seq(Entry)), times : Seq(Nat)]

\* A graph with that shape, and weights of its stages that are not all 0.
IsGraph(g, app, shape) ==
    /\ g \in Graph
    /\ g.app = app
    /\ Len(g.nodes) = Len(shape) /\ Len(g.times) = Len(shape)
    /\ \A i \in 1..Len(shape) : Len(g.nodes[i]) = shape[i]
    /\ SumSeq(g.times) > 0

HasStructure(c) == structure[c] # NoStructure

States == {"unsent", "engine", "done", "failed"}

TypesKept ==
    /\ setup \in Setups
    /\ DOMAIN structure = Collections
    /\ round \in [Collections -> Nat \ {0}]
    /\ stage \in [Collections -> Nat \ {0}]
    /\ \A c \in Collections : stage[c] <= Len(Shape[c])
    /\ DOMAIN request = Collections
    /\ \A c \in Collections : request[c] \in [1..Shape[c][stage[c]] -> States]
    /\ abandoned \subseteq Collections \X (Nat \ {0}) \X Nat \X Nat
    /\ DOMAIN ratio = Collections

\* A request in the engine has a structure that will count it.
StructuresKept ==
    /\ \A c \in Collections :
        HasStructure(c) => IsStructure(structure[c], App[c], Shape[c])
    /\ \A c \in Collections : \A i \in DOMAIN request[c] :
        request[c][i] # "unsent" => HasStructure(c)
    /\ \A a \in abandoned : HasStructure(a[1])

GraphsKept ==
    /\ finished \in Seq(Graph)
    /\ \A k \in 1..Len(finished) :
        \E c \in Collections : IsGraph(finished[k], App[c], Shape[c])

GraphInv == TypesKept /\ StructuresKept /\ GraphsKept

\* The shapes that the clients send, and the patterns of the code.
LEMMA ShapeType ==
    /\ \A c \in Collections : /\ App[c] \in Apps
                              /\ Shape[c] \in Widths /\ Shape[c] # <<>>
                              /\ App[c] = "tot" => Shape[c] = TotPattern
    /\ TotPattern \in Widths /\ TotPattern # <<>>
    /\ DeepPattern \in Widths /\ DeepPattern # <<>>
  BY ContextAssumption DEF Apps, Widths

LEMMA WidthsType ==
    ASSUME NEW w \in Widths
    PROVE  /\ Len(w) \in Nat /\ DOMAIN w = 1..Len(w)
           /\ \A i \in 1..Len(w) : w[i] \in Nat \ {0}
           /\ w # <<>> => Len(w) >= 1
  BY LenProperties, ElementOfSeq, EmptySeq DEF Widths

\* What is appended to a sequence.
LEMMA AppendType ==
    ASSUME NEW S, NEW s \in Seq(S), NEW e \in S
    PROVE  /\ Append(s, e) \in Seq(S) /\ Len(Append(s, e)) = Len(s) + 1
           /\ \A i \in 1..Len(s) : Append(s, e)[i] = s[i]
           /\ Append(s, e)[Len(s) + 1] = e
           /\ Len(s) \in Nat
  BY AppendProperties, LenProperties

\* The structure of a collection starts, and starts again, with nothing done.
LEMMA InitStructure ==
    ASSUME NEW c \in Collections,
           HasStructure(c) => IsStructure(structure[c], App[c], Shape[c])
    PROVE  LET s == InitCollection(c)
           IN /\ IsStructure(s, App[c], Shape[c])
              /\ IF HasStructure(c) /\ ~structure[c].finished
                 THEN s = structure[c]
                 ELSE s.done = <<>> /\ s.current = <<>> /\ ~s.finished
<1> DEFINE new == NewStructure(App[c], Shape[c], Len(Shape[c]))
<1>1. /\ App[c] \in Apps /\ Shape[c] \in Widths /\ Len(Shape[c]) \in Nat
      /\ Len(Shape[c]) >= 1 /\ Shape[c][1] \in Nat \ {0}
      /\ App[c] = "tot" => Shape[c] = TotPattern
  BY ShapeType, WidthsType
<1>2. /\ new = [app |-> App[c], pattern |-> Shape[c], num |-> Len(Shape[c]),
                done |-> <<>>, current |-> <<>>, times |-> <<>>, finished |-> FALSE]
      /\ new # NoStructure
  BY <1>1 DEF NewStructure, NoStructure, Apps
<1>3. /\ IsStructure(new, App[c], Shape[c])
      /\ new.done = <<>> /\ new.current = <<>> /\ ~new.finished
  <2>1. /\ <<>> \in Seq(Seq(Entry)) /\ <<>> \in Seq(Entry) /\ <<>> \in Widths
        /\ Len(<<>>) = 0
    BY EmptySeq DEF Widths
  <2> QED
    BY <1>1, <1>2, <2>1 DEF IsStructure
<1>4. CASE ~HasStructure(c)
  <2>1. InitCollection(c) = new
    BY <1>1, <1>4 DEF InitCollection, HasStructure
  <2> QED
    BY <1>3, <1>4, <2>1
<1>5. CASE HasStructure(c) /\ structure[c].finished
  <2>1. InitCollection(c) = new
    BY <1>5 DEF InitCollection, HasStructure, Reset, IsStructure
  <2> QED
    BY <1>3, <1>5, <2>1
<1>6. CASE HasStructure(c) /\ ~structure[c].finished
  BY <1>6 DEF InitCollection, HasStructure
<1> QED
  BY <1>4, <1>5, <1>6

\* A completion is counted in the stage that it falls into, and ends that
\* stage, and with it the last the structure; a finished structure keeps the
\* stages that it has.
LEMMA AddKeepsStructure ==
    ASSUME NEW app, NEW shape \in Widths, NEW s, IsStructure(s, app, shape),
           NEW entry \in Entry, NEW elapsed \in Nat \ {0}
    PROVE  LET t == AddLength(s, entry, elapsed)
               current == Append(s.current, entry)
               ends == Len(s.current) + 1 = shape[Len(s.done) + 1]
           IN /\ IsStructure(t, app, shape)
              /\ s.finished => t.finished /\ t.done = s.done
              /\ ~s.finished /\ ends =>
                    /\ t.done = Append(s.done, current) /\ t.current = <<>>
                    /\ t.finished <=> Len(s.done) + 1 = Len(shape)
              /\ ~s.finished /\ ~ends =>
                    t.done = s.done /\ t.current = current /\ ~t.finished
<1> DEFINE t == AddLength(s, entry, elapsed)
           current == Append(s.current, entry)
           ends == Len(s.current) + 1 = shape[Len(s.done) + 1]
<1>1. /\ Len(shape) \in Nat /\ \A i \in 1..Len(shape) : shape[i] \in Nat \ {0}
      /\ Len(s.done) \in Nat /\ Len(s.current) \in Nat
      /\ s.done \in Seq(Seq(Entry)) /\ s.current \in Seq(Entry)
      /\ s.times \in Seq(Nat \ {0})
  BY WidthsType, LenProperties DEF IsStructure, Widths
<1>2. /\ current \in Seq(Entry) /\ Len(current) = Len(s.current) + 1
  BY <1>1, AppendType
<1> HIDE DEF current
<1>3. CASE s.finished /\ app = "deepresearch"
  <2>1. t = s
    BY <1>3 DEF AddLength, IsStructure
  <2> QED
    BY <1>3, <2>1
<1>4. CASE s.finished /\ app # "deepresearch"
  <2>1. StageSize(s) = 0
    BY <1>1, <1>4 DEF StageSize, IsStructure, Apps
  <2>2. t = [s EXCEPT !.current = current]
    BY <1>1, <1>2, <1>4, <2>1 DEF AddLength, IsStructure, current
  <2>3. /\ t.app = s.app /\ t.pattern = s.pattern /\ t.num = s.num
        /\ t.done = s.done /\ t.times = s.times /\ t.finished = s.finished
        /\ t \in [app : Apps, pattern : Widths, num : Nat, done : Seq(Seq(Entry)),
                  current : Seq(Entry), times : Widths, finished : BOOLEAN]
    BY <1>2, <2>2 DEF IsStructure
  <2> QED
    BY <1>4, <2>3 DEF IsStructure
<1>5. CASE ~s.finished
  <2>1. StageSize(s) = shape[Len(s.done) + 1] /\ Len(s.done) < Len(shape)
    BY <1>1, <1>5 DEF StageSize, IsStructure
  <2>2. CASE ends
    <3> DEFINE done == Append(s.done, current)
               times == Append(s.times, elapsed)
    <3>1. t = [s EXCEPT !.done = done, !.current = <<>>, !.times = times,
                        !.finished = Len(s.done) + 1 = Len(shape)]
      <4>1. Len(s.done) + 1 >= s.num <=> Len(s.done) + 1 = Len(shape)
        BY <1>1, <2>1 DEF IsStructure
      <4> QED
        BY <1>1, <1>2, <1>5, <2>1, <2>2, <4>1
        DEF AddLength, IsStructure, current
    <3>2. /\ done \in Seq(Seq(Entry)) /\ Len(done) = Len(s.done) + 1
          /\ \A i \in 1..Len(s.done) : done[i] = s.done[i]
          /\ done[Len(s.done) + 1] = current
      BY <1>1, <1>2, AppendType
    <3>3. times \in Widths /\ Len(times) = Len(s.times) + 1
      BY <1>1, AppendType DEF Widths
    <3>4. <<>> \in Seq(Entry) /\ Len(<<>>) = 0
      BY EmptySeq
    <3> HIDE DEF done, times, t
    <3>5. /\ t.app = s.app /\ t.pattern = s.pattern /\ t.num = s.num
          /\ t.done = done /\ t.times = times /\ t.current = <<>>
          /\ t.finished = (Len(s.done) + 1 = Len(shape))
          /\ t \in [app : Apps, pattern : Widths, num : Nat, done : Seq(Seq(Entry)),
                    current : Seq(Entry), times : Widths, finished : BOOLEAN]
      <4> DEFINE last == Len(s.done) + 1 = Len(shape)
      <4>1. last \in BOOLEAN
        OBVIOUS
      <4>2. s = [app |-> s.app, pattern |-> s.pattern, num |-> s.num,
                 done |-> s.done, current |-> s.current, times |-> s.times,
                 finished |-> s.finished]
        BY DEF IsStructure
      <4> HIDE DEF last
      <4>3. t = [app |-> s.app, pattern |-> s.pattern, num |-> s.num,
                 done |-> done, current |-> <<>>, times |-> times,
                 finished |-> last]
        BY <3>1, <4>2 DEF last
      <4>4. s.app \in Apps /\ s.pattern \in Widths /\ s.num \in Nat
        BY DEF IsStructure
      <4>5. t \in [app : Apps, pattern : Widths, num : Nat, done : Seq(Seq(Entry)),
                   current : Seq(Entry), times : Widths, finished : BOOLEAN]
        BY <3>2, <3>3, <3>4, <4>1, <4>3, <4>4
      <4> QED
        BY <4>3, <4>5 DEF last
    <3>6. \A i \in 1..Len(done) : Len(done[i]) = shape[i]
      <4>1. Len(done[Len(s.done) + 1]) = shape[Len(s.done) + 1]
        BY <1>2, <2>2, <3>2
      <4>2. \A i \in 1..Len(s.done) : Len(done[i]) = shape[i]
        BY <3>2 DEF IsStructure
      <4>3. \A i \in 1..Len(done) : i \in 1..Len(s.done) \/ i = Len(s.done) + 1
        BY <1>1, <3>2
      <4> QED
        BY <4>1, <4>2, <4>3
    <3>7. ~t.finished => Len(t.current) < shape[Len(t.done) + 1]
      <4>1. ~t.finished => Len(s.done) + 1 # Len(shape)
        BY <3>5
      <4>2. ~t.finished => Len(s.done) + 2 \in 1..Len(shape)
        BY <1>1, <2>1, <4>1
      <4>3. t.current = <<>> /\ t.done = done
        BY <3>5
      <4>4. Len(t.current) = 0
        BY <3>4, <4>3
      <4>5. Len(t.done) + 1 = Len(s.done) + 2
        BY <1>1, <3>2, <4>3
      <4>6. ~t.finished => shape[Len(t.done) + 1] \in Nat \ {0}
        BY <1>1, <4>2, <4>5
      <4> QED
        BY <4>4, <4>6
    <3>8. Len(t.done) <= Len(shape) /\ Len(t.times) = Len(t.done)
      BY <1>1, <2>1, <3>2, <3>3, <3>5 DEF IsStructure
    <3>9. IsStructure(t, app, shape)
      BY <3>2, <3>5, <3>6, <3>7, <3>8 DEF IsStructure
    <3> QED
      BY <1>5, <2>2, <3>5, <3>9 DEF done, t, current
  <2>3. CASE ~ends
    <3>1. t = [s EXCEPT !.current = current]
      BY <1>1, <1>2, <1>5, <2>1, <2>3 DEF AddLength, IsStructure, current
    <3>2. /\ t.app = s.app /\ t.pattern = s.pattern /\ t.num = s.num
          /\ t.done = s.done /\ t.times = s.times /\ t.finished = s.finished
          /\ t.current = current
          /\ t \in [app : Apps, pattern : Widths, num : Nat, done : Seq(Seq(Entry)),
                    current : Seq(Entry), times : Widths, finished : BOOLEAN]
      BY <1>2, <3>1 DEF IsStructure
    <3>3. Len(current) < shape[Len(s.done) + 1]
      <4>1. Len(s.current) < shape[Len(s.done) + 1] /\ shape[Len(s.done) + 1] \in Nat
        BY <1>1, <1>5, <2>1 DEF IsStructure
      <4> QED
        BY <1>1, <1>2, <2>3, <4>1
    <3> HIDE DEF t
    <3>4. IsStructure(t, app, shape)
      BY <3>2, <3>3 DEF IsStructure
    <3> QED
      BY <1>5, <2>3, <3>2, <3>4 DEF t, current
  <2> QED
    BY <2>2, <2>3
<1> QED
  BY <1>3, <1>4, <1>5 DEF IsStructure

\* The graph of a finished structure.
LEMMA GraphOfStructure ==
    ASSUME NEW app, NEW shape \in Widths, shape # <<>>,
           NEW s, IsStructure(s, app, shape), s.finished
    PROVE  IsGraph(ToGraph(s), app, shape)
<1> DEFINE n == Len(shape)
           most == [i \in DOMAIN s.done |-> MaxSeq(Outputs(s.done[i]))]
           times == StageWeights(s)
<1>1. /\ n \in Nat /\ n >= 1
      /\ s.done \in Seq(Seq(Entry)) /\ Len(s.done) = n /\ DOMAIN s.done = 1..n
      /\ s.times \in Seq(Nat \ {0}) /\ Len(s.times) = n
      /\ \A i \in 1..n : s.done[i] \in Seq(Entry) /\ Len(s.done[i]) = shape[i]
  BY WidthsType, LenProperties, ElementOfSeq DEF IsStructure, Widths
<1>2. s.done # <<>> /\ s.times # <<>>
  BY <1>1, EmptySeq
<1>3. most \in Seq(Nat) /\ Len(most) = n
  <2>1. ASSUME NEW i \in 1..n
        PROVE  MaxSeq(Outputs(s.done[i])) \in Nat
    <3> DEFINE e == s.done[i]
    <3>1. e \in Seq(Entry) /\ Len(e) \in Nat /\ DOMAIN e = 1..Len(e)
      BY <1>1, <2>1, LenProperties
    <3>2. \A j \in 1..Len(e) : e[j].out \in Nat
      <4>1. \A j \in 1..Len(e) : e[j] \in Entry
        BY <3>1, ElementOfSeq
      <4> QED
        BY <4>1 DEF Entry
    <3> HIDE DEF e
    <3>3. Outputs(e) \in Seq(Nat)
      BY <3>1, <3>2 DEF Outputs
    <3> QED
      BY <3>3, MaxSeqType DEF e
  <2> QED
    BY <1>1, <2>1
<1>4. Ones(n) \in Seq(Nat \ {0}) /\ Len(Ones(n)) = n /\ Ones(n) # <<>>
  <2>1. Ones(n) \in Seq(Nat \ {0}) /\ Len(Ones(n)) = n
    BY <1>1 DEF Ones
  <2> QED
    BY <1>1, <2>1, EmptySeq
<1>5. times \in {s.times, Ones(n)} \/ (times = most /\ SumSeq(most) > 0)
  <2> HIDE DEF most
  <2>1. times = IF ~ByOutput THEN s.times
                ELSE IF SumSeq(most) > 0 THEN most ELSE Ones(n)
    BY <1>1, <1>2 DEF StageWeights, most
  <2> QED
    BY <2>1
<1>6. times \in Seq(Nat) /\ Len(times) = n /\ SumSeq(times) > 0
  <2> HIDE DEF times, most
  <2> QED
    BY <1>1, <1>2, <1>3, <1>4, <1>5, SumSeqOfPositives
<1>7. ToGraph(s) = [app |-> s.app, nodes |-> s.done, times |-> times]
  BY DEF ToGraph
<1> HIDE DEF times
<1> QED
  BY <1>1, <1>6, <1>7 DEF IsGraph, IsStructure, Graph

-----------------------------------------------------------------------------
(* Every step keeps GraphInv.                                              *)

LEMMA SentType ==
    ASSUME GraphInv
    PROVE  /\ setup.sent \subseteq Collections /\ setup.outputs \subseteq Nat
           /\ setup.cancel \in BOOLEAN
           /\ setup.mode \in {"none", "static", "online", "precise"}
  BY ContextAssumption DEF GraphInv, TypesKept

LEMMA IsNotNone ==
    ASSUME NEW s, NEW app, NEW shape, IsStructure(s, app, shape)
    PROVE  s # NoStructure
  BY DEF IsStructure, NoStructure, Apps

\* One request of one collection changes.
LEMMA OneRequestChanges ==
    ASSUME TypesKept, NEW c \in Collections, NEW i \in DOMAIN request[c],
           NEW v \in States, request' = [request EXCEPT ![c][i] = v]
    PROVE  /\ DOMAIN request' = Collections
           /\ \A d \in Collections : request'[d] \in [1..Shape[d][stage[d]] -> States]
           /\ \A d \in Collections : d # c => request'[d] = request[d]
           /\ DOMAIN request'[c] = DOMAIN request[c] /\ request'[c][i] = v
           /\ \A j \in DOMAIN request[c] : j # i => request'[c][j] = request[c][j]
<1>1. request[c] \in [1..Shape[c][stage[c]] -> States] /\ DOMAIN request = Collections
  BY DEF TypesKept
<1>2. request'[c] = [request[c] EXCEPT ![i] = v]
  BY <1>1
<1>3. \A d \in Collections : d # c => request'[d] = request[d]
  BY <1>1
<1>4. request'[c] \in [1..Shape[c][stage[c]] -> States]
  BY <1>1, <1>2
<1> QED
  BY <1>1, <1>2, <1>3, <1>4 DEF TypesKept

\* A completion keeps the structures and the graphs what they are, and adds
\* the graph of a structure that it finds finished.
LEMMA TrackKeeps ==
    ASSUME GraphInv, NEW c \in Collections, HasStructure(c), NEW r \in Nat \ {0},
           TrackCollectionCompletion(c, r)
    PROVE  /\ DOMAIN structure' = Collections
           /\ \A d \in Collections : d # c => structure'[d] = structure[d]
           /\ IsStructure(structure'[c], App[c], Shape[c])
           /\ finished' = IF structure'[c].finished
                          THEN Append(finished, ToGraph(structure'[c])) ELSE finished
           /\ GraphsKept'
<1>1. PICK out \in setup.outputs, elapsed \in 1..MaxElapsed :
        LET s == AddLength(structure[c], [round |-> r, out |-> out], elapsed)
        IN /\ structure' = [structure EXCEPT ![c] = s]
           /\ finished' = IF s.finished THEN Append(finished, ToGraph(s))
                                        ELSE finished
  BY DEF TrackCollectionCompletion
<1> DEFINE entry == [round |-> r, out |-> out]
           s == AddLength(structure[c], entry, elapsed)
<1>2. entry \in Entry /\ elapsed \in Nat \ {0}
  BY SentType, ContextAssumption DEF Entry
<1>3. IsStructure(structure[c], App[c], Shape[c]) /\ Shape[c] \in Widths /\ Shape[c] # <<>>
  BY ShapeType DEF GraphInv, StructuresKept
<1>4. IsStructure(s, App[c], Shape[c])
  <2> HIDE DEF entry
  <2> QED
    BY <1>2, <1>3, AddKeepsStructure
<1> HIDE DEF s
<1>5. DOMAIN structure = Collections
  BY DEF GraphInv, TypesKept
<1>6. /\ structure' = [structure EXCEPT ![c] = s]
      /\ finished' = IF s.finished THEN Append(finished, ToGraph(s)) ELSE finished
  BY <1>1 DEF s
<1>7. /\ structure'[c] = s /\ DOMAIN structure' = Collections
      /\ \A d \in Collections : d # c => structure'[d] = structure[d]
  BY <1>5, <1>6
<1>8. GraphsKept'
  <2>1. CASE s.finished
    <3> DEFINE g == ToGraph(s)
    <3>1. IsGraph(g, App[c], Shape[c])
      BY <1>3, <1>4, <2>1, GraphOfStructure
    <3> HIDE DEF g
    <3>2. finished' = Append(finished, g)
      BY <1>6, <2>1 DEF g
    <3>3. /\ finished \in Seq(Graph)
          /\ \A k \in 1..Len(finished) :
               \E d \in Collections : IsGraph(finished[k], App[d], Shape[d])
      BY DEF GraphInv, GraphsKept
    <3>4. g \in Graph
      BY <3>1 DEF IsGraph
    <3>5. /\ finished' \in Seq(Graph) /\ Len(finished') = Len(finished) + 1
          /\ Len(finished) \in Nat
          /\ \A k \in 1..Len(finished) : finished'[k] = finished[k]
          /\ finished'[Len(finished) + 1] = g
      BY <3>2, <3>3, <3>4, AppendType
    <3>6. ASSUME NEW k \in 1..Len(finished')
          PROVE  \E d \in Collections : IsGraph(finished'[k], App[d], Shape[d])
      <4>1. k \in 1..Len(finished) \/ k = Len(finished) + 1
        BY <3>5, <3>6
      <4> QED
        BY <3>1, <3>3, <3>5, <4>1
    <3> QED
      BY <3>5, <3>6 DEF GraphsKept
  <2>2. CASE ~s.finished
    BY <1>6, <2>2 DEF GraphInv, GraphsKept
  <2> QED
    BY <2>1, <2>2
<1> QED
  BY <1>4, <1>6, <1>7, <1>8

\* StructuresKept is kept where no structure is lost and none is wanted anew.
LEMMA StructuresStay ==
    ASSUME GraphInv,
           \A d \in Collections : \/ structure'[d] = structure[d]
                                  \/ IsStructure(structure'[d], App[d], Shape[d]),
           \A d \in Collections : \A j \in DOMAIN request'[d] :
             request'[d][j] # "unsent" =>
                \/ structure'[d] # NoStructure
                \/ \E k \in DOMAIN request[d] : request[d][k] # "unsent",
           \A a \in abandoned' : a \in abandoned \/ structure'[a[1]] # NoStructure
    PROVE  StructuresKept'
<1>1. ASSUME NEW d \in Collections
      PROVE  /\ structure'[d] # NoStructure => IsStructure(structure'[d], App[d], Shape[d])
             /\ structure[d] # NoStructure => structure'[d] # NoStructure
  BY <1>1, IsNotNone DEF GraphInv, StructuresKept, HasStructure
<1>2. \A d \in Collections : \A j \in DOMAIN request'[d] :
        request'[d][j] # "unsent" => structure'[d] # NoStructure
  BY <1>1 DEF GraphInv, StructuresKept, HasStructure
<1>3. \A a \in abandoned' : structure'[a[1]] # NoStructure
  BY <1>1 DEF GraphInv, TypesKept, StructuresKept, HasStructure
<1> QED
  BY <1>1, <1>2, <1>3 DEF StructuresKept, HasStructure

LEMMA InitGraph == Init => GraphInv
<1> SUFFICES ASSUME Init PROVE GraphInv
  OBVIOUS
<1>1. \A c \in Collections : Len(Shape[c]) >= 1 /\ Len(Shape[c]) \in Nat
  BY ShapeType, WidthsType
<1>2. TypesKept
  <2>1. \A c \in Collections : stage[c] = 1 /\ request[c] = Unsent(Shape[c][1])
    BY DEF Init
  <2>2. \A c \in Collections : request[c] \in [1..Shape[c][stage[c]] -> States]
    BY <2>1 DEF Unsent, States
  <2> QED
    BY <1>1, <2>2 DEF Init, TypesKept
<1>3. StructuresKept
  BY DEF Init, StructuresKept, HasStructure, Unsent
<1>4. GraphsKept
  BY EmptySeq DEF Init, GraphsKept
<1> QED
  BY <1>2, <1>3, <1>4 DEF GraphInv

LEMMA HandleKeepsGraph ==
    ASSUME GraphInv, NEW c \in Collections, NEW i \in DOMAIN request[c],
           HandleCollectiveRequest(c, i)
    PROVE  GraphInv'
<1> DEFINE s == InitCollection(c)
<1>1. PICK r : /\ structure' = [structure EXCEPT ![c] = s]
               /\ ratio' = [ratio EXCEPT ![c] = r]
               /\ request' = [request EXCEPT ![c][i] =
                                IF r = IndexError THEN "failed" ELSE "engine"]
  BY DEF HandleCollectiveRequest
<1>2. UNCHANGED <<setup, finished, round, stage, abandoned>>
  BY DEF HandleCollectiveRequest
<1>3. IsStructure(s, App[c], Shape[c])
  BY InitStructure DEF GraphInv, StructuresKept
<1> DEFINE v == IF r = IndexError THEN "failed" ELSE "engine"
<1>4. v \in States
  BY DEF States
<1> HIDE DEF s, v
<1>5. /\ DOMAIN request' = Collections
      /\ \A d \in Collections : request'[d] \in [1..Shape[d][stage[d]] -> States]
      /\ \A d \in Collections : d # c => request'[d] = request[d]
  BY <1>1, <1>4, OneRequestChanges DEF GraphInv, v
<1>6. TypesKept'
  BY <1>1, <1>2, <1>5 DEF GraphInv, TypesKept
<1>7. structure'[c] = s /\ \A d \in Collections : d # c => structure'[d] = structure[d]
  BY <1>1 DEF GraphInv, TypesKept
<1>8. StructuresKept'
  <2>1. structure'[c] # NoStructure
    BY <1>3, <1>7, IsNotNone
  <2> QED
    BY <1>2, <1>3, <1>5, <1>7, <2>1, StructuresStay
<1>9. GraphsKept'
  BY <1>2 DEF GraphInv, GraphsKept
<1> QED
  BY <1>6, <1>8, <1>9 DEF GraphInv

LEMMA CompleteKeepsGraph ==
    ASSUME GraphInv, NEW c \in Collections, NEW i \in DOMAIN request[c],
           Complete(c, i)
    PROVE  GraphInv'
<1>1. /\ request[c][i] = "engine" /\ TrackCollectionCompletion(c, round[c])
      /\ request' = [request EXCEPT ![c][i] = "done"]
      /\ UNCHANGED <<setup, round, stage, abandoned, ratio>>
  BY DEF Complete
<1>2. HasStructure(c) /\ round[c] \in Nat \ {0}
  BY <1>1 DEF GraphInv, StructuresKept, TypesKept
<1>3. /\ DOMAIN structure' = Collections
      /\ \A d \in Collections : d # c => structure'[d] = structure[d]
      /\ IsStructure(structure'[c], App[c], Shape[c])
      /\ GraphsKept'
  BY <1>1, <1>2, TrackKeeps
<1>4. "done" \in States
  BY DEF States
<1>5. /\ DOMAIN request' = Collections
      /\ \A d \in Collections : request'[d] \in [1..Shape[d][stage[d]] -> States]
      /\ \A d \in Collections : d # c => request'[d] = request[d]
  BY <1>1, <1>4, OneRequestChanges DEF GraphInv
<1>6. TypesKept'
  BY <1>1, <1>3, <1>5 DEF GraphInv, TypesKept
<1>7. StructuresKept'
  <2>1. structure'[c] # NoStructure
    BY <1>3, IsNotNone
  <2> QED
    BY <1>1, <1>3, <1>5, <2>1, StructuresStay
<1> QED
  BY <1>3, <1>6, <1>7 DEF GraphInv

LEMMA TimeOutKeepsGraph ==
    ASSUME GraphInv, NEW c \in Collections, NEW i \in DOMAIN request[c],
           TimeOut(c, i)
    PROVE  GraphInv'
<1>1. /\ request[c][i] = "engine"
      /\ request' = [request EXCEPT ![c][i] = "failed"]
      /\ abandoned' = abandoned \cup {<<c, round[c], stage[c], i>>}
      /\ UNCHANGED <<setup, structure, finished, round, stage, ratio>>
  BY DEF TimeOut
<1>2. "failed" \in States
  BY DEF States
<1>3. /\ DOMAIN request' = Collections
      /\ \A d \in Collections : request'[d] \in [1..Shape[d][stage[d]] -> States]
      /\ \A d \in Collections : d # c => request'[d] = request[d]
  BY <1>1, <1>2, OneRequestChanges DEF GraphInv
<1>4. TypesKept'
  <2>1. i \in Nat /\ stage[c] \in Nat /\ round[c] \in Nat \ {0}
    <3>1. request[c] \in [1..Shape[c][stage[c]] -> States]
      BY DEF GraphInv, TypesKept
    <3>2. i \in 1..Shape[c][stage[c]]
      BY <3>1
    <3>3. Shape[c][stage[c]] \in Nat
      BY ShapeType, WidthsType DEF GraphInv, TypesKept
    <3> QED
      BY <3>2, <3>3 DEF GraphInv, TypesKept
  <2>2. abandoned' \subseteq Collections \X (Nat \ {0}) \X Nat \X Nat
    BY <1>1, <2>1 DEF GraphInv, TypesKept
  <2> QED
    BY <1>1, <1>3, <2>2 DEF GraphInv, TypesKept
<1>5. StructuresKept'
  <2>1. structure'[c] # NoStructure
    BY <1>1 DEF GraphInv, StructuresKept, HasStructure
  <2>2. \A a \in abandoned' : a \in abandoned \/ a[1] = c
    BY <1>1
  <2> QED
    BY <1>1, <1>3, <2>1, <2>2, StructuresStay
<1>6. GraphsKept'
  BY <1>1 DEF GraphInv, GraphsKept
<1> QED
  BY <1>4, <1>5, <1>6 DEF GraphInv

LEMMA AbandonedKeepsGraph ==
    ASSUME GraphInv, NEW a \in abandoned, Disconnected(a) \/ CompleteLate(a)
    PROVE  GraphInv'
<1> DEFINE c == a[1]
<1>1. /\ abandoned' = abandoned \ {a}
      /\ UNCHANGED <<setup, round, stage, request, ratio>>
  BY DEF Disconnected, CompleteLate
<1>2. c \in Collections /\ a[2] \in Nat \ {0} /\ HasStructure(c)
  BY DEF GraphInv, TypesKept, StructuresKept
<1> HIDE DEF c
<1>3. /\ DOMAIN structure' = Collections
      /\ \A d \in Collections : \/ structure'[d] = structure[d]
                                \/ IsStructure(structure'[d], App[d], Shape[d])
      /\ GraphsKept'
  <2>1. CASE Disconnected(a)
    BY <2>1 DEF Disconnected, GraphInv, TypesKept, GraphsKept
  <2>2. CASE CompleteLate(a)
    <3>1. TrackCollectionCompletion(c, a[2])
      BY <2>2 DEF CompleteLate, c
    <3> QED
      BY <1>2, <3>1, TrackKeeps
  <2> QED
    BY <2>1, <2>2
<1>4. TypesKept'
  BY <1>1, <1>3 DEF GraphInv, TypesKept
<1>5. StructuresKept'
  BY <1>1, <1>3, StructuresStay
<1> QED
  BY <1>3, <1>4, <1>5 DEF GraphInv

\* The client goes on to another stage of its collection.
LEMMA StageChanges ==
    ASSUME GraphInv, NEW c \in Collections, NEW k \in 1..Len(Shape[c]),
           NEW r \in Nat \ {0},
           stage' = [stage EXCEPT ![c] = k],
           round' = [round EXCEPT ![c] = r],
           request' = [request EXCEPT ![c] = Unsent(Shape[c][k])],
           UNCHANGED <<setup, structure, finished, abandoned, ratio>>
    PROVE  GraphInv'
<1>1. /\ DOMAIN request' = Collections /\ request'[c] = Unsent(Shape[c][k])
      /\ stage'[c] = k
      /\ \A d \in Collections : d # c => /\ request'[d] = request[d]
                                         /\ stage'[d] = stage[d]
  BY DEF GraphInv, TypesKept
<1>2. Len(Shape[c]) \in Nat
  BY ShapeType, WidthsType
<1>3. TypesKept'
  <2>1. request'[c] \in [1..Shape[c][stage'[c]] -> States]
    BY <1>1 DEF Unsent, States
  <2>2. \A d \in Collections : request'[d] \in [1..Shape[d][stage'[d]] -> States]
    BY <1>1, <2>1 DEF GraphInv, TypesKept
  <2>3. stage' \in [Collections -> Nat \ {0}] /\ round' \in [Collections -> Nat \ {0}]
    BY <1>2 DEF GraphInv, TypesKept
  <2>4. \A d \in Collections : stage'[d] <= Len(Shape[d])
    BY <1>1, <1>2 DEF GraphInv, TypesKept
  <2> QED
    BY <1>1, <2>2, <2>3, <2>4 DEF GraphInv, TypesKept
<1>4. StructuresKept'
  <2>1. \A j \in DOMAIN request'[c] : request'[c][j] = "unsent"
    BY <1>1 DEF Unsent
  <2> QED
    BY <1>1, <2>1, StructuresStay
<1>5. GraphsKept'
  BY DEF GraphInv, GraphsKept
<1> QED
  BY <1>3, <1>4, <1>5 DEF GraphInv

LEMMA NextKeepsGraph == GraphInv /\ [Next]_vars => GraphInv'
<1> SUFFICES ASSUME GraphInv, [Next]_vars PROVE GraphInv'
  OBVIOUS
<1>1. ASSUME NEW c \in setup.sent, NEW i \in DOMAIN request[c],
             \/ HandleCollectiveRequest(c, i) \/ Complete(c, i) \/ TimeOut(c, i)
      PROVE  GraphInv'
  BY <1>1, SentType, HandleKeepsGraph, CompleteKeepsGraph, TimeOutKeepsGraph
<1>2. ASSUME NEW c \in setup.sent, NextStage(c)
      PROVE  GraphInv'
  <2>1. c \in Collections
    BY SentType
  <2>2. /\ stage[c] + 1 \in 1..Len(Shape[c])
        /\ round[c] \in Nat \ {0} /\ round = [round EXCEPT ![c] = round[c]]
    BY <1>2, <2>1, ShapeType, WidthsType DEF NextStage, GraphInv, TypesKept
  <2>3. /\ stage' = [stage EXCEPT ![c] = stage[c] + 1]
        /\ request' = [request EXCEPT ![c] = Unsent(Shape[c][stage[c] + 1])]
        /\ round' = [round EXCEPT ![c] = round[c]]
        /\ UNCHANGED <<setup, structure, finished, abandoned, ratio>>
    BY <1>2, <2>2 DEF NextStage
  <2> QED
    BY <2>1, <2>2, <2>3, StageChanges
<1>3. ASSUME NEW c \in setup.sent, NextRound(c)
      PROVE  GraphInv'
  <2>1. c \in Collections
    BY SentType
  <2>2. 1 \in 1..Len(Shape[c]) /\ round[c] + 1 \in Nat \ {0}
    BY <2>1, ShapeType, WidthsType DEF GraphInv, TypesKept
  <2>3. /\ stage' = [stage EXCEPT ![c] = 1]
        /\ request' = [request EXCEPT ![c] = Unsent(Shape[c][1])]
        /\ round' = [round EXCEPT ![c] = round[c] + 1]
        /\ UNCHANGED <<setup, structure, finished, abandoned, ratio>>
    BY <1>3 DEF NextRound
  <2> QED
    BY <2>1, <2>2, <2>3, StageChanges
<1>4. ASSUME NEW a \in abandoned, Disconnected(a) \/ CompleteLate(a)
      PROVE  GraphInv'
  BY <1>4, AbandonedKeepsGraph
<1>5. CASE UNCHANGED vars
  BY <1>5
  DEF vars, GraphInv, TypesKept, StructuresKept, HasStructure, GraphsKept
<1> QED
  BY <1>1, <1>2, <1>3, <1>4, <1>5 DEF Next

LEMMA GraphAlways == Spec => []GraphInv
  BY InitGraph, NextKeepsGraph, PTL DEF Spec

-----------------------------------------------------------------------------
(* The graphs and the shares.                                              *)

\* Whatever clients do, a finished graph has all stages of its collection with
\* all their requests, and weights whose sum may be divided by.
THEOREM FinishedGraphsAreComplete == Spec => []GraphIsComplete
<1>1. GraphInv => GraphIsComplete
  <2> SUFFICES ASSUME GraphInv, NEW k \in DOMAIN finished
               PROVE  LET g == finished[k]
                          widths == [i \in DOMAIN g.nodes |-> Len(g.nodes[i])]
                      IN /\ \E c \in Collections : App[c] = g.app /\ widths = Shape[c]
                         /\ Len(g.times) = Len(g.nodes)
                         /\ SumSeq(g.times) > 0
    BY DEF GraphIsComplete
  <2> DEFINE g == finished[k]
             widths == [i \in DOMAIN g.nodes |-> Len(g.nodes[i])]
  <2>1. PICK c \in Collections : IsGraph(g, App[c], Shape[c])
    BY LenProperties DEF GraphInv, GraphsKept
  <2> HIDE DEF g
  <2>2. /\ Shape[c] \in Seq(Nat \ {0}) /\ DOMAIN Shape[c] = 1..Len(Shape[c])
        /\ Shape[c] = [i \in DOMAIN Shape[c] |-> Shape[c][i]]
    BY ShapeType, WidthsType, LenProperties DEF Widths
  <2>3. DOMAIN g.nodes = 1..Len(Shape[c])
    BY <2>1, LenProperties DEF IsGraph, Graph
  <2>4. widths = Shape[c]
    BY <2>1, <2>2, <2>3 DEF IsGraph
  <2>5. App[c] = g.app /\ Len(g.times) = Len(g.nodes) /\ SumSeq(g.times) > 0
    BY <2>1 DEF IsGraph
  <2> QED
    BY <2>4, <2>5 DEF g
<1> QED
  BY <1>1, GraphAlways, PTL

IsFraction(r) == r[2] > 0 /\ r[1] <= r[2]

\* The share of some stages, and of one stage.
LEMMA ShareIsFraction ==
    ASSUME NEW w \in Seq(Nat), SumSeq(w) > 0
    PROVE  /\ \A k \in 0..Len(w) : IsFraction(Share(w, k))
           /\ \A i \in 1..Len(w) : IsFraction(<<w[i], SumSeq(w)>>)
  BY SumSeqOfNaturals DEF Share, IsFraction

\* The pattern of a collection, and the graph of one like it, has shares.
LEMMA WeightsType ==
    ASSUME NEW w \in Widths, w # <<>>
    PROVE  /\ w \in Seq(Nat) /\ SumSeq(w) > 0 /\ Len(w) \in Nat /\ Len(w) >= 1
  BY SumSeqOfPositives, WidthsType DEF Widths

LEMMA BestMatchType ==
    ASSUME GraphInv, NEW best \in BestMatches, best # <<>>
    PROVE  /\ best.times \in Seq(Nat) /\ SumSeq(best.times) > 0
           /\ Len(best.times) \in Nat /\ Len(best.times) >= 1
<1>1. best \in Range1(finished)
  BY DEF BestMatches
<1>2. PICK k \in 1..Len(finished) : best = finished[k]
  BY <1>1, LenProperties DEF Range1, GraphInv, GraphsKept
<1>3. PICK c \in Collections : IsGraph(best, App[c], Shape[c])
  BY <1>2 DEF GraphInv, GraphsKept
<1>4. Len(Shape[c]) \in Nat /\ Len(Shape[c]) >= 1
  BY ShapeType, WidthsType
<1> QED
  BY <1>3, <1>4 DEF IsGraph, Graph

LEMMA DefaultRatioIsFraction ==
    ASSUME NEW c \in Collections, StageId(c) \in Nat
    PROVE  IsFraction(DefaultRatio(c))
<1>1. CASE App[c] = "deepresearch"
  BY <1>1, ShapeType, WidthsType DEF DefaultRatio, IsFraction
<1>2. CASE App[c] # "deepresearch"
  <2> DEFINE i == LeastOf(StageId(c), Len(TotPattern) - 1) + 1
  <2>1. i \in 1..Len(TotPattern)
    BY ShapeType, WidthsType DEF LeastOf
  <2>2. DefaultRatio(c) = <<TotPattern[i], SumSeq(TotPattern)>>
    BY <1>2 DEF DefaultRatio
  <2> HIDE DEF i
  <2> QED
    BY <2>1, <2>2, ShapeType, WeightsType, ShareIsFraction
<1> QED
  BY <1>1, <1>2

\* The query has a stage for the request that has arrived, and for a tree of
\* thought no more than that.
LEMMA QueryLength ==
    ASSUME NEW app, NEW shape, NEW s, IsStructure(s, app, shape), NEW entry \in Entry
    PROVE  LET n == Len(ToUnfinishedGraph(s, entry).nodes)
           IN /\ n \in Nat \ {0}
              /\ app = "tot" => n <= Len(s.done) + 1
<1> DEFINE n == Len(s.done)
           short == AllNode /\ n > 0 /\ n <= Len(s.pattern)
                    /\ Len(s.done[n]) < s.pattern[n]
           longer == [s.done EXCEPT ![n] = Append(@, entry)]
           joined == IF short THEN longer ELSE Append(s.done, <<entry>>)
           nodes == IF AllNode /\ s.app = "deepresearch"
                    THEN Append(joined, <<entry>>) ELSE joined
<1>1. s.done \in Seq(Seq(Entry)) /\ n \in Nat
  BY LenProperties DEF IsStructure
<1>2. <<entry>> \in Seq(Entry)
  OBVIOUS
<1>3. /\ joined \in Seq(Seq(Entry)) /\ Len(joined) \in Nat
      /\ Len(joined) >= 1 /\ Len(joined) <= n + 1
  <2>1. CASE short
    <3>1. n \in 1..n
      BY <1>1, <2>1
    <3>2. Append(s.done[n], entry) \in Seq(Entry)
      BY <1>1, <3>1, ElementOfSeq, AppendType
    <3>3. longer \in Seq(Seq(Entry)) /\ Len(longer) = n
      BY <1>1, <3>1, <3>2, ExceptSeq
    <3> QED
      BY <1>1, <2>1, <3>1, <3>3
  <2>2. CASE ~short
    BY <1>1, <1>2, <2>2, AppendType
  <2> QED
    BY <2>1, <2>2
<1> HIDE DEF joined
<1>4. Len(nodes) \in Nat \ {0} /\ (s.app = "tot" => Len(nodes) <= n + 1)
  BY <1>2, <1>3, AppendType
<1>5. ToUnfinishedGraph(s, entry).nodes = nodes
  BY DEF ToUnfinishedGraph, joined
<1> QED
  BY <1>4, <1>5 DEF IsStructure

\* The share that a handler computes is one.
LEMMA StageRatioIsFraction ==
    ASSUME GraphInv, NEW c \in setup.sent, ~StaticTree(c), NEW s,
           IsStructure(s, App[c], Shape[c]), NEW entry \in Entry,
           NEW best \in BestMatches
    PROVE  IsFraction(StageRatio(c, ToUnfinishedGraph(s, entry), best))
<1> DEFINE query == ToUnfinishedGraph(s, entry)
           id == StageId(c)
<1>1. c \in Collections /\ setup.mode \in {"none", "static", "online", "precise"}
  BY SentType
<1>2. /\ Shape[c] \in Widths /\ Shape[c] # <<>>
      /\ stage[c] \in Nat \ {0} /\ stage[c] <= Len(Shape[c])
      /\ App[c] \in {"tot", "deepresearch"}
  BY <1>1, ShapeType DEF GraphInv, TypesKept, Apps
<1>3. id \in Nat
  BY <1>2 DEF StageId
<1>4. Len(query.nodes) \in Nat \ {0}
  BY QueryLength
<1>5. /\ TotPattern \in Seq(Nat) /\ SumSeq(TotPattern) > 0
      /\ DeepPattern \in Seq(Nat) /\ SumSeq(DeepPattern) > 0
      /\ Shape[c] \in Seq(Nat) /\ SumSeq(Shape[c]) > 0
      /\ Len(TotPattern) \in Nat /\ Len(DeepPattern) \in Nat /\ Len(Shape[c]) \in Nat
      /\ Len(DeepPattern) >= 1
  BY <1>2, ShapeType, WeightsType
<1>6. \A n \in Nat : /\ IsFraction(Share(TotPattern, LeastOf(n, Len(TotPattern))))
                     /\ IsFraction(Share(DeepPattern, LeastOf(n, Len(DeepPattern))))
  <2>1. \A n, m \in Nat : LeastOf(n, m) \in 0..m
    BY DEF LeastOf
  <2> QED
    BY <1>5, <2>1, ShareIsFraction
<1>7. best # <<>> => /\ best.times \in Seq(Nat) /\ SumSeq(best.times) > 0
                     /\ Len(best.times) \in Nat /\ Len(best.times) >= 1
  BY BestMatchType
<1>8. DefaultRatio(c) = DefaultRatio(c) /\ IsFraction(DefaultRatio(c))
  BY <1>1, <1>3, DefaultRatioIsFraction
<1>9. \A a, b : IsFraction(a) /\ IsFraction(b) => IsFraction(LargerRatio(a, b))
  BY DEF LargerRatio
<1> HIDE DEF query, id
<1>10. IsFraction(<<1, 1>>)
  BY DEF IsFraction
<1>11. IsFraction(PreciseRatio(c))
  <2>1. IsFraction(Share(Shape[c], stage[c]))
    BY <1>2, <1>5, ShareIsFraction
  <2> QED
    BY <1>8, <2>1 DEF PreciseRatio
<1>12. IsFraction(OnlineRatio(c, query, best))
  <2> DEFINE k == Len(query.nodes) - 1
             default == Share(DeepPattern, LeastOf(id, Len(DeepPattern)))
  <2>1. k \in Nat /\ IsFraction(default)
    BY <1>3, <1>4, <1>6
  <2>2. \A n \in Nat : best # <<>> /\ n < Len(best.times)
                         => IsFraction(Share(best.times, n))
    BY <1>7, ShareIsFraction
  <2>3. OnlineRatio(c, query, best) =
          IF App[c] = "tot"
          THEN IF best # <<>> /\ k < Len(best.times) THEN Share(best.times, k)
               ELSE Share(TotPattern, LeastOf(k, Len(TotPattern)))
          ELSE IF best # <<>> /\ id < Len(best.times)
               THEN LargerRatio(Share(best.times, id), default)
               ELSE default
    BY DEF OnlineRatio, id
  <2> HIDE DEF k, default
  <2> QED
    BY <1>3, <1>6, <1>9, <2>1, <2>2, <2>3
<1>13. App[c] = "deepresearch" => IsFraction(StaticRatio(c, query, best))
  <2> SUFFICES ASSUME App[c] = "deepresearch"
               PROVE  IsFraction(StaticRatio(c, query, best))
    OBVIOUS
  <2> DEFINE learned == LargerRatio(<<best.times[1], SumSeq(best.times)>>,
                                    <<DeepPattern[1], SumSeq(DeepPattern)>>)
             default == Share(DeepPattern, LeastOf(1, Len(DeepPattern)))
  <2>1. id = 0 => StaticRatio(c, query, best) =
                    IF best # <<>> /\ 0 < Len(best.times) THEN learned ELSE default
    BY DEF StaticRatio, id
  <2>2. id # 0 => StaticRatio(c, query, best) = DefaultRatio(c)
    BY DEF StaticRatio, id
  <2>3. IsFraction(<<DeepPattern[1], SumSeq(DeepPattern)>>)
    BY <1>5, ShareIsFraction
  <2>4. best # <<>> => IsFraction(<<best.times[1], SumSeq(best.times)>>)
    BY <1>7, ShareIsFraction
  <2>5. best # <<>> => IsFraction(learned)
    BY <1>9, <2>3, <2>4
  <2>6. IsFraction(default)
    BY <1>6
  <2> HIDE DEF learned, default
  <2> QED
    BY <1>8, <2>1, <2>2, <2>5, <2>6
<1>14. ~UseTotalDeadline /\ setup.mode = "static" => App[c] = "deepresearch"
  BY <1>2 DEF StaticTree
<1>15. CASE UseTotalDeadline \/ setup.mode = "none"
  BY <1>10, <1>15 DEF StageRatio, query
<1>16. CASE ~UseTotalDeadline /\ setup.mode = "precise"
  BY <1>11, <1>16 DEF StageRatio, query
<1>17. CASE ~UseTotalDeadline /\ setup.mode = "static"
  BY <1>13, <1>14, <1>17 DEF StageRatio, query
<1>18. CASE ~UseTotalDeadline /\ setup.mode = "online"
  BY <1>12, <1>18 DEF StageRatio, query
<1> QED
  BY <1>1, <1>15, <1>16, <1>17, <1>18

\* The ratio that a handler sets is the one it computes of a structure.
LEMMA HandleRatio ==
    ASSUME GraphInv, NEW c \in setup.sent, ~StaticTree(c), NEW i \in DOMAIN request[c],
           HandleCollectiveRequest(c, i)
    PROVE  \E r : /\ IsFraction(r)
                  /\ ratio' = [ratio EXCEPT ![c] = r]
                  /\ request' = [request EXCEPT ![c][i] = "engine"]
<1> DEFINE s == InitCollection(c)
           entry == [round |-> round[c], out |-> 0]
           query == ToUnfinishedGraph(s, entry)
<1>1. c \in Collections
  BY SentType
<1>2. IsStructure(s, App[c], Shape[c])
  BY <1>1, InitStructure DEF GraphInv, StructuresKept
<1>3. entry \in Entry
  BY <1>1 DEF Entry, GraphInv, TypesKept
<1>4. PICK best \in BestMatches :
        LET r == StageRatio(c, query, best)
        IN /\ ratio' = [ratio EXCEPT ![c] = r]
           /\ request' = [request EXCEPT ![c][i] =
                            IF r = IndexError THEN "failed" ELSE "engine"]
  BY DEF HandleCollectiveRequest
<1> DEFINE r == StageRatio(c, query, best)
<1>5. IsFraction(r)
  <2> HIDE DEF s, entry
  <2> QED
    BY <1>2, <1>3, StageRatioIsFraction
<1> HIDE DEF r
<1>6. r # IndexError
  BY <1>5 DEF IsFraction, IndexError
<1>7. /\ ratio' = [ratio EXCEPT ![c] = r]
      /\ request' = [request EXCEPT ![c][i] =
                       IF r = IndexError THEN "failed" ELSE "engine"]
  BY <1>4 DEF r
<1> QED
  BY <1>5, <1>6, <1>7

\* All stages of a tree of thought but the last are complete.
LastStageLeft(s) == Len(s.done) + 1 >= Len(TotPattern)

\* In static mode the share for a tree of thought is one, or the handler fails
\* in the last stage.
LEMMA StaticTreeRatio ==
    ASSUME GraphInv, NEW c \in setup.sent, StaticTree(c), NEW s,
           IsStructure(s, App[c], Shape[c]), NEW entry \in Entry,
           NEW best \in BestMatches
    PROVE  LET r == StageRatio(c, ToUnfinishedGraph(s, entry), best)
           IN IsFraction(r) \/ (r = IndexError /\ LastStageLeft(s))
<1> DEFINE query == ToUnfinishedGraph(s, entry)
           n == Len(query.nodes)
<1>1. n \in Nat \ {0} /\ n <= Len(s.done) + 1
  BY QueryLength DEF StaticTree
<1>2. /\ TotPattern \in Seq(Nat) /\ SumSeq(TotPattern) > 0
      /\ Len(TotPattern) \in Nat
  BY ShapeType, WeightsType
<1>3. best # <<>> => /\ best.times \in Seq(Nat) /\ SumSeq(best.times) > 0
                     /\ Len(best.times) \in Nat
  BY BestMatchType
<1>4. StageRatio(c, query, best) = StaticRatio(c, query, best)
  BY DEF StaticTree, StageRatio
<1>5. StaticRatio(c, query, best) =
        IF best # <<>> /\ n < Len(best.times)
        THEN <<best.times[n + 1], SumSeq(best.times)>>
        ELSE IF n < Len(TotPattern) THEN <<TotPattern[n + 1], SumSeq(TotPattern)>>
        ELSE IndexError
  BY DEF StaticTree, StaticRatio, StageId
<1>6. Len(s.done) \in Nat
  BY LenProperties DEF IsStructure
<1> HIDE DEF n, query
<1>7. best # <<>> /\ n < Len(best.times)
        => IsFraction(<<best.times[n + 1], SumSeq(best.times)>>)
  BY <1>1, <1>3, ShareIsFraction
<1>8. n < Len(TotPattern) => IsFraction(<<TotPattern[n + 1], SumSeq(TotPattern)>>)
  BY <1>1, <1>2, ShareIsFraction
<1>9. ~(n < Len(TotPattern)) => LastStageLeft(s)
  BY <1>1, <1>2, <1>6 DEF LastStageLeft
<1> QED
  BY <1>4, <1>5, <1>7, <1>8, <1>9 DEF query

LEMMA AddsOneStage ==
    ASSUME NEW app, NEW shape, NEW s, IsStructure(s, app, shape), NEW entry, NEW elapsed
    PROVE  \/ AddLength(s, entry, elapsed).done = s.done
           \/ AddLength(s, entry, elapsed).done
                = Append(s.done, Append(s.current, entry))
<1> DEFINE current == Append(s.current, entry)
           closed == [s EXCEPT !.done = Append(@, current), !.current = <<>>,
                               !.times = Append(@, elapsed),
                               !.finished = @ \/ Len(s.done) + 1 >= s.num]
           open == [s EXCEPT !.current = current]
<1>1. s \in [app : Apps, pattern : Widths, num : Nat, done : Seq(Seq(Entry)),
             current : Seq(Entry), times : Widths, finished : BOOLEAN]
  BY DEF IsStructure
<1>2. AddLength(s, entry, elapsed) \in {s, closed, open}
  BY DEF AddLength
<1> HIDE DEF current
<1>3. closed.done = Append(s.done, current) /\ open.done = s.done
  BY <1>1
<1> QED
  BY <1>2, <1>3 DEF current

\* A completion takes no stage away.
LEMMA TrackKeepsStages ==
    ASSUME GraphInv, NEW c \in Collections, HasStructure(c), NEW r \in Nat \ {0},
           TrackCollectionCompletion(c, r)
    PROVE  \A d \in Collections :
             LastStageLeft(structure[d]) => LastStageLeft(structure'[d])
<1>1. PICK out \in setup.outputs, elapsed \in 1..MaxElapsed :
        structure' = [structure EXCEPT ![c] =
                        AddLength(@, [round |-> r, out |-> out], elapsed)]
  BY DEF TrackCollectionCompletion
<1> DEFINE entry == [round |-> r, out |-> out]
           s == structure[c]
           t == AddLength(s, entry, elapsed)
           current == Append(s.current, entry)
<1>2. entry \in Entry /\ elapsed \in Nat \ {0}
  BY SentType, ContextAssumption DEF Entry
<1>3. /\ IsStructure(s, App[c], Shape[c]) /\ Shape[c] \in Widths
      /\ DOMAIN structure = Collections
  BY ShapeType DEF GraphInv, StructuresKept, TypesKept
<1>4. structure' = [structure EXCEPT ![c] = t]
  BY <1>1
<1> HIDE DEF s, entry
<1>5. t.done = s.done \/ t.done = Append(s.done, current)
  BY <1>3, AddsOneStage
<1>6. /\ s.done \in Seq(Seq(Entry)) /\ s.current \in Seq(Entry)
      /\ Len(TotPattern) \in Nat
  BY <1>3, ShapeType, WeightsType DEF IsStructure
<1> HIDE DEF s, t, entry
<1>7. current \in Seq(Entry)
  BY <1>2, <1>6, AppendType
<1>8. /\ Len(s.done) \in Nat
      /\ Len(t.done) = Len(s.done) \/ Len(t.done) = Len(s.done) + 1
  BY <1>5, <1>6, <1>7, AppendType, LenProperties
<1>9. LastStageLeft(s) => LastStageLeft(t)
  BY <1>6, <1>8 DEF LastStageLeft
<1> QED
  BY <1>3, <1>4, <1>9 DEF s

\* The share of a deadline that a request gets is a fraction of it, except that
\* static matching fails in the last stage of a tree of thought.
THEOREM RatioIsAlwaysFraction == Spec => []RatioIsFraction
<1> DEFINE Sound(c) == \/ IsFraction(ratio[c])
                       \/ /\ ratio[c] = IndexError /\ StaticTree(c)
                          /\ LastStageLeft(structure[c])
<1>1. RatioIsFraction <=> \A c \in Collections : Sound(c)
  BY DEF RatioIsFraction, IsFraction, LastStageLeft
<1>2. RatioIsFraction' <=> \A c \in Collections : Sound(c)'
  BY DEF RatioIsFraction, IsFraction, LastStageLeft
<1>3. Init => RatioIsFraction
  BY <1>1 DEF Init, IsFraction
<1>4. ASSUME GraphInv, RatioIsFraction, [Next]_vars
      PROVE  RatioIsFraction'
  <2> SUFFICES ASSUME NEW d \in Collections PROVE Sound(d)'
    BY <1>2
  <2>1. Sound(d)
    BY <1>1, <1>4
  <2>2. StaticTree(d)' <=> StaticTree(d)
    BY <1>4 DEF Next, vars, HandleCollectiveRequest, Complete, TimeOut, NextStage,
                NextRound, Disconnected, CompleteLate, StaticTree
  <2>3. ASSUME NEW c \in setup.sent, NEW i \in DOMAIN request[c],
               HandleCollectiveRequest(c, i)
        PROVE  Sound(d)'
    <3> DEFINE s == InitCollection(c)
               entry == [round |-> round[c], out |-> 0]
    <3>1. c \in Collections
      BY <1>4, SentType
    <3>2. IsStructure(s, App[c], Shape[c])
      BY <1>4, <3>1, InitStructure DEF GraphInv, StructuresKept
    <3>3. entry \in Entry
      BY <1>4, <3>1 DEF Entry, GraphInv, TypesKept
    <3>4. PICK best \in BestMatches :
            /\ ratio' = [ratio EXCEPT ![c] =
                           StageRatio(c, ToUnfinishedGraph(s, entry), best)]
            /\ structure' = [structure EXCEPT ![c] = s]
      BY <2>3 DEF HandleCollectiveRequest
    <3> DEFINE r == StageRatio(c, ToUnfinishedGraph(s, entry), best)
    <3>5. IsFraction(r) \/ (r = IndexError /\ StaticTree(c) /\ LastStageLeft(s))
      <4> HIDE DEF s, entry
      <4> QED
        BY <1>4, <3>2, <3>3, StageRatioIsFraction, StaticTreeRatio
    <3>6. DOMAIN ratio = Collections /\ DOMAIN structure = Collections
      BY <1>4 DEF GraphInv, TypesKept
    <3>7. ratio' = [ratio EXCEPT ![c] = r] /\ structure' = [structure EXCEPT ![c] = s]
      BY <3>4
    <3> HIDE DEF s, r
    <3>8. CASE d = c
      BY <2>2, <3>1, <3>5, <3>6, <3>7, <3>8
    <3>9. CASE d # c
      BY <2>1, <2>2, <3>6, <3>7, <3>9
    <3> QED
      BY <3>8, <3>9
  <2>4. ASSUME NEW c \in Collections, HasStructure(c), NEW r \in Nat \ {0},
               TrackCollectionCompletion(c, r), ratio' = ratio
        PROVE  Sound(d)'
    BY <1>4, <2>1, <2>2, <2>4, TrackKeepsStages
  <2>5. ASSUME NEW c \in setup.sent, NEW i \in DOMAIN request[c], Complete(c, i)
        PROVE  Sound(d)'
    <3>1. c \in Collections
      BY <1>4, SentType
    <3>2. HasStructure(c) /\ round[c] \in Nat \ {0}
      BY <1>4, <2>5, <3>1 DEF Complete, GraphInv, StructuresKept, TypesKept
    <3> QED
      BY <2>4, <2>5, <3>1, <3>2 DEF Complete
  <2>6. ASSUME NEW a \in abandoned, CompleteLate(a)
        PROVE  Sound(d)'
    <3>1. a[1] \in Collections /\ a[2] \in Nat \ {0} /\ HasStructure(a[1])
      BY <1>4 DEF GraphInv, TypesKept, StructuresKept
    <3> QED
      BY <2>4, <2>6, <3>1 DEF CompleteLate
  <2>7. ASSUME UNCHANGED <<ratio, structure>>
        PROVE  Sound(d)'
    BY <2>1, <2>2, <2>7
  <2>8. \/ \E c \in setup.sent : \E i \in DOMAIN request[c] :
             HandleCollectiveRequest(c, i) \/ Complete(c, i)
        \/ \E a \in abandoned : CompleteLate(a)
        \/ UNCHANGED <<ratio, structure>>
    BY <1>4 DEF Next, vars, TimeOut, NextStage, NextRound, Disconnected
  <2> QED
    BY <2>3, <2>5, <2>6, <2>7, <2>8
<1> QED
  BY <1>3, <1>4, GraphAlways, PTL DEF Spec

-----------------------------------------------------------------------------
(* The invariant while no client times out and no handler fails.           *)

\* No request fails, and none is left behind by its client.
Undisturbed ==
    /\ abandoned = {}
    /\ \A c \in Collections : \A i \in DOMAIN request[c] : request[c][i] # "failed"

\* The collection is about to be sent.
Fresh(c) == stage[c] = 1 /\ \A i \in DOMAIN request[c] : request[c][i] = "unsent"

DoneIn(c) == {i \in DOMAIN request[c] : request[c][i] = "done"}

\* The structure has counted what the client has got answers to, stage for
\* stage; what is left of an earlier round is finished, and will be reset.
CountsOf(c) ==
    /\ Fresh(c) /\ HasStructure(c) => structure[c].finished
    /\ ~Fresh(c) =>
        /\ HasStructure(c)
        /\ StageAnswered(c) => /\ Len(structure[c].done) = stage[c]
                               /\ structure[c].current = <<>>
        /\ ~StageAnswered(c) => /\ Len(structure[c].done) = stage[c] - 1
                                /\ Len(structure[c].current) = Cardinality(DoneIn(c))

OfRound(entries, r) == \A j \in 1..Len(entries) : entries[j].round = r
AllOfRound(stages, r) == \A i \in 1..Len(stages) : OfRound(stages[i], r)

\* What a structure has counted is of the round that the client is in.
RoundOf(c) ==
    ~Fresh(c) => /\ OfRound(structure[c].current, round[c])
                 /\ AllOfRound(structure[c].done, round[c])

\* The graphs of a round, and the collections that have been through it.
LearnedIn(r) == {k \in 1..Len(finished) : AllOfRound(finished[k].nodes, r)}
OverIn(r) == {c \in Collections : RoundsDone(c) >= r}

LearningKept ==
    /\ \A k \in 1..Len(finished) : \E r \in Nat \ {0} : AllOfRound(finished[k].nodes, r)
    /\ \A r \in Nat \ {0} : Cardinality(LearnedIn(r)) = Cardinality(OverIn(r))

CalmInv ==
    /\ Undisturbed
    /\ \A c \in Collections : CountsOf(c) /\ RoundOf(c)
    /\ LearningKept

\* A stage has requests, and is answered when all of them are done.
LEMMA StageType ==
    ASSUME TypesKept, Undisturbed, NEW c \in Collections
    PROVE  /\ request[c] \in [1..Shape[c][stage[c]] -> States]
           /\ Shape[c][stage[c]] \in Nat \ {0}
           /\ stage[c] \in 1..Len(Shape[c]) /\ Len(Shape[c]) \in Nat
           /\ StageAnswered(c) <=> \A i \in DOMAIN request[c] : request[c][i] = "done"
           /\ ~StageFailed(c)
           /\ round[c] \in Nat \ {0}
<1>1. /\ request[c] \in [1..Shape[c][stage[c]] -> States]
      /\ stage[c] \in Nat \ {0} /\ stage[c] <= Len(Shape[c])
      /\ Len(Shape[c]) \in Nat /\ round[c] \in Nat \ {0}
  BY ShapeType, WidthsType DEF TypesKept
<1>2. stage[c] \in 1..Len(Shape[c]) /\ Shape[c][stage[c]] \in Nat \ {0}
  BY <1>1, ShapeType, WidthsType
<1>3. /\ StageAnswered(c) <=> \A i \in DOMAIN request[c] : request[c][i] = "done"
      /\ ~StageFailed(c)
  <2>1. \A i \in DOMAIN request[c] : /\ request[c][i] # "failed"
                                     /\ request[c][i] \in States
    BY <1>1 DEF Undisturbed
  <2> QED
    BY <2>1 DEF StageAnswered, StageFailed, Range1
<1> QED
  BY <1>1, <1>2, <1>3

\* The same, after a step.
LEMMA StageTypeAfter ==
    ASSUME TypesKept', Undisturbed', NEW c \in Collections
    PROVE  /\ request'[c] \in [1..Shape[c][stage'[c]] -> States]
           /\ Shape[c][stage'[c]] \in Nat \ {0}
           /\ StageAnswered(c)' <=> \A i \in DOMAIN request'[c] : request'[c][i] = "done"
<1>1. /\ request'[c] \in [1..Shape[c][stage'[c]] -> States]
      /\ stage'[c] \in Nat \ {0} /\ stage'[c] <= Len(Shape[c])
      /\ Len(Shape[c]) \in Nat
  BY ShapeType, WidthsType DEF TypesKept
<1>2. stage'[c] \in 1..Len(Shape[c]) /\ Shape[c][stage'[c]] \in Nat \ {0}
  BY <1>1, ShapeType, WidthsType
<1>3. \A i \in DOMAIN request'[c] : /\ request'[c][i] # "failed"
                                    /\ request'[c][i] \in States
  BY <1>1 DEF Undisturbed
<1>4. StageAnswered(c)' <=> \A i \in DOMAIN request'[c] : request'[c][i] = "done"
  BY <1>3 DEF StageAnswered, Range1
<1> QED
  BY <1>1, <1>2, <1>4

\* A collection that does not change.
LEMMA OthersStay ==
    ASSUME NEW d, CountsOf(d), RoundOf(d), structure'[d] = structure[d],
           stage'[d] = stage[d], round'[d] = round[d], request'[d] = request[d]
    PROVE  CountsOf(d)' /\ RoundOf(d)' /\ RoundsDone(d)' = RoundsDone(d)
<1>1. /\ Fresh(d)' <=> Fresh(d)
      /\ StageAnswered(d)' <=> StageAnswered(d)
      /\ DoneIn(d)' = DoneIn(d)
  BY DEF Fresh, StageAnswered, DoneIn
<1>2. RoundsDone(d)' = RoundsDone(d)
  BY <1>1 DEF RoundsDone
<1>3. CountsOf(d)'
  BY <1>1 DEF CountsOf, HasStructure
<1>4. RoundOf(d)'
  BY <1>1 DEF RoundOf
<1> QED
  BY <1>2, <1>3, <1>4

LEMMA LearningStays ==
    ASSUME LearningKept, finished' = finished,
           \A d \in Collections : RoundsDone(d)' = RoundsDone(d)
    PROVE  LearningKept'
<1>1. \A r : LearnedIn(r)' = LearnedIn(r)
  BY DEF LearnedIn
<1>2. \A r : OverIn(r)' = OverIn(r)
  BY DEF OverIn
<1> QED
  BY <1>1, <1>2 DEF LearningKept

\* A graph with a shape has an entry, so it is of one round at most.
LEMMA GraphHasEntry ==
    ASSUME GraphInv, NEW g, NEW c \in Collections, IsGraph(g, App[c], Shape[c])
    PROVE  /\ 1 \in 1..Len(g.nodes) /\ 1 \in 1..Len(g.nodes[1])
           /\ \A q, r : AllOfRound(g.nodes, q) /\ AllOfRound(g.nodes, r) => q = r
<1>1. Len(Shape[c]) \in Nat /\ Len(Shape[c]) >= 1 /\ Shape[c][1] \in Nat \ {0}
  BY ShapeType, WidthsType
<1>2. 1 \in 1..Len(g.nodes) /\ 1 \in 1..Len(g.nodes[1])
  BY <1>1 DEF IsGraph
<1> QED
  BY <1>2 DEF AllOfRound, OfRound

\* A collection ends its round: one more graph of that round.
LEMMA LearningGrows ==
    ASSUME GraphInv, LearningKept, NEW c \in Collections, NEW g,
           IsGraph(g, App[c], Shape[c]),
           NEW q \in Nat \ {0}, AllOfRound(g.nodes, q),
           finished' = Append(finished, g),
           RoundsDone(c) = q - 1, RoundsDone(c)' = q,
           \A d \in Collections : d # c => RoundsDone(d)' = RoundsDone(d)
    PROVE  LearningKept'
<1> DEFINE n == Len(finished)
<1>1. /\ Len(finished') = n + 1 /\ n \in Nat
      /\ \A k \in 1..n : finished'[k] = finished[k]
      /\ finished'[n + 1] = g
  <2>1. finished \in Seq(Graph) /\ g \in Graph
    BY DEF GraphInv, GraphsKept, IsGraph
  <2> QED
    BY <2>1, AppendType
<1>2. \A k \in 1..n + 1 : k \in 1..n \/ k = n + 1
  BY <1>1
<1>3. ASSUME NEW k \in 1..Len(finished')
      PROVE  \E r \in Nat \ {0} : AllOfRound(finished'[k].nodes, r)
  BY <1>1, <1>2 DEF LearningKept
<1>4. ASSUME NEW r \in Nat \ {0}
      PROVE  Cardinality(LearnedIn(r)') = Cardinality(OverIn(r)')
  <2>1. /\ IsFiniteSet(LearnedIn(r)) /\ IsFiniteSet(OverIn(r))
        /\ n + 1 \notin LearnedIn(r)
        /\ Cardinality(LearnedIn(r)) = Cardinality(OverIn(r))
    <3>1. IsFiniteSet(1..n) /\ LearnedIn(r) \in SUBSET (1..n)
      BY <1>1, FS_Interval DEF LearnedIn
    <3>2. IsFiniteSet(Collections) /\ OverIn(r) \in SUBSET Collections
      BY ContextAssumption DEF OverIn
    <3>3. n + 1 \notin 1..n
      BY <1>1
    <3> QED
      BY <3>1, <3>2, <3>3, FS_Subset DEF LearningKept
  <2>2. CASE r = q
    <3>1. LearnedIn(r)' = LearnedIn(r) \cup {n + 1}
      BY <1>1, <1>2, <2>2 DEF LearnedIn
    <3>2. OverIn(r)' = OverIn(r) \cup {c} /\ c \notin OverIn(r)
      <4>1. \A d \in Collections : RoundsDone(d)' >= r <=> d = c \/ RoundsDone(d) >= r
        BY <2>2
      <4>2. ~(RoundsDone(c) >= r)
        BY <2>2
      <4> QED
        BY <4>1, <4>2, Zenon DEF OverIn
    <3>3. Cardinality(LearnedIn(r) \cup {n + 1}) = Cardinality(LearnedIn(r)) + 1
      BY <2>1, FS_AddElement
    <3>4. Cardinality(OverIn(r) \cup {c}) = Cardinality(OverIn(r)) + 1
      BY <2>1, <3>2, FS_AddElement
    <3> QED
      BY <2>1, <3>1, <3>2, <3>3, <3>4
  <2>3. CASE r # q
    <3>1. ~AllOfRound(g.nodes, r)
      BY <2>3, GraphHasEntry
    <3>2. LearnedIn(r)' = LearnedIn(r)
      BY <1>1, <1>2, <3>1 DEF LearnedIn
    <3>3. (RoundsDone(c)' >= r) <=> (RoundsDone(c) >= r)
      BY <2>3
    <3>4. OverIn(r)' = OverIn(r)
      <4>1. \A d \in Collections : (RoundsDone(d)' >= r) <=> (RoundsDone(d) >= r)
        BY <3>3
      <4> QED
        BY <4>1 DEF OverIn
    <3> QED
      BY <2>1, <3>2, <3>4
  <2> QED
    BY <2>2, <2>3
<1> QED
  BY <1>3, <1>4 DEF LearningKept

LEMMA InitCalm == Init => CalmInv
<1> SUFFICES ASSUME Init PROVE CalmInv
  OBVIOUS
<1>1. GraphInv
  BY InitGraph
<1>2. \A c \in Collections : /\ stage[c] = 1 /\ round[c] = 1
                             /\ \A i \in DOMAIN request[c] : request[c][i] = "unsent"
                             /\ ~HasStructure(c)
  BY DEF Init, Unsent, HasStructure
<1>3. Undisturbed
  BY <1>2 DEF Init, Undisturbed
<1>4. \A c \in Collections : Fresh(c) /\ CountsOf(c) /\ RoundOf(c)
  BY <1>2 DEF Fresh, CountsOf, RoundOf
<1>5. \A c \in Collections : RoundsDone(c) = 0
  <2>1. ASSUME NEW c \in Collections PROVE ~StageAnswered(c)
    <3>1. /\ request[c] \in [1..Shape[c][stage[c]] -> States]
          /\ Shape[c][stage[c]] \in Nat \ {0}
          /\ StageAnswered(c) <=> \A i \in DOMAIN request[c] : request[c][i] = "done"
      BY <1>1, <1>3, StageType DEF GraphInv
    <3>2. 1 \in DOMAIN request[c]
      BY <3>1
    <3> QED
      BY <1>2, <3>1, <3>2
  <2> QED
    BY <1>2, <2>1 DEF RoundsDone
<1>6. LearningKept
  <2>1. \A r \in Nat \ {0} : LearnedIn(r) = {} /\ OverIn(r) = {}
    BY <1>5 DEF Init, LearnedIn, OverIn
  <2>2. 1..Len(finished) = {}
    BY DEF Init
  <2> QED
    BY <2>1, <2>2 DEF LearningKept
<1> QED
  BY <1>3, <1>4, <1>6 DEF CalmInv

-----------------------------------------------------------------------------
(* Every step keeps CalmInv while no client times out.                     *)

LEMMA UndisturbedStays ==
    ASSUME TypesKept, Undisturbed, NEW c \in Collections, NEW i \in DOMAIN request[c],
           NEW v \in {"engine", "done"}, request' = [request EXCEPT ![c][i] = v],
           abandoned' = abandoned
    PROVE  Undisturbed'
<1>1. v \in States
  BY DEF States
<1>2. /\ \A d \in Collections : d # c => request'[d] = request[d]
      /\ DOMAIN request'[c] = DOMAIN request[c] /\ request'[c][i] = v
      /\ \A j \in DOMAIN request[c] : j # i => request'[c][j] = request[c][j]
  BY <1>1, OneRequestChanges
<1>3. \A d \in Collections : \A j \in DOMAIN request'[d] : request'[d][j] # "failed"
  BY <1>2 DEF Undisturbed
<1> QED
  BY <1>3 DEF Undisturbed

LEMMA HandleKeepsCalm ==
    ASSUME GraphInv, CalmInv, Calm, GraphInv',
           NEW c \in setup.sent, NEW i \in DOMAIN request[c],
           HandleCollectiveRequest(c, i)
    PROVE  CalmInv'
<1> DEFINE s == InitCollection(c)
<1>1. /\ c \in Collections /\ request[c][i] = "unsent"
      /\ structure' = [structure EXCEPT ![c] = s]
      /\ request' = [request EXCEPT ![c][i] = "engine"]
      /\ UNCHANGED <<setup, finished, round, stage, abandoned>>
  BY SentType, HandleRatio DEF HandleCollectiveRequest, Calm
<1>2. Undisturbed'
  BY <1>1, UndisturbedStays DEF GraphInv, CalmInv
<1>3. /\ \A d \in Collections : d # c => request'[d] = request[d]
      /\ DOMAIN request'[c] = DOMAIN request[c] /\ request'[c][i] = "engine"
      /\ \A j \in DOMAIN request[c] : j # i => request'[c][j] = request[c][j]
  <2>1. "engine" \in States
    BY DEF States
  <2> QED
    BY <1>1, <2>1, OneRequestChanges DEF GraphInv
<1>4. /\ structure'[c] = s
      /\ \A d \in Collections : d # c => structure'[d] = structure[d]
  BY <1>1 DEF GraphInv, TypesKept
<1>5. /\ stage[c] \in 1..Len(Shape[c]) /\ Len(Shape[c]) \in Nat
      /\ ~StageAnswered(c)
  BY <1>1, StageType DEF GraphInv, CalmInv
<1>6. ~StageAnswered(c)' /\ ~Fresh(c)' /\ DoneIn(c)' = DoneIn(c)
  <2>1. StageAnswered(c)' <=> \A j \in DOMAIN request'[c] : request'[c][j] = "done"
    <3>1. TypesKept' /\ Undisturbed'
      BY <1>2 DEF GraphInv
    <3> QED
      BY <1>1, <3>1, StageTypeAfter
  <2> QED
    BY <1>1, <1>3, <2>1 DEF Fresh, DoneIn
<1>7. /\ HasStructure(c) => IsStructure(structure[c], App[c], Shape[c])
      /\ IsStructure(s, App[c], Shape[c])
      /\ IF HasStructure(c) /\ ~structure[c].finished THEN s = structure[c]
         ELSE s.done = <<>> /\ s.current = <<>> /\ ~s.finished
  BY <1>1, InitStructure DEF GraphInv, StructuresKept
<1>8. CountsOf(c)' /\ RoundOf(c)'
  <2>1. HasStructure(c)'
    BY <1>4, <1>7, IsNotNone DEF HasStructure
  <2>2. CASE Fresh(c)
    <3>1. s.done = <<>> /\ s.current = <<>>
      BY <1>1, <1>7, <2>2 DEF CalmInv, CountsOf
    <3>2. stage'[c] = 1 /\ DoneIn(c)' = {}
      BY <1>1, <1>6, <2>2 DEF Fresh, DoneIn
    <3>3. Len(<<>>) = 0 /\ 1..0 = {} /\ Cardinality({}) = 0
      BY EmptySeq, FS_EmptySet
    <3>4. CountsOf(c)'
      BY <1>4, <1>6, <2>1, <3>1, <3>2, <3>3 DEF CountsOf
    <3>5. RoundOf(c)'
      BY <1>4, <3>1, <3>3 DEF RoundOf, OfRound, AllOfRound
    <3> QED
      BY <3>4, <3>5
  <2>3. CASE ~Fresh(c)
    <3>1. /\ HasStructure(c) /\ Len(structure[c].done) = stage[c] - 1
          /\ Len(structure[c].current) = Cardinality(DoneIn(c))
      BY <1>1, <1>5, <2>3 DEF CalmInv, CountsOf
    <3>2. ~structure[c].finished
      BY <1>5, <1>7, <3>1 DEF IsStructure
    <3>3. structure'[c] = structure[c]
      BY <1>4, <1>7, <3>1, <3>2
    <3>4. CountsOf(c)'
      BY <1>1, <1>6, <2>1, <3>1, <3>3 DEF CountsOf
    <3>5. RoundOf(c)'
      BY <1>1, <2>3, <3>3 DEF RoundOf, CalmInv
    <3> QED
      BY <3>4, <3>5
  <2> QED
    BY <2>2, <2>3
<1>9. ASSUME NEW d \in Collections, d # c
      PROVE  CountsOf(d)' /\ RoundOf(d)' /\ RoundsDone(d)' = RoundsDone(d)
  <2>1. /\ structure'[d] = structure[d] /\ request'[d] = request[d]
        /\ stage'[d] = stage[d] /\ round'[d] = round[d]
        /\ CountsOf(d) /\ RoundOf(d)
    BY <1>1, <1>3, <1>4, <1>9 DEF CalmInv
  <2> QED
    BY <2>1, OthersStay
<1>10. LearningKept'
  <2>1. RoundsDone(c)' = RoundsDone(c)
    BY <1>1, <1>5, <1>6 DEF RoundsDone
  <2> QED
    BY <1>1, <1>9, <2>1, LearningStays DEF CalmInv
<1> QED
  BY <1>2, <1>8, <1>9, <1>10 DEF CalmInv

\* A set of the requests of a stage has them all when it has as many.
LEMMA AllWhenAsMany ==
    ASSUME NEW n \in Nat, NEW S \in SUBSET (1..n), NEW i \in 1..n, i \notin S
    PROVE  /\ Cardinality(S) \in Nat
           /\ Cardinality(S \cup {i}) = Cardinality(S) + 1
           /\ Cardinality(S) + 1 = n <=> S \cup {i} = 1..n
<1>1. IsFiniteSet(1..n) /\ Cardinality(1..n) = n
  BY FS_Interval
<1>2. IsFiniteSet(S) /\ S \cup {i} \in SUBSET (1..n)
  BY <1>1, FS_Subset
<1>3. Cardinality(S) \in Nat /\ Cardinality(S \cup {i}) = Cardinality(S) + 1
  BY <1>2, FS_CardinalityType, FS_AddElement
<1>4. Cardinality(S \cup {i}) = n => S \cup {i} = 1..n
  BY <1>1, <1>2, FS_Subset
<1> QED
  BY <1>1, <1>3, <1>4

LEMMA CompleteKeepsCalm ==
    ASSUME GraphInv, CalmInv, GraphInv',
           NEW c \in Collections, NEW i \in DOMAIN request[c], Complete(c, i)
    PROVE  CalmInv'
<1> DEFINE q == round[c]
           n == Shape[c][stage[c]]
<1>1. /\ request[c][i] = "engine" /\ TrackCollectionCompletion(c, q)
      /\ request' = [request EXCEPT ![c][i] = "done"]
      /\ UNCHANGED <<setup, round, stage, abandoned, ratio>>
  BY DEF Complete
<1>2. Undisturbed'
  BY <1>1, UndisturbedStays DEF GraphInv, CalmInv
<1>3. /\ \A d \in Collections : d # c => request'[d] = request[d]
      /\ DOMAIN request'[c] = DOMAIN request[c] /\ request'[c][i] = "done"
      /\ \A j \in DOMAIN request[c] : j # i => request'[c][j] = request[c][j]
  <2>1. "done" \in States
    BY DEF States
  <2> QED
    BY <1>1, <2>1, OneRequestChanges DEF GraphInv
<1>4. /\ request[c] \in [1..n -> States] /\ n \in Nat \ {0}
      /\ stage[c] \in 1..Len(Shape[c]) /\ Len(Shape[c]) \in Nat
      /\ q \in Nat \ {0}
      /\ ~StageAnswered(c) /\ ~Fresh(c)
  BY <1>1, StageType DEF GraphInv, CalmInv, Fresh
<1>5. /\ HasStructure(c) /\ IsStructure(structure[c], App[c], Shape[c])
      /\ Len(structure[c].done) = stage[c] - 1
      /\ Len(structure[c].current) = Cardinality(DoneIn(c))
      /\ ~structure[c].finished
      /\ OfRound(structure[c].current, q) /\ AllOfRound(structure[c].done, q)
  <2>1. CountsOf(c) /\ RoundOf(c)
    BY DEF CalmInv
  <2>2. /\ HasStructure(c) /\ Len(structure[c].done) = stage[c] - 1
        /\ Len(structure[c].current) = Cardinality(DoneIn(c))
    BY <1>4, <2>1 DEF CountsOf
  <2>3. IsStructure(structure[c], App[c], Shape[c])
    BY <2>2 DEF GraphInv, StructuresKept
  <2>4. ~structure[c].finished
    BY <1>4, <2>2, <2>3 DEF IsStructure
  <2> QED
    BY <1>4, <2>1, <2>2, <2>3, <2>4 DEF RoundOf
<1>6. /\ \A d \in Collections : d # c => structure'[d] = structure[d]
      /\ IsStructure(structure'[c], App[c], Shape[c])
      /\ finished' = IF structure'[c].finished
                     THEN Append(finished, ToGraph(structure'[c])) ELSE finished
  BY <1>1, <1>4, <1>5, TrackKeeps
<1> DEFINE s == structure[c]
           t == structure'[c]
           ends == Len(s.current) + 1 = Shape[c][Len(s.done) + 1]
<1>7. PICK entry \in Entry :
        LET current == Append(s.current, entry)
        IN /\ entry.round = q
           /\ ends => /\ t.done = Append(s.done, current) /\ t.current = <<>>
                      /\ t.finished <=> Len(s.done) + 1 = Len(Shape[c])
           /\ ~ends => t.done = s.done /\ t.current = current /\ ~t.finished
  <2>1. PICK out \in setup.outputs, elapsed \in 1..MaxElapsed :
          structure' = [structure EXCEPT ![c] =
                          AddLength(structure[c], [round |-> q, out |-> out], elapsed)]
    BY <1>1 DEF TrackCollectionCompletion
  <2> DEFINE entry == [round |-> q, out |-> out]
  <2>2. entry \in Entry /\ entry.round = q /\ elapsed \in Nat \ {0}
    BY <1>4, SentType, ContextAssumption DEF Entry
  <2>3. t = AddLength(s, entry, elapsed)
    BY <2>1 DEF GraphInv, TypesKept
  <2>4. Shape[c] \in Widths
    BY ShapeType
  <2> HIDE DEF entry
  <2>5. LET current == Append(s.current, entry)
        IN /\ ends => /\ t.done = Append(s.done, current) /\ t.current = <<>>
                      /\ t.finished <=> Len(s.done) + 1 = Len(Shape[c])
           /\ ~ends => t.done = s.done /\ t.current = current /\ ~t.finished
    <3>1. IsStructure(s, App[c], Shape[c]) /\ ~s.finished
      BY <1>5
    <3> DEFINE u == AddLength(s, entry, elapsed)
               current == Append(s.current, entry)
    <3> HIDE DEF s
    <3>2. /\ ~s.finished /\ ends =>
                /\ u.done = Append(s.done, current) /\ u.current = <<>>
                /\ u.finished <=> Len(s.done) + 1 = Len(Shape[c])
          /\ ~s.finished /\ ~ends =>
                u.done = s.done /\ u.current = current /\ ~u.finished
      BY <2>2, <2>4, <3>1, AddKeepsStructure
    <3> HIDE DEF t, u, ends, current
    <3>3. /\ ends => /\ u.done = Append(s.done, current) /\ u.current = <<>>
                     /\ u.finished <=> Len(s.done) + 1 = Len(Shape[c])
          /\ ~ends => u.done = s.done /\ u.current = current /\ ~u.finished
      BY <3>1, <3>2
    <3>4. t = u
      BY <2>3 DEF u
    <3> QED
      BY <3>3, <3>4 DEF current
  <2> QED
    BY <2>2, <2>5
<1> DEFINE current == Append(s.current, entry)
<1>8. /\ s.done \in Seq(Seq(Entry)) /\ s.current \in Seq(Entry)
      /\ Len(s.done) \in Nat /\ Len(s.current) \in Nat
  BY <1>5, LenProperties DEF IsStructure
<1>9. /\ current \in Seq(Entry) /\ Len(current) = Len(s.current) + 1
      /\ OfRound(current, q)
  <2>1. /\ current \in Seq(Entry) /\ Len(current) = Len(s.current) + 1
        /\ \A j \in 1..Len(s.current) : current[j] = s.current[j]
        /\ current[Len(s.current) + 1] = entry
    BY <1>8, AppendType
  <2>2. \A j \in 1..Len(current) : j \in 1..Len(s.current) \/ j = Len(s.current) + 1
    BY <1>8, <2>1
  <2>3. entry.round = q
    BY <1>7
  <2> HIDE DEF current
  <2> QED
    BY <1>5, <2>1, <2>2, <2>3 DEF OfRound
<1>10. /\ ends => /\ t.done = Append(s.done, current) /\ t.current = <<>>
                  /\ t.finished <=> Len(s.done) + 1 = Len(Shape[c])
       /\ ~ends => t.done = s.done /\ t.current = current /\ ~t.finished
  BY <1>7
<1> HIDE DEF current
<1>11. ends => /\ Len(t.done) = Len(s.done) + 1 /\ AllOfRound(t.done, q)
  <2> SUFFICES ASSUME ends
               PROVE  Len(t.done) = Len(s.done) + 1 /\ AllOfRound(t.done, q)
    OBVIOUS
  <2>1. t.done = Append(s.done, current)
    BY <1>10
  <2>2. /\ Len(t.done) = Len(s.done) + 1
        /\ \A j \in 1..Len(s.done) : t.done[j] = s.done[j]
        /\ t.done[Len(s.done) + 1] = current
    <3> HIDE DEF s, t
    <3> QED
      BY <1>8, <1>9, <2>1, AppendType
  <2>3. \A j \in 1..Len(t.done) : j \in 1..Len(s.done) \/ j = Len(s.done) + 1
    BY <1>8, <2>2
  <2>4. AllOfRound(s.done, q)
    BY <1>5
  <2> HIDE DEF s, t
  <2> QED
    BY <1>9, <2>2, <2>3, <2>4 DEF AllOfRound
<1>12. /\ DoneIn(c)' = DoneIn(c) \cup {i}
       /\ Cardinality(DoneIn(c)') = Cardinality(DoneIn(c)) + 1
       /\ Cardinality(DoneIn(c)) + 1 = n <=> StageAnswered(c)'
       /\ ~Fresh(c)'
  <2>1. DoneIn(c) \in SUBSET (1..n) /\ i \in 1..n /\ i \notin DoneIn(c)
    BY <1>1, <1>4 DEF DoneIn
  <2>2. DoneIn(c)' = DoneIn(c) \cup {i} /\ ~Fresh(c)'
    BY <1>3, <2>1 DEF DoneIn, Fresh
  <2>3. StageAnswered(c)' <=> \A j \in DOMAIN request'[c] : request'[c][j] = "done"
    <3>1. TypesKept' /\ Undisturbed'
      BY <1>2 DEF GraphInv
    <3> QED
      BY <3>1, StageTypeAfter
  <2>4. StageAnswered(c)' <=> DoneIn(c)' = 1..n
    BY <1>3, <1>4, <2>3 DEF DoneIn
  <2>5. n \in Nat
    BY <1>4
  <2> HIDE DEF n
  <2>6. /\ Cardinality(DoneIn(c) \cup {i}) = Cardinality(DoneIn(c)) + 1
        /\ Cardinality(DoneIn(c)) + 1 = n <=> DoneIn(c) \cup {i} = 1..n
    BY <2>1, <2>5, AllWhenAsMany
  <2> QED
    BY <2>2, <2>4, <2>6
<1>13. ends <=> StageAnswered(c)'
  BY <1>4, <1>5, <1>12
<1>14. CountsOf(c)' /\ RoundOf(c)'
  <2>1. HasStructure(c)'
    BY <1>6, IsNotNone DEF HasStructure
  <2>2. stage'[c] = stage[c] /\ round'[c] = q
    BY <1>1
  <2>3. CASE ends
    <3>1. Len(t.done) = stage[c] /\ t.current = <<>>
      BY <1>4, <1>5, <1>10, <1>11, <2>3
    <3>2. CountsOf(c)'
      BY <1>12, <1>13, <2>1, <2>2, <2>3, <3>1 DEF CountsOf
    <3>3. OfRound(t.current, q)
      <4>1. Len(<<>>) = 0
        BY EmptySeq
      <4> QED
        BY <3>1, <4>1 DEF OfRound
    <3>4. RoundOf(c)'
      BY <1>11, <2>2, <2>3, <3>3 DEF RoundOf
    <3> QED
      BY <3>2, <3>4
  <2>4. CASE ~ends
    <3>1. t.done = s.done /\ t.current = current
      BY <1>10, <2>4
    <3>2. Len(t.done) = stage[c] - 1 /\ Len(t.current) = Cardinality(DoneIn(c)')
      BY <1>5, <1>9, <1>12, <3>1
    <3>3. CountsOf(c)'
      BY <1>12, <1>13, <2>1, <2>2, <2>4, <3>2 DEF CountsOf
    <3>4. RoundOf(c)'
      BY <1>5, <1>9, <2>2, <3>1 DEF RoundOf
    <3> QED
      BY <3>3, <3>4
  <2> QED
    BY <2>3, <2>4
<1>15. ASSUME NEW d \in Collections, d # c
       PROVE  CountsOf(d)' /\ RoundOf(d)' /\ RoundsDone(d)' = RoundsDone(d)
  <2>1. /\ structure'[d] = structure[d] /\ request'[d] = request[d]
        /\ stage'[d] = stage[d] /\ round'[d] = round[d]
        /\ CountsOf(d) /\ RoundOf(d)
    BY <1>1, <1>3, <1>6, <1>15 DEF CalmInv
  <2> QED
    BY <2>1, OthersStay
<1>16. LearningKept'
  <2>1. RoundsDone(c) = q - 1
    BY <1>4 DEF RoundsDone
  <2>2. RoundsDone(c)' = IF stage[c] = Len(Shape[c]) /\ ends THEN q ELSE q - 1
    BY <1>1, <1>13 DEF RoundsDone
  <2>3. t.finished <=> stage[c] = Len(Shape[c]) /\ ends
    BY <1>4, <1>5, <1>10
  <2>4. CASE t.finished
    <3> DEFINE g == ToGraph(t)
    <3>1. IsGraph(g, App[c], Shape[c])
      BY <1>6, <2>4, ShapeType, GraphOfStructure
    <3>2. g.nodes = t.done
      BY DEF ToGraph
    <3>3. AllOfRound(g.nodes, q)
      BY <1>11, <2>3, <2>4, <3>2
    <3>4. finished' = Append(finished, g)
      BY <1>6, <2>4
    <3> HIDE DEF g
    <3>5. RoundsDone(c)' = q /\ LearningKept
      BY <2>2, <2>3, <2>4 DEF CalmInv
    <3> HIDE DEF q
    <3> QED
      BY <1>4, <1>15, <2>1, <3>1, <3>3, <3>4, <3>5, LearningGrows
  <2>5. CASE ~t.finished
    BY <1>6, <1>15, <2>1, <2>2, <2>3, <2>5, LearningStays DEF CalmInv
  <2> QED
    BY <2>4, <2>5
<1> QED
  BY <1>2, <1>14, <1>15, <1>16 DEF CalmInv

\* The client of a collection goes on.
LEMMA ClientKeepsCalm ==
    ASSUME GraphInv, CalmInv, GraphInv', NEW c \in Collections,
           NextStage(c) \/ NextRound(c)
    PROVE  CalmInv'
<1>1. /\ StageAnswered(c) /\ ~StageFailed(c)
      /\ UNCHANGED <<setup, structure, finished, abandoned, ratio>>
      /\ stage[c] \in 1..Len(Shape[c]) /\ Len(Shape[c]) \in Nat
      /\ round[c] \in Nat \ {0}
  BY StageType DEF NextStage, NextRound, GraphInv, CalmInv
<1>2. /\ \A d \in Collections : d # c => /\ request'[d] = request[d]
                                         /\ stage'[d] = stage[d] /\ round'[d] = round[d]
      /\ \A j \in DOMAIN request'[c] : request'[c][j] = "unsent"
      /\ \/ stage[c] < Len(Shape[c]) /\ stage'[c] = stage[c] + 1 /\ round'[c] = round[c]
         \/ stage[c] = Len(Shape[c]) /\ stage'[c] = 1 /\ round'[c] = round[c] + 1
  <2>1. CASE NextStage(c)
    BY <1>1, <2>1 DEF NextStage, Unsent, GraphInv, TypesKept
  <2>2. CASE NextRound(c)
    BY <1>1, <2>2 DEF NextRound, Unsent, GraphInv, TypesKept
  <2> QED
    BY <2>1, <2>2
<1>3. Undisturbed'
  BY <1>1, <1>2 DEF Undisturbed, CalmInv
<1>4. ~StageAnswered(c)' /\ DoneIn(c)' = {} /\ Cardinality({}) = 0
  <2>1. /\ request'[c] \in [1..Shape[c][stage'[c]] -> States]
        /\ Shape[c][stage'[c]] \in Nat \ {0}
        /\ StageAnswered(c)' <=> \A j \in DOMAIN request'[c] : request'[c][j] = "done"
    <3>1. TypesKept' /\ Undisturbed'
      BY <1>3 DEF GraphInv
    <3> QED
      BY <3>1, StageTypeAfter
  <2>2. 1 \in DOMAIN request'[c]
    BY <2>1
  <2> QED
    BY <1>2, <2>1, <2>2, FS_EmptySet DEF DoneIn
<1>5. ~Fresh(c) /\ RoundOf(c) /\ CountsOf(c)
  <2>1. /\ request[c] \in [1..Shape[c][stage[c]] -> States]
        /\ Shape[c][stage[c]] \in Nat \ {0}
        /\ StageAnswered(c) <=> \A j \in DOMAIN request[c] : request[c][j] = "done"
    BY StageType DEF GraphInv, CalmInv
  <2>2. 1 \in DOMAIN request[c]
    BY <2>1
  <2> QED
    BY <1>1, <2>1, <2>2 DEF Fresh, CalmInv
<1>6. /\ HasStructure(c) /\ Len(structure[c].done) = stage[c]
      /\ structure[c].current = <<>>
      /\ IsStructure(structure[c], App[c], Shape[c])
  BY <1>1, <1>5 DEF CountsOf, GraphInv, StructuresKept
<1>7. CountsOf(c)' /\ RoundOf(c)'
  <2>1. CASE stage[c] < Len(Shape[c])
    <3>1. stage'[c] = stage[c] + 1 /\ round'[c] = round[c] /\ ~Fresh(c)'
      BY <1>1, <1>2, <2>1 DEF Fresh
    <3>2. Len(<<>>) = 0
      BY EmptySeq
    <3>3. CountsOf(c)'
      BY <1>1, <1>4, <1>6, <3>1, <3>2 DEF CountsOf, HasStructure
    <3>4. RoundOf(c)'
      BY <1>1, <1>5, <3>1 DEF RoundOf
    <3> QED
      BY <3>3, <3>4
  <2>2. CASE stage[c] = Len(Shape[c])
    <3>1. Fresh(c)'
      BY <1>1, <1>2, <2>2 DEF Fresh
    <3>2. structure'[c].finished
      BY <1>1, <1>6, <2>2 DEF IsStructure
    <3> QED
      BY <3>1, <3>2 DEF CountsOf, RoundOf
  <2> QED
    BY <1>1, <2>1, <2>2
<1>8. ASSUME NEW d \in Collections, d # c
      PROVE  CountsOf(d)' /\ RoundOf(d)' /\ RoundsDone(d)' = RoundsDone(d)
  <2>1. /\ structure'[d] = structure[d] /\ request'[d] = request[d]
        /\ stage'[d] = stage[d] /\ round'[d] = round[d]
        /\ CountsOf(d) /\ RoundOf(d)
    BY <1>1, <1>2, <1>8 DEF CalmInv
  <2> QED
    BY <2>1, OthersStay
<1>9. LearningKept'
  <2>1. RoundsDone(c)' = RoundsDone(c)
    BY <1>1, <1>2, <1>4 DEF RoundsDone
  <2> QED
    BY <1>1, <1>8, <2>1, LearningStays DEF CalmInv
<1> QED
  BY <1>3, <1>7, <1>8, <1>9 DEF CalmInv

LEMMA NextKeepsCalm ==
    ASSUME GraphInv, Calm => CalmInv, [Next]_vars
    PROVE  Calm' => CalmInv'
<1>1. setup' = setup /\ GraphInv'
  BY NextKeepsGraph DEF Next, vars, HandleCollectiveRequest, Complete, TimeOut,
                        NextStage, NextRound, Disconnected, CompleteLate
<1> SUFFICES ASSUME Calm PROVE CalmInv'
  BY <1>1 DEF Calm, StaticTree
<1>2. CalmInv /\ abandoned = {}
  BY DEF CalmInv, Undisturbed
<1>3. ASSUME NEW c \in setup.sent, NEW i \in DOMAIN request[c],
             HandleCollectiveRequest(c, i)
      PROVE  CalmInv'
  BY <1>1, <1>2, <1>3, HandleKeepsCalm
<1>4. ASSUME NEW c \in setup.sent, NEW i \in DOMAIN request[c], Complete(c, i)
      PROVE  CalmInv'
  BY <1>1, <1>2, <1>4, SentType, CompleteKeepsCalm
<1>5. ASSUME NEW c \in setup.sent, NextStage(c) \/ NextRound(c)
      PROVE  CalmInv'
  BY <1>1, <1>2, <1>5, SentType, ClientKeepsCalm
<1>6. ASSUME UNCHANGED vars
      PROVE  CalmInv'
  <2>1. /\ structure' = structure /\ stage' = stage /\ round' = round
        /\ request' = request /\ finished' = finished /\ abandoned' = abandoned
    BY <1>6 DEF vars
  <2>2. Undisturbed'
    BY <1>2, <2>1 DEF CalmInv, Undisturbed
  <2>3. ASSUME NEW d \in Collections
        PROVE  CountsOf(d)' /\ RoundOf(d)' /\ RoundsDone(d)' = RoundsDone(d)
    BY <1>2, <2>1, OthersStay DEF CalmInv
  <2>4. LearningKept'
    BY <1>2, <2>1, <2>3, LearningStays DEF CalmInv
  <2> QED
    BY <2>2, <2>3, <2>4 DEF CalmInv
<1>7. ASSUME NEW c \in setup.sent, NEW i \in DOMAIN request[c]
      PROVE  ~TimeOut(c, i)
  BY DEF TimeOut, Calm
<1> QED
  BY <1>2, <1>3, <1>4, <1>5, <1>6, <1>7 DEF Next

LEMMA CalmAlways == Spec => [](GraphInv /\ (Calm => CalmInv))
<1>1. Init => GraphInv /\ (Calm => CalmInv)
  BY InitGraph, InitCalm
<1>2. GraphInv /\ (Calm => CalmInv) /\ [Next]_vars
        => (GraphInv /\ (Calm => CalmInv))'
  BY NextKeepsGraph, NextKeepsCalm
<1> QED
  BY <1>1, <1>2, PTL DEF Spec

-----------------------------------------------------------------------------
(* What the server has learned while it is calm.                           *)

\* While no client times out and no handler fails the server, which only counts
\* completions, is in the stage that the client is in.
THEOREM ServerIsInStep == Spec => []InStep
<1>1. GraphInv /\ (Calm => CalmInv) => InStep
  <2> SUFFICES ASSUME GraphInv, CalmInv, NEW c \in setup.sent,
                      CountOf(c, "engine") + CountOf(c, "done") > 0
               PROVE  LET s == structure[c]
                          over == stage[c] = Len(Shape[c]) /\ StageAnswered(c)
                      IN /\ Len(s.done) = IF StageAnswered(c) THEN stage[c]
                                                              ELSE stage[c] - 1
                         /\ StageAnswered(c) \/ Len(s.current) = CountOf(c, "done")
                         /\ s.finished = over
    BY DEF InStep
  <2>1. c \in Collections
    BY SentType
  <2>2. ~Fresh(c)
    <3> SUFFICES ASSUME Fresh(c) PROVE FALSE
      OBVIOUS
    <3>1. /\ {i \in DOMAIN request[c] : request[c][i] = "engine"} = {}
          /\ {i \in DOMAIN request[c] : request[c][i] = "done"} = {}
      BY DEF Fresh
    <3>2. CountOf(c, "engine") = 0 /\ CountOf(c, "done") = 0
      BY <3>1, FS_EmptySet DEF CountOf
    <3> QED
      BY <3>2
  <2>3. /\ HasStructure(c)
        /\ StageAnswered(c) => Len(structure[c].done) = stage[c]
        /\ ~StageAnswered(c) => /\ Len(structure[c].done) = stage[c] - 1
                                /\ Len(structure[c].current) = Cardinality(DoneIn(c))
    BY <2>1, <2>2 DEF CalmInv, CountsOf
  <2>4. CountOf(c, "done") = Cardinality(DoneIn(c))
    BY DEF CountOf, DoneIn
  <2>5. stage[c] \in 1..Len(Shape[c]) /\ Len(Shape[c]) \in Nat
    BY <2>1, StageType DEF GraphInv, CalmInv
  <2>6. /\ structure[c].finished \in BOOLEAN
        /\ structure[c].finished <=> Len(structure[c].done) = Len(Shape[c])
    BY <2>1, <2>3 DEF GraphInv, StructuresKept, IsStructure
  <2>7. structure[c].finished <=> stage[c] = Len(Shape[c]) /\ StageAnswered(c)
    BY <2>3, <2>5, <2>6
  <2>8. StageAnswered(c) \in BOOLEAN
    BY DEF StageAnswered
  <2> QED
    BY <2>3, <2>4, <2>6, <2>7, <2>8
<1> QED
  BY <1>1, CalmAlways, PTL

\* The entries of a graph.
LEMMA EntriesType ==
    ASSUME NEW g \in Graph, NEW e
    PROVE  e \in EntriesOf(g) <=>
             \E i \in 1..Len(g.nodes) : \E j \in 1..Len(g.nodes[i]) : e = g.nodes[i][j]
<1>1. g.nodes \in Seq(Seq(Entry)) /\ DOMAIN g.nodes = 1..Len(g.nodes)
  BY LenProperties DEF Graph
<1>2. ASSUME NEW i \in 1..Len(g.nodes)
      PROVE  e \in Range1(g.nodes[i]) <=> \E j \in 1..Len(g.nodes[i]) : e = g.nodes[i][j]
  <2>1. DOMAIN g.nodes[i] = 1..Len(g.nodes[i])
    BY <1>1, ElementOfSeq, LenProperties
  <2> QED
    BY <2>1 DEF Range1
<1>3. e \in EntriesOf(g) <=> \E i \in 1..Len(g.nodes) : e \in Range1(g.nodes[i])
  BY <1>1 DEF EntriesOf
<1> QED
  BY <1>2, <1>3

\* While no client times out and no handler fails a finished graph is made of
\* the requests of one round.
THEOREM GraphsAreOfOneRound == Spec => []GraphIsOneRound
<1>1. GraphInv /\ (Calm => CalmInv) => GraphIsOneRound
  <2> SUFFICES ASSUME GraphInv, CalmInv, NEW k \in DOMAIN finished,
                      NEW e \in EntriesOf(finished[k]), NEW f \in EntriesOf(finished[k])
               PROVE  e.round = f.round
    BY DEF GraphIsOneRound
  <2>1. k \in 1..Len(finished) /\ finished[k] \in Graph
    BY LenProperties, ElementOfSeq DEF GraphInv, GraphsKept
  <2>2. PICK r : AllOfRound(finished[k].nodes, r)
    BY <2>1 DEF CalmInv, LearningKept
  <2>3. e.round = r /\ f.round = r
    BY <2>1, <2>2, EntriesType DEF AllOfRound, OfRound
  <2> QED
    BY <2>3
<1> QED
  BY <1>1, CalmAlways, PTL

\* While no client times out and no handler fails every round that is over has
\* been learned, once.
THEOREM RoundsAreLearnedOnce == Spec => []LearnedOnce
<1>1. GraphInv /\ (Calm => CalmInv) => LearnedOnce
  <2> SUFFICES ASSUME GraphInv, CalmInv, NEW r \in 1..Rounds
               PROVE  Cardinality({k \in DOMAIN finished :
                                     \E e \in EntriesOf(finished[k]) : e.round = r})
                        = Cardinality({c \in Collections : RoundsDone(c) >= r})
    BY DEF LearnedOnce
  <2>1. r \in Nat \ {0}
    BY ContextAssumption
  <2>2. DOMAIN finished = 1..Len(finished)
    BY LenProperties DEF GraphInv, GraphsKept
  <2>3. ASSUME NEW k \in 1..Len(finished)
        PROVE  (\E e \in EntriesOf(finished[k]) : e.round = r)
                 <=> AllOfRound(finished[k].nodes, r)
    <3> DEFINE g == finished[k]
    <3>1. PICK q \in Nat \ {0} : AllOfRound(g.nodes, q)
      BY <2>3 DEF CalmInv, LearningKept
    <3>2. PICK c \in Collections : IsGraph(g, App[c], Shape[c])
      BY <2>3 DEF GraphInv, GraphsKept
    <3>3. g \in Graph /\ 1 \in 1..Len(g.nodes) /\ 1 \in 1..Len(g.nodes[1])
      BY <3>2, GraphHasEntry DEF IsGraph
    <3> HIDE DEF g
    <3>4. g.nodes[1][1] \in EntriesOf(g)
      BY <3>3, EntriesType
    <3>5. \A e \in EntriesOf(g) : e.round = q
      BY <3>1, <3>3, EntriesType DEF AllOfRound, OfRound
    <3>6. AllOfRound(g.nodes, r) => g.nodes[1][1].round = r
      BY <3>3 DEF AllOfRound, OfRound
    <3>7. (\E e \in EntriesOf(g) : e.round = r) <=> AllOfRound(g.nodes, r)
      BY <3>1, <3>4, <3>5, <3>6
    <3> QED
      BY <3>7 DEF g
  <2>4. {k \in DOMAIN finished : \E e \in EntriesOf(finished[k]) : e.round = r}
          = LearnedIn(r)
    BY <2>2, <2>3 DEF LearnedIn
  <2>5. {c \in Collections : RoundsDone(c) >= r} = OverIn(r)
    BY DEF OverIn
  <2>6. Cardinality(LearnedIn(r)) = Cardinality(OverIn(r))
    BY <2>1 DEF CalmInv, LearningKept
  <2> QED
    BY <2>4, <2>5, <2>6
<1> QED
  BY <1>1, CalmAlways, PTL
=============================================================================
