---------------------------- MODULE PolicyProofs ----------------------------
(***************************************************************************)
(* What the tracker and the policies promise holds for any number of       *)
(* requests of any length and any deadlines, any interval and window, and  *)
(* whatever the predictor answers.                                         *)
(***************************************************************************)
EXTENDS PolicyProperties, SequenceTheorems, FiniteSums

Phases == Queues \cup {"new", "absent", "finished", "aborted"}

\* A function of the groups.
OfGroups(f) == f = [g \in Groups |-> f[g]]

\* A record of the fields of RequestSLOMetrics.
IsMetrics(m) ==
    m = [arrival |-> m.arrival, prompt |-> m.prompt, output |-> m.output,
         ttft |-> m.ttft, tbt |-> m.tbt, ttlt |-> m.ttlt, last |-> m.last,
         gain |-> m.gain, swapped |-> m.swapped]

\* The times, or the tokens, of the entries of tbt.
Total(tbt, f) == Sum([e \in DOMAIN tbt |-> tbt[e][f]], DOMAIN tbt)

\* The metrics m of a group that has d tokens, at time t.
MetricsSound(m, d, t) ==
    /\ IsMetrics(m)
    /\ m.arrival \in Nat /\ m.arrival <= t
    /\ m.output \in Nat /\ m.output <= d
    /\ m.ttft \in Int /\ m.last \in Int
    /\ m.tbt \in Seq(Int \X Int)
    /\ m.last = Unknown => m.output = 0 /\ m.tbt = <<>>
    /\ m.last # Unknown => /\ m.ttft # Unknown
                           /\ m.arrival + m.ttft + Total(m.tbt, 1) = m.last
                           /\ m.last <= t
                           /\ m.output > 0 /\ Total(m.tbt, 2) < m.output

\* A queued group has no time to the first token before a token is seen.
NotYetSeen(m) == m.last = Unknown => m.ttft = Unknown

\* The invariant of the tracker.
TrackerInv ==
    /\ now \in Nat /\ called \in BOOLEAN
    /\ phase \in [Groups -> Phases]
    /\ decoded \in [Groups -> Nat]
    /\ OfGroups(metrics)
    /\ \A g \in Groups : MetricsSound(metrics[g], decoded[g], now)
    /\ \A g \in Groups : InQueue(g) => NotYetSeen(metrics[g])

-----------------------------------------------------------------------------
(* The times between tokens.                                               *)

\* No entries, no time.
LEMMA TotalOfNone ==
    ASSUME NEW f
    PROVE  Total(<<>>, f) = 0
<1>1. DOMAIN <<>> = {}
  OBVIOUS
<1> QED
  BY <1>1, SumOfNone DEF Total

\* One more entry adds its time, and its tokens.
LEMMA TotalOfMore ==
    ASSUME NEW tbt \in Seq(Int \X Int), NEW e \in Int \X Int, NEW f \in {1, 2}
    PROVE  /\ Append(tbt, e) \in Seq(Int \X Int)
           /\ Total(tbt, f) \in Int
           /\ Total(Append(tbt, e), f) = Total(tbt, f) + e[f]
<1> DEFINE more == Append(tbt, e)
           n == Len(tbt)
           v == [i \in DOMAIN tbt |-> tbt[i][f]]
           w == [i \in DOMAIN more |-> more[i][f]]
<1>1. /\ n \in Nat /\ DOMAIN tbt = 1..n /\ DOMAIN more = 1..(n + 1)
      /\ more \in Seq(Int \X Int)
      /\ \A i \in 1..n : more[i] = tbt[i]
      /\ more[n + 1] = e
  BY AppendProperties, LenProperties
<1>2. \A i \in 1..(n + 1) : more[i] \in Int \X Int
  BY <1>1, ElementOfSeq, LenProperties
<1>3. \A i \in 1..(n + 1) : more[i][f] \in Int
  BY <1>2
<1>4. IsFiniteSet(1..n)
  BY <1>1, FS_Interval
<1>5. 1..(n + 1) = (1..n) \cup {n + 1} /\ n + 1 \notin 1..n
  BY <1>1
<1> HIDE DEF more
<1>6. \A i \in (1..n) \cup {n + 1} : w[i] \in Int
  BY <1>1, <1>3, <1>5
<1>7. \A i \in 1..n : v[i] = w[i]
  BY <1>1, <1>5
<1>8. w[n + 1] = e[f]
  BY <1>1, <1>5
<1> HIDE DEF v, w, n
<1>9. Sum(w, (1..n) \cup {n + 1}) = w[n + 1] + Sum(w, 1..n)
  BY <1>4, <1>5, <1>6, SumAdds
<1>10. Sum(v, 1..n) = Sum(w, 1..n)
  BY <1>4, <1>7, SumOfEqual
<1>11. Sum(w, 1..n) \in Int /\ w[n + 1] \in Int
  BY <1>4, <1>6, SumType
<1>12. Total(tbt, f) = Sum(v, 1..n) /\ Total(more, f) = Sum(w, 1..(n + 1))
  BY <1>1 DEF Total, v, w
<1>13. Total(more, f) = Total(tbt, f) + e[f] /\ Total(tbt, f) \in Int
  <2>1. Total(more, f) = Sum(w, (1..n) \cup {n + 1})
    BY <1>5, <1>12
  <2>2. Total(more, f) = w[n + 1] + Sum(w, 1..n) /\ Total(tbt, f) = Sum(w, 1..n)
    BY <1>9, <1>10, <1>12, <2>1
  <2>3. w[n + 1] + Sum(w, 1..n) = Sum(w, 1..n) + w[n + 1]
    BY <1>11
  <2> QED
    BY <1>8, <1>11, <2>2, <2>3, Zenon
<1>14. more \in Seq(Int \X Int)
  BY <1>1
<1> QED
  BY <1>13, <1>14, Zenon DEF more

-----------------------------------------------------------------------------
(* The tracker.                                                            *)

\* _update_metrics leaves the record of a queued group sound.
LEMMA UpdatedSound ==
    ASSUME NEW g \in Groups, NEW m0, NEW t \in Nat, decoded[g] \in Nat,
           MetricsSound(m0, decoded[g], t), NotYetSeen(m0)
    PROVE  LET u == Updated(g, m0, t)
           IN MetricsSound(u, decoded[g], t) /\ NotYetSeen(u) /\ u.arrival = m0.arrival
<1> DEFINE out == decoded[g]
           new == out - m0.output
           u == Updated(g, m0, t)
           seen == Append(m0.tbt, <<t - m0.last, new>>)
<1> SUFFICES MetricsSound(u, decoded[g], t) /\ NotYetSeen(u) /\ u.arrival = m0.arrival
  OBVIOUS
<1>1. /\ IsMetrics(m0) /\ m0.arrival \in Nat /\ m0.arrival <= t /\ m0.output \in Nat
      /\ m0.output <= out /\ m0.ttft \in Int /\ m0.last \in Int
      /\ m0.tbt \in Seq(Int \X Int) /\ out \in Nat /\ new \in Nat
  BY DEF MetricsSound
<1>2. /\ IsMetrics(u)
      /\ u.arrival = m0.arrival
      /\ u.output = out
      /\ u.ttft = IF out < 1 \/ m0.ttft # Unknown THEN m0.ttft ELSE t - m0.arrival
      /\ u.last = IF new > 0 THEN t ELSE m0.last
      /\ u.tbt = IF m0.last # Unknown /\ new > 0 THEN seen ELSE m0.tbt
  <2> DEFINE m == WithTTFT(m0, out, t)
  <2>1. /\ IsMetrics(m)
        /\ m.arrival = m0.arrival /\ m.output = m0.output /\ m.last = m0.last
        /\ m.tbt = m0.tbt
        /\ m.ttft = IF out < 1 \/ m0.ttft # Unknown THEN m0.ttft ELSE t - m0.arrival
    BY <1>1 DEF WithTTFT, IsMetrics
  <2> DEFINE gain == ServiceGain(g, m, t, out, InputLen[g] - m.prompt, out - m.output,
                                 Penalty)
  <2>2. u = [m EXCEPT !.gain = gain,
                      !.tbt = IF m.last # Unknown /\ (out - m.output) > 0
                              THEN Append(@, <<t - m.last, out - m.output>>) ELSE @,
                      !.last = IF (out - m.output) > 0 THEN t ELSE @,
                      !.prompt = InputLen[g],
                      !.output = out]
    BY DEF Updated
  <2> HIDE DEF m, gain, u
  <2> QED
    BY <2>1, <2>2 DEF IsMetrics
<1> HIDE DEF u
<1>3. CASE new = 0
  <2>1. u.last = m0.last /\ u.tbt = m0.tbt /\ u.output = m0.output
    BY <1>1, <1>2, <1>3
  <2>2. u.ttft = m0.ttft
    <3>1. CASE out < 1
      BY <1>2, <3>1
    <3>2. CASE ~(out < 1)
      <4>1. m0.output # 0
        BY <1>1, <1>3, <3>2
      <4>2. m0.ttft # Unknown
        BY <4>1 DEF MetricsSound
      <4> QED
        BY <1>2, <4>2
    <3> QED
      BY <3>1, <3>2
  <2> QED
    BY <1>1, <1>2, <2>1, <2>2 DEF MetricsSound, NotYetSeen
<1>4. CASE new # 0
  <2>1. new > 0 /\ out > 0 /\ u.last = t /\ t # Unknown
    BY <1>1, <1>2, <1>4 DEF Unknown
  <2>2. CASE m0.last = Unknown
    <3>1. m0.ttft = Unknown /\ m0.tbt = <<>>
      BY <2>2 DEF NotYetSeen, MetricsSound
    <3>2. u.ttft = t - m0.arrival /\ u.tbt = <<>>
      BY <1>1, <1>2, <2>1, <2>2, <3>1
    <3>3. Total(u.tbt, 1) = 0 /\ Total(u.tbt, 2) = 0
      BY <3>2, TotalOfNone
    <3>4. u.ttft \in Nat /\ u.ttft # Unknown /\ u.tbt \in Seq(Int \X Int)
      BY <1>1, <3>1, <3>2 DEF Unknown
    <3>5. /\ u.arrival \in Nat /\ u.arrival <= t
          /\ u.output \in Nat /\ u.output <= decoded[g] /\ u.output > 0
          /\ u.ttft \in Int /\ u.last \in Int /\ u.last # Unknown /\ u.last <= t
      <4>1. u.arrival = m0.arrival /\ u.output = out /\ u.last = t
        BY <1>2, <2>1, Zenon
      <4>2. m0.arrival \in Nat /\ m0.arrival <= t /\ out \in Nat /\ out <= decoded[g]
        BY <1>1
      <4>3. u.ttft \in Int /\ t <= t
        BY <3>4
      <4> QED
        BY <2>1, <4>1, <4>2, <4>3
    <3>6. u.arrival + u.ttft + 0 = u.last
      <4>1. u.arrival = m0.arrival /\ u.last = t /\ m0.arrival \in Nat
        BY <1>1, <1>2, <2>1, Zenon
      <4> QED
        BY <3>2, <4>1
    <3>7. u.arrival + u.ttft + Total(u.tbt, 1) = u.last /\ Total(u.tbt, 2) < u.output
      <4>1. 0 < u.output
        BY <3>5
      <4> QED
        BY <3>3, <3>6, <4>1, Zenon
    <3>8. MetricsSound(u, decoded[g], t) /\ NotYetSeen(u)
      BY <1>2, <3>4, <3>5, <3>7, Zenon DEF MetricsSound, NotYetSeen
    <3> QED
      BY <1>2, <3>8, Zenon
  <2>3. CASE m0.last # Unknown
    <3> DEFINE e == <<t - m0.last, new>>
    <3>1. /\ m0.ttft # Unknown
          /\ m0.arrival + m0.ttft + Total(m0.tbt, 1) = m0.last
          /\ m0.last <= t /\ m0.output > 0 /\ Total(m0.tbt, 2) < m0.output
      BY <2>3 DEF MetricsSound
    <3>2. e \in Int \X Int /\ e[1] = t - m0.last /\ e[2] = new
      BY <1>1
    <3>3. u.ttft = m0.ttft /\ u.tbt = Append(m0.tbt, e)
      BY <1>2, <2>1, <2>3, <3>1
    <3> HIDE DEF e
    <3>4. /\ u.tbt \in Seq(Int \X Int)
          /\ Total(m0.tbt, 1) \in Int /\ Total(m0.tbt, 2) \in Int
          /\ Total(u.tbt, 1) = Total(m0.tbt, 1) + e[1]
          /\ Total(u.tbt, 2) = Total(m0.tbt, 2) + e[2]
      <4>1. m0.tbt \in Seq(Int \X Int) /\ 1 \in {1, 2} /\ 2 \in {1, 2}
        BY <1>1
      <4>2. /\ Append(m0.tbt, e) \in Seq(Int \X Int)
            /\ Total(m0.tbt, 1) \in Int
            /\ Total(Append(m0.tbt, e), 1) = Total(m0.tbt, 1) + e[1]
        BY <3>2, <4>1, TotalOfMore, Zenon
      <4>3. /\ Total(m0.tbt, 2) \in Int
            /\ Total(Append(m0.tbt, e), 2) = Total(m0.tbt, 2) + e[2]
        BY <3>2, <4>1, TotalOfMore, Zenon
      <4> QED
        BY <3>3, <4>2, <4>3, Zenon
    <3>5. u.arrival + u.ttft + Total(u.tbt, 1) = u.last
      <4>1. u.arrival = m0.arrival /\ u.ttft = m0.ttft /\ u.last = t
        BY <1>2, <2>1, <3>3
      <4>2. Total(u.tbt, 1) = Total(m0.tbt, 1) + (t - m0.last)
        BY <3>2, <3>4, Zenon
      <4>3. m0.arrival \in Int /\ m0.ttft \in Int /\ m0.last \in Int /\ t \in Int
        BY <1>1
      <4>4. m0.arrival + m0.ttft + (Total(m0.tbt, 1) + (t - m0.last)) = t
        BY <3>1, <3>4, <4>3
      <4> QED
        BY <4>1, <4>2, <4>4, Zenon
    <3>6. Total(u.tbt, 2) < u.output
      <4>1. u.output = m0.output + new
        BY <1>1, <1>2
      <4>2. Total(u.tbt, 2) = Total(m0.tbt, 2) + new
        BY <3>2, <3>4
      <4> QED
        BY <1>1, <3>1, <3>4, <4>1, <4>2
    <3>7. /\ u.arrival \in Nat /\ u.arrival <= t
          /\ u.output \in Nat /\ u.output <= decoded[g] /\ u.output > 0
          /\ u.ttft \in Int /\ u.ttft # Unknown
          /\ u.last \in Int /\ u.last # Unknown /\ u.last <= t
      BY <1>1, <1>2, <2>1, <3>1, <3>3
    <3>8. MetricsSound(u, decoded[g], t) /\ NotYetSeen(u)
      BY <1>2, <3>4, <3>5, <3>6, <3>7, Zenon DEF MetricsSound, NotYetSeen
    <3> QED
      BY <1>2, <3>8, Zenon
  <2> QED
    BY <2>2, <2>3
<1> QED
  BY <1>1, <1>3, <1>4

\* So is the record of a group that arrives, or whose metrics are reset.
LEMMA NewSound ==
    ASSUME NEW a \in Nat, NEW d \in Nat, NEW t \in Nat, a <= t
    PROVE  LET m == NewMetrics(a)
           IN MetricsSound(m, d, t) /\ NotYetSeen(m) /\ m.arrival = a
  BY EmptySeq DEF NewMetrics, MetricsSound, NotYetSeen, IsMetrics, Unknown

\* And the record of a group that finishes.
LEMMA WithOutputSound ==
    ASSUME NEW g \in Groups, NEW m0, NEW t \in Nat, NEW d \in Nat, NEW out,
           MetricsSound(m0, d, t)
    PROVE  LET u == WithOutput(g, m0, t, out)
           IN MetricsSound(u, d, t) /\ u.arrival = m0.arrival
<1> DEFINE m == [m0 EXCEPT !.ttlt = t - m0.arrival]
           gain == WholeGain(g, m, t, out)
           u == WithOutput(g, m0, t, out)
<1>1. IsMetrics(m0) /\ m0.ttft \in Int /\ m0.arrival \in Nat
  BY DEF MetricsSound
<1>2. u = [WithTTFT(m, out, t) EXCEPT !.gain = gain]
  BY DEF WithOutput
<1>3. /\ IsMetrics(m) /\ m.arrival = m0.arrival /\ m.output = m0.output
      /\ m.last = m0.last /\ m.tbt = m0.tbt /\ m.ttft = m0.ttft
  BY <1>1 DEF IsMetrics
<1> HIDE DEF m, gain, u
<1>4. /\ IsMetrics(u) /\ u.arrival = m0.arrival /\ u.output = m0.output
      /\ u.last = m0.last /\ u.tbt = m0.tbt
      /\ u.ttft \in Int
      /\ m0.ttft # Unknown => u.ttft = m0.ttft
  BY <1>1, <1>2, <1>3 DEF IsMetrics, WithTTFT
<1>5. MetricsSound(u, d, t) /\ u.arrival = m0.arrival
  BY <1>4 DEF MetricsSound
<1> QED
  BY <1>5 DEF u

\* A record stays sound while time passes and tokens come.
LEMMA SoundLater ==
    ASSUME NEW m, NEW d \in Nat, NEW t \in Nat, NEW e \in Nat, NEW u \in Nat,
           MetricsSound(m, d, t), d <= e, t <= u
    PROVE  MetricsSound(m, e, u)
  BY DEF MetricsSound

\* The arrival of a group does not change while it is queued.
ArrivalsKept == \A g \in Groups : InQueue(g) => metrics'[g].arrival = metrics[g].arrival

LEMMA TrackerInitSound == TrackerInit => TrackerInv
<1> SUFFICES ASSUME TrackerInit PROVE TrackerInv
  OBVIOUS
<1>1. \A g \in Groups : metrics[g] = NewMetrics(0) /\ decoded[g] = 0
  BY DEF TrackerInit
<1>2. \A g \in Groups : MetricsSound(metrics[g], decoded[g], now) /\ NotYetSeen(metrics[g])
  BY <1>1, NewSound DEF TrackerInit
<1>3. /\ now \in Nat /\ called \in BOOLEAN
      /\ phase \in [Groups -> Phases]
      /\ decoded \in [Groups -> Nat]
      /\ OfGroups(metrics)
  BY DEF TrackerInit, Phases, OfGroups
<1> QED
  BY <1>2, <1>3 DEF TrackerInv

LEMMA ArriveSound ==
    ASSUME TrackerInv, NEW g \in Groups, Arrive(g)
    PROVE  TrackerInv' /\ ArrivalsKept
<1>1. /\ phase[g] = "new"
      /\ phase' = [phase EXCEPT ![g] = "waiting"]
      /\ metrics' = [metrics EXCEPT ![g] = NewMetrics(now)]
      /\ now' = now /\ decoded' = decoded /\ called' = called
  BY DEF Arrive
<1>2. /\ now \in Nat /\ called \in BOOLEAN
      /\ phase \in [Groups -> Phases]
      /\ decoded \in [Groups -> Nat]
      /\ OfGroups(metrics)
  BY DEF TrackerInv
<1>3. /\ phase' \in [Groups -> Phases]
      /\ OfGroups(metrics')
      /\ metrics'[g] = NewMetrics(now)
      /\ \A h \in Groups \ {g} : metrics'[h] = metrics[h] /\ phase'[h] = phase[h]
  <2> DEFINE n == NewMetrics(now)
  <2>1. metrics' = [metrics EXCEPT ![g] = n]
    BY <1>1
  <2> HIDE DEF n
  <2>2. /\ OfGroups(metrics') /\ metrics'[g] = n
        /\ \A h \in Groups \ {g} : metrics'[h] = metrics[h]
    BY <1>2, <2>1 DEF OfGroups
  <2>3. phase' \in [Groups -> Phases] /\ \A h \in Groups \ {g} : phase'[h] = phase[h]
    BY <1>1, <1>2 DEF Phases, Queues
  <2> QED
    BY <2>2, <2>3 DEF n
<1>4. ASSUME NEW h \in Groups
      PROVE  /\ MetricsSound(metrics'[h], decoded'[h], now')
             /\ InQueue(h)' => NotYetSeen(metrics'[h])
             /\ InQueue(h) => metrics'[h].arrival = metrics[h].arrival
  <2>1. CASE h = g
    BY <1>1, <1>2, <1>3, <2>1, NewSound DEF InQueue, Queues
  <2>2. CASE h # g
    <3>1. metrics'[h] = metrics[h] /\ phase'[h] = phase[h] /\ decoded'[h] = decoded[h]
      BY <1>1, <1>3, <2>2
    <3> QED
      BY <1>1, <3>1 DEF TrackerInv, InQueue
  <2> QED
    BY <2>1, <2>2
<1> QED
  BY <1>1, <1>2, <1>3, <1>4 DEF TrackerInv, ArrivalsKept

LEMMA AbortSound ==
    ASSUME TrackerInv, NEW g \in Groups, Abort(g)
    PROVE  TrackerInv' /\ ArrivalsKept
<1>1. /\ phase' = [phase EXCEPT ![g] = "aborted"]
      /\ now' = now /\ decoded' = decoded /\ metrics' = metrics /\ called' = called
  BY DEF Abort
<1>2. phase' \in [Groups -> Phases] /\ \A h \in Groups : InQueue(h)' => InQueue(h)
  BY <1>1 DEF TrackerInv, Phases, InQueue, Queues
<1> QED
  BY <1>1, <1>2 DEF TrackerInv, OfGroups, ArrivalsKept

\* Where a call of schedule() moves the groups, and what it does to the metrics.
LEMMA ScheduleMoves ==
    ASSUME phase \in [Groups -> Phases], Schedule
    PROVE  /\ phase' \in [Groups -> Phases]
           /\ \A g \in Groups : InQueue(g)' = InQueue(g)
           /\ \A g \in Groups : ~InQueue(g) => phase'[g] = phase[g]
           /\ OfGroups(metrics')
           /\ \A g \in Groups :
                metrics'[g] = IF phase'[g] = "running" THEN Updated(g, metrics[g], now)
                              ELSE IF phase[g] = "running" /\ phase'[g] = "waiting"
                              THEN Reset(metrics[g])
                              ELSE IF phase'[g] = "swapped"
                              THEN [metrics[g] EXCEPT !.swapped = TRUE]
                              ELSE metrics[g]
           /\ now' = now /\ decoded' = decoded /\ ~called /\ called' = TRUE
<1> DEFINE queued == {g \in Groups : InQueue(g)}
<1>1. PICK to \in [queued -> Queues] :
        phase' = [g \in Groups |-> IF g \in queued THEN to[g] ELSE phase[g]]
  BY DEF Schedule
<1>2. \A g \in queued : to[g] \in Queues
  BY <1>1
<1>3. /\ phase' \in [Groups -> Phases]
      /\ \A g \in Groups : InQueue(g)' <=> InQueue(g)
      /\ \A g \in Groups : ~InQueue(g) => phase'[g] = phase[g]
  <2>1. \A g \in Groups : InQueue(g) <=> g \in queued
    OBVIOUS
  <2>2. ASSUME NEW g \in Groups
        PROVE  /\ phase'[g] \in Phases
               /\ InQueue(g)' <=> InQueue(g)
               /\ ~InQueue(g) => phase'[g] = phase[g]
    <3>1. phase'[g] = IF g \in queued THEN to[g] ELSE phase[g]
      BY <1>1
    <3> HIDE DEF queued
    <3>2. CASE g \in queued
      BY <1>2, <2>1, <3>1, <3>2 DEF InQueue, Phases
    <3>3. CASE g \notin queued
      BY <2>1, <3>1, <3>3 DEF InQueue
    <3> QED
      BY <3>2, <3>3
  <2> HIDE DEF queued
  <2> QED
    BY <1>1, <2>2
<1>4. metrics' = [g \in Groups |->
                    IF phase'[g] = "running" THEN Updated(g, metrics[g], now)
                    ELSE IF phase[g] = "running" /\ phase'[g] = "waiting"
                    THEN Reset(metrics[g])
                    ELSE IF phase'[g] = "swapped"
                    THEN [metrics[g] EXCEPT !.swapped = TRUE]
                    ELSE metrics[g]]
  BY DEF Schedule
<1>5. now' = now /\ decoded' = decoded /\ ~called /\ called' = TRUE
  BY DEF Schedule
<1>6. \A g \in Groups : InQueue(g)' = InQueue(g)
  <2>1. \A g \in Groups : InQueue(g)' \in BOOLEAN /\ InQueue(g) \in BOOLEAN
    BY DEF InQueue
  <2> QED
    BY <1>3, <2>1
<1> DEFINE After(g) == IF phase'[g] = "running" THEN Updated(g, metrics[g], now)
                       ELSE IF phase[g] = "running" /\ phase'[g] = "waiting"
                       THEN Reset(metrics[g])
                       ELSE IF phase'[g] = "swapped"
                       THEN [metrics[g] EXCEPT !.swapped = TRUE]
                       ELSE metrics[g]
<1> HIDE DEF After
<1>7. metrics' = [g \in Groups |-> After(g)]
  BY <1>4 DEF After
<1>8. OfGroups(metrics') /\ \A g \in Groups : metrics'[g] = After(g)
  BY <1>7 DEF OfGroups
<1> QED
  BY <1>3, <1>5, <1>6, <1>8 DEF After

\* What is recorded of a request that is swapped out stays as it is.
SameButSwapped(m, n) ==
    /\ IsMetrics(m)
    /\ m.arrival = n.arrival /\ m.prompt = n.prompt /\ m.output = n.output
    /\ m.ttft = n.ttft /\ m.tbt = n.tbt /\ m.ttlt = n.ttlt /\ m.last = n.last
    /\ m.gain = n.gain

LEMMA SwappedIsSame ==
    ASSUME NEW n, IsMetrics(n), NEW v
    PROVE  SameButSwapped([n EXCEPT !.swapped = v], n)
<1> DEFINE m == [n EXCEPT !.swapped = v]
<1>1. IsMetrics(m)
  BY DEF IsMetrics
<1>2. /\ m.arrival = n.arrival /\ m.prompt = n.prompt /\ m.output = n.output
      /\ m.ttft = n.ttft
  BY DEF IsMetrics
<1>3. m.tbt = n.tbt /\ m.ttlt = n.ttlt /\ m.last = n.last /\ m.gain = n.gain
  BY DEF IsMetrics
<1> HIDE DEF m
<1>4. SameButSwapped(m, n)
  BY <1>1, <1>2, <1>3 DEF SameButSwapped
<1> QED
  BY <1>4 DEF m

LEMMA ScheduleSound ==
    ASSUME TrackerInv, Schedule
    PROVE  TrackerInv' /\ ArrivalsKept
<1>1. /\ now \in Nat /\ phase \in [Groups -> Phases] /\ decoded \in [Groups -> Nat]
      /\ \A g \in Groups : MetricsSound(metrics[g], decoded[g], now)
      /\ \A g \in Groups : InQueue(g) => NotYetSeen(metrics[g])
  BY DEF TrackerInv
<1>2. /\ phase' \in [Groups -> Phases]
      /\ \A g \in Groups : InQueue(g)' = InQueue(g)
      /\ OfGroups(metrics')
      /\ \A g \in Groups :
           metrics'[g] = IF phase'[g] = "running" THEN Updated(g, metrics[g], now)
                         ELSE IF phase[g] = "running" /\ phase'[g] = "waiting"
                         THEN Reset(metrics[g])
                         ELSE IF phase'[g] = "swapped"
                         THEN [metrics[g] EXCEPT !.swapped = TRUE]
                         ELSE metrics[g]
      /\ now' = now /\ decoded' = decoded /\ called' = TRUE
  BY <1>1, ScheduleMoves
<1>3. ASSUME NEW g \in Groups
      PROVE  /\ MetricsSound(metrics'[g], decoded[g], now)
             /\ InQueue(g)' => NotYetSeen(metrics'[g])
             /\ InQueue(g) => metrics'[g].arrival = metrics[g].arrival
  <2>1. MetricsSound(metrics[g], decoded[g], now) /\ decoded[g] \in Nat
    BY <1>1
  <2>2. CASE phase'[g] = "running"
    <3>1. metrics'[g] = Updated(g, metrics[g], now)
      BY <1>2, <2>2
    <3>2. InQueue(g)
      BY <1>2, <2>2 DEF InQueue, Queues
    <3>3. NotYetSeen(metrics[g])
      BY <1>1, <3>2
    <3> QED
      BY <1>1, <2>1, <3>1, <3>3, UpdatedSound
  <2>3. CASE phase'[g] # "running" /\ phase[g] = "running" /\ phase'[g] = "waiting"
    <3>1. metrics'[g] = NewMetrics(metrics[g].arrival)
      BY <1>2, <2>3 DEF Reset
    <3>2. metrics[g].arrival \in Nat /\ metrics[g].arrival <= now
      BY <2>1 DEF MetricsSound
    <3> QED
      BY <1>1, <2>1, <3>1, <3>2, NewSound
  <2>4. CASE phase'[g] = "swapped"
    <3>1. metrics'[g] = [metrics[g] EXCEPT !.swapped = TRUE]
      BY <1>2, <2>4
    <3>2. IsMetrics(metrics[g])
      BY <2>1 DEF MetricsSound
    <3>3. SameButSwapped(metrics'[g], metrics[g])
      BY <3>1, <3>2, SwappedIsSame
    <3> QED
      BY <1>1, <1>2, <2>1, <3>3 DEF SameButSwapped, MetricsSound, NotYetSeen
  <2>5. CASE /\ phase'[g] # "running" /\ phase'[g] # "swapped"
             /\ ~(phase[g] = "running" /\ phase'[g] = "waiting")
    <3>1. metrics'[g] = metrics[g]
      BY <1>2, <2>5
    <3> QED
      BY <1>1, <1>2, <2>1, <3>1
  <2> QED
    BY <2>2, <2>3, <2>4, <2>5
<1> QED
  BY <1>1, <1>2, <1>3 DEF TrackerInv, ArrivalsKept

LEMMA ModelRunSound ==
    ASSUME TrackerInv, NEW S \in SUBSET Groups, ModelRun(S)
    PROVE  TrackerInv' /\ ArrivalsKept
<1> DEFINE ended == {g \in S : decoded'[g] = OutputLen[g]}
<1>1. /\ now \in Nat /\ phase \in [Groups -> Phases] /\ decoded \in [Groups -> Nat]
      /\ \A g \in Groups : MetricsSound(metrics[g], decoded[g], now)
      /\ \A g \in Groups : InQueue(g) => NotYetSeen(metrics[g])
  BY DEF TrackerInv
<1>2. /\ called' = FALSE
      /\ \E ticks \in 1..MaxStep : now' = now + ticks
      /\ decoded' = [g \in Groups |-> decoded[g] + (IF g \in S THEN 1 ELSE 0)]
      /\ phase' = [g \in Groups |-> IF g \in ended THEN "finished" ELSE phase[g]]
      /\ metrics' = [g \in Groups |->
           IF g \in ended THEN WithOutput(g, metrics[g], now', decoded'[g])
           ELSE metrics[g]]
  BY DEF ModelRun
<1>3. now' \in Nat /\ now <= now'
  BY <1>1, <1>2, TrackerAssumption
<1>4. /\ decoded' \in [Groups -> Nat]
      /\ \A g \in Groups : decoded[g] <= decoded'[g]
      /\ phase' \in [Groups -> Phases]
  BY <1>1, <1>2 DEF Phases
<1>5. OfGroups(metrics')
  BY <1>2 DEF OfGroups
<1>6. ASSUME NEW g \in Groups
      PROVE  /\ MetricsSound(metrics'[g], decoded'[g], now')
             /\ InQueue(g)' => NotYetSeen(metrics'[g])
             /\ InQueue(g) => metrics'[g].arrival = metrics[g].arrival
  <2>1. MetricsSound(metrics[g], decoded'[g], now')
    BY <1>1, <1>3, <1>4, SoundLater
  <2>2. CASE g \in ended
    <3>1. metrics'[g] = WithOutput(g, metrics[g], now', decoded'[g])
      BY <1>2, <2>2
    <3>2. phase'[g] = "finished"
      BY <1>2, <2>2
    <3>3. ~InQueue(g)'
      BY <3>2 DEF InQueue, Queues
    <3>4. decoded'[g] \in Nat
      BY <1>4
    <3> QED
      BY <1>3, <2>1, <3>1, <3>3, <3>4, WithOutputSound
  <2>3. CASE g \notin ended
    <3>1. metrics'[g] = metrics[g] /\ phase'[g] = phase[g]
      BY <1>2, <2>3
    <3> QED
      BY <1>1, <2>1, <3>1 DEF InQueue
  <2> QED
    BY <2>2, <2>3
<1> QED
  BY <1>2, <1>3, <1>4, <1>5, <1>6 DEF TrackerInv, ArrivalsKept

-----------------------------------------------------------------------------
(* Removal from a list.                                                    *)

\* A list with one more element.
LEMMA AppendsOne ==
    ASSUME NEW l \in Seq(Groups), NEW x \in Groups
    PROVE  /\ Append(l, x) \in Seq(Groups)
           /\ ToSet(Append(l, x)) = ToSet(l) \cup {x}
           /\ IsInjective(l) /\ x \notin ToSet(l) => IsInjective(Append(l, x))
<1> DEFINE a == Append(l, x)
           n == Len(l)
<1>1. /\ n \in Nat /\ DOMAIN l = 1..n /\ DOMAIN a = 1..(n + 1)
      /\ a \in Seq(Groups)
      /\ \A i \in 1..n : a[i] = l[i]
      /\ a[n + 1] = x
  BY AppendProperties, LenProperties
<1> HIDE DEF a, n
<1>2. \A i \in 1..(n + 1) : i \in 1..n \/ i = n + 1
  BY <1>1
<1>3. n + 1 \in 1..(n + 1) /\ \A i \in 1..n : i \in 1..(n + 1)
  BY <1>1
<1>4. ToSet(a) = ToSet(l) \cup {x}
  BY <1>1, <1>2, <1>3 DEF ToSet
<1>5. ASSUME IsInjective(l), x \notin ToSet(l)
      PROVE  IsInjective(a)
  BY <1>1, <1>2, <1>5 DEF IsInjective, ToSet
<1> QED
  BY <1>1, <1>4, <1>5 DEF a

\* The greatest index of a part of a list.
LEMMA LastOfPart ==
    ASSUME NEW list \in Seq(Groups), NEW T \in SUBSET DOMAIN list, T # {}
    PROVE  Max(T) \in T
  BY LastIndex

\* How Without goes through a list: rest[T] is what it leaves of the elements
\* at the indices of T.
IsRest(rest, list, S) ==
    /\ Without(list, S) = rest[DOMAIN list]
    /\ rest[{}] = <<>>
    /\ \A T \in SUBSET DOMAIN list : T # {} =>
         rest[T] = IF list[Max(T)] \in S THEN rest[T \ {Max(T)}]
                   ELSE Append(rest[T \ {Max(T)}], list[Max(T)])

LEMMA WithoutFolds ==
    ASSUME NEW list \in Seq(Groups), NEW S
    PROVE  \E rest : IsRest(rest, list, S)
<1> DEFINE D == DOMAIN list
           Folds(f) == f = [T \in SUBSET D |->
                              IF T = {} THEN <<>>
                              ELSE IF list[Max(T)] \in S THEN f[T \ {Max(T)}]
                              ELSE Append(f[T \ {Max(T)}], list[Max(T)])]
           F == CHOOSE f : Folds(f)
           step == [x \in Seq(Groups) \X D |->
                      IF list[x[2]] \in S THEN x[1] ELSE Append(x[1], list[x[2]])]
           pick == [T \in SUBSET D |-> Max(T)]
<1>1. Without(list, S) = F[D]
  BY DEF Without, FoldLeft, MapThenFoldSet
<1>2. \A T \in SUBSET D : T # {} => Max(T) \in T
  BY LastOfPart
<1>3. IsFiniteSet(D) /\ \A i \in D : list[i] \in Groups
  <2>1. D = 1..Len(list) /\ Len(list) \in Nat
    BY LenProperties
  <2>2. IsFiniteSet(1..Len(list))
    BY <2>1, FS_Interval
  <2> QED
    BY <2>1, <2>2, ElementOfSeq
<1>4. PICK h : IsFold(h, D, <<>>, step, pick)
  <2>1. \A T \in SUBSET D : T # {} => pick[T] \in T
    BY <1>2
  <2> HIDE DEF pick, step, D
  <2> QED
    BY <1>3, <2>1, FoldExists
<1>5. /\ h = [T \in SUBSET D |-> h[T]]
      /\ h[{}] = <<>>
      /\ \A T \in SUBSET D : T # {} => h[T] = step[<<h[T \ {Max(T)}], Max(T)>>]
  <2>1. \A T \in SUBSET D : pick[T] = Max(T)
    OBVIOUS
  <2> HIDE DEF pick, step
  <2> QED
    BY <1>4, <2>1 DEF IsFold
<1>6. ASSUME NEW l \in Seq(Groups), NEW i \in D
      PROVE  /\ step[<<l, i>>] = IF list[i] \in S THEN l ELSE Append(l, list[i])
             /\ step[<<l, i>>] \in Seq(Groups)
  BY <1>3, AppendProperties
<1> HIDE DEF step
<1> DEFINE Good == {T \in SUBSET D : h[T] \in Seq(Groups)}
<1>7. ASSUME NEW T \in SUBSET D, \A U \in SUBSET T : U # T => U \in Good
      PROVE  T \in Good
  <2>1. CASE T = {}
    BY <1>5, <2>1, EmptySeq
  <2>2. CASE T # {}
    <3>1. Max(T) \in T /\ Max(T) \in D
      BY <1>2, <2>2
    <3>2. h[T \ {Max(T)}] \in Seq(Groups)
      BY <1>7, <3>1
    <3> QED
      BY <1>5, <1>6, <2>2, <3>1, <3>2
  <2> QED
    BY <2>1, <2>2
<1> HIDE DEF Good
<1>8. \A T \in SUBSET D : T \in Good
  BY <1>3, <1>7, SubsetInduction
<1>9. Folds(h)
  <2>1. ASSUME NEW T \in SUBSET D
        PROVE  h[T] = IF T = {} THEN <<>>
                      ELSE IF list[Max(T)] \in S THEN h[T \ {Max(T)}]
                      ELSE Append(h[T \ {Max(T)}], list[Max(T)])
    <3>1. CASE T = {}
      BY <1>5, <3>1
    <3>2. CASE T # {}
      <4>1. Max(T) \in D
        BY <1>2, <3>2
      <4>2. h[T \ {Max(T)}] \in Seq(Groups)
        BY <1>8 DEF Good
      <4> QED
        BY <1>5, <1>6, <3>2, <4>1, <4>2
    <3> QED
      BY <3>1, <3>2
  <2> QED
    BY <1>5, <2>1, Zenon
<1>10. Folds(F)
  <2> HIDE DEF Folds
  <2> QED
    BY <1>9
<1> HIDE DEF F
<1>11. F[{}] = <<>> /\ \A T \in SUBSET D : T # {} =>
          F[T] = IF list[Max(T)] \in S THEN F[T \ {Max(T)}]
                 ELSE Append(F[T \ {Max(T)}], list[Max(T)])
  BY <1>10
<1> QED
  BY <1>1, <1>11 DEF IsRest

\* What is left of a list is the rest of its elements, none of them twice that
\* was not twice before.
LEMMA WithoutIsRest ==
    ASSUME NEW list \in Seq(Groups), NEW S
    PROVE  LET left == Without(list, S)
           IN /\ left \in Seq(Groups)
              /\ ToSet(left) = ToSet(list) \ S
              /\ IsInjective(list) => IsInjective(left)
<1> DEFINE D == DOMAIN list
           At(T) == {list[i] : i \in T}
<1>0. PICK rest : IsRest(rest, list, S)
  BY WithoutFolds
<1>1. /\ Without(list, S) = rest[D]
      /\ rest[{}] = <<>>
      /\ \A T \in SUBSET D : T # {} =>
           rest[T] = IF list[Max(T)] \in S THEN rest[T \ {Max(T)}]
                     ELSE Append(rest[T \ {Max(T)}], list[Max(T)])
  BY <1>0 DEF IsRest
<1>2. IsFiniteSet(D) /\ \A i \in D : list[i] \in Groups
  <2>1. D = 1..Len(list) /\ Len(list) \in Nat
    BY LenProperties
  <2>2. IsFiniteSet(1..Len(list))
    BY <2>1, FS_Interval
  <2> QED
    BY <2>1, <2>2, ElementOfSeq
<1> DEFINE Good == {T \in SUBSET D : /\ rest[T] \in Seq(Groups)
                                     /\ ToSet(rest[T]) = At(T) \ S
                                     /\ IsInjective(list) => IsInjective(rest[T])}
<1>3. ASSUME NEW T \in SUBSET D, \A U \in SUBSET T : U # T => U \in Good
      PROVE  T \in Good
  <2>1. CASE T = {}
    <3>1. rest[T] = <<>> /\ At(T) = {}
      BY <1>1, <2>1
    <3>2. <<>> \in Seq(Groups) /\ DOMAIN <<>> = {}
      BY EmptySeq
    <3>3. ToSet(<<>>) = {} /\ IsInjective(<<>>)
      BY <3>2 DEF ToSet, IsInjective
    <3> QED
      BY <3>1, <3>2, <3>3
  <2>2. CASE T # {}
    <3> DEFINE m == Max(T)
               U == T \ {m}
    <3>1. m \in T /\ m \in D /\ U \in SUBSET D /\ U \in SUBSET T /\ U # T
      BY <2>2, LastOfPart
    <3>2. rest[T] = IF list[m] \in S THEN rest[U] ELSE Append(rest[U], list[m])
      BY <1>1, <2>2
    <3> HIDE DEF m
    <3>3. /\ rest[U] \in Seq(Groups)
          /\ ToSet(rest[U]) = At(U) \ S
          /\ IsInjective(list) => IsInjective(rest[U])
      BY <1>3, <3>1
    <3>4. At(T) = At(U) \cup {list[m]}
      BY <3>1
    <3>5. IsInjective(list) => list[m] \notin At(U)
      BY <3>1 DEF IsInjective
    <3> HIDE DEF At, U
    <3>6. CASE list[m] \in S
      <4>1. rest[T] = rest[U] /\ At(T) \ S = At(U) \ S
        BY <3>2, <3>4, <3>6
      <4> QED
        BY <3>3, <4>1
    <3>7. CASE list[m] \notin S
      <4>1. rest[T] = Append(rest[U], list[m]) /\ At(T) \ S = (At(U) \ S) \cup {list[m]}
        BY <3>2, <3>4, <3>7
      <4>2. list[m] \in Groups
        BY <1>2, <3>1
      <4>3. /\ rest[T] \in Seq(Groups)
            /\ ToSet(rest[T]) = ToSet(rest[U]) \cup {list[m]}
            /\ IsInjective(rest[U]) /\ list[m] \notin ToSet(rest[U]) =>
                 IsInjective(rest[T])
        <5> DEFINE l == rest[U]
                   x == list[m]
        <5> HIDE DEF l, x
        <5>1. l \in Seq(Groups) /\ x \in Groups /\ rest[T] = Append(l, x)
          BY <3>3, <4>1, <4>2 DEF l, x
        <5>2. /\ Append(l, x) \in Seq(Groups)
              /\ ToSet(Append(l, x)) = ToSet(l) \cup {x}
              /\ IsInjective(l) /\ x \notin ToSet(l) => IsInjective(Append(l, x))
          BY <5>1, AppendsOne
        <5> QED
          BY <5>1, <5>2 DEF l, x
      <4> QED
        BY <3>3, <3>5, <4>1, <4>3
    <3> QED
      BY <3>6, <3>7
  <2> QED
    BY <2>1, <2>2
<1> HIDE DEF Good
<1>4. \A T \in SUBSET D : T \in Good
  BY <1>2, <1>3, SubsetInduction
<1>5. D \in Good
  BY <1>4
<1>6. At(D) = ToSet(list)
  BY DEF ToSet
<1> QED
  BY <1>1, <1>5, <1>6 DEF Good

-----------------------------------------------------------------------------
(* The dictionary of groups.                                               *)

DictSound == DictIsLive /\ \A c \in DOMAIN dict : dict[c] \in Seq(Groups)

\* add_seq_group.
LEMMA AddKeepsDict ==
    ASSUME TrackerInv, DictSound, NEW g \in Groups, Arrive(g),
           dict' = AddSeqGroup(dict, g)
    PROVE  DictSound'
<1> DEFINE c == Collection[g]
           list == IF c \in DOMAIN dict THEN dict[c] ELSE <<>>
<1>1. /\ phase[g] = "new" /\ phase'[g] = "waiting"
      /\ \A h \in Groups \ {g} : phase'[h] = phase[h]
  BY DEF Arrive, TrackerInv
<1>2. ~Live(g) /\ phase[g] # "aborted"
  BY <1>1 DEF Live, InQueue, Queues
<1>3. /\ DOMAIN dict' = DOMAIN dict \cup {c}
      /\ dict'[c] = Append(list, g)
      /\ \A e \in DOMAIN dict \ {c} : dict'[e] = dict[e]
  BY DEF AddSeqGroup
<1>4. /\ list \in Seq(Groups) /\ IsInjective(list)
      /\ \A h \in ToSet(list) : Collection[h] = c /\ (Live(h) \/ phase[h] = "aborted")
  <2>1. CASE c \in DOMAIN dict
    BY <2>1 DEF DictSound, DictIsLive
  <2>2. CASE c \notin DOMAIN dict
    <3>1. DOMAIN <<>> = {} /\ <<>> \in Seq(Groups)
      BY EmptySeq
    <3> QED
      BY <2>2, <3>1 DEF IsInjective, ToSet
  <2> QED
    BY <2>1, <2>2
<1>5. g \notin ToSet(list)
  BY <1>2, <1>4
<1> HIDE DEF list
<1>6. /\ dict'[c] \in Seq(Groups)
      /\ ToSet(dict'[c]) = ToSet(list) \cup {g}
      /\ IsInjective(dict'[c])
      /\ dict'[c] # <<>>
  <2>1. Append(list, g) # <<>>
    BY <1>4, AppendProperties
  <2> QED
    BY <1>3, <1>4, <1>5, <2>1, AppendsOne
<1>7. \A h \in Groups : Live(h) \/ phase[h] = "aborted" => Live(h)' \/ phase'[h] = "aborted"
  BY <1>1, <1>2 DEF Live, InQueue
<1>8. ASSUME NEW e \in DOMAIN dict'
      PROVE  /\ dict'[e] \in Seq(Groups) /\ dict'[e] # <<>> /\ IsInjective(dict'[e])
             /\ \A h \in ToSet(dict'[e]) : /\ Collection[h] = e
                                           /\ Live(h)' \/ phase'[h] = "aborted"
  <2>1. CASE e = c
    <3>1. Live(g)'
      BY <1>1 DEF Live, InQueue, Queues
    <3>2. \A h \in ToSet(list) : h \in Groups
      BY <1>4, ElementOfSeq, LenProperties DEF ToSet
    <3> QED
      BY <1>4, <1>6, <1>7, <2>1, <3>1, <3>2
  <2>2. CASE e # c
    <3>1. e \in DOMAIN dict /\ dict'[e] = dict[e]
      BY <1>3, <2>2
    <3>2. dict[e] \in Seq(Groups)
      BY <3>1 DEF DictSound
    <3>3. \A h \in ToSet(dict[e]) : h \in Groups
      BY <3>2, ElementOfSeq, LenProperties DEF ToSet
    <3> QED
      BY <1>7, <3>1, <3>2, <3>3 DEF DictSound, DictIsLive
  <2> QED
    BY <2>1, <2>2
<1>9. ASSUME NEW h \in Groups, Live(h)'
      PROVE  h \in Peers(h)'
  <2>1. CASE h = g
    BY <1>3, <1>6, <2>1 DEF Peers
  <2>2. CASE h # g
    <3>1. Live(h)
      BY <1>1, <1>9, <2>2 DEF Live, InQueue
    <3>2. Collection[h] \in DOMAIN dict /\ h \in ToSet(dict[Collection[h]])
      BY <3>1 DEF DictSound, DictIsLive, Peers
    <3>3. CASE Collection[h] = c
      BY <1>3, <1>6, <3>2, <3>3 DEF Peers, list
    <3>4. CASE Collection[h] # c
      BY <1>3, <3>2, <3>4 DEF Peers
    <3> QED
      BY <3>3, <3>4
  <2> QED
    BY <2>1, <2>2
<1> QED
  BY <1>8, <1>9 DEF DictSound, DictIsLive

\* The dictionary does not change, and groups leave the queues by abort only.
LEMMA SameDict ==
    ASSUME DictSound, dict' = dict,
           \A g \in Groups : Live(g)' => Live(g),
           \A g \in Groups : Live(g) \/ phase[g] = "aborted" => Live(g)' \/ phase'[g] = "aborted"
    PROVE  DictSound'
<1>1. ASSUME NEW c \in DOMAIN dict
      PROVE  /\ dict[c] \in Seq(Groups) /\ dict[c] # <<>> /\ IsInjective(dict[c])
             /\ \A h \in ToSet(dict[c]) : /\ Collection[h] = c
                                          /\ Live(h)' \/ phase'[h] = "aborted"
  <2>1. dict[c] \in Seq(Groups)
    BY DEF DictSound
  <2>2. \A h \in ToSet(dict[c]) : h \in Groups
    BY <2>1, ElementOfSeq, LenProperties DEF ToSet
  <2> QED
    BY <2>1, <2>2 DEF DictSound, DictIsLive
<1>2. \A g \in Groups : Live(g)' => g \in Peers(g)'
  BY DEF DictSound, DictIsLive, Peers
<1> QED
  BY <1>1, <1>2 DEF DictSound, DictIsLive

\* free_finished_seq_groups tells the policy of all groups that finish.
LEMMA RunKeepsDict ==
    ASSUME TrackerInv, DictSound, NEW S \in SUBSET Groups, Run(S)
    PROVE  /\ DictSound'
           /\ DOMAIN dict' \subseteq DOMAIN dict
           /\ \A c \in DOMAIN dict' : ToSet(dict'[c]) \subseteq ToSet(dict[c])
<1> DEFINE gone == {g \in S : phase'[g] = "finished"}
<1>1. dict' = DeleteSeqGroups(dict, gone)
  BY DEF Run
<1>2. /\ \A g \in Groups : phase'[g] = phase[g] \/ phase'[g] = "finished"
      /\ \A g \in gone : phase'[g] = "finished"
      /\ \A g \in Groups \ gone : phase'[g] = phase[g]
  BY DEF Run, ModelRun
<1> HIDE DEF gone
<1>3. /\ DOMAIN dict' = {e \in DOMAIN dict : Without(dict[e], gone) # <<>>}
      /\ \A c \in DOMAIN dict' : dict'[c] = Without(dict[c], gone)
  BY <1>1 DEF DeleteSeqGroups
<1>4. ASSUME NEW c \in DOMAIN dict
      PROVE  LET left == Without(dict[c], gone)
             IN /\ left \in Seq(Groups) /\ IsInjective(left)
                /\ ToSet(left) = ToSet(dict[c]) \ gone
  <2>1. dict[c] \in Seq(Groups) /\ IsInjective(dict[c])
    BY DEF DictSound, DictIsLive
  <2> QED
    BY <2>1, WithoutIsRest
<1>5. \A h \in Groups \ gone : /\ Live(h)' = Live(h)
                               /\ phase'[h] = phase[h]
  BY <1>2 DEF Live, InQueue
<1>6. ASSUME NEW c \in DOMAIN dict'
      PROVE  /\ c \in DOMAIN dict
             /\ dict'[c] \in Seq(Groups) /\ dict'[c] # <<>> /\ IsInjective(dict'[c])
             /\ ToSet(dict'[c]) = ToSet(dict[c]) \ gone
             /\ \A h \in ToSet(dict'[c]) : /\ Collection[h] = c
                                           /\ Live(h)' \/ phase'[h] = "aborted"
  <2>1. c \in DOMAIN dict /\ dict'[c] = Without(dict[c], gone) /\ dict'[c] # <<>>
    BY <1>3
  <2>2. /\ dict'[c] \in Seq(Groups) /\ IsInjective(dict'[c])
        /\ ToSet(dict'[c]) = ToSet(dict[c]) \ gone
    BY <1>4, <2>1
  <2>3. dict[c] \in Seq(Groups)
    BY <2>1 DEF DictSound
  <2>4. \A h \in ToSet(dict[c]) : h \in Groups
    BY <2>3, ElementOfSeq, LenProperties DEF ToSet
  <2>5. \A h \in ToSet(dict[c]) : Collection[h] = c /\ (Live(h) \/ phase[h] = "aborted")
    BY <2>1 DEF DictSound, DictIsLive
  <2> QED
    BY <1>5, <2>1, <2>2, <2>4, <2>5
<1>7. ASSUME NEW h \in Groups, Live(h)'
      PROVE  h \in Peers(h)'
  <2>1. h \notin gone
    BY <1>2, <1>7 DEF Live, InQueue, Queues
  <2>2. Live(h)
    BY <1>5, <1>7, <2>1
  <2>3. Collection[h] \in DOMAIN dict /\ h \in ToSet(dict[Collection[h]])
    BY <2>2 DEF DictSound, DictIsLive, Peers
  <2>4. h \in ToSet(Without(dict[Collection[h]], gone))
    BY <1>4, <2>1, <2>3
  <2>5. Without(dict[Collection[h]], gone) # <<>>
    <3>1. DOMAIN <<>> = {}
      OBVIOUS
    <3> QED
      BY <2>4, <3>1 DEF ToSet
  <2> QED
    BY <1>3, <2>3, <2>4, <2>5 DEF Peers
<1> QED
  BY <1>6, <1>7 DEF DictSound, DictIsLive

-----------------------------------------------------------------------------
(* The invariant.                                                          *)

\* A group that has not come has no priority; policies but SLOPolicy keep none.
CacheSound ==
    /\ \A g \in Groups : phase[g] \in {"absent", "new"} => cached[g] = None
    /\ policy # "slo" => \A g \in Groups : cached[g] = None

PolicyInv ==
    TrackerInv /\ DictSound /\ CacheSound /\ count \in 0..(Interval - 1)

\* What a call of schedule() does to the priorities and the count.
LEMMA CallCaches ==
    ASSUME Call, count \in 0..(Interval - 1)
    PROVE  /\ count' \in 0..(Interval - 1)
           /\ count' < count \/ Interval = 1 => (count + 1) % Interval = 0
           /\ policy' = policy /\ dict' = dict
           /\ \E asked \in SUBSET {g \in Groups : InQueue(g)} :
                LET cache == IF (count + 1) % Interval = 0 THEN ClearedCache ELSE cached
                IN cached' = IF policy = "slo"
                             THEN CacheAfter(cache, asked, UnitTime(intervals'))
                             ELSE cached
<1> DEFINE queued == {g \in Groups : InQueue(g)}
           waiting == {g \in queued : phase[g] = "waiting"}
           preempted == {g \in queued : phase[g] = "running" /\ phase'[g] # "running"}
           cache == IF (count + 1) % Interval = 0 THEN ClearedCache ELSE cached
           After(asked) == IF policy = "slo"
                           THEN CacheAfter(cache, asked, UnitTime(intervals'))
                           ELSE cached
<1>1. /\ count' = (count + 1) % Interval
      /\ policy' = policy /\ dict' = dict
      /\ \E sorted \in IF (count + 1) % Interval = 0 THEN {queued, {}, waiting}
                       ELSE {waiting} :
           cached' = After(sorted \cup preempted)
  BY DEF Call
<1>2. \E asked \in SUBSET queued : cached' = After(asked)
  <2> HIDE DEF After
  <2> QED
    BY <1>1
<1>3. count \in Nat /\ count < Interval /\ Interval \in Nat \ {0}
  BY PolicyAssumption
<1>4. /\ (count + 1) % Interval \in 0..(Interval - 1)
      /\ (count + 1) % Interval < count \/ Interval = 1 => (count + 1) % Interval = 0
  <2>1. CASE count + 1 = Interval
    BY <1>3, <2>1
  <2>2. CASE count + 1 < Interval
    <3>1. (count + 1) % Interval = count + 1
      BY <1>3, <2>2
    <3> QED
      BY <1>3, <2>2, <3>1
  <2> QED
    BY <1>3, <2>1, <2>2
<1> QED
  BY <1>1, <1>2, <1>4

LEMMA PolicyInitInv == PolicyInit => PolicyInv
<1> SUFFICES ASSUME PolicyInit PROVE PolicyInv
  OBVIOUS
<1>1. TrackerInv
  BY TrackerInitSound DEF PolicyInit
<1>2. DOMAIN dict = {}
  BY DEF PolicyInit
<1>3. \A g \in Groups : phase[g] \in {"new", "absent"}
  BY DEF PolicyInit, TrackerInit
<1>4. DictSound
  BY <1>2, <1>3 DEF DictSound, DictIsLive, Live, InQueue, Queues
<1>5. CacheSound /\ count \in 0..(Interval - 1)
  BY PolicyAssumption DEF PolicyInit, CacheSound
<1> QED
  BY <1>1, <1>4, <1>5 DEF PolicyInv

\* Priorities are computed for queued groups, and for their peers.
LEMMA CacheAfterSound ==
    ASSUME DictSound, NEW cache, NEW asked \in SUBSET {g \in Groups : InQueue(g)},
           NEW unit, NEW g \in Groups, phase[g] \in {"absent", "new"}
    PROVE  CacheAfter(cache, asked, unit)[g] = cache[g]
<1>1. g \notin asked
  BY DEF InQueue, Queues
<1>2. ASSUME NEW p PROVE g \notin Peers(p)
  BY DEF DictSound, DictIsLive, Peers, Live, InQueue, Queues
<1> QED
  BY <1>1, <1>2 DEF CacheAfter

\* Every step of the specification keeps the invariant, and the arrivals.
LEMMA PolicyStep ==
    ASSUME PolicyInv, [PolicyNext]_vars
    PROVE  PolicyInv' /\ ArrivalsKept
<1>1. /\ TrackerInv /\ DictSound /\ CacheSound /\ count \in 0..(Interval - 1)
      /\ phase \in [Groups -> Phases]
  BY DEF PolicyInv, TrackerInv
<1>2. ASSUME NEW g \in Groups, Add(g)
      PROVE  PolicyInv' /\ ArrivalsKept
  <2>1. /\ Arrive(g) /\ dict' = AddSeqGroup(dict, g)
        /\ cached' = cached /\ policy' = policy /\ count' = count
    BY <1>2 DEF Add
  <2>2. TrackerInv' /\ ArrivalsKept
    BY <1>1, <2>1, ArriveSound
  <2>3. DictSound'
    BY <1>1, <2>1, AddKeepsDict
  <2>4. \A h \in Groups : phase'[h] \in {"absent", "new"} => phase[h] \in {"absent", "new"}
    BY <1>1, <2>1 DEF Arrive
  <2>5. CacheSound'
    BY <1>1, <2>1, <2>4 DEF CacheSound
  <2> QED
    BY <1>1, <2>1, <2>2, <2>3, <2>5 DEF PolicyInv
<1>3. ASSUME NEW g \in Groups, GiveUp(g)
      PROVE  PolicyInv' /\ ArrivalsKept
  <2>1. /\ Abort(g) /\ dict' = dict /\ cached' = cached /\ policy' = policy
        /\ count' = count
    BY <1>3 DEF GiveUp, policyVars
  <2>2. TrackerInv' /\ ArrivalsKept
    BY <1>1, <2>1, AbortSound
  <2>3. /\ phase' = [phase EXCEPT ![g] = "aborted"]
        /\ \A h \in Groups : phase'[h] = IF h = g THEN "aborted" ELSE phase[h]
    BY <1>1, <2>1 DEF Abort
  <2>4. DictSound'
    <3>1. \A h \in Groups : Live(h)' => Live(h)
      BY <2>3 DEF Live, InQueue, Queues
    <3>2. \A h \in Groups :
            Live(h) \/ phase[h] = "aborted" => Live(h)' \/ phase'[h] = "aborted"
      BY <2>3 DEF Live, InQueue
    <3> QED
      BY <1>1, <2>1, <3>1, <3>2, SameDict
  <2>5. CacheSound'
    BY <1>1, <2>1, <2>3 DEF CacheSound
  <2> QED
    BY <1>1, <2>1, <2>2, <2>4, <2>5 DEF PolicyInv
<1>4. ASSUME Call
      PROVE  PolicyInv' /\ ArrivalsKept
  <2>1. Schedule
    BY <1>4 DEF Call
  <2>2. TrackerInv' /\ ArrivalsKept
    BY <1>1, <2>1, ScheduleSound
  <2>3. /\ \A g \in Groups : InQueue(g)' = InQueue(g)
        /\ \A g \in Groups : ~InQueue(g) => phase'[g] = phase[g]
    BY <1>1, <2>1, ScheduleMoves
  <2>4. /\ count' \in 0..(Interval - 1) /\ policy' = policy /\ dict' = dict
        /\ \E asked \in SUBSET {g \in Groups : InQueue(g)} :
             LET cache == IF (count + 1) % Interval = 0 THEN ClearedCache ELSE cached
             IN cached' = IF policy = "slo"
                          THEN CacheAfter(cache, asked, UnitTime(intervals'))
                          ELSE cached
    BY <1>1, <1>4, CallCaches
  <2>5. DictSound'
    <3>1. /\ \A h \in Groups : Live(h)' => Live(h)
          /\ \A h \in Groups :
               Live(h) \/ phase[h] = "aborted" => Live(h)' \/ phase'[h] = "aborted"
      BY <2>3 DEF Live, InQueue, Queues
    <3> QED
      BY <1>1, <2>4, <3>1, SameDict
  <2>6. CacheSound'
    <3> DEFINE cache == IF (count + 1) % Interval = 0 THEN ClearedCache ELSE cached
    <3>1. PICK asked \in SUBSET {g \in Groups : InQueue(g)} :
            cached' = IF policy = "slo" THEN CacheAfter(cache, asked, UnitTime(intervals'))
                      ELSE cached
      BY <2>4
    <3>2. ASSUME NEW g \in Groups, phase'[g] \in {"absent", "new"}
          PROVE  cached'[g] = None
      <4>1. phase[g] \in {"absent", "new"}
        BY <2>3, <3>2 DEF InQueue, Queues
      <4>2. cache[g] = None /\ cached[g] = None
        BY <1>1, <4>1 DEF CacheSound, ClearedCache
      <4> HIDE DEF cache
      <4>3. CacheAfter(cache, asked, UnitTime(intervals'))[g] = cache[g]
        BY <1>1, <4>1, CacheAfterSound
      <4> QED
        BY <3>1, <4>2, <4>3
    <3> QED
      BY <1>1, <2>4, <3>1, <3>2 DEF CacheSound
  <2> QED
    BY <2>2, <2>4, <2>5, <2>6 DEF PolicyInv
<1>5. ASSUME NEW S \in SUBSET Groups, Run(S)
      PROVE  PolicyInv' /\ ArrivalsKept
  <2>1. ModelRun(S) /\ cached' = cached /\ policy' = policy /\ count' = count
    BY <1>5 DEF Run
  <2>2. TrackerInv' /\ ArrivalsKept
    BY <1>1, <2>1, ModelRunSound
  <2>3. DictSound'
    BY <1>1, <1>5, RunKeepsDict
  <2>4. \A g \in Groups : phase'[g] \in {"absent", "new"} => phase[g] \in {"absent", "new"}
    BY <2>1 DEF ModelRun
  <2>5. CacheSound'
    BY <1>1, <2>1, <2>4 DEF CacheSound
  <2> QED
    BY <1>1, <2>1, <2>2, <2>3, <2>5 DEF PolicyInv
<1>6. ASSUME trackerVars' = trackerVars, dict' = dict, cached' = cached,
             policy' = policy, count' = count
      PROVE  PolicyInv' /\ ArrivalsKept
  <2>1. now' = now /\ phase' = phase /\ decoded' = decoded /\ metrics' = metrics
        /\ called' = called
    BY <1>6 DEF trackerVars
  <2>2. TrackerInv' /\ ArrivalsKept
    BY <1>1, <2>1 DEF TrackerInv, InQueue, ArrivalsKept, OfGroups
  <2>3. DictSound'
    BY <1>1, <1>6, <2>1 DEF DictSound, DictIsLive, Live, InQueue, Peers
  <2>4. CacheSound'
    BY <1>1, <1>6, <2>1 DEF CacheSound
  <2> QED
    BY <1>1, <1>6, <2>2, <2>3, <2>4 DEF PolicyInv
<1>7. ASSUME NEW g \in Groups, Predict(g)
      PROVE  PolicyInv' /\ ArrivalsKept
  BY <1>6, <1>7 DEF Predict
<1>8. ASSUME UNCHANGED vars
      PROVE  PolicyInv' /\ ArrivalsKept
  BY <1>6, <1>8 DEF vars, policyVars
<1> QED
  BY <1>2, <1>3, <1>4, <1>5, <1>7, <1>8 DEF PolicyNext

LEMMA PolicyInvariance == PolicySpec => []PolicyInv
<1>1. PolicyInit => PolicyInv
  BY PolicyInitInv
<1>2. PolicyInv /\ [PolicyNext]_vars => PolicyInv'
  BY PolicyStep
<1> QED
  BY <1>1, <1>2, PTL DEF PolicySpec

-----------------------------------------------------------------------------
(* The theorems.                                                           *)

\* What the tracker has recorded of a request that was not swapped out adds up
\* at any time: the time to its first token and the times between its tokens
\* span the time it has been served, and the tokens they are for are those seen
\* after the first update; a recomputation, which forgets the times, is no
\* exception.
THEOREM TimesAlwaysAddUp == PolicySpec => []TimesAddUp
<1>1. PolicyInv => TimesAddUp
  <2> SUFFICES ASSUME PolicyInv, NEW g \in Groups
               PROVE  LET m == metrics[g]
                          Sums(f) == FoldFunction(+, 0, [e \in DOMAIN m.tbt |-> m.tbt[e][f]])
                      IN ~m.swapped =>
                           /\ InQueue(g) => ((m.last = Unknown) <=> (m.output = 0))
                           /\ m.last # Unknown =>
                                /\ m.ttft # Unknown
                                /\ m.arrival + m.ttft + Sums(1) = m.last
                                /\ m.last <= now
                                /\ Sums(2) < m.output /\ m.output <= decoded[g]
    BY DEF TimesAddUp
  <2> DEFINE m == metrics[g]
             v(f) == [e \in DOMAIN m.tbt |-> m.tbt[e][f]]
  <2>1. MetricsSound(m, decoded[g], now)
    BY DEF PolicyInv, TrackerInv
  <2>2. ASSUME NEW f
        PROVE  FoldFunction(+, 0, v(f)) = Total(m.tbt, f)
    <3>1. FoldFunction(+, 0, v(f)) = Sum(v(f), DOMAIN v(f))
      BY FoldIsSum
    <3>2. DOMAIN v(f) = DOMAIN m.tbt
      OBVIOUS
    <3> QED
      BY <3>1, <3>2 DEF Total
  <2>3. m.last = Unknown => m.output = 0
    BY <2>1 DEF MetricsSound
  <2>4. m.last # Unknown =>
          /\ m.ttft # Unknown /\ m.arrival + m.ttft + Total(m.tbt, 1) = m.last
          /\ m.last <= now /\ m.output # 0
          /\ Total(m.tbt, 2) < m.output /\ m.output <= decoded[g]
    BY <2>1 DEF MetricsSound
  <2> HIDE DEF m
  <2>5. /\ FoldFunction(+, 0, v(1)) = Total(m.tbt, 1)
        /\ FoldFunction(+, 0, v(2)) = Total(m.tbt, 2)
    BY <2>2
  <2>6. /\ (m.last = Unknown) <=> (m.output = 0)
        /\ m.last # Unknown =>
             /\ m.ttft # Unknown
             /\ m.arrival + m.ttft + FoldFunction(+, 0, v(1)) = m.last
             /\ m.last <= now
             /\ FoldFunction(+, 0, v(2)) < m.output /\ m.output <= decoded[g]
    BY <2>3, <2>4, <2>5, Zenon
  <2> QED
    BY <2>6, Zenon DEF m
<1> QED
  BY <1>1, PolicyInvariance, PTL

\* The policy knows the queued groups, each of them once, and of those that
\* have left only aborted ones: the lookups of get_priority and
\* allocation_control always find the group they are for.
THEOREM DictIsAlwaysLive == PolicySpec => []DictIsLive
<1>1. PolicyInv => DictIsLive
  BY DEF PolicyInv, DictSound
<1> QED
  BY <1>1, PolicyInvariance, PTL

\* Whatever is cached when a call ends an interval is computed in that call,
\* from what is known then, for any interval.
THEOREM PrioritiesAreFresh == PolicySpec => FreshAtInterval
<1>1. ASSUME PolicyInv, [PolicyNext]_vars
      PROVE  count' < count \/ (Interval = 1 /\ called' /\ ~called) =>
               \A g \in Groups : cached'[g] # None /\ Live(g) =>
                 LET unit == UnitTime(intervals')
                 IN cached'[g] = <<Density(g, unit, now), RemainTime(g, unit)>>
  <2> SUFFICES ASSUME count' < count \/ (Interval = 1 /\ called' /\ ~called)
               PROVE  \A g \in Groups : cached'[g] # None =>
                 cached'[g] = <<Density(g, UnitTime(intervals'), now),
                                RemainTime(g, UnitTime(intervals'))>>
    OBVIOUS
  <2>1. count \in 0..(Interval - 1) /\ CacheSound /\ Interval \in Nat \ {0}
    BY <1>1, PolicyAssumption DEF PolicyInv
  <2>2. count' # count \/ (called' /\ ~called)
    BY <2>1
  <2>3. Call
    <3>1. ASSUME NEW g \in Groups, Add(g) PROVE FALSE
      BY <2>2, <3>1 DEF Add, Arrive
    <3>2. ASSUME NEW g \in Groups, Predict(g) PROVE FALSE
      BY <2>2, <3>2 DEF Predict, trackerVars
    <3>3. ASSUME NEW g \in Groups, GiveUp(g) PROVE FALSE
      BY <2>2, <3>3 DEF GiveUp, Abort, policyVars
    <3>4. ASSUME NEW S \in SUBSET Groups, Run(S) PROVE FALSE
      BY <2>2, <3>4 DEF Run, ModelRun
    <3>5. ~(UNCHANGED vars)
      BY <2>2 DEF vars, trackerVars, policyVars
    <3> QED
      BY <1>1, <3>1, <3>2, <3>3, <3>4, <3>5 DEF PolicyNext
  <2>4. /\ (count + 1) % Interval = 0
        /\ \E asked \in SUBSET {g \in Groups : InQueue(g)} :
             LET cache == IF (count + 1) % Interval = 0 THEN ClearedCache ELSE cached
             IN cached' = IF policy = "slo"
                          THEN CacheAfter(cache, asked, UnitTime(intervals'))
                          ELSE cached
    <3>1. count' < count \/ Interval = 1
      OBVIOUS
    <3> QED
      BY <2>1, <2>3, <3>1, CallCaches
  <2>5. PICK asked \in SUBSET {g \in Groups : InQueue(g)} :
          cached' = IF policy = "slo"
                    THEN CacheAfter(ClearedCache, asked, UnitTime(intervals'))
                    ELSE cached
    BY <2>4
  <2>6. CASE policy # "slo"
    BY <2>1, <2>5, <2>6 DEF CacheSound
  <2>7. CASE policy = "slo"
    <3> DEFINE unit == UnitTime(intervals')
    <3>1. cached' = CacheAfter(ClearedCache, asked, unit)
      BY <2>5, <2>7
    <3> HIDE DEF unit
    <3>2. ASSUME NEW g \in Groups, cached'[g] # None
          PROVE  cached'[g] = <<Density(g, unit, now), RemainTime(g, unit)>>
      <4>1. ClearedCache[g] = None
        BY DEF ClearedCache
      <4> QED
        BY <3>1, <3>2, <4>1 DEF CacheAfter
    <3> QED
      BY <3>2 DEF unit
  <2> QED
    BY <2>6, <2>7
<1>2. PolicySpec => [][PolicyInv /\ [PolicyNext]_vars]_vars
  BY PolicyInvariance, PTL DEF PolicySpec
<1> QED
  BY <1>1, <1>2, PolicyInvariance, PTL DEF PolicySpec, FreshAtInterval

\* The priority p is what SRTF gives at time t to a deadline.
IsDistance(p, deadline, t) ==
    /\ p[1] = IF t >= deadline THEN 1 ELSE 0
    /\ p[2] = IF t >= deadline THEN t - deadline ELSE deadline - t

LEMMA DistanceOfLeft ==
    ASSUME NEW deadline \in Int, NEW t \in Int, NEW left, left = deadline - t,
           NEW p, p = IF left > 0 THEN <<0, left>> ELSE <<1, -left>>
    PROVE  IsDistance(p, deadline, t)
<1>1. CASE t >= deadline
  <2>1. p = <<1, -left>> /\ -left = t - deadline
    BY <1>1
  <2> QED
    BY <1>1, <2>1 DEF IsDistance
<1>2. CASE ~(t >= deadline)
  <2>1. p = <<0, left>>
    BY <1>2
  <2> QED
    BY <1>2, <2>1 DEF IsDistance
<1> QED
  BY <1>1, <1>2

\* Which of two deadlines comes first depends on whether they are missed and on
\* their order, and not on the time.
LEMMA OrderOfDistances ==
    ASSUME NEW x \in Int, NEW y \in Int, NEW t \in Int, NEW p, NEW q,
           IsDistance(p, x, t), IsDistance(q, y, t)
    PROVE  (p[1] < q[1] \/ (p[1] = q[1] /\ p[2] < q[2]))
             <=> IF t >= x THEN t >= y /\ y < x ELSE t >= y \/ x < y
<1>1. CASE t >= x /\ t >= y
  BY <1>1 DEF IsDistance
<1>2. CASE t >= x /\ ~(t >= y)
  BY <1>2 DEF IsDistance
<1>3. CASE ~(t >= x) /\ t >= y
  BY <1>3 DEF IsDistance
<1>4. CASE ~(t >= x) /\ ~(t >= y)
  BY <1>4 DEF IsDistance
<1> QED
  BY <1>1, <1>2, <1>3, <1>4

\* Under FCFS and SRTF two queued groups change places only when one of them
\* misses its deadline, whatever else happens in the step.
THEOREM OrderIsKept == PolicySpec => OrderKept
<1>1. ASSUME PolicyInv, [PolicyNext]_vars
      PROVE  (policy \in {"fcfs", "srtf"}) =>
               \A a, b \in {g \in Groups : Live(g) /\ Live(g)' /\ Missed(g)' = Missed(g)} :
                 Before(a, b)' <=> Before(a, b)
  <2> SUFFICES ASSUME policy \in {"fcfs", "srtf"}, NEW a \in Groups, NEW b \in Groups,
                      Live(a), Live(b), Missed(a)' = Missed(a), Missed(b)' = Missed(b)
               PROVE  Before(a, b)' <=> Before(a, b)
    OBVIOUS
  <2>1. PolicyInv' /\ ArrivalsKept
    BY <1>1, PolicyStep
  <2>2. policy' = policy
    BY <1>1 DEF PolicyNext, Add, Predict, GiveUp, Call, Run, vars, policyVars
  <2>3. ASSUME NEW g \in Groups, Live(g)
        PROVE  /\ metrics'[g].arrival = metrics[g].arrival
               /\ metrics[g].arrival \in Int /\ DeadlineOf(g) \in Int
    <3>1. metrics'[g].arrival = metrics[g].arrival
      BY <2>1, <2>3 DEF ArrivalsKept, Live
    <3>2. metrics[g].arrival \in Int
      BY <1>1 DEF PolicyInv, TrackerInv, MetricsSound
    <3>3. DeadlineOf(g) \in Int
      <4>1. SLO[g].ttft \in Int /\ SLO[g].ttlt \in Int
        BY TrackerAssumption
      <4>2. SLO[g].tbt * OutputLen[g] \in Int
        BY TrackerAssumption
      <4> QED
        BY <4>1, <4>2 DEF DeadlineOf
    <3> QED
      BY <3>1, <3>2, <3>3
  <2>4. now \in Int /\ now' \in Int
    BY <1>1, <2>1 DEF PolicyInv, TrackerInv
  <2>5. CASE policy = "fcfs"
    <3>1. ASSUME NEW g \in {a, b}
          PROVE  /\ Priority(g)[1] = 0 /\ Priority(g)[2] = metrics[g].arrival
                 /\ Priority(g)'[1] = 0 /\ Priority(g)'[2] = metrics[g].arrival
      BY <2>2, <2>3, <2>5 DEF Priority
    <3> QED
      BY <3>1 DEF Before
  <2>6. CASE policy = "srtf"
    <3>1. ASSUME NEW g \in Groups, Live(g), Missed(g)' = Missed(g)
          PROVE  \E d \in Int : /\ IsDistance(Priority(g), d, now)
                                /\ IsDistance(Priority(g)', d, now')
                                /\ (now >= d) <=> (now' >= d)
      <4> DEFINE d == metrics[g].arrival + DeadlineOf(g)
                 left == metrics[g].arrival + DeadlineOf(g) - now
                 later == metrics'[g].arrival + DeadlineOf(g)' - now'
      <4>1. /\ Priority(g) = DeadlinePriority(g)
            /\ Priority(g)' = DeadlinePriority(g)'
        BY <2>2, <2>6 DEF Priority
      <4>2. /\ DeadlinePriority(g) = IF left > 0 THEN <<0, left>> ELSE <<1, -left>>
            /\ DeadlinePriority(g)' = IF later > 0 THEN <<0, later>> ELSE <<1, -later>>
        BY DEF DeadlinePriority
      <4>3. d \in Int /\ left = d - now
        BY <2>3, <2>4, <3>1
      <4>4. later = d - now'
        BY <2>3, <2>4, <3>1 DEF DeadlineOf
      <4>5. (now >= d) <=> (now' >= d)
        BY <2>3, <3>1 DEF Missed, DeadlineOf
      <4> HIDE DEF d, left, later
      <4>6. IsDistance(Priority(g), d, now)
        BY <2>4, <4>1, <4>2, <4>3, DistanceOfLeft
      <4>7. IsDistance(Priority(g)', d, now')
        BY <2>4, <4>1, <4>2, <4>3, <4>4, DistanceOfLeft
      <4> QED
        BY <4>3, <4>5, <4>6, <4>7
    <3>2. PICK x \in Int : /\ IsDistance(Priority(a), x, now)
                           /\ IsDistance(Priority(a)', x, now')
                           /\ (now >= x) <=> (now' >= x)
      BY <3>1
    <3>3. PICK y \in Int : /\ IsDistance(Priority(b), y, now)
                           /\ IsDistance(Priority(b)', y, now')
                           /\ (now >= y) <=> (now' >= y)
      BY <3>1
    <3>4. Before(a, b) <=> IF now >= x THEN now >= y /\ y < x ELSE now >= y \/ x < y
      BY <2>4, <3>2, <3>3, OrderOfDistances DEF Before
    <3>5. Before(a, b)' <=> IF now' >= x THEN now' >= y /\ y < x ELSE now' >= y \/ x < y
      BY <2>4, <3>2, <3>3, OrderOfDistances DEF Before
    <3> QED
      BY <3>2, <3>3, <3>4, <3>5
  <2> QED
    BY <2>5, <2>6
<1> QED
  BY <1>1, PolicyInvariance, PTL DEF PolicySpec, OrderKept

-----------------------------------------------------------------------------
(* Peers.                                                                  *)

\* A collection is one workload item: its requests are all of one type.
PureCollections ==
    \A g, h \in Groups : Collection[g] = Collection[h] /\ Type[g] = "collective" =>
                           Type[h] = "collective"

\* Of the groups of a collective collection those that have a priority have the
\* same, the aborted ones included.
PeersAgree ==
    \A c \in DOMAIN dict : \A p, q \in ToSet(dict[c]) :
        Type[p] = "collective" /\ cached[p] # None /\ cached[q] # None =>
          cached[p] = cached[q]

\* The priority of a collective group is that of its list.
LEMMA PeersHaveOneDensity ==
    ASSUME NEW p \in Groups, NEW q \in Groups, NEW unit, NEW t,
           Type[p] = "collective", Type[q] = "collective", Peers(p) = Peers(q)
    PROVE  /\ Density(p, unit, t) = Density(q, unit, t)
           /\ RemainTime(p, unit) = RemainTime(q, unit)
<1> DEFINE Left(P) == MapThenSumSet(LAMBDA r : copiedLen[r] - decoded[r], P)
           All(P) == FoldSet(LAMBDA r, sum : Plus(Reward(r, unit, t), sum), Zero, P)
<1>1. /\ RemainTime(p, unit) = Greater(LeastTime, Times(unit, Whole(Left(Peers(p)))))
      /\ RemainTime(q, unit) = Greater(LeastTime, Times(unit, Whole(Left(Peers(q)))))
  BY DEF RemainTime, AllocationControl
<1>2. /\ Density(p, unit, t) = Over(All(Peers(p)), RemainTime(p, unit))
      /\ Density(q, unit, t) = Over(All(Peers(q)), RemainTime(q, unit))
  BY DEF Density
<1> HIDE DEF Left, All
<1>3. RemainTime(p, unit) = RemainTime(q, unit)
  BY <1>1
<1> QED
  BY <1>2, <1>3

\* get_priority leaves no two priorities in a collection.
LEMMA CacheKeepsPeers ==
    ASSUME PureCollections, DictSound, NEW cache, NEW unit,
           NEW asked \in SUBSET {g \in Groups : InQueue(g)},
           NEW c \in DOMAIN dict, NEW p \in ToSet(dict[c]), NEW q \in ToSet(dict[c]),
           Type[p] = "collective",
           cache[p] # None /\ cache[q] # None => cache[p] = cache[q],
           CacheAfter(cache, asked, unit)[p] # None,
           CacheAfter(cache, asked, unit)[q] # None
    PROVE  CacheAfter(cache, asked, unit)[p] = CacheAfter(cache, asked, unit)[q]
<1> DEFINE computed == {g \in asked : cache[g] = None}
           Recomputed(g) == \/ g \in computed
                            \/ \E r \in computed : Type[r] = "collective" /\ g \in Peers(r)
           after == CacheAfter(cache, asked, unit)
           new(g) == <<Density(g, unit, now), RemainTime(g, unit)>>
<1>1. p \in Groups /\ q \in Groups
  <2>1. dict[c] \in Seq(Groups)
    BY DEF DictSound
  <2> QED
    BY <2>1, ElementOfSeq, LenProperties DEF ToSet
<1>2. /\ after[p] = IF Recomputed(p) THEN new(p) ELSE cache[p]
      /\ after[q] = IF Recomputed(q) THEN new(q) ELSE cache[q]
  BY <1>1 DEF CacheAfter
<1>3. Collection[p] = c /\ Collection[q] = c
  BY DEF DictSound, DictIsLive
<1>4. Type[q] = "collective"
  BY <1>1, <1>3 DEF PureCollections
<1>5. Peers(p) = ToSet(dict[c]) /\ Peers(q) = ToSet(dict[c])
  BY <1>3 DEF Peers
<1>6. new(p) = new(q)
  BY <1>1, <1>4, <1>5, PeersHaveOneDensity
<1>7. ASSUME NEW r \in ToSet(dict[c]), NEW s \in ToSet(dict[c]), Recomputed(r),
             Type[r] = "collective"
      PROVE  Recomputed(s)
  <2>1. Collection[r] = c /\ Collection[s] = c
    BY DEF DictSound, DictIsLive
  <2>2. CASE r \in computed
    <3>1. s \in Peers(r)
      BY <2>1 DEF Peers
    <3> QED
      BY <1>7, <2>2, <3>1
  <2>3. CASE r \notin computed
    <3>1. PICK u \in computed : Type[u] = "collective" /\ r \in Peers(u)
      BY <1>7, <2>3
    <3>2. Collection[u] \in DOMAIN dict /\ r \in ToSet(dict[Collection[u]])
      BY <3>1 DEF Peers
    <3>3. Collection[u] = c
      BY <2>1, <3>2 DEF DictSound, DictIsLive
    <3>4. s \in Peers(u)
      BY <3>2, <3>3 DEF Peers
    <3> QED
      BY <3>1, <3>4
  <2> QED
    BY <2>2, <2>3
<1>8. Recomputed(p) <=> Recomputed(q)
  BY <1>4, <1>7
<1> HIDE DEF Recomputed, new, after
<1>9. after[p] = after[q]
  <2>1. CASE Recomputed(p)
    BY <1>2, <1>6, <1>8, <2>1
  <2>2. CASE ~Recomputed(p)
    <3>1. after[p] = cache[p] /\ after[q] = cache[q]
      BY <1>2, <1>8, <2>2
    <3>2. after[p] # None /\ after[q] # None
      BY DEF after
    <3> QED
      BY <3>1, <3>2
  <2> QED
    BY <2>1, <2>2
<1> QED
  BY <1>9 DEF after

LEMMA PeersStep ==
    ASSUME PureCollections, PolicyInv, PeersAgree, [PolicyNext]_vars
    PROVE  PeersAgree'
<1>1. /\ TrackerInv /\ DictSound /\ CacheSound /\ count \in 0..(Interval - 1)
      /\ phase \in [Groups -> Phases]
  BY DEF PolicyInv, TrackerInv
<1>2. ASSUME NEW g \in Groups, Add(g)
      PROVE  PeersAgree'
  <2>1. /\ dict' = AddSeqGroup(dict, g) /\ cached' = cached /\ phase[g] = "new"
    BY <1>2 DEF Add, Arrive
  <2>2. cached[g] = None
    BY <1>1, <2>1 DEF CacheSound
  <2> DEFINE c == Collection[g]
             list == IF c \in DOMAIN dict THEN dict[c] ELSE <<>>
  <2>3. /\ DOMAIN dict' = DOMAIN dict \cup {c}
        /\ dict'[c] = Append(list, g)
        /\ \A e \in DOMAIN dict \ {c} : dict'[e] = dict[e]
    BY <2>1 DEF AddSeqGroup
  <2>4. list \in Seq(Groups)
    BY <1>1, EmptySeq DEF DictSound
  <2>5. ToSet(list) # {} => c \in DOMAIN dict /\ list = dict[c]
    <3>1. DOMAIN <<>> = {}
      OBVIOUS
    <3> QED
      BY <3>1 DEF ToSet
  <2> HIDE DEF list
  <2>6. ToSet(dict'[c]) = ToSet(list) \cup {g}
    BY <2>3, <2>4, AppendsOne
  <2> SUFFICES ASSUME NEW e \in DOMAIN dict', NEW p \in ToSet(dict'[e]),
                      NEW q \in ToSet(dict'[e]), Type[p] = "collective",
                      cached[p] # None, cached[q] # None
               PROVE  cached[p] = cached[q]
    BY <2>1 DEF PeersAgree
  <2>7. e \in DOMAIN dict /\ p \in ToSet(dict[e]) /\ q \in ToSet(dict[e])
    <3>1. CASE e = c
      BY <2>2, <2>5, <2>6, <3>1
    <3>2. CASE e # c
      BY <2>3, <3>2
    <3> QED
      BY <3>1, <3>2
  <2> QED
    BY <2>7 DEF PeersAgree
<1>3. ASSUME Call
      PROVE  PeersAgree'
  <2> DEFINE cache == IF (count + 1) % Interval = 0 THEN ClearedCache ELSE cached
             unit == UnitTime(intervals')
  <2>1. dict' = dict
    BY <1>1, <1>3, CallCaches
  <2>2. PICK asked \in SUBSET {g \in Groups : InQueue(g)} :
          cached' = IF policy = "slo" THEN CacheAfter(cache, asked, unit) ELSE cached
    BY <1>1, <1>3, CallCaches
  <2> SUFFICES ASSUME NEW c \in DOMAIN dict, NEW p \in ToSet(dict[c]),
                      NEW q \in ToSet(dict[c]), Type[p] = "collective",
                      cached'[p] # None, cached'[q] # None
               PROVE  cached'[p] = cached'[q]
    BY <2>1 DEF PeersAgree
  <2>3. cached[p] # None /\ cached[q] # None => cached[p] = cached[q]
    BY DEF PeersAgree
  <2>4. p \in Groups /\ q \in Groups
    <3>1. dict[c] \in Seq(Groups)
      BY <1>1 DEF DictSound
    <3> QED
      BY <3>1, ElementOfSeq, LenProperties DEF ToSet
  <2>5. cache[p] # None /\ cache[q] # None => cache[p] = cache[q]
    BY <2>3, <2>4 DEF ClearedCache
  <2> HIDE DEF cache, unit
  <2>6. CASE policy = "slo"
    <3>1. cached' = CacheAfter(cache, asked, unit)
      BY <2>2, <2>6
    <3> QED
      BY <1>1, <2>5, <3>1, CacheKeepsPeers
  <2>7. CASE policy # "slo"
    BY <2>2, <2>3, <2>7
  <2> QED
    BY <2>6, <2>7
<1>4. ASSUME NEW S \in SUBSET Groups, Run(S)
      PROVE  PeersAgree'
  <2>1. cached' = cached
    BY <1>4 DEF Run
  <2>2. /\ DOMAIN dict' \subseteq DOMAIN dict
        /\ \A c \in DOMAIN dict' : ToSet(dict'[c]) \subseteq ToSet(dict[c])
    BY <1>1, <1>4, RunKeepsDict
  <2> QED
    BY <2>1, <2>2 DEF PeersAgree
<1>5. ASSUME dict' = dict, cached' = cached
      PROVE  PeersAgree'
  BY <1>5 DEF PeersAgree
<1>6. ASSUME NEW g \in Groups, Predict(g) \/ GiveUp(g)
      PROVE  PeersAgree'
  BY <1>5, <1>6 DEF Predict, GiveUp, policyVars
<1>7. ASSUME UNCHANGED vars
      PROVE  PeersAgree'
  BY <1>5, <1>7 DEF vars, policyVars
<1> QED
  BY <1>2, <1>3, <1>4, <1>6, <1>7 DEF PolicyNext

\* The queued requests of a collective collection that have a priority have
\* the same one, whenever they came and whoever asked, also when some of them
\* have been aborted behind the back of the policy.
THEOREM PeersAlwaysAgree ==
    ASSUME PureCollections
    PROVE  PolicySpec => []CachedPeersAgree
<1>1. PolicyInit => PeersAgree
  BY DEF PolicyInit, PeersAgree
<1>2. PolicyInv /\ PeersAgree /\ [PolicyNext]_vars => PeersAgree'
  BY PeersStep
<1>3. PolicyInv /\ PeersAgree => CachedPeersAgree
  <2> SUFFICES ASSUME PolicyInv, PeersAgree, NEW g \in Groups, Live(g),
                      Type[g] = "collective", NEW p \in Peers(g),
                      cached[g] # None, cached[p] # None
               PROVE  cached[g] = cached[p]
    BY DEF CachedPeersAgree
  <2>1. g \in Peers(g)
    BY DEF PolicyInv, DictSound, DictIsLive
  <2>2. Collection[g] \in DOMAIN dict /\ Peers(g) = ToSet(dict[Collection[g]])
    BY <2>1 DEF Peers
  <2> QED
    BY <2>1, <2>2 DEF PeersAgree
<1> QED
  BY <1>1, <1>2, <1>3, PolicyInvariance, PTL DEF PolicySpec

-----------------------------------------------------------------------------
(* Fractions.                                                              *)

\* A fraction that is not negative and at most n.
UpTo(a, n) == /\ a[1] \in Nat /\ a[2] \in Nat \ {0}
              /\ a[1] <= n * a[2]

\* What divides a number leaves a part of it.
LEMMA DividesExactly ==
    ASSUME NEW a \in Nat, NEW d \in Nat \ {0}, Divides(d, a)
    PROVE  a \div d \in Nat /\ a = d * (a \div d)
BY DEF Divides

\* Lowest terms are those of the same fraction.
LEMMA LowestIsEqual ==
    ASSUME NEW a, a[1] \in Nat, a[2] \in Nat \ {0}
    PROVE  /\ Lowest(a)[1] \in Nat /\ Lowest(a)[2] \in Nat \ {0}
           /\ \E d \in Nat \ {0} : /\ a[1] = d * Lowest(a)[1]
                                   /\ a[2] = d * Lowest(a)[2]
<1> DEFINE D == {d \in 1..a[2] : Divides(d, a[1]) /\ Divides(d, a[2])}
           d == GCD(a[1], a[2])
<1>1. 1 \in D
  BY DEF Divides
<1>2. \E e \in D : \A f \in D : f <= e
  <2>1. D \in SUBSET Int /\ IsFiniteSet(D)
    <3>1. IsFiniteSet(1..a[2])
      BY FS_Interval
    <3>2. D \subseteq 1..a[2] /\ D \in SUBSET Int
      OBVIOUS
    <3> HIDE DEF D
    <3> QED
      BY <3>1, <3>2, FS_Subset
  <2> HIDE DEF D
  <2>2. HasExtremes(D)
    BY <1>1, <2>1, ExtremesExist
  <2> QED
    BY <2>2 DEF HasExtremes
<1>3. d \in D
  <2>1. d = CHOOSE e \in D : \A f \in D : f <= e
    BY DEF GCD
  <2> HIDE DEF D, d
  <2> QED
    BY <1>2, <2>1
<1>4. d \in Nat \ {0} /\ Divides(d, a[1]) /\ Divides(d, a[2])
  <2> HIDE DEF d
  <2> QED
    BY <1>3
<1>5. Lowest(a)[1] = a[1] \div d /\ Lowest(a)[2] = a[2] \div d
  BY DEF Lowest
<1> HIDE DEF d, D
<1>6. /\ a[1] \div d \in Nat /\ a[1] = d * (a[1] \div d)
      /\ a[2] \div d \in Nat /\ a[2] = d * (a[2] \div d)
  BY <1>4, DividesExactly
<1>7. a[2] \div d # 0
  BY <1>4, <1>6
<1> QED
  BY <1>4, <1>5, <1>6, <1>7

\* A bound of a product is one of its factor.
LEMMA FactorBound ==
    ASSUME NEW d \in Nat \ {0}, NEW x \in Nat, NEW y \in Nat, d * x <= d * y
    PROVE  x <= y
OBVIOUS

\* Bounds survive the reduction, add up, and hold of products with ratios.
LEMMA LowestUpTo ==
    ASSUME NEW n \in Nat, NEW a, UpTo(a, n)
    PROVE  UpTo(Lowest(a), n)
<1> DEFINE x == Lowest(a)[1]
           y == Lowest(a)[2]
<1>1. PICK d \in Nat \ {0} : a[1] = d * x /\ a[2] = d * y
  BY LowestIsEqual DEF UpTo
<1>2. x \in Nat /\ y \in Nat \ {0}
  BY LowestIsEqual DEF UpTo
<1> HIDE DEF x, y
<1>3. d * x <= n * (d * y)
  BY <1>1 DEF UpTo
<1>4. n * (d * y) = d * (n * y) /\ n * y \in Nat
  BY <1>2
<1>5. x <= n * y
  <2> DEFINE z == n * y
  <2>1. d * x <= d * z /\ z \in Nat
    BY <1>3, <1>4
  <2> HIDE DEF z
  <2>2. x <= z
    BY <1>2, <2>1, FactorBound
  <2> QED
    BY <2>2 DEF z
<1> QED
  BY <1>2, <1>5 DEF UpTo, x, y

\* Both sides of an inequality grow alike.
LEMMA ProductBound ==
    ASSUME NEW a \in Nat, NEW b \in Nat, NEW c \in Nat, a <= b
    PROVE  a * c <= b * c /\ c * a <= c * b /\ a * c \in Nat
OBVIOUS

LEMMA PlusUpTo ==
    ASSUME NEW m \in Nat, NEW n \in Nat, NEW a, NEW b, UpTo(a, m), UpTo(b, n)
    PROVE  UpTo(Plus(a, b), m + n)
<1> DEFINE p == a[1] q == a[2] r == b[1] s == b[2]
<1>1. /\ p \in Nat /\ q \in Nat \ {0} /\ r \in Nat /\ s \in Nat \ {0}
      /\ p <= m * q /\ r <= n * s
  BY DEF UpTo
<1>2. Plus(a, b) = Lowest(<<p * s + r * q, q * s>>)
  BY DEF Plus
<1> HIDE DEF p, q, r, s
<1>3. p * s <= (m * q) * s /\ p * s \in Nat
  <2>1. m * q \in Nat /\ s \in Nat
    BY <1>1
  <2> QED
    BY <1>1, <2>1, ProductBound
<1>4. r * q <= (n * s) * q /\ r * q \in Nat
  <2>1. n * s \in Nat /\ q \in Nat
    BY <1>1
  <2> QED
    BY <1>1, <2>1, ProductBound
<1>5. (m * q) * s + (n * s) * q = (m + n) * (q * s)
  BY <1>1
<1>6. q * s \in Nat \ {0}
  BY <1>1
<1>7. p * s + r * q <= (m + n) * (q * s)
  <2> DEFINE ps == p * s   rq == r * q   mq == (m * q) * s   ns == (n * s) * q
             all == (m + n) * (q * s)
  <2>1. ps <= mq /\ rq <= ns /\ mq + ns = all
    BY <1>3, <1>4, <1>5
  <2>2. ps \in Int /\ rq \in Int /\ mq \in Int /\ ns \in Int
    BY <1>1
  <2> HIDE DEF ps, rq, mq, ns, all
  <2>3. ps + rq <= all
    BY <2>1, <2>2
  <2> QED
    BY <2>3 DEF ps, rq, all
<1>8. UpTo(<<p * s + r * q, q * s>>, m + n)
  BY <1>3, <1>4, <1>6, <1>7 DEF UpTo
<1>9. m + n \in Nat
  OBVIOUS
<1> QED
  BY <1>2, <1>8, <1>9, LowestUpTo

LEMMA TimesUpTo ==
    ASSUME NEW n \in Nat, NEW a, NEW b, UpTo(a, 1), UpTo(b, n)
    PROVE  UpTo(Times(a, b), n)
<1> DEFINE p == a[1] q == a[2] r == b[1] s == b[2]
<1>1. /\ p \in Nat /\ q \in Nat \ {0} /\ r \in Nat /\ s \in Nat \ {0}
      /\ p <= q /\ r <= n * s
  BY DEF UpTo
<1>2. Times(a, b) = Lowest(<<p * r, q * s>>)
  BY DEF Times
<1> HIDE DEF p, q, r, s
<1>3. p * r <= q * r /\ p * r \in Nat
  BY <1>1, ProductBound
<1>4. q * r <= q * (n * s)
  <2>1. n * s \in Nat /\ q \in Nat
    BY <1>1
  <2> QED
    BY <1>1, <2>1, ProductBound
<1>5. q * (n * s) = n * (q * s)
  BY <1>1
<1>6. q * s \in Nat \ {0}
  BY <1>1
<1>7. p * r <= n * (q * s)
  <2> DEFINE pr == p * r   qr == q * r   most == n * (q * s)
  <2>1. pr <= qr /\ qr <= most
    BY <1>3, <1>4, <1>5
  <2>2. pr \in Int /\ qr \in Int /\ most \in Int
    BY <1>1
  <2> HIDE DEF pr, qr, most
  <2>3. pr <= most
    BY <2>1, <2>2
  <2> QED
    BY <2>3 DEF pr, most
<1>8. UpTo(<<p * r, q * s>>, n)
  BY <1>3, <1>6, <1>7 DEF UpTo
<1> QED
  BY <1>2, <1>8, LowestUpTo

\* A whole number is at most itself and what is more than it.
LEMMA WholeUpTo ==
    ASSUME NEW m \in Nat, NEW n \in Nat, m <= n
    PROVE  UpTo(Whole(m), n)
BY DEF Whole, UpTo

LEMMA UpToMore ==
    ASSUME NEW m \in Nat, NEW n \in Nat, m <= n, NEW a, UpTo(a, m)
    PROVE  UpTo(a, n)
<1> DEFINE d == a[2]
<1>1. a[1] \in Nat /\ d \in Nat \ {0} /\ a[1] <= m * d
  BY DEF UpTo
<1>2. m * d <= n * d /\ m * d \in Nat
  BY <1>1, ProductBound
<1>3. n * d \in Nat
  BY <1>1
<1> QED
  BY <1>1, <1>2, <1>3 DEF UpTo

\* The powers of a fraction up to one, one after the other.
IsPower(f, a, k) ==
    f = [i \in 0..k |-> IF i = 0 THEN Whole(1) ELSE Times(f[i - 1], a)]

\* They exist, although Power is defined by recursion.
LEMMA PowerExists ==
    ASSUME NEW a, NEW n \in Nat
    PROVE  \E f : IsPower(f, a, n)
<1> DEFINE G == {k \in 0..n : \E f : IsPower(f, a, k)}
<1>1. 0 \in G
  <2> DEFINE f == [i \in 0..0 |-> Whole(1)]
  <2>1. IsPower(f, a, 0)
    BY DEF IsPower
  <2> QED
    BY <2>1
<1>2. ASSUME NEW k \in 1..n, k - 1 \in G PROVE k \in G
  <2>1. PICK f : IsPower(f, a, k - 1)
    BY <1>2
  <2> DEFINE h == [i \in 0..k |-> IF i = k THEN Times(f[k - 1], a) ELSE f[i]]
             step == [i \in 0..k |-> IF i = 0 THEN Whole(1) ELSE Times(h[i - 1], a)]
  <2>2. ASSUME NEW i \in 0..k PROVE h[i] = step[i]
    <3>1. CASE i = k
      <4>1. k - 1 \in 0..k /\ k - 1 # k /\ k # 0
        OBVIOUS
      <4>2. h[k - 1] = f[k - 1] /\ h[i] = Times(f[k - 1], a)
        BY <3>1, <4>1
      <4>3. step[i] = Times(h[i - 1], a)
        BY <3>1, <4>1
      <4> HIDE DEF h, step
      <4> QED
        BY <3>1, <4>2, <4>3
    <3>2. CASE i # k
      <4>1. i \in 0..(k - 1)
        BY <3>2
      <4>2. h[i] = f[i]
        BY <3>2
      <4>3. f[i] = IF i = 0 THEN Whole(1) ELSE Times(f[i - 1], a)
        BY <2>1, <4>1 DEF IsPower
      <4>4. i # 0 => h[i - 1] = f[i - 1]
        BY <3>2
      <4>5. step[i] = IF i = 0 THEN Whole(1) ELSE Times(h[i - 1], a)
        OBVIOUS
      <4> HIDE DEF h, step
      <4> QED
        BY <4>2, <4>3, <4>4, <4>5
    <3> QED
      BY <3>1, <3>2
  <2>3. h = step
    <3>1. h = [i \in 0..k |-> h[i]] /\ step = [i \in 0..k |-> step[i]]
      OBVIOUS
    <3> HIDE DEF h, step
    <3> QED
      BY <2>2, <3>1
  <2>4. IsPower(h, a, k)
    <3>1. step = [i \in 0..k |-> IF i = 0 THEN Whole(1) ELSE Times(h[i - 1], a)]
      OBVIOUS
    <3> HIDE DEF h, step
    <3> QED
      BY <2>3, <3>1 DEF IsPower
  <2> HIDE DEF h
  <2> QED
    BY <2>4
<1> HIDE DEF G
<1>3. \A k \in 0..n : k \in G
  BY <1>1, <1>2, RoundInduction
<1> QED
  BY <1>3 DEF G

\* The powers of a ratio are ratios.
LEMMA PowerUpTo ==
    ASSUME NEW a, UpTo(a, 1), NEW n \in Nat
    PROVE  UpTo(Power(a, n), 1)
<1> DEFINE f == CHOOSE h : IsPower(h, a, n)
<1>1. Power(a, n) = f[n]
  BY DEF Power, IsPower
<1>2. IsPower(f, a, n)
  BY PowerExists
<1> HIDE DEF f
<1>3. \A i \in 0..n : f[i] = IF i = 0 THEN Whole(1) ELSE Times(f[i - 1], a)
  BY <1>2 DEF IsPower
<1> DEFINE G == {k \in 0..n : UpTo(f[k], 1)}
<1>4. 0 \in G
  <2>1. f[0] = Whole(1)
    BY <1>3
  <2>2. UpTo(f[0], 1)
    BY <2>1, WholeUpTo
  <2> QED
    BY <2>2
<1>5. ASSUME NEW k \in 1..n, k - 1 \in G PROVE k \in G
  <2>1. f[k] = Times(f[k - 1], a) /\ UpTo(f[k - 1], 1) /\ k \in 0..n
    BY <1>3, <1>5
  <2>2. UpTo(Times(f[k - 1], a), 1)
    BY <2>1, TimesUpTo
  <2> QED
    BY <2>1, <2>2
<1> HIDE DEF G
<1>6. \A k \in 0..n : k \in G
  BY <1>4, <1>5, RoundInduction
<1>7. n \in 0..n
  OBVIOUS
<1> QED
  BY <1>1, <1>6, <1>7 DEF G

-----------------------------------------------------------------------------
(* Gains.                                                                  *)

\* A ratio that counts is at most one.
LEMMA ClampUpTo ==
    ASSUME NEW p \in Nat, NEW q \in Int
    PROVE  UpTo(ClampRatio(<<p, q>>), 1)
<1> DEFINE r == <<p, q>>
           least == Lesser(Whole(1), r)
<1>1. r[1] = p /\ r[2] = q
  OBVIOUS
<1>2. UpTo(Whole(1), 1)
  BY WholeUpTo
<1>3. UpTo(Least, 1)
  BY TrackerAssumption DEF UpTo
<1>4. CASE q <= 0
  <2>1. ClampRatio(r) = Whole(1)
    BY <1>1, <1>4 DEF ClampRatio
  <2> QED
    BY <1>2, <2>1
<1>5. CASE q > 0
  <2>1. ClampRatio(r) = Greater(Least, least)
    BY <1>1, <1>5 DEF ClampRatio
  <2>2. UpTo(least, 1)
    <3>1. CASE Below(r, Whole(1))
      <4>1. p * 1 < 1 * q
        BY <1>1, <3>1 DEF Below, Whole
      <4>2. p <= 1 * q
        BY <4>1
      <4>3. UpTo(r, 1)
        BY <1>1, <1>5, <4>2 DEF UpTo
      <4>4. least = r
        BY <3>1 DEF Lesser
      <4> QED
        BY <4>3, <4>4
    <3>2. CASE ~Below(r, Whole(1))
      BY <1>2, <3>2 DEF Lesser
    <3> QED
      BY <3>1, <3>2
  <2> HIDE DEF least, r
  <2>3. UpTo(Greater(Least, least), 1)
    BY <1>3, <2>2 DEF Greater
  <2> QED
    BY <2>1, <2>3 DEF r
<1> QED
  BY <1>4, <1>5

\* A latency request is credited its prompt, when that has not been paid for,
\* and its new tokens, neither more than in full.
LEMMA LatencyGainUpTo ==
    ASSUME NEW g \in Groups, NEW m, m.arrival \in Nat, m.ttft \in Int,
           NEW t \in Nat, NEW out \in Nat, NEW newIn \in Nat, NEW newOut \in Nat,
           NEW p \in Nat
    PROVE  UpTo(LatencyGain(g, m, t, out, newIn, newOut, p),
                DecodeWeight * newOut + newIn)
<1> DEFINE prompt == <<SLO[g].ttft, m.ttft>>
           since == SinceFirstToken(g, m, t)
           tokens == <<out * SLO[g].tbt, since>>
           prefill == IF m.gain[1] = 0 /\ m.ttft # Unknown
                      THEN Times(Power(ClampRatio(prompt), p), Whole(newIn))
                      ELSE Zero
           weight == newOut * DecodeWeight
           decode == IF since <= 0 THEN Whole(newOut)
                     ELSE Times(Power(ClampRatio(tokens), p), Whole(weight))
<1>1. /\ SLO[g].ttft \in Nat /\ SLO[g].tbt \in Nat
      /\ DecodeWeight \in Nat \ {0}
  BY TrackerAssumption
<1>2. weight \in Nat /\ newOut <= weight /\ weight = DecodeWeight * newOut
  <2>1. DecodeWeight >= 1 /\ DecodeWeight \in Nat
    BY <1>1
  <2>2. 1 * newOut <= DecodeWeight * newOut
    BY <2>1, ProductBound
  <2> QED
    BY <2>1, <2>2
<1>3. LatencyGain(g, m, t, out, newIn, newOut, p) =
        IF newOut > 0 THEN Plus(prefill, decode) ELSE prefill
  BY DEF LatencyGain
<1>4. UpTo(prefill, newIn)
  <2>1. UpTo(Power(ClampRatio(prompt), p), 1)
    <3>1. UpTo(ClampRatio(prompt), 1)
      BY <1>1, ClampUpTo
    <3> HIDE DEF prompt
    <3> QED
      BY <1>1, <3>1, PowerUpTo
  <2>2. UpTo(Whole(newIn), newIn)
    BY WholeUpTo
  <2> HIDE DEF prompt
  <2>3. UpTo(Times(Power(ClampRatio(prompt), p), Whole(newIn)), newIn)
    BY <2>1, <2>2, TimesUpTo
  <2>4. UpTo(Zero, newIn)
    <3>1. 0 \in Nat /\ 0 <= newIn
      OBVIOUS
    <3> QED
      BY <3>1, WholeUpTo DEF Zero
  <2> QED
    BY <2>3, <2>4
<1>5. UpTo(decode, weight)
  <2>1. since \in Int
    BY <1>1 DEF SinceFirstToken
  <2>2. UpTo(Power(ClampRatio(tokens), p), 1)
    <3>1. UpTo(ClampRatio(tokens), 1)
      <4>1. out * SLO[g].tbt \in Nat
        BY <1>1
      <4> HIDE DEF since
      <4> QED
        BY <2>1, <4>1, ClampUpTo
    <3> HIDE DEF tokens
    <3> QED
      BY <1>1, <3>1, PowerUpTo
  <2> HIDE DEF tokens, weight, since
  <2>3. UpTo(Whole(weight), weight)
    BY <1>2, WholeUpTo
  <2>4. UpTo(Times(Power(ClampRatio(tokens), p), Whole(weight)), weight)
    BY <1>2, <2>2, <2>3, TimesUpTo
  <2>5. UpTo(Whole(newOut), weight)
    BY <1>2, WholeUpTo
  <2> QED
    BY <2>4, <2>5
<1> HIDE DEF prefill, decode, weight
<1>6. UpTo(Plus(prefill, decode), newIn + weight)
  BY <1>2, <1>4, <1>5, PlusUpTo
<1>7. UpTo(prefill, newIn + weight)
  <2>1. newIn + weight \in Nat /\ newIn <= newIn + weight
    BY <1>2
  <2> QED
    BY <1>4, <2>1, UpToMore
<1>8. newIn + weight = DecodeWeight * newOut + newIn
  BY <1>1, <1>2
<1> QED
  BY <1>3, <1>6, <1>7, <1>8

\* A fraction that is the whole number n.
Exactly(a, n) == a[1] \in Nat /\ a[2] \in Nat \ {0} /\ a[1] = n * a[2]

\* The operations on fractions are exact on whole numbers.
LEMMA LowestExactly ==
    ASSUME NEW n \in Nat, NEW a, Exactly(a, n)
    PROVE  Exactly(Lowest(a), n)
<1> DEFINE x == Lowest(a)[1]
           y == Lowest(a)[2]
<1>1. PICK d \in Nat \ {0} : a[1] = d * x /\ a[2] = d * y
  BY LowestIsEqual DEF Exactly
<1>2. x \in Nat /\ y \in Nat \ {0}
  BY LowestIsEqual DEF Exactly
<1> HIDE DEF x, y
<1>3. d * x = n * (d * y)
  BY <1>1 DEF Exactly
<1> DEFINE z == n * y
<1>4. n * (d * y) = d * z /\ z \in Nat
  BY <1>2
<1> HIDE DEF z
<1>5. x <= z /\ z <= x
  BY <1>2, <1>3, <1>4, FactorBound
<1>6. x = z
  BY <1>2, <1>4, <1>5
<1> QED
  BY <1>2, <1>6 DEF Exactly, x, y, z

LEMMA PlusExactly ==
    ASSUME NEW m \in Nat, NEW n \in Nat, NEW a, NEW b, Exactly(a, m), Exactly(b, n)
    PROVE  Exactly(Plus(a, b), m + n)
<1> DEFINE p == a[1] q == a[2] r == b[1] s == b[2]
<1>1. /\ p \in Nat /\ q \in Nat \ {0} /\ r \in Nat /\ s \in Nat \ {0}
      /\ p = m * q /\ r = n * s
  BY DEF Exactly
<1>2. Plus(a, b) = Lowest(<<p * s + r * q, q * s>>)
  BY DEF Plus
<1> HIDE DEF p, q, r, s
<1>3. q * s \in Nat \ {0} /\ p * s + r * q \in Nat
  BY <1>1
<1>4. (m * q) * s + (n * s) * q = (m + n) * (q * s)
  BY <1>1
<1>5. Exactly(<<p * s + r * q, q * s>>, m + n)
  BY <1>1, <1>3, <1>4 DEF Exactly
<1>6. m + n \in Nat
  OBVIOUS
<1> QED
  BY <1>2, <1>5, <1>6, LowestExactly

LEMMA TimesExactly ==
    ASSUME NEW n \in Nat, NEW a, NEW b, Exactly(a, 1), Exactly(b, n)
    PROVE  Exactly(Times(a, b), n)
<1> DEFINE p == a[1] q == a[2] r == b[1] s == b[2]
<1>1. /\ p \in Nat /\ q \in Nat \ {0} /\ r \in Nat /\ s \in Nat \ {0}
      /\ p = q /\ r = n * s
  BY DEF Exactly
<1>2. Times(a, b) = Lowest(<<p * r, q * s>>)
  BY DEF Times
<1> HIDE DEF p, q, r, s
<1>3. q * s \in Nat \ {0} /\ p * r \in Nat
  BY <1>1
<1>4. q * (n * s) = n * (q * s)
  BY <1>1
<1>5. Exactly(<<p * r, q * s>>, n)
  BY <1>1, <1>3, <1>4 DEF Exactly
<1> QED
  BY <1>2, <1>5, LowestExactly

LEMMA WholeExactly ==
    ASSUME NEW n \in Nat
    PROVE  Exactly(Whole(n), n)
BY DEF Whole, Exactly

\* The powers of one are one.
LEMMA PowerExactly ==
    ASSUME NEW a, Exactly(a, 1), NEW n \in Nat
    PROVE  Exactly(Power(a, n), 1)
<1> DEFINE f == CHOOSE h : IsPower(h, a, n)
<1>1. Power(a, n) = f[n]
  BY DEF Power, IsPower
<1>2. IsPower(f, a, n)
  BY PowerExists
<1> HIDE DEF f
<1>3. \A i \in 0..n : f[i] = IF i = 0 THEN Whole(1) ELSE Times(f[i - 1], a)
  BY <1>2 DEF IsPower
<1> DEFINE G == {k \in 0..n : Exactly(f[k], 1)}
<1>4. 0 \in G
  BY <1>3, WholeExactly
<1>5. ASSUME NEW k \in 1..n, k - 1 \in G PROVE k \in G
  <2>1. f[k] = Times(f[k - 1], a) /\ Exactly(f[k - 1], 1) /\ k \in 0..n
    BY <1>3, <1>5
  <2>2. Exactly(Times(f[k - 1], a), 1)
    BY <2>1, TimesExactly
  <2> QED
    BY <2>1, <2>2
<1> HIDE DEF G
<1>6. \A k \in 0..n : k \in G
  BY <1>4, <1>5, RoundInduction
<1>7. n \in 0..n
  OBVIOUS
<1> QED
  BY <1>1, <1>6, <1>7 DEF G

\* A constraint that is met counts in full.
LEMMA ClampExactly ==
    ASSUME NEW p \in Nat, NEW q \in Int, q <= p
    PROVE  Exactly(ClampRatio(<<p, q>>), 1)
<1> DEFINE r == <<p, q>>
<1>1. r[1] = p /\ r[2] = q
  OBVIOUS
<1>2. Exactly(Whole(1), 1)
  BY WholeExactly
<1>3. CASE q <= 0
  BY <1>1, <1>2, <1>3 DEF ClampRatio
<1>4. CASE q > 0
  <2>1. ~Below(r, Whole(1))
    <3>1. ~(p * 1 < 1 * q)
      OBVIOUS
    <3> QED
      BY <1>1, <3>1 DEF Below, Whole
  <2>2. ClampRatio(r) = Greater(Least, Whole(1))
    BY <1>1, <1>4, <2>1 DEF ClampRatio, Lesser
  <2>3. CASE Below(Least, Whole(1))
    BY <1>2, <2>2, <2>3 DEF Greater
  <2>4. CASE ~Below(Least, Whole(1))
    <3>1. ClampRatio(r) = Least
      BY <2>2, <2>4 DEF Greater
    <3>2. /\ Least[1] \in Nat /\ Least[2] \in Nat \ {0} /\ Least[1] <= Least[2]
      BY TrackerAssumption
    <3>3. ~(Least[1] * 1 < 1 * Least[2])
      BY <2>4 DEF Below, Whole
    <3>4. Exactly(Least, 1)
      BY <3>2, <3>3 DEF Exactly
    <3> QED
      BY <3>1, <3>4
  <2> QED
    BY <2>3, <2>4
<1> QED
  BY <1>3, <1>4

\* Bounds, as the properties state them.
LEMMA UpToAtMost ==
    ASSUME NEW n \in Nat, NEW a
    PROVE  /\ UpTo(a, n) => AtMost(a, Whole(n))
           /\ Exactly(a, n) => UpTo(a, n) /\ AtMost(Whole(n), a)
BY DEF AtMost, Below, Whole, UpTo, Exactly

-----------------------------------------------------------------------------
(* The gain of a request.                                                  *)

Most(g, d) == DecodeWeight * d + InputLen[g]

\* What an update credits is at most the gain of the whole request.
LEMMA UpdatedCredits ==
    ASSUME NEW g \in Groups, NEW m0, NEW t \in Nat, decoded[g] \in Nat,
           MetricsSound(m0, decoded[g], t),
           m0.prompt \in {0, InputLen[g]}, m0.ttlt = Unknown,
           m0.ttft >= 0 \/ m0.ttft = Unknown
    PROVE  LET u == Updated(g, m0, t)
           IN /\ u.prompt = InputLen[g] /\ u.ttlt = Unknown
              /\ u.ttft >= 0 \/ u.ttft = Unknown
              /\ UpTo(u.gain, Most(g, decoded[g]))
<1> DEFINE out == decoded[g]
           m == WithTTFT(m0, out, t)
           newIn == InputLen[g] - m0.prompt
           newOut == out - m0.output
           gain == ServiceGain(g, m, t, out, InputLen[g] - m.prompt, out - m.output, Penalty)
           u == Updated(g, m0, t)
<1>1. /\ IsMetrics(m0) /\ m0.arrival \in Nat /\ m0.ttft \in Int
      /\ m0.output \in Nat /\ m0.output <= out /\ out \in Nat
      /\ m0.arrival <= t
  BY DEF MetricsSound
<1>2. newIn \in 0..InputLen[g] /\ newOut \in 0..out /\ InputLen[g] \in Nat
  BY <1>1, TrackerAssumption
<1>3. /\ IsMetrics(m) /\ m.arrival = m0.arrival /\ m.output = m0.output
      /\ m.prompt = m0.prompt /\ m.ttlt = m0.ttlt /\ m.ttft \in Int
      /\ m.ttft = m0.ttft \/ m.ttft = t - m0.arrival
  BY <1>1 DEF WithTTFT, IsMetrics
<1>4. u = [m EXCEPT !.gain = gain,
                    !.tbt = IF m.last # Unknown /\ (out - m.output) > 0
                            THEN Append(@, <<t - m.last, out - m.output>>) ELSE @,
                    !.last = IF (out - m.output) > 0 THEN t ELSE @,
                    !.prompt = InputLen[g],
                    !.output = out]
  BY DEF Updated
<1> HIDE DEF m, u
<1>5. gain = ServiceGain(g, m, t, out, newIn, newOut, Penalty)
  BY <1>3
<1> HIDE DEF gain
<1>6. /\ u.prompt = InputLen[g] /\ u.ttlt = Unknown /\ u.gain = gain
      /\ u.ttft = m.ttft
  BY <1>3, <1>4 DEF IsMetrics
<1> HIDE DEF newIn, newOut, out
<1>7. /\ DecodeWeight * newOut + newIn \in Nat /\ Most(g, out) \in Nat
      /\ DecodeWeight * newOut + newIn <= Most(g, out)
  <2>1. DecodeWeight \in Nat /\ newOut \in Nat /\ out \in Nat /\ newOut <= out
    BY <1>1, <1>2, TrackerAssumption
  <2>2. /\ DecodeWeight * newOut <= DecodeWeight * out
        /\ DecodeWeight * newOut \in Nat /\ DecodeWeight * out \in Nat
    BY <2>1, ProductBound
  <2> QED
    BY <1>2, <2>2 DEF Most
<1>8. UpTo(gain, Most(g, out))
  <2>1. CASE Type[g] = "latency"
    <3>1. gain = LatencyGain(g, m, t, out, newIn, newOut, Penalty)
      BY <1>5, <2>1 DEF ServiceGain
    <3>2. newIn \in Nat /\ newOut \in Nat /\ Penalty \in Nat
      BY <1>1, <1>2, TrackerAssumption
    <3>3. UpTo(LatencyGain(g, m, t, out, newIn, newOut, Penalty),
               DecodeWeight * newOut + newIn)
      BY <1>1, <1>3, <3>2, LatencyGainUpTo
    <3> QED
      BY <1>7, <3>1, <3>3, UpToMore
  <2>2. CASE Type[g] # "latency"
    <3>1. gain = Whole(0)
      BY <1>3, <1>5, <2>2 DEF ServiceGain, ThroughputGain, Zero
    <3> QED
      BY <1>7, <3>1, WholeUpTo
  <2> QED
    BY <2>1, <2>2
<1>9. u.ttft >= 0 \/ u.ttft = Unknown
  BY <1>1, <1>3, <1>6
<1> QED
  BY <1>6, <1>8, <1>9 DEF u, out

\* A latency request that met its constraints is paid in full at its end.
LEMMA LatencyGainExactly ==
    ASSUME NEW g \in Groups, NEW m, m.arrival \in Nat, m.ttft \in Nat,
           m.gain = Zero, m.ttft <= SLO[g].ttft,
           NEW t \in Nat, NEW out \in Nat \ {0}, NEW p \in Nat,
           m.ttft < t - m.arrival, t - m.arrival - m.ttft <= SLO[g].tbt * out
    PROVE  Exactly(LatencyGain(g, m, t, out, InputLen[g], out, p), Most(g, out))
<1> DEFINE prompt == <<SLO[g].ttft, m.ttft>>
           since == t - m.ttft - m.arrival
           tokens == <<out * SLO[g].tbt, since>>
           weight == out * DecodeWeight
           prefill == Times(Power(ClampRatio(prompt), p), Whole(InputLen[g]))
           decode == Times(Power(ClampRatio(tokens), p), Whole(weight))
<1>1. /\ SLO[g].ttft \in Nat /\ SLO[g].tbt \in Nat /\ InputLen[g] \in Nat
      /\ DecodeWeight \in Nat /\ weight \in Nat /\ weight = DecodeWeight * out
  BY TrackerAssumption
<1>2. since \in Nat \ {0} /\ since <= out * SLO[g].tbt /\ out * SLO[g].tbt \in Nat
  BY <1>1
<1>3. m.ttft # Unknown /\ m.gain[1] = 0
  BY DEF Unknown, Zero, Whole
<1>4. SinceFirstToken(g, m, t) = since
  BY <1>3 DEF SinceFirstToken
<1>5. LatencyGain(g, m, t, out, InputLen[g], out, p) = Plus(prefill, decode)
  <2> HIDE DEF since
  <2>1. ~(since <= 0) /\ out > 0
    BY <1>2
  <2> QED
    BY <1>3, <1>4, <2>1 DEF LatencyGain
<1>6. Exactly(prefill, InputLen[g])
  <2>1. Exactly(ClampRatio(prompt), 1)
    BY <1>1, ClampExactly
  <2> HIDE DEF prompt
  <2> QED
    BY <1>1, <2>1, PowerExactly, WholeExactly, TimesExactly
<1>7. Exactly(decode, weight)
  <2>1. Exactly(ClampRatio(tokens), 1)
    <3> HIDE DEF since
    <3> QED
      BY <1>2, ClampExactly
  <2> HIDE DEF tokens, weight
  <2> QED
    BY <1>1, <2>1, PowerExactly, WholeExactly, TimesExactly
<1> HIDE DEF prefill, decode, weight
<1>8. Exactly(Plus(prefill, decode), InputLen[g] + weight)
  BY <1>1, <1>6, <1>7, PlusExactly
<1>9. InputLen[g] + weight = Most(g, out)
  BY <1>1 DEF Most
<1> QED
  BY <1>5, <1>8, <1>9
-----------------------------------------------------------------------------
\* A request that finished on time, as far as its record says.
MetConstraints(g, m, d) ==
    CASE Type[g] = "latency" -> /\ m.ttft <= SLO[g].ttft /\ m.ttft < m.ttlt
                                /\ m.ttlt - m.ttft <= SLO[g].tbt * d
      [] Type[g] = "throughput" -> m.ttlt <= DeadlineOf(g)
      [] OTHER -> TRUE

\* What a request is recorded to have gained at its end.
LEMMA OutputCredits ==
    ASSUME NEW g \in Groups, NEW m0, IsMetrics(m0), m0.arrival \in Nat,
           m0.ttft \in Int, m0.ttft >= 0 \/ m0.ttft = Unknown,
           NEW t \in Nat, m0.arrival < t, NEW out \in Nat \ {0}
    PROVE  LET u == WithOutput(g, m0, t, out)
           IN /\ u.prompt = m0.prompt
              /\ u.ttft >= 0
              /\ UpTo(u.gain, Most(g, out))
              /\ MetConstraints(g, u, out) => Exactly(u.gain, Most(g, out))
<1> DEFINE m1 == [m0 EXCEPT !.ttlt = t - m0.arrival]
           m2 == WithTTFT([m1 EXCEPT !.gain = Zero], out, t)
           newIn == IF Type[g] = "latency" THEN InputLen[g] ELSE 0
           gain == ServiceGain(g, m2, t, out, newIn, out, FinalPenalty)
           u == WithOutput(g, m0, t, out)
           first == IF m0.ttft # Unknown THEN m0.ttft ELSE t - m0.arrival
<1>1. u = [WithTTFT(m1, out, t) EXCEPT !.gain = gain]
  BY DEF WithOutput, WholeGain
<1>2. /\ IsMetrics(m1) /\ m1.arrival = m0.arrival /\ m1.prompt = m0.prompt
      /\ m1.ttft = m0.ttft /\ m1.ttlt = t - m0.arrival
  BY DEF IsMetrics
<1> HIDE DEF m1
<1> DEFINE m3 == [m1 EXCEPT !.gain = Zero]
<1>3. /\ m3.arrival = m0.arrival /\ m3.ttft = m0.ttft /\ m3.ttlt = t - m0.arrival
      /\ m3.gain = Zero /\ IsMetrics(m3)
  BY <1>2 DEF IsMetrics
<1> HIDE DEF m3
<1>4. m2 = WithTTFT(m3, out, t)
  BY DEF m3
<1>5. /\ m2.arrival = m0.arrival /\ m2.ttft = first /\ m2.ttlt = t - m0.arrival
      /\ m2.gain = Zero
  <2> HIDE DEF m2
  <2> QED
    BY <1>3, <1>4 DEF WithTTFT, IsMetrics
<1> HIDE DEF m2, gain, u
<1>6. /\ u.prompt = m0.prompt /\ u.ttft = first /\ u.ttlt = t - m0.arrival
      /\ u.gain = gain
  BY <1>1, <1>2 DEF WithTTFT, IsMetrics
<1>7. first \in Nat
  BY DEF Unknown
<1> HIDE DEF first
<1>8. /\ InputLen[g] \in Nat /\ DecodeWeight \in Nat /\ FinalPenalty \in Nat
      /\ Most(g, out) \in Nat /\ InputLen[g] + out * DecodeWeight = Most(g, out)
  BY TrackerAssumption DEF Most
<1> DEFINE Met == MetConstraints(g, u, out)
<1>9. UpTo(gain, Most(g, out)) /\ (Met => Exactly(gain, Most(g, out)))
  <2>1. CASE Type[g] = "latency"
    <3>1. gain = LatencyGain(g, m2, t, out, InputLen[g], out, FinalPenalty)
      BY <2>1 DEF gain, ServiceGain
    <3>2. UpTo(gain, DecodeWeight * out + InputLen[g])
      <4>1. m2.arrival \in Nat /\ m2.ttft \in Int /\ out \in Nat
        BY <1>5, <1>7
      <4>2. UpTo(LatencyGain(g, m2, t, out, InputLen[g], out, FinalPenalty),
                 DecodeWeight * out + InputLen[g])
        BY <1>8, <4>1, LatencyGainUpTo, Zenon
      <4> QED
        BY <3>1, <4>2
    <3>3. Met => /\ first <= SLO[g].ttft /\ first < t - m0.arrival
                 /\ t - m0.arrival - first <= SLO[g].tbt * out
      <4>1. Met => /\ u.ttft <= SLO[g].ttft /\ u.ttft < u.ttlt
                   /\ u.ttlt - u.ttft <= SLO[g].tbt * out
        BY <2>1 DEF MetConstraints
      <4> HIDE DEF Met
      <4>2. ASSUME Met PROVE first <= SLO[g].ttft /\ first < t - m0.arrival
        BY <1>6, <4>1, <4>2
      <4>3. ASSUME Met PROVE t - m0.arrival - first <= SLO[g].tbt * out
        BY <1>6, <4>1, <4>3
      <4> QED
        BY <4>2, <4>3
    <3> HIDE DEF Met
    <3>4. Met => Exactly(gain, Most(g, out))
      BY <1>5, <1>7, <1>8, <3>1, <3>3, LatencyGainExactly
    <3> QED
      BY <3>2, <3>4 DEF Most
  <2>2. CASE Type[g] # "latency"
    <3> DEFINE total == Whole(InputLen[g] + out * DecodeWeight)
               late == <<DeadlineOf(g), t - m0.arrival>>
    <3>1. gain = ThroughputGain(g, m2, out, 0, out, FinalPenalty)
      BY <2>2 DEF gain, ServiceGain
    <3>2. t - m0.arrival # Unknown
      BY DEF Unknown
    <3>3. gain = IF Type[g] = "collective" \/ t - m0.arrival <= DeadlineOf(g) THEN total
                 ELSE Times(Power(late, FinalPenalty), total)
      BY <1>5, <3>1, <3>2 DEF ThroughputGain
    <3>4. total = Whole(Most(g, out))
      BY <1>8
    <3> HIDE DEF total
    <3>5. Exactly(total, Most(g, out))
      BY <1>8, <3>4, WholeExactly
    <3>6. UpTo(total, Most(g, out))
      BY <1>8, <3>5, UpToAtMost
    <3>7. Met => gain = total
      <4>1. Type[g] \in {"throughput", "collective"}
        BY <2>2, TrackerAssumption
      <4> QED
        BY <1>6, <2>2, <3>3, <4>1 DEF MetConstraints
    <3> HIDE DEF Met
    <3>8. CASE Type[g] = "collective" \/ t - m0.arrival <= DeadlineOf(g)
      BY <3>3, <3>5, <3>6, <3>7, <3>8
    <3>9. CASE ~(Type[g] = "collective" \/ t - m0.arrival <= DeadlineOf(g))
      <4>1. UpTo(late, 1)
        <5>1. DeadlineOf(g) = SLO[g].ttlt /\ SLO[g].ttlt \in Nat
          BY <2>2, TrackerAssumption DEF DeadlineOf
        <5>2. /\ late[1] \in Nat /\ late[2] \in Nat \ {0} /\ late[1] <= 1 * late[2]
          BY <3>9, <5>1
        <5> QED
          BY <5>2 DEF UpTo
      <4> HIDE DEF late
      <4>2. UpTo(Times(Power(late, FinalPenalty), total), Most(g, out))
        BY <1>8, <3>6, <4>1, PowerUpTo, TimesUpTo
      <4> QED
        BY <3>3, <3>5, <3>7, <3>9, <4>2
    <3> QED
      BY <3>8, <3>9
  <2> QED
    BY <2>1, <2>2
<1> QED
  <2>1. u.ttft >= 0
    BY <1>6, <1>7
  <2>2. UpTo(u.gain, Most(g, out)) /\ (Met => Exactly(u.gain, Most(g, out)))
    BY <1>6, <1>9, Zenon
  <2> QED
    BY <1>6, <2>1, <2>2, Zenon DEF u, Met

\* The prompt of a request is seen as a whole, the time it took is not known
\* before it has finished, and its gain counts nothing twice.
Credits(g, m, d, p) ==
    /\ m.prompt \in {0, InputLen[g]}
    /\ m.ttft >= 0 \/ m.ttft = Unknown
    /\ p \in Queues => m.ttlt = Unknown
    /\ UpTo(m.gain, Most(g, d))
    /\ p = "finished" /\ MetConstraints(g, m, d) => Exactly(m.gain, Most(g, d))

CreditInv == \A g \in Groups : Credits(g, metrics[g], decoded[g], phase[g])

\* A request that has gained nothing yet.
LEMMA NewCredits ==
    ASSUME NEW g \in Groups, NEW a, NEW d \in Nat, NEW p, p # "finished"
    PROVE  Credits(g, NewMetrics(a), d, p)
<1>1. Most(g, d) \in Nat
  BY TrackerAssumption DEF Most
<1>2. UpTo(Zero, Most(g, d))
  BY <1>1, WholeUpTo DEF Zero
<1> QED
  BY <1>2 DEF NewMetrics, Credits, Unknown

\* The invariant holds at the start.
LEMMA CreditInitInv == PolicyInit => CreditInv
<1> SUFFICES ASSUME PolicyInit, NEW g \in Groups
             PROVE  Credits(g, metrics[g], decoded[g], phase[g])
  BY DEF CreditInv
<1>1. /\ metrics[g] = NewMetrics(0) /\ decoded[g] = 0
      /\ phase[g] \in {"new", "absent"}
  BY DEF PolicyInit, TrackerInit
<1> QED
  BY <1>1, NewCredits

\* More tokens make a request worth more, and a queued one is not at its end.
LEMMA MoreCredits ==
    ASSUME NEW g \in Groups, NEW m, NEW d \in Nat, NEW e \in Nat, d <= e,
           NEW p, NEW q, Credits(g, m, d, p), q # "finished",
           q \in Queues => p \in Queues
    PROVE  Credits(g, m, e, q)
<1>1. Most(g, d) \in Nat /\ Most(g, e) \in Nat /\ Most(g, d) <= Most(g, e)
  <2>1. DecodeWeight \in Nat /\ InputLen[g] \in Nat
    BY TrackerAssumption
  <2>2. /\ d * DecodeWeight <= e * DecodeWeight
        /\ d * DecodeWeight \in Nat /\ e * DecodeWeight \in Nat
    BY <2>1, ProductBound
  <2>3. DecodeWeight * d = d * DecodeWeight /\ DecodeWeight * e = e * DecodeWeight
    BY <2>1
  <2> QED
    BY <2>1, <2>2, <2>3 DEF Most
<1>2. UpTo(m.gain, Most(g, e))
  BY <1>1, UpToMore DEF Credits
<1> QED
  BY <1>2 DEF Credits

\* Every step keeps what gains depend on.
LEMMA CreditStep ==
    ASSUME PolicyInv, CreditInv, [PolicyNext]_vars
    PROVE  CreditInv'
<1>1. /\ TrackerInv /\ OfGroups(metrics) /\ phase \in [Groups -> Phases]
      /\ now \in Nat /\ decoded \in [Groups -> Nat]
      /\ \A g \in Groups : MetricsSound(metrics[g], decoded[g], now)
  BY DEF PolicyInv, TrackerInv
<1>2. ASSUME NEW h \in Groups, Arrive(h), NEW g \in Groups
      PROVE  Credits(g, metrics'[g], decoded'[g], phase'[g])
  <2> DEFINE n == NewMetrics(now)
  <2>1. /\ metrics' = [metrics EXCEPT ![h] = n]
        /\ phase' = [phase EXCEPT ![h] = "waiting"] /\ decoded' = decoded
    BY <1>2 DEF Arrive
  <2> HIDE DEF n
  <2>2. CASE g = h
    <3>1. metrics'[g] = n /\ phase'[g] = "waiting" /\ decoded'[g] \in Nat
      BY <1>1, <2>1, <2>2 DEF OfGroups
    <3> QED
      BY <3>1, NewCredits DEF n
  <2>3. CASE g # h
    <3>1. metrics'[g] = metrics[g] /\ phase'[g] = phase[g]
      BY <1>1, <2>1, <2>3 DEF OfGroups
    <3> QED
      BY <2>1, <3>1 DEF CreditInv
  <2> QED
    BY <2>2, <2>3
<1>3. ASSUME NEW h \in Groups, Abort(h), NEW g \in Groups
      PROVE  Credits(g, metrics'[g], decoded'[g], phase'[g])
  <2>1. /\ phase' = [phase EXCEPT ![h] = "aborted"]
        /\ metrics' = metrics /\ decoded' = decoded
    BY <1>3 DEF Abort
  <2>2. Credits(g, metrics[g], decoded[g], phase[g]) /\ decoded[g] \in Nat
    BY <1>1 DEF CreditInv
  <2>3. CASE g = h
    <3>1. phase'[g] = "aborted" /\ "aborted" \notin Queues
      BY <1>1, <2>1, <2>3 DEF Queues
    <3>2. Credits(g, metrics[g], decoded[g], "aborted")
      BY <2>2, <3>1, MoreCredits
    <3> QED
      BY <2>1, <3>1, <3>2
  <2>4. CASE g # h
    BY <1>1, <2>1, <2>2, <2>4
  <2> QED
    BY <2>3, <2>4
<1>4. ASSUME Schedule, NEW g \in Groups
      PROVE  Credits(g, metrics'[g], decoded'[g], phase'[g])
  <2>1. /\ InQueue(g)' = InQueue(g)
        /\ ~InQueue(g) => phase'[g] = phase[g]
        /\ metrics'[g] = IF phase'[g] = "running" THEN Updated(g, metrics[g], now)
                         ELSE IF phase[g] = "running" /\ phase'[g] = "waiting"
                         THEN Reset(metrics[g])
                         ELSE IF phase'[g] = "swapped"
                         THEN [metrics[g] EXCEPT !.swapped = TRUE]
                         ELSE metrics[g]
        /\ decoded' = decoded
    BY <1>1, <1>4, ScheduleMoves
  <2>2. /\ Credits(g, metrics[g], decoded[g], phase[g]) /\ decoded[g] \in Nat
        /\ MetricsSound(metrics[g], decoded[g], now)
    BY <1>1 DEF CreditInv
  <2>3. CASE ~InQueue(g)
    <3>1. phase'[g] = phase[g] /\ phase[g] \notin Queues
      BY <2>1, <2>3 DEF InQueue
    <3>2. metrics'[g] = metrics[g]
      BY <2>1, <3>1 DEF Queues
    <3> QED
      BY <2>1, <2>2, <3>1, <3>2
  <2>4. CASE InQueue(g)
    <3>1. phase[g] \in Queues /\ phase'[g] \in Queues /\ phase'[g] # "finished"
      BY <2>1, <2>4 DEF InQueue, Queues
    <3>2. Credits(g, metrics[g], decoded[g], phase'[g])
      BY <2>2, <3>1, MoreCredits
    <3>3. CASE phase'[g] = "running"
      <4> DEFINE u == Updated(g, metrics[g], now)
      <4>1. /\ u.prompt = InputLen[g] /\ u.ttlt = Unknown
            /\ u.ttft >= 0 \/ u.ttft = Unknown
            /\ UpTo(u.gain, Most(g, decoded[g]))
        BY <1>1, <2>2, <3>1, UpdatedCredits DEF Credits
      <4>2. metrics'[g] = u
        BY <2>1, <3>3
      <4> HIDE DEF u
      <4> QED
        BY <2>1, <3>1, <4>1, <4>2 DEF Credits
    <3>4. CASE phase'[g] = "waiting" /\ phase[g] = "running"
      <4>1. metrics'[g] = NewMetrics(metrics[g].arrival)
        BY <2>1, <3>4 DEF Reset
      <4> QED
        BY <2>1, <2>2, <3>1, <4>1, NewCredits
    <3>5. CASE phase'[g] = "swapped"
      <4>1. metrics'[g] = [metrics[g] EXCEPT !.swapped = TRUE]
        BY <2>1, <3>5
      <4>2. SameButSwapped(metrics'[g], metrics[g])
        BY <2>2, <4>1, SwappedIsSame DEF MetricsSound
      <4> QED
        BY <2>1, <3>1, <3>2, <4>2 DEF Credits, SameButSwapped
    <3>6. CASE phase'[g] = "waiting" /\ phase[g] # "running"
      <4>1. metrics'[g] = metrics[g]
        BY <2>1, <3>6
      <4> QED
        BY <2>1, <3>2, <4>1
    <3> QED
      BY <3>1, <3>3, <3>4, <3>5, <3>6 DEF Queues
  <2> QED
    BY <2>3, <2>4
<1>5. ASSUME NEW S \in SUBSET Groups, ModelRun(S), NEW g \in Groups
      PROVE  Credits(g, metrics'[g], decoded'[g], phase'[g])
  <2> DEFINE ended == {h \in S : decoded'[h] = OutputLen[h]}
  <2>1. /\ phase' = [h \in Groups |-> IF h \in ended THEN "finished" ELSE phase[h]]
        /\ metrics' = [h \in Groups |->
             IF h \in ended THEN WithOutput(h, metrics[h], now', decoded'[h])
             ELSE metrics[h]]
        /\ decoded' = [h \in Groups |-> decoded[h] + (IF h \in S THEN 1 ELSE 0)]
        /\ S \subseteq {h \in Groups : phase[h] = "running"}
        /\ \E ticks \in 1..MaxStep : now' = now + ticks
    BY <1>5 DEF ModelRun
  <2>2. /\ Credits(g, metrics[g], decoded[g], phase[g]) /\ decoded[g] \in Nat
        /\ MetricsSound(metrics[g], decoded[g], now)
    BY <1>1 DEF CreditInv
  <2>3. decoded'[g] \in Nat /\ decoded[g] <= decoded'[g]
    BY <2>1, <2>2
  <2>4. CASE g \in ended
    <3>1. metrics'[g] = WithOutput(g, metrics[g], now', decoded'[g])
          /\ phase'[g] = "finished" /\ g \in S
      BY <2>1, <2>4
    <3>2. decoded'[g] \in Nat \ {0}
      BY <2>1, <2>2, <3>1
    <3>3. /\ IsMetrics(metrics[g]) /\ metrics[g].arrival \in Nat
          /\ metrics[g].ttft \in Int
          /\ metrics[g].ttft >= 0 \/ metrics[g].ttft = Unknown
          /\ metrics[g].arrival <= now
      BY <2>2 DEF MetricsSound, Credits
    <3>4. now' \in Nat /\ metrics[g].arrival < now'
      BY <1>1, <2>1, <3>3, TrackerAssumption
    <3> DEFINE u == WithOutput(g, metrics[g], now', decoded'[g])
    <3>5. /\ u.prompt = metrics[g].prompt /\ u.ttft >= 0
          /\ UpTo(u.gain, Most(g, decoded'[g]))
          /\ MetConstraints(g, u, decoded'[g]) => Exactly(u.gain, Most(g, decoded'[g]))
      BY <3>2, <3>3, <3>4, OutputCredits
    <3>6. metrics'[g] = u
      BY <3>1
    <3> HIDE DEF u, ended
    <3>7. Credits(g, u, decoded'[g], "finished")
      BY <2>2, <3>5 DEF Credits, Queues
    <3> QED
      BY <3>1, <3>6, <3>7
  <2>5. CASE g \notin ended
    <3>1. metrics'[g] = metrics[g] /\ phase'[g] = phase[g]
      BY <2>1, <2>5
    <3>2. CASE phase[g] = "finished"
      <4>1. decoded'[g] = decoded[g]
        BY <2>1, <2>2, <3>2
      <4> QED
        BY <2>2, <3>1, <4>1
    <3>3. CASE phase[g] # "finished"
      BY <2>2, <2>3, <3>1, <3>3, MoreCredits
    <3> QED
      BY <3>2, <3>3
  <2> QED
    BY <2>4, <2>5
<1>6. ASSUME trackerVars' = trackerVars PROVE CreditInv'
  BY <1>6 DEF trackerVars, CreditInv
<1>7. \/ \E h \in Groups : Arrive(h) \/ Abort(h)
      \/ Schedule
      \/ \E S \in SUBSET Groups : ModelRun(S)
      \/ trackerVars' = trackerVars
  BY DEF PolicyNext, Add, GiveUp, Predict, Call, Run, vars
<1> QED
  BY <1>2, <1>3, <1>4, <1>5, <1>6, <1>7 DEF CreditInv

\* For any lengths, constraints, weights and penalties, and any order of tokens,
\* preemptions and recomputations, the recorded gain of a request is at most
\* that of its prompt and its tokens, each counted once, and it is all of that
\* for a request that has finished and met its constraints: what the updates
\* have credited before is neither added to it nor left out
\* (slo_tracker.py:32, 78; sequence.py:868-877).
THEOREM GainAlwaysCountsOnce == PolicySpec => []GainCountsOnce
<1>1. PolicyInv /\ CreditInv => GainCountsOnce
  <2> SUFFICES ASSUME PolicyInv, CreditInv, NEW g \in Groups
               PROVE  /\ AtMost(metrics[g].gain, WholeOf(g))
                      /\ phase[g] = "finished" /\ OnTime(g) =>
                           AtMost(WholeOf(g), metrics[g].gain)
    BY DEF GainCountsOnce
  <2>1. Credits(g, metrics[g], decoded[g], phase[g]) /\ decoded[g] \in Nat
    BY DEF PolicyInv, TrackerInv, CreditInv
  <2>2. Most(g, decoded[g]) \in Nat /\ WholeOf(g) = Whole(Most(g, decoded[g]))
    BY <2>1, TrackerAssumption DEF Most, WholeOf
  <2>3. OnTime(g) => MetConstraints(g, metrics[g], decoded[g])
    BY DEF OnTime, MetConstraints
  <2> QED
    BY <2>1, <2>2, <2>3, UpToAtMost DEF Credits
<1>2. PolicyInv /\ CreditInv /\ [PolicyNext]_vars => CreditInv'
  BY CreditStep
<1> QED
  BY <1>1, <1>2, PolicyInvariance, CreditInitInv, PTL DEF PolicySpec
=============================================================================
