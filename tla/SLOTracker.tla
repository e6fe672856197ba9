----------------------------- MODULE SLOTracker -----------------------------
(***************************************************************************)
(* What JITServe records of a request while it is served, and the service  *)
(* gain it credits: jitserve/slo_tracker/slo_tracker.py and                *)
(* RequestSLOMetrics (jitserve/request_info.py).                           *)
(*                                                                         *)
(* One engine step is a call of schedule(), which moves requests between   *)
(* the queues and then updates the metrics of the running ones, and a run  *)
(* of the model, which takes time and yields tokens.  Which requests move  *)
(* and which get a token is SLOScheduler's business and open here.  Time   *)
(* is counted in ticks; a gain is a fraction.                              *)
(***************************************************************************)
EXTENDS Fractions, Sequences, FiniteSets, FiniteSetsExt, TLC

CONSTANTS
    Groups,
    Loads,         \* bound: the sets of requests that come together
    Type,          \* Type[g]: "latency", "throughput" or "collective"
    InputLen,      \* get_prompt_len()
    OutputLen,     \* the tokens after which g stops
    SLO,           \* slo_constraint: fields ttft, tbt and ttlt
    DecodeWeight,  \* RequestPhaseWeight.DECODE (8 in the code)
    Least,         \* the least ratio (1e-6 in the code)
    Penalty,       \* penalty_factor of the tracker
    FinalPenalty,  \* penalty_factor of the gain of a whole request (100)
    MaxStep,       \* bound: ticks a model run takes
    MaxTime        \* bound: ticks

ASSUME TrackerAssumption ==
    /\ Loads \subseteq SUBSET Groups
    /\ \A g \in Groups : Type[g] \in {"latency", "throughput", "collective"}
    /\ \A g \in Groups : InputLen[g] \in Nat \ {0} /\ OutputLen[g] \in Nat \ {0}
    /\ \A g \in Groups : /\ SLO[g].ttft \in Nat \ {0} /\ SLO[g].tbt \in Nat \ {0}
                         /\ SLO[g].ttlt \in Nat \ {0}
    /\ Least \in (Nat \ {0}) \X (Nat \ {0}) /\ Least[1] <= Least[2]
    /\ DecodeWeight \in Nat \ {0} /\ Penalty \in Nat \ {0} /\ FinalPenalty \in Nat \ {0}
    /\ MaxStep \in Nat \ {0} /\ MaxTime \in Nat

VARIABLES
    now,          \* time.time()
    phase,        \* the queue g is in, or its end
    decoded,      \* get_output_len()
    metrics,      \* concord_metrics
    called        \* schedule() has been called and the model has not run

trackerVars == <<now, phase, decoded, metrics, called>>

Unknown == -1     \* None, for a time
Queues == {"waiting", "running", "swapped"}
InQueue(g) == phase[g] \in Queues

\* RequestSLOMetrics.  An entry of tbt is the time and the tokens it is for.
\* The field swapped is not in the code: it says that the request was swapped
\* out since its metrics were new, and only properties read it.
NewMetrics(arrival) ==
    [arrival |-> arrival, prompt |-> 0, output |-> 0, ttft |-> Unknown,
     tbt |-> <<>>, ttlt |-> Unknown, last |-> Unknown, gain |-> Zero,
     swapped |-> FALSE]

\* Mutant: the time of the last token survives a recomputation.
KeepLast(m) == [NewMetrics(m.arrival) EXCEPT !.last = m.last]

Reset(m) == NewMetrics(m.arrival)

TrackerInit ==
    /\ now = 0
    /\ \E load \in Loads :
         phase = [g \in Groups |-> IF g \in load THEN "new" ELSE "absent"]
    /\ decoded = [g \in Groups |-> 0]
    /\ metrics = [g \in Groups |-> NewMetrics(0)]
    /\ called = FALSE

-----------------------------------------------------------------------------
(* Service gain.                                                           *)

\* _clamp_ratio.
ClampRatio(ratio) ==
    IF ratio[2] <= 0 THEN Whole(1) ELSE Greater(Least, Lesser(Whole(1), ratio))

\* _maybe_set_ttft.
WithTTFT(m, out, t) ==
    IF out < 1 \/ m.ttft # Unknown THEN m ELSE [m EXCEPT !.ttft = t - m.arrival]

\* _desired_decode_len times the TBT constraint.
SinceFirstToken(g, m, t) ==
    IF m.ttft = Unknown THEN 0
    ELSE t - (IF m.ttft <= SLO[g].ttft THEN m.ttft ELSE SLO[g].ttft) - m.arrival

\* _latency_service_gain.  A gain that is still zero means that the prompt has
\* not been paid for.
LatencyGain(g, m, t, out, newIn, newOut, p) ==
    LET prefill == IF m.gain[1] = 0 /\ m.ttft # Unknown
                   THEN Times(Power(ClampRatio(<<SLO[g].ttft, m.ttft>>), p), Whole(newIn))
                   ELSE Zero
        since == SinceFirstToken(g, m, t)
        decode == IF since <= 0 THEN Whole(newOut)
                  ELSE Times(Power(ClampRatio(<<out * SLO[g].tbt, since>>), p),
                             Whole(newOut * DecodeWeight))
    IN IF newOut > 0 THEN Plus(prefill, decode) ELSE prefill

\* The deadline of a sequence group.
DeadlineOf(g) ==
    IF Type[g] = "latency" THEN SLO[g].ttft + SLO[g].tbt * OutputLen[g]
    ELSE SLO[g].ttlt

\* _throughput_service_gain: all at once, at the end.
ThroughputGain(g, m, out, newIn, newOut, p) ==
    IF newIn > 0 \/ newOut <= 0 \/ m.ttlt = Unknown THEN Zero
    ELSE LET total == Whole(InputLen[g] + out * DecodeWeight)
         IN IF Type[g] = "collective" \/ m.ttlt <= DeadlineOf(g) THEN total
            ELSE Times(Power(<<DeadlineOf(g), m.ttlt>>, p), total)

\* _compute_service_gain.
ServiceGain(g, m, t, out, newIn, newOut, p) ==
    IF Type[g] = "latency" THEN LatencyGain(g, m, t, out, newIn, newOut, p)
    ELSE ThroughputGain(g, m, out, newIn, newOut, p)

\* _update_metrics.
Updated(g, m0, t) ==
    LET out == decoded[g]
        m == WithTTFT(m0, out, t)
        newOut == out - m.output
    IN [m EXCEPT !.gain = ServiceGain(g, m, t, out, InputLen[g] - m.prompt, newOut,
                                      Penalty),
                 !.tbt = IF m.last # Unknown /\ newOut > 0
                         THEN Append(@, <<t - m.last, newOut>>) ELSE @,
                 !.last = IF newOut > 0 THEN t ELSE @,
                 !.prompt = InputLen[g],
                 !.output = out]

\* Mutant: what the updates have paid for counts as paid for.
RestOfGain(g, m0, t, out) ==
    LET m == WithTTFT(m0, out, t)
    IN ServiceGain(g, m, t, out, IF Type[g] = "latency" THEN InputLen[g] ELSE 0, out,
                   FinalPenalty)

\* service_compute: the gain of the whole request, when it has finished.
WholeGain(g, m0, t, out) ==
    LET m == WithTTFT([m0 EXCEPT !.gain = Zero], out, t)
    IN ServiceGain(g, m, t, out, IF Type[g] = "latency" THEN InputLen[g] ELSE 0, out,
                   FinalPenalty)

\* RequestOutput.from_seq_group of a finished group.
WithOutput(g, m0, t, out) ==
    LET m == [m0 EXCEPT !.ttlt = t - m0.arrival]
    IN [WithTTFT(m, out, t) EXCEPT !.gain = WholeGain(g, m, t, out)]

-----------------------------------------------------------------------------
Arrive(g) ==
    /\ phase[g] = "new" /\ ~called
    /\ phase' = [phase EXCEPT ![g] = "waiting"]
    /\ metrics' = [metrics EXCEPT ![g] = NewMetrics(now)]
    /\ UNCHANGED <<now, decoded, called>>

Abort(g) ==
    /\ InQueue(g) /\ ~called
    /\ phase' = [phase EXCEPT ![g] = "aborted"]
    /\ UNCHANGED <<now, decoded, metrics, called>>

\* Where a call of schedule() may leave a queued group.
Moves(from) ==
    CASE from = "waiting" -> {"waiting", "running"}
      [] from = "running" -> {"running", "swapped", "waiting"}
      [] OTHER -> {"swapped", "running"}

\* schedule(): the metrics of a group that is preempted by recomputation are
\* reset, those of the groups that run then are updated.
Schedule ==
    LET queued == {g \in Groups : InQueue(g)}
    IN /\ ~called
       /\ queued # {}
       /\ called' = TRUE
       /\ \E to \in {p \in [queued -> Queues] : \A g \in queued : p[g] \in Moves(phase[g])} :
            /\ phase' = [g \in Groups |-> IF g \in queued THEN to[g] ELSE phase[g]]
            /\ metrics' = [g \in Groups |->
                 IF phase'[g] = "running" THEN Updated(g, metrics[g], now)
                 ELSE IF phase[g] = "running" /\ phase'[g] = "waiting"
                 THEN Reset(metrics[g])
                 ELSE IF phase'[g] = "swapped"
                 THEN [metrics[g] EXCEPT !.swapped = TRUE]
                 ELSE metrics[g]]
       /\ UNCHANGED <<now, decoded>>

\* The model runs; the groups of S get a token, and those that are complete
\* leave with their last output.
ModelRun(S) ==
    /\ called
    /\ S \subseteq {g \in Groups : phase[g] = "running"}
    /\ called' = FALSE
    /\ \E ticks \in 1..MaxStep : now + ticks <= MaxTime /\ now' = now + ticks
    /\ decoded' = [g \in Groups |-> decoded[g] + (IF g \in S THEN 1 ELSE 0)]
    /\ LET ended == {g \in S : decoded'[g] = OutputLen[g]}
       IN /\ phase' = [g \in Groups |-> IF g \in ended THEN "finished" ELSE phase[g]]
          /\ metrics' = [g \in Groups |->
               IF g \in ended THEN WithOutput(g, metrics[g], now', decoded'[g])
               ELSE metrics[g]]
=============================================================================
