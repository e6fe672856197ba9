------------------------------- MODULE Policy -------------------------------
(***************************************************************************)
(* The scheduling policies of JITServe (jitserve/scheduler/policy.py) over *)
(* the requests of SLOTracker: what a policy remembers of the groups and   *)
(* of the calls of schedule(), and the priority it gives.  Priorities are  *)
(* pairs, the least first.                                                 *)
(*                                                                         *)
(* The output length of a request is known (benchmarks send it) or         *)
(* predicted by a thread that may answer at any time; the group copies it  *)
(* when it is made.  One call of schedule() sees one time.                 *)
(***************************************************************************)
EXTENDS SLOTracker, SequencesExt

CONSTANTS
    Policies,      \* the policies to choose from
    Collection,    \* Collection[g]: the collection_id
    Interval,      \* schedule_interval
    WindowSize,    \* window_size
    DefaultUnit,   \* DEFAULT_SCHEDULE_INTERVAL, a fraction of a tick
    DefaultLen,    \* DEFAULT_PREDICTION_LENGTH (1024)
    Predicted,     \* Predicted[g]: what the predictor answers
    LeastTime,     \* the least remaining time (1e-6)
    Quantum        \* the step of attained service (400)

ASSUME PolicyAssumption ==
    /\ Policies \subseteq {"fcfs", "ltr", "srtf", "autellix", "slo"}
    /\ Interval \in Nat \ {0} /\ WindowSize \in Nat \ {0} /\ Quantum \in Nat \ {0}
    /\ DefaultLen \in Nat \ {0} /\ \A g \in Groups : Predicted[g] \in Nat \ {0}

VARIABLES
    policy,       \* the scheduling policy the server was started with
    dict,         \* seq_group_dict: collection_id -> list of groups
    cached,       \* seq_group_slo_dict
    count,        \* num_schedule_count, modulo Interval
    lastCall,     \* last_schedule_time
    intervals,    \* the last WindowSize intervals
    outputLen,    \* request_info.output_len
    copiedLen     \* predict_output_length

policyVars == <<policy, dict, cached, count, lastCall, intervals, outputLen, copiedLen>>
vars == <<trackerVars, policyVars>>

None == "none"
Predicts == policy \in {"ltr", "slo"}

PolicyInit ==
    /\ TrackerInit
    /\ policy \in Policies
    /\ dict = <<>>
    /\ cached = [g \in Groups |-> None]
    /\ count = 0
    /\ lastCall = Unknown
    /\ intervals = <<>>
    /\ outputLen = [g \in Groups |-> IF Predicts THEN DefaultLen ELSE OutputLen[g]]
    /\ copiedLen = outputLen

-----------------------------------------------------------------------------
(* The dictionary of groups, and the interval between calls.               *)

Peers(g) == IF Collection[g] \in DOMAIN dict THEN ToSet(dict[Collection[g]]) ELSE {}

\* add_seq_group.
AddSeqGroup(d, g) ==
    LET c == Collection[g]
    IN [e \in DOMAIN d \cup {c} |->
          LET list == IF e \in DOMAIN d THEN d[e] ELSE <<>>
          IN IF e = c THEN Append(list, g) ELSE list]

\* The groups of a list that are not in S, in order.
Without(list, S) ==
    FoldLeft(LAMBDA left, g : IF g \in S THEN left ELSE Append(left, g), <<>>, list)

\* Mutant: empty lists stay.
DeleteOnly(d, S) == [c \in DOMAIN d |-> Without(d[c], S)]

\* delete_seq_group of the groups of S.
DeleteSeqGroups(d, S) ==
    [c \in {e \in DOMAIN d : Without(d[e], S) # <<>>} |-> Without(d[c], S)]

\* update_interval_time.
UpdatedIntervals ==
    LET new == IF lastCall = Unknown THEN DefaultUnit
               ELSE Lowest(<<now - lastCall, Interval>>)
        all == Append(intervals, new)
    IN IF Len(all) > WindowSize THEN Tail(all) ELSE all

\* _get_interval_time.
UnitTime(times) ==
    LET mean == Over(FoldSeq(Plus, Zero, times), Whole(Len(times)))
    IN IF times = <<>> \/ mean[1] = 0 THEN DefaultUnit ELSE mean

-----------------------------------------------------------------------------
(* SLOPolicy: the reward expected of a group over the time it still takes. *)

\* _safe_ratio.
SafeRatio(deadline, finish) ==
    Greater(Least, Lesser(Whole(1), Over(Whole(deadline), finish)))

\* allocation_control: the copies of the lengths count.
AllocationControl(g, unit) ==
    Times(unit, Whole(MapThenSumSet(LAMBDA p : copiedLen[p] - decoded[p], Peers(g))))

\* _compute_remain_time.
RemainTime(g, unit) ==
    Greater(LeastTime,
            IF Type[g] = "collective" THEN AllocationControl(g, unit)
            ELSE Times(unit, Whole(outputLen[g] - decoded[g])))

\* _estimate_latency_reward.
LatencyReward(g, unit, served) ==
    LET m == metrics[g]
        Discount(deadline, time) == Power(SafeRatio(deadline, Plus(served, time)), Penalty)
        remaining == Discount(DeadlineOf(g), RemainTime(g, unit))
    IN IF m.ttft # Unknown /\ m.gain[1] > 0
       THEN Plus(m.gain, Times(Whole((outputLen[g] - decoded[g]) * DecodeWeight), remaining))
       ELSE Plus(Times(Whole(InputLen[g]), Discount(SLO[g].ttft, unit)),
                 Times(Whole(outputLen[g] * DecodeWeight), remaining))

\* _estimate_throughput_reward.
ThroughputReward(g, unit, served) ==
    Times(Whole(InputLen[g] + outputLen[g] * DecodeWeight),
          Power(SafeRatio(DeadlineOf(g), Plus(served, RemainTime(g, unit))), Penalty))

\* reward_estimation, at time t.
Reward(g, unit, t) ==
    LET served == Whole(t - metrics[g].arrival)
    IN IF Type[g] = "latency" THEN LatencyReward(g, unit, served)
       ELSE ThroughputReward(g, unit, served)

\* What SLOPolicy.get_priority computes when nothing is cached; the density
\* without its sign.
Density(g, unit, t) ==
    IF Type[g] # "collective" THEN Over(Reward(g, unit, t), RemainTime(g, unit))
    ELSE Over(FoldSet(LAMBDA p, sum : Plus(Reward(p, unit, t), sum), Zero, Peers(g)),
              RemainTime(g, unit))

\* Mutant: the priority is cached for the group that asks only.
CacheAlone(cache, asked, unit) ==
    [g \in Groups |->
       IF cache[g] = None /\ g \in asked
       THEN <<Density(g, unit, now), RemainTime(g, unit)>> ELSE cache[g]]

\* get_priority of the groups asked for: the groups of a collection share the
\* priority computed for the first of them that has none.
CacheAfter(cache, asked, unit) ==
    LET computed == {g \in asked : cache[g] = None}
    IN [g \in Groups |->
          IF \/ g \in computed
             \/ \E p \in computed : Type[p] = "collective" /\ g \in Peers(p)
          THEN <<Density(g, unit, now), RemainTime(g, unit)>> ELSE cache[g]]

-----------------------------------------------------------------------------
(* The other policies.                                                     *)

\* Mutant: a missed deadline does not change the class of a request.
AnyDistance(g) ==
    LET left == metrics[g].arrival + DeadlineOf(g) - now
    IN <<0, IF left > 0 THEN left ELSE -left>>

\* SRTFPolicy.get_priority.
DeadlinePriority(g) ==
    LET left == metrics[g].arrival + DeadlineOf(g) - now
    IN IF left > 0 THEN <<0, left>> ELSE <<1, -left>>

\* LASPolicy.get_priority.
AttainedService(g) ==
    LET service == decoded[g] + (IF Type[g] = "collective"
                                 THEN MapThenSumSet(LAMBDA p : decoded[p], Peers(g)) ELSE 0)
    IN (service \div Quantum) * Quantum

Priority(g) ==
    CASE policy = "fcfs" -> <<0, metrics[g].arrival>>
      [] policy = "ltr" -> <<0, outputLen[g]>>
      [] policy = "srtf" -> DeadlinePriority(g)
      [] OTHER -> <<AttainedService(g), metrics[g].arrival>>

-----------------------------------------------------------------------------
\* Scheduler.add_seq_group.
Add(g) ==
    /\ Arrive(g)
    /\ dict' = AddSeqGroup(dict, g)
    /\ copiedLen' = [copiedLen EXCEPT ![g] = outputLen[g]]
    /\ UNCHANGED <<policy, cached, count, lastCall, intervals, outputLen>>

\* The prediction thread of a request writes its answer.
Predict(g) ==
    /\ Predicts
    /\ phase[g] = "new" \/ InQueue(g)
    /\ outputLen[g] = DefaultLen /\ outputLen[g] # Predicted[g]
    /\ outputLen' = [outputLen EXCEPT ![g] = Predicted[g]]
    /\ UNCHANGED <<trackerVars, policy, dict, cached, count, lastCall, intervals, copiedLen>>

\* abort_seq_group does not tell the policy.
GiveUp(g) == Abort(g) /\ UNCHANGED policyVars

\* Mutant: what was cached stays.
KeepCache == cached

\* update_schedule_count, at the end of an interval.
ClearedCache == [g \in Groups |-> None]

\* One call of schedule().  The priorities of the waiting groups are asked for
\* to sort them, those of preempted groups to log them, and at the end of an
\* interval those of all groups, unless the swap space or the pending bin
\* keeps the SLO scheduler from it.
Call ==
    LET ends == (count + 1) % Interval = 0
        queued == {g \in Groups : InQueue(g)}
    IN /\ Schedule
       /\ count' = (count + 1) % Interval
       /\ lastCall' = IF ends THEN now ELSE lastCall
       /\ intervals' = IF ends THEN UpdatedIntervals ELSE intervals
       /\ LET waiting == {g \in queued : phase[g] = "waiting"}
              preempted == {g \in queued : phase[g] = "running" /\ phase'[g] # "running"}
              cache == IF ends THEN ClearedCache ELSE cached
          IN \E sorted \in IF ends THEN {queued, {}, waiting} ELSE {waiting} :
               LET asked == sorted \cup preempted
               IN /\ cached' = IF policy = "slo"
                               THEN CacheAfter(cache, asked, UnitTime(intervals'))
                               ELSE cached
                  /\ copiedLen' = IF policy = "ltr"
                                  THEN [g \in Groups |-> IF g \in asked THEN outputLen[g]
                                                         ELSE copiedLen[g]]
                                  ELSE copiedLen
       /\ UNCHANGED <<policy, dict, outputLen>>

\* The model runs, and free_finished_seq_groups deletes what has finished.
Run(S) ==
    /\ ModelRun(S)
    /\ dict' = DeleteSeqGroups(dict, {g \in S : phase'[g] = "finished"})
    /\ UNCHANGED <<policy, cached, count, lastCall, intervals, outputLen, copiedLen>>

PolicyNext ==
    \/ \E g \in Groups : Add(g) \/ Predict(g) \/ GiveUp(g)
    \/ Call
    \/ \E S \in SUBSET Groups : Run(S)

PolicySpec == PolicyInit /\ [][PolicyNext]_vars
=============================================================================
