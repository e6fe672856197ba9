# A TLA+ model of JITServe

JITServe serves language-model requests with service-level objectives.  It puts
a scheduler, its policies and a request analyser (`src/jitserve`) on top of a
vendored vLLM (`src/third_party/vllm`).  This directory holds TLA+ modules of
its scheduler, its policies and its request analyser, TLC configurations that
check them on small instances, and TLAPS proofs of what matters most for every
instance.

Paths below are relative to `src/`; `vllm/` stands for
`third_party/vllm/vllm/`.

## 1. The system

| Component | Source | State it keeps | Operations |
|---|---|---|---|
| KV-cache block manager | `vllm/core/block_manager.py`, `vllm/core/block/` | a block table per sequence; a free list per device | `can_allocate`, `allocate`, `can_append_slots`, `append_slots`, `can_swap_in/out`, `swap_in/out`, `free` |
| vLLM scheduler | `vllm/core/scheduler.py` | the queues waiting, running, swapped; `_async_stopped` | `add_seq_group`, `abort_seq_group`, `schedule`, `_schedule_chunked_prefill`, `_preempt`, `free_finished_seq_groups` |
| SLO scheduler | `jitserve/scheduler/slo_scheduler.py` | current bin, pending swap-outs, bounds, `prev_no_swap_space`, dull counter, `max_num_seqs` | `_schedule_slo`, bins, sliding window, process list, `_stop_dull_scheduling` |
| Policies | `jitserve/scheduler/policy.py` | groups by collection, priority cache, schedule counter, average interval | `get_priority`, `update_schedule_count`, add and delete |
| SLO tracker, request info | `jitserve/slo_tracker/slo_tracker.py`, `jitserve/request_info.py` | per request: TTFT, TBT, service gain, predicted length | update after each step, `reset` after recomputation |
| Sequences | `vllm/sequence.py` | status, stage, computed and output tokens | status changes, `reset_state_for_recompute` |
| Engine step loop | `vllm/engine/llm_engine.py`, `async_llm_engine.py` | `output_queue`, requests in progress | `step_async`, `_process_model_outputs`, `_advance_to_next_step`, `run_engine_loop` |
| Request server | `jitserve/server.py` | none of its own | build the request, start the prediction thread, adjust the deadline, stream |
| Stage graphs | `jitserve/request_analyzer/graph_context.py`, `similarity.py` | unfinished and finished collections, clusters and medoids | start and complete a stage, distance, clustering task, best match |
| Length prediction | `jitserve/request_analyzer/prediction.py` | none | predict over a socket |
| Trace reader, benchmarks | `deepresearch_trace_reader.py`, `benchmark/` | none | load generation |

**How they interact.**  The server hands a request to the asynchronous engine,
which adds it to the scheduler (and the policy) between two steps.  Each step
calls `schedule()`: the policy's counter decides whether the SLO path or vLLM's
chunked prefill runs; both ask the block manager before they allocate, append
or swap.  The model runs on the groups that were scheduled, and the sampled
tokens are appended and processed: at once, or, with asynchronous output
processing, during the next step.  The tracker and the prediction thread write
fields of the request that the policy reads; completed collections feed the
graph context, whose clusters adjust the deadlines of later requests.

**What is hard.**
* *Groups move between queues through result lists.*  The SLO path takes groups
  out of queues in one loop, collects them in several lists and rebuilds
  `running` at its end.  A group in no list is lost, a group in two is doubled.
* *State outlives the call that made it.*  The current bin and the pending
  swap-outs are used by later calls, when their groups may be finished.
* *Guards and operations count blocks in different ways.*  A guard that is one
  block short is an exception halfway through a call.
* *Outputs arrive a step late* with asynchronous output processing.
* *Operations fail halfway.*  A swap without CPU blocks becomes a recomputation.
* *Starvation.*  The SLO path admits only in exchange for what it evicts.
* Around the scheduler: cached priorities, predictions that race with the
  scheduler, a clustering task with awaits between its locked sections.
* *Rounds, tasks and threads race.*  A collection that is sent again meets what its
  last round left behind; an update task finds another one running, or a list that
  has grown; a prediction is written while the scheduler reads it.

`PROJECT.json` lists each hazard at its line with the properties that cover it,
or why none does.

**What correctness means, by component.**
* Block manager: no block leaks or is freed twice, and the guards suffice.
* Scheduler: a live request is in exactly the queue of its status; a call
  decides one thing of a group and stays within its budget; what it schedules
  can run; tables follow statuses and cover what was computed; a finished
  request stays finished and is reported; every request is answered.
* Engine: late outputs change neither a finished nor a preempted group's fate.
* Policy and tracker: a priority reflects the peers that are alive, and what is
  known when it is computed; a gain is counted once; times add up.
* Graph context: every completed stage is counted once in the right round, and a
  share of a deadline is a fraction of it; similarity does not depend on the order
  of completion; clusters index graphs that exist, and a query finds its match.
* Prediction: a request has the default length or its own, and no thread hangs.

## 2. Modules

| Module | Content |
|---|---|
| `BlockManager` | tables as token counts, pools as free-block counts, every guard and operation |
| `SLOScheduler` | the scheduler and the engine loop over it; EXTENDS `BlockManager` |
| `SchedulerProperties` | the type invariant, safety, action and liveness properties |
| `SchedulerInvariant` | what is invariant of a group at every program point, for the proofs |
| `MCSLOScheduler` | the instances the `.cfg` files choose from |
| `SearchStrategy` | the two search strategies as computed, on top of `SLOScheduler` |
| `RequestLifecycle` | what the scheduler promises: the life of one request |
| `SchedulerRefinement` | `SLOScheduler` implements `RequestLifecycle` |
| `Fractions` | gains, shares and densities as fractions |
| `SLOTracker` | the metrics and the service gain of a request |
| `Policy` | the scheduling policies; EXTENDS `SLOTracker` |
| `PredictionService` | the prediction threads, their connections and the prediction server, with its properties |
| `StageStructure` | the stages of a collective request and the graphs made of them |
| `GraphContext` | rounds, stages, deadlines and completions of collections; EXTENDS `StageStructure` |
| `GraphSimilarity` | similarity and distance of graphs, and the graph of a trace |
| `DynamicClustering` | the clustering tasks; EXTENDS `GraphSimilarity` |
| `PolicyProperties`, `GraphContextProperties` | the properties of `Policy` and `GraphContext` |
| `SchedulerSafetyProofs` | the block arithmetic, types, and that the guards suffice; tables, caches, decisions and batches, from `Linked` |
| `SchedulerCountingProofs` | blocks, budgets and the lengths of queues, by sums over groups |
| `SchedulerRefinementProofs` | that `SLOScheduler` implements `RequestLifecycle`, what it does with outputs, and that `SearchStrategy` implements `SLOScheduler` |
| `PolicyProofs`, `GraphContextProofs`, `PredictionProofs` | the theorems of `Policy` with `SLOTracker`, of `GraphContext` and of `PredictionService` |
| `ClusteringProofs` | the theorems of `DynamicClustering`, and of the similarity that it rests on |
| `FiniteSums` | lemmas on sums over finite sets, on least and greatest elements, and on folds |

An `MC` module holds the small instances of the module it is named after; those of
`GraphSimilarity` and `DynamicClustering` also hold its properties.  `GraphSimilarity` has
no state of its own: `StagesSpec` of `MCGraphSimilarity` grows two stages node by node, so
that its states are the pairs of stages.

### BlockManager

`device[g]` says where the table of group `g` is, `slots[g]` how many tokens it
holds; `gpuFree` and `cpuFree` are the lengths of the free lists.  JITServe runs
one sequence per group without prefix caching, so no block is shared and the
number of blocks of a table is a function of its tokens (`NumHeld`,
`NumRequired`).  The guards are kept as the code computes them:
`can_append_slots` and `can_swap` go through `get_num_full_blocks_touched`,
`can_allocate` through `get_num_required_blocks` and the watermark, and
`ensure_num_empty_slots`, which really takes the blocks, through
`_num_empty_slots`.  That these different counts fit together is a theorem, not
part of the model.

### SLOScheduler

One engine step is a call of `schedule()`, the run of the model and the
processing of outputs.  `pc` says where the step is and `it` holds the budget and
the lists of the call.  An action is one iteration of a loop of the code, or the
straight-line code between two loops:

| `pc` | Code | Actions |
|---|---|---|
| `idle` | between two steps | `AddSeqGroup`, `AbortSeqGroup`, `BeginSchedule` (the counter, `_test_enough_swap_space`) |
| `free` | `free_finished_seq_groups`, with which both paths begin | `FreeStopped`, then `ChooseBin` or `EnterChunked` |
| `preempt` | `_preempt_pending` | `PreemptPending`, `BuildProcessList` |
| `process` | first loop of `_schedule_process_list` | `Process`, `EndProcess` |
| `apply` | its swapped, running and waiting loops | `SwapInSelected`, `RunSelected`, `PrefillSelected` |
| `run` | `_schedule_running` | `RunNext`, `RunFits`, `RunEvicts`, `EndRun` |
| `swapIn` | `_schedule_swapped` | `SwapInNext`, `EndSwapIn` |
| `prefill` | `_schedule_prefills` | `PrefillNext` |
| `commit` | the end of `_schedule_slo` or `_schedule_chunked_prefill` | `Commit` |
| `dull` | `_stop_dull_scheduling` and the rest of `schedule` | `DullAbort`, `EndSchedule` |
| `lateOutputs`, `outputs` | `_process_model_outputs` | `ProcessOutput`, `FreeStopped`, `EndOutputs` |
| `advance` | `_advance_to_next_step` | `Advance`, `EndAdvance` |

What is abstracted, and why it is sound:
* Gains and priorities are real numbers that only *order* groups.  Every order is
  allowed, so a queue is a set and a loop takes its members in any order, except
  where the code fixes it: decodes before prefills, activated groups before
  running ones, swapped before running before waiting in the application loops.
  The bin or window of the highest gain is any bin or window among those the code
  enumerates.
* Times are only compared: whether the policy's interval exceeds the tightest TBT
  is nondeterministic.
* A token is counted, not named.  A sequence stops when its output reaches
  `OutputLen[g]` (`real_output_len`) or its length reaches `MaxModelLen`.
* `schedule_count` is kept modulo the interval.

Two branches of the source cannot be reached and are left out, with a comment
where they would be: the prompt-limit test of the process list, whose operand
was cut to 2 tokens just before, and the `NEVER` answer to a selected prefill.
The collection demand of the sliding window loops over a dictionary nothing is
put in and changes nothing.

### SearchStrategy

`BinSpec` is `SLOScheduler` with `ChooseBin` replaced by what `_recompute_bins`,
`_switch_to_bin` and the sliding window compute: the queues are lists in any order,
each group has a gain, and the groups are sorted (stably, as Python does), cut into
bins, scored, merged or slid over.  `ChoiceIsAllowed` says that each of its steps is
one of `SLOScheduler`, which is checked and proved (section 4).  Hence every safety
property of the open model holds for the computed one, and the model in which nothing
is sorted may be the one that is explored and proved about.  Sorting is written by ranks
and not with `SortSeq`, which a proof cannot expand.

### RequestLifecycle

Six statuses, a device and a token count per request, and eleven events.  It
says what the queues, loops and lists are for: tokens only grow while a request
runs; a request loses its cache only with its place or its life; who has ended does
not run again.  Its constant `Late` allows the three events that exist only with
asynchronous outputs: a request that stops in whatever queue its late output finds
it, one that is marked at the length limit and lets go of its cache a step later,
and one that ended in a queue and is given up once more by the dull abort.  That
the third is there at all is what the refinement brought to light.
`SchedulerRefinement` maps phase, place and tokens to `status`, `device` and `outLen`.

### SLOTracker and Policy

`SLOTracker` keeps `RequestSLOMetrics` per request.  A call of `schedule()` moves
requests between queues in any way the scheduler might and updates the metrics of
those that run, as `_schedule` does at its end; a run of the model takes one to
`MaxStep` ticks and yields tokens.  Gains are fractions with the code's clamp, so a
division by zero or a ratio out of range is an error of the evaluation and not a rounding.
The field `swapped` of the metrics is not in the code: it remembers that a request was
swapped out, and only `TimesAddUp` reads it.

`Policy` adds what a policy remembers: `seq_group_dict`, the priority cache, the
counter and the window of intervals, and the predicted length as the request has it
(`outputLen`) and as the group copied it (`copiedLen`).  Which of the five policies the
server was started with is chosen in the initial state (`policy`), and so is the set of
requests that come (`Loads`).  `Call` asks for priorities
where the code does: of waiting groups to sort them, of preempted ones to log them,
of all of them in an SLO call, after the cache was cleared.  The rewards are computed as in the code, collective ones over the peers.

### PredictionService

A thread connects, sends its prompt in segments, and waits; the server accepts one
connection after the other, reads once, answers or closes.  What a read returns
depends on what has arrived.  If `mayFail`, which the initial state chooses, the
server may raise at any request and die at any step.  The group copies the length whenever the engine gets to it.  The
quantile forest is an answer per prompt; 0, which the thread ignores, is one of them.

### StageStructure and GraphContext

A structure counts completions: nothing tells it which request of which round
completed.  In `GraphContext` clients send a stage, wait for all its answers, send
the next, and send the collection again when it is over or one of its requests timed
out.  The handler computes a share of the deadline when a request arrives, in each
of the matching modes, and tracks a completion when it leaves.  Requests whose client
is gone complete, late, or are dropped.  `DynamicClustering` is replaced by any of
the finished graphs or none, which covers whatever it may answer.

The initial state chooses a `setup`: the matching mode, the collections that are
sent, the output lengths their requests may have and whether clients time out.  A share
is a numerator and a denominator; where the handler fails with an `IndexError` it is
`<<0, 0>>`, and the request has failed.

An entry of a structure carries the round it was sent in, which the code does not
have; it is read by properties only.

### GraphSimilarity and DynamicClustering

`Queries` are the graphs that `find_best_match` is asked for: those of unfinished
collections, when the first request of a stage has arrived.

The similarity is computed over the permutations of a stage, or greedily for large
ones, with the Gaussian kernel in hundredths and cut off at distance four.
`DynamicClustering` runs update tasks on an event loop: an action is what a task
does between two awaits, so graphs are added while a clustering walks over the very
list they are appended to.  Samples are nondeterministic; a time-out, in the behaviours
that begin with `mayTimeOut`, installs the fallback.  The two awaits of the medoid update read nothing that can change
meanwhile and are one action.

Not modelled in the scheduler modules: LoRA, encoder-decoder models, multi-step
scheduling, prefix caching, beam search and priority preemption, which JITServe's
configuration does not enable; failures of the model executor, which end the
engine.

## 3. Runs

The scheduler's instances have blocks of two slots, and three or four groups whose
prompts and outputs are a few tokens: short enough to finish, and long enough for a
prompt to be chunked, for a table to grow across a block boundary, for groups to
compete for three or four GPU blocks, and for a group to be preempted and come back.
Each run asks several questions of one configuration; the configurations differ in
what they make scarce.

| Run | Bounds that matter | What it shows |
|---|---|---|
| `LengthBin` | 4 groups, 3 GPU and 4 CPU blocks, one prompt and one output that outgrow the GPU, an SLO call every 3rd, dull abort out of reach (`DullPendingLimit` 1) | on the default strategy as computed: `BlocksConserved`, `QueueIsStatus`; the refinement `ImplementsLifecycle`; `ChoiceIsAllowed`; `EveryRequestAnswered` by alternating SLO and chunked-prefill calls |
| `SlidingWindow` | the same pools, 2 tokens a step, an SLO call every 2nd | on the window as computed, while `max_num_seqs` changes: `OneDecision`, `BatchWithinBudget`, `BatchIsRunnable`, also in calls that forget a group (section 5); `FeasibleSurvives`: only what can never run is given up; `ChoiceIsAllowed` |
| `ScarceCpu` | 4 GPU and 2 CPU blocks, 2 swaps, 3 tokens | `TypeOK`, `PoolsSuffice`, `ComputedIsCached`, `FinishedIsReported` where swaps fall back to recomputation and the dull abort strikes |
| `AsyncOutput` | asynchronous outputs, `MaxModelLen` 4, 3 GPU blocks | `TableFollowsStatus`, `LiveIsQueued`, and `ImplementsLifecycle` with late outputs |
| `Policies` | each of the five policies; two peers of a collection, or a latency and a throughput request; outputs of 1 and 2 tokens; 4 ticks; an interval of 2 calls | through preemptions and recomputations `GainCountsOnce`, and `TimesAddUp` for requests that are not swapped out; `DictIsLive`, `CachedPeersAgree`, `FreshAtInterval`, `OrderKept` |
| `Prediction` | prompts of 1, 2 and 3 segments, reads of 2, a backlog of 2, with and without failures | `LengthIsOwn`, `ShortIsPredicted`, and that `ThreadsEnd` |
| `Rounds` | a tree of thought <<3, 1>> and a DeepResearch collection <<1, 2, 1>>, each sent twice; all matching modes, the static one with a tree of thought too; time-outs; empty outputs | `InStep`, `GraphIsOneRound`, `LearnedOnce` while no client times out and no handler fails; `GraphIsComplete` always; `RatioIsFraction` always, but for the one failure it names (section 5) |
| `Similarity` | stages of up to 3 nodes with 4 pairs of lengths: all pairs of stages | `OrderIsIrrelevant`, `GreedyIsMatching`, `TraceIsLearned` in both node modes of the trace reader |
| `Clustering` | up to 4 graphs of 2 kinds, a threshold of 3, two clusters, awaits every 2 graphs, with and without time-outs | `TypeOK` (every index is one of a graph), `MatchExists` for the unfinished graphs that are queried; without time-outs `InClosestCluster`, `ClosestIsFound`; `EventuallyClustered` |
| `LostRunning`, `AsyncStop`, `LostGraph` | | counterexamples, see section 5 |

Each passing run explores its state space completely, between 7 000 states
(`Similarity`) and 1.1 million (`SlidingWindow`).  No symmetry is used: the groups,
prompts and collections differ.  In the scheduler's runs deadlock is checked, since
`run_engine_loop` waits when nothing is in progress (`WaitForRequests`); in the others
the clients stop when they have sent all they have to send, and so may the system.
What is not varied within a run is a constant; what one run shows of several
configurations is a variable that keeps its initial value (`policy`, `setup`, `mayFail`,
`mayTimeOut`).

Bounds: `Groups`, the lengths and the pools are constants.  No counter of the scheduler
needs an extra bound: outputs end at `OutputLen`, the schedule counter is modulo the
interval and the dull counter is reset at `DullMaxIters`.  A request may be
aborted at most once and does not come back under the same name.

The other modules name their bounds among their constants: `Rounds` and `MaxElapsed`;
`MaxFinished`; `MaxStep` and `MaxTime`.  They are chosen so that a round follows a
finished and an abandoned one; so that graphs arrive while a clustering runs and after
it, on both sides of the threshold; so that a deadline and an interval pass while a
request is queued, runs and is recomputed; and so that a prompt is read whole, in part
and not at all with all places of the backlog taken.  Thresholds, patterns, batches
between awaits and read sizes are the code's cut down.

**Fairness.**  `FairBinSpec` is `BinSpec /\ WF_vars(Engine)`: `run_engine_loop` starts a
step whenever requests are in progress, and a step runs to its end, since the
model executor is assumed to return.  Nothing is assumed of clients, and nothing
of which group a loop takes first: gains may be as unkind as they like.
`FairSpec` of `DynamicClustering` is weak fairness of the event loop, of the tasks
that have not begun and of the one that clusters; an update ends although the list
grows because the bound on graphs stands for clients that stop, and the clock
may end the update too but need not.  `PredictionService` assumes that threads are
scheduled and that the server's loop runs while its process does, and nothing of the
order in which connections are made, nor that the process lives.

## 4. Proofs

44 theorems state 33 of the 36 properties of the runs for all values of the constants.  TLC evaluates
the assumptions on the constants in every run.  They are what the code or its configuration
ensures: sizes are natural numbers, those that are divided by or waited for are not zero;
groups and collections are finitely many; prompts and outputs are not empty, and no prompt
exceeds `max_model_len` (`_validate_model_input`); objectives are positive; a client that
sends a tree of thought sends the pattern of the code (`Default_ToT_Requests_Pattern`); a
graph is a list of stages, and a stage a list of pairs of lengths.
Some theorems have a further hypothesis, which is explained below.

### The scheduler

**Guards** (`SchedulerSafetyProofs`, first part).  `AppendGuardSuffices`: after `can_append_slots` has said
yes there are as many free blocks as `ensure_num_empty_slots` takes.  `SwapGuardSuffices`:
after the swap-in guard there are as many as the table and the token appended to it take.
Both rest on facts of `\div` for an arbitrary block size (`BlockDivision`, the `CeilDiv`
lemmas) and on what the three ways of counting blocks have in common (`TouchedByAppend`,
`TouchedBySwap`, `AllocatedByAppend`).

**Types and pools.**  `Invariance` is `Spec => []Inv`, where `Inv` is `TypeOK`,
`PoolsSuffice` and `SlotsFit`.  `PoolsSuffice` is not inductive alone: the guards count the
tokens a sequence has, the operations the slots its table lacks, and the two agree only if
no table has more slots than its sequence has tokens, which `SlotsFit` states.  There is one
lemma `<Action>KeepsInv` per action, on top of one lemma per operation of the block manager.
`TypeCorrect` and `NoFreeBlocksErrorNeverRaised` follow.

**Tables, caches, decisions, batches** (`SchedulerSafetyProofs`, second part).  None of
`TableFollowsStatus`, `ComputedIsCached`, `OneDecision` and `BatchIsRunnable` is inductive:
each speaks of the end of a call, and what it needs is built up by loops that hand groups to
each other through queues and lists.  `Linked` (`SchedulerInvariant`) says for every program
point and every group which status, table, queue and lists go together; a bin or a
pending swap-out that outlives its call is the reason for the disjuncts about finished
groups.  Most steps are about one group: `Local(g)` says that such a step leaves every
other group `Untouched`, `UntouchedStaysLinked` that those stay linked, so that the lemma of
an action shows `GroupLinked(g)'` for its own group only.

**Counting** (`SchedulerCountingProofs`, `FiniteSums`).
* `BlocksAreConserved`: the free blocks and those in tables add up to the pool.  The sum over
  the groups changes in one summand per step.
* `BatchIsWithinBudget`: the tokens and sequences of a call are those of its lists, and within
  the budget, while the loops add to and take from both.
* `RunningKeepsWithinBatch`: with the bins the running queue never exceeds `max_num_seqs`.
  With the window that bound itself changes, and the statement would be false.
* `LiveIsAlwaysQueued`: a live request is in the queue of its status.  It has the hypothesis
  `AmpleBudget`: the token budget exceeds two tokens for each group that can run.  Without
  it the statement is false, as `LostRunning` shows; the defaults of 2048 tokens and 256
  sequences satisfy it.  The first loop of the process list gives a group at most two
  tokens (`FewTokens`), so under `AmpleBudget` no running group is left without any; but that
  the number of groups is bounded is `BatchKept`, so the theorem needs the one before.

**Refinement** (`SchedulerRefinementProofs`).  `SchedulerImplementsLifecycle`: initial states
map to initial states, and every step to one of `RequestLifecycle` or to a stutter.  One lemma
per action names the event it is; whether a request may end, lose its cache or be given up
there depends on `Linked` and on `OutputsLinked`, which says what a pending output belongs to.
`FeasibleAlwaysSurvives` is the action property, from the same invariant.
`FinishedIsAlwaysReported` and `QueuesAreAlwaysStatus` have the hypothesis `~AsyncOutput`:
with asynchronous outputs the first is false (`AsyncStop`), and the second, which also needs
`AmpleBudget`, since a late output stops a group that is in a queue.

**Strategies** (`SchedulerRefinementProofs`, second part).  `StrategiesImplementScheduler` is
`BinSpec => Spec`: all of the above holds of the strategies as computed.
`ChoicesAreAllowed` is the same as the property that the runs check.  The argument follows
the data.  `SortReorders`: ranks are a permutation, since of two elements one is before the
other, and it orders the keys.  So the groups considered are a list `T` without repetition,
sorted by length (`TopByLength`), of which any consecutive places are a slice by length in
the sense of `SLOScheduler` (`PartIsSlice`), the list itself being as many groups as the code
takes (`TopIsSubset`).  A window is such a part (`WindowIsSlice`), and so is a bin
(`BinsAreParts`, `BinCount`).  `WidenedIsPart`: all bins but the last are full, so either
the bin to execute is enough, or it is the last and the one before it, the nearest by
`NearestFirst`, makes it enough; no third bin is ever joined.  Whether the window is the last
one depends on its longest group only (`LongestIsLast`).

### Policies and tracker

`PolicyProofs` rests on `PolicyInv`: what the metrics of each group say of each other
(`MetricsSound`), that the dictionary holds what was added and not deleted (`DictSound`), and
that a cached priority is one a call computed (`CacheSound`).
* `TimesAlwaysAddUp`: arrival, time to the first token and the times between tokens add up to the
  time of the last token, for a request that was not swapped out since its metrics were new
  (section 5 says why).  Not inductive: a group that returns from a recomputation must not have
  kept a first-token time without a last token, which is `NotYetSeen`.
* `DictIsAlwaysLive`, `OrderIsKept`: the entries of `seq_group_dict`, and the order of two
  waiting requests under `fcfs` and `srtf`.
* `PrioritiesAreFresh`: after the call that ends an interval every priority is one of that call.
* `GainAlwaysCountsOnce`: the recorded gain never exceeds the prompt and the weighted tokens of a
  request, each counted once, although a recomputation forgets what was credited and credits
  all of it again; and it is exactly that for a finished request that met its constraints.
  A gain is a sum of products with powers of ratios, so the lemmas follow the arithmetic of
  `Fractions`, from above and for equality: no ratio that is clamped (`ClampUpTo`), no power
  of one (`PowerUpTo`) and no reduction to lowest terms (`LowestUpTo`) exceeds what it is a
  share of, sums and products keep bounds (`PlusUpTo`, `TimesUpTo`), and a ratio that is met
  counts in full (`ClampExactly`, `PowerExactly`).  `CreditInv` adds what the next update depends on:
  the prompt is counted as a whole or not at all, and a queued request has no time to the
  last token, without which one of another type than latency is credited nothing.  The one assumption
  on `Least` is that it is positive and at most one, as the code's `1e-6` is.
* `PeersAlwaysAgree` has the hypothesis `PureCollections`: the members of a collection
  are all of the collective type.  The benchmarks give each workload item a
  collection id of its own (`jitserve/benchmark/benchmark_scheduler.py:643-646`), so this is
  how ids are used; the policy would not notice if it were not so.

### Stage graphs

`GraphContextProofs` has two invariants.  `GraphInv` holds always: the types and, for each
structure and each finished graph, how its stages relate to the shape of its collection.
`FinishedGraphsAreComplete` follows, and with it `RatioIsAlwaysFraction`, for every mode and
without a further hypothesis: in static mode the request that finds all stages of a tree of
thought but the last complete looks past the end of the pattern
(`jitserve/request_analyzer/graph_context.py:172-176`) and fails with an `IndexError`; the
property names this failure, and `LastStageLeft`, which later completions keep, says that
it happens nowhere else.

`CalmInv` holds while no client times out and no handler fails so (`Calm`), where the entries
of a structure can be counted against the client: `ServerIsInStep`, `GraphsAreOfOneRound` and
`RoundsAreLearnedOnce`, the last by counting graphs and rounds.  The code's reset of a
structure is what links one round to the next.

### Similarity and clusters

`ClusteringProofs` is about both, since what a cluster is depends on how close graphs are.

**Similarity.**  `PermutedType` and `GreedyType`: the similarity of any two stages of one
length is a number, the first the greatest over the orders of a finite set.
* `CompletionOrderIsIrrelevant`.  `MatchingsCarryOver`: when every matching of one pair of
  stages is one of another, node for node, the best of the first is no better than the
  best of the second, since a sum does not change with the order of its summands
  (`SumReindexed`).  That the nodes of a stage may be taken in any order, and that either
  stage may be the query, are instances, in both directions.  Padding adds the same empty
  nodes in either order (`PaddedIgnoresOrder`).  The hypothesis is that no stage exceeds
  `MaxPermuted`: the greedy matching of larger ones does depend on the order.
* `GreedyFindsAMatching`.  What the loop has found after `k` rounds is part of a matching of
  all nodes (`Follows`), because a node that takes a target may be swapped with the one
  that had it in that matching (`RoundFollows`); hence the bound.  If the stages are the same but for
  their order, the matching can be one of equal nodes throughout (`RoundFinds`): the
  target of the node itself is left, none is more similar (`RunNodeSimilarity`), and
  the node swapped with is another equal one.
* `TracesAreLearned`.  The completions of a stage fill the structure one by one and end the stage
  with the last of them, not before (`StageCompletes`), by induction over what the
  fold has come to (`StageFeeds`); so the structure of the collection ends with the two stages of the
  trace (`CollectionCompletes`).  By output length it weighs a stage by its largest output.  A
  trace that is read with a node for each request does the same; one with a node for each stage, which is
  the reader's default, weighs by the sum of the outputs, which is the largest where no
  stage has two requests with an output (`LargestIsTotal`).  The property says both; for
  other stages the two modes differ (section 5).

**Clusters.**  `ClustersAreInRange` is `TypeOK` for all thresholds and all graphs.  It is not
inductive: what an update installs was computed some awaits ago, when `finished` was
shorter, so `ClusteringInv` also says what a running update carries (`UpdateInv`): samples,
medoids, assignments and the index it has come to, each in the range of the list as it was then,
of which the list now is an extension (`FinishedGrows`); and that what is installed is
indexed by the clusters that there are (`InstalledInv`).  Every minimum and every best match must
exist (`BestExists`, `ClosestType`, `CentralType`), for which similarities have to be
numbers.  `MatchesAreBest` follows from the same invariant and says what the answer of
`find_best_match` is worth: no graph of the cluster is closer, and no medoid
closer than that of the cluster.

What the clusters hold is `MembershipInv`: the walk over the graphs puts each with the first of its closest
medoids and meets every medoid on its way (`WalkInv`), so that what is installed keeps the
medoids in their clusters and every graph in the closest (`HoldsMedoids`,
`HoldsClosest`), and so does each graph that is appended later (`LeadersKept`: it changes no distance to a
medoid).  A time-out deals the graphs in turn, which leaves no cluster empty.  The
properties are conditional, because the code promises less in general:
* `Converging`, under which `SettledClustersAreClosest` and the two below are stated, says that
  the loop of a clustering ends since its medoids have not changed.  One that is cut off
  at `max_iterations` installs new medoids with assignments to the old ones.  It is
  a condition on steps, `[][Converging]_vars`, beside the specification; every step of the `Clustering` run
  satisfies it.
* `ToldApart` and `Staged`, for `EveryQueryFindsAMatch` and `SearchFindsTheClosest`: no other graph is
  as close to a graph as the graph itself, and no stage is empty.  Then the first of the medoids that are closest to a
  query is in its own cluster (`ClosestHoldsMedoid`): that cluster is not empty, and the best match
  in it (`MatchInCluster`) is as close to the query as any medoid.
  In general a stage is as close to one that has all its requests and
  more, since what is matched with its padding only adds (section 5), and a request without an
  output is as close to any other with its input.  `PatternedGraphsAreToldApart` says when it does hold:
  for collections that have run and whose stages have the sizes of one pattern, as those of a tree of thought do.
  There the best matching of two stages reaches that of a stage with itself only by matching
  each request with an equal one, and the sum over the stages only if each stage
  does (`SumsTie`).  The graphs of the `Clustering` run are of this kind.

### Length prediction

`PredictionProofs`: `LengthsAreOwn`, `ShortPromptsArePredicted` and
`PredictionTypeCorrect` follow from `PredictionInv`.  `LengthIsOwn` is not inductive, since a
reply that is on its way must be an answer to the same request (`RepliesInv`), and a thread
writes only once (`LengthsInv`).  `ShortIsPredicted` needs that a server which cannot
fail has closed no connection of a prompt of one segment (`WorkingInv`).  There is one lemma per
part, with one case per action.

### How sums, folds and choices are proved about

The library's induction theorems take an operator as a parameter, which the provers cannot
instantiate.  First-order instances can be had: `SubsetInduction` says that a set of
subsets of a finite set `S` which holds `{}` and is closed under adding an element is
`SUBSET S`, from well-foundedness of strict inclusion.  `SumExists` (`FiniteSums`) gives from it, for any
finite set, that the recursion that defines `MapThenSumSet` has a solution; that a sum changes
in one summand, splits and is bounded follows.  The folds over lists are treated in the same
way (`FoldExists`), along the prefixes of a list, so that `FoldLeft` with `+` is a sum
(`FoldLeftIsSum`) and the greedy matching a sequence of rounds (`GreedyFolds`).  The extremes of the lengths of
a bin (`ExtremesExist`) come from a minimal counterexample under strict inclusion.

### Only model-checked

* Liveness under fairness: `EveryRequestAnswered`, `ThreadsEnd`, `EventuallyClustered`.

Of the hypotheses above, `PureCollections`, `Converging`, `ToldApart` and `Staged` are conditions
on the configuration, the load or the course of a clustering.  Without them the properties do not
hold in general, and the runs satisfy each of them where they check its property.

## 5. Where code and comments disagree

Shown by a run:

* **A running group can be forgotten** (`LostRunning`).  When the token budget is
  spent before the process list ends, a running group with tokens left to compute
  gets `num_new_tokens = 0`.  `_schedule_process_list`
  (`jitserve/scheduler/slo_scheduler.py:633-694`) then neither schedules nor
  preempts it and puts it in no list; the rebuilt `running` lacks it.  It is in no
  queue, cannot be aborted and keeps its blocks.
  `vllm/core/scheduler.py:193` says that `leftover_running` holds what "cannot be
  scheduled because of the budget".
* **A stopped group is never answered** (`AsyncStop`).  `_schedule_running` marks a
  group at `max_model_len` as aborted before its last output is processed; the
  output is then skipped.  The comment at `vllm/core/scheduler.py:421-424` says
  that such a group is kept "for processing and deallocation".
* **Graphs in no cluster** (`LostGraph`).  The task of a finished graph returns at once when an
  update is in progress (`similarity.py:760`).  That update may have walked over the list
  already; the clusters it installs then lack the graph, and nobody adds it before the
  next threshold.  `similarity.py:810`: "Just add the new request to the closest cluster".

Met while modelling, against a comment or a description in the source; the models
behave this way and the properties are stated with it in mind:

* Preemption with an output pending: the SLO path preempts at `slo_scheduler.py:547`
  and `:687` without the callback that `vllm/core/scheduler.py:635` demands.
  `AsyncOutput` shows what still holds in spite of it.
* Two rounds in one graph: `init_collection` resets a structure only when it is finished
  (`graph_context.py:60`, `:74`), so a collection sent again after a time-out continues
  the old one.  `similarity.py:238`: "Reset the structure for a new collective request."
  Hence `InStep`, `GraphIsOneRound` and `LearnedOnce` are about clients that do not time out.
* An index out of range: in static mode the request of the last stage of a tree of
  thought indexes the pattern past its end (`graph_context.py:172-176`), where
  `_default_ratio` clamps the index, and its handler fails.  `Rounds` has this
  setup, and `RatioIsFraction` names the failure and when it happens.
* A first stage without time: the online share of the first stage is the empty sum, so
  its deadline is its arrival, against `request_info.py:49`.
* With all nodes the unfinished DeepResearch graph is two stages ahead of what is
  completed (`similarity.py:365-377`).
* With super-nodes, its default, the trace reader weighs a stage by the sum of its outputs
  where its comment says "max output length" (`deepresearch_trace_reader.py:76-83`).
  `TraceIsLearned` claims nothing of a stage where the two differ.
* Early stages match anything: `graph_distance` is 0 for graphs of different length
  (`similarity.py:603`), and an unfinished graph is shorter than a finished one before its last
  stage.  There `ClosestIsFound` holds because all graphs are equally close; at the
  last stage the lengths agree and it says that the closest is found.
* `last_schedule_time` is kept while a request is swapped out, where `request_info.py:136` wants
  it None, so the next time between tokens includes the time swapped out.
  `TimesAddUp` leaves these requests out.
* SJF does not subtract what was generated (`policy.py:150`, `:167`), and LAS counts the
  service of the request itself twice (`policy.py:211`, `:216`).
* One `recv(4096)` is taken for the whole prompt (`prediction.py:35`): longer ones are
  not predicted.  `ShortIsPredicted` is about the others.

Met while modelling and promised nowhere: an update that begins late takes the newest graph
for its own (`similarity.py:813`), which may be another task's; a recomputation credits prompt
and tokens a second time, though into a gain that has forgotten the first; a sliding window that is
always slow can drive `max_num_seqs` below 1 and admit nothing
(`slo_scheduler.py:589`); with a schedule interval of 1 and `dull_pending_limit` or
more requests waiting nobody is answered; `dull_iteration` is not reset when a
group runs again, so idle calls far apart add up; with asynchronous outputs the dull
abort may give up a group that had already ended and is still in a queue; aborted
groups stay in the policy's dictionary; the length that a collective request's
remaining time uses is the one of the moment its group was made; a request that
outgrows its prediction has a remaining length below zero, and its priority jumps; a
finished tree-of-thought structure that gets one more completion is learned again; a
graph whose requests have hardly a token is closer to larger graphs than to itself,
since padding and such a request are alike; structures and finished graphs are kept
for ever.

## 6. Not modelled

* Prefix caching, block identities and reference counts: one sequence per group and no
  sharing make the counts enough for the scheduler's properties.
* The model executor, its failures and the iteration time-out: they end the engine.
* Parsing, streaming and the command line of the server; the drawing of loads and the
  plots of the benchmarks: input and output.
* `predict_stage_ratio`, `match_graph` with `compute_similarity`, and `async_predict`,
  which nothing calls,
  `_compute_collection_demand`, which is called for no collection, and the base graphs
  of traces (`server.py:50`), which no query is matched with.
* Floating point: gains and shares are exact here.

## 7. Plan

The modules of the first plan are there, but for block identities, which would refine
`BlockManager` by free lists and tables of ids; the safety properties of the scheduler, its
two refinements, the policies, the graph context, the similarity, the clusters and
the prediction service are proved.  What remains:

1. A bound on the iterations after which the medoids of a clustering have settled, if there is
   one, in place of the hypothesis `Converging`.
2. `GraphContext` with `DynamicClustering` in place of an arbitrary answer, and its ratios
   from what the clusters hold.
