---------------------------- MODULE SLOScheduler ----------------------------
(***************************************************************************)
(* The JITServe scheduler (jitserve/scheduler/slo_scheduler.py on top of   *)
(* vllm/core/scheduler.py) driven by the engine's step loop                *)
(* (vllm/engine/llm_engine.py, async_llm_engine.py).                       *)
(*                                                                         *)
(* One engine step is one call of schedule() followed by the model run and *)
(* the processing of its outputs.  The call is broken up at its loops: pc  *)
(* says which loop runs, and one action is one iteration of a loop or the  *)
(* straight-line code between two of them.  Clients add and abort requests *)
(* only between two steps (pc = "idle"), as AsyncLLMEngine.engine_step     *)
(* does; a step that was due is taken even if an abort emptied the queues. *)
(*                                                                         *)
(* Data that is abstracted.  Times, gains and priorities are real numbers  *)
(* that only order the groups, so every order is possible: a deque is the  *)
(* set of its members and a loop over it takes them in any order, except   *)
(* where the code builds the order itself (decodes before prefills, the    *)
(* activated groups before the running ones).  A token is counted, not     *)
(* named.  LoRA, encoders, multi-step and prefix caching are off.          *)
(***************************************************************************)
EXTENDS BlockManager, FiniteSets, FiniteSetsExt

CONSTANTS
    PromptLen,            \* PromptLen[g]: get_prompt_len() of the one sequence of g
    OutputLen,            \* OutputLen[g]: real_output_len, where the stop checker stops g
    MaxModelLen,          \* max_model_len
    MaxBatchedTokens,     \* max_num_batched_tokens
    MaxNumSeqs,           \* max_num_seqs as configured (max_batch_size)
    MaxSwapsPerIter,      \* max_swaps_per_iter
    TopK,                 \* top_k_selection
    ScheduleInterval,     \* policy.schedule_interval
    DullMaxIters,         \* dull_max_iters
    DullPendingLimit,     \* dull_pending_limit
    SlidingWindow,        \* search_strategy = "sliding_window"; else "length_bin"
    AsyncOutput,          \* use_async_output_proc
    None                  \* no group

ASSUME SchedulerAssumption ==
    /\ IsFiniteSet(Groups) /\ None \notin Groups
    /\ PromptLen \in [Groups -> Nat \ {0}]
    /\ OutputLen \in [Groups -> Nat \ {0}]
    /\ MaxModelLen \in Nat \ {0, 1}
    /\ \A g \in Groups : PromptLen[g] <= MaxModelLen   \* _validate_model_input
    /\ MaxBatchedTokens \in Nat \ {0}
    /\ MaxNumSeqs \in Nat \ {0}
    /\ MaxSwapsPerIter \in Nat
    /\ TopK \in Nat \ {0}
    /\ ScheduleInterval \in Nat \ {0}
    /\ DullMaxIters \in Nat \ {0}
    /\ DullPendingLimit \in Nat
    /\ SlidingWindow \in BOOLEAN
    /\ AsyncOutput \in BOOLEAN

VARIABLES
    \* the sequence of each group
    status,      \* SequenceStatus; "new" before the request arrives
    stage,       \* SequenceStage
    computed,    \* get_num_computed_tokens()
    outLen,      \* get_output_len()
    \* the queues of the scheduler
    waiting, running, swapped,
    asyncStopped,     \* _async_stopped
    inProgress,       \* has_requests_in_progress of run_engine_loop
    \* what the scheduler keeps between two calls
    scheduleCount,    \* policy.num_schedule_count modulo the interval
    prevNoSwapSpace,  \* prev_no_swap_space
    dullIteration,    \* dull_iteration
    maxNumSeqs,       \* scheduler_config.max_num_seqs
    currentBin,       \* _current_bin_queue
    pendingSwapOut,   \* _pending_swap_out_queue
    bounds,           \* _current_bounds and _current_is_last
    execOrder,        \* whether _exec_order is non-empty
    \* the call in progress
    pc,
    it,               \* its budget and result lists, see Iteration
    \* model outputs
    outputQueue,      \* sampled groups in ctx.output_queue
    ignoredQueue,     \* ignored_seq_groups in ctx.output_queue
    reported          \* groups whose last RequestOutput has been delivered

seqVars == <<status, stage, computed, outLen>>
queueVars == <<waiting, running, swapped, asyncStopped>>
binVars == <<currentBin, pendingSwapOut, bounds, execOrder>>
ctlVars == <<inProgress, scheduleCount, prevNoSwapSpace, dullIteration,
             maxNumSeqs>>
outVars == <<outputQueue, ignoredQueue, reported>>
vars == <<seqVars, memVars, queueVars, binVars, ctlVars, outVars, pc, it>>

-----------------------------------------------------------------------------
(* Sequences.                                                              *)

Finished == {"stopped", "capped", "aborted", "ignored"}
Statuses == {"new", "waiting", "running", "swapped"} \cup Finished

IsFinished(g) == status[g] \in Finished
IsPrefill(g) == stage[g] = "prefill"
SeqLen(g) == PromptLen[g] + outLen[g]
NumUncomputed(g) == IF IsFinished(g) THEN 0 ELSE SeqLen(g) - computed[g]

\* Mutant: finished groups are not taken out of the queue.
WithFinished(S) == S

Unfinished(S) == {g \in S : ~IsFinished(g)}

\* min and max of two operands.
Min2(a, b) == IF a <= b THEN a ELSE b
Max2(a, b) == IF a >= b THEN a ELSE b

-----------------------------------------------------------------------------
(* The state of one call of schedule(): the budget and the lists it fills. *)

Iteration ==
    [slo : BOOLEAN,             \* _schedule_slo, else _schedule_chunked_prefill
     todo : SUBSET Groups,      \* what the loop of pc has still to look at
     cand : Groups \cup {None}, \* group that _schedule_running makes room for
     selected : SUBSET Groups,  \* {waiting,swapped,running}_scheduled
     chunk : [Groups -> Int],   \* num_new_tokens, then token_chunk_size
     scheduled : SUBSET Groups, \* scheduled_seq_groups
     leftover : SUBSET Groups,  \* leftover_running
     preempted : SUBSET Groups, \* preempted
     swappedOut : SUBSET Groups,\* swapped_out
     ignored : SUBSET Groups,   \* ignored_seq_groups, infeasible ones included
     tokens : Int,              \* budget.num_batched_tokens
     seqs : Int,                \* budget.num_curr_seqs
     seqCap : Int,              \* budget.max_num_seqs
     quota : Int,               \* num_gpu_blocks_number
     stop : BOOLEAN,            \* stop_allocate
     finished : BOOLEAN,        \* finished_now is not empty
     swaps : Int]               \* swapped_this_iter

NoIteration ==
    [slo |-> FALSE, todo |-> {}, cand |-> None, selected |-> {},
     chunk |-> [g \in Groups |-> 0], scheduled |-> {}, leftover |-> {},
     preempted |-> {}, swappedOut |-> {}, ignored |-> {}, tokens |-> 0,
     seqs |-> 0, seqCap |-> 0, quota |-> 0, stop |-> FALSE,
     finished |-> FALSE, swaps |-> 0]

\* Mutant: the tokens that are taken are not counted.
AllTokens == MaxBatchedTokens

RemainingTokens == MaxBatchedTokens - it.tokens

CanSchedule(n) ==
    /\ it.tokens + n <= MaxBatchedTokens
    /\ it.seqs + 1 <= it.seqCap

\* _get_num_new_tokens with chunking: a group whose sequence is not in the
\* status of its queue counts for nothing.
NumNewTokens(g, st) ==
    IF status[g] # st THEN 0
    ELSE Min2(IF IsPrefill(g) THEN NumUncomputed(g) ELSE 1, RemainingTokens)

Init ==
    /\ status = [g \in Groups |-> "new"]
    /\ stage = [g \in Groups |-> "prefill"]
    /\ computed = [g \in Groups |-> 0]
    /\ outLen = [g \in Groups |-> 0]
    /\ MemInit
    /\ waiting = {} /\ running = {} /\ swapped = {} /\ asyncStopped = {}
    /\ inProgress = FALSE
    /\ scheduleCount = 0 /\ prevNoSwapSpace = FALSE /\ dullIteration = 0
    /\ maxNumSeqs = MaxNumSeqs
    /\ currentBin = {} /\ pendingSwapOut = {} /\ execOrder = FALSE
    /\ bounds = [lo |-> 0, hi |-> 0, last |-> FALSE]
    /\ pc = "idle" /\ it = NoIteration
    /\ outputQueue = {} /\ ignoredQueue = {} /\ reported = {}

-----------------------------------------------------------------------------
(* The clients, between two steps of the engine.                           *)

Queued == waiting \cup running \cup swapped

AddSeqGroup(g) ==
    /\ pc = "idle"
    /\ status[g] = "new"
    /\ status' = [status EXCEPT ![g] = "waiting"]
    /\ waiting' = waiting \cup {g}
    /\ inProgress' = TRUE
    /\ UNCHANGED <<stage, computed, outLen, memVars, running, swapped,
                   asyncStopped, binVars, scheduleCount, prevNoSwapSpace,
                   dullIteration, maxNumSeqs, outVars, pc, it>>

\* The queues are searched for the request; one that is in none is left as
\* it is.  The client's stream ends in any case.
AbortSeqGroup(g) ==
    /\ pc = "idle"
    /\ status[g] # "new" /\ g \notin reported
    /\ reported' = reported \cup {g}
    /\ waiting' = waiting \ {g}
    /\ running' = running \ {g}
    /\ swapped' = swapped \ {g}
    /\ IF g \in Queued /\ ~IsFinished(g)
       THEN /\ status' = [status EXCEPT ![g] = "aborted"]
            /\ Free(g)
       ELSE UNCHANGED <<status, memVars>>
    /\ UNCHANGED <<stage, computed, outLen, asyncStopped, binVars, ctlVars,
                   outputQueue, ignoredQueue, pc, it>>

-----------------------------------------------------------------------------
(* _schedule: every ScheduleInterval-th call is a call of _schedule_slo, if *)
(* the CPU has space to swap to; then both paths free what has finished.    *)

\* _test_enough_swap_space, with its hysteresis.
EnoughSwapSpace == IF prevNoSwapSpace THEN CpuSpaceHigh ELSE ~CpuSpaceLow

BeginSchedule ==
    /\ pc = "idle" /\ inProgress
    /\ scheduleCount' = (scheduleCount + 1) % ScheduleInterval
    /\ LET due == scheduleCount' = 0
           slo == due /\ EnoughSwapSpace
       IN /\ prevNoSwapSpace' = IF due THEN ~EnoughSwapSpace ELSE prevNoSwapSpace
          /\ it' = [NoIteration EXCEPT
                      !.slo = slo,
                      !.seqCap = IF slo THEN Max2(Cardinality(running), maxNumSeqs)
                                        ELSE maxNumSeqs]
    /\ running' = Unfinished(running)
    /\ pc' = "free"
    /\ UNCHANGED <<seqVars, memVars, waiting, swapped, asyncStopped, binVars,
                   inProgress, dullIteration, maxNumSeqs, outVars>>

\* Mutant: the stop list is cleared, its sequences are not freed.
ForgetStopped(g) ==
    /\ pc = "free" /\ g \in asyncStopped
    /\ asyncStopped' = asyncStopped \ {g}
    /\ UNCHANGED <<seqVars, memVars, waiting, running, swapped, binVars, ctlVars,
                   outVars, pc, it>>

\* The second half of free_finished_seq_groups, which the processing of the
\* outputs runs too when a group has finished.
FreeStopped(g) ==
    /\ \/ pc = "free"
       \/ pc \in {"lateOutputs", "outputs"} /\ outputQueue = {} /\ it.finished
    /\ g \in asyncStopped
    /\ asyncStopped' = asyncStopped \ {g}
    /\ Free(g)
    /\ UNCHANGED <<seqVars, waiting, running, swapped, binVars, ctlVars, outVars,
                   pc, it>>

-----------------------------------------------------------------------------
(* Preemption.                                                             *)

\* Mutant: the recomputed group keeps its count of computed tokens.
PreemptAndResume(g) ==
    IF CanSwapOut(g, SeqLen(g))
    THEN /\ SwapOut(g)
         /\ status' = [status EXCEPT ![g] = "swapped"]
         /\ UNCHANGED <<stage, computed>>
    ELSE /\ Free(g)
         /\ status' = [status EXCEPT ![g] = "waiting"]
         /\ stage' = [stage EXCEPT ![g] = "prefill"]
         /\ UNCHANGED computed

\* Mutant: the recomputed group keeps its blocks.
PreemptInPlace(g) ==
    IF CanSwapOut(g, SeqLen(g))
    THEN /\ SwapOut(g)
         /\ status' = [status EXCEPT ![g] = "swapped"]
         /\ UNCHANGED <<stage, computed>>
    ELSE /\ status' = [status EXCEPT ![g] = "waiting"]
         /\ computed' = [computed EXCEPT ![g] = 0]
         /\ stage' = [stage EXCEPT ![g] = "prefill"]
         /\ UNCHANGED memVars

\* _preempt in mode SWAP.  When the CPU lacks the space, the exception is
\* caught and the group is preempted by recomputation.
Preempt(g) ==
    IF CanSwapOut(g, SeqLen(g))
    THEN /\ SwapOut(g)
         /\ status' = [status EXCEPT ![g] = "swapped"]
         /\ UNCHANGED <<stage, computed>>
    ELSE /\ Free(g)
         /\ status' = [status EXCEPT ![g] = "waiting"]
         /\ computed' = [computed EXCEPT ![g] = 0]
         /\ stage' = [stage EXCEPT ![g] = "prefill"]

\* The list that the caller appends the group to.
WithPreempted(r, g) ==
    IF CanSwapOut(g, SeqLen(g))
    THEN [r EXCEPT !.swappedOut = @ \cup {g}]
    ELSE [r EXCEPT !.preempted = @ \cup {g}]

-----------------------------------------------------------------------------
(* The choice of the bin.                                                  *)

Lengths(S) == {SeqLen(g) : g \in S}

InBounds(n, b) == b.lo <= n /\ (n < b.hi \/ b.last)

\* The groups at the places first..last of S sorted by length.
Slices(S, first, last) ==
    {W \in kSubset(last - first + 1, S) :
       \E P \in kSubset(first - 1, S \ W) :
         /\ \A p \in P, w \in W : SeqLen(p) <= SeqLen(w)
         /\ \A w \in W, r \in S \ (W \cup P) : SeqLen(w) <= SeqLen(r)}

\* The end of _switch_to_bin: the running groups out of the bounds of the
\* window wait to be swapped out, the others join it; then
\* _inject_current_bin adds the waiting and swapped ones.
SwitchTo(window, isLast) ==
    LET b == [lo |-> Min(Lengths(window)), hi |-> Max(Lengths(window)) + 1,
              last |-> isLast]
        In(S) == {g \in S : InBounds(SeqLen(g), b)}
    IN /\ bounds' = b
       /\ pendingSwapOut' = running \ In(running)
       /\ currentBin' = window \cup In(Queued)

\* _recompute_bins with _switch_to_bin(0): the groups of least gain, cut into
\* bins of equal size by length; the bin to execute, which the last one
\* extends to its left when it is too small.
RecomputeBins ==
    \E top \in kSubset(Min2(Cardinality(Queued), maxNumSeqs * TopK), Queued) :
      LET n == Cardinality(top)
          size == Max2(maxNumSeqs, n \div TopK)
      IN \E i \in 1..((n + size - 1) \div size) :
           LET first == (i - 1) * size + 1
               last == Min2(i * size, n)
               left == IF i > 1 /\ last - first + 1 < maxNumSeqs
                       THEN first - size ELSE first
           IN /\ \E window \in Slices(top, left, last) :
                   SwitchTo(window, Max(Lengths(window)) = Max(Lengths(top)))
              /\ execOrder' = TRUE

\* _recompute_bins_sliding_window; the window is the last by decree.
RecomputeSlidingWindow ==
    \E top \in kSubset(Min2(Cardinality(Queued), MaxNumSeqs * TopK), Queued) :
      LET n == Cardinality(top)
      IN /\ IF n >= MaxNumSeqs
            THEN \E i \in 1..(n - MaxNumSeqs + 1) :
                   \E window \in Slices(top, i, i + MaxNumSeqs - 1) :
                     SwitchTo(window, TRUE)
            ELSE SwitchTo(top, TRUE)
         /\ UNCHANGED execOrder

\* The bins as they were, with what has come into the bounds since.
KeepBins ==
    /\ currentBin' = currentBin \cup
         {g \in waiting \cup swapped : InBounds(SeqLen(g), bounds)}
    /\ UNCHANGED <<pendingSwapOut, bounds, execOrder>>

ClearBins ==
    /\ currentBin' = {}
    /\ pendingSwapOut' = {}
    /\ execOrder' = FALSE
    /\ UNCHANGED bounds

\* _schedule_preemption up to _preempt_pending.  Without anything to execute
\* the call of length_bin is over.
ChooseBin ==
    /\ pc = "free" /\ asyncStopped = {} /\ it.slo
    /\ IF SlidingWindow \/ pendingSwapOut = {}
       THEN IF Queued = {} THEN ClearBins
            ELSE IF SlidingWindow THEN RecomputeSlidingWindow ELSE RecomputeBins
       ELSE KeepBins
    /\ pc' = IF execOrder' \/ SlidingWindow THEN "preempt" ELSE "commit"
    /\ UNCHANGED <<seqVars, memVars, queueVars, ctlVars, outVars, it>>

-----------------------------------------------------------------------------
(* The rest of _schedule_slo.                                              *)

\* _preempt_pending, one group.  The sliding window only counts it.
PreemptPending(g) ==
    /\ pc = "preempt" /\ it.swaps < MaxSwapsPerIter
    /\ g \in pendingSwapOut
    /\ pendingSwapOut' = pendingSwapOut \ {g}
    /\ IF g \notin running \/ IsFinished(g)
       THEN UNCHANGED <<status, stage, computed, memVars, it>>
       ELSE LET counted == [it EXCEPT !.swaps = @ + 1]
            IN IF SlidingWindow
               THEN /\ it' = counted
                    /\ UNCHANGED <<status, stage, computed, memVars>>
               ELSE /\ it' = WithPreempted(counted, g)
                    /\ Preempt(g)
    /\ UNCHANGED <<outLen, queueVars, currentBin, bounds, execOrder, ctlVars,
                   outVars, pc>>

\* _build_process_list and _adjust_batch_limits.  As many groups of the bin
\* are activated as were swapped out; the others popped on the way are lost
\* to the bin.
BuildProcessList ==
    /\ pc = "preempt"
    /\ it.swaps = MaxSwapsPerIter \/ pendingSwapOut = {}
    /\ LET ready == {g \in currentBin : status[g] \in {"waiting", "swapped"}}
       IN \E activate \in kSubset(Min2(it.swaps, Cardinality(ready)), ready),
             passed \in SUBSET (currentBin \ ready),
             slow \in BOOLEAN :
            LET todo == activate \cup (running \ (it.swappedOut \cup it.preempted))
                cap == Max2(MaxNumSeqs, Cardinality(todo))
            IN /\ Cardinality(ready) < it.swaps => passed = currentBin \ ready
               /\ it.swaps = 0 => passed = {}
               /\ currentBin' = currentBin \ (activate \cup passed)
               /\ IF SlidingWindow
                  THEN /\ maxNumSeqs' = IF slow THEN cap - MaxSwapsPerIter ELSE cap
                       /\ it' = [it EXCEPT !.todo = todo, !.seqCap = cap,
                                           !.quota = NumGpuBlocks - Watermark]
                  ELSE /\ ~slow
                       /\ it' = [it EXCEPT !.todo = todo,
                                           !.quota = NumGpuBlocks - Watermark]
                       /\ UNCHANGED maxNumSeqs
    /\ pc' = "process"
    /\ UNCHANGED <<seqVars, memVars, queueVars, pendingSwapOut, bounds, execOrder,
                   inProgress, scheduleCount, prevNoSwapSpace, dullIteration,
                   outVars>>

\* The queue a group of the process list is found in.
QueueOf(g) ==
    CASE g \in waiting -> "waiting"
      [] g \in swapped /\ g \notin waiting -> "swapped"
      [] g \in running /\ g \notin waiting \cup swapped -> "running"
      [] OTHER -> "none"

\* get_num_blocks_number, for a group in the status of its queue.
NumBlocksNumber(g) ==
    IF QueueOf(g) = "waiting" THEN NumRequired(SeqLen(g))
                              ELSE NumTouchedBySwap(g, SeqLen(g))

\* The first loop of _schedule_process_list, one group.  The activated groups
\* come first.  A group with tokens is selected while nothing has stopped
\* the allocation, otherwise it is preempted if it runs; one without is
\* neither, and if it has uncomputed tokens it stops the allocation; one in no
\* queue is skipped.  (The prompt limit is not exceeded: a waiting group has at
\* most two tokens here.)
Process(g) ==
    /\ pc = "process" /\ g \in it.todo
    /\ status[g] = "running" => \A h \in it.todo : status[h] = "running"
    /\ LET queue == QueueOf(g)
           new == NumNewTokens(g, queue)
           n == IF IsPrefill(g) THEN Min2(new, 2) ELSE new
           rest == [it EXCEPT !.todo = @ \ {g}]
           fits == /\ ~it.stop
                   /\ n > 0
                   /\ CanSchedule(n)
                   /\ NumBlocksNumber(g) <= it.quota
       IN \/ /\ fits
             /\ it' = [rest EXCEPT !.selected = @ \cup {g}, !.chunk[g] = n,
                                   !.tokens = @ + n, !.seqs = @ + 1,
                                   !.quota = @ - NumBlocksNumber(g)]
             /\ UNCHANGED <<status, stage, computed, memVars>>
          \/ /\ ~fits /\ ~(queue = "running" /\ n > 0)
             /\ it' = [rest EXCEPT !.stop = \/ @
                                            \/ n > 0
                                            \/ queue # "none" /\ NumUncomputed(g) > 0]
             /\ UNCHANGED <<status, stage, computed, memVars>>
          \/ /\ queue = "running" /\ ~fits /\ n > 0
             /\ it' = WithPreempted([rest EXCEPT !.stop = TRUE], g)
             /\ Preempt(g)
    /\ UNCHANGED <<outLen, queueVars, binVars, ctlVars, outVars, pc>>

EndProcess ==
    /\ pc = "process" /\ it.todo = {}
    /\ pc' = "apply"
    /\ UNCHANGED <<seqVars, memVars, queueVars, binVars, ctlVars, outVars, it>>

\* The second loop: the selected swapped groups.  _schedule_slo_swapped takes
\* the number of lookahead slots, 0, for the tokens of a prefill.
SwapInSelected(g) ==
    /\ pc = "apply" /\ g \in it.selected \cap swapped
    /\ IF CanSwapIn(g, SeqLen(g)) = "OK"
       THEN /\ SwapInAndAppend(g, SeqLen(g))
            /\ swapped' = swapped \ {g}
            /\ status' = [status EXCEPT ![g] = "running"]
            /\ it' = [it EXCEPT !.selected = @ \ {g},
                                !.scheduled = @ \cup {g},
                                !.chunk[g] = IF IsPrefill(g) THEN 0 ELSE 1]
       ELSE /\ it' = [it EXCEPT !.selected = @ \ {g}]
            /\ UNCHANGED <<memVars, swapped, status>>
    /\ UNCHANGED <<stage, computed, outLen, waiting, running, asyncStopped,
                   binVars, ctlVars, outVars, pc>>

\* The third loop: the selected running groups.
RunSelected(g) ==
    /\ pc = "apply" /\ it.selected \cap swapped = {}
    /\ g \in it.selected \cap running
    /\ IF CanAppendSlots(g, SeqLen(g))
       THEN /\ AppendSlots(g, SeqLen(g))
            /\ it' = [it EXCEPT !.selected = @ \ {g},
                                !.scheduled = @ \cup {g},
                                !.chunk[g] = IF IsPrefill(g) THEN @ ELSE 1]
       ELSE /\ it' = [it EXCEPT !.selected = @ \ {g},
                                !.leftover = @ \cup {g}]
            /\ UNCHANGED memVars
    /\ UNCHANGED <<seqVars, queueVars, binVars, ctlVars, outVars, pc>>

\* The fourth loop: the selected waiting groups, whose chunk first takes what
\* is left of the token budget.  (What was within the quota is not too large
\* for the pool, so CanAllocate does not answer NEVER.)
PrefillSelected(g) ==
    /\ pc = "apply" /\ g \in it.selected \cap waiting
    /\ it.selected \cap (swapped \cup running) = {}
    /\ LET n == it.chunk[g]
           add == IF RemainingTokens > 0
                  THEN Min2(NumUncomputed(g) - n, RemainingTokens) ELSE 0
           rest == [it EXCEPT !.selected = @ \ {g}, !.tokens = @ + add]
       IN IF CanAllocate(SeqLen(g)) = "OK"
          THEN /\ Allocate(g, SeqLen(g))
               /\ status' = [status EXCEPT ![g] = "running"]
               /\ waiting' = waiting \ {g}
               /\ it' = [rest EXCEPT !.scheduled = @ \cup {g},
                                     !.chunk[g] = n + add]
          ELSE /\ it' = rest
               /\ UNCHANGED <<memVars, status, waiting>>
    /\ UNCHANGED <<stage, computed, outLen, running, swapped, asyncStopped,
                   binVars, ctlVars, outVars, pc>>

-----------------------------------------------------------------------------
(* _schedule_chunked_prefill.                                              *)

EnterChunked ==
    /\ pc = "free" /\ asyncStopped = {} /\ ~it.slo
    /\ pc' = "run"
    /\ it' = [it EXCEPT !.todo = running]
    /\ UNCHANGED <<seqVars, memVars, queueVars, binVars, ctlVars, outVars>>

\* _schedule_running: the next group of the queue, decodes first.
RunNext(g) ==
    /\ pc = "run" /\ it.cand = None
    /\ g \in it.todo
    /\ IsPrefill(g) => \A h \in it.todo : IsPrefill(h)
    /\ LET n == NumNewTokens(g, "running")
           rest == [it EXCEPT !.todo = @ \ {g}]
       IN \/ /\ n = 0
             /\ it' = [rest EXCEPT !.leftover = @ \cup {g}]
             /\ UNCHANGED <<status, asyncStopped>>
          \/ /\ n > 0 /\ AsyncOutput /\ SeqLen(g) > MaxModelLen
             /\ it' = rest
             /\ status' = [status EXCEPT ![g] = "aborted"]
             /\ asyncStopped' = asyncStopped \cup {g}
          \/ /\ n > 0 /\ ~(AsyncOutput /\ SeqLen(g) > MaxModelLen)
             /\ it' = [rest EXCEPT !.cand = g, !.chunk[g] = n]
             /\ UNCHANGED <<status, asyncStopped>>
    /\ UNCHANGED <<stage, computed, outLen, memVars, waiting, running, swapped,
                   binVars, ctlVars, outVars, pc>>

\* There is room for the candidate.
RunFits ==
    /\ pc = "run" /\ it.cand # None
    /\ CanAppendSlots(it.cand, SeqLen(it.cand))
    /\ AppendSlots(it.cand, SeqLen(it.cand))
    /\ it' = [it EXCEPT !.cand = None,
                        !.scheduled = @ \cup {it.cand},
                        !.tokens = @ + it.chunk[it.cand],
                        !.seqs = @ + 1]
    /\ UNCHANGED <<seqVars, queueVars, binVars, ctlVars, outVars, pc>>

\* The finish status that the stop checker gives, "running" for none.
StopStatus(g) ==
    CASE SeqLen(g) > MaxModelLen -> "capped"
      [] SeqLen(g) <= MaxModelLen /\ outLen[g] >= OutputLen[g] -> "stopped"
      [] OTHER -> status[g]

\* Mutant: the victim is not popped from the queue.
WithVictim(v) == [it EXCEPT !.cand = IF v = @ THEN None ELSE @]

\* The loop of _schedule_running without its victim.
WithoutVictim(v) ==
    [it EXCEPT !.todo = @ \ {v}, !.cand = IF v = @ THEN None ELSE @]

\* There is none: the last group of the queue is the victim, the candidate
\* itself if it is the only one left.  With asynchronous output processing
\* the pending output of the victim is processed first, and may finish it.
RunEvicts(v) ==
    /\ pc = "run" /\ it.cand # None
    /\ ~CanAppendSlots(it.cand, SeqLen(it.cand))
    /\ IF it.todo = {} THEN v = it.cand
       ELSE /\ v \in it.todo
            /\ IsPrefill(v) \/ \A h \in it.todo : ~IsPrefill(h)
    /\ IF AsyncOutput /\ v \in outputQueue /\ StopStatus(v) \in Finished
       THEN /\ status' = [status EXCEPT ![v] = StopStatus(v)]
            /\ Free(v)
            /\ reported' = reported \cup {v}
            /\ it' = WithoutVictim(v)
            /\ UNCHANGED <<stage, computed>>
       ELSE /\ Preempt(v)
            /\ it' = WithPreempted(WithoutVictim(v), v)
            /\ UNCHANGED reported
    /\ outputQueue' = outputQueue \ {v}
    /\ UNCHANGED <<outLen, queueVars, binVars, ctlVars, ignoredQueue, pc>>

\* Groups are swapped in only if none was preempted.
EndRun ==
    /\ pc = "run" /\ it.cand = None /\ it.todo = {}
    /\ pc' = "swapIn"
    /\ it' = [it EXCEPT !.todo = IF it.preempted \cup it.swappedOut = {}
                                 THEN swapped ELSE {}]
    /\ UNCHANGED <<seqVars, memVars, queueVars, binVars, ctlVars, outVars>>

\* can_swap_in; a group that is not in the status SWAPPED touches no block.
SwapInStatus(g) ==
    CASE status[g] = "swapped" -> CanSwapIn(g, SeqLen(g))
      [] status[g] # "swapped" /\ gpuFree >= Watermark -> "OK"
      [] OTHER -> "LATER"

\* _schedule_swapped, one group.
SwapInNext(g) ==
    /\ pc = "swapIn" /\ g \in it.todo
    /\ LET n == NumNewTokens(g, "swapped")
           rest == [it EXCEPT !.todo = @ \ {g}]
       IN \/ /\ SwapInStatus(g) = "LATER"
             /\ it' = [it EXCEPT !.todo = {}]
             /\ UNCHANGED <<status, swapped, memVars>>
          \/ /\ SwapInStatus(g) = "NEVER"
             /\ status' = [status EXCEPT ![g] = "aborted"]
             /\ Free(g)
             /\ swapped' = swapped \ {g}
             /\ it' = [rest EXCEPT !.ignored = @ \cup {g}]
          \/ /\ SwapInStatus(g) = "OK" /\ (n = 0 \/ ~CanSchedule(n))
             /\ it' = rest
             /\ UNCHANGED <<status, swapped, memVars>>
          \/ /\ SwapInStatus(g) = "OK" /\ n > 0 /\ CanSchedule(n)
             /\ SwapInAndAppend(g, SeqLen(g))
             /\ status' = [status EXCEPT ![g] = "running"]
             /\ swapped' = swapped \ {g}
             /\ it' = [rest EXCEPT !.scheduled = @ \cup {g}, !.chunk[g] = n,
                                   !.tokens = @ + n, !.seqs = @ + 1]
    /\ UNCHANGED <<stage, computed, outLen, waiting, running, asyncStopped,
                   binVars, ctlVars, outVars, pc>>

EndSwapIn ==
    /\ pc = "swapIn" /\ it.todo = {}
    /\ pc' = "prefill"
    /\ it' = [it EXCEPT !.todo = waiting]
    /\ UNCHANGED <<seqVars, memVars, queueVars, binVars, ctlVars, outVars>>

\* _schedule_prefills, one group.
PrefillNext(g) ==
    /\ pc = "prefill" /\ g \in it.todo
    /\ LET n == NumNewTokens(g, "waiting")
           never == n > MaxModelLen \/ CanAllocate(SeqLen(g)) = "NEVER"
           drop == [it EXCEPT !.todo = @ \ {g}, !.ignored = @ \cup {g}]
       IN \/ /\ status[g] # "waiting"
             /\ waiting' = waiting \ {g}
             /\ it' = drop
             /\ UNCHANGED <<status, memVars>>
          \/ /\ status[g] = "waiting" /\ never
             /\ status' = [status EXCEPT ![g] = "ignored"]
             /\ waiting' = waiting \ {g}
             /\ it' = drop
             /\ UNCHANGED memVars
          \/ /\ status[g] = "waiting" /\ ~never
             /\ CanAllocate(SeqLen(g)) = "LATER" \/ n = 0 \/ ~CanSchedule(n)
             /\ it' = [it EXCEPT !.todo = {}]
             /\ UNCHANGED <<status, waiting, memVars>>
          \/ /\ status[g] = "waiting" /\ ~never
             /\ CanAllocate(SeqLen(g)) = "OK" /\ n > 0 /\ CanSchedule(n)
             /\ Allocate(g, SeqLen(g))
             /\ status' = [status EXCEPT ![g] = "running"]
             /\ waiting' = waiting \ {g}
             /\ it' = [it EXCEPT !.todo = @ \ {g}, !.scheduled = @ \cup {g},
                                 !.chunk[g] = n, !.tokens = @ + n,
                                 !.seqs = @ + 1]
    /\ UNCHANGED <<stage, computed, outLen, running, swapped, asyncStopped,
                   binVars, ctlVars, outVars, pc>>

-----------------------------------------------------------------------------
(* The end of both paths, the model run and its outputs.                   *)

\* One of the two result lists is complete.
Decided ==
    \/ pc = "commit"
    \/ pc = "apply" /\ it.selected = {}
    \/ pc = "prefill" /\ it.todo = {}

\* Mutant: self.running is extended without having been cleared.
RunningExtended == running \cup it.scheduled \cup it.leftover

\* Mutant: leftover_running is dropped.
ScheduledOnly == it.scheduled

\* self.running after the call.
NewRunning == it.scheduled \cup it.leftover

\* Mutant: the abort comes one dull call too late.
DullAbortsLate == dullIteration >= DullMaxIters

\* Whether _stop_dull_scheduling aborts what is pending in a dull call.
DullAborts == dullIteration + 1 >= DullMaxIters

FewPending(n) == 0 < n /\ n < DullPendingLimit

\* The queues are rebuilt from the result lists, and _stop_dull_scheduling
\* counts the calls that leave nothing running and few pending.
Commit ==
    /\ Decided
    /\ running' = NewRunning
    /\ waiting' = waiting \cup it.preempted
    /\ LET dull == /\ running' = {}
                   /\ FewPending(Cardinality(waiting') + Cardinality(swapped))
           fires == dull /\ DullAborts
       IN /\ dullIteration' = IF fires THEN 0
                              ELSE IF dull THEN dullIteration + 1
                              ELSE dullIteration
          /\ it' = [it EXCEPT !.todo = IF fires THEN waiting' \cup swapped ELSE {}]
    /\ pc' = "dull"
    /\ UNCHANGED <<seqVars, memVars, swapped, asyncStopped, binVars, inProgress,
                   scheduleCount, prevNoSwapSpace, maxNumSeqs, outVars>>

\* Mutant: the aborted group is not among the ignored ones.
DullAbortSilently(g) ==
    /\ pc = "dull" /\ g \in it.todo
    /\ status' = [status EXCEPT ![g] = "aborted"]
    /\ Free(g)
    /\ waiting' = waiting \ {g}
    /\ swapped' = swapped \ {g}
    /\ it' = [it EXCEPT !.todo = @ \ {g}]
    /\ UNCHANGED <<stage, computed, outLen, running, asyncStopped, binVars,
                   ctlVars, outVars, pc>>

\* _abort_queue, one group.
DullAbort(g) ==
    /\ pc = "dull" /\ g \in it.todo
    /\ status' = [status EXCEPT ![g] = "aborted"]
    /\ Free(g)
    /\ waiting' = waiting \ {g}
    /\ swapped' = swapped \ {g}
    /\ it' = [it EXCEPT !.todo = @ \ {g}, !.ignored = @ \cup {g}]
    /\ UNCHANGED <<stage, computed, outLen, running, asyncStopped, binVars,
                   ctlVars, outVars, pc>>

\* The swapped-out groups come last.  The model runs, and while it does, the
\* outputs of the step before are processed if that is asynchronous.
EndSchedule ==
    /\ pc = "dull" /\ it.todo = {}
    /\ swapped' = swapped \cup it.swappedOut
    /\ it' = [it EXCEPT !.todo = it.scheduled]
    /\ pc' = IF AsyncOutput THEN "lateOutputs" ELSE "advance"
    /\ UNCHANGED <<seqVars, memVars, waiting, running, asyncStopped, binVars,
                   ctlVars, outVars>>

\* _advance_to_next_step, one group; without asynchronous processing the first
\* half of the loop of _process_model_outputs.  A group whose last token is
\* computed samples one.
Advance(g) ==
    /\ pc = "advance" /\ g \in it.todo
    /\ it' = [it EXCEPT !.todo = @ \ {g}]
    /\ LET samples == ~IsFinished(g) /\ computed[g] + it.chunk[g] = SeqLen(g)
       IN /\ computed' = IF IsFinished(g) THEN computed
                         ELSE [computed EXCEPT ![g] = @ + it.chunk[g]]
          /\ stage' = IF samples THEN [stage EXCEPT ![g] = "decode"] ELSE stage
          /\ outLen' = IF samples THEN [outLen EXCEPT ![g] = @ + 1] ELSE outLen
          /\ outputQueue' = IF samples THEN outputQueue \cup {g} ELSE outputQueue
    /\ UNCHANGED <<status, memVars, queueVars, binVars, ctlVars, ignoredQueue,
                   reported, pc>>

\* The outputs of this step are processed now, or with the next step if there
\* is one.
EndAdvance ==
    /\ pc = "advance" /\ it.todo = {}
    /\ ignoredQueue' = it.ignored
    /\ pc' = IF AsyncOutput /\ Queued # {} THEN "idle" ELSE "outputs"
    /\ it' = IF pc' = "idle" THEN NoIteration ELSE it
    /\ UNCHANGED <<seqVars, memVars, queueVars, binVars, ctlVars, outputQueue,
                   reported>>

\* _process_model_outputs, one group: one that has finished in the meantime is
\* passed over, one that finishes now is freed and its last output delivered.
ProcessOutput(g) ==
    /\ pc \in {"lateOutputs", "outputs"} /\ g \in outputQueue
    /\ outputQueue' = outputQueue \ {g}
    /\ IF ~IsFinished(g) /\ StopStatus(g) \in Finished
       THEN /\ status' = [status EXCEPT ![g] = StopStatus(g)]
            /\ Free(g)
            /\ reported' = reported \cup {g}
            /\ it' = [it EXCEPT !.finished = TRUE]
       ELSE UNCHANGED <<status, memVars, reported, it>>
    /\ UNCHANGED <<stage, computed, outLen, queueVars, binVars, ctlVars,
                   ignoredQueue, pc>>

\* The end of _process_model_outputs: finished groups leave the queue, the
\* ignored ones are delivered.  The engine loop goes on while there are
\* unfinished requests.
EndOutputs ==
    /\ pc \in {"lateOutputs", "outputs"} /\ outputQueue = {}
    /\ it.finished => asyncStopped = {}
    /\ running' = IF it.finished THEN Unfinished(running) ELSE running
    /\ reported' = reported \cup ignoredQueue
    /\ ignoredQueue' = {}
    /\ pc' = IF pc = "lateOutputs" THEN "advance" ELSE "idle"
    /\ it' = IF pc' = "idle" THEN NoIteration ELSE [it EXCEPT !.finished = FALSE]
    /\ inProgress' = \/ pc = "lateOutputs"
                     \/ waiting \cup running' \cup swapped # {}
    /\ UNCHANGED <<seqVars, memVars, waiting, swapped, asyncStopped, binVars,
                   scheduleCount, prevNoSwapSpace, dullIteration, maxNumSeqs,
                   outputQueue>>

-----------------------------------------------------------------------------

Clients == \E g \in Groups : AddSeqGroup(g) \/ AbortSeqGroup(g)

Engine ==
    \/ BeginSchedule \/ ChooseBin \/ BuildProcessList \/ EndProcess
    \/ EnterChunked \/ RunFits \/ EndRun \/ EndSwapIn
    \/ Commit \/ EndSchedule \/ EndAdvance \/ EndOutputs
    \/ \E g \in Groups :
         \/ FreeStopped(g) \/ PreemptPending(g) \/ Process(g)
         \/ SwapInSelected(g) \/ RunSelected(g) \/ PrefillSelected(g)
         \/ RunNext(g) \/ RunEvicts(g) \/ SwapInNext(g) \/ PrefillNext(g)
         \/ DullAbort(g) \/ Advance(g) \/ ProcessOutput(g)

\* run_engine_loop waits for new requests.
WaitForRequests ==
    /\ pc = "idle"
    /\ ~inProgress
    /\ UNCHANGED vars

Next == Clients \/ Engine \/ WaitForRequests

Spec == Init /\ [][Next]_vars

\* The engine loop runs as long as there is something to do.
FairSpec == Spec /\ WF_vars(Engine)
=============================================================================
