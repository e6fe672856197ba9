------------------------ MODULE SchedulerProperties ------------------------
(***************************************************************************)
(* What the JITServe scheduler promises: invariants, action properties and *)
(* liveness of SLOScheduler.                                               *)
(***************************************************************************)
EXTENDS SLOScheduler

SeqTypeOK ==
    /\ status \in [Groups -> Statuses]
    /\ stage \in [Groups -> {"prefill", "decode"}]
    /\ computed \in [Groups -> Int]
    /\ outLen \in [Groups -> Nat]

MemTypeOK ==
    /\ device \in [Groups -> Devices]
    /\ slots \in [Groups -> Nat]
    /\ gpuFree \in Int /\ cpuFree \in Int

QueueTypeOK ==
    /\ waiting \in SUBSET Groups /\ running \in SUBSET Groups
    /\ swapped \in SUBSET Groups /\ asyncStopped \in SUBSET Groups

BinTypeOK ==
    /\ currentBin \in SUBSET Groups /\ pendingSwapOut \in SUBSET Groups
    /\ bounds \in [lo : Int, hi : Int, last : BOOLEAN]
    /\ execOrder \in BOOLEAN

\* Only the sliding window changes max_num_seqs.
CtlTypeOK ==
    /\ inProgress \in BOOLEAN
    /\ scheduleCount \in 0..(ScheduleInterval - 1)
    /\ prevNoSwapSpace \in BOOLEAN
    /\ dullIteration \in 0..(DullMaxIters - 1)
    /\ maxNumSeqs \in IF SlidingWindow THEN Int ELSE {MaxNumSeqs}

OutTypeOK ==
    /\ outputQueue \in SUBSET Groups /\ ignoredQueue \in SUBSET Groups
    /\ reported \in SUBSET Groups

CallTypeOK ==
    /\ pc \in {"idle", "free", "preempt", "process", "apply", "run", "swapIn",
               "prefill", "commit", "dull", "lateOutputs", "advance", "outputs"}
    /\ it \in Iteration

\* The types of all variables: no test of the repository checks the ranges of
\* the scheduler's lists and counters, which the code leaves to duck typing.
TypeOK ==
    /\ SeqTypeOK /\ MemTypeOK /\ QueueTypeOK /\ BinTypeOK
    /\ CtlTypeOK /\ OutTypeOK /\ CallTypeOK

-----------------------------------------------------------------------------
(* The block pools.                                                        *)

\* No operation asks an empty pool for a block: the guards of can_allocate,
\* can_append_slots, can_swap_in and can_swap_out count enough of them
\* (NoFreeBlocksError is never raised).
PoolsSuffice == gpuFree >= 0 /\ cpuFree >= 0

Held(dev) == MapThenSumSet(NumHeld, {g \in Groups : device[g] = dev})

\* Every block is in the free list of its device or in the table of one
\* group: none leaks and none is freed twice, whatever path a group takes
\* through swaps, recomputation, aborts and late outputs.
BlocksConserved ==
    /\ gpuFree + Held("gpu") = NumGpuBlocks
    /\ cpuFree + Held("cpu") = NumCpuBlocks

\* The table of a group is where its status says, at every moment: on the GPU
\* if it runs (or was stopped and waits to be freed), on the CPU if it is
\* swapped out, and nowhere else.
TableFollowsStatus ==
    \A g \in Groups :
        device[g] = CASE status[g] = "running" \/ g \in asyncStopped -> "gpu"
                      [] status[g] = "swapped" -> "cpu"
                      [] OTHER -> "none"

\* The KV cache of a group covers what it says it has computed: a table has a
\* slot for every computed token and for no token that is not there, and a
\* group without a table that is to be scheduled starts from zero.
ComputedIsCached ==
    \A g \in Groups :
        /\ status[g] \in {"running", "swapped"} =>
             0 <= computed[g] /\ computed[g] <= slots[g] /\ slots[g] <= SeqLen(g)
        /\ status[g] = "waiting" => computed[g] = 0 /\ IsPrefill(g)

-----------------------------------------------------------------------------
(* The result of one call of schedule().                                   *)

\* What the model is about to run: every group of the batch that is not
\* finished is running, has its table on the GPU with a slot for every token,
\* and is given no more tokens than it lacks.
BatchIsRunnable ==
    pc = "advance" =>
        \A g \in it.todo : ~IsFinished(g) =>
            /\ g \in running /\ status[g] = "running"
            /\ device[g] = "gpu" /\ slots[g] = SeqLen(g)
            /\ computed[g] + it.chunk[g] <= SeqLen(g)

\* The batch respects the token budget that both paths assert, and the
\* counters the budget is kept in do not lag behind the batch, whichever loop
\* a group was admitted by.  The SLO path keeps to the batch size it set
\* itself, however many groups it activated on top of the running ones.
BatchWithinBudget ==
    Decided =>
        /\ MapThenSumSet(LAMBDA g : it.chunk[g], it.scheduled) <= it.tokens
        /\ it.tokens <= MaxBatchedTokens
        /\ Cardinality(it.scheduled) <= it.seqs
        /\ it.slo => it.seqs <= it.seqCap

\* A call decides one thing of a group: it is scheduled, left over, preempted,
\* swapped out or dropped, never two of these.  (Only the dull-scheduling abort
\* that follows may drop a group that was just preempted.)
OneDecision ==
    Decided => \A g \in Groups :
        Cardinality({r \in {"scheduled", "leftover", "preempted", "swappedOut",
                            "ignored"} : g \in it[r]}) <= 1

-----------------------------------------------------------------------------
(* The queues.                                                             *)

\* Between two steps every group that is not finished is in the queue of its
\* status, so that the scheduler will look at it again.
LiveIsQueued ==
    pc = "idle" =>
        \A g \in Groups :
            /\ status[g] = "waiting" => g \in waiting
            /\ status[g] = "running" => g \in running
            /\ status[g] = "swapped" => g \in swapped

\* Between two steps the queues hold the groups of their status, all of them
\* and no other.
QueueIsStatus ==
    pc = "idle" =>
        /\ waiting = {g \in Groups : status[g] = "waiting"}
        /\ running = {g \in Groups : status[g] = "running"}
        /\ swapped = {g \in Groups : status[g] = "swapped"}

\* Between two steps a finished group has been reported to its client, or is
\* about to be.
FinishedIsReported ==
    pc = "idle" =>
        \A g \in Groups : IsFinished(g) => g \in reported \cup ignoredQueue

\* A request that fits the GPU when it runs alone (its last token needs no slot)
\* is not given up by the scheduler: only a client, or the dull-scheduling
\* abort, ends it early.  This relates the limits of can_allocate, of
\* can_swap_in and of the prompt length, which are computed apart.
Feasible(g) ==
    /\ NumRequired(PromptLen[g] + OutputLen[g] - 1) <= NumGpuBlocks - Watermark
    /\ PromptLen[g] + OutputLen[g] <= MaxModelLen

FeasibleSurvives ==
    [][\A g \in Groups :
         /\ Feasible(g) /\ ~IsFinished(g)
         /\ status'[g] \in {"aborted", "ignored"}
         => pc \in {"idle", "dull"}]_vars

-----------------------------------------------------------------------------
(* What comments of the code say, and the code does not do.                *)

\* scheduler.py:193 calls leftover_running the sequences that "cannot be
\* scheduled because of the budget": a group that runs when the call begins
\* and gets no token is left over (or preempted), not forgotten.
UnscheduledIsLeftOver ==
    Decided => running \subseteq it.scheduled \cup it.leftover \cup
                                 it.preempted \cup it.swappedOut

-----------------------------------------------------------------------------
(* Liveness.                                                               *)

\* Every request is answered.
EveryRequestAnswered ==
    \A g \in Groups : status[g] = "waiting" ~> g \in reported
=============================================================================
