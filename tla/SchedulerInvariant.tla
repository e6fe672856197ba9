------------------------- MODULE SchedulerInvariant -------------------------
(***************************************************************************)
(* What the sequence, the block table, the queues and the lists of the     *)
(* call have to do with each other, group by group, at every program point *)
(* of a call of schedule().  Linked is inductive together with the types;  *)
(* what SchedulerProperties says of tables, caches and batches follows.    *)
(***************************************************************************)
EXTENDS SchedulerProperties

\* schedule() is running and has not rebuilt its queues yet.
Scheduling == pc \in {"free", "preempt", "process", "apply", "commit", "run",
                      "swapIn", "prefill"}

\* It has not returned yet.
Deciding == Scheduling \/ pc = "dull"

\* The block table is where the status says.
TableLinked(g) ==
    device[g] = CASE status[g] = "running" \/ g \in asyncStopped -> "gpu"
                  [] status[g] = "swapped" -> "cpu"
                  [] OTHER -> "none"

\* The KV cache covers what is computed; there is always a token that is not.
CacheLinked(g) ==
    /\ 0 <= computed[g] /\ computed[g] < SeqLen(g)
    /\ status[g] \in {"running", "swapped"} => computed[g] <= slots[g]
    /\ status[g] \in {"new", "waiting"} => computed[g] = 0 /\ IsPrefill(g)

\* A queue holds groups of its status, and some that late outputs have stopped;
\* what this call has preempted is in the running queue until the queues are
\* rebuilt.
QueuesLinked(g) ==
    /\ g \in asyncStopped => status[g] = "aborted"
    /\ g \in waiting => status[g] \in {"waiting", "stopped", "capped"}
    /\ g \in swapped => status[g] \in {"swapped", "stopped", "capped"}
    /\ g \in running =>
         \/ status[g] = "running"
         \/ pc # "free" /\ IsFinished(g)
         \/ Scheduling /\ g \in it.preempted \cup it.swappedOut

\* The tokens given to g are among those that it lacks.
ChunkFits(g) == 0 <= it.chunk[g] /\ computed[g] + it.chunk[g] <= SeqLen(g)

\* g is ready for the model.
Planned(g) == status[g] = "running" /\ slots[g] = SeqLen(g) /\ ChunkFits(g)

\* The result lists hold groups of one status each.
ResultsLinked(g) ==
    /\ g \in it.scheduled =>
         /\ pc \notin {"idle", "free", "preempt", "process"}
         /\ g \notin it.leftover
         /\ Deciding => Planned(g)
         /\ pc = "lateOutputs" => Planned(g) \/ IsFinished(g)
         /\ pc \in {"dull", "lateOutputs", "advance"} =>
              g \in running \/ IsFinished(g)
    /\ g \in it.leftover /\ Scheduling =>
         status[g] = "running" /\ pc \notin {"free", "preempt", "process"}
    /\ g \in it.preempted /\ Scheduling =>
         status[g] = "waiting" /\ g \notin waiting /\ pc # "free"
    /\ g \in it.swappedOut /\ Deciding =>
         status[g] = "swapped" /\ g \notin swapped /\ pc # "free"
    /\ g \in it.ignored => IsFinished(g)

\* A selected group is in the queue of its status, and has no decision yet.
SelectedLinked(g) ==
    g \in it.selected =>
        /\ pc \in {"process", "apply"} /\ g \notin it.todo
        /\ g \notin it.scheduled /\ g \notin it.leftover
        /\ ChunkFits(g)
        /\ \/ status[g] = "waiting" /\ g \in waiting
           \/ status[g] = "swapped" /\ g \in swapped
           \/ status[g] = "running" /\ g \in running

\* So has the candidate of _schedule_running.
CandidateLinked(g) ==
    it.cand = g =>
        /\ pc = "run" /\ g \notin it.todo
        /\ g \notin it.scheduled /\ g \notin it.leftover
        /\ status[g] = "running" /\ ChunkFits(g)

\* What the loops have still to look at.
TodoLinked(g) ==
    /\ pc = "preempt" /\ g \in pendingSwapOut =>
         g \notin it.preempted /\ g \notin it.swappedOut
    /\ g \in it.todo =>
         /\ pc = "run" => /\ status[g] = "running"
                          /\ g \notin it.scheduled /\ g \notin it.leftover
         /\ pc = "swapIn" => g \in swapped
         /\ pc = "prefill" => g \in waiting
         /\ pc = "dull" => g \in waiting \/ g \in swapped
         /\ pc \in {"lateOutputs", "advance"} => g \in it.scheduled
         /\ pc = "advance" => Planned(g) \/ IsFinished(g)

GroupLinked(g) ==
    /\ TableLinked(g) /\ CacheLinked(g) /\ QueuesLinked(g) /\ ResultsLinked(g)
    /\ SelectedLinked(g) /\ CandidateLinked(g) /\ TodoLinked(g)

Linked == \A g \in Groups : GroupLinked(g)

-----------------------------------------------------------------------------
(* Outputs.                                                                *)

\* A pending output is that of a group that runs, has finished, or has just
\* been preempted; a group has one before its last token is processed, and
\* gets no second one before.
OutputLinked(g) ==
    /\ g \in outputQueue =>
         /\ outLen[g] > 0 /\ status[g] # "new"
         /\ \/ status[g] = "running" \/ IsFinished(g)
            \/ pc = "lateOutputs"
            \/ Deciding /\ g \in it.preempted \cup it.swappedOut
         /\ pc = "advance" => g \notin it.todo
    /\ ~IsFinished(g) =>
         \/ outLen[g] < OutputLen[g]
         \/ g \in outputQueue /\ outLen[g] = OutputLen[g]

\* When outputs are processed in the step that computes them, no finished
\* group is in a queue between two steps, and each is reported.
SyncLinked(g) ==
    /\ g \notin asyncStopped /\ pc # "lateOutputs"
    /\ g \in waiting => status[g] = "waiting"
    /\ g \in swapped => status[g] = "swapped"
    /\ g \in running /\ IsFinished(g) => pc = "outputs" /\ it.finished
    /\ g \in outputQueue => pc \in {"advance", "outputs"}
    /\ g \in ignoredQueue => pc = "outputs"
    /\ IsFinished(g) =>
         \/ g \in reported \cup ignoredQueue
         \/ g \in it.ignored /\ pc \notin {"idle", "outputs"}

OutputsLinked ==
    \A g \in Groups : OutputLinked(g) /\ (AsyncOutput \/ SyncLinked(g))

-----------------------------------------------------------------------------
(* The queues.                                                             *)

\* The groups that are in the running queue when the call is over, if nothing
\* else is decided of them.
Kept == it.scheduled \cup it.selected \cup it.leftover

\* With the bins, the running queue keeps within the batch size: the process
\* list counts a sequence for each group it keeps, and _schedule_running keeps
\* groups that ran, of which none is left over when another is admitted.
BatchKept ==
    /\ Cardinality(running) <= MaxNumSeqs
    /\ Scheduling =>
         /\ it.seqCap <= MaxNumSeqs
         /\ Cardinality(Kept) <= MaxNumSeqs
         /\ pc = "run" =>
              /\ Kept \cup it.todo \subseteq running
              /\ it.cand # None => it.cand \in running
         /\ pc \in {"run", "swapIn", "prefill"} /\ it.leftover # {} =>
              RemainingTokens <= 0

\* The first loop of the process list gives a group at most two tokens.
FewTokens ==
    /\ pc \in {"free", "preempt"} => it.tokens = 0
    /\ pc = "process" => it.tokens <= 2 * it.seqs
                         /\ it.seqs = Cardinality(it.selected)

\* The token budget serves as many groups as can run with two tokens each.
AmpleBudget ==
    MaxBatchedTokens > 2 * (IF SlidingWindow THEN Cardinality(Groups)
                                             ELSE MaxNumSeqs)

\* A group that is not finished is in the queue of its status, or in the list
\* from which this call will put it there.
QueueKept(g) ==
    /\ status[g] = "waiting" =>
         g \in waiting \/ (Scheduling /\ g \in it.preempted)
    /\ status[g] = "swapped" =>
         g \in swapped \/ (Deciding /\ g \in it.swappedOut)
    /\ status[g] = "running" =>
         CASE pc = "process" -> g \in running \cap (it.todo \cup it.selected)
           [] pc \in {"apply", "commit", "swapIn", "prefill"} -> g \in Kept
           [] pc = "run" -> g \in it.todo \cup Kept \/ g = it.cand
           [] OTHER -> g \in running

\* There is a bin as long as groups of it wait to be swapped out.
BinKept == SlidingWindow \/ pendingSwapOut = {} \/ execOrder

QueuesKept == BinKept /\ \A g \in Groups : QueueKept(g)

-----------------------------------------------------------------------------
(* Steps.                                                                  *)

\* A step that looks at another group leaves h as it is; at most it ends the
\* loop of _schedule_swapped or of _schedule_prefills.
Untouched(h) ==
    /\ status'[h] = status[h] /\ stage'[h] = stage[h]
    /\ computed'[h] = computed[h] /\ outLen'[h] = outLen[h]
    /\ device'[h] = device[h] /\ slots'[h] = slots[h]
    /\ h \in waiting' <=> h \in waiting
    /\ h \in running' <=> h \in running
    /\ h \in swapped' <=> h \in swapped
    /\ h \in asyncStopped' <=> h \in asyncStopped
    /\ h \in pendingSwapOut' <=> h \in pendingSwapOut
    /\ h \in outputQueue' <=> h \in outputQueue
    /\ h \in ignoredQueue' <=> h \in ignoredQueue
    /\ h \in reported' <=> h \in reported
    /\ it'.cand = h <=> it.cand = h
    /\ it'.chunk[h] = it.chunk[h]
    /\ h \in it'.selected <=> h \in it.selected
    /\ h \in it'.scheduled <=> h \in it.scheduled
    /\ h \in it'.leftover <=> h \in it.leftover
    /\ h \in it'.preempted <=> h \in it.preempted
    /\ h \in it'.swappedOut <=> h \in it.swappedOut
    /\ h \in it'.ignored <=> h \in it.ignored
    /\ h \in it'.todo => h \in it.todo
    /\ h \in it.todo => h \in it'.todo \/ pc \in {"swapIn", "prefill"}

\* A step about the group g alone.
Local(g) == pc' = pc /\ \A h \in Groups \ {g} : Untouched(h)
=============================================================================
