---------------------- MODULE SchedulerRefinementProofs ----------------------
(***************************************************************************)
(* Every step of the scheduler is a step in the life of one request, or    *)
(* none (ImplementsLifecycle), for any number of requests of any length,   *)
(* any pools and any limits.                                               *)
(*                                                                         *)
(* This takes what becomes of outputs: OutputsLinked (SchedulerInvariant)  *)
(* is inductive on top of Linked.  A request that fits the GPU is not      *)
(* given up; without asynchronous outputs a finished one is reported, and  *)
(* with tokens to give as well the queues are the groups of their status.  *)
(*                                                                         *)
(* Below that, every step of the scheduler whose bins and windows are      *)
(* sorted, cut, scored and merged as the code does it (SearchStrategy) is  *)
(* a step of the one whose choices are open: what is proved of that holds. *)
(***************************************************************************)
EXTENDS SchedulerRefinement, SearchStrategy, SchedulerCountingProofs,
        SequenceTheorems

\* A group that a step leaves as it is stays linked.
LEMMA OthersOutput ==
    ASSUME NEW h \in Groups, Untouched(h), pc' = pc,
           pc = "outputs" /\ it.finished => it'.finished
    PROVE  /\ OutputLinked(h) => OutputLinked(h)'
           /\ SyncLinked(h) => SyncLinked(h)'
  BY DEF Untouched, Deciding, Scheduling, IsFinished, OutputLinked, SyncLinked

\* So only the group itself has to be looked at.
LEMMA LocalKeepsOutputs ==
    ASSUME OutputsLinked, NEW g \in Groups, Local(g),
           pc = "outputs" /\ it.finished => it'.finished,
           OutputLinked(g)', AsyncOutput \/ SyncLinked(g)'
    PROVE  OutputsLinked'
<1> SUFFICES ASSUME NEW h \in Groups
             PROVE  OutputLinked(h)' /\ (AsyncOutput \/ SyncLinked(h)')
  BY DEF OutputsLinked
<1>1. CASE h = g
  BY <1>1
<1>2. CASE h # g
  BY <1>2, OthersOutput DEF OutputsLinked, Local
<1> QED
  BY <1>1, <1>2

-----------------------------------------------------------------------------
(* Steps of the clients.                                                   *)

LEMMA AddSeqGroupKeepsOutputs ==
    ASSUME Inv, Linked, OutputsLinked, NEW g \in Groups, AddSeqGroup(g)
    PROVE  OutputsLinked'
<1>1. /\ UNCHANGED <<outLen, outputQueue, ignoredQueue, reported, swapped, running, asyncStopped, it>>
      /\ pc = "idle" /\ pc' = pc
      /\ status[g] = "new" /\ status'[g] = "waiting"
  BY DEF AddSeqGroup, outVars, Inv, SeqTypeOK
<1>2. OutputLinked(g)' /\ (AsyncOutput \/ SyncLinked(g)')
  BY <1>1
  DEF OutputsLinked, OutputLinked, SyncLinked, Linked, GroupLinked,
      TableLinked, CacheLinked, QueuesLinked, ResultsLinked, SelectedLinked,
      CandidateLinked, TodoLinked, Scheduling, Deciding, Planned, ChunkFits,
      IsFinished, Finished, IsPrefill
<1> QED
  BY <1>1, <1>2, AddSeqGroupIsLocal, LocalKeepsOutputs

LEMMA AbortSeqGroupKeepsOutputs ==
    ASSUME Inv, Linked, OutputsLinked, NEW g \in Groups, AbortSeqGroup(g)
    PROVE  OutputsLinked'
<1>1. /\ UNCHANGED <<outLen, outputQueue, ignoredQueue, asyncStopped, it>>
      /\ pc = "idle" /\ pc' = pc
      /\ g \in reported' /\ g \notin waiting' /\ g \notin running' /\ g \notin swapped'
      /\ status[g] # "new"
      /\ status'[g] \in {status[g], "aborted"}
  BY DEF AbortSeqGroup, Inv, SeqTypeOK
<1>2. OutputLinked(g)' /\ (AsyncOutput \/ SyncLinked(g)')
  BY <1>1
  DEF OutputsLinked, IsFinished, Finished, Deciding, Scheduling, OutputLinked,
      SyncLinked
<1> QED
  BY <1>1, <1>2, AbortSeqGroupIsLocal, LocalKeepsOutputs

-----------------------------------------------------------------------------
(* Decisions: what a step of a call does to the life of one group.         *)

\* The life of a group goes on: in the queue of its new status, if any.
Admitted(g) ==
    /\ Lifecycle!Admit(g) \/ Lifecycle!SwapIn(g)
    /\ g \notin waiting' /\ g \notin swapped'

Preempted(g) ==
    /\ Lifecycle!SwapOut(g) \/ Lifecycle!Recompute(g)
    /\ g \in it'.preempted \cup it'.swappedOut

\* It ends: the group is listed, and was not feasible or the call is dull.
Dropped(g) ==
    /\ Lifecycle!Drop(g) \/ Lifecycle!DropEnded(g)
    /\ g \in waiting \cup swapped
    /\ g \notin waiting' /\ g \notin swapped' /\ g \in it'.ignored
    /\ pc = "dull" \/ ~Feasible(g)

Marked(g) == Lifecycle!Mark(g) /\ ~Feasible(g)

Decides(g) ==
    /\ Deciding /\ pc' = pc
    /\ UNCHANGED <<outLen, outputQueue, ignoredQueue, reported, running>>
    /\ waiting' \subseteq waiting /\ swapped' \subseteq swapped
    /\ it.preempted \subseteq it'.preempted
    /\ it.swappedOut \subseteq it'.swappedOut
    /\ it.ignored \subseteq it'.ignored
    /\ \/ Marked(g)
       \/ /\ asyncStopped' \subseteq asyncStopped
          /\ \/ UNCHANGED <<status, device>>
             \/ Admitted(g) \/ Preempted(g) \/ Dropped(g)

LEMMA DecisionKeepsOutputs ==
    ASSUME Inv, Linked, OutputsLinked, NEW g \in Groups, Local(g), Decides(g)
    PROVE  OutputsLinked'
<1>1. Deciding' /\ pc \notin {"idle", "lateOutputs", "advance", "outputs"}
  BY DEF Decides, Deciding, Scheduling
<1>2. OutputLinked(g) /\ (AsyncOutput \/ SyncLinked(g))
  BY DEF OutputsLinked
<1>3. CASE Marked(g)
  <2>1. AsyncOutput /\ status'[g] = "aborted" /\ status[g] = "running"
    BY <1>3 DEF Marked, Lifecycle!Mark, Lifecycle!Pass, Inv, SeqTypeOK
  <2>2. OutputLinked(g)'
    BY <1>1, <1>2, <2>1 DEF OutputLinked, IsFinished, Finished, Decides
  <2> QED
    BY <1>1, <2>1, <2>2, LocalKeepsOutputs
<1>4. CASE UNCHANGED <<status, device>> /\ asyncStopped' \subseteq asyncStopped
  <2>1. OutputLinked(g)' /\ (SyncLinked(g) => SyncLinked(g)')
    BY <1>1, <1>2, <1>4 DEF OutputLinked, SyncLinked, IsFinished, Decides
  <2> QED
    BY <1>1, <1>2, <2>1, LocalKeepsOutputs
<1>5. CASE Admitted(g) /\ asyncStopped' \subseteq asyncStopped
  <2>1. status'[g] = "running" /\ status[g] \in {"waiting", "swapped"}
        /\ g \notin waiting' /\ g \notin swapped'
    BY <1>5
    DEF Admitted, Lifecycle!Admit, Lifecycle!SwapIn, Lifecycle!Pass, Inv,
        SeqTypeOK
  <2>2. OutputLinked(g)' /\ (SyncLinked(g) => SyncLinked(g)')
    BY <1>1, <1>2, <1>5, <2>1
    DEF OutputLinked, SyncLinked, IsFinished, Finished, Decides
  <2> QED
    BY <1>1, <1>2, <2>2, LocalKeepsOutputs
<1>6. CASE Preempted(g) /\ asyncStopped' \subseteq asyncStopped
  <2>1. /\ status[g] = "running" /\ status'[g] \in {"waiting", "swapped"}
        /\ g \in it'.preempted \cup it'.swappedOut
    BY <1>6
    DEF Preempted, Lifecycle!SwapOut, Lifecycle!Recompute, Lifecycle!Pass, Inv,
        SeqTypeOK
  <2>2. OutputLinked(g)' /\ (SyncLinked(g) => SyncLinked(g)')
    BY <1>1, <1>2, <1>6, <2>1
    DEF OutputLinked, SyncLinked, IsFinished, Finished, Decides
  <2> QED
    BY <1>1, <1>2, <2>2, LocalKeepsOutputs
<1>7. CASE Dropped(g) /\ asyncStopped' \subseteq asyncStopped
  <2>1. /\ status[g] \in {"waiting", "running", "swapped"} \/ AsyncOutput
        /\ status'[g] \in {"aborted", "ignored"}
        /\ g \in waiting \cup swapped /\ g \in it'.ignored
        /\ g \notin waiting' /\ g \notin swapped'
    BY <1>7
    DEF Dropped, Lifecycle!Drop, Lifecycle!DropEnded, Lifecycle!Live, Inv,
        SeqTypeOK
  <2>2. OutputLinked(g)'
    BY <1>1, <1>2, <1>7, <2>1 DEF OutputLinked, IsFinished, Finished, Decides
  <2>3. g \notin running \/ AsyncOutput
    BY <1>1, <1>2, <2>1
    DEF SyncLinked, Decides, Linked, GroupLinked, TableLinked, CacheLinked,
        QueuesLinked, ResultsLinked, SelectedLinked, CandidateLinked,
        TodoLinked, Scheduling, Deciding, Planned, ChunkFits, IsFinished,
        Finished, IsPrefill
  <2>4. ~AsyncOutput => SyncLinked(g)'
    BY <1>1, <1>2, <1>7, <2>1, <2>3
    DEF SyncLinked, IsFinished, Finished, Decides
  <2> QED
    BY <1>1, <2>2, <2>4, LocalKeepsOutputs
<1> QED
  BY <1>3, <1>4, <1>5, <1>6, <1>7 DEF Decides

-----------------------------------------------------------------------------
(* Each step of a call about one group is a decision.                      *)

\* What is on the device of its status can be preempted.
LEMMA PreemptionDecides ==
    ASSUME Inv, Linked, NEW g \in Groups, NEW r \in Iteration,
           PreemptedFrom(r, g), status[g] = "running", UNCHANGED outLen
    PROVE  /\ Preempted(g)
           /\ r.preempted \subseteq it'.preempted
           /\ r.swappedOut \subseteq it'.swappedOut
           /\ r.ignored \subseteq it'.ignored
<1>1. device[g] = "gpu"
  BY DEF Linked, GroupLinked, TableLinked
<1>2. CASE /\ it' = [r EXCEPT !.swappedOut = @ \cup {g}]
           /\ status' = [status EXCEPT ![g] = "swapped"]
           /\ device' = [device EXCEPT ![g] = "cpu"]
  BY <1>1, <1>2 DEF Preempted, Lifecycle!SwapOut, Lifecycle!Pass, Iteration
<1>3. CASE /\ it' = [r EXCEPT !.preempted = @ \cup {g}]
           /\ status' = [status EXCEPT ![g] = "waiting"]
           /\ device' = [device EXCEPT ![g] = "none"]
  BY <1>1, <1>3 DEF Preempted, Lifecycle!Recompute, Lifecycle!Pass, Iteration
<1> QED
  BY <1>2, <1>3 DEF PreemptedFrom

LEMMA PreemptPendingDecides ==
    ASSUME Inv, Linked, NEW g \in Groups, PreemptPending(g)
    PROVE  Decides(g)
<1>1. /\ Deciding /\ pc' = pc /\ pc = "preempt" /\ g \in pendingSwapOut
      /\ UNCHANGED <<outLen, outputQueue, ignoredQueue, reported, running,
                     waiting, swapped, asyncStopped>>
  BY DEF PreemptPending, Deciding, Scheduling, queueVars, outVars
<1>2. CASE UNCHANGED <<status, stage, computed, memVars, it>>
  BY <1>1, <1>2 DEF Decides, memVars
<1>3. CASE /\ it' = [it EXCEPT !.swaps = @ + 1]
           /\ UNCHANGED <<status, stage, computed, memVars>>
  BY <1>1, <1>3, CallIsIteration DEF Decides, memVars, Iteration
<1>4. CASE PendingPreempts(g)
  <2> DEFINE r == [it EXCEPT !.swaps = @ + 1]
  <2>1. /\ r \in Iteration /\ r.preempted = it.preempted
        /\ r.swappedOut = it.swappedOut /\ r.ignored = it.ignored
    BY CallIsIteration DEF Iteration
  <2>2. PreemptedFrom(r, g)
    BY <1>4 DEF PendingPreempts
  <2> HIDE DEF r
  <2>3. status[g] = "running"
    BY <1>1, <1>4
    DEF PendingPreempts, Linked, GroupLinked, TableLinked, CacheLinked,
        QueuesLinked, ResultsLinked, SelectedLinked, CandidateLinked,
        TodoLinked, Scheduling, Deciding, Planned, ChunkFits, IsFinished,
        Finished, IsPrefill
  <2> QED
    BY <1>1, <2>1, <2>2, <2>3, PreemptionDecides DEF Decides
<1> QED
  BY <1>2, <1>3, <1>4, PreemptPendingOutcomes

LEMMA ProcessDecides ==
    ASSUME Inv, Linked, NEW g \in Groups, Process(g)
    PROVE  Decides(g)
<1>1. /\ Deciding /\ pc' = pc
      /\ UNCHANGED <<outLen, outputQueue, ignoredQueue, reported, running,
                     waiting, swapped, asyncStopped>>
  BY DEF Process, Deciding, Scheduling, queueVars, outVars
<1>2. ASSUME NEW n \in 1..2, ProcessSelects(g, n) PROVE Decides(g)
  BY <1>1, <1>2, CallIsIteration
  DEF ProcessSelects, Decides, memVars, Iteration
<1>3. CASE ProcessPasses(g)
  BY <1>1, <1>3, CallIsIteration DEF ProcessPasses, Decides, memVars, Iteration
<1>4. CASE ProcessPreempts(g)
  <2> DEFINE r == [it EXCEPT !.todo = @ \ {g}, !.stop = TRUE]
  <2>1. /\ r \in Iteration /\ r.preempted = it.preempted
        /\ r.swappedOut = it.swappedOut /\ r.ignored = it.ignored
    BY CallIsIteration DEF Iteration
  <2>2. PreemptedFrom(r, g) /\ status[g] = "running"
    BY <1>4 DEF ProcessPreempts
  <2> HIDE DEF r
  <2> QED
    BY <1>1, <2>1, <2>2, PreemptionDecides DEF Decides
<1> QED
  BY <1>2, <1>3, <1>4, ProcessOutcomes DEF Linked, GroupLinked

\* Admissions.
LEMMA AdmissionDecides ==
    ASSUME Inv, Linked, NEW g \in Groups, UNCHANGED outLen,
           \/ status[g] = "waiting" /\ Allocate(g, SeqLen(g))
           \/ status[g] = "swapped" /\ SwapInAndAppend(g, SeqLen(g)),
           status' = [status EXCEPT ![g] = "running"],
           g \notin waiting', g \notin swapped'
    PROVE  Admitted(g)
<1>1. CASE status[g] = "waiting" /\ Allocate(g, SeqLen(g))
  <2>1. device[g] = "none"
    BY <1>1
    DEF Linked, GroupLinked, TableLinked, CacheLinked, QueuesLinked,
        ResultsLinked, SelectedLinked, CandidateLinked, TodoLinked, Scheduling,
        Deciding, Planned, ChunkFits, IsFinished, Finished, IsPrefill
  <2> QED
    BY <1>1, <2>1 DEF Admitted, Allocate, Lifecycle!Admit, Lifecycle!Pass
<1>2. CASE status[g] = "swapped" /\ SwapInAndAppend(g, SeqLen(g))
  <2>1. device[g] = "cpu"
    BY <1>2
    DEF Linked, GroupLinked, TableLinked, CacheLinked, QueuesLinked,
        ResultsLinked, SelectedLinked, CandidateLinked, TodoLinked, Scheduling,
        Deciding, Planned, ChunkFits, IsFinished, Finished, IsPrefill
  <2> QED
    BY <1>2, <2>1
    DEF Admitted, SwapInAndAppend, Lifecycle!SwapIn, Lifecycle!Pass
<1> QED
  BY <1>1, <1>2

LEMMA SwapInSelectedDecides ==
    ASSUME Inv, Linked, NEW g \in Groups, SwapInSelected(g)
    PROVE  Decides(g)
<1>1. /\ Deciding /\ pc' = pc
      /\ UNCHANGED <<outLen, outputQueue, ignoredQueue, reported, running,
                     waiting, asyncStopped>>
      /\ pc = "apply" /\ g \in it.selected /\ g \in swapped
  BY DEF SwapInSelected, Deciding, Scheduling, outVars
<1>2. /\ status[g] = "swapped" /\ g \notin waiting
  BY <1>1
  DEF Linked, GroupLinked, TableLinked, CacheLinked, QueuesLinked,
      ResultsLinked, SelectedLinked, CandidateLinked, TodoLinked, Scheduling,
      Deciding, Planned, ChunkFits, IsFinished, Finished, IsPrefill
<1>3. CASE SwapInSelects(g)
  <2>1. Admitted(g)
    BY <1>1, <1>2, <1>3, AdmissionDecides DEF SwapInSelects
  <2>2. /\ it'.preempted = it.preempted /\ it'.swappedOut = it.swappedOut
        /\ it'.ignored = it.ignored
    BY <1>3, CallIsIteration DEF SwapInSelects, Iteration
  <2> QED
    BY <1>1, <1>3, <2>1, <2>2 DEF Decides, SwapInSelects
<1>4. CASE SwapInDeclines(g)
  BY <1>1, <1>4, CallIsIteration
  DEF SwapInDeclines, Decides, memVars, Iteration
<1> QED
  BY <1>3, <1>4, SwapInSelectedOutcomes

LEMMA RunSelectedDecides ==
    ASSUME Inv, Linked, NEW g \in Groups, RunSelected(g)
    PROVE  Decides(g)
<1>1. /\ Deciding /\ pc' = pc
      /\ UNCHANGED <<status, outLen, outputQueue, ignoredQueue, reported,
                     running, waiting, swapped, asyncStopped>>
  BY DEF RunSelected, Deciding, Scheduling, seqVars, queueVars, outVars
<1>2. CASE RunSelects(g)
  BY <1>1, <1>2, CallIsIteration
  DEF RunSelects, AppendSlots, Decides, Iteration
<1>3. CASE RunDeclines(g)
  BY <1>1, <1>3, CallIsIteration DEF RunDeclines, Decides, memVars, Iteration
<1> QED
  BY <1>2, <1>3, RunSelectedOutcomes

LEMMA PrefillSelectedDecides ==
    ASSUME Inv, Linked, NEW g \in Groups, PrefillSelected(g)
    PROVE  Decides(g)
<1>1. /\ Deciding /\ pc' = pc
      /\ UNCHANGED <<outLen, outputQueue, ignoredQueue, reported, running,
                     swapped, asyncStopped>>
      /\ status[g] = "waiting"
  BY PrefillSelectedOutcomes DEF PrefillSelected, Deciding, Scheduling, outVars
<1>2. g \notin swapped
  BY <1>1
  DEF Linked, GroupLinked, TableLinked, CacheLinked, QueuesLinked,
      ResultsLinked, SelectedLinked, CandidateLinked, TodoLinked, Scheduling,
      Deciding, Planned, ChunkFits, IsFinished, Finished, IsPrefill
<1>3. CASE PrefillSelects(g)
  <2>1. Admitted(g)
    BY <1>1, <1>2, <1>3, AdmissionDecides DEF PrefillSelects
  <2>2. /\ it'.preempted = it.preempted /\ it'.swappedOut = it.swappedOut
        /\ it'.ignored = it.ignored
    BY <1>3, CallIsIteration DEF PrefillSelects, Iteration
  <2> QED
    BY <1>1, <1>3, <2>1, <2>2 DEF Decides, PrefillSelects
<1>4. CASE PrefillDeclines(g)
  BY <1>1, <1>4, CallIsIteration
  DEF PrefillDeclines, Decides, memVars, Iteration
<1> QED
  BY <1>3, <1>4, PrefillSelectedOutcomes

-----------------------------------------------------------------------------
(* Who is given up.                                                        *)

\* Until its last token a feasible group fits: the pool, and the model.
LEMMA FeasibleFits ==
    ASSUME Inv, NEW g \in Groups, Feasible(g), OutputLinked(g), ~IsFinished(g)
    PROVE  /\ SeqLen(g) \in Nat /\ SeqLen(g) <= MaxModelLen
           /\ g \notin outputQueue =>
                /\ CanAllocate(SeqLen(g)) # "NEVER"
                /\ CanSwapIn(g, SeqLen(g)) # "NEVER"
<1> DEFINE last == PromptLen[g] + OutputLen[g] - 1
<1>1. /\ PromptLen[g] \in Nat \ {0} /\ OutputLen[g] \in Nat \ {0}
      /\ outLen[g] \in Nat /\ MaxModelLen \in Nat /\ slots[g] \in Nat
      /\ NumGpuBlocks \in Nat /\ Watermark \in Nat
  BY SchedulerAssumption, BlockAssumption
  DEF Inv, SeqTypeOK, MemSafe, MemTypeOK
<1>2. /\ outLen[g] <= OutputLen[g]
      /\ g \notin outputQueue => outLen[g] < OutputLen[g]
  BY <1>1 DEF OutputLinked
<1>3. SeqLen(g) \in Nat /\ SeqLen(g) <= MaxModelLen
  BY <1>1, <1>2 DEF SeqLen, Feasible
<1>4. ASSUME g \notin outputQueue
      PROVE  CanAllocate(SeqLen(g)) # "NEVER" /\ CanSwapIn(g, SeqLen(g)) # "NEVER"
  <2>1. SeqLen(g) <= last /\ last \in Int /\ SeqLen(g) \in Int
    BY <1>1, <1>2, <1>4 DEF SeqLen
  <2>2. CeilDiv(SeqLen(g)) <= CeilDiv(last)
    BY <2>1, CeilDivMonotone
  <2>3. CeilDiv(SeqLen(g)) \in Int /\ CeilDiv(last) \in Int
    BY <2>1, CeilDivBounds
  <2>4. CeilDiv(last) <= NumGpuBlocks - Watermark
    BY DEF Feasible, NumRequired
  <2> HIDE DEF last
  <2>5. /\ CeilDiv(SeqLen(g)) <= NumGpuBlocks
        /\ NumGpuBlocks - CeilDiv(SeqLen(g)) >= Watermark
    BY <1>1, <2>2, <2>3, <2>4
  <2>6. NumTouchedBySwap(g, SeqLen(g)) = CeilDiv(SeqLen(g))
    BY <1>1, <1>3, TouchedBySwap
  <2>7. CanAllocate(SeqLen(g)) # "NEVER"
    BY <1>1, <2>3, <2>5 DEF CanAllocate, NumRequired
  <2>8. CanSwapIn(g, SeqLen(g)) # "NEVER"
    BY <1>1, <2>3, <2>5, <2>6 DEF CanSwapIn
  <2> QED
    BY <2>7, <2>8
<1> QED
  BY <1>3, <1>4

\* A group in a queue of _schedule_chunked_prefill has no output pending.
LEMMA QueuedHasNoOutput ==
    ASSUME Linked, OutputsLinked, NEW g \in Groups, Deciding,
           \/ g \in waiting /\ status[g] = "waiting"
           \/ g \in swapped /\ status[g] = "swapped",
           pc \in {"swapIn", "prefill"}
    PROVE  g \notin outputQueue
<1>1. OutputLinked(g) /\ ResultsLinked(g) /\ Scheduling
  BY DEF OutputsLinked, Linked, GroupLinked, Scheduling
<1> QED
  BY <1>1 DEF OutputLinked, ResultsLinked, IsFinished, Finished

LEMMA RunNextDecides ==
    ASSUME Inv, Linked, OutputsLinked, NEW g \in Groups, RunNext(g)
    PROVE  Decides(g)
<1>1. /\ Deciding /\ pc' = pc
      /\ UNCHANGED <<outLen, device, outputQueue, ignoredQueue, reported,
                     running, waiting, swapped>>
      /\ pc = "run" /\ g \in it.todo
  BY DEF RunNext, Deciding, Scheduling, memVars, outVars
<1>2. status[g] = "running" /\ device[g] = "gpu" /\ ~IsFinished(g)
  BY <1>1
  DEF Linked, GroupLinked, TableLinked, CacheLinked, QueuesLinked,
      ResultsLinked, SelectedLinked, CandidateLinked, TodoLinked, Scheduling,
      Deciding, Planned, ChunkFits, IsFinished, Finished, IsPrefill
<1>3. CASE RunSkips(g)
  BY <1>1, <1>3, CallIsIteration DEF RunSkips, Decides, Iteration
<1>4. CASE RunStops(g)
  <2>1. Lifecycle!Mark(g)
    BY <1>1, <1>2, <1>4
    DEF RunStops, Lifecycle!Mark, Lifecycle!Pass, Inv, MemSafe, MemTypeOK
  <2>2. ~Feasible(g)
    <3>1. SeqLen(g) > MaxModelLen /\ MaxModelLen \in Int
      BY <1>4, SchedulerAssumption DEF RunStops
    <3> QED
      BY <1>2, <3>1, FeasibleFits DEF OutputsLinked
  <2>3. /\ it'.preempted = it.preempted /\ it'.swappedOut = it.swappedOut
        /\ it'.ignored = it.ignored
    BY <1>4, CallIsIteration DEF RunStops, Iteration
  <2> QED
    BY <1>1, <2>1, <2>2, <2>3 DEF Decides, Marked
<1>5. ASSUME NEW n \in Nat \ {0}, RunTries(g, n) PROVE Decides(g)
  BY <1>1, <1>5, CallIsIteration DEF RunTries, Decides, Iteration
<1> QED
  BY <1>3, <1>4, <1>5, RunNextOutcomes

LEMMA SwapInNextDecides ==
    ASSUME Inv, Linked, OutputsLinked, NEW g \in Groups, SwapInNext(g)
    PROVE  Decides(g)
<1>1. /\ Deciding /\ pc' = pc
      /\ UNCHANGED <<outLen, outputQueue, ignoredQueue, reported, running,
                     waiting, asyncStopped>>
      /\ pc = "swapIn" /\ g \in it.todo /\ g \in swapped
  BY
  DEF SwapInNext, Deciding, Scheduling, outVars, Linked, GroupLinked,
      TableLinked, CacheLinked, QueuesLinked, ResultsLinked, SelectedLinked,
      CandidateLinked, TodoLinked, Scheduling, Deciding, Planned, ChunkFits,
      IsFinished, Finished, IsPrefill
<1>2. CASE SwapInEnds
  BY <1>1, <1>2, CallIsIteration DEF SwapInEnds, Decides, memVars, Iteration
<1>3. CASE SwapInGivesUp(g)
  <2>1. status[g] = "swapped" /\ CanSwapIn(g, SeqLen(g)) = "NEVER"
    BY <1>3 DEF SwapInGivesUp, SwapInStatus
  <2>2. g \notin waiting /\ ~IsFinished(g)
    BY <2>1
    DEF Linked, GroupLinked, TableLinked, CacheLinked, QueuesLinked,
        ResultsLinked, SelectedLinked, CandidateLinked, TodoLinked, Scheduling,
        Deciding, Planned, ChunkFits, IsFinished, Finished, IsPrefill
  <2>3. Lifecycle!Drop(g)
    BY <1>1, <1>3, <2>1 DEF SwapInGivesUp, Free, Lifecycle!Drop, Lifecycle!Live
  <2>4. ~Feasible(g)
    BY <1>1, <2>1, <2>2, FeasibleFits, QueuedHasNoOutput DEF OutputsLinked
  <2>5. /\ it'.preempted = it.preempted /\ it'.swappedOut = it.swappedOut
        /\ it'.ignored = it.ignored \cup {g}
        /\ swapped' = swapped \ {g}
    BY <1>3, CallIsIteration DEF SwapInGivesUp, Iteration
  <2> QED
    BY <1>1, <2>2, <2>3, <2>4, <2>5 DEF Decides, Dropped
<1>4. CASE SwapInPasses(g)
  BY <1>1, <1>4, CallIsIteration DEF SwapInPasses, Decides, memVars, Iteration
<1>5. ASSUME NEW n \in Nat \ {0}, SwapInAdmits(g, n) PROVE Decides(g)
  <2>1. g \notin waiting
    BY <1>5
    DEF SwapInAdmits, Linked, GroupLinked, TableLinked, CacheLinked,
        QueuesLinked, ResultsLinked, SelectedLinked, CandidateLinked,
        TodoLinked, Scheduling, Deciding, Planned, ChunkFits, IsFinished,
        Finished, IsPrefill
  <2>2. Admitted(g)
    BY <1>1, <1>5, <2>1, AdmissionDecides DEF SwapInAdmits
  <2>3. /\ it'.preempted = it.preempted /\ it'.swappedOut = it.swappedOut
        /\ it'.ignored = it.ignored /\ swapped' = swapped \ {g}
    BY <1>5, CallIsIteration DEF SwapInAdmits, Iteration
  <2> QED
    BY <1>1, <2>2, <2>3 DEF Decides
<1> QED
  BY <1>2, <1>3, <1>4, <1>5, SwapInNextOutcomes

LEMMA PrefillNextDecides ==
    ASSUME Inv, Linked, OutputsLinked, NEW g \in Groups, PrefillNext(g)
    PROVE  Decides(g)
<1>1. /\ Deciding /\ pc' = pc
      /\ UNCHANGED <<outLen, outputQueue, ignoredQueue, reported, running,
                     swapped, asyncStopped>>
      /\ pc = "prefill" /\ g \in it.todo /\ g \in waiting
  BY
  DEF PrefillNext, Deciding, Scheduling, outVars, Linked, GroupLinked,
      TableLinked, CacheLinked, QueuesLinked, ResultsLinked, SelectedLinked,
      CandidateLinked, TodoLinked, Scheduling, Deciding, Planned, ChunkFits,
      IsFinished, Finished, IsPrefill
<1>2. CASE PrefillSkips(g)
  BY <1>1, <1>2, CallIsIteration DEF PrefillSkips, Decides, memVars, Iteration
<1>3. CASE PrefillGivesUp(g)
  <2>1. status[g] = "waiting"
    BY <1>3 DEF PrefillGivesUp
  <2>2. g \notin swapped /\ ~IsFinished(g) /\ device[g] = "none" /\ CacheLinked(g)
    BY <2>1
    DEF Linked, GroupLinked, TableLinked, CacheLinked, QueuesLinked,
        ResultsLinked, SelectedLinked, CandidateLinked, TodoLinked, Scheduling,
        Deciding, Planned, ChunkFits, IsFinished, Finished, IsPrefill
  <2>3. Lifecycle!Drop(g)
    BY <1>1, <1>3, <2>1, <2>2
    DEF PrefillGivesUp, memVars, Lifecycle!Drop, Lifecycle!Live, Inv, MemSafe,
        MemTypeOK
  <2>4. ASSUME Feasible(g)
        PROVE  FALSE
    <3>1. /\ SeqLen(g) \in Nat /\ SeqLen(g) <= MaxModelLen
          /\ CanAllocate(SeqLen(g)) # "NEVER"
      BY <1>1, <2>1, <2>2, <2>4, FeasibleFits, QueuedHasNoOutput
      DEF OutputsLinked
    <3>2. NumNewTokens(g, "waiting") > MaxModelLen /\ MaxModelLen \in Nat
      BY <1>3, <3>1, SchedulerAssumption DEF PrefillGivesUp
    <3>5. NumNewTokens(g, "waiting") \in Int
      BY NumNewTokensInt DEF Inv, CallTypeOK
    <3>6. NumNewTokens(g, "waiting") > 0 /\ "waiting" \notin Finished
      BY <3>2, <3>5 DEF Finished
    <3>3. computed[g] + NumNewTokens(g, "waiting") <= SeqLen(g)
      BY <2>2, <3>6, NewTokensFit
    <3>4. computed[g] >= 0 /\ computed[g] \in Int
      BY <2>2, LengthsAreInt DEF CacheLinked
    <3> QED
      BY <3>1, <3>2, <3>3, <3>4, <3>5
  <2>5. /\ it'.preempted = it.preempted /\ it'.swappedOut = it.swappedOut
        /\ it'.ignored = it.ignored \cup {g}
        /\ waiting' = waiting \ {g}
    BY <1>3, CallIsIteration DEF PrefillGivesUp, Iteration
  <2> QED
    BY <1>1, <2>2, <2>3, <2>4, <2>5 DEF Decides, Dropped
<1>4. CASE PrefillEnds
  BY <1>1, <1>4, CallIsIteration DEF PrefillEnds, Decides, memVars, Iteration
<1>5. ASSUME NEW n \in Nat \ {0}, PrefillAdmits(g, n) PROVE Decides(g)
  <2>1. g \notin swapped
    BY <1>5
    DEF PrefillAdmits, Linked, GroupLinked, TableLinked, CacheLinked,
        QueuesLinked, ResultsLinked, SelectedLinked, CandidateLinked,
        TodoLinked, Scheduling, Deciding, Planned, ChunkFits, IsFinished,
        Finished, IsPrefill
  <2>2. Admitted(g)
    BY <1>1, <1>5, <2>1, AdmissionDecides DEF PrefillAdmits
  <2>3. /\ it'.preempted = it.preempted /\ it'.swappedOut = it.swappedOut
        /\ it'.ignored = it.ignored /\ waiting' = waiting \ {g}
    BY <1>5, CallIsIteration DEF PrefillAdmits, Iteration
  <2> QED
    BY <1>1, <2>2, <2>3 DEF Decides
<1> QED
  BY <1>2, <1>3, <1>4, <1>5, PrefillNextOutcomes

LEMMA DullAbortDecides ==
    ASSUME Inv, Linked, OutputsLinked, NEW g \in Groups, DullAbort(g)
    PROVE  Decides(g)
<1>1. /\ Deciding /\ pc' = pc /\ pc = "dull" /\ g \in it.todo
      /\ UNCHANGED <<outLen, outputQueue, ignoredQueue, reported, running,
                     asyncStopped>>
      /\ waiting' = waiting \ {g} /\ swapped' = swapped \ {g}
  BY DEF DullAbort, Deciding, outVars
<1>2. /\ g \in waiting \cup swapped
      /\ \/ status[g] \in {"waiting", "swapped"}
         \/ status[g] \in {"stopped", "capped"} /\ device[g] = "none"
  BY <1>1
  DEF Linked, GroupLinked, TableLinked, CacheLinked, QueuesLinked,
      ResultsLinked, SelectedLinked, CandidateLinked, TodoLinked, Scheduling,
      Deciding, Planned, ChunkFits, IsFinished, Finished, IsPrefill
<1>3. Lifecycle!Drop(g) \/ Lifecycle!DropEnded(g)
  <2>1. CASE status[g] \in {"waiting", "swapped"}
    BY <1>1, <2>1 DEF DullAbort, Free, Lifecycle!Drop, Lifecycle!Live
  <2>2. CASE status[g] \in {"stopped", "capped"} /\ device[g] = "none"
    <3>1. AsyncOutput
      BY <1>2, <2>2 DEF OutputsLinked, SyncLinked
    <3>2. device' = device
      BY <2>2 DEF DullAbort, Free, Inv, MemSafe, MemTypeOK
    <3> QED
      BY <1>1, <2>2, <3>1, <3>2 DEF DullAbort, Lifecycle!DropEnded
  <2> QED
    BY <1>2, <2>1, <2>2
<1>4. /\ it'.preempted = it.preempted /\ it'.swappedOut = it.swappedOut
      /\ it'.ignored = it.ignored \cup {g}
  BY CallIsIteration DEF DullAbort, Iteration
<1> QED
  BY <1>1, <1>2, <1>3, <1>4 DEF Decides, Dropped

-----------------------------------------------------------------------------
(* The other steps about one group.                                        *)

LEMMA RunFitsDecides ==
    ASSUME Inv, Linked, RunFits
    PROVE  Local(it.cand) /\ Decides(it.cand)
<1>1. /\ it'.preempted = it.preempted /\ it'.swappedOut = it.swappedOut
      /\ it'.ignored = it.ignored
  BY CallIsIteration DEF RunFits, Iteration
<1> QED
  BY <1>1, RunFitsIsLocal
  DEF RunFits, AppendSlots, Decides, Deciding, Scheduling, seqVars, queueVars,
      outVars

\* The victim of an eviction is preempted, or its late output ends it.
EvictionEnds(v) ==
    /\ Lifecycle!Stop(v) /\ AsyncOutput
    /\ IsFinished(v)' /\ status'[v] \in {"stopped", "capped"}

LEMMA RunEvictsLife ==
    ASSUME Inv, Linked, OutputsLinked, NEW v \in Groups, RunEvicts(v)
    PROVE  EvictionEnds(v) \/ Preempted(v)
<1>1. /\ UNCHANGED outLen /\ pc = "run"
      /\ status[v] = "running" /\ outputQueue' = outputQueue \ {v}
  BY
  DEF RunEvicts, Linked, GroupLinked, TableLinked, CacheLinked, QueuesLinked,
      ResultsLinked, SelectedLinked, CandidateLinked, TodoLinked, Scheduling,
      Deciding, Planned, ChunkFits, IsFinished, Finished, IsPrefill
<1>2. CASE RunStopsLate(v)
  <2>1. StopStatus(v) \in {"stopped", "capped"}
    BY <1>1, <1>2 DEF RunStopsLate, StopStatus, Finished
  <2>2. outLen[v] > 0
    BY <1>2 DEF RunStopsLate, OutputsLinked, OutputLinked
  <2> QED
    BY <1>1, <1>2, <2>1, <2>2
    DEF RunStopsLate, Free, EvictionEnds, Lifecycle!Stop, IsFinished, Finished,
        Inv, SeqTypeOK
<1>3. CASE RunPreempts(v)
  <2>1. WithoutVictim(v) \in Iteration
    BY WithoutVictimFields
  <2> QED
    BY <1>1, <1>3, <2>1, PreemptionDecides DEF RunPreempts
<1> QED
  BY <1>2, <1>3, RunEvictsOutcomes

LEMMA RunEvictsKeepsOutputs ==
    ASSUME Inv, Linked, OutputsLinked, NEW v \in Groups, RunEvicts(v)
    PROVE  OutputsLinked'
<1>1. /\ UNCHANGED <<outLen, queueVars, ignoredQueue>> /\ pc = "run" /\ pc' = pc
      /\ outputQueue' = outputQueue \ {v} /\ reported \subseteq reported'
      /\ status[v] = "running"
  BY
  DEF RunEvicts, Linked, GroupLinked, TableLinked, CacheLinked, QueuesLinked,
      ResultsLinked, SelectedLinked, CandidateLinked, TodoLinked, Scheduling,
      Deciding, Planned, ChunkFits, IsFinished, Finished, IsPrefill
<1>2. OutputLinked(v) /\ (AsyncOutput \/ SyncLinked(v))
  BY DEF OutputsLinked
<1>3. CASE EvictionEnds(v)
  <2>1. OutputLinked(v)' /\ AsyncOutput
    BY <1>1, <1>3 DEF EvictionEnds, OutputLinked
  <2> QED
    BY <1>1, <2>1, RunEvictsIsLocal, LocalKeepsOutputs
<1>4. CASE Preempted(v)
  <2>1. status'[v] \in {"waiting", "swapped"} /\ v \in it'.preempted \cup it'.swappedOut
    BY <1>4
    DEF Preempted, Lifecycle!SwapOut, Lifecycle!Recompute, Lifecycle!Pass, Inv,
        SeqTypeOK
  <2>2. v \in outputQueue => StopStatus(v) \notin Finished
    <3>1. v \in outputQueue => AsyncOutput
      BY <1>1, <1>2 DEF SyncLinked
    <3>2. RunStopsLate(v) => IsFinished(v)'
      BY DEF RunStopsLate, IsFinished, Inv, SeqTypeOK
    <3> QED
      BY <2>1, <3>1, <3>2, RunEvictsOutcomes
      DEF RunPreempts, IsFinished, Finished
  <2>3. v \in outputQueue => outLen[v] < OutputLen[v]
    <3>1. /\ PromptLen[v] \in Nat /\ outLen[v] \in Nat /\ OutputLen[v] \in Nat
          /\ MaxModelLen \in Nat /\ SeqLen(v) \in Nat
      BY SchedulerAssumption, LengthsAreInt
    <3> QED
      BY <2>2, <3>1 DEF StopStatus, Finished
  <2>4. OutputLinked(v)'
    BY <1>1, <1>2, <2>1, <2>3 DEF OutputLinked, IsFinished, Finished
  <2>5. v \notin waiting /\ v \notin swapped
    BY <1>1
    DEF Linked, GroupLinked, TableLinked, CacheLinked, QueuesLinked,
        ResultsLinked, SelectedLinked, CandidateLinked, TodoLinked, Scheduling,
        Deciding, Planned, ChunkFits, IsFinished, Finished, IsPrefill
  <2>6. SyncLinked(v) => SyncLinked(v)'
    BY <1>1, <2>1, <2>5 DEF SyncLinked, IsFinished, Finished, queueVars
  <2> QED
    BY <1>1, <1>2, <2>4, <2>6, RunEvictsIsLocal, LocalKeepsOutputs
<1> QED
  BY <1>3, <1>4, RunEvictsLife

LEMMA FreeStoppedKeepsOutputs ==
    ASSUME Inv, Linked, OutputsLinked, NEW g \in Groups, FreeStopped(g)
    PROVE  /\ OutputsLinked'
           /\ Lifecycle!Release(g) /\ UNCHANGED status
<1>1. /\ UNCHANGED <<seqVars, waiting, running, swapped, outVars, pc, it>>
      /\ g \in asyncStopped
  BY DEF FreeStopped
<1>2. AsyncOutput /\ OutputLinked(g)
  BY <1>1 DEF OutputsLinked, SyncLinked
<1>3. OutputLinked(g)'
  BY <1>1, <1>2
  DEF OutputLinked, seqVars, outVars, IsFinished, Deciding, Scheduling
<1>4. status[g] = "aborted" /\ device[g] = "gpu"
  BY <1>1
  DEF Linked, GroupLinked, TableLinked, CacheLinked, QueuesLinked,
      ResultsLinked, SelectedLinked, CandidateLinked, TodoLinked, Scheduling,
      Deciding, Planned, ChunkFits, IsFinished, Finished, IsPrefill
<1>5. Lifecycle!Release(g)
  BY <1>1, <1>2, <1>4
  DEF FreeStopped, Free, seqVars, Lifecycle!Release, Lifecycle!Pass, Inv,
      SeqTypeOK
<1> QED
  BY <1>1, <1>2, <1>3, <1>5, FreeStoppedIsLocal, LocalKeepsOutputs DEF seqVars

LEMMA AdvanceKeepsOutputs ==
    ASSUME Inv, Linked, OutputsLinked, NEW g \in Groups, Advance(g)
    PROVE  /\ OutputsLinked'
           /\ Lifecycle!Generate(g) \/ UNCHANGED <<status, device, outLen>>
           /\ UNCHANGED status
<1> DEFINE samples == ~IsFinished(g) /\ computed[g] + it.chunk[g] = SeqLen(g)
<1>1. /\ UNCHANGED <<status, device, queueVars, ignoredQueue, reported, pc>>
      /\ pc = "advance" /\ g \in it.todo
      /\ it'.todo = it.todo \ {g} /\ it'.ignored = it.ignored
      /\ it'.preempted = it.preempted /\ it'.swappedOut = it.swappedOut
      /\ it'.finished = it.finished
      /\ outputQueue' = IF samples THEN outputQueue \cup {g} ELSE outputQueue
      /\ outLen' = IF samples THEN [outLen EXCEPT ![g] = @ + 1] ELSE outLen
  BY CallIsIteration DEF Advance, memVars, Iteration
<1> HIDE DEF samples
<1>2. IsFinished(g) \/ (status[g] = "running" /\ device[g] = "gpu")
  BY <1>1
  DEF Linked, GroupLinked, TableLinked, CacheLinked, QueuesLinked,
      ResultsLinked, SelectedLinked, CandidateLinked, TodoLinked, Scheduling,
      Deciding, Planned, ChunkFits, IsFinished, Finished, IsPrefill
<1>3. OutputLinked(g) /\ (AsyncOutput \/ SyncLinked(g)) /\ g \notin outputQueue
  BY <1>1 DEF OutputsLinked, OutputLinked
<1>4. outLen[g] \in Nat /\ OutputLen[g] \in Nat
  BY SchedulerAssumption, LengthsAreInt
<1>5. CASE samples
  <2>1. outLen'[g] = outLen[g] + 1 /\ status[g] = "running" /\ device[g] = "gpu"
        /\ ~IsFinished(g)
    BY <1>1, <1>2, <1>5 DEF samples, Inv, SeqTypeOK
  <2>2. OutputLinked(g)'
    BY <1>1, <1>3, <1>4, <1>5, <2>1 DEF OutputLinked, IsFinished
  <2>3. SyncLinked(g) => SyncLinked(g)'
    BY <1>1, <1>3 DEF SyncLinked, IsFinished, queueVars
  <2>4. Lifecycle!Generate(g)
    BY <1>1, <1>5, <2>1 DEF Lifecycle!Generate
  <2> QED
    BY <1>1, <1>3, <2>2, <2>3, <2>4, AdvanceIsLocal, LocalKeepsOutputs
<1>6. CASE ~samples
  <2>1. OutputLinked(g)' /\ (SyncLinked(g) => SyncLinked(g)')
    BY <1>1, <1>3, <1>6
    DEF OutputLinked, SyncLinked, IsFinished, queueVars, Deciding, Scheduling
  <2> QED
    BY <1>1, <1>3, <1>6, <2>1, AdvanceIsLocal, LocalKeepsOutputs
<1> QED
  BY <1>5, <1>6

LEMMA ProcessOutputKeepsOutputs ==
    ASSUME Inv, Linked, OutputsLinked, NEW g \in Groups, ProcessOutput(g)
    PROVE  /\ OutputsLinked'
           /\ \/ Lifecycle!Stop(g) /\ status'[g] \in {"stopped", "capped"}
              \/ UNCHANGED <<status, device, outLen>>
<1>1. /\ UNCHANGED <<outLen, queueVars, ignoredQueue, pc>>
      /\ pc \in {"lateOutputs", "outputs"} /\ g \in outputQueue
      /\ outputQueue' = outputQueue \ {g}
      /\ it'.ignored = it.ignored /\ (it.finished => it'.finished)
  BY CallIsIteration DEF ProcessOutput, Iteration
<1>2. OutputLinked(g) /\ (AsyncOutput \/ SyncLinked(g)) /\ outLen[g] > 0
  BY <1>1 DEF OutputsLinked, OutputLinked
<1>3. /\ PromptLen[g] \in Nat /\ outLen[g] \in Nat /\ OutputLen[g] \in Nat
      /\ MaxModelLen \in Nat /\ SeqLen(g) \in Nat
  BY SchedulerAssumption, LengthsAreInt
<1>4. CASE ~IsFinished(g) /\ StopStatus(g) \in Finished
  <2>1. /\ status' = [status EXCEPT ![g] = StopStatus(g)] /\ Free(g)
        /\ reported' = reported \cup {g}
    BY <1>4 DEF ProcessOutput
  <2>2. StopStatus(g) \in {"stopped", "capped"}
    BY <1>4 DEF StopStatus, IsFinished
  <2>3. status'[g] = StopStatus(g) /\ it'.finished
    BY <1>4, <2>1, CallIsIteration DEF ProcessOutput, Inv, SeqTypeOK, Iteration
  <2>4. status[g] = "running" \/ (AsyncOutput /\ status[g] \in {"waiting", "running", "swapped"})
    <3>1. status[g] \in {"waiting", "running", "swapped"}
      BY <1>1, <1>2, <1>4
      DEF OutputLinked, IsFinished, Statuses, Inv, SeqTypeOK
    <3>2. ~AsyncOutput => status[g] = "running"
      BY <1>1, <1>2, <1>4 DEF OutputLinked, SyncLinked, Deciding, Scheduling
    <3> QED
      BY <3>1, <3>2
  <2>5. Lifecycle!Stop(g)
    BY <1>1, <1>2, <2>1, <2>2, <2>4 DEF Free, Lifecycle!Stop, Lifecycle!Live
  <2>6. OutputLinked(g)'
    BY <1>1, <2>2, <2>3 DEF OutputLinked, IsFinished, Finished
  <2>7. ~AsyncOutput => SyncLinked(g)'
    <3>1. ASSUME ~AsyncOutput
          PROVE  status[g] = "running" /\ pc = "outputs" /\ g \notin waiting /\ g \notin swapped
      BY <1>1, <1>2, <2>4, <3>1
      DEF SyncLinked, Linked, GroupLinked, TableLinked, CacheLinked,
          QueuesLinked, ResultsLinked, SelectedLinked, CandidateLinked,
          TodoLinked, Scheduling, Deciding, Planned, ChunkFits, IsFinished,
          Finished, IsPrefill
    <3> QED
      BY <1>1, <1>2, <2>1, <2>2, <2>3, <3>1
      DEF SyncLinked, IsFinished, Finished, queueVars
  <2> QED
    BY <1>1, <2>2, <2>3, <2>5, <2>6, <2>7, ProcessOutputIsLocal,
       LocalKeepsOutputs
<1>5. CASE ~(~IsFinished(g) /\ StopStatus(g) \in Finished)
  <2>1. UNCHANGED <<status, device, reported, it>>
    BY <1>5 DEF ProcessOutput, memVars
  <2>2. ~IsFinished(g) => outLen[g] < OutputLen[g]
    BY <1>3, <1>5 DEF StopStatus, IsFinished, Finished
  <2>3. OutputLinked(g)'
    BY <1>1, <1>2, <2>1, <2>2 DEF OutputLinked, IsFinished
  <2>4. SyncLinked(g) => SyncLinked(g)'
    BY <1>1, <2>1 DEF SyncLinked, IsFinished, queueVars
  <2> QED
    BY <1>1, <1>2, <2>1, <2>3, <2>4, ProcessOutputIsLocal, LocalKeepsOutputs
<1> QED
  BY <1>4, <1>5

-----------------------------------------------------------------------------
(* Steps from one loop to the next change no life.                         *)

LEMMA InitOutputs == Init => OutputsLinked
<1> SUFFICES ASSUME Init, NEW h \in Groups
             PROVE  OutputLinked(h) /\ SyncLinked(h)
  BY DEF OutputsLinked
<1>1. outLen[h] = 0 /\ OutputLen[h] > 0 /\ status[h] = "new"
  BY SchedulerAssumption DEF Init
<1> QED
  BY <1>1 DEF Init, OutputLinked, SyncLinked, IsFinished, Finished

\* Such a step of a call keeps the outputs, and the lists that matter.
LEMMA FrozenKeepsOutputs ==
    ASSUME OutputsLinked, UNCHANGED <<seqVars, outVars, asyncStopped>>,
           pc \notin {"lateOutputs", "advance", "outputs"},
           pc' \notin {"idle", "lateOutputs", "advance", "outputs"},
           running' \subseteq {h \in Groups : ~IsFinished(h)} \cup running,
           waiting' \subseteq {h \in Groups : status[h] = "waiting"} \cup waiting,
           swapped' = swapped,
           Deciding => it'.preempted = it.preempted,
           Deciding => it'.swappedOut = it.swappedOut,
           pc # "idle" => it'.ignored = it.ignored,
           Deciding \/ pc = "idle", Deciding'
    PROVE  OutputsLinked'
<1> SUFFICES ASSUME NEW h \in Groups
             PROVE  OutputLinked(h)' /\ (AsyncOutput \/ SyncLinked(h)')
  BY DEF OutputsLinked
<1>1. OutputLinked(h) /\ (AsyncOutput \/ SyncLinked(h))
  BY DEF OutputsLinked
<1>2. ~(Deciding /\ pc = "idle")
  BY DEF Deciding, Scheduling
<1>3. OutputLinked(h)'
  BY <1>1, <1>2 DEF OutputLinked, seqVars, outVars, IsFinished
<1>4. SyncLinked(h) => SyncLinked(h)'
  BY <1>2 DEF SyncLinked, seqVars, outVars, IsFinished
<1> QED
  BY <1>1, <1>3, <1>4

LEMMA LoopStepsKeepOutputs ==
    ASSUME Inv, Linked, OutputsLinked,
           \/ BeginSchedule \/ ChooseBin \/ BuildProcessList
           \/ EndProcess \/ EnterChunked \/ EndRun \/ EndSwapIn \/ Commit
    PROVE  OutputsLinked' /\ UNCHANGED <<status, device, outLen>>
<1>1. CASE BeginSchedule
  BY <1>1, FrozenKeepsOutputs
  DEF BeginSchedule, Unfinished, Deciding, Scheduling, seqVars, memVars
<1>2. CASE ChooseBin \/ EndProcess
  BY <1>2, FrozenKeepsOutputs
  DEF ChooseBin, EndProcess, queueVars, Deciding, Scheduling, seqVars, memVars
<1>3. CASE BuildProcessList
  <2>1. \E t, c, q : \/ it' = [it EXCEPT !.todo = t, !.seqCap = c, !.quota = q]
                    \/ it' = [it EXCEPT !.todo = t, !.quota = q]
    BY <1>3 DEF BuildProcessList
  <2>2. /\ it'.preempted = it.preempted /\ it'.swappedOut = it.swappedOut
        /\ it'.ignored = it.ignored
    BY <2>1, CallIsIteration DEF Iteration
  <2> QED
    BY <1>3, <2>2, FrozenKeepsOutputs
    DEF BuildProcessList, queueVars, Deciding, Scheduling, seqVars, memVars
<1>4. CASE EnterChunked \/ EndRun \/ EndSwapIn
  <2>1. /\ it'.preempted = it.preempted /\ it'.swappedOut = it.swappedOut
        /\ it'.ignored = it.ignored
    BY <1>4, CallIsIteration DEF EnterChunked, EndRun, EndSwapIn, Iteration
  <2> QED
    BY <1>4, <2>1, FrozenKeepsOutputs
    DEF EnterChunked, EndRun, EndSwapIn, queueVars, Deciding, Scheduling,
        seqVars, memVars
<1>5. CASE Commit
  <2>1. /\ it'.preempted = it.preempted /\ it'.swappedOut = it.swappedOut
        /\ it'.ignored = it.ignored
    BY <1>5, CallIsIteration DEF Commit, Iteration
  <2>2. Scheduling /\ Deciding /\ Deciding'
        /\ pc \notin {"lateOutputs", "advance", "outputs"}
        /\ pc' \notin {"idle", "lateOutputs", "advance", "outputs"}
    BY <1>5 DEF Commit, Decided, Scheduling, Deciding
  <2>3. it.preempted \subseteq {h \in Groups : status[h] = "waiting"}
    BY <2>2, CallIsIteration DEF Iteration, Linked, GroupLinked, ResultsLinked
  <2>4. NewRunning \subseteq {h \in Groups : ~IsFinished(h)}
    BY <2>2, CallIsIteration
    DEF NewRunning, Iteration, Planned, Linked, GroupLinked, ResultsLinked,
        IsFinished, Finished
  <2>5. /\ UNCHANGED <<seqVars, outVars, asyncStopped, swapped, memVars>>
        /\ running' = NewRunning /\ waiting' = waiting \cup it.preempted
    BY <1>5 DEF Commit
  <2>6. OutputsLinked'
    BY <2>1, <2>2, <2>3, <2>4, <2>5, FrozenKeepsOutputs
  <2> QED
    BY <2>5, <2>6 DEF seqVars, memVars
<1> QED
  BY <1>1, <1>2, <1>3, <1>4, <1>5

LEMMA EndScheduleKeepsOutputs ==
    ASSUME Inv, Linked, OutputsLinked, EndSchedule
    PROVE  OutputsLinked' /\ UNCHANGED <<status, device, outLen>>
<1> SUFFICES ASSUME NEW h \in Groups
             PROVE  OutputLinked(h)' /\ (AsyncOutput \/ SyncLinked(h)')
  BY DEF OutputsLinked, EndSchedule, seqVars, memVars
<1>1. /\ UNCHANGED <<seqVars, outVars, asyncStopped, running, waiting>>
      /\ pc = "dull" /\ Deciding
      /\ pc' = IF AsyncOutput THEN "lateOutputs" ELSE "advance"
      /\ swapped' = swapped \cup it.swappedOut
      /\ it'.ignored = it.ignored
  BY CallIsIteration DEF EndSchedule, Deciding, Iteration
<1>2. OutputLinked(h) /\ (AsyncOutput \/ SyncLinked(h))
  BY DEF OutputsLinked
<1>3. ~AsyncOutput => h \notin outputQueue
  BY <1>1, <1>2 DEF SyncLinked
<1>4. OutputLinked(h)'
  BY <1>1, <1>2, <1>3 DEF OutputLinked, seqVars, outVars, IsFinished
<1>5. h \in it.swappedOut => status[h] = "swapped"
  BY <1>1 DEF Linked, GroupLinked, ResultsLinked
<1>6. ~AsyncOutput => SyncLinked(h)'
  BY <1>1, <1>2, <1>3, <1>5 DEF SyncLinked, seqVars, outVars, IsFinished
<1> QED
  BY <1>4, <1>6

LEMMA EndAdvanceKeepsOutputs ==
    ASSUME Inv, Linked, OutputsLinked, EndAdvance
    PROVE  OutputsLinked' /\ UNCHANGED <<status, device, outLen>>
<1> SUFFICES ASSUME NEW h \in Groups
             PROVE  OutputLinked(h)' /\ (AsyncOutput \/ SyncLinked(h)')
  BY DEF OutputsLinked, EndAdvance, seqVars, memVars
<1>1. /\ UNCHANGED <<seqVars, outputQueue, reported, queueVars>>
      /\ pc = "advance" /\ pc' \in {"idle", "outputs"}
      /\ ~AsyncOutput => pc' = "outputs"
      /\ ignoredQueue' = it.ignored
  BY DEF EndAdvance
<1>2. OutputLinked(h) /\ (AsyncOutput \/ SyncLinked(h))
  BY DEF OutputsLinked
<1>3. OutputLinked(h)'
  BY <1>1, <1>2 DEF OutputLinked, seqVars, IsFinished, Deciding, Scheduling
<1>4. ~AsyncOutput => SyncLinked(h)'
  BY <1>1, <1>2 DEF SyncLinked, seqVars, queueVars, IsFinished
<1> QED
  BY <1>3, <1>4

LEMMA EndOutputsKeepsOutputs ==
    ASSUME Inv, Linked, OutputsLinked, EndOutputs
    PROVE  OutputsLinked' /\ UNCHANGED <<status, device, outLen>>
<1> SUFFICES ASSUME NEW h \in Groups
             PROVE  OutputLinked(h)' /\ (AsyncOutput \/ SyncLinked(h)')
  BY DEF OutputsLinked, EndOutputs, seqVars, memVars
<1>1. /\ UNCHANGED <<seqVars, outputQueue, waiting, swapped, asyncStopped>>
      /\ outputQueue = {} /\ pc \in {"lateOutputs", "outputs"}
      /\ pc' = IF pc = "lateOutputs" THEN "advance" ELSE "idle"
      /\ running' = IF it.finished THEN Unfinished(running) ELSE running
      /\ reported' = reported \cup ignoredQueue /\ ignoredQueue' = {}
  BY DEF EndOutputs
<1>2. OutputLinked(h) /\ (AsyncOutput \/ SyncLinked(h))
  BY DEF OutputsLinked
<1>3. OutputLinked(h)'
  BY <1>1, <1>2 DEF OutputLinked, seqVars, IsFinished
<1>4. ~AsyncOutput => SyncLinked(h)'
  BY <1>1, <1>2 DEF SyncLinked, Unfinished, seqVars, IsFinished
<1> QED
  BY <1>3, <1>4

-----------------------------------------------------------------------------
(* All steps.                                                              *)

LifeUnchanged == UNCHANGED <<status, device, outLen>>

\* The step of FeasibleSurvives.
SurvivalStep ==
    \A g \in Groups :
         /\ Feasible(g) /\ ~IsFinished(g)
         /\ status'[g] \in {"aborted", "ignored"}
         => pc \in {"idle", "dull"}

\* A status that is kept survives.
LEMMA UnchangedSurvives ==
    ASSUME status' = status
    PROVE  SurvivalStep
  BY DEF SurvivalStep, IsFinished, Finished

LEMMA DecisionIsLife ==
    ASSUME Inv, NEW g \in Groups, Local(g), Decides(g)
    PROVE  (Lifecycle!Next \/ LifeUnchanged) /\ SurvivalStep
<1>1. Lifecycle!Next \/ LifeUnchanged
  BY
  DEF Decides, Marked, Admitted, Preempted, Dropped, Lifecycle!Next,
      LifeUnchanged
<1>2. SurvivalStep
  <2> SUFFICES ASSUME NEW h \in Groups, Feasible(h), ~IsFinished(h),
                      status'[h] \in {"aborted", "ignored"}
               PROVE  pc \in {"idle", "dull"}
    BY DEF SurvivalStep
  <2>1. status'[h] # status[h]
    BY DEF IsFinished, Finished
  <2>2. h = g
    BY <2>1 DEF Local, Untouched
  <2>3. CASE Marked(g)
    BY <2>2, <2>3 DEF Marked
  <2>4. CASE Admitted(g) \/ Preempted(g)
    BY <2>2, <2>4
    DEF Admitted, Preempted, Lifecycle!Admit, Lifecycle!SwapIn,
        Lifecycle!SwapOut, Lifecycle!Recompute, Lifecycle!Pass, Inv, SeqTypeOK
  <2>5. CASE Dropped(g)
    BY <2>2, <2>5 DEF Dropped
  <2> QED
    BY <2>1, <2>3, <2>4, <2>5 DEF Decides
<1> QED
  BY <1>1, <1>2

\* Clients start and end lives between two steps.
LEMMA ClientsAreLife ==
    ASSUME Inv, Linked, Clients
    PROVE  (Lifecycle!Next \/ LifeUnchanged) /\ SurvivalStep
<1>1. pc = "idle"
  BY DEF Clients, AddSeqGroup, AbortSeqGroup
<1>2. ASSUME NEW g \in Groups, AddSeqGroup(g)
      PROVE  Lifecycle!Next
  <2>1. status[g] = "new" /\ device[g] = "none"
    BY <1>2
    DEF AddSeqGroup, Linked, GroupLinked, TableLinked, CacheLinked,
        QueuesLinked, ResultsLinked, SelectedLinked, CandidateLinked,
        TodoLinked, Scheduling, Deciding, Planned, ChunkFits, IsFinished,
        Finished, IsPrefill
  <2>2. Lifecycle!Arrive(g)
    BY <1>2, <2>1
    DEF AddSeqGroup, memVars, Lifecycle!Arrive, Lifecycle!Pass, Inv, MemSafe,
        MemTypeOK
  <2> QED
    BY <2>2 DEF Lifecycle!Next
<1>3. ASSUME NEW g \in Groups, AbortSeqGroup(g)
      PROVE  Lifecycle!Next \/ LifeUnchanged
  <2>1. CASE g \in Queued /\ ~IsFinished(g)
    <3>1. status[g] \in {"waiting", "running", "swapped"}
      BY <1>1, <2>1
      DEF Queued, Linked, GroupLinked, TableLinked, CacheLinked, QueuesLinked,
          ResultsLinked, SelectedLinked, CandidateLinked, TodoLinked,
          Scheduling, Deciding, Planned, ChunkFits, IsFinished, Finished,
          IsPrefill
    <3>2. Lifecycle!Drop(g)
      BY <1>3, <2>1, <3>1
      DEF AbortSeqGroup, Free, Lifecycle!Drop, Lifecycle!Live
    <3> QED
      BY <3>2 DEF Lifecycle!Next
  <2>2. CASE ~(g \in Queued /\ ~IsFinished(g))
    BY <1>3, <2>2 DEF AbortSeqGroup, memVars, LifeUnchanged
  <2> QED
    BY <2>1, <2>2
<1> QED
  BY <1>1, <1>2, <1>3 DEF Clients, SurvivalStep

\* What every step does with the outputs, with the lives and with the feasible.
LEMMA StepIsLife ==
    ASSUME Inv, Linked, OutputsLinked, [Next]_vars
    PROVE  /\ OutputsLinked'
           /\ Lifecycle!Next \/ LifeUnchanged
           /\ SurvivalStep
<1>1. CASE UNCHANGED vars \/ WaitForRequests
  <2>1. UNCHANGED <<seqVars, memVars, queueVars, outVars, pc, it>>
    BY <1>1 DEF WaitForRequests, vars
  <2>2. OutputsLinked'
    BY <2>1
    DEF OutputsLinked, OutputLinked, SyncLinked, seqVars, queueVars, outVars,
        IsFinished, Deciding, Scheduling
  <2> QED
    BY <2>1, <2>2, UnchangedSurvives DEF seqVars, memVars, LifeUnchanged
<1>2. CASE Clients
  BY <1>2, AddSeqGroupKeepsOutputs, AbortSeqGroupKeepsOutputs, ClientsAreLife
  DEF Clients
<1>3. ASSUME NEW g \in Groups,
             \/ PreemptPending(g) \/ Process(g) \/ SwapInSelected(g)
             \/ RunSelected(g) \/ PrefillSelected(g) \/ RunNext(g)
             \/ SwapInNext(g) \/ PrefillNext(g) \/ DullAbort(g)
             \/ RunFits /\ g = it.cand
      PROVE  OutputsLinked' /\ (Lifecycle!Next \/ LifeUnchanged) /\ SurvivalStep
  <2>1. Local(g)
    BY <1>3, PreemptPendingIsLocal, ProcessIsLocal, SwapInSelectedIsLocal,
       RunSelectedIsLocal, PrefillSelectedIsLocal, RunNextIsLocal,
       SwapInNextIsLocal, PrefillNextIsLocal, DullAbortIsLocal, RunFitsDecides
  <2>2. Decides(g)
    BY <1>3, PreemptPendingDecides, ProcessDecides, SwapInSelectedDecides,
       RunSelectedDecides, PrefillSelectedDecides, RunNextDecides,
       SwapInNextDecides, PrefillNextDecides, DullAbortDecides, RunFitsDecides
  <2> QED
    BY <2>1, <2>2, DecisionKeepsOutputs, DecisionIsLife
<1>4. ASSUME NEW g \in Groups,
             RunEvicts(g) \/ FreeStopped(g) \/ Advance(g) \/ ProcessOutput(g)
      PROVE  OutputsLinked' /\ (Lifecycle!Next \/ LifeUnchanged) /\ SurvivalStep
  <2>1. OutputsLinked'
    BY <1>4, RunEvictsKeepsOutputs, FreeStoppedKeepsOutputs,
       AdvanceKeepsOutputs, ProcessOutputKeepsOutputs
  <2>2. Lifecycle!Next \/ LifeUnchanged
    BY <1>4, RunEvictsLife, FreeStoppedKeepsOutputs, AdvanceKeepsOutputs,
       ProcessOutputKeepsOutputs
    DEF EvictionEnds, Preempted, Lifecycle!Next, LifeUnchanged
  <2>3. Local(g)
    BY <1>4, RunEvictsIsLocal, FreeStoppedIsLocal, AdvanceIsLocal,
       ProcessOutputIsLocal
  <2>4. status' = status \/ status'[g] \in {"stopped", "capped", "waiting", "swapped"}
    <3>1. Preempted(g) => status'[g] \in {"waiting", "swapped"}
      BY
      DEF Preempted, Lifecycle!SwapOut, Lifecycle!Recompute, Lifecycle!Pass,
          Inv, SeqTypeOK
    <3> QED
      BY <1>4, <3>1, RunEvictsLife, FreeStoppedKeepsOutputs,
         AdvanceKeepsOutputs, ProcessOutputKeepsOutputs
      DEF EvictionEnds
  <2>5. SurvivalStep
    BY <2>3, <2>4, UnchangedSurvives
    DEF SurvivalStep, Local, Untouched, IsFinished, Finished
  <2> QED
    BY <2>1, <2>2, <2>5
<1>5. CASE \/ BeginSchedule \/ ChooseBin \/ BuildProcessList
           \/ EndProcess \/ EnterChunked \/ EndRun \/ EndSwapIn \/ Commit
           \/ EndSchedule \/ EndAdvance \/ EndOutputs
  <2>1. OutputsLinked' /\ LifeUnchanged
    BY <1>5, LoopStepsKeepOutputs, EndScheduleKeepsOutputs,
       EndAdvanceKeepsOutputs, EndOutputsKeepsOutputs
    DEF LifeUnchanged
  <2> QED
    BY <2>1, UnchangedSurvives DEF LifeUnchanged
<1>6. CASE RunFits
  <2>1. it.cand \in Groups
    BY <1>6, CandidateIsGroup DEF RunFits
  <2> QED
    BY <1>3, <1>6, <2>1
<1> QED
  BY <1>1, <1>2, <1>3, <1>4, <1>5, <1>6 DEF Next, Engine

\* The inductive invariant of this module.
THEOREM OutputsAlwaysLinked == Spec => [](Inv /\ Linked /\ OutputsLinked)
<1>1. Init => OutputsLinked
  BY InitOutputs
<1>2. Inv /\ Linked /\ OutputsLinked /\ [Next]_vars => OutputsLinked'
  BY StepIsLife
<1> QED
  BY <1>1, <1>2, LinkedAlways, PTL DEF Spec

\* The scheduler implements the life of a request: whatever the interleaving
\* of clients, swaps, preemptions, late outputs and aborts, a request takes
\* only the steps of RequestLifecycle.
THEOREM SchedulerImplementsLifecycle == Spec => ImplementsLifecycle
<1>1. Init => Lifecycle!Init
  BY DEF Init, MemInit, Lifecycle!Init
<1>2. Inv /\ Linked /\ OutputsLinked /\ [Next]_vars
        => [Lifecycle!Next]_(Lifecycle!lifeVars)
  BY StepIsLife DEF LifeUnchanged, Lifecycle!lifeVars
<1> QED
  BY <1>1, <1>2, OutputsAlwaysLinked, PTL
  DEF Spec, ImplementsLifecycle, Lifecycle!Spec

\* A request that fits the GPU when it runs alone is not given up by the
\* scheduler: only a client or the dull-scheduling abort ends it early.
THEOREM FeasibleAlwaysSurvives == Spec => FeasibleSurvives
<1>1. Inv /\ Linked /\ OutputsLinked /\ [Next]_vars
        => [\A g \in Groups :
              /\ Feasible(g) /\ ~IsFinished(g)
              /\ status'[g] \in {"aborted", "ignored"}
              => pc \in {"idle", "dull"}]_vars
  BY StepIsLife DEF SurvivalStep
<1> QED
  BY <1>1, OutputsAlwaysLinked, PTL DEF Spec, FeasibleSurvives

\* When outputs are processed in the step that computes them, a finished group
\* has been reported to its client between two steps, or is about to be.
THEOREM FinishedIsAlwaysReported ==
    ASSUME ~AsyncOutput
    PROVE  Spec => []FinishedIsReported
<1>1. OutputsLinked => FinishedIsReported
  BY DEF OutputsLinked, SyncLinked, FinishedIsReported
<1> QED
  BY <1>1, OutputsAlwaysLinked, PTL

\* Between two steps the queues are exactly the groups of their status, when
\* outputs are processed in the step that computes them and the token budget
\* is ample.
THEOREM QueuesAreAlwaysStatus ==
    ASSUME AmpleBudget, ~AsyncOutput
    PROVE  Spec => []QueueIsStatus
<1>1. Inv /\ Linked /\ OutputsLinked /\ LiveIsQueued => QueueIsStatus
  <2> SUFFICES ASSUME Inv, Linked, OutputsLinked, LiveIsQueued, pc = "idle"
               PROVE  QueueIsStatus
    BY DEF QueueIsStatus
  <2>1. waiting \subseteq Groups /\ running \subseteq Groups
        /\ swapped \subseteq Groups
    BY DEF Inv, QueueTypeOK
  <2>2. ASSUME NEW g \in Groups
        PROVE  /\ g \in waiting <=> status[g] = "waiting"
               /\ g \in running <=> status[g] = "running"
               /\ g \in swapped <=> status[g] = "swapped"
    <3>1. SyncLinked(g) /\ QueuesLinked(g)
      BY DEF OutputsLinked, Linked, GroupLinked
    <3> QED
      BY <3>1 DEF SyncLinked, QueuesLinked, Scheduling, LiveIsQueued
  <2>3. /\ waiting = {g \in Groups : status[g] = "waiting"}
        /\ running = {g \in Groups : status[g] = "running"}
        /\ swapped = {g \in Groups : status[g] = "swapped"}
    BY <2>1, <2>2
  <2> QED
    BY <2>3 DEF QueueIsStatus
<1> QED
  BY <1>1, OutputsAlwaysLinked, LiveIsAlwaysQueued, PTL

-----------------------------------------------------------------------------
(* Sorting.                                                                *)

\* t is s, of n elements, reordered by key.
Reorders(t, s, n, key) ==
    \E p \in [1..n -> 1..n] :
      /\ \A i, j \in 1..n : i # j => p[i] # p[j]
      /\ \A i \in 1..n : \E k \in 1..n : p[k] = i
      /\ t = [k \in 1..n |-> s[p[k]]]
      /\ \A i, j \in 1..n : i < j => key[s[p[i]]] <= key[s[p[j]]]

\* Each place has one element: that with as many before it.
LEMMA SortReorders ==
    ASSUME NEW A, NEW s \in Seq(A), NEW key, \A i \in DOMAIN s : key[s[i]] \in Int
    PROVE  Reorders(StableSort(s, key), s, Len(s), key)
<1> DEFINE D == 1..Len(s)
           Before(i) == {j \in D : \/ key[s[j]] < key[s[i]]
                                   \/ key[s[j]] = key[s[i]] /\ j < i}
           rank == [i \in D |-> Cardinality(Before(i)) + 1]
           p == [k \in D |-> CHOOSE i \in D : rank[i] = k]
<1>1. DOMAIN s = D /\ Len(s) \in Nat
  OBVIOUS
<1>2. StableSort(s, key) = [k \in D |-> s[p[k]]]
  BY <1>1 DEF StableSort
<1>3. IsFiniteSet(D) /\ Cardinality(D) = Len(s)
  <2>1. ASSUME NEW k \in Nat
        PROVE  /\ IsFiniteSet(1..k)
               /\ Cardinality(1..k) = IF 1 > k THEN 0 ELSE k - 1 + 1
    BY FS_Interval
  <2>2. \A k \in Nat : IsFiniteSet(1..k) /\ Cardinality(1..k) = k
    BY <2>1
  <2> QED
    BY <1>1, <2>2, Zenon
<1>4. ASSUME NEW i \in D, NEW j \in D
      PROVE  /\ IsFiniteSet(Before(i)) /\ Cardinality(Before(i)) \in Nat
             /\ i \in Before(j) => Cardinality(Before(i)) < Cardinality(Before(j))
             /\ i # j => i \in Before(j) \/ j \in Before(i)
             /\ Cardinality(Before(i)) < Len(s)
  <2>1. key[s[i]] \in Int /\ key[s[j]] \in Int /\ i \in Int /\ j \in Int
    BY <1>1
  <2>2. /\ IsFiniteSet(Before(i)) /\ Cardinality(Before(i)) \in Nat
        /\ IsFiniteSet(Before(j)) /\ Cardinality(Before(j)) \in Nat
    BY <1>3, FS_Subset, FS_CardinalityType
  <2>3. i # j => i \in Before(j) \/ j \in Before(i)
    BY <2>1
  <2>4. i \notin Before(i)
    BY <2>1
  <2>5. i \in Before(j) => Before(i) \subseteq Before(j)
    <3> SUFFICES ASSUME i \in Before(j), NEW k \in Before(i)
                 PROVE  k \in Before(j)
      OBVIOUS
    <3>1. key[s[k]] \in Int /\ k \in Int
      BY <1>1
    <3> QED
      BY <2>1, <3>1
  <2>6. i \in Before(j) => Cardinality(Before(i)) < Cardinality(Before(j))
    <3> HIDE DEF Before
    <3> QED
      BY <2>2, <2>4, <2>5, FS_Subset
  <2>7. Before(i) \subseteq D \ {i} /\ IsFiniteSet(D \ {i})
        /\ Cardinality(D \ {i}) = Len(s) - 1
    BY <1>3, <2>4, FS_RemoveElement
  <2>8. Cardinality(Before(i)) <= Len(s) - 1
    <3> HIDE DEF Before, D
    <3> QED
      BY <2>7, FS_Subset
  <2> HIDE DEF Before, D
  <2> QED
    BY <1>1, <2>2, <2>3, <2>6, <2>8
<1> HIDE DEF Before
<1>5. ASSUME NEW i \in D, NEW j \in D
      PROVE  /\ rank[i] \in D
             /\ i \in Before(j) => rank[i] < rank[j]
             /\ i # j => rank[i] # rank[j]
  <2>1. rank[i] = Cardinality(Before(i)) + 1 /\ rank[j] = Cardinality(Before(j)) + 1
    OBVIOUS
  <2> HIDE DEF rank
  <2> QED
    BY <1>1, <1>4, <2>1
<1>6. \A k \in D : \E i \in D : rank[i] = k
  <2>1. rank \in [D -> D]
    BY <1>5
  <2>2. rank \in Injection(D, D)
    <3> HIDE DEF rank, D
    <3> QED
      BY <1>5, <2>1, Fun_IsInj
  <2>3. rank \in Surjection(D, D)
    <3> HIDE DEF rank, D
    <3> QED
      BY <1>3, <2>2, FS_Injection
  <2> HIDE DEF rank, D
  <2> QED
    BY <2>3, Fun_SurjectionProperties
<1>7. \A k \in D : p[k] \in D /\ rank[p[k]] = k
  BY <1>6
<1> HIDE DEF rank
<1>8. p \in [D -> D]
  BY <1>7
<1> HIDE DEF p
<1>9. \A i, j \in D : i # j => p[i] # p[j]
  BY <1>7
<1>10. \A i \in D : \E k \in D : p[k] = i
  <2> SUFFICES ASSUME NEW i \in D PROVE p[rank[i]] = i
    BY <1>5
  <2>1. rank[i] \in D /\ p[rank[i]] \in D /\ rank[p[rank[i]]] = rank[i]
    BY <1>5, <1>7
  <2> QED
    BY <1>5, <2>1
<1>11. ASSUME NEW i \in D, NEW j \in D, i < j
       PROVE  key[s[p[i]]] <= key[s[p[j]]]
  <2>1. rank[p[i]] = i /\ rank[p[j]] = j /\ p[i] \in D /\ p[j] \in D /\ p[i] # p[j]
    BY <1>7, <1>9, <1>11
  <2>2. p[j] \notin Before(p[i])
    BY <1>5, <1>11, <2>1
  <2>3. p[i] \in Before(p[j])
    BY <1>4, <2>1, <2>2
  <2>4. key[s[p[i]]] \in Int /\ key[s[p[j]]] \in Int
    BY <1>1, <2>1
  <2> QED
    BY <2>3, <2>4 DEF Before
<1> QED
  BY <1>2, <1>8, <1>9, <1>10, <1>11 DEF Reorders

-----------------------------------------------------------------------------
(* The groups that are considered.                                         *)

\* T lists groups of S, each once, the shorter ones first.
ListsByLength(T, S) ==
    /\ T \in Seq(S)
    /\ \A i, j \in 1..Len(T) : i < j => T[i] # T[j] /\ SeqLen(T[i]) <= SeqLen(T[j])

\* top_mk.
LEMMA TopByLength ==
    ASSUME NEW S \in SUBSET Groups, IsFiniteSet(S), \A g \in Groups : SeqLen(g) \in Int,
           NEW list \in SetToSeqs(S), NEW gain \in [S -> Gains], NEW m \in Nat
    PROVE  LET T == TopGroups(list, gain, m)
           IN ListsByLength(T, S) /\ Len(T) = Min2(m, Cardinality(S))
<1> DEFINE n == Cardinality(S)
           u == StableSort(list, gain)
           size == Min2(m, n)
           first == Prefix(u, m)
           len == [g \in Groups |-> SeqLen(g)]
           T == StableSort(first, len)
<1>1. n \in Nat /\ size \in Nat /\ size <= n
  BY FS_CardinalityType DEF Min2
<1>2. /\ list \in [1..n -> S]
      /\ \A i, j \in 1..n : i # j => list[i] # list[j]
  BY DEF SetToSeqs
<1> HIDE DEF n
<1>3. list \in Seq(S) /\ Len(list) = n /\ DOMAIN list = 1..n
  BY <1>1, <1>2
<1>4. \A i \in DOMAIN list : gain[list[i]] \in Int
  BY <1>2, <1>3, GainsAssumption
<1>5. PICK p \in [1..n -> 1..n] :
        /\ \A i, j \in 1..n : i # j => p[i] # p[j]
        /\ u = [k \in 1..n |-> list[p[k]]]
  <2>1. Reorders(u, list, n, gain)
    BY <1>3, <1>4, SortReorders
  <2> HIDE DEF u
  <2> QED
    BY <2>1, Zenon DEF Reorders
<1> HIDE DEF u
<1>6. u \in Seq(S) /\ Len(u) = n /\ \A i, j \in 1..n : i # j => u[i] # u[j]
  <2>1. u \in [1..n -> S]
    BY <1>2, <1>5
  <2>2. u \in Seq(S) /\ Len(u) = n
    BY <1>1, <2>1
  <2>3. ASSUME NEW i \in 1..n, NEW j \in 1..n, i # j
        PROVE  u[i] # u[j]
    <3>1. u[i] = list[p[i]] /\ u[j] = list[p[j]] /\ p[i] # p[j]
      BY <1>5, <2>3
    <3>2. p[i] \in 1..n /\ p[j] \in 1..n
      BY <1>5
    <3> QED
      BY <1>2, <3>1, <3>2, Zenon
  <2> QED
    BY <2>2, <2>3
<1>7. first = SubSeq(u, 1, size)
  <2>1. Min2(m, n) = Min2(m, Len(u))
    BY <1>6
  <2> QED
    BY <1>6 DEF Prefix
<1> HIDE DEF first, size
<1>8. /\ first \in Seq(S) /\ Len(first) = size
      /\ \A i \in 1..size : first[i] = u[i]
  <2>1. \A i \in 1..size : u[i] \in S
    BY <1>1, <1>6
  <2>2. /\ SubSeq(u, 1, size) \in Seq(S)
        /\ Len(SubSeq(u, 1, size)) = IF 1 <= size THEN size - 1 + 1 ELSE 0
        /\ \A i \in 1..(size - 1 + 1) : SubSeq(u, 1, size)[i] = u[1 + i - 1]
    BY <1>1, <2>1, SubSeqProperties
  <2> QED
    BY <1>1, <1>7, <2>2
<1>9. ASSUME NEW i \in 1..size, NEW j \in 1..size, i # j
      PROVE  first[i] # first[j]
  <2>1. i \in 1..n /\ j \in 1..n
    BY <1>1
  <2>2. u[i] # u[j]
    BY <1>6, <1>9, <2>1, Zenon
  <2> QED
    BY <1>8, <2>2, Zenon
<1>10. PICK q \in [1..size -> 1..size] :
        /\ \A i, j \in 1..size : i # j => q[i] # q[j]
        /\ T = [k \in 1..size |-> first[q[k]]]
        /\ \A i, j \in 1..size : i < j => len[first[q[i]]] <= len[first[q[j]]]
  <2>1. \A i \in DOMAIN first : len[first[i]] \in Int
    BY <1>8
  <2>2. Reorders(T, first, size, len)
    <3> HIDE DEF len
    <3> QED
      BY <1>8, <2>1, SortReorders
  <2> HIDE DEF T, len
  <2> QED
    BY <2>2, Zenon DEF Reorders
<1> HIDE DEF T
<1>11. T \in [1..size -> S]
  <2>1. \A i \in 1..size : first[i] \in S
    BY <1>8
  <2> QED
    BY <1>10, <2>1
<1>12. T \in Seq(S) /\ Len(T) = size
  BY <1>1, <1>11
<1>13. ASSUME NEW i \in 1..size, NEW j \in 1..size, i < j
       PROVE  T[i] # T[j] /\ SeqLen(T[i]) <= SeqLen(T[j])
  <2>1. /\ T[i] = first[q[i]] /\ T[j] = first[q[j]] /\ T[i] \in Groups /\ T[j] \in Groups
        /\ q[i] \in 1..size /\ q[j] \in 1..size /\ q[i] # q[j]
    <3>1. q[i] \in 1..size /\ q[j] \in 1..size /\ i # j
      <4>1. i # j
        BY <1>1, <1>13
      <4>2. q[i] \in 1..size /\ q[j] \in 1..size
        BY <1>10
      <4> QED
        BY <4>1, <4>2
    <3>2. T[i] \in S /\ T[j] \in S
      BY <1>11
    <3>3. T[i] = first[q[i]] /\ T[j] = first[q[j]] /\ q[i] # q[j]
      BY <1>10, <3>1
    <3> QED
      BY <3>1, <3>2, <3>3
  <2>2. SeqLen(T[i]) = len[T[i]] /\ SeqLen(T[j]) = len[T[j]]
    BY <2>1
  <2> HIDE DEF len
  <2> QED
    BY <1>9, <1>10, <1>13, <2>1, <2>2
<1>14. ListsByLength(T, S) /\ Len(T) = Min2(m, n)
  BY <1>12, <1>13 DEF ListsByLength, size
<1>15. T = TopGroups(list, gain, m)
  BY DEF TopGroups, T, first, u, len
<1> QED
  BY <1>14, <1>15 DEF n

-----------------------------------------------------------------------------
(* Parts of that list.                                                     *)

Part(T, a, b) == {T[i] : i \in a..b}

\* As many groups as places.
LEMMA PartCardinality ==
    ASSUME NEW S, NEW T, ListsByLength(T, S), NEW a \in 1..(Len(T) + 1), NEW b \in 0..Len(T),
           a <= b + 1
    PROVE  /\ IsFiniteSet(Part(T, a, b)) /\ Cardinality(Part(T, a, b)) = b - a + 1
           /\ Part(T, a, b) \subseteq S
<1> DEFINE P == Part(T, a, b)
           f == [i \in a..b |-> T[i]]
<1>1. /\ T \in Seq(S) /\ Len(T) \in Nat /\ DOMAIN T = 1..Len(T)
      /\ a \in Int /\ b \in Int /\ a..b \subseteq 1..Len(T)
  BY DEF ListsByLength
<1>2. \A i, j \in 1..Len(T) : i # j => T[i] # T[j]
  BY <1>1 DEF ListsByLength
<1>3. P \subseteq S /\ \A i \in a..b : f[i] \in P
  BY <1>1 DEF Part
<1>4. f \in Injection(a..b, P)
  <2>1. f \in [a..b -> P] /\ \A i, j \in a..b : f[i] = f[j] => i = j
    BY <1>1, <1>2, <1>3
  <2> HIDE DEF f, P
  <2> QED
    BY <2>1, Fun_IsInj
<1>5. \A t \in P : \E i \in a..b : f[i] = t
  BY DEF Part
<1>6. f \in Surjection(a..b, P)
  <2>1. f \in [a..b -> P]
    BY <1>3
  <2> HIDE DEF f, P
  <2> QED
    BY <1>5, <2>1, Fun_IsSurj
<1>7. IsFiniteSet(a..b) /\ Cardinality(a..b) = b - a + 1
  <2>1. /\ IsFiniteSet(a..b)
        /\ Cardinality(a..b) = IF a > b THEN 0 ELSE b - a + 1
    BY <1>1, FS_Interval
  <2>2. a > b => b - a + 1 = 0
    BY <1>1
  <2> QED
    BY <2>1, <2>2
<1> HIDE DEF f, P
<1>8. IsFiniteSet(P) /\ Cardinality(P) = Cardinality(a..b)
  BY <1>4, <1>6, <1>7, FS_Surjection
<1> QED
  BY <1>3, <1>7, <1>8 DEF P

\* A part of the list is what SLOScheduler calls a slice.
LEMMA PartIsSlice ==
    ASSUME NEW S, NEW T, ListsByLength(T, S), NEW a \in 1..Len(T), NEW b \in a..Len(T)
    PROVE  Part(T, a, b) \in Slices(Part(T, 1, Len(T)), a, b)
<1> DEFINE n == Len(T)
           All == Part(T, 1, n)
           W == Part(T, a, b)
           P == Part(T, 1, a - 1)
<1>1. n \in Nat /\ a \in Int /\ b \in Int /\ 1 <= a /\ a <= b /\ b <= n
  BY DEF ListsByLength
<1>2. \A i, j \in 1..n : i < j => T[i] # T[j] /\ SeqLen(T[i]) <= SeqLen(T[j])
  BY DEF ListsByLength
<1>3. W \in SUBSET All /\ P \in SUBSET All
  BY <1>1 DEF Part
<1>4. Cardinality(W) = b - a + 1
  <2>1. a \in 1..(Len(T) + 1) /\ b \in 0..Len(T) /\ a <= b + 1
    BY <1>1
  <2> QED
    BY <2>1, PartCardinality
<1>5. Cardinality(P) = a - 1
  <2>1. Cardinality(P) = (a - 1) - 1 + 1
    BY <1>1, PartCardinality
  <2> HIDE DEF P
  <2> QED
    BY <1>1, <2>1
<1>6. P \in SUBSET (All \ W)
  BY <1>1, <1>2, <1>3 DEF Part
<1>7. \A p \in P, w \in W : SeqLen(p) <= SeqLen(w)
  <2> SUFFICES ASSUME NEW i \in 1..(a - 1), NEW j \in a..b
               PROVE  SeqLen(T[i]) <= SeqLen(T[j])
    BY DEF Part
  <2> QED
    BY <1>1, <1>2
<1>8. \A w \in W, r \in All \ (W \cup P) : SeqLen(w) <= SeqLen(r)
  <2> SUFFICES ASSUME NEW i \in a..b, NEW j \in 1..n, T[j] \notin W, T[j] \notin P
               PROVE  SeqLen(T[i]) <= SeqLen(T[j])
    BY DEF Part
  <2>1. j \notin a..b /\ j \notin 1..(a - 1)
    BY DEF Part
  <2>2. i < j /\ i \in 1..n
    BY <1>1, <2>1
  <2> QED
    BY <1>2, <2>2
<1> HIDE DEF All, W, P
<1>9. W \in kSubset(b - a + 1, All) /\ P \in kSubset(a - 1, All \ W)
  BY <1>3, <1>4, <1>5, <1>6 DEF kSubset
<1>10. W \in Slices(All, a, b)
  BY <1>7, <1>8, <1>9 DEF Slices
<1> QED
  BY <1>10 DEF All, W

\* The longest groups of a part up to the end are as long as the last one.
LEMMA LongestIsLast ==
    ASSUME NEW S, NEW T, ListsByLength(T, S), \A g \in S : SeqLen(g) \in Int,
           NEW a \in 1..Len(T)
    PROVE  Max(Lengths(Part(T, a, Len(T)))) = SeqLen(T[Len(T)])
<1> DEFINE n == Len(T)
           L == Lengths(Part(T, a, n))
           top == SeqLen(T[n])
<1>1. /\ n \in Nat /\ a \in Int /\ 1 <= a /\ a <= n
      /\ \A i \in 1..n : T[i] \in S
  BY DEF ListsByLength
<1>2. top \in L
  BY <1>1 DEF Part, Lengths
<1>3. \A x \in L : x \in Int /\ x <= top
  <2> SUFFICES ASSUME NEW i \in a..n
               PROVE  SeqLen(T[i]) \in Int /\ SeqLen(T[i]) <= SeqLen(T[n])
    BY DEF Part, Lengths
  <2>1. i \in 1..n /\ n \in 1..n /\ (i < n \/ i = n)
    BY <1>1
  <2>2. SeqLen(T[i]) \in Int
    BY <1>1, <2>1
  <2> QED
    BY <2>1, <2>2 DEF ListsByLength
<1> HIDE DEF L, top
<1>4. \A x \in L : (\A y \in L : x >= y) <=> x = top
  BY <1>2, <1>3
<1>5. Max(L) = top
  BY <1>2, <1>4 DEF Max
<1> QED
  BY <1>5 DEF L, top

\* A slice of the list.
LEMMA SliceIsPart ==
    ASSUME NEW S, NEW T, ListsByLength(T, S), NEW a \in 1..Len(T), NEW b \in a..Len(T)
    PROVE  /\ SubSeq(T, a, b) \in Seq(S)
           /\ Len(SubSeq(T, a, b)) = b - a + 1
           /\ ToSet(SubSeq(T, a, b)) = Part(T, a, b)
<1> DEFINE u == SubSeq(T, a, b)
<1>1. a \in Int /\ b \in Int /\ a <= b /\ \A i \in a..b : T[i] \in S
  BY DEF ListsByLength
<1>2. /\ u \in Seq(S)
      /\ Len(u) = IF a <= b THEN b - a + 1 ELSE 0
      /\ \A i \in 1..(b - a + 1) : u[i] = T[a + i - 1]
  BY <1>1, SubSeqProperties
<1> HIDE DEF u
<1>3. Len(u) = b - a + 1 /\ DOMAIN u = 1..(b - a + 1)
  BY <1>1, <1>2
<1>4. ToSet(u) \subseteq Part(T, a, b)
  <2> SUFFICES ASSUME NEW i \in 1..(b - a + 1) PROVE u[i] \in Part(T, a, b)
    BY <1>3 DEF ToSet
  <2>1. a + i - 1 \in a..b
    BY <1>1
  <2> QED
    BY <1>2, <2>1 DEF Part
<1>5. Part(T, a, b) \subseteq ToSet(u)
  <2> SUFFICES ASSUME NEW j \in a..b PROVE T[j] \in ToSet(u)
    BY DEF Part
  <2> DEFINE i == j - a + 1
  <2>1. i \in 1..(b - a + 1) /\ a + i - 1 = j
    BY <1>1
  <2> HIDE DEF i
  <2>2. u[i] = T[j]
    BY <1>2, <2>1
  <2> QED
    BY <1>3, <2>1, <2>2 DEF ToSet
<1> QED
  BY <1>2, <1>3, <1>4, <1>5 DEF u

-----------------------------------------------------------------------------
(* The best of some.                                                       *)

\* A finite set has a first member of least score.
LEMMA SmallestIsMember ==
    ASSUME NEW S \in SUBSET Int, IsFiniteSet(S), S # {}, NEW score,
           \A i \in S : score[i] \in Int
    PROVE  Smallest(S, score) \in S
<1>1. \E k \in S : \A j \in S : score[k] < score[j] \/ (score[k] = score[j] /\ k <= j)
  BY FirstOfLeast
<1> QED
  BY <1>1 DEF Smallest

\* Gains have a sum.
LEMMA SumOfType ==
    ASSUME NEW S, NEW s \in Seq(S), NEW gain \in [S -> Gains]
    PROVE  SumOf(s, gain) \in Int
<1> DEFINE v == [i \in DOMAIN s |-> gain[s[i]]]
           D == DOMAIN s
<1>1. SumOf(s, gain) = Sum(v, D)
  <2>1. SumOf(s, gain) = FoldFunction(+, 0, v) /\ DOMAIN v = D
    BY DEF SumOf
  <2> HIDE DEF v, D
  <2> QED
    BY <2>1 DEF FoldFunction, FoldFunctionOnSet, MapThenFoldSet, Sum, IsSum, Pick
<1>2. D = 1..Len(s) /\ Len(s) \in Nat /\ \A i \in D : v[i] \in Int
  <2>1. D = 1..Len(s) /\ Len(s) \in Nat /\ \A i \in D : s[i] \in S
    OBVIOUS
  <2>2. \A i \in D : gain[s[i]] \in Int
    BY <2>1, GainsAssumption
  <2> QED
    BY <2>1, <2>2
<1>3. IsFiniteSet(D)
  BY <1>2, FS_Interval
<1> HIDE DEF v, D
<1> QED
  BY <1>1, <1>2, <1>3, SumType

-----------------------------------------------------------------------------
(* The window.                                                             *)

LEMMA QueuedFinite ==
    ASSUME Inv
    PROVE  /\ Queued \in SUBSET Groups /\ IsFiniteSet(Queued)
           /\ \A g \in Groups : SeqLen(g) \in Int
<1>1. Queued \in SUBSET Groups
  BY DEF Inv, QueueTypeOK, Queued
<1>2. IsFiniteSet(Queued)
  BY <1>1, SchedulerAssumption, FS_Subset
<1>3. \A g \in Groups : SeqLen(g) \in Int
  <2>1. SeqTypeOK
    BY DEF Inv
  <2>2. outLen \in [Groups -> Nat] /\ PromptLen \in [Groups -> Nat \ {0}]
    BY <2>1, SchedulerAssumption DEF SeqTypeOK
  <2> QED
    BY <2>2 DEF SeqLen
<1> QED
  BY <1>1, <1>2, <1>3

LEMMA WindowIsSlice ==
    ASSUME NEW S \in SUBSET Groups, NEW T, ListsByLength(T, S), NEW gain \in [S -> Gains],
           NEW size \in Nat \ {0}, Len(T) >= size
    PROVE  \E i \in 1..(Len(T) - size + 1) :
             ToSet(Window(T, BestWindow(T, gain, size), size))
               \in Slices(Part(T, 1, Len(T)), i, i + size - 1)
<1> DEFINE n == Len(T)
           places == 1..(n - size + 1)
           score == [i \in places |-> SumOf(Window(T, i, size), gain)]
           at == BestWindow(T, gain, size)
<1>1. n \in Nat /\ size \in Int /\ size >= 1 /\ n >= size
  BY DEF ListsByLength
<1>2. ASSUME NEW i \in places
      PROVE  /\ i \in 1..n /\ i + size - 1 \in i..n
             /\ Window(T, i, size) \in Seq(S)
             /\ ToSet(Window(T, i, size)) = Part(T, i, i + size - 1)
  <2>1. i \in 1..n /\ i + size - 1 \in i..n
    BY <1>1
  <2> QED
    BY <2>1, SliceIsPart DEF Window
<1>3. \A i \in places : score[i] \in Int
  BY <1>2, SumOfType
<1>4. places \in SUBSET Int /\ places # {} /\ IsFiniteSet(places)
  <2>1. n - size + 1 \in Int /\ 1 <= n - size + 1
    BY <1>1
  <2>2. 1 \in places /\ places \subseteq Int
    BY <2>1
  <2>3. IsFiniteSet(places)
    BY <2>1, FS_Interval
  <2> QED
    BY <2>2, <2>3
<1>5. at = Smallest(places, score)
  BY DEF BestWindow
<1> HIDE DEF at, score, places
<1>6. at \in places
  BY <1>3, <1>4, <1>5, SmallestIsMember
<1>7. ToSet(Window(T, at, size)) \in Slices(Part(T, 1, n), at, at + size - 1)
  BY <1>2, <1>6, PartIsSlice
<1> QED
  BY <1>6, <1>7 DEF at, places

\* The list has all the groups that RecomputeBins considers.
LEMMA TopIsSubset ==
    ASSUME NEW S, IsFiniteSet(S), NEW T, ListsByLength(T, S), NEW m \in Nat,
           Len(T) = Min2(m, Cardinality(S))
    PROVE  /\ Part(T, 1, Len(T)) \in kSubset(Min2(Cardinality(S), m), S)
           /\ Cardinality(Part(T, 1, Len(T))) = Len(T)
<1>1. Len(T) \in Nat /\ Cardinality(S) \in Nat
  BY FS_CardinalityType DEF ListsByLength
<1>2. 1 \in 1..(Len(T) + 1) /\ Len(T) \in 0..Len(T) /\ 1 <= Len(T) + 1
      /\ Len(T) - 1 + 1 = Len(T)
  BY <1>1
<1>3. Part(T, 1, Len(T)) \subseteq S /\ Cardinality(Part(T, 1, Len(T))) = Len(T)
  <2>1. /\ Part(T, 1, Len(T)) \subseteq S
        /\ Cardinality(Part(T, 1, Len(T))) = Len(T) - 1 + 1
    BY <1>2, PartCardinality
  <2> QED
    BY <1>2, <2>1
<1>4. Min2(Cardinality(S), m) = Len(T)
  BY <1>1 DEF Min2
<1> QED
  BY <1>3, <1>4 DEF kSubset

\* What the sliding window computes, RecomputeSlidingWindow allows.
LEMMA SlideWindowAllowed ==
    ASSUME Inv, SlideWindow
    PROVE  RecomputeSlidingWindow
<1>1. /\ Queued \in SUBSET Groups /\ IsFiniteSet(Queued)
      /\ \A g \in Groups : SeqLen(g) \in Int
  BY QueuedFinite
<1> DEFINE m == MaxNumSeqs * TopK
<1>2. m \in Nat /\ MaxNumSeqs \in Nat \ {0}
  BY SchedulerAssumption
<1> HIDE DEF m
<1>3. PICK list \in SetToSeqs(Queued), gain \in [Queued -> Gains] :
        LET top == TopGroups(list, gain, m)
            window == IF Len(top) >= MaxNumSeqs
                      THEN Window(top, BestWindow(top, gain, MaxNumSeqs), MaxNumSeqs)
                      ELSE top
        IN SwitchTo(ToSet(window), TRUE) /\ UNCHANGED execOrder
  BY DEF SlideWindow, m
<1> DEFINE T == TopGroups(list, gain, m)
<1>4. ListsByLength(T, Queued) /\ Len(T) = Min2(m, Cardinality(Queued))
  BY <1>1, <1>2, TopByLength
<1>5. /\ UNCHANGED execOrder
      /\ Len(T) >= MaxNumSeqs =>
           SwitchTo(ToSet(Window(T, BestWindow(T, gain, MaxNumSeqs), MaxNumSeqs)), TRUE)
      /\ ~(Len(T) >= MaxNumSeqs) => SwitchTo(ToSet(T), TRUE)
  BY <1>3
<1> HIDE DEF T
<1> DEFINE top == Part(T, 1, Len(T))
<1>6. /\ top \in kSubset(Min2(Cardinality(Queued), m), Queued)
      /\ Cardinality(top) = Len(T)
  BY <1>1, <1>2, <1>4, TopIsSubset
<1>7. CASE Len(T) >= MaxNumSeqs
  <2>1. PICK i \in 1..(Len(T) - MaxNumSeqs + 1) :
          ToSet(Window(T, BestWindow(T, gain, MaxNumSeqs), MaxNumSeqs))
            \in Slices(top, i, i + MaxNumSeqs - 1)
    BY <1>1, <1>2, <1>4, <1>7, WindowIsSlice
  <2> HIDE DEF top
  <2> QED
    BY <1>5, <1>6, <1>7, <2>1 DEF RecomputeSlidingWindow, m
<1>8. CASE ~(Len(T) >= MaxNumSeqs)
  <2>1. ToSet(T) = top
    BY <1>4 DEF ListsByLength, ToSet, Part
  <2> HIDE DEF top
  <2> QED
    BY <1>5, <1>6, <1>8, <2>1 DEF RecomputeSlidingWindow, m
<1> QED
  BY <1>7, <1>8

-----------------------------------------------------------------------------
(* The bins.                                                               *)

\* Numbers of bins: all but the last are full, none is empty.
LEMMA BinCount ==
    ASSUME NEW n \in Nat \ {0}, NEW size \in Nat \ {0}, NEW m,
           m = (n + size - 1) \div size
    PROVE  /\ m \in Nat \ {0}
           /\ n <= m * size /\ (m - 1) * size < n
           /\ \A i \in 1..m : /\ i * size \in Nat /\ (i - 1) * size \in Nat
                              /\ (i - 1) * size < n
                              /\ i * size = (i - 1) * size + size
                              /\ i < m => i * size < n
<1> DEFINE x == n + size - 1
<1>1. x \in Nat /\ x >= size
  OBVIOUS
<1>2. /\ m \in Int /\ x % size \in 0..(size - 1)
      /\ x = size * m + (x % size)
  <2> HIDE DEF x
  <2> QED
    BY <1>1, SMT DEF x
<1>3. size * m = m * size /\ m * size \in Int
  BY <1>2
<1>4. n <= m * size /\ m * size < n + size
  BY <1>2, <1>3
<1>5. m >= 1
  <2> SUFFICES ASSUME m <= 0 PROVE FALSE
    BY <1>2
  <2>1. m * size <= 0
    BY <1>2
  <2> QED
    BY <1>3, <1>4, <2>1
<1>6. (m - 1) * size = m * size - size
  BY <1>2
<1>7. ASSUME NEW i \in 1..m
      PROVE  /\ i * size \in Nat /\ (i - 1) * size \in Nat
             /\ (i - 1) * size <= (m - 1) * size
             /\ i * size = (i - 1) * size + size
             /\ i < m => i * size <= (m - 1) * size
  <2>1. i \in Int /\ m \in Int /\ 1 <= i /\ i <= m
    BY <1>2
  <2>2. \A a, b \in Nat : a <= b => a * size <= b * size /\ a * size \in Nat
    OBVIOUS
  <2>3. i \in Nat /\ i - 1 \in Nat /\ m - 1 \in Nat /\ i - 1 <= m - 1
    BY <2>1
  <2>4. i * size = (i - 1) * size + size
    BY <2>1
  <2>5. i < m => i <= m - 1
    BY <2>1
  <2> QED
    BY <2>2, <2>3, <2>4, <2>5
<1>8. (m - 1) * size \in Int /\ (m - 1) * size < n
  BY <1>3, <1>4, <1>6
<1>9. ASSUME NEW i \in 1..m
      PROVE  (i - 1) * size < n /\ (i < m => i * size < n)
  BY <1>7, <1>8
<1> QED
  BY <1>2, <1>4, <1>5, <1>7, <1>8, <1>9

\* The places of a bin in the list.
FirstOf(i, size) == (i - 1) * size + 1
LastOf(i, size, n) == Min2(i * size, n)

\* bins are T, cut into parts of the size.
Cut(bins, T, size, S) ==
    /\ size \in Nat \ {0} /\ Len(T) \in Nat \ {0}
    /\ ListsByLength(T, S)
    /\ Len(bins) \in Nat \ {0} /\ DOMAIN bins = 1..Len(bins)
    /\ \A i \in 1..Len(bins) :
         LET a == FirstOf(i, size)
             b == LastOf(i, size, Len(T))
         IN /\ bins[i] \in Seq(S) /\ Len(bins[i]) = b - a + 1
            /\ a \in 1..Len(T) /\ b \in a..Len(T)
            /\ ToSet(bins[i]) = Part(T, a, b)
            /\ i < Len(bins) => b = i * size /\ b - a + 1 = size
            /\ i = Len(bins) => b = Len(T)

LEMMA BinsAreParts ==
    ASSUME NEW S, NEW T, ListsByLength(T, S), Len(T) # 0, NEW size \in Nat \ {0}
    PROVE  LET bins == CutIntoBins(T, size)
           IN /\ Cut(bins, T, size, S)
              /\ Len(bins) = (Len(T) + size - 1) \div size
<1> DEFINE n == Len(T)
           m == (n + size - 1) \div size
           bins == CutIntoBins(T, size)
<1>1. n \in Nat \ {0}
  BY DEF ListsByLength
<1> HIDE DEF n
<1>2. /\ m \in Nat \ {0} /\ n <= m * size
      /\ \A i \in 1..m : /\ i * size \in Nat /\ (i - 1) * size \in Nat
                         /\ (i - 1) * size < n
                         /\ i * size = (i - 1) * size + size
                         /\ i < m => i * size < n
  <2> DEFINE c == m
  <2>1. c = (n + size - 1) \div size
    OBVIOUS
  <2> HIDE DEF c
  <2>2. /\ c \in Nat \ {0} /\ n <= c * size
        /\ \A i \in 1..c : /\ i * size \in Nat /\ (i - 1) * size \in Nat
                           /\ (i - 1) * size < n
                           /\ i * size = (i - 1) * size + size
                           /\ i < c => i * size < n
    BY <1>1, <2>1, BinCount
  <2> QED
    BY <2>2 DEF c
<1>3. bins = [i \in 1..m |-> SubSeq(T, FirstOf(i, size), LastOf(i, size, n))]
  BY DEF CutIntoBins, FirstOf, LastOf, n
<1> HIDE DEF m, bins
<1>4. ASSUME NEW i \in 1..m
      PROVE  LET a == FirstOf(i, size)
                 b == LastOf(i, size, n)
             IN /\ a \in 1..n /\ b \in a..n
                /\ i < m => b = i * size /\ b - a + 1 = size
                /\ i = m => b = n
  <2> DEFINE x == (i - 1) * size
             y == i * size
  <2>1. x \in Nat /\ y \in Nat /\ x < n /\ y = x + size /\ (i < m => y < n)
        /\ (i = m => n <= y)
    BY <1>2
  <2>2. FirstOf(i, size) = x + 1 /\ LastOf(i, size, n) = Min2(y, n)
    BY DEF FirstOf, LastOf
  <2> HIDE DEF x
  <2>3. /\ x + 1 \in 1..n /\ Min2(y, n) \in (x + 1)..n
        /\ i < m => Min2(y, n) = y /\ Min2(y, n) - (x + 1) + 1 = size
        /\ i = m => Min2(y, n) = n
    <3> HIDE DEF y
    <3> QED
      BY <1>1, <2>1 DEF Min2
  <2> QED
    BY <2>2, <2>3, Zenon
<1>5. ASSUME NEW i \in 1..m
      PROVE  LET a == FirstOf(i, size)
                 b == LastOf(i, size, n)
             IN /\ bins[i] \in Seq(S) /\ Len(bins[i]) = b - a + 1
                /\ ToSet(bins[i]) = Part(T, a, b)
  <2> DEFINE a == FirstOf(i, size)
             b == LastOf(i, size, n)
  <2>1. a \in 1..Len(T) /\ b \in a..Len(T)
    BY <1>4 DEF n
  <2>2. bins[i] = SubSeq(T, a, b)
    BY <1>3
  <2> HIDE DEF a, b
  <2>3. /\ bins[i] \in Seq(S) /\ Len(bins[i]) = b - a + 1
        /\ ToSet(bins[i]) = Part(T, a, b)
    BY <2>1, <2>2, SliceIsPart
  <2> QED
    BY <2>3 DEF a, b
<1>6. DOMAIN bins = 1..m /\ Len(bins) = m
  BY <1>2, <1>3
<1>7. Cut(bins, T, size, S)
  BY <1>1, <1>2, <1>4, <1>5, <1>6, Zenon DEF Cut, n
<1> QED
  BY <1>6, <1>7 DEF bins, m, n

\* The bin to execute is the nearest; when it is the last one, the one before
\* is the next.
LEMMA NearestFirst ==
    ASSUME NEW m \in Nat \ {0}, NEW exec \in 1..m, NEW distance,
           \A i \in 1..m : distance[i] \in Nat /\ (distance[i] = 0 <=> i = exec),
           exec = m => \A i \in 1..m : distance[i] = m - i
    PROVE  LET nearest == StableSort([i \in 1..m |-> i], distance)
           IN /\ nearest[1] = exec
              /\ exec = m /\ m > 1 => nearest[2] = m - 1
<1> DEFINE id == [i \in 1..m |-> i]
           nearest == StableSort(id, distance)
<1>1. id \in Seq(1..m) /\ Len(id) = m /\ DOMAIN id = 1..m /\ \A i \in 1..m : id[i] = i
  OBVIOUS
<1> HIDE DEF id
<1>2. Reorders(nearest, id, m, distance)
  BY <1>1, SortReorders
<1>3. PICK p \in [1..m -> 1..m] :
        /\ \A i, j \in 1..m : i # j => p[i] # p[j]
        /\ \A i \in 1..m : \E k \in 1..m : p[k] = i
        /\ nearest = [k \in 1..m |-> id[p[k]]]
        /\ \A i, j \in 1..m : i < j => distance[id[p[i]]] <= distance[id[p[j]]]
  <2> HIDE DEF nearest
  <2> QED
    BY <1>2, Zenon DEF Reorders
<1> HIDE DEF nearest
<1>4. ASSUME NEW k \in 1..m
      PROVE  nearest[k] = p[k] /\ p[k] \in 1..m /\ id[p[k]] = p[k]
  <2>1. p[k] \in 1..m
    OBVIOUS
  <2>2. id[p[k]] = p[k]
    BY <1>1, <2>1, Zenon
  <2>3. nearest[k] = id[p[k]]
    BY <1>3
  <2> QED
    BY <2>1, <2>2, <2>3, Zenon
<1>5. ASSUME NEW i \in 1..m, NEW j \in 1..m, i < j
      PROVE  distance[p[i]] <= distance[p[j]]
  <2>1. distance[id[p[i]]] <= distance[id[p[j]]]
    BY <1>3, <1>5, Zenon
  <2>2. id[p[i]] = p[i] /\ id[p[j]] = p[j]
    BY <1>4, Zenon
  <2> QED
    BY <2>1, <2>2, Zenon
<1>6. 1 \in 1..m /\ p[1] = exec
  <2>1. PICK k \in 1..m : p[k] = exec
    BY <1>3
  <2>2. 1 \in 1..m /\ distance[p[k]] = 0 /\ distance[p[1]] \in Nat
    BY <1>4, <2>1
  <2>3. distance[p[1]] = 0
    <3>1. CASE k = 1
      BY <2>2, <3>1
    <3>2. CASE 1 < k
      <4>1. distance[p[1]] <= distance[p[k]]
        BY <1>5, <2>2, <3>2, Zenon
      <4> QED
        BY <2>2, <4>1
    <3> QED
      BY <3>1, <3>2
  <2> QED
    BY <1>4, <2>2, <2>3
<1>7. ASSUME exec = m, m > 1
      PROVE  p[2] = m - 1
  <2>1. m - 1 \in 1..m /\ 2 \in 1..m /\ 1 # 2
    BY <1>7
  <2>2. \A i \in 1..m : distance[i] = m - i
    BY <1>7
  <2>3. PICK k \in 1..m : p[k] = m - 1
    BY <1>3, <2>1
  <2>4. k = 2 \/ 2 < k
    <3>1. k # 1
      BY <1>6, <1>7, <2>3
    <3> QED
      BY <3>1
  <2>5. p[2] \in 1..m /\ p[2] # exec
    <3>1. p[2] # p[1]
      BY <1>3, <1>6, <2>1, Zenon
    <3> QED
      BY <1>4, <1>6, <2>1, <3>1, Zenon
  <2>6. distance[p[2]] <= distance[p[k]]
    <3>1. distance[p[2]] \in Nat
      BY <2>5
    <3>2. CASE k = 2
      BY <3>1, <3>2
    <3>3. CASE 2 < k
      BY <1>5, <2>1, <3>3, Zenon
    <3> QED
      BY <2>4, <3>2, <3>3
  <2>7. distance[p[2]] = m - p[2]
    BY <2>2, <2>5, Zenon
  <2>8. distance[p[k]] = m - (m - 1)
    BY <2>1, <2>2, <2>3, Zenon
  <2> HIDE DEF nearest
  <2> DEFINE x == p[2]
  <2>9. x \in 1..m /\ x # m /\ m - x <= m - (m - 1)
    BY <1>7, <2>5, <2>6, <2>7, <2>8, Zenon
  <2>10. x = m - 1
    <3> HIDE DEF x
    <3> QED
      BY <2>9
  <2> QED
    BY <2>10
<1>8. nearest[1] = exec /\ (exec = m /\ m > 1 => nearest[2] = m - 1)
  <2>1. m > 1 => 2 \in 1..m
    OBVIOUS
  <2>2. nearest[1] = exec
    BY <1>4, <1>6, Zenon
  <2>3. ASSUME exec = m, m > 1 PROVE nearest[2] = m - 1
    <3>1. nearest[2] = p[2]
      BY <1>4, <2>1, <2>3, Zenon
    <3> QED
      BY <1>7, <2>3, <3>1, Zenon
  <2> QED
    BY <2>2, <2>3, Zenon
<1> QED
  BY <1>8 DEF nearest, id

\* Enough groups are in the bin to execute, or it is the last, and with the
\* one before it there are.
LEMMA WidenedIsPart ==
    ASSUME NEW S, NEW T, NEW bins, NEW size, Cut(bins, T, size, S),
           NEW e \in 1..Len(bins), maxNumSeqs \in Nat \ {0}, size >= maxNumSeqs
    PROVE  LET first == FirstOf(e, size)
               last == LastOf(e, size, Len(T))
               left == IF e > 1 /\ last - first + 1 < maxNumSeqs
                       THEN first - size ELSE first
           IN /\ left \in 1..Len(T) /\ last \in left..Len(T)
              /\ Widened(bins, e) = Part(T, left, last)
<1> DEFINE m == Len(bins)
           first == FirstOf(e, size)
           last == LastOf(e, size, Len(T))
           distance == [i \in DOMAIN bins |-> IF i >= e THEN i - e ELSE e - i]
           nearest == StableSort([i \in DOMAIN bins |-> i], distance)
           Joined(n) == UNION {ToSet(bins[nearest[k]]) : k \in 1..n}
           Enough(n) == Cardinality(Joined(n)) >= maxNumSeqs \/ n = m
           Settles(n) == Enough(n) /\ \A k \in 1..(n - 1) : ~Enough(k)
<1>1. /\ size \in Nat \ {0} /\ Len(T) \in Nat \ {0} /\ m \in Nat \ {0}
      /\ DOMAIN bins = 1..m /\ ListsByLength(T, S) /\ e \in 1..m
  BY DEF Cut
<1>2. ASSUME NEW i \in 1..m
      PROVE  LET a == FirstOf(i, size)
                 b == LastOf(i, size, Len(T))
             IN /\ a \in 1..Len(T) /\ b \in a..Len(T)
                /\ ToSet(bins[i]) = Part(T, a, b)
                /\ i < m => b = i * size /\ b - a + 1 = size
                /\ i = m => b = Len(T)
  BY Zenon DEF Cut
<1>3. Widened(bins, e) = Joined(CHOOSE n \in DOMAIN bins : Settles(n))
  BY DEF Widened
<1> HIDE DEF m
<1>4. nearest[1] = e /\ (e = m /\ m > 1 => nearest[2] = m - 1)
  <2>1. \A i \in 1..m : distance[i] \in Nat /\ (distance[i] = 0 <=> i = e)
    BY <1>1
  <2>2. e = m => \A i \in 1..m : distance[i] = m - i
    BY <1>1
  <2>3. nearest = StableSort([i \in 1..m |-> i], distance)
    BY <1>1
  <2> HIDE DEF distance, nearest
  <2> QED
    BY <1>1, <2>1, <2>2, <2>3, NearestFirst
<1> HIDE DEF nearest
<1>5. Joined(1) = ToSet(bins[e])
  <2>1. 1..1 = {1}
    OBVIOUS
  <2> QED
    BY <1>4, <2>1, Zenon
<1>6. m > 1 /\ e = m => Joined(2) = ToSet(bins[m]) \cup ToSet(bins[m - 1])
  <2>1. 1..2 = {1, 2}
    OBVIOUS
  <2> QED
    BY <1>4, <2>1, Zenon
<1> HIDE DEF Joined
<1>7. /\ first \in 1..Len(T) /\ last \in first..Len(T)
      /\ ToSet(bins[e]) = Part(T, first, last)
      /\ e < m => last - first + 1 = size
      /\ e = m => last = Len(T)
  BY <1>1, <1>2, Zenon
<1> HIDE DEF first, last
<1>8. Cardinality(Joined(1)) = last - first + 1
  <2>1. /\ first \in 1..(Len(T) + 1) /\ last \in 0..Len(T) /\ first <= last + 1
    BY <1>1, <1>7
  <2> QED
    BY <1>1, <1>5, <1>7, <2>1, PartCardinality
<1>9. CASE ~(e > 1 /\ last - first + 1 < maxNumSeqs)
  <2>1. Enough(1)
    <3>1. CASE e = m /\ e = 1
      BY <3>1
    <3>2. CASE e < m
      <4>1. Cardinality(Joined(1)) >= maxNumSeqs
        BY <1>7, <1>8, <3>2
      <4> QED
        BY <4>1
    <3>3. CASE e > 1
      <4>1. Cardinality(Joined(1)) >= maxNumSeqs
        BY <1>1, <1>7, <1>8, <1>9, <3>3
      <4> QED
        BY <4>1
    <3>4. (e = m /\ e = 1) \/ e < m \/ e > 1
      BY <1>1
    <3> QED
      BY <3>1, <3>2, <3>3, <3>4
  <2> HIDE DEF Enough
  <2>2. 1 \in DOMAIN bins /\ Settles(1)
    BY <1>1, <2>1
  <2>3. ASSUME NEW n \in DOMAIN bins, Settles(n) PROVE n = 1
    <3>1. ~(1 \in 1..(n - 1))
      BY <2>1, <2>3
    <3> QED
      BY <1>1, <3>1
  <2>4. (CHOOSE n \in DOMAIN bins : Settles(n)) = 1
    <3> HIDE DEF Settles
    <3> QED
      BY <2>2, <2>3, Zenon
  <2>5. Widened(bins, e) = Part(T, first, last)
    BY <1>3, <1>5, <1>7, <2>4, Zenon
  <2> QED
    BY <1>7, <1>9, <2>5 DEF first, last
<1>10. CASE e > 1 /\ last - first + 1 < maxNumSeqs
  <2>1. e = m /\ m > 1 /\ m - 1 \in 1..m /\ m - 1 < m
    BY <1>1, <1>7, <1>10
  <2> DEFINE a == FirstOf(m - 1, size)
             b == LastOf(m - 1, size, Len(T))
  <2>2. /\ a \in 1..Len(T) /\ b \in a..Len(T)
        /\ ToSet(bins[m - 1]) = Part(T, a, b)
        /\ b = (m - 1) * size /\ b - a + 1 = size
    BY <1>2, <2>1, Zenon
  <2>3. first = b + 1
    BY <2>1, <2>2 DEF first, FirstOf
  <2> HIDE DEF a, b
  <2>4. a = first - size /\ a \in 1..Len(T) /\ last \in a..Len(T)
    BY <1>1, <1>7, <2>2, <2>3
  <2>5. Joined(2) = Part(T, a, last)
    <3>1. Joined(2) = Part(T, first, last) \cup Part(T, a, b)
      BY <1>6, <1>7, <2>1, <2>2, Zenon
    <3>2. a..last = (first..last) \cup (a..b)
      BY <1>1, <1>7, <2>2, <2>3
    <3> QED
      BY <3>1, <3>2, Zenon DEF Part
  <2>6. Cardinality(Joined(2)) = last - a + 1
    <3>1. a \in 1..(Len(T) + 1) /\ last \in 0..Len(T) /\ a <= last + 1
      BY <1>1, <1>7, <2>4
    <3> QED
      BY <1>1, <2>5, <3>1, PartCardinality
  <2>7. ~Enough(1)
    <3>1. 1 # m /\ ~(Cardinality(Joined(1)) >= maxNumSeqs)
      BY <1>1, <1>7, <1>8, <1>10, <2>1
    <3> QED
      BY <3>1
  <2>8. Enough(2)
    <3>1. Cardinality(Joined(2)) >= maxNumSeqs
      BY <1>1, <1>7, <2>2, <2>3, <2>6
    <3> QED
      BY <3>1
  <2> HIDE DEF Enough
  <2>9. 2 \in DOMAIN bins /\ Settles(2)
    <3>1. 1..(2 - 1) = {1} /\ 2 \in 1..m
      BY <1>1, <2>1
    <3> QED
      BY <1>1, <2>7, <2>8, <3>1, Zenon
  <2>10. ASSUME NEW n \in DOMAIN bins, Settles(n) PROVE n = 2
    <3>1. n # 1
      BY <2>7, <2>10
    <3>2. ~(2 \in 1..(n - 1))
      BY <2>8, <2>10
    <3> QED
      BY <1>1, <3>1, <3>2
  <2>11. (CHOOSE n \in DOMAIN bins : Settles(n)) = 2
    <3> HIDE DEF Settles
    <3> QED
      BY <2>9, <2>10, Zenon
  <2>12. Widened(bins, e) = Part(T, first - size, last)
    BY <1>3, <2>4, <2>5, <2>11, Zenon
  <2> QED
    BY <1>10, <2>4, <2>12 DEF first, last
<1> QED
  BY <1>9, <1>10

\* What length_bin computes, RecomputeBins allows.
LEMMA LengthBinsAllowed ==
    ASSUME Inv, ~SlidingWindow, Queued # {}, RecomputeLengthBins
    PROVE  RecomputeBins
<1>1. /\ Queued \in SUBSET Groups /\ IsFiniteSet(Queued)
      /\ \A g \in Groups : SeqLen(g) \in Int
      /\ \A g \in Queued : SeqLen(g) \in Int
  BY QueuedFinite
<1>2. maxNumSeqs \in Nat \ {0} /\ TopK \in Nat \ {0}
  BY SchedulerAssumption DEF Inv, CtlTypeOK
<1> DEFINE c == maxNumSeqs * TopK
<1>3. c \in Nat \ {0}
  <2>1. \A x, y \in Nat \ {0} : x * y \in Nat \ {0}
    OBVIOUS
  <2> QED
    BY <1>2, <2>1
<1> HIDE DEF c
<1>4. PICK list \in SetToSeqs(Queued), gain \in [Queued -> Gains] :
        LET top == TopGroups(list, gain, c)
            bins == CutIntoBins(top, Max2(maxNumSeqs, Len(top) \div TopK))
            window == Widened(bins, BinToExecute(bins, gain))
        IN /\ SwitchTo(window, Max(Lengths(window)) = Max(Lengths(ToSet(Last(bins)))))
           /\ execOrder' = TRUE
  BY DEF RecomputeLengthBins, c
<1> DEFINE T == TopGroups(list, gain, c)
           n == Len(T)
           size == Max2(maxNumSeqs, n \div TopK)
           bins == CutIntoBins(T, size)
           e == BinToExecute(bins, gain)
           m == (n + size - 1) \div size
           first == (e - 1) * size + 1
           last == Min2(e * size, n)
           left == IF e > 1 /\ last - first + 1 < maxNumSeqs
                   THEN first - size ELSE first
           top == Part(T, 1, n)
<1>5. ListsByLength(T, Queued) /\ n = Min2(c, Cardinality(Queued))
  BY <1>1, <1>3, TopByLength
<1>6. /\ SwitchTo(Widened(bins, e),
                  Max(Lengths(Widened(bins, e))) = Max(Lengths(ToSet(Last(bins)))))
      /\ execOrder' = TRUE
  BY <1>4
<1> HIDE DEF T
<1>7. n \in Nat \ {0}
  <2>1. Cardinality(Queued) \in Nat /\ Cardinality(Queued) # 0
    BY <1>1, FS_CardinalityType, FS_EmptySet
  <2> QED
    BY <1>3, <1>5, <2>1 DEF Min2
<1>8. /\ top \in kSubset(Min2(Cardinality(Queued), c), Queued)
      /\ Cardinality(top) = n
  BY <1>1, <1>3, <1>5, TopIsSubset
<1> HIDE DEF n, top
<1>9. size \in Nat \ {0} /\ size >= maxNumSeqs
  <2>1. n \div TopK \in Int
    BY <1>2, <1>7
  <2> HIDE DEF n
  <2> QED
    BY <1>2, <2>1 DEF Max2
<1> HIDE DEF size
<1>10. Cut(bins, T, size, Queued) /\ Len(bins) = m
  BY <1>5, <1>7, <1>9, BinsAreParts DEF n
<1> HIDE DEF bins, m
<1>11. e \in 1..Len(bins)
  <2> DEFINE score == [i \in DOMAIN bins |-> SumOf(bins[i], gain)]
  <2>1. /\ DOMAIN bins = 1..Len(bins) /\ Len(bins) \in Nat \ {0}
        /\ \A i \in 1..Len(bins) : bins[i] \in Seq(Queued)
    BY <1>10, Zenon DEF Cut
  <2>2. /\ DOMAIN bins \in SUBSET Int /\ DOMAIN bins # {}
        /\ IsFiniteSet(DOMAIN bins)
    <3> DEFINE k == Len(bins)
    <3>1. k \in Nat \ {0} /\ DOMAIN bins = 1..k
      BY <2>1
    <3> HIDE DEF k
    <3>2. 1..k \in SUBSET Int /\ 1 \in 1..k /\ IsFiniteSet(1..k)
      BY <3>1, FS_Interval
    <3> QED
      BY <3>1, <3>2
  <2>3. \A i \in DOMAIN bins : score[i] \in Int
    BY <2>1, SumOfType
  <2>4. e = Smallest(DOMAIN bins, score)
    BY DEF BinToExecute
  <2> HIDE DEF score, e
  <2>5. e \in DOMAIN bins
    BY <2>2, <2>3, <2>4, SmallestIsMember
  <2> QED
    BY <2>1, <2>5
<1> HIDE DEF e
<1>12. /\ left \in 1..n /\ last \in left..n
       /\ Widened(bins, e) = Part(T, left, last)
  <2>1. /\ ListsByLength(T, Queued) /\ maxNumSeqs \in Nat \ {0}
        /\ size >= maxNumSeqs /\ e \in 1..Len(bins) /\ Cut(bins, T, size, Queued)
    BY <1>2, <1>5, <1>9, <1>10, <1>11
  <2> DEFINE f == FirstOf(e, size)
             b == LastOf(e, size, Len(T))
             l == IF e > 1 /\ b - f + 1 < maxNumSeqs THEN f - size ELSE f
  <2>2. /\ l \in 1..Len(T) /\ b \in l..Len(T)
        /\ Widened(bins, e) = Part(T, l, b)
    BY <2>1, WidenedIsPart
  <2>3. f = first /\ b = last /\ Len(T) = n
    BY DEF FirstOf, LastOf, n
  <2> HIDE DEF f, b, first, last
  <2>4. l = left
    BY <2>3
  <2> HIDE DEF l, left
  <2> QED
    BY <2>2, <2>3, <2>4, Zenon
<1> HIDE DEF left, last
<1> DEFINE window == Part(T, left, last)
           isLast == Max(Lengths(window)) = Max(Lengths(top))
<1>13. window \in Slices(top, left, last)
  BY <1>5, <1>12, PartIsSlice DEF n, top
<1>14. Max(Lengths(ToSet(Last(bins)))) = Max(Lengths(top))
  <2>1. PICK a \in 1..n : ToSet(Last(bins)) = Part(T, a, n)
    <3>1. Len(bins) \in 1..Len(bins) /\ Last(bins) = bins[Len(bins)]
      BY <1>10 DEF Cut, Last
    <3> QED
      BY <1>10, <3>1 DEF Cut, n
  <2>2. Max(Lengths(Part(T, a, n))) = SeqLen(T[n])
    BY <1>1, <1>5, <2>1, LongestIsLast DEF n
  <2>3. Max(Lengths(Part(T, 1, n))) = SeqLen(T[n])
    <3>1. 1 \in 1..n
      BY <1>7
    <3> QED
      BY <1>1, <1>5, <3>1, LongestIsLast DEF n
  <2> QED
    BY <2>1, <2>2, <2>3 DEF top
<1>15. SwitchTo(window, isLast)
  BY <1>6, <1>12, <1>14, Zenon
<1> HIDE DEF window
<1>16. e \in 1..((n + size - 1) \div size)
  BY <1>10, <1>11 DEF m
<1>17. \E w \in Slices(top, left, last) :
         SwitchTo(w, Max(Lengths(w)) = Max(Lengths(top)))
  BY <1>13, <1>15, Zenon
<1> DEFINE Bin(t, k, s, i) ==
             LET a == (i - 1) * s + 1
                 b == Min2(i * s, k)
                 l == IF i > 1 /\ b - a + 1 < maxNumSeqs THEN a - s ELSE a
             IN /\ \E w \in Slices(t, l, b) :
                     SwitchTo(w, Max(Lengths(w)) = Max(Lengths(t)))
                /\ execOrder' = TRUE
<1>18. Bin(top, n, size, e)
  BY <1>6, <1>17, Zenon DEF left, last
<1>19. RecomputeBins <=>
         \E t \in kSubset(Min2(Cardinality(Queued), c), Queued) :
           LET k == Cardinality(t)
               s == Max2(maxNumSeqs, k \div TopK)
           IN \E i \in 1..((k + s - 1) \div s) : Bin(t, k, s, i)
  BY Zenon DEF RecomputeBins, c
<1> HIDE DEF Bin
<1>20. size = Max2(maxNumSeqs, n \div TopK)
  BY DEF size
<1> QED
  BY <1>8, <1>16, <1>18, <1>19, <1>20, Zenon

-----------------------------------------------------------------------------
\* Which bin or window a call ends up with is one that SLOScheduler allows.
LEMMA ChooseBestBinAllowed ==
    ASSUME Inv, ChooseBestBin
    PROVE  ChooseBin
<1>1. CASE SlidingWindow /\ Queued # {}
  <2>1. SlideWindow
    BY <1>1 DEF ChooseBestBin
  <2>2. RecomputeSlidingWindow
    BY <2>1, SlideWindowAllowed
  <2> QED
    BY <1>1, <2>2 DEF ChooseBestBin, ChooseBin
<1>2. CASE ~SlidingWindow /\ pendingSwapOut = {} /\ Queued # {}
  <2>1. RecomputeLengthBins
    BY <1>2 DEF ChooseBestBin
  <2>2. RecomputeBins
    BY <1>2, <2>1, LengthBinsAllowed
  <2> QED
    BY <1>2, <2>2 DEF ChooseBestBin, ChooseBin
<1>3. CASE Queued = {} \/ (~SlidingWindow /\ pendingSwapOut # {})
  BY <1>3 DEF ChooseBestBin, ChooseBin
<1> QED
  BY <1>1, <1>2, <1>3

\* A step of the scheduler with the computed choices is a step of SLOScheduler.
LEMMA BinNextAllowed == Inv /\ [BinNext]_vars => [Next]_vars
<1> SUFFICES ASSUME Inv, [BinNext]_vars PROVE [Next]_vars
  OBVIOUS
<1>1. ASSUME ChooseBestBin PROVE Next
  BY <1>1, ChooseBestBinAllowed DEF Next, Engine
<1> QED
  BY <1>1 DEF BinNext

\* The strategies as the code computes them are an implementation of the open
\* choices: every theorem about Spec holds of BinSpec too.
THEOREM StrategiesImplementScheduler == BinSpec => Spec
<1>1. Init => Inv
  BY InitInv
<1>2. Inv /\ [BinNext]_vars => Inv'
  BY BinNextAllowed, NextKeepsInv
<1>3. Inv /\ [BinNext]_vars => [Next]_vars
  BY BinNextAllowed
<1> QED
  BY <1>1, <1>2, <1>3, PTL DEF BinSpec, Spec

\* However the groups are sorted, cut and merged, every step is one that
\* SLOScheduler allows.
THEOREM ChoicesAreAllowed == BinSpec => ChoiceIsAllowed
  BY StrategiesImplementScheduler, PTL DEF Spec, ChoiceIsAllowed
====
