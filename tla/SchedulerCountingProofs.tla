----------------------- MODULE SchedulerCountingProofs -----------------------
(***************************************************************************)
(* What the scheduler counts: the blocks of the two pools, the budget of a *)
(* call and the running groups, for any number of requests; and, as a call *)
(* with tokens to give drops none, that no request is lost.                *)
(*                                                                         *)
(* The properties sum with MapThenSumSet over sets that vary.  The proofs  *)
(* go over to sums over all groups, of which one summand changes at a time *)
(* (FiniteSums), and come back at the end.                                 *)
(***************************************************************************)
EXTENDS SchedulerSafetyProofs, FiniteSums

-----------------------------------------------------------------------------
(* The block pools.                                                        *)

\* What each group holds of the blocks of a device, and all together.
HeldBy(g, dev) == IF device[g] = dev THEN NumHeld(g) ELSE 0
HeldOn(dev) == [g \in Groups |-> HeldBy(g, dev)]
TotalHeld(dev) == Sum(HeldOn(dev), Groups)

\* BlocksConserved in these terms, which is inductive.
BlocksCounted ==
    /\ gpuFree + TotalHeld("gpu") = NumGpuBlocks
    /\ cpuFree + TotalHeld("cpu") = NumCpuBlocks

LEMMA HeldType ==
    ASSUME MemTypeOK, NEW dev
    PROVE  /\ \A g \in Groups : HeldOn(dev)[g] \in Int
           /\ TotalHeld(dev) \in Int
<1>1. \A g \in Groups : HeldOn(dev)[g] \in Int
  BY CeilDivNat DEF HeldOn, HeldBy, MemTypeOK, NumHeld
<1> QED
  BY <1>1, SumType, GroupsFinite, SchedulerAssumption DEF TotalHeld

\* The fold of the community modules computes that sum.
LEMMA HeldIsTotal ==
    ASSUME MemTypeOK, NEW dev
    PROVE  Held(dev) = TotalHeld(dev)
<1> DEFINE S == {g \in Groups : device[g] = dev}
           v == [g \in Groups |-> NumHeld(g)]
           Folds(f) == f = [s \in SUBSET S |->
                              IF s = {} THEN 0
                              ELSE NumHeld(Pick(s)) + f[s \ {Pick(s)}]]
           F == CHOOSE f : Folds(f)
<1>1. Held(dev) = F[S]
  BY DEF Held, MapThenSumSet, MapThenFoldSet, Pick
<1>2. IsFiniteSet(Groups) /\ IsFiniteSet(S)
  BY SchedulerAssumption, FS_Subset
<1>3. ASSUME NEW f PROVE IsSum(f, v, S) <=> Folds(f)
  <2>1. \A s \in SUBSET S : s # {} => v[Pick(s)] = NumHeld(Pick(s))
    BY PickIsMember
  <2> HIDE DEF v
  <2> QED
    BY <2>1 DEF IsSum
<1>4. \E f : Folds(f)
  BY <1>2, <1>3, SumExists
<1>5. Folds(F)
  <2> HIDE DEF Folds
  <2> QED
    BY <1>4
<1>6. IsSum(F, v, S)
  BY <1>3, <1>5
<1> HIDE DEF F
<1>7. F[S] = Sum(v, S)
  BY <1>2, <1>6, SumIsUnique
<1>8. Sum(v, S) = Sum(HeldOn(dev), Groups)
  <2> DEFINE w == HeldOn(dev)
  <2>1. \A g \in S : v[g] = w[g]
    BY DEF HeldOn, HeldBy
  <2>2. \A g \in Groups \ S : w[g] = 0
    BY DEF HeldOn, HeldBy
  <2>3. \A g \in Groups : w[g] \in Int
    BY HeldType
  <2>4. S \subseteq Groups
    OBVIOUS
  <2> HIDE DEF v, S, w
  <2>5. Sum(v, S) = Sum(w, Groups)
    BY <1>2, <2>1, <2>2, <2>3, <2>4, SumOfPart
  <2> QED
    BY <2>5 DEF w
<1> QED
  BY <1>1, <1>7, <1>8 DEF TotalHeld

\* When one table changes, the total changes by what that table holds.
LEMMA OneTableChanges ==
    ASSUME MemTypeOK, MemTypeOK', NEW g \in Groups, NEW dev,
           \A h \in Groups \ {g} : device'[h] = device[h] /\ slots'[h] = slots[h]
    PROVE  /\ TotalHeld(dev)' - TotalHeld(dev)
                = HeldBy(g, dev)' - HeldBy(g, dev)
           /\ TotalHeld(dev)' \in Int /\ TotalHeld(dev) \in Int
<1>1. \A h \in Groups : HeldOn(dev)[h] \in Int /\ (HeldOn(dev)[h])' \in Int
  BY CeilDivNat DEF HeldOn, HeldBy, MemTypeOK, NumHeld
<1>2. \A h \in Groups \ {g} : (HeldOn(dev)[h])' = HeldOn(dev)[h]
  BY DEF HeldOn, HeldBy, NumHeld
<1>3. IsFiniteSet(Groups)
  BY SchedulerAssumption
<1>4. TotalHeld(dev) = Sum(HeldOn(dev), Groups) /\ TotalHeld(dev)' = Sum(HeldOn(dev)', Groups)
  BY DEF TotalHeld
<1> DEFINE v == HeldOn(dev)
           w == HeldOn(dev)'
<1>5. \A h \in Groups : v[h] \in Int /\ w[h] \in Int
  BY <1>1
<1>6. \A h \in Groups \ {g} : w[h] = v[h]
  BY <1>2
<1>7. w[g] = HeldBy(g, dev)' /\ v[g] = HeldBy(g, dev)
  BY DEF HeldOn
<1>8. TotalHeld(dev) = Sum(v, Groups) /\ TotalHeld(dev)' = Sum(w, Groups)
  BY <1>4
<1> HIDE DEF v, w
<1>9. Sum(v, Groups) \in Int /\ Sum(w, Groups) \in Int
  BY <1>3, <1>5, SumType
<1>10. Sum(w, Groups) - Sum(v, Groups) = w[g] - v[g]
  BY <1>3, <1>5, <1>6, SumChanges
<1> QED
  BY <1>7, <1>8, <1>9, <1>10

LEMMA UnchangedKeepsBlocks ==
    ASSUME BlocksCounted, UNCHANGED memVars
    PROVE  BlocksCounted'
<1>1. UNCHANGED <<device, slots, gpuFree, cpuFree>>
  BY DEF memVars
<1>2. HeldOn("gpu")' = HeldOn("gpu") /\ HeldOn("cpu")' = HeldOn("cpu")
  BY <1>1 DEF HeldOn, HeldBy, NumHeld
<1> QED
  BY <1>1, <1>2 DEF BlocksCounted, TotalHeld

\* What a group holds of the two pools before and after a step decides what
\* the step has to give back.
LEMMA BalancedKeepsBlocks ==
    ASSUME MemTypeOK, MemTypeOK', BlocksCounted, NEW g \in Groups,
           \A h \in Groups \ {g} : device'[h] = device[h] /\ slots'[h] = slots[h],
           gpuFree' - gpuFree = HeldBy(g, "gpu") - HeldBy(g, "gpu")',
           cpuFree' - cpuFree = HeldBy(g, "cpu") - HeldBy(g, "cpu")'
    PROVE  BlocksCounted'
<1>1. /\ gpuFree \in Int /\ cpuFree \in Int /\ gpuFree' \in Int /\ cpuFree' \in Int
      /\ HeldBy(g, "gpu") \in Int /\ HeldBy(g, "cpu") \in Int
      /\ HeldBy(g, "gpu")' \in Int /\ HeldBy(g, "cpu")' \in Int
  BY CeilDivNat DEF MemTypeOK, HeldBy, NumHeld
<1>2. /\ TotalHeld("gpu")' - TotalHeld("gpu") = HeldBy(g, "gpu")' - HeldBy(g, "gpu")
      /\ TotalHeld("cpu")' - TotalHeld("cpu") = HeldBy(g, "cpu")' - HeldBy(g, "cpu")
      /\ TotalHeld("gpu")' \in Int /\ TotalHeld("gpu") \in Int
      /\ TotalHeld("cpu")' \in Int /\ TotalHeld("cpu") \in Int
  BY OneTableChanges
<1>3. NumGpuBlocks \in Int /\ NumCpuBlocks \in Int
  BY BlockAssumption
<1>4. gpuFree' + TotalHeld("gpu")' = NumGpuBlocks
  <2>1. gpuFree' = gpuFree + HeldBy(g, "gpu") - HeldBy(g, "gpu")'
    BY <1>1
  <2>2. TotalHeld("gpu")' = TotalHeld("gpu") + HeldBy(g, "gpu")' - HeldBy(g, "gpu")
    BY <1>1, <1>2
  <2>3. gpuFree = NumGpuBlocks - TotalHeld("gpu")
    BY <1>1, <1>2, <1>3 DEF BlocksCounted
  <2> QED
    BY <1>1, <1>2, <1>3, <2>1, <2>2, <2>3
<1>5. cpuFree' + TotalHeld("cpu")' = NumCpuBlocks
  <2>1. cpuFree' = cpuFree + HeldBy(g, "cpu") - HeldBy(g, "cpu")'
    BY <1>1
  <2>2. TotalHeld("cpu")' = TotalHeld("cpu") + HeldBy(g, "cpu")' - HeldBy(g, "cpu")
    BY <1>1, <1>2
  <2>3. cpuFree = NumCpuBlocks - TotalHeld("cpu")
    BY <1>1, <1>2, <1>3 DEF BlocksCounted
  <2> QED
    BY <1>1, <1>2, <1>3, <2>1, <2>2, <2>3
<1> QED
  BY <1>4, <1>5 DEF BlocksCounted

\* What a group holds of the pools.
LEMMA HeldByGroup ==
    ASSUME MemTypeOK, NEW g \in Groups
    PROVE  /\ HeldBy(g, "gpu") = IF device[g] = "gpu" THEN CeilDiv(slots[g]) ELSE 0
           /\ HeldBy(g, "cpu") = IF device[g] = "cpu" THEN CeilDiv(slots[g]) ELSE 0
           /\ CeilDiv(slots[g]) \in Nat
  BY CeilDivNat DEF HeldBy, NumHeld, MemTypeOK

LEMMA HeldByGroupThen ==
    ASSUME MemTypeOK', NEW g \in Groups
    PROVE  /\ HeldBy(g, "gpu")' = IF device'[g] = "gpu" THEN CeilDiv(slots'[g]) ELSE 0
           /\ HeldBy(g, "cpu")' = IF device'[g] = "cpu" THEN CeilDiv(slots'[g]) ELSE 0
           /\ CeilDiv(slots'[g]) \in Nat
  BY CeilDivNat DEF HeldBy, NumHeld, MemTypeOK

\* The operations of the block manager move blocks between the free list and
\* the table of one group.
LEMMA FreeKeepsBlocks ==
    ASSUME MemTypeOK, MemTypeOK', BlocksCounted, NEW g \in Groups, Free(g)
    PROVE  BlocksCounted'
<1>1. /\ device'[g] = "none"
      /\ \A h \in Groups \ {g} : device'[h] = device[h] /\ slots'[h] = slots[h]
      /\ gpuFree' = IF device[g] = "gpu" THEN gpuFree + CeilDiv(slots[g]) ELSE gpuFree
      /\ cpuFree' = IF device[g] = "cpu" THEN cpuFree + CeilDiv(slots[g]) ELSE cpuFree
  BY DEF Free, MemTypeOK, NumHeld
<1>2. gpuFree \in Int /\ cpuFree \in Int
  BY DEF MemTypeOK
<1> QED
  BY <1>1, <1>2, HeldByGroup, HeldByGroupThen, BalancedKeepsBlocks

LEMMA AllocateKeepsBlocks ==
    ASSUME MemTypeOK, MemTypeOK', BlocksCounted, NEW g \in Groups, NEW n \in Nat,
           Allocate(g, n), device[g] = "none"
    PROVE  BlocksCounted'
<1>1. /\ device'[g] = "gpu" /\ slots'[g] = n
      /\ \A h \in Groups \ {g} : device'[h] = device[h] /\ slots'[h] = slots[h]
      /\ gpuFree' = gpuFree - CeilDiv(n) /\ cpuFree' = cpuFree
  BY DEF Allocate, MemTypeOK, NumRequired
<1>2. gpuFree \in Int /\ cpuFree \in Int
  BY DEF MemTypeOK
<1> QED
  BY <1>1, <1>2, HeldByGroup, HeldByGroupThen, BalancedKeepsBlocks

LEMMA AppendKeepsBlocks ==
    ASSUME MemTypeOK, MemTypeOK', BlocksCounted, NEW g \in Groups, NEW n \in Nat,
           AppendSlots(g, n), device[g] = "gpu", slots[g] <= n
    PROVE  BlocksCounted'
<1>1. /\ device' = device /\ slots'[g] = n
      /\ \A h \in Groups \ {g} : device'[h] = device[h] /\ slots'[h] = slots[h]
      /\ gpuFree' = gpuFree - NumAllocatedByAppend(g, n) /\ cpuFree' = cpuFree
  BY DEF AppendSlots, MemTypeOK
<1>2. gpuFree \in Int /\ cpuFree \in Int /\ slots[g] \in Nat
  BY DEF MemTypeOK
<1>3. NumAllocatedByAppend(g, n) = CeilDiv(n) - CeilDiv(slots[g])
  BY <1>2, AllocatedByAppend
<1> QED
  BY <1>1, <1>2, <1>3, HeldByGroup, HeldByGroupThen, BalancedKeepsBlocks

LEMMA SwapOutKeepsBlocks ==
    ASSUME MemTypeOK, MemTypeOK', BlocksCounted, NEW g \in Groups,
           SwapOut(g), device[g] = "gpu"
    PROVE  BlocksCounted'
<1>1. /\ device'[g] = "cpu" /\ slots' = slots
      /\ \A h \in Groups \ {g} : device'[h] = device[h] /\ slots'[h] = slots[h]
      /\ gpuFree' = gpuFree + CeilDiv(slots[g])
      /\ cpuFree' = cpuFree - CeilDiv(slots[g])
  BY DEF SwapOut, MemTypeOK, NumHeld
<1>2. gpuFree \in Int /\ cpuFree \in Int
  BY DEF MemTypeOK
<1> QED
  BY <1>1, <1>2, HeldByGroup, HeldByGroupThen, BalancedKeepsBlocks

LEMMA SwapInKeepsBlocks ==
    ASSUME MemTypeOK, MemTypeOK', BlocksCounted, NEW g \in Groups, NEW n \in Nat,
           SwapInAndAppend(g, n), device[g] = "cpu", slots[g] <= n
    PROVE  BlocksCounted'
<1>1. /\ device'[g] = "gpu" /\ slots'[g] = n
      /\ \A h \in Groups \ {g} : device'[h] = device[h] /\ slots'[h] = slots[h]
      /\ gpuFree' = gpuFree - CeilDiv(slots[g]) - NumAllocatedByAppend(g, n)
      /\ cpuFree' = cpuFree + CeilDiv(slots[g])
  BY DEF SwapInAndAppend, MemTypeOK, NumHeld
<1>2. gpuFree \in Int /\ cpuFree \in Int /\ slots[g] \in Nat
  BY DEF MemTypeOK
<1>3. NumAllocatedByAppend(g, n) = CeilDiv(n) - CeilDiv(slots[g])
  BY <1>2, AllocatedByAppend
<1> QED
  BY <1>1, <1>2, <1>3, HeldByGroup, HeldByGroupThen, BalancedKeepsBlocks

LEMMA PreemptKeepsBlocks ==
    ASSUME MemTypeOK, MemTypeOK', BlocksCounted, NEW g \in Groups,
           Preempt(g), device[g] = "gpu"
    PROVE  BlocksCounted'
  BY FreeKeepsBlocks, SwapOutKeepsBlocks DEF Preempt

-----------------------------------------------------------------------------
(* The steps of the scheduler that use the block manager.                  *)

\* The table of a group whose status is known.
LEMMA TableOf ==
    ASSUME Inv, Linked, NEW g \in Groups
    PROVE  /\ status[g] = "running" => device[g] = "gpu"
           /\ status[g] = "swapped" => device[g] = "cpu"
           /\ status[g] = "waiting" => device[g] = "none"
           /\ SeqLen(g) \in Nat /\ slots[g] <= SeqLen(g)
  BY LengthsAreInt
  DEF Inv, MemSafe, SlotsFit, Finished, Linked, GroupLinked, TableLinked,
      CacheLinked, QueuesLinked, ResultsLinked, SelectedLinked,
      CandidateLinked, TodoLinked, Scheduling, Deciding, Planned, ChunkFits,
      IsFinished, Finished, IsPrefill

\* A client's step.
LEMMA ClientsKeepBlocks ==
    ASSUME Inv, Inv', Linked, BlocksCounted, Clients
    PROVE  BlocksCounted'
<1>1. MemTypeOK /\ MemTypeOK'
  BY DEF Inv, MemSafe
<1>2. PICK g \in Groups : AddSeqGroup(g) \/ AbortSeqGroup(g)
  BY DEF Clients
<1> QED
  BY <1>1, <1>2, UnchangedKeepsBlocks, FreeKeepsBlocks
  DEF AddSeqGroup, AbortSeqGroup

\* A step of the engine about one group.
LEMMA GroupStepKeepsBlocks ==
    ASSUME Inv, Inv', Linked, BlocksCounted, NEW g \in Groups,
           \/ FreeStopped(g) \/ PreemptPending(g) \/ Process(g)
           \/ SwapInSelected(g) \/ RunSelected(g) \/ PrefillSelected(g)
           \/ RunNext(g) \/ RunEvicts(g) \/ SwapInNext(g) \/ PrefillNext(g)
           \/ DullAbort(g) \/ Advance(g) \/ ProcessOutput(g)
    PROVE  BlocksCounted'
<1>1. MemTypeOK /\ MemTypeOK'
  BY DEF Inv, MemSafe
<1>2. CASE FreeStopped(g) \/ DullAbort(g)
  BY <1>1, <1>2, FreeKeepsBlocks DEF FreeStopped, DullAbort
<1>3. CASE PreemptPending(g)
  <2>1. ASSUME PendingPreempts(g) PROVE BlocksCounted'
    <3>1. status[g] = "running"
      BY <1>3, <2>1
      DEF PendingPreempts, PreemptPending, Linked, GroupLinked, TableLinked,
          CacheLinked, QueuesLinked, ResultsLinked, SelectedLinked,
          CandidateLinked, TodoLinked, Scheduling, Deciding, Planned,
          ChunkFits, IsFinished, Finished, IsPrefill
    <3> QED
      BY <1>1, <2>1, <3>1, TableOf, PreemptKeepsBlocks DEF PendingPreempts
  <2> QED
    BY <1>3, <2>1, PreemptPendingOutcomes, UnchangedKeepsBlocks
<1>4. CASE Process(g)
  <2>1. ASSUME ProcessPreempts(g) PROVE BlocksCounted'
    BY <1>1, <2>1, TableOf, PreemptKeepsBlocks DEF ProcessPreempts
  <2>2. ASSUME NEW n \in 1..2, ProcessSelects(g, n) PROVE BlocksCounted'
    BY <2>2, UnchangedKeepsBlocks DEF ProcessSelects
  <2>3. ASSUME ProcessPasses(g) PROVE BlocksCounted'
    BY <2>3, UnchangedKeepsBlocks DEF ProcessPasses
  <2> QED
    BY <1>4, <2>1, <2>2, <2>3, ProcessOutcomes DEF Linked, GroupLinked
<1>5. CASE SwapInSelected(g)
  <2>1. status[g] = "swapped"
    BY <1>5
    DEF SwapInSelected, Linked, GroupLinked, TableLinked, CacheLinked,
        QueuesLinked, ResultsLinked, SelectedLinked, CandidateLinked,
        TodoLinked, Scheduling, Deciding, Planned, ChunkFits, IsFinished,
        Finished, IsPrefill
  <2> QED
    BY <1>1, <1>5, <2>1, TableOf, SwapInSelectedOutcomes, SwapInKeepsBlocks,
       UnchangedKeepsBlocks
    DEF SwapInSelects, SwapInDeclines
<1>6. CASE RunSelected(g)
  <2>1. status[g] = "running"
    BY <1>6
    DEF RunSelected, Linked, GroupLinked, TableLinked, CacheLinked,
        QueuesLinked, ResultsLinked, SelectedLinked, CandidateLinked,
        TodoLinked, Scheduling, Deciding, Planned, ChunkFits, IsFinished,
        Finished, IsPrefill
  <2> QED
    BY <1>1, <1>6, <2>1, TableOf, RunSelectedOutcomes, AppendKeepsBlocks,
       UnchangedKeepsBlocks
    DEF RunSelects, RunDeclines
<1>7. CASE PrefillSelected(g)
  BY <1>1, <1>7, TableOf, PrefillSelectedOutcomes, AllocateKeepsBlocks,
     UnchangedKeepsBlocks
  DEF PrefillSelects, PrefillDeclines
<1>8. CASE RunNext(g) \/ Advance(g)
  BY <1>8, UnchangedKeepsBlocks DEF RunNext, Advance
<1>9. CASE RunEvicts(g)
  <2>1. status[g] = "running"
    BY <1>9
    DEF RunEvicts, Linked, GroupLinked, TableLinked, CacheLinked, QueuesLinked,
        ResultsLinked, SelectedLinked, CandidateLinked, TodoLinked, Scheduling,
        Deciding, Planned, ChunkFits, IsFinished, Finished, IsPrefill
  <2> QED
    BY <1>1, <1>9, <2>1, TableOf, RunEvictsOutcomes, FreeKeepsBlocks,
       PreemptKeepsBlocks
    DEF RunStopsLate, RunPreempts
<1>10. CASE SwapInNext(g)
  <2>1. ASSUME NEW n \in Nat \ {0}, SwapInAdmits(g, n) PROVE BlocksCounted'
    BY <1>1, <2>1, TableOf, SwapInKeepsBlocks DEF SwapInAdmits
  <2>2. ASSUME SwapInEnds \/ SwapInGivesUp(g) \/ SwapInPasses(g)
        PROVE  BlocksCounted'
    BY <1>1, <2>2, FreeKeepsBlocks, UnchangedKeepsBlocks
    DEF SwapInEnds, SwapInGivesUp, SwapInPasses
  <2> QED
    BY <1>10, <2>1, <2>2, SwapInNextOutcomes
<1>11. CASE PrefillNext(g)
  <2>1. ASSUME NEW n \in Nat \ {0}, PrefillAdmits(g, n) PROVE BlocksCounted'
    BY <1>1, <2>1, TableOf, AllocateKeepsBlocks DEF PrefillAdmits
  <2>2. ASSUME PrefillSkips(g) \/ PrefillGivesUp(g) \/ PrefillEnds
        PROVE  BlocksCounted'
    BY <2>2, UnchangedKeepsBlocks DEF PrefillSkips, PrefillGivesUp, PrefillEnds
  <2> QED
    BY <1>11, <2>1, <2>2, PrefillNextOutcomes
<1>12. CASE ProcessOutput(g)
  BY <1>1, <1>12, FreeKeepsBlocks, UnchangedKeepsBlocks DEF ProcessOutput
<1> QED
  BY <1>2, <1>3, <1>4, <1>5, <1>6, <1>7, <1>8, <1>9, <1>10, <1>11, <1>12

LEMMA NextKeepsBlocks ==
    Inv /\ Inv' /\ Linked /\ BlocksCounted /\ [Next]_vars => BlocksCounted'
<1> SUFFICES ASSUME Inv, Inv', Linked, BlocksCounted, [Next]_vars
             PROVE  BlocksCounted'
  OBVIOUS
<1>1. CASE UNCHANGED vars \/ WaitForRequests
  BY <1>1, UnchangedKeepsBlocks DEF WaitForRequests, vars
<1>2. CASE Clients
  BY <1>2, ClientsKeepBlocks
<1>3. CASE Engine
  <2>1. CASE RunFits
    <3> PICK g \in Groups : g = it.cand
      BY <2>1, CandidateIsGroup DEF RunFits
    <3>1. status[g] = "running"
      BY <2>1, SchedulerAssumption
      DEF RunFits, Linked, GroupLinked, TableLinked, CacheLinked, QueuesLinked,
          ResultsLinked, SelectedLinked, CandidateLinked, TodoLinked,
          Scheduling, Deciding, Planned, ChunkFits, IsFinished, Finished,
          IsPrefill
    <3> QED
      BY <2>1, <3>1, TableOf, AppendKeepsBlocks DEF RunFits, Inv, MemSafe
  <2>2. CASE \/ BeginSchedule \/ ChooseBin \/ BuildProcessList
             \/ EndProcess \/ EnterChunked \/ EndRun \/ EndSwapIn
             \/ Commit \/ EndSchedule \/ EndAdvance \/ EndOutputs
    <3>1. UNCHANGED memVars
      BY <2>2
      DEF BeginSchedule, ChooseBin, BuildProcessList, EndProcess, EnterChunked,
          EndRun, EndSwapIn, Commit, EndSchedule, EndAdvance, EndOutputs
    <3> QED
      BY <3>1, UnchangedKeepsBlocks
  <2>3. CASE \E g \in Groups :
               \/ FreeStopped(g) \/ PreemptPending(g) \/ Process(g)
               \/ SwapInSelected(g) \/ RunSelected(g) \/ PrefillSelected(g)
               \/ RunNext(g) \/ RunEvicts(g) \/ SwapInNext(g)
               \/ PrefillNext(g) \/ DullAbort(g) \/ Advance(g)
               \/ ProcessOutput(g)
    BY <2>3, GroupStepKeepsBlocks
  <2> QED
    BY <1>3, <2>1, <2>2, <2>3 DEF Engine
<1> QED
  BY <1>1, <1>2, <1>3 DEF Next

LEMMA InitBlocks == Init => BlocksCounted
<1> SUFFICES ASSUME Init PROVE BlocksCounted
  OBVIOUS
<1>1. MemTypeOK
  BY InitInv DEF Inv, MemSafe
<1>2. IsFiniteSet(Groups)
  BY SchedulerAssumption
<1> DEFINE zero == [g \in Groups |-> 0]
<1>3. HeldOn("gpu") = zero /\ HeldOn("cpu") = zero
  BY DEF HeldOn, HeldBy, Init, MemInit
<1>4. Sum(zero, Groups) = 0
  <2>1. \A g \in Groups \ {} : zero[g] = 0
    OBVIOUS
  <2>2. \A g \in Groups : zero[g] \in Int
    OBVIOUS
  <2> HIDE DEF zero
  <2>3. Sum(zero, {}) = Sum(zero, Groups)
    BY <1>2, <2>1, <2>2, SumOfPart
  <2> QED
    BY <2>3, SumOfNone
<1> QED
  BY <1>3, <1>4, BlockAssumption DEF BlocksCounted, TotalHeld, Init, MemInit

\* No block leaks and none is freed twice: at every moment each block of the
\* two pools is free or in the table of one group.
THEOREM BlocksAreConserved == Spec => []BlocksConserved
<1>1. Inv /\ BlocksCounted => BlocksConserved
  BY HeldIsTotal DEF Inv, MemSafe, BlocksCounted, BlocksConserved
<1>2. Init => BlocksCounted
  BY InitBlocks
<1>3. Inv /\ Inv' /\ Linked /\ BlocksCounted /\ [Next]_vars => BlocksCounted'
  BY NextKeepsBlocks
<1> QED
  BY <1>1, <1>2, <1>3, LinkedAlways, PTL DEF Spec

-----------------------------------------------------------------------------
(* The budget of a call.                                                   *)

\* The groups that have been given tokens, and the tokens given to them.
Chosen == it.scheduled \cup it.selected
Spent == Sum(it.chunk, Chosen)

\* The counters of the budget do not lag behind the lists, and stay below the
\* limits.  A selected group has a token, so that the later loops, which give
\* it another number, only lower the sum or count the difference; the
\* candidate has been given what was left.
BudgetKept ==
    Scheduling =>
        /\ Spent <= it.tokens /\ it.tokens <= MaxBatchedTokens
        /\ Cardinality(Chosen) <= it.seqs
        /\ it.slo => it.seqs <= it.seqCap
        /\ pc \in {"free", "preempt"} => it.seqs = 0
        /\ pc \in {"run", "swapIn", "prefill"} => ~it.slo
        /\ \A g \in it.selected : it.chunk[g] >= 1
        /\ it.cand # None => it.chunk[it.cand] >= 1
                             /\ it.chunk[it.cand] <= RemainingTokens

LEMMA ChosenType ==
    ASSUME it \in Iteration
    PROVE  /\ IsFiniteSet(Chosen) /\ Chosen \subseteq Groups
           /\ \A g \in Groups : it.chunk[g] \in Int
           /\ Spent \in Int /\ Cardinality(Chosen) \in Nat
           /\ it.tokens \in Int /\ it.seqs \in Int /\ it.seqCap \in Int
           /\ it.scheduled \subseteq Groups /\ it.selected \subseteq Groups
<1>1. Chosen \subseteq Groups /\ \A g \in Groups : it.chunk[g] \in Int
  BY DEF Iteration, Chosen
<1>2. IsFiniteSet(Chosen)
  BY <1>1, SchedulerAssumption, FS_Subset
<1>3. \A g \in Chosen : it.chunk[g] \in Int
  BY <1>1
<1>4. Spent \in Int
  BY <1>2, <1>3, SumType DEF Spent
<1>5. Cardinality(Chosen) \in Nat
  BY <1>2, FS_CardinalityType
<1>6. /\ it.tokens \in Int /\ it.seqs \in Int /\ it.seqCap \in Int
      /\ it.scheduled \subseteq Groups /\ it.selected \subseteq Groups
  BY DEF Iteration
<1> QED
  BY <1>1, <1>2, <1>4, <1>5, <1>6

\* A step that gives no tokens.
LEMMA SpentStays ==
    ASSUME it \in Iteration, Chosen' = Chosen,
           \A h \in Chosen : it'.chunk[h] = it.chunk[h]
    PROVE  Spent' = Spent
<1> DEFINE v == it.chunk
           w == it'.chunk
           S == Chosen
<1>1. Spent = Sum(v, S) /\ Spent' = Sum(w, S)
  BY DEF Spent
<1>2. IsFiniteSet(S) /\ \A h \in S : w[h] = v[h]
  BY ChosenType
<1> HIDE DEF v, w, S
<1> QED
  BY <1>1, <1>2, SumOfEqual

\* A group is chosen.
LEMMA SpentGrows ==
    ASSUME it \in Iteration, it' \in Iteration, NEW g \in Groups,
           g \notin Chosen, Chosen' = Chosen \cup {g},
           \A h \in Chosen : it'.chunk[h] = it.chunk[h]
    PROVE  /\ Spent' = Spent + it'.chunk[g]
           /\ Cardinality(Chosen)' = Cardinality(Chosen) + 1
<1> DEFINE v == it.chunk
           w == it'.chunk
           S == Chosen
<1>1. Spent = Sum(v, S) /\ Spent' = Sum(w, S \cup {g})
  BY DEF Spent
<1>2. IsFiniteSet(S) /\ \A h \in S : w[h] = v[h]
  BY ChosenType
<1>3. \A h \in Groups : w[h] \in Int
  BY DEF Iteration
<1>4. S \subseteq Groups /\ g \notin S /\ Spent \in Int
  BY ChosenType
<1>5. Cardinality(Chosen)' = Cardinality(S \cup {g})
  OBVIOUS
<1>6. Cardinality(Chosen) = Cardinality(S)
  OBVIOUS
<1> HIDE DEF v, w, S
<1>7. Sum(w, S) = Sum(v, S)
  BY <1>2, SumOfEqual
<1>8. \A h \in S \cup {g} : w[h] \in Int
  BY <1>3, <1>4
<1>9. Sum(w, S \cup {g}) = w[g] + Sum(w, S)
  BY <1>2, <1>4, <1>8, SumAdds
<1>10. Spent' = Spent + w[g]
  BY <1>1, <1>3, <1>4, <1>7, <1>9
<1>11. Cardinality(S \cup {g}) = Cardinality(S) + 1
  BY <1>2, <1>4, FS_AddElement
<1> QED
  BY <1>5, <1>6, <1>10, <1>11 DEF w

\* A group is declined after all.
LEMMA SpentShrinks ==
    ASSUME it \in Iteration, NEW g \in Chosen, Chosen' = Chosen \ {g},
           \A h \in Chosen \ {g} : it'.chunk[h] = it.chunk[h]
    PROVE  /\ Spent' = Spent - it.chunk[g]
           /\ Cardinality(Chosen)' = Cardinality(Chosen) - 1
<1> DEFINE v == it.chunk
           w == it'.chunk
           S == Chosen
           rest == Chosen \ {g}
<1>1. Spent = Sum(v, S) /\ Spent' = Sum(w, rest)
  BY DEF Spent
<1>2. IsFiniteSet(S) /\ \A h \in rest : w[h] = v[h]
  BY ChosenType
<1>3. \A h \in S : v[h] \in Int
  BY ChosenType
<1>4. g \in S /\ rest = S \ {g}
  OBVIOUS
<1>5. Cardinality(Chosen)' = Cardinality(rest)
  OBVIOUS
<1>6. Cardinality(Chosen) = Cardinality(S)
  OBVIOUS
<1> HIDE DEF v, w, S, rest
<1>7. IsFiniteSet(rest) /\ Cardinality(rest) = Cardinality(S) - 1
  BY <1>2, <1>4, FS_RemoveElement
<1>8. Sum(w, rest) = Sum(v, rest)
  BY <1>2, <1>7, SumOfEqual
<1>9. Sum(v, S) = v[g] + Sum(v, rest)
  BY <1>2, <1>3, <1>4, SumTakes
<1>10. Sum(v, rest) \in Int
  BY <1>3, <1>4, <1>7, SumType
<1>11. Spent' = Spent - v[g]
  BY <1>1, <1>3, <1>4, <1>8, <1>9, <1>10
<1> QED
  BY <1>5, <1>6, <1>7, <1>11 DEF v

\* A chosen group is given another number of tokens.
LEMMA SpentChanges ==
    ASSUME it \in Iteration, it' \in Iteration, NEW g \in Chosen, Chosen' = Chosen,
           \A h \in Chosen \ {g} : it'.chunk[h] = it.chunk[h]
    PROVE  Spent' = Spent + it'.chunk[g] - it.chunk[g]
<1> DEFINE v == it.chunk
           w == it'.chunk
           S == Chosen
<1>1. Spent = Sum(v, S) /\ Spent' = Sum(w, S)
  BY DEF Spent
<1>2. IsFiniteSet(S) /\ \A h \in S \ {g} : w[h] = v[h]
  BY ChosenType
<1>3. \A h \in S : v[h] \in Int /\ w[h] \in Int
  BY ChosenType DEF Iteration
<1>4. g \in S
  OBVIOUS
<1> HIDE DEF v, w, S
<1>5. Sum(w, S) - Sum(v, S) = w[g] - v[g]
  BY <1>2, <1>3, <1>4, SumChanges
<1>6. Sum(w, S) \in Int /\ Sum(v, S) \in Int
  BY <1>2, <1>3, SumType
<1>7. w[g] \in Int /\ v[g] \in Int
  BY <1>3, <1>4
<1>8. Spent' = Spent + w[g] - v[g]
  BY <1>1, <1>5, <1>6, <1>7
<1> QED
  BY <1>8 DEF v, w

\* A step that leaves the budget and the choice alone.
LEMMA SameBudget ==
    ASSUME Inv, BudgetKept, Scheduling,
           it'.tokens = it.tokens, it'.seqs = it.seqs, it'.slo = it.slo,
           it'.scheduled = it.scheduled, it'.selected = it.selected,
           \A h \in Chosen : it'.chunk[h] = it.chunk[h],
           it'.cand # None => it'.chunk[it'.cand] >= 1
                              /\ it'.chunk[it'.cand] <= RemainingTokens,
           it.slo => it.seqs <= it'.seqCap,
           pc' \in {"free", "preempt"} => it.seqs = 0,
           pc' \in {"run", "swapIn", "prefill"} => ~it.slo
    PROVE  BudgetKept'
<1>1. Chosen' = Chosen /\ RemainingTokens' = RemainingTokens
  BY DEF Chosen, RemainingTokens
<1>2. Spent' = Spent
  BY <1>1, CallIsIteration, SpentStays
<1>3. \A h \in it.selected : it'.chunk[h] = it.chunk[h]
  BY DEF Chosen
<1> QED
  BY <1>1, <1>2, <1>3 DEF BudgetKept

\* Another group is chosen: within the limits, and counted.
LEMMA ChoiceKeepsBudget ==
    ASSUME Inv, Inv', BudgetKept, Scheduling, pc' = pc,
           NEW g \in Groups, NEW n \in Nat \ {0},
           g \notin Chosen, Chosen' = Chosen \cup {g},
           it'.chunk[g] = n, \A h \in Groups \ {g} : it'.chunk[h] = it.chunk[h],
           it'.tokens = it.tokens + n, it'.seqs = it.seqs + 1,
           it.tokens + n <= MaxBatchedTokens,
           it'.slo = it.slo, it'.seqCap = it.seqCap,
           it.slo => it.seqs + 1 <= it.seqCap,
           pc \notin {"free", "preempt"}, it'.cand = None,
           it'.selected \in {it.selected, it.selected \cup {g}}
    PROVE  BudgetKept'
<1>1. it \in Iteration /\ it' \in Iteration
  BY CallIsIteration DEF Inv, CallTypeOK
<1>2. \A h \in Chosen : it'.chunk[h] = it.chunk[h]
  BY <1>1, ChosenType
<1>3. Spent' = Spent + n /\ Cardinality(Chosen)' = Cardinality(Chosen) + 1
  BY <1>1, <1>2, SpentGrows
<1>4. Spent' <= it'.tokens /\ Cardinality(Chosen)' <= it'.seqs
  BY <1>1, <1>3, ChosenType DEF BudgetKept
<1>5. \A h \in it'.selected : it'.chunk[h] >= 1
  BY <1>1, ChosenType DEF BudgetKept
<1> QED
  BY <1>4, <1>5 DEF BudgetKept

\* A selected group is scheduled with a number of tokens of which the rise is
\* counted, or declined.
LEMMA SettlingKeepsBudget ==
    ASSUME Inv, Inv', BudgetKept, pc = "apply", pc' = pc,
           NEW g \in it.selected, g \notin it.scheduled,
           it'.selected = it.selected \ {g},
           \A h \in Groups \ {g} : it'.chunk[h] = it.chunk[h],
           NEW add \in Int, 0 <= add, it'.tokens = it.tokens + add,
           it'.tokens <= MaxBatchedTokens,
           it'.seqs = it.seqs, it'.slo = it.slo, it'.seqCap = it.seqCap,
           it'.cand = None,
           \/ it'.scheduled = it.scheduled
           \/ /\ it'.scheduled = it.scheduled \cup {g}
              /\ it'.chunk[g] <= it.chunk[g] + add
    PROVE  BudgetKept'
<1>1. it \in Iteration /\ it' \in Iteration /\ g \in Chosen /\ g \in Groups
  BY CallIsIteration, ChosenType DEF Inv, CallTypeOK, Chosen
<1>2. \A h \in Chosen \ {g} : it'.chunk[h] = it.chunk[h]
  BY <1>1, ChosenType
<1>3. it.chunk[g] \in Int /\ it'.chunk[g] \in Int /\ it.chunk[g] >= 1
  BY <1>1 DEF BudgetKept, Scheduling, Iteration
<1>4. Spent' <= Spent + add /\ Cardinality(Chosen)' <= Cardinality(Chosen)
  <2>1. CASE it'.scheduled = it.scheduled
    <3>1. Chosen' = Chosen \ {g}
      BY <2>1 DEF Chosen
    <3>2. Spent' = Spent - it.chunk[g] /\ Cardinality(Chosen)' = Cardinality(Chosen) - 1
      BY <1>1, <1>2, <3>1, SpentShrinks
    <3> QED
      BY <1>1, <1>3, <3>2, ChosenType
  <2>2. CASE /\ it'.scheduled = it.scheduled \cup {g}
             /\ it'.chunk[g] <= it.chunk[g] + add
    <3>1. Chosen' = Chosen
      BY <2>2 DEF Chosen
    <3>2. Spent' = Spent + it'.chunk[g] - it.chunk[g]
      BY <1>1, <1>2, <3>1, SpentChanges
    <3>3. Cardinality(Chosen)' = Cardinality(Chosen)
      BY <3>1
    <3> QED
      BY <1>1, <1>3, <2>2, <3>2, <3>3, ChosenType
  <2> QED
    BY <2>1, <2>2
<1>5. Spent' \in Int /\ Cardinality(Chosen)' \in Int
  <2>1. \A h \in Chosen' : it'.chunk[h] \in Int
    BY <1>1 DEF Chosen, Iteration
  <2>2. IsFiniteSet(Chosen')
    <3>1. Chosen' \subseteq Groups
      BY <1>1 DEF Chosen, Iteration
    <3> QED
      BY <3>1, SchedulerAssumption, FS_Subset
  <2> QED
    BY <2>1, <2>2, SumType, FS_CardinalityType DEF Spent
<1>6. \A h \in it'.selected : it'.chunk[h] >= 1
  BY <1>1, ChosenType DEF BudgetKept, Scheduling
<1>7. Spent' <= it'.tokens /\ Cardinality(Chosen)' <= it'.seqs
  BY <1>1, <1>4, <1>5, ChosenType DEF BudgetKept, Scheduling
<1> QED
  BY <1>6, <1>7 DEF BudgetKept, Scheduling

\* Outside the loops there is no candidate.
LEMMA CandidateOnlyInRun ==
    ASSUME Inv, Linked, pc # "run"
    PROVE  it.cand = None
  BY CallIsIteration
  DEF Iteration, Linked, GroupLinked, TableLinked, CacheLinked, QueuesLinked,
      ResultsLinked, SelectedLinked, CandidateLinked, TodoLinked, Scheduling,
      Deciding, Planned, ChunkFits, IsFinished, Finished, IsPrefill

\* One lemma per group of actions: they keep the budget.
LEMMA BeginScheduleKeepsBudget ==
    ASSUME Inv, BeginSchedule
    PROVE  BudgetKept'
<1>1. IsFiniteSet(running) /\ Cardinality(running) \in Nat
  <2>1. running \subseteq Groups
    BY DEF Inv, QueueTypeOK
  <2>2. IsFiniteSet(running)
    BY <2>1, SchedulerAssumption, FS_Subset
  <2> QED
    BY <2>2, FS_CardinalityType
<1>2. /\ pc' = "free" /\ it'.tokens = 0 /\ it'.seqs = 0
      /\ it'.scheduled = {} /\ it'.selected = {} /\ it'.cand = None
      /\ it'.slo => it'.seqCap = Max2(Cardinality(running), maxNumSeqs)
  BY DEF BeginSchedule, NoIteration
<1>3. maxNumSeqs \in Int
  BY SchedulerAssumption DEF Inv, CtlTypeOK
<1>4. it'.slo => it'.seqs <= it'.seqCap
  BY <1>1, <1>2, <1>3 DEF Max2
<1>5. Chosen' = {}
  BY <1>2 DEF Chosen
<1>6. Spent' = 0 /\ Cardinality(Chosen)' = 0
  BY <1>5, SumOfNone, FS_EmptySet DEF Spent
<1> QED
  BY <1>2, <1>4, <1>6, SchedulerAssumption DEF BudgetKept

LEMMA BuildProcessListKeepsBudget ==
    ASSUME Inv, Linked, BudgetKept, BuildProcessList
    PROVE  BudgetKept'
<1>1. /\ pc = "preempt" /\ pc' = "process" /\ Scheduling /\ it.cand = None
  BY CandidateOnlyInRun DEF BuildProcessList, Scheduling
<1>2. \E q : \E t \in SUBSET Groups, c \in Int :
        /\ c >= 0
        /\ \/ it' = [it EXCEPT !.todo = t, !.seqCap = c, !.quota = q]
           \/ it' = [it EXCEPT !.todo = t, !.quota = q]
  <2> DEFINE q == NumGpuBlocks - Watermark
             Cap(t) == Max2(MaxNumSeqs, Cardinality(t))
  <2>1. \E t : \/ it' = [it EXCEPT !.todo = t, !.seqCap = Cap(t), !.quota = q]
               \/ it' = [it EXCEPT !.todo = t, !.quota = q]
    BY DEF BuildProcessList
  <2>2. PICK t : \/ it' = [it EXCEPT !.todo = t, !.seqCap = Cap(t), !.quota = q]
                 \/ it' = [it EXCEPT !.todo = t, !.quota = q]
    BY <2>1
  <2>3. it'.todo = t
    BY <2>2, CallIsIteration DEF Iteration
  <2>4. t \in SUBSET Groups
    <3>1. it' \in Iteration
      BY BuildProcessListKeepsInv DEF Inv, CallTypeOK
    <3> QED
      BY <2>3, <3>1 DEF Iteration
  <2>5. Cap(t) \in Int /\ Cap(t) >= 0
    <3>1. Cardinality(t) \in Nat
      BY <2>4, SchedulerAssumption, FS_Subset, FS_CardinalityType
    <3> QED
      BY <3>1, SchedulerAssumption DEF Max2
  <2> HIDE DEF Cap, q
  <2> QED
    BY <2>2, <2>4, <2>5
<1>3. PICK c \in Int : c >= 0 /\ it'.seqCap \in {c, it.seqCap}
  BY <1>2, CallIsIteration DEF Iteration
<1>4. /\ it'.tokens = it.tokens /\ it'.seqs = it.seqs /\ it'.slo = it.slo
      /\ it'.scheduled = it.scheduled /\ it'.selected = it.selected
      /\ it'.chunk = it.chunk /\ it'.cand = it.cand
  BY <1>2, CallIsIteration DEF Iteration
<1>5. it.slo => it.seqs <= it'.seqCap
  BY <1>1, <1>3 DEF BudgetKept
<1> QED
  BY <1>1, <1>4, <1>5, SameBudget

LEMMA ProcessKeepsBudget ==
    ASSUME Inv, Inv', Linked, BudgetKept, NEW g \in Groups, Process(g)
    PROVE  BudgetKept'
<1>1. /\ pc = "process" /\ pc' = pc /\ Scheduling /\ it.cand = None
      /\ g \in it.todo
  BY CandidateOnlyInRun DEF Process, Scheduling
<1>2. g \notin Chosen
  BY <1>1
  DEF Chosen, Linked, GroupLinked, TableLinked, CacheLinked, QueuesLinked,
      ResultsLinked, SelectedLinked, CandidateLinked, TodoLinked, Scheduling,
      Deciding, Planned, ChunkFits, IsFinished, Finished, IsPrefill
<1>3. ASSUME NEW n \in 1..2, ProcessSelects(g, n) PROVE BudgetKept'
  <2>1. /\ it'.selected = it.selected \cup {g}
        /\ it'.scheduled = it.scheduled
        /\ it'.chunk[g] = n
        /\ \A h \in Groups \ {g} : it'.chunk[h] = it.chunk[h]
        /\ it'.tokens = it.tokens + n /\ it'.seqs = it.seqs + 1
        /\ it'.slo = it.slo /\ it'.seqCap = it.seqCap
        /\ it'.cand = it.cand
    BY <1>3, CallIsIteration DEF ProcessSelects, Iteration
  <2>2. it.tokens + n <= MaxBatchedTokens /\ it.seqs + 1 <= it.seqCap
    BY <1>3 DEF ProcessSelects, CanSchedule
  <2>3. Chosen' = Chosen \cup {g} /\ n \in Nat \ {0}
    BY <2>1 DEF Chosen
  <2> QED
    BY <1>1, <1>2, <2>1, <2>2, <2>3, ChoiceKeepsBudget
<1>4. ASSUME ProcessPasses(g) PROVE BudgetKept'
  <2>1. /\ it'.tokens = it.tokens /\ it'.seqs = it.seqs /\ it'.slo = it.slo
        /\ it'.scheduled = it.scheduled /\ it'.selected = it.selected
        /\ it'.chunk = it.chunk /\ it'.cand = it.cand
        /\ it'.seqCap = it.seqCap
    BY <1>4, CallIsIteration DEF ProcessPasses, Iteration
  <2> QED
    BY <1>1, <2>1, SameBudget DEF BudgetKept
<1>5. ASSUME ProcessPreempts(g) PROVE BudgetKept'
  <2>1. /\ it'.tokens = it.tokens /\ it'.seqs = it.seqs /\ it'.slo = it.slo
        /\ it'.scheduled = it.scheduled /\ it'.selected = it.selected
        /\ it'.chunk = it.chunk /\ it'.cand = it.cand
        /\ it'.seqCap = it.seqCap
    BY <1>5, CallIsIteration DEF ProcessPreempts, PreemptedFrom, Iteration
  <2> QED
    BY <1>1, <2>1, SameBudget DEF BudgetKept
<1> QED
  BY <1>3, <1>4, <1>5, ProcessOutcomes DEF Linked, GroupLinked

LEMMA SettleKeepsBudget ==
    ASSUME Inv, Inv', Linked, BudgetKept, NEW g \in Groups,
           SwapInSelected(g) \/ RunSelected(g) \/ PrefillSelected(g)
    PROVE  BudgetKept'
<1>1. /\ pc = "apply" /\ pc' = pc /\ it.cand = None /\ Scheduling
      /\ g \in it.selected
  BY CandidateOnlyInRun
  DEF SwapInSelected, RunSelected, PrefillSelected, Scheduling
<1>2. g \notin it.scheduled
  BY <1>1
  DEF Linked, GroupLinked, TableLinked, CacheLinked, QueuesLinked,
      ResultsLinked, SelectedLinked, CandidateLinked, TodoLinked, Scheduling,
      Deciding, Planned, ChunkFits, IsFinished, Finished, IsPrefill
<1>3. /\ it.tokens \in Int /\ it.tokens <= MaxBatchedTokens
      /\ it.chunk[g] \in Int /\ it.chunk[g] >= 1
  BY <1>1, CallIsIteration DEF BudgetKept, Iteration
<1>4. CASE SwapInSelected(g) \/ RunSelected(g)
  <2>1. /\ it'.selected = it.selected \ {g}
        /\ \A h \in Groups \ {g} : it'.chunk[h] = it.chunk[h]
        /\ it'.tokens = it.tokens /\ it'.seqs = it.seqs
        /\ it'.slo = it.slo /\ it'.seqCap = it.seqCap
        /\ it'.cand = it.cand
        /\ \/ it'.scheduled = it.scheduled
           \/ /\ it'.scheduled = it.scheduled \cup {g}
              /\ it'.chunk[g] \in {0, 1, it.chunk[g]}
    <3>1. CASE SwapInSelects(g)
      BY <3>1, CallIsIteration DEF SwapInSelects, Iteration
    <3>2. CASE SwapInDeclines(g)
      BY <3>2, CallIsIteration DEF SwapInDeclines, Iteration
    <3>3. CASE RunSelects(g)
      BY <3>3, CallIsIteration DEF RunSelects, Iteration
    <3>4. CASE RunDeclines(g)
      BY <3>4, CallIsIteration DEF RunDeclines, Iteration
    <3> QED
      BY <1>4, <3>1, <3>2, <3>3, <3>4, SwapInSelectedOutcomes,
         RunSelectedOutcomes
  <2>2. it'.tokens = it.tokens + 0
    BY <1>3, <2>1
  <2>3. it'.chunk[g] \in {0, 1, it.chunk[g]} => it'.chunk[g] <= it.chunk[g] + 0
    BY <1>3
  <2> QED
    BY <1>1, <1>2, <1>3, <2>1, <2>2, <2>3, SettlingKeepsBudget
<1>5. CASE PrefillSelected(g)
  <2>1. RemainingTokens = MaxBatchedTokens - it.tokens /\ MaxBatchedTokens \in Int
    BY SchedulerAssumption DEF RemainingTokens
  <2>2. ASSUME PrefillSelects(g) PROVE BudgetKept'
    <3>1. PICK add \in Int :
            /\ it' = [it EXCEPT !.selected = @ \ {g},
                                !.scheduled = @ \cup {g},
                                !.tokens = @ + add, !.chunk[g] = @ + add]
            /\ 0 <= add /\ add <= Max2(0, RemainingTokens)
      BY <2>2 DEF PrefillSelects
    <3>2. /\ it'.selected = it.selected \ {g}
          /\ it'.scheduled = it.scheduled \cup {g}
          /\ it'.chunk[g] = it.chunk[g] + add
          /\ \A h \in Groups \ {g} : it'.chunk[h] = it.chunk[h]
          /\ it'.tokens = it.tokens + add /\ it'.seqs = it.seqs
          /\ it'.slo = it.slo /\ it'.seqCap = it.seqCap
          /\ it'.cand = it.cand
      BY <3>1, CallIsIteration DEF Iteration
    <3>3. it'.tokens <= MaxBatchedTokens /\ it'.chunk[g] <= it.chunk[g] + add
      BY <1>3, <2>1, <3>1, <3>2 DEF Max2
    <3> QED
      BY <1>1, <1>2, <3>1, <3>2, <3>3, SettlingKeepsBudget
  <2>3. ASSUME PrefillDeclines(g) PROVE BudgetKept'
    <3>1. PICK add \in Int :
            /\ it' = [it EXCEPT !.selected = @ \ {g}, !.tokens = @ + add]
            /\ 0 <= add /\ add <= Max2(0, RemainingTokens)
      BY <2>3 DEF PrefillDeclines
    <3>2. /\ it'.selected = it.selected \ {g}
          /\ it'.scheduled = it.scheduled /\ it'.chunk = it.chunk
          /\ it'.tokens = it.tokens + add /\ it'.seqs = it.seqs
          /\ it'.slo = it.slo /\ it'.seqCap = it.seqCap
          /\ it'.cand = it.cand
      BY <3>1, CallIsIteration DEF Iteration
    <3>3. it'.tokens <= MaxBatchedTokens
      BY <1>3, <2>1, <3>1, <3>2 DEF Max2
    <3> QED
      BY <1>1, <1>2, <3>1, <3>2, <3>3, SettlingKeepsBudget
  <2> QED
    BY <1>5, <2>2, <2>3, PrefillSelectedOutcomes
<1> QED
  BY <1>4, <1>5

\* _schedule_running counts a group when there is room for it.
LEMMA RunKeepsBudget ==
    ASSUME Inv, Inv', Linked, BudgetKept, NEW g \in Groups,
           RunNext(g) \/ RunEvicts(g) \/ (RunFits /\ g = it.cand)
    PROVE  BudgetKept'
<1>1. /\ pc = "run" /\ pc' = pc /\ Scheduling /\ ~it.slo
  BY DEF RunNext, RunEvicts, RunFits, Scheduling, BudgetKept
<1>2. it.selected = {}
  BY <1>1, CallIsIteration
  DEF Iteration, Linked, GroupLinked, TableLinked, CacheLinked, QueuesLinked,
      ResultsLinked, SelectedLinked, CandidateLinked, TodoLinked, Scheduling,
      Deciding, Planned, ChunkFits, IsFinished, Finished, IsPrefill
<1>3. RemainingTokens = MaxBatchedTokens - it.tokens /\ it.tokens \in Int /\ MaxBatchedTokens \in Int
  BY SchedulerAssumption, CallIsIteration DEF RemainingTokens, Iteration
<1>4. CASE RunNext(g)
  <2>1. g \notin Chosen /\ it.cand = None
    BY <1>1, <1>4
    DEF RunNext, Chosen, Linked, GroupLinked, TableLinked, CacheLinked,
        QueuesLinked, ResultsLinked, SelectedLinked, CandidateLinked,
        TodoLinked, Scheduling, Deciding, Planned, ChunkFits, IsFinished,
        Finished, IsPrefill
  <2>2. /\ it'.tokens = it.tokens /\ it'.seqs = it.seqs /\ it'.slo = it.slo
        /\ it'.scheduled = it.scheduled /\ it'.selected = it.selected
        /\ it'.seqCap = it.seqCap
        /\ \A h \in Groups \ {g} : it'.chunk[h] = it.chunk[h]
        /\ it'.cand # None => it'.chunk[it'.cand] >= 1
                              /\ it'.chunk[it'.cand] <= RemainingTokens
    <3>1. CASE RunSkips(g)
      BY <2>1, <3>1, CallIsIteration DEF RunSkips, Iteration
    <3>2. CASE RunStops(g)
      BY <2>1, <3>2, CallIsIteration DEF RunStops, Iteration
    <3>3. ASSUME NEW n \in Nat \ {0}, RunTries(g, n)
          PROVE  /\ it'.tokens = it.tokens /\ it'.seqs = it.seqs
                 /\ it'.slo = it.slo /\ it'.scheduled = it.scheduled
                 /\ it'.selected = it.selected /\ it'.seqCap = it.seqCap
                 /\ \A h \in Groups \ {g} : it'.chunk[h] = it.chunk[h]
                 /\ it'.cand = g /\ it'.chunk[g] >= 1
                 /\ it'.chunk[g] <= RemainingTokens
      <4>1. it' = [it EXCEPT !.todo = @ \ {g}, !.cand = g, !.chunk[g] = n]
        BY <3>3 DEF RunTries
      <4>2. it'.chunk = [it.chunk EXCEPT ![g] = n] /\ it'.cand = g
        BY <4>1, CallIsIteration DEF Iteration
      <4>3. /\ it'.tokens = it.tokens /\ it'.seqs = it.seqs
            /\ it'.slo = it.slo /\ it'.scheduled = it.scheduled
            /\ it'.selected = it.selected /\ it'.seqCap = it.seqCap
        BY <4>1, CallIsIteration DEF Iteration
      <4>4. it.chunk \in [Groups -> Int] /\ n >= 1 /\ n <= RemainingTokens
        BY <3>3, CallIsIteration DEF RunTries, Iteration
      <4> QED
        BY <4>2, <4>3, <4>4
    <3> QED
      BY <1>4, <3>1, <3>2, <3>3, RunNextOutcomes
  <2>3. \A h \in Chosen : it'.chunk[h] = it.chunk[h]
    BY <2>1, <2>2, CallIsIteration, ChosenType
  <2> QED
    BY <1>1, <2>2, <2>3, SameBudget
<1>5. CASE RunEvicts(g)
  <2>1. /\ it'.tokens = it.tokens /\ it'.seqs = it.seqs /\ it'.slo = it.slo
        /\ it'.scheduled = it.scheduled /\ it'.selected = it.selected
        /\ it'.seqCap = it.seqCap /\ it'.chunk = it.chunk
        /\ it'.cand \in {None, it.cand}
    <3> DEFINE r == WithoutVictim(g)
    <3>1. /\ r \in Iteration
          /\ r.tokens = it.tokens /\ r.seqs = it.seqs /\ r.slo = it.slo
          /\ r.scheduled = it.scheduled /\ r.selected = it.selected
          /\ r.seqCap = it.seqCap /\ r.chunk = it.chunk
      BY CallIsIteration DEF WithoutVictim, Iteration
    <3>4. r.cand \in {None, it.cand}
      BY WithoutVictimFields
    <3> HIDE DEF r
    <3>2. CASE RunStopsLate(g)
      BY <3>1, <3>2, <3>4 DEF RunStopsLate, r
    <3>3. CASE RunPreempts(g)
      <4>1. PreemptedFrom(r, g)
        BY <3>3 DEF RunPreempts, r
      <4> QED
        BY <3>1, <3>4, <4>1 DEF PreemptedFrom, Iteration
    <3> QED
      BY <1>5, <3>2, <3>3, RunEvictsOutcomes
  <2> QED
    BY <1>1, <2>1, SameBudget DEF BudgetKept
<1>6. CASE RunFits /\ g = it.cand
  <2>1. g # None /\ g \notin it.scheduled /\ ChunkFits(g)
    BY <1>6
    DEF RunFits, Linked, GroupLinked, TableLinked, CacheLinked, QueuesLinked,
        ResultsLinked, SelectedLinked, CandidateLinked, TodoLinked, Scheduling,
        Deciding, Planned, ChunkFits, IsFinished, Finished, IsPrefill
  <2>2. /\ it'.scheduled = it.scheduled \cup {g} /\ it'.selected = it.selected
        /\ it'.chunk = it.chunk /\ it'.tokens = it.tokens + it.chunk[g]
        /\ it'.seqs = it.seqs + 1 /\ it'.cand = None
        /\ it'.slo = it.slo /\ it'.seqCap = it.seqCap
    BY <1>6, CallIsIteration DEF RunFits, Iteration
  <2>3. it.chunk[g] \in Nat \ {0} /\ it.chunk[g] <= RemainingTokens
    BY <1>1, <1>6, <2>1, CallIsIteration DEF Iteration, BudgetKept
  <2>4. it.tokens + it.chunk[g] <= MaxBatchedTokens
    BY <1>3, <2>3
  <2>6. /\ \A h \in Groups \ {g} : it'.chunk[h] = it.chunk[h]
        /\ it'.chunk[g] = it.chunk[g]
    BY <2>2
  <2>5. Chosen' = Chosen \cup {g} /\ g \notin Chosen
    BY <1>2, <2>1, <2>2 DEF Chosen
  <2> QED
    BY <1>1, <2>2, <2>3, <2>4, <2>5, <2>6, ChoiceKeepsBudget
<1> QED
  BY <1>4, <1>5, <1>6

LEMMA AdmissionKeepsBudget ==
    ASSUME Inv, Inv', Linked, BudgetKept, NEW g \in Groups,
           SwapInNext(g) \/ PrefillNext(g)
    PROVE  BudgetKept'
<1>1. /\ pc \in {"swapIn", "prefill"} /\ pc' = pc /\ Scheduling /\ ~it.slo
      /\ it.cand = None
  BY CandidateOnlyInRun DEF SwapInNext, PrefillNext, Scheduling, BudgetKept
<1>2. it.selected = {}
  BY <1>1, CallIsIteration
  DEF Iteration, Linked, GroupLinked, TableLinked, CacheLinked, QueuesLinked,
      ResultsLinked, SelectedLinked, CandidateLinked, TodoLinked, Scheduling,
      Deciding, Planned, ChunkFits, IsFinished, Finished, IsPrefill
<1>3. ASSUME NEW n \in Nat \ {0}, SwapInAdmits(g, n) \/ PrefillAdmits(g, n)
      PROVE  BudgetKept'
  <2>1. g \notin it.scheduled
    BY <1>1, <1>3
    DEF SwapInAdmits, PrefillAdmits, Linked, GroupLinked, TableLinked,
        CacheLinked, QueuesLinked, ResultsLinked, SelectedLinked,
        CandidateLinked, TodoLinked, Scheduling, Deciding, Planned, ChunkFits,
        IsFinished, Finished, IsPrefill
  <2>2. /\ it'.scheduled = it.scheduled \cup {g} /\ it'.selected = it.selected
        /\ it'.chunk[g] = n
        /\ \A h \in Groups \ {g} : it'.chunk[h] = it.chunk[h]
        /\ it'.tokens = it.tokens + n
        /\ it'.seqs = it.seqs + 1 /\ it'.cand = it.cand
        /\ it'.slo = it.slo /\ it'.seqCap = it.seqCap
    <3>1. PICK t : it' = [it EXCEPT !.todo = t, !.scheduled = @ \cup {g},
                                    !.chunk[g] = n, !.tokens = @ + n,
                                    !.seqs = @ + 1]
      BY <1>3 DEF SwapInAdmits, PrefillAdmits
    <3>2. it'.chunk = [it.chunk EXCEPT ![g] = n] /\ it.chunk \in [Groups -> Int]
      BY <3>1, CallIsIteration DEF Iteration
    <3>3. /\ it'.scheduled = it.scheduled \cup {g} /\ it'.selected = it.selected
          /\ it'.tokens = it.tokens + n
          /\ it'.seqs = it.seqs + 1 /\ it'.cand = it.cand
          /\ it'.slo = it.slo /\ it'.seqCap = it.seqCap
      BY <3>1, CallIsIteration DEF Iteration
    <3> QED
      BY <3>2, <3>3
  <2>3. it.tokens + n <= MaxBatchedTokens
    BY <1>3 DEF SwapInAdmits, PrefillAdmits, CanSchedule
  <2>4. Chosen' = Chosen \cup {g} /\ g \notin Chosen
    BY <1>2, <2>1, <2>2 DEF Chosen
  <2> QED
    BY <1>1, <2>2, <2>3, <2>4, ChoiceKeepsBudget
<1>4. ASSUME \/ SwapInEnds \/ SwapInGivesUp(g) \/ SwapInPasses(g)
             \/ PrefillSkips(g) \/ PrefillGivesUp(g) \/ PrefillEnds
      PROVE  BudgetKept'
  <2>1. /\ it'.tokens = it.tokens /\ it'.seqs = it.seqs /\ it'.slo = it.slo
        /\ it'.scheduled = it.scheduled /\ it'.selected = it.selected
        /\ it'.chunk = it.chunk /\ it'.cand = it.cand
        /\ it'.seqCap = it.seqCap
    BY <1>4, CallIsIteration
    DEF SwapInEnds, SwapInGivesUp, SwapInPasses, PrefillSkips, PrefillGivesUp,
        PrefillEnds, Iteration
  <2> QED
    BY <1>1, <2>1, SameBudget
<1> QED
  BY <1>3, <1>4, SwapInNextOutcomes, PrefillNextOutcomes

\* The steps from one loop to the next give no tokens.
LEMMA LoopsKeepBudget ==
    ASSUME Inv, Linked, BudgetKept,
           \/ ChooseBin \/ EndProcess \/ EnterChunked \/ EndRun \/ EndSwapIn
           \/ \E g \in Groups : FreeStopped(g) \/ PreemptPending(g)
    PROVE  BudgetKept'
<1>1. ASSUME ChooseBin \/ EndProcess
      PROVE  BudgetKept'
  <2>1. /\ it' = it /\ Scheduling /\ it.cand = None
        /\ pc' \notin {"run", "swapIn", "prefill"}
        /\ pc' \in {"free", "preempt"} => pc \in {"free", "preempt"}
    BY <1>1, CandidateOnlyInRun DEF ChooseBin, EndProcess, Scheduling
  <2>2. /\ it.slo => it.seqs <= it.seqCap
        /\ pc \in {"free", "preempt"} => it.seqs = 0
    BY <2>1 DEF BudgetKept
  <2> QED
    BY <2>1, <2>2, SameBudget
<1>2. ASSUME EnterChunked \/ EndRun \/ EndSwapIn
      PROVE  BudgetKept'
  <2>1. Scheduling /\ it.cand = None /\ ~it.slo
        /\ pc' \in {"run", "swapIn", "prefill"}
    <3>1. CASE EnterChunked
      BY <3>1, CandidateOnlyInRun DEF EnterChunked, Scheduling
    <3>2. CASE EndRun
      BY <3>2 DEF EndRun, Scheduling, BudgetKept
    <3>3. CASE EndSwapIn
      BY <3>3, CandidateOnlyInRun DEF EndSwapIn, Scheduling, BudgetKept
    <3> QED
      BY <1>2, <3>1, <3>2, <3>3
  <2>2. /\ it'.tokens = it.tokens /\ it'.seqs = it.seqs /\ it'.slo = it.slo
        /\ it'.scheduled = it.scheduled /\ it'.selected = it.selected
        /\ it'.chunk = it.chunk /\ it'.cand = it.cand
        /\ it'.seqCap = it.seqCap
    BY <1>2, CallIsIteration DEF EnterChunked, EndRun, EndSwapIn, Iteration
  <2> QED
    BY <2>1, <2>2, SameBudget
<1>3. ASSUME NEW g \in Groups, FreeStopped(g)
      PROVE  BudgetKept'
  <2>1. it' = it /\ pc' = pc
    BY <1>3 DEF FreeStopped
  <2>2. CASE Scheduling
    BY <2>1, <2>2, SameBudget DEF BudgetKept
  <2>3. CASE ~Scheduling
    BY <2>1, <2>3 DEF BudgetKept, Scheduling
  <2> QED
    BY <2>2, <2>3
<1>4. ASSUME NEW g \in Groups, PreemptPending(g)
      PROVE  BudgetKept'
  <2>1. pc = "preempt" /\ pc' = pc /\ Scheduling /\ it.cand = None
    BY <1>4, CandidateOnlyInRun DEF PreemptPending, Scheduling
  <2>2. /\ it'.tokens = it.tokens /\ it'.seqs = it.seqs /\ it'.slo = it.slo
        /\ it'.scheduled = it.scheduled /\ it'.selected = it.selected
        /\ it'.chunk = it.chunk /\ it'.cand = it.cand
        /\ it'.seqCap = it.seqCap
    <3>1. CASE UNCHANGED <<status, stage, computed, memVars, it>>
      BY <3>1
    <3>2. CASE it' = [it EXCEPT !.swaps = @ + 1]
      BY <3>2, CallIsIteration DEF Iteration
    <3>3. CASE PendingPreempts(g)
      BY <3>3, CallIsIteration DEF PendingPreempts, PreemptedFrom, Iteration
    <3> QED
      BY <1>4, <3>1, <3>2, <3>3, PreemptPendingOutcomes
  <2> QED
    BY <2>1, <2>2, SameBudget DEF BudgetKept
<1> QED
  BY <1>1, <1>2, <1>3, <1>4

\* After the call, and before it, there is no budget to keep.
LEMMA OutsideKeepsBudget ==
    ASSUME ~Scheduling'
    PROVE  BudgetKept'
  BY DEF BudgetKept

LEMMA NextKeepsBudget ==
    Inv /\ Inv' /\ Linked /\ BudgetKept /\ [Next]_vars => BudgetKept'
<1> SUFFICES ASSUME Inv, Inv', Linked, BudgetKept, [Next]_vars
             PROVE  BudgetKept'
  OBVIOUS
<1>1. CASE UNCHANGED vars \/ WaitForRequests
  <2>1. UNCHANGED <<pc, it>>
    BY <1>1 DEF WaitForRequests, vars
  <2> QED
    BY <2>1 DEF BudgetKept, Scheduling, Spent, Chosen, RemainingTokens
<1>2. CASE Clients
  <2>1. ~Scheduling'
    BY <1>2 DEF Clients, AddSeqGroup, AbortSeqGroup, Scheduling
  <2> QED
    BY <2>1, OutsideKeepsBudget
<1>3. CASE Engine
  <2>1. CASE \/ Commit \/ EndSchedule \/ EndAdvance \/ EndOutputs
             \/ \E g \in Groups : DullAbort(g) \/ Advance(g) \/ ProcessOutput(g)
    <3>1. ~Scheduling'
      BY <2>1
      DEF Commit, EndSchedule, EndAdvance, EndOutputs, DullAbort, Advance,
          ProcessOutput, Scheduling
    <3> QED
      BY <3>1, OutsideKeepsBudget
  <2>2. CASE BeginSchedule \/ BuildProcessList
    BY <2>2, BeginScheduleKeepsBudget, BuildProcessListKeepsBudget
  <2>3. CASE \/ ChooseBin \/ EndProcess \/ EnterChunked \/ EndRun \/ EndSwapIn
             \/ \E g \in Groups : FreeStopped(g) \/ PreemptPending(g)
    BY <2>3, LoopsKeepBudget
  <2>4. CASE RunFits
    BY <2>4, RunKeepsBudget, CandidateIsGroup DEF RunFits
  <2>5. CASE \E g \in Groups :
               \/ Process(g) \/ SwapInSelected(g) \/ RunSelected(g)
               \/ PrefillSelected(g) \/ RunNext(g) \/ RunEvicts(g)
               \/ SwapInNext(g) \/ PrefillNext(g)
    BY <2>5, ProcessKeepsBudget, SettleKeepsBudget, RunKeepsBudget,
       AdmissionKeepsBudget
  <2> QED
    BY <1>3, <2>1, <2>2, <2>3, <2>4, <2>5 DEF Engine
<1> QED
  BY <1>1, <1>2, <1>3 DEF Next

\* The fold of the community modules computes the sum of the budget.
LEMMA SpentIsFold ==
    ASSUME it \in Iteration
    PROVE  MapThenSumSet(LAMBDA g : it.chunk[g], it.scheduled)
             = Sum(it.chunk, it.scheduled)
<1> DEFINE S == it.scheduled
           v == it.chunk
           Folds(f) == f = [s \in SUBSET S |->
                              IF s = {} THEN 0
                              ELSE v[Pick(s)] + f[s \ {Pick(s)}]]
           F == CHOOSE f : Folds(f)
<1>1. MapThenSumSet(LAMBDA g : it.chunk[g], it.scheduled) = F[S]
  BY DEF MapThenSumSet, MapThenFoldSet, Pick
<1>2. IsFiniteSet(S)
  BY SchedulerAssumption, FS_Subset DEF Iteration
<1>3. \A f : IsSum(f, v, S) <=> Folds(f)
  BY DEF IsSum
<1>4. \E f : Folds(f)
  BY <1>2, <1>3, SumExists
<1>5. Folds(F)
  <2> HIDE DEF Folds
  <2> QED
    BY <1>4
<1>6. IsSum(F, v, S)
  BY <1>3, <1>5
<1> HIDE DEF F
<1> QED
  BY <1>1, <1>2, <1>6, SumIsUnique

\* The batch that a call decides on keeps within the token budget, and within
\* the number of sequences on the SLO path.
THEOREM BatchIsWithinBudget == Spec => []BatchWithinBudget
<1>1. Inv /\ Linked /\ BudgetKept => BatchWithinBudget
  <2> SUFFICES ASSUME Inv, Linked, BudgetKept, Decided
               PROVE  /\ MapThenSumSet(LAMBDA g : it.chunk[g], it.scheduled)
                           <= it.tokens
                      /\ it.tokens <= MaxBatchedTokens
                      /\ Cardinality(it.scheduled) <= it.seqs
                      /\ it.slo => it.seqs <= it.seqCap
    BY DEF BatchWithinBudget
  <2>1. Scheduling /\ it \in Iteration
    BY CallIsIteration DEF Decided, Scheduling
  <2>2. it.selected = {}
    BY <2>1, DecidedIsDone DEF Iteration
  <2>3. Chosen = it.scheduled
    BY <2>2 DEF Chosen
  <2> QED
    BY <2>1, <2>3, SpentIsFold DEF BudgetKept, Spent
<1>2. Init => BudgetKept
  BY DEF Init, BudgetKept, Scheduling
<1>3. Inv /\ Inv' /\ Linked /\ BudgetKept /\ [Next]_vars => BudgetKept'
  BY NextKeepsBudget
<1> QED
  BY <1>1, <1>2, <1>3, LinkedAlways, PTL DEF Spec

-----------------------------------------------------------------------------
(* The tokens of the process list.                                         *)

\* A subset of the groups is finite, and no larger than a set it is part of.
LEMMA SmallerSet ==
    ASSUME NEW T, T \subseteq Groups, NEW S, S \subseteq T
    PROVE  /\ Cardinality(S) \in Nat /\ Cardinality(T) \in Nat
           /\ Cardinality(S) <= Cardinality(T)
<1>1. IsFiniteSet(T)
  BY SchedulerAssumption, FS_Subset
<1>2. IsFiniteSet(S) /\ Cardinality(S) <= Cardinality(T)
  BY <1>1, FS_Subset
<1> QED
  BY <1>1, <1>2, FS_CardinalityType

\* With one group more it is larger by one at most.
LEMMA LargerByOne ==
    ASSUME NEW S, S \subseteq Groups, NEW g \in Groups
    PROVE  Cardinality(S \cup {g}) <= Cardinality(S) + 1
<1>1. IsFiniteSet(S)
  BY SchedulerAssumption, FS_Subset
<1>2. Cardinality(S) \in Nat
  BY <1>1, FS_CardinalityType
<1>3. Cardinality(S \cup {g}) = IF g \in S THEN Cardinality(S)
                                           ELSE Cardinality(S) + 1
  BY <1>1, FS_AddElement
<1> QED
  BY <1>2, <1>3

\* The lists of the call hold groups.
LEMMA KeptAreGroups ==
    ASSUME Inv
    PROVE  /\ Kept \subseteq Groups /\ running \subseteq Groups
           /\ it.selected \subseteq Groups /\ it.todo \subseteq Groups
           /\ it.tokens \in Int /\ it.seqs \in Int /\ it.seqCap \in Int
           /\ RemainingTokens \in Int
  BY CallIsIteration, SchedulerAssumption
  DEF Inv, QueueTypeOK, Iteration, Kept, RemainingTokens

\* Before the process list is built nothing is kept.
LEMMA NothingKeptYet ==
    ASSUME Inv, Linked
    PROVE  /\ pc \in {"free", "preempt"} => Kept = {}
           /\ pc = "process" => Kept = it.selected
<1>1. ASSUME NEW h \in Groups, pc \in {"free", "preempt", "process"}
      PROVE  /\ h \notin it.scheduled /\ h \notin it.leftover
             /\ h \in it.selected => pc = "process"
  BY <1>1
  DEF Linked, GroupLinked, TableLinked, CacheLinked, QueuesLinked,
      ResultsLinked, SelectedLinked, CandidateLinked, TodoLinked, Scheduling,
      Deciding, Planned, ChunkFits, IsFinished, Finished, IsPrefill
<1> QED
  BY <1>1, KeptAreGroups DEF Kept

\* The first loop gives each group that it selects one or two tokens.
LEMMA NextKeepsFewTokens ==
    Inv /\ Inv' /\ Linked /\ BudgetKept /\ FewTokens /\ [Next]_vars => FewTokens'
<1> SUFFICES ASSUME Inv, Inv', Linked, BudgetKept, FewTokens, [Next]_vars
             PROVE  FewTokens'
  OBVIOUS
<1>1. CASE UNCHANGED <<pc, it>>
  BY <1>1 DEF FewTokens
<1>2. CASE pc' \notin {"free", "preempt", "process"}
  BY <1>2 DEF FewTokens
<1>3. CASE BeginSchedule
  BY <1>3 DEF BeginSchedule, NoIteration, FewTokens
<1>4. CASE ChooseBin
  BY <1>4 DEF ChooseBin, FewTokens
<1>5. ASSUME NEW g \in Groups, PreemptPending(g) PROVE FewTokens'
  <2>1. pc = "preempt" /\ pc' = pc
    BY <1>5 DEF PreemptPending
  <2>2. it'.tokens = it.tokens
    <3>1. CASE UNCHANGED <<status, stage, computed, memVars, it>>
      BY <3>1
    <3>2. CASE it' = [it EXCEPT !.swaps = @ + 1]
      BY <3>2, CallIsIteration DEF Iteration
    <3>3. CASE PendingPreempts(g)
      BY <3>3, CallIsIteration DEF PendingPreempts, PreemptedFrom, Iteration
    <3> QED
      BY <1>5, <3>1, <3>2, <3>3, PreemptPendingOutcomes
  <2> QED
    BY <2>1, <2>2 DEF FewTokens
<1>6. CASE BuildProcessList
  <2>1. pc = "preempt" /\ pc' = "process"
    BY <1>6 DEF BuildProcessList
  <2>2. \E t, c, q : \/ it' = [it EXCEPT !.todo = t, !.seqCap = c, !.quota = q]
                     \/ it' = [it EXCEPT !.todo = t, !.quota = q]
    BY <1>6 DEF BuildProcessList
  <2>3. /\ it'.tokens = it.tokens /\ it'.seqs = it.seqs
        /\ it'.selected = it.selected
    BY <2>2, CallIsIteration DEF Iteration
  <2>4. it.selected = {}
    BY <2>1, NothingKeptYet DEF Kept
  <2>5. it.seqs = 0 /\ it.tokens = 0
    BY <2>1 DEF BudgetKept, FewTokens, Scheduling
  <2> QED
    BY <2>1, <2>3, <2>4, <2>5, FS_EmptySet DEF FewTokens
<1>7. ASSUME NEW g \in Groups, Process(g) PROVE FewTokens'
  <2>1. pc = "process" /\ pc' = pc /\ g \in it.todo
    BY <1>7 DEF Process
  <2>2. g \notin it.selected
    BY <2>1
    DEF Linked, GroupLinked, TableLinked, CacheLinked, QueuesLinked,
        ResultsLinked, SelectedLinked, CandidateLinked, TodoLinked, Scheduling,
        Deciding, Planned, ChunkFits, IsFinished, Finished, IsPrefill
  <2>3. /\ it.tokens <= 2 * it.seqs /\ it.seqs = Cardinality(it.selected)
        /\ it.tokens \in Int /\ it.seqs \in Int
    BY <2>1, KeptAreGroups DEF FewTokens
  <2>4. ASSUME NEW n \in 1..2, ProcessSelects(g, n) PROVE FewTokens'
    <3>1. /\ it'.selected = it.selected \cup {g}
          /\ it'.tokens = it.tokens + n /\ it'.seqs = it.seqs + 1
      BY <2>4, CallIsIteration DEF ProcessSelects, Iteration
    <3>2. IsFiniteSet(it.selected)
      BY KeptAreGroups, SchedulerAssumption, FS_Subset
    <3>3. Cardinality(it.selected \cup {g}) = Cardinality(it.selected) + 1
      BY <2>2, <3>2, FS_AddElement
    <3> QED
      BY <2>1, <2>3, <3>1, <3>3 DEF FewTokens
  <2>5. CASE ProcessPasses(g) \/ ProcessPreempts(g)
    <3>1. /\ it'.tokens = it.tokens /\ it'.seqs = it.seqs
          /\ it'.selected = it.selected
      BY <2>5, CallIsIteration
      DEF ProcessPasses, ProcessPreempts, PreemptedFrom, Iteration
    <3> QED
      BY <2>1, <2>3, <3>1 DEF FewTokens
  <2> QED
    BY <1>7, <2>4, <2>5, ProcessOutcomes DEF Linked, GroupLinked
<1>8. CASE \E g \in Groups : FreeStopped(g)
  BY <1>1, <1>8 DEF FreeStopped
<1>9. CASE \/ EndProcess \/ EnterChunked \/ RunFits \/ EndRun \/ EndSwapIn
           \/ Commit \/ EndSchedule \/ EndAdvance \/ EndOutputs
  BY <1>2, <1>9
  DEF EndProcess, EnterChunked, RunFits, EndRun, EndSwapIn, Commit,
      EndSchedule, EndAdvance, EndOutputs
<1>10. CASE \E g \in Groups :
              \/ SwapInSelected(g) \/ RunSelected(g) \/ PrefillSelected(g)
              \/ RunNext(g) \/ RunEvicts(g) \/ SwapInNext(g)
              \/ PrefillNext(g) \/ DullAbort(g) \/ Advance(g)
              \/ ProcessOutput(g)
  BY <1>2, <1>10
  DEF SwapInSelected, RunSelected, PrefillSelected, RunNext, RunEvicts,
      SwapInNext, PrefillNext, DullAbort, Advance, ProcessOutput
<1>11. CASE Clients \/ WaitForRequests
  BY <1>1, <1>11 DEF Clients, AddSeqGroup, AbortSeqGroup, WaitForRequests, vars
<1>12. CASE UNCHANGED vars
  BY <1>1, <1>12 DEF vars
<1> QED
  BY <1>3, <1>4, <1>5, <1>6, <1>7, <1>8, <1>9, <1>10, <1>11, <1>12
  DEF Next, Engine

-----------------------------------------------------------------------------
(* The size of the running queue.                                          *)

\* A step of the call that keeps no further group.
LEMMA KeptStays ==
    ASSUME Inv, Inv', BatchKept, Scheduling, running' = running,
           Kept' \subseteq Kept, it'.seqCap = it.seqCap,
           it.tokens <= it'.tokens,
           pc' = "run" =>
             /\ pc = "run" /\ it'.todo \subseteq it.todo
             /\ it'.cand # None => it'.cand \in running,
           (pc' \in {"run", "swapIn", "prefill"} /\ it'.leftover # {}) =>
             /\ pc \in {"run", "swapIn", "prefill"}
             /\ it.leftover # {} \/ RemainingTokens <= 0
    PROVE  BatchKept'
<1>1. Cardinality(Kept)' <= MaxNumSeqs
  <2>1. Cardinality(Kept') <= Cardinality(Kept) /\ Cardinality(Kept') \in Nat
        /\ Cardinality(Kept) \in Nat
    BY KeptAreGroups, SmallerSet
  <2> QED
    BY <2>1, SchedulerAssumption DEF BatchKept
<1>2. it.tokens \in Int /\ it'.tokens \in Int
  BY DEF Inv, CallTypeOK, Iteration
<1>3. RemainingTokens' <= RemainingTokens /\ RemainingTokens' \in Int
  BY <1>2, SchedulerAssumption DEF RemainingTokens
<1>4. (pc' \in {"run", "swapIn", "prefill"} /\ it'.leftover # {}) =>
        RemainingTokens' <= 0
  BY <1>2, <1>3, KeptAreGroups DEF BatchKept
<1> QED
  BY <1>1, <1>4 DEF BatchKept

\* Outside the call the running queue only shrinks, until it is rebuilt.
LEMMA RunningShrinks ==
    ASSUME Inv, BatchKept, running' \subseteq running, ~Scheduling'
    PROVE  BatchKept'
<1>1. /\ Cardinality(running') <= Cardinality(running)
      /\ Cardinality(running') \in Nat /\ Cardinality(running) \in Nat
  BY KeptAreGroups, SmallerSet
<1>2. Cardinality(running)' <= MaxNumSeqs
  BY <1>1, SchedulerAssumption DEF BatchKept
<1> QED
  BY <1>2 DEF BatchKept

\* When the batch size is fixed, the cap of a call is that size.
LEMMA BeginScheduleKeepsBatch ==
    ASSUME Inv, ~SlidingWindow, BatchKept, BeginSchedule
    PROVE  BatchKept'
<1>1. /\ pc' = "free" /\ running' \subseteq running
      /\ it'.selected = {} /\ it'.scheduled = {} /\ it'.leftover = {}
      /\ it'.seqCap \in {Max2(Cardinality(running), maxNumSeqs), maxNumSeqs}
  BY DEF BeginSchedule, NoIteration, Unfinished
<1>2. /\ Cardinality(running') <= Cardinality(running)
      /\ Cardinality(running') \in Nat /\ Cardinality(running) \in Nat
  BY <1>1, KeptAreGroups, SmallerSet
<1>3. maxNumSeqs = MaxNumSeqs /\ MaxNumSeqs \in Nat
  BY SchedulerAssumption DEF Inv, CtlTypeOK
<1>4. Cardinality(running) <= MaxNumSeqs
  BY DEF BatchKept
<1>5. it'.seqCap <= MaxNumSeqs
  BY <1>1, <1>2, <1>3, <1>4 DEF Max2
<1>6. Cardinality(Kept)' = 0
  <2>1. Kept' = {}
    BY <1>1 DEF Kept
  <2> QED
    BY <2>1, FS_EmptySet
<1>7. Cardinality(running') <= MaxNumSeqs
  BY <1>2, <1>3, <1>4
<1> QED
  BY <1>1, <1>3, <1>5, <1>6, <1>7 DEF BatchKept

\* The process list keeps a group for each sequence that it counts.
LEMMA ProcessKeepsBatch ==
    ASSUME Inv, Inv', Linked, BudgetKept, FewTokens, BatchKept,
           NEW g \in Groups, Process(g)
    PROVE  BatchKept'
<1>1. pc = "process" /\ pc' = pc /\ Scheduling /\ running' = running
  BY DEF Process, Scheduling, queueVars
<1>2. ASSUME NEW n \in 1..2, ProcessSelects(g, n) PROVE BatchKept'
  <2>1. /\ it'.selected = it.selected \cup {g}
        /\ it'.scheduled = it.scheduled /\ it'.leftover = it.leftover
        /\ it'.seqCap = it.seqCap /\ it.seqs + 1 <= it.seqCap
    BY <1>2, CallIsIteration DEF ProcessSelects, CanSchedule, Iteration
  <2>2. Kept = it.selected /\ Kept' = it.selected \cup {g}
    <3>1. Kept = it.selected
      BY <1>1, NothingKeptYet
    <3> QED
      BY <2>1, <3>1 DEF Kept
  <2>3. Cardinality(it.selected \cup {g}) <= it.seqs + 1
    BY <1>1, KeptAreGroups, LargerByOne DEF FewTokens
  <2>4. it.seqCap <= MaxNumSeqs
    BY <1>1 DEF BatchKept
  <2>5. Cardinality(Kept)' <= MaxNumSeqs
    <3>1. Cardinality(it.selected \cup {g}) \in Nat
      BY KeptAreGroups, SmallerSet
    <3> QED
      BY <2>1, <2>2, <2>3, <2>4, <3>1, KeptAreGroups, SchedulerAssumption
  <2> QED
    BY <1>1, <2>1, <2>4, <2>5 DEF BatchKept
<1>3. CASE ProcessPasses(g) \/ ProcessPreempts(g)
  <2>1. /\ it'.selected = it.selected /\ it'.scheduled = it.scheduled
        /\ it'.leftover = it.leftover /\ it'.seqCap = it.seqCap
        /\ it'.tokens = it.tokens
    BY <1>3, CallIsIteration
    DEF ProcessPasses, ProcessPreempts, PreemptedFrom, Iteration
  <2>2. Kept' = Kept /\ it.tokens <= it'.tokens
    BY <2>1, KeptAreGroups DEF Kept
  <2> QED
    BY <1>1, <2>1, <2>2, KeptStays
<1> QED
  BY <1>2, <1>3, ProcessOutcomes DEF Linked, GroupLinked

\* Applying the list keeps, or declines, what was selected.
LEMMA SettleKeepsBatch ==
    ASSUME Inv, Inv', Linked, BatchKept, NEW g \in Groups,
           SwapInSelected(g) \/ RunSelected(g) \/ PrefillSelected(g)
    PROVE  BatchKept'
<1>1. /\ pc = "apply" /\ pc' = pc /\ Scheduling /\ running' = running
      /\ g \in it.selected
  BY DEF SwapInSelected, RunSelected, PrefillSelected, Scheduling, queueVars
<1>2. /\ it'.selected = it.selected \ {g}
      /\ it'.scheduled \subseteq it.scheduled \cup {g}
      /\ it'.leftover \subseteq it.leftover \cup {g}
      /\ it'.seqCap = it.seqCap /\ it.tokens <= it'.tokens
  <2>1. it.tokens \in Int
    BY KeptAreGroups
  <2>2. CASE SwapInSelects(g)
    BY <2>1, <2>2, CallIsIteration DEF SwapInSelects, Iteration
  <2>3. CASE SwapInDeclines(g)
    BY <2>1, <2>3, CallIsIteration DEF SwapInDeclines, Iteration
  <2>4. CASE RunSelects(g)
    BY <2>1, <2>4, CallIsIteration DEF RunSelects, Iteration
  <2>5. CASE RunDeclines(g)
    BY <2>1, <2>5, CallIsIteration DEF RunDeclines, Iteration
  <2>6. CASE PrefillSelects(g)
    <3>1. PICK add \in Int :
            /\ it' = [it EXCEPT !.selected = @ \ {g}, !.scheduled = @ \cup {g},
                                !.tokens = @ + add, !.chunk[g] = @ + add]
            /\ 0 <= add
      BY <2>6 DEF PrefillSelects
    <3> QED
      BY <2>1, <3>1, CallIsIteration DEF Iteration
  <2>7. CASE PrefillDeclines(g)
    <3>1. PICK add \in Int :
            /\ it' = [it EXCEPT !.selected = @ \ {g}, !.tokens = @ + add]
            /\ 0 <= add
      BY <2>7 DEF PrefillDeclines
    <3> QED
      BY <2>1, <3>1, CallIsIteration DEF Iteration
  <2> QED
    BY <2>2, <2>3, <2>4, <2>5, <2>6, <2>7, SwapInSelectedOutcomes,
       RunSelectedOutcomes, PrefillSelectedOutcomes
<1>3. Kept' \subseteq Kept
  BY <1>1, <1>2 DEF Kept
<1> QED
  BY <1>1, <1>2, <1>3, KeptStays

\* _schedule_running keeps groups of the running queue only.
LEMMA RunKeepsBatch ==
    ASSUME Inv, Inv', Linked, BudgetKept, BatchKept, NEW g \in Groups,
           RunNext(g) \/ RunEvicts(g) \/ (RunFits /\ g = it.cand)
    PROVE  BatchKept'
<1>1. pc = "run" /\ pc' = pc /\ Scheduling /\ running' = running
  BY DEF RunNext, RunEvicts, RunFits, Scheduling, queueVars
<1>2. /\ Kept \cup it.todo \subseteq running
      /\ it.cand # None => it.cand \in running
      /\ it.leftover # {} => RemainingTokens <= 0
      /\ it.seqCap <= MaxNumSeqs
      /\ Cardinality(running) <= MaxNumSeqs
  BY <1>1 DEF BatchKept
<1>3. SUFFICES
        /\ it'.seqCap = it.seqCap
        /\ Kept' \cup it'.todo \subseteq running
        /\ it'.cand # None => it'.cand \in running
        /\ it'.leftover # {} => RemainingTokens' <= 0
  <2>1. ASSUME Kept' \subseteq running PROVE Cardinality(Kept)' <= MaxNumSeqs
    <3>1. /\ Cardinality(Kept') <= Cardinality(running)
          /\ Cardinality(Kept') \in Nat /\ Cardinality(running) \in Nat
      BY <2>1, KeptAreGroups, SmallerSet
    <3> QED
      BY <1>2, <3>1, SchedulerAssumption
  <2> QED
    BY <1>1, <1>2, <2>1 DEF BatchKept
<1>4. CASE RunNext(g) /\ RunSkips(g)
  <2>1. /\ it'.todo = it.todo \ {g} /\ it'.leftover = it.leftover \cup {g}
        /\ it'.seqCap = it.seqCap /\ it'.selected = it.selected
        /\ it'.scheduled = it.scheduled /\ it'.cand = it.cand
        /\ it'.tokens = it.tokens
    BY <1>4, CallIsIteration DEF RunSkips, Iteration
  <2>2. g \in it.todo
    BY <1>4 DEF RunNext
  <2>3. RemainingTokens <= 0
    <3>1. status[g] = "running" /\ CacheLinked(g)
      BY <1>1, <2>2 DEF Linked, GroupLinked, TodoLinked
    <3>2. ~IsFinished(g)
      BY <3>1 DEF IsFinished, Finished
    <3> QED
      BY <1>4, <3>1, <3>2, NewTokensGiven, KeptAreGroups DEF RunSkips
  <2>4. RemainingTokens' = RemainingTokens
    BY <2>1 DEF RemainingTokens
  <2> QED
    BY <1>2, <2>1, <2>2, <2>3, <2>4 DEF Kept
<1>5. CASE RunStops(g)
  <2>1. /\ it'.todo = it.todo \ {g} /\ it'.leftover = it.leftover
        /\ it'.seqCap = it.seqCap /\ it'.selected = it.selected
        /\ it'.scheduled = it.scheduled /\ it'.cand = it.cand
        /\ it'.tokens = it.tokens
    BY <1>5, CallIsIteration DEF RunStops, Iteration
  <2> QED
    BY <1>2, <2>1 DEF Kept, RemainingTokens
<1>6. ASSUME RunNext(g), NEW n \in Nat \ {0}, RunTries(g, n)
      PROVE  /\ it'.seqCap = it.seqCap
             /\ Kept' \cup it'.todo \subseteq running
             /\ it'.cand # None => it'.cand \in running
             /\ it'.leftover # {} => RemainingTokens' <= 0
  <2>1. /\ it'.todo = it.todo \ {g} /\ it'.leftover = it.leftover
        /\ it'.seqCap = it.seqCap /\ it'.selected = it.selected
        /\ it'.scheduled = it.scheduled /\ it'.cand = g
        /\ it'.tokens = it.tokens /\ g \in it.todo
    BY <1>6, CallIsIteration DEF RunNext, RunTries, Iteration
  <2> QED
    BY <1>2, <2>1 DEF Kept, RemainingTokens
<1>7. CASE RunEvicts(g)
  <2>1. /\ it'.todo \subseteq it.todo /\ it'.leftover = it.leftover
        /\ it'.seqCap = it.seqCap /\ it'.selected = it.selected
        /\ it'.scheduled = it.scheduled /\ it'.cand \in {None, it.cand}
        /\ it'.tokens = it.tokens
    <3> DEFINE r == WithoutVictim(g)
    <3>1. /\ r \in Iteration
          /\ r.tokens = it.tokens /\ r.seqCap = it.seqCap
          /\ r.scheduled = it.scheduled /\ r.selected = it.selected
          /\ r.leftover = it.leftover
      BY CallIsIteration DEF WithoutVictim, Iteration
    <3>2. r.cand \in {None, it.cand} /\ r.todo \subseteq it.todo
      BY WithoutVictimFields
    <3> HIDE DEF r
    <3>3. CASE RunStopsLate(g)
      <4>1. it' = r
        BY <3>3 DEF RunStopsLate, r
      <4> QED
        BY <3>1, <3>2, <4>1
    <3>4. CASE RunPreempts(g)
      <4>1. PreemptedFrom(r, g)
        BY <3>4 DEF RunPreempts, r
      <4> QED
        BY <3>1, <3>2, <4>1 DEF PreemptedFrom, Iteration
    <3> QED
      BY <1>7, <3>3, <3>4, RunEvictsOutcomes
  <2> QED
    BY <1>2, <2>1 DEF Kept, RemainingTokens
<1>8. CASE RunFits /\ g = it.cand
  <2>1. /\ it'.scheduled = it.scheduled \cup {g} /\ it'.selected = it.selected
        /\ it'.leftover = it.leftover /\ it'.todo = it.todo
        /\ it'.tokens = it.tokens + it.chunk[g] /\ it'.cand = None
        /\ it'.seqCap = it.seqCap
    BY <1>8, CallIsIteration DEF RunFits, Iteration
  <2>2. it.chunk[g] >= 1 /\ it.chunk[g] \in Int /\ g \in running
    BY <1>1, <1>2, <1>8, CallIsIteration DEF RunFits, BudgetKept, Iteration
  <2>3. it'.leftover # {} => RemainingTokens' <= 0
    BY <1>2, <2>1, <2>2, KeptAreGroups, SchedulerAssumption DEF RemainingTokens
  <2> QED
    BY <1>2, <2>1, <2>2, <2>3 DEF Kept
<1> QED
  BY <1>4, <1>5, <1>6, <1>7, <1>8, RunNextOutcomes

\* A group is admitted only when none was left over, so that those admitted so
\* far are as many as the budget counts.
LEMMA AdmissionKeepsBatch ==
    ASSUME Inv, Inv', Linked, BudgetKept, BatchKept, NEW g \in Groups,
           SwapInNext(g) \/ PrefillNext(g)
    PROVE  BatchKept'
<1>1. pc \in {"swapIn", "prefill"} /\ pc' = pc /\ Scheduling /\ running' = running
  BY DEF SwapInNext, PrefillNext, Scheduling, queueVars
<1>2. ASSUME NEW n \in Nat \ {0}, SwapInAdmits(g, n) \/ PrefillAdmits(g, n)
      PROVE  BatchKept'
  <2>1. PICK t : it' = [it EXCEPT !.todo = t, !.scheduled = @ \cup {g},
                                  !.chunk[g] = n, !.tokens = @ + n,
                                  !.seqs = @ + 1]
    BY <1>2 DEF SwapInAdmits, PrefillAdmits
  <2>2. /\ it'.scheduled = it.scheduled \cup {g} /\ it'.selected = it.selected
        /\ it'.leftover = it.leftover /\ it'.seqCap = it.seqCap
    BY <2>1, CallIsIteration DEF Iteration
  <2>3. it.tokens + n <= MaxBatchedTokens /\ it.seqs + 1 <= it.seqCap
    BY <1>2 DEF SwapInAdmits, PrefillAdmits, CanSchedule
  <2>4. RemainingTokens > 0
    BY <2>3, KeptAreGroups, SchedulerAssumption DEF RemainingTokens
  <2>5. it.leftover = {} /\ it.seqCap <= MaxNumSeqs
    BY <1>1, <2>4, KeptAreGroups DEF BatchKept
  <2>6. Kept = Chosen /\ Kept' = Kept \cup {g}
    BY <2>2, <2>5 DEF Kept, Chosen
  <2>7. Cardinality(Kept) <= it.seqs
    BY <1>1, <2>6 DEF BudgetKept
  <2>8. /\ Cardinality(Kept \cup {g}) <= Cardinality(Kept) + 1
        /\ Cardinality(Kept \cup {g}) \in Nat /\ Cardinality(Kept) \in Nat
    <3>1. Kept \subseteq Groups /\ Kept \cup {g} \subseteq Groups
      BY KeptAreGroups
    <3> QED
      BY <3>1, LargerByOne, SmallerSet
  <2>9. Cardinality(Kept)' <= MaxNumSeqs
    <3>1. Cardinality(Kept \cup {g}) <= MaxNumSeqs
      BY <2>3, <2>5, <2>7, <2>8, KeptAreGroups, SchedulerAssumption
    <3> QED
      BY <2>6, <3>1
  <2> QED
    BY <1>1, <2>2, <2>5, <2>9 DEF BatchKept
<1>3. CASE \/ SwapInEnds \/ SwapInGivesUp(g) \/ SwapInPasses(g)
           \/ PrefillSkips(g) \/ PrefillGivesUp(g) \/ PrefillEnds
  <2>1. /\ it'.scheduled = it.scheduled /\ it'.selected = it.selected
        /\ it'.leftover = it.leftover /\ it'.seqCap = it.seqCap
        /\ it'.tokens = it.tokens
    BY <1>3, CallIsIteration
    DEF SwapInEnds, SwapInGivesUp, SwapInPasses, PrefillSkips, PrefillGivesUp,
        PrefillEnds, Iteration
  <2>2. Kept' = Kept /\ it.tokens <= it'.tokens
    BY <2>1, KeptAreGroups DEF Kept
  <2> QED
    BY <1>1, <2>1, <2>2, KeptStays
<1> QED
  BY <1>2, <1>3, SwapInNextOutcomes, PrefillNextOutcomes

\* The steps from one loop to the next keep what they find.
LEMMA LoopsKeepBatch ==
    ASSUME Inv, Inv', Linked, ~SlidingWindow, BatchKept,
           \/ ChooseBin \/ BuildProcessList \/ EndProcess \/ EnterChunked
           \/ EndRun \/ EndSwapIn
           \/ \E g \in Groups : PreemptPending(g)
    PROVE  BatchKept'
<1>1. ASSUME running' = running, Scheduling,
             it'.scheduled = it.scheduled, it'.selected = it.selected,
             it'.leftover = it.leftover, it'.seqCap = it.seqCap,
             it'.tokens = it.tokens, pc' # "run",
             pc' \in {"swapIn", "prefill"} => pc \in {"run", "swapIn", "prefill"}
      PROVE  BatchKept'
  <2>1. Kept' = Kept /\ it.tokens <= it'.tokens
    BY <1>1, KeptAreGroups DEF Kept
  <2> QED
    BY <1>1, <2>1, KeptStays
<1>2. CASE ChooseBin \/ EndProcess
  BY <1>1, <1>2 DEF ChooseBin, EndProcess, Scheduling, queueVars
<1>3. CASE BuildProcessList
  <2>1. \E t, q : it' = [it EXCEPT !.todo = t, !.quota = q]
    BY <1>3 DEF BuildProcessList
  <2>2. /\ it'.scheduled = it.scheduled /\ it'.selected = it.selected
        /\ it'.leftover = it.leftover /\ it'.seqCap = it.seqCap
        /\ it'.tokens = it.tokens
    BY <2>1, CallIsIteration DEF Iteration
  <2> QED
    BY <1>1, <1>3, <2>2 DEF BuildProcessList, Scheduling, queueVars
<1>4. CASE EnterChunked
  <2>1. /\ pc = "free" /\ pc' = "run" /\ running' = running /\ Scheduling
    BY <1>4 DEF EnterChunked, Scheduling, queueVars
  <2>2. /\ it'.scheduled = it.scheduled /\ it'.selected = it.selected
        /\ it'.leftover = it.leftover /\ it'.seqCap = it.seqCap
        /\ it'.todo = running /\ it'.cand = it.cand
    BY <1>4, CallIsIteration DEF EnterChunked, Iteration
  <2>3. Kept = {} /\ it.cand = None
    BY <2>1, NothingKeptYet, CandidateOnlyInRun
  <2>4. Kept' = {} /\ it'.leftover = {} /\ Cardinality(Kept)' = 0
    <3>1. Kept' = {} /\ it'.leftover = {}
      BY <2>2, <2>3 DEF Kept
    <3> QED
      BY <3>1, FS_EmptySet
  <2> QED
    BY <2>1, <2>2, <2>3, <2>4, SchedulerAssumption DEF BatchKept
<1>5. CASE EndRun \/ EndSwapIn
  <2>1. /\ it'.scheduled = it.scheduled /\ it'.selected = it.selected
        /\ it'.leftover = it.leftover /\ it'.seqCap = it.seqCap
        /\ it'.tokens = it.tokens
    BY <1>5, CallIsIteration DEF EndRun, EndSwapIn, Iteration
  <2> QED
    BY <1>1, <1>5, <2>1 DEF EndRun, EndSwapIn, Scheduling, queueVars
<1>6. ASSUME NEW g \in Groups, PreemptPending(g) PROVE BatchKept'
  <2>1. /\ it'.scheduled = it.scheduled /\ it'.selected = it.selected
        /\ it'.leftover = it.leftover /\ it'.seqCap = it.seqCap
        /\ it'.tokens = it.tokens
    <3>1. CASE UNCHANGED <<status, stage, computed, memVars, it>>
      BY <3>1
    <3>2. CASE it' = [it EXCEPT !.swaps = @ + 1]
      BY <3>2, CallIsIteration DEF Iteration
    <3>3. CASE PendingPreempts(g)
      BY <3>3, CallIsIteration DEF PendingPreempts, PreemptedFrom, Iteration
    <3> QED
      BY <1>6, <3>1, <3>2, <3>3, PreemptPendingOutcomes
  <2> QED
    BY <1>1, <1>6, <2>1 DEF PreemptPending, Scheduling, queueVars
<1> QED
  BY <1>2, <1>3, <1>4, <1>5, <1>6

\* The queues are rebuilt from what was kept.
LEMMA CommitKeepsBatch ==
    ASSUME Inv, Linked, BatchKept, Commit
    PROVE  BatchKept'
<1>1. /\ Scheduling /\ ~Scheduling' /\ running' \subseteq Kept
  BY DecidedIsDone DEF Commit, Decided, NewRunning, Kept, Scheduling
<1>2. /\ Cardinality(running') <= Cardinality(Kept)
      /\ Cardinality(running') \in Nat /\ Cardinality(Kept) \in Nat
  BY <1>1, KeptAreGroups, SmallerSet
<1>3. Cardinality(running)' <= MaxNumSeqs
  BY <1>1, <1>2, SchedulerAssumption DEF BatchKept
<1> QED
  BY <1>1, <1>3 DEF BatchKept

LEMMA NextKeepsBatch ==
    ~SlidingWindow /\ Inv /\ Inv' /\ Linked /\ BudgetKept /\ FewTokens
      /\ BatchKept /\ [Next]_vars => BatchKept'
<1> SUFFICES ASSUME ~SlidingWindow, Inv, Inv', Linked, BudgetKept, FewTokens,
                    BatchKept, [Next]_vars
             PROVE  BatchKept'
  OBVIOUS
<1>1. CASE UNCHANGED <<running, pc, it>>
  BY <1>1 DEF BatchKept, Kept, Scheduling, RemainingTokens
<1>2. CASE WaitForRequests \/ UNCHANGED vars
  BY <1>1, <1>2 DEF WaitForRequests, vars, queueVars
<1>3. CASE running' \subseteq running /\ ~Scheduling'
  BY <1>3, RunningShrinks
<1>4. CASE Clients
  BY <1>3, <1>4 DEF Clients, AddSeqGroup, AbortSeqGroup, Scheduling
<1>5. CASE \E g \in Groups : FreeStopped(g)
  BY <1>1, <1>5 DEF FreeStopped
<1>6. CASE \/ EndSchedule \/ EndAdvance \/ EndOutputs
           \/ \E g \in Groups : DullAbort(g) \/ Advance(g) \/ ProcessOutput(g)
  BY <1>3, <1>6
  DEF EndSchedule, EndAdvance, EndOutputs, DullAbort, Advance, ProcessOutput,
      Scheduling, queueVars, Unfinished
<1>7. CASE \/ ChooseBin \/ BuildProcessList \/ EndProcess \/ EnterChunked
           \/ EndRun \/ EndSwapIn
           \/ \E g \in Groups : PreemptPending(g)
  BY <1>7, LoopsKeepBatch
<1>8. CASE \E g \in Groups :
             \/ Process(g) \/ SwapInSelected(g) \/ RunSelected(g)
             \/ PrefillSelected(g) \/ RunNext(g) \/ RunEvicts(g)
             \/ SwapInNext(g) \/ PrefillNext(g)
  BY <1>8, ProcessKeepsBatch, SettleKeepsBatch, RunKeepsBatch,
     AdmissionKeepsBatch
<1>9. CASE RunFits
  BY <1>9, RunKeepsBatch, CandidateIsGroup DEF RunFits
<1>10. CASE BeginSchedule \/ Commit
  BY <1>10, BeginScheduleKeepsBatch, CommitKeepsBatch
<1> QED
  BY <1>2, <1>4, <1>5, <1>6, <1>7, <1>8, <1>9, <1>10 DEF Next, Engine

\* The budget, and the groups that the process list gives it to.
LEMMA BudgetAlways == Spec => [](Inv /\ Linked /\ BudgetKept /\ FewTokens)
<1>1. Init => BudgetKept /\ FewTokens
  BY DEF Init, BudgetKept, FewTokens, Scheduling
<1>2. Inv /\ Inv' /\ Linked /\ BudgetKept /\ [Next]_vars => BudgetKept'
  BY NextKeepsBudget
<1>3. Inv /\ Inv' /\ Linked /\ BudgetKept /\ FewTokens /\ [Next]_vars => FewTokens'
  BY NextKeepsFewTokens
<1> QED
  BY <1>1, <1>2, <1>3, LinkedAlways, PTL DEF Spec

\* With the bins no more groups run than max_num_seqs, whichever path made the
\* queue; the sliding window has no such bound.
THEOREM RunningKeepsWithinBatch ==
    ASSUME ~SlidingWindow
    PROVE  Spec => [](Cardinality(running) <= MaxNumSeqs)
<1>1. Init => BatchKept
  BY FS_EmptySet, SchedulerAssumption DEF Init, BatchKept, Scheduling
<1>2. Inv /\ Inv' /\ Linked /\ BudgetKept /\ FewTokens
        /\ BatchKept /\ [Next]_vars => BatchKept'
  BY NextKeepsBatch
<1>3. BatchKept => Cardinality(running) <= MaxNumSeqs
  BY DEF BatchKept
<1> QED
  BY <1>1, <1>2, <1>3, BudgetAlways, PTL DEF Spec

-----------------------------------------------------------------------------
(* No group is lost.                                                       *)

\* While the process list is gone through the budget is not exhausted: no
\* more groups are selected than may run, with two tokens each.
LEMMA TokensAreLeft ==
    ASSUME Inv, Linked, AmpleBudget, FewTokens, SlidingWindow \/ BatchKept,
           pc = "process"
    PROVE  RemainingTokens > 0
<1>1. /\ it.tokens <= 2 * it.seqs /\ it.seqs = Cardinality(it.selected)
      /\ it.tokens \in Int /\ it.seqs \in Int
  BY KeptAreGroups DEF FewTokens
<1>2. CASE SlidingWindow
  <2>1. /\ Cardinality(it.selected) <= Cardinality(Groups)
        /\ Cardinality(Groups) \in Nat
    BY KeptAreGroups, SmallerSet
  <2>2. MaxBatchedTokens > 2 * Cardinality(Groups)
    BY <1>2 DEF AmpleBudget
  <2> QED
    BY <1>1, <2>1, <2>2, SchedulerAssumption DEF RemainingTokens
<1>3. CASE ~SlidingWindow
  <2>1. Cardinality(it.selected) <= MaxNumSeqs
    <3>1. Kept = it.selected
      BY NothingKeptYet
    <3> QED
      BY <1>3, <3>1 DEF BatchKept, Scheduling
  <2>2. MaxBatchedTokens > 2 * MaxNumSeqs
    BY <1>3 DEF AmpleBudget
  <2> QED
    BY <1>1, <2>1, <2>2, SchedulerAssumption DEF RemainingTokens
<1> QED
  BY <1>2, <1>3, SchedulerAssumption

\* A group that a step leaves as it is stays in its queue.
LEMMA OthersKept ==
    ASSUME NEW h \in Groups, QueueKept(h), Untouched(h), pc' = pc
    PROVE  QueueKept(h)'
  BY DEF QueueKept, Untouched, Kept, Scheduling, Deciding

\* So only the group itself has to be looked at.
LEMMA LocalKeepsQueues ==
    ASSUME QueuesKept, NEW g \in Groups, Local(g), QueueKept(g)',
           pendingSwapOut' \subseteq pendingSwapOut, execOrder' = execOrder
    PROVE  QueuesKept'
<1>1. BinKept'
  BY DEF QueuesKept, BinKept
<1>2. ASSUME NEW h \in Groups PROVE QueueKept(h)'
  BY OthersKept DEF QueuesKept, Local
<1> QED
  BY <1>1, <1>2 DEF QueuesKept

\* A group that has just been preempted is in the list of its new status.
LEMMA PreemptKeepsQueue ==
    ASSUME Inv, NEW g \in Groups, NEW r \in Iteration, PreemptedFrom(r, g),
           Scheduling, pc' = pc
    PROVE  QueueKept(g)'
<1>1. status \in [Groups -> Statuses]
  BY DEF Inv, SeqTypeOK
<1>2. CASE /\ it' = [r EXCEPT !.swappedOut = @ \cup {g}]
           /\ status' = [status EXCEPT ![g] = "swapped"]
  <2>1. status'[g] = "swapped" /\ g \in it'.swappedOut /\ Deciding'
    BY <1>1, <1>2 DEF Iteration, Deciding, Scheduling
  <2> QED
    BY <2>1 DEF QueueKept
<1>3. CASE /\ it' = [r EXCEPT !.preempted = @ \cup {g}]
           /\ status' = [status EXCEPT ![g] = "waiting"]
  <2>1. status'[g] = "waiting" /\ g \in it'.preempted /\ Scheduling'
    BY <1>1, <1>3 DEF Iteration, Scheduling
  <2> QED
    BY <2>1 DEF QueueKept
<1> QED
  BY <1>2, <1>3 DEF PreemptedFrom

\* A group that is given up, or finishes, needs no queue.
LEMMA FinishedNeedsNoQueue ==
    ASSUME NEW g \in Groups, status'[g] \in Finished
    PROVE  QueueKept(g)'
  BY DEF QueueKept, Finished

\* One lemma per group of actions: no group leaves the queues unseen.
LEMMA ClientsKeepQueues ==
    ASSUME Inv, Linked, QueuesKept, NEW g \in Groups,
           AddSeqGroup(g) \/ AbortSeqGroup(g)
    PROVE  QueuesKept'
<1>1. Local(g) /\ UNCHANGED binVars
  BY AddSeqGroupIsLocal, AbortSeqGroupIsLocal DEF AddSeqGroup, AbortSeqGroup
<1>2. status \in [Groups -> Statuses] /\ QueueKept(g)
  BY DEF Inv, SeqTypeOK, QueuesKept
<1>3. CASE AddSeqGroup(g)
  <2>1. status'[g] = "waiting" /\ g \in waiting'
    BY <1>2, <1>3 DEF AddSeqGroup
  <2>2. QueueKept(g)'
    BY <2>1 DEF QueueKept
  <2> QED
    BY <1>1, <2>2, LocalKeepsQueues DEF binVars
<1>4. CASE AbortSeqGroup(g)
  <2>1. CASE g \in Queued /\ ~IsFinished(g)
    <3>1. status'[g] \in Finished
      BY <1>2, <1>4, <2>1 DEF AbortSeqGroup, Finished
    <3> QED
      BY <1>1, <3>1, FinishedNeedsNoQueue, LocalKeepsQueues DEF binVars
  <2>2. CASE ~(g \in Queued /\ ~IsFinished(g))
    <3>1. pc = "idle" /\ status'[g] = status[g]
      BY <1>4, <2>2 DEF AbortSeqGroup
    <3>2. status[g] \notin {"waiting", "swapped", "running"}
      BY <1>2, <2>2, <3>1
      DEF QueueKept, Queued, Scheduling, Deciding, IsFinished, Finished
    <3>3. QueueKept(g)'
      BY <3>1, <3>2 DEF QueueKept
    <3> QED
      BY <1>1, <3>3, LocalKeepsQueues DEF binVars
  <2> QED
    BY <2>1, <2>2
<1> QED
  BY <1>3, <1>4

LEMMA PreemptPendingKeepsQueues ==
    ASSUME Inv, Linked, QueuesKept, NEW g \in Groups, PreemptPending(g)
    PROVE  QueuesKept'
<1>1. /\ pc = "preempt" /\ pc' = pc /\ Scheduling
      /\ UNCHANGED <<waiting, running, swapped, execOrder>>
      /\ pendingSwapOut' \subseteq pendingSwapOut
  BY DEF PreemptPending, Scheduling, queueVars
<1>2. QueueKept(g)
  BY DEF QueuesKept
<1>3. QueueKept(g)'
  <2>1. CASE UNCHANGED <<status, stage, computed, memVars, it>>
    BY <1>1, <1>2, <2>1 DEF QueueKept, Scheduling, Deciding
  <2>2. CASE /\ it' = [it EXCEPT !.swaps = @ + 1]
             /\ UNCHANGED <<status, stage, computed, memVars>>
    <3>1. it'.preempted = it.preempted /\ it'.swappedOut = it.swappedOut
      BY <2>2, CallIsIteration DEF Iteration
    <3> QED
      BY <1>1, <1>2, <2>2, <3>1 DEF QueueKept, Scheduling, Deciding
  <2>3. CASE PendingPreempts(g)
    <3> DEFINE r == [it EXCEPT !.swaps = @ + 1]
    <3>1. r \in Iteration
      BY CallIsIteration DEF Iteration
    <3>2. PreemptedFrom(r, g)
      BY <2>3 DEF PendingPreempts
    <3> HIDE DEF r
    <3> QED
      BY <1>1, <3>1, <3>2, PreemptKeepsQueue
  <2> QED
    BY <2>1, <2>2, <2>3, PreemptPendingOutcomes
<1> QED
  BY <1>1, <1>3, PreemptPendingIsLocal, LocalKeepsQueues

\* Here a running group would be lost for want of tokens.
LEMMA ProcessKeepsQueues ==
    ASSUME Inv, Linked, AmpleBudget, FewTokens, SlidingWindow \/ BatchKept,
           QueuesKept, NEW g \in Groups, Process(g)
    PROVE  QueuesKept'
<1>1. /\ pc = "process" /\ pc' = pc /\ Scheduling /\ g \in it.todo
      /\ UNCHANGED <<waiting, running, swapped, execOrder, pendingSwapOut>>
  BY DEF Process, Scheduling, queueVars, binVars
<1>2. QueueKept(g) /\ GroupLinked(g)
  BY DEF QueuesKept, Linked
<1>3. RemainingTokens > 0 /\ RemainingTokens \in Int
  BY <1>1, TokensAreLeft, KeptAreGroups
<1>4. ASSUME NEW n \in 1..2, ProcessSelects(g, n) PROVE QueueKept(g)'
  <2>1. /\ it'.selected = it.selected \cup {g} /\ status' = status
        /\ it'.preempted = it.preempted /\ it'.swappedOut = it.swappedOut
    BY <1>4, CallIsIteration DEF ProcessSelects, Iteration
  <2> QED
    BY <1>1, <1>2, <2>1 DEF QueueKept, Scheduling, Deciding
<1>5. ASSUME ProcessPasses(g) PROVE QueueKept(g)'
  <2>1. /\ it'.selected = it.selected /\ status' = status
        /\ it'.preempted = it.preempted /\ it'.swappedOut = it.swappedOut
    BY <1>5, CallIsIteration DEF ProcessPasses, Iteration
  <2>2. ~(QueueOf(g) = "running" /\ status[g] = "running")
    BY <1>3, <1>5 DEF ProcessPasses
  <2>3. status[g] = "running" => g \notin running
    BY <1>2, <2>2
    DEF QueueOf, Linked, GroupLinked, TableLinked, CacheLinked, QueuesLinked,
        ResultsLinked, SelectedLinked, CandidateLinked, TodoLinked, Scheduling,
        Deciding, Planned, ChunkFits, IsFinished, Finished, IsPrefill
  <2>4. status[g] # "running"
    BY <1>1, <1>2, <2>3 DEF QueueKept
  <2> QED
    BY <1>1, <1>2, <2>1, <2>4 DEF QueueKept, Scheduling, Deciding
<1>6. ASSUME ProcessPreempts(g) PROVE QueueKept(g)'
  <2> DEFINE r == [it EXCEPT !.todo = @ \ {g}, !.stop = TRUE]
  <2>1. r \in Iteration
    BY CallIsIteration DEF Iteration
  <2>2. PreemptedFrom(r, g)
    BY <1>6 DEF ProcessPreempts
  <2> HIDE DEF r
  <2> QED
    BY <1>1, <2>1, <2>2, PreemptKeepsQueue
<1>7. QueueKept(g)'
  BY <1>2, <1>4, <1>5, <1>6, ProcessOutcomes DEF GroupLinked
<1> QED
  BY <1>1, <1>7, ProcessIsLocal, LocalKeepsQueues

\* Applying the list: what is declined is in its queue, or left over.
LEMMA SettleKeepsQueues ==
    ASSUME Inv, Linked, QueuesKept, NEW g \in Groups,
           SwapInSelected(g) \/ RunSelected(g) \/ PrefillSelected(g)
    PROVE  QueuesKept'
<1>1. /\ pc = "apply" /\ pc' = pc /\ Scheduling /\ running' = running
      /\ g \in it.selected /\ UNCHANGED <<execOrder, pendingSwapOut>>
  BY
  DEF SwapInSelected, RunSelected, PrefillSelected, Scheduling, queueVars,
      binVars
<1>2. /\ QueueKept(g) /\ GroupLinked(g) /\ Local(g)
      /\ status \in [Groups -> Statuses]
  BY SwapInSelectedIsLocal, RunSelectedIsLocal, PrefillSelectedIsLocal
  DEF QueuesKept, Linked, Inv, SeqTypeOK
<1>. SUFFICES QueueKept(g)'
  BY <1>1, <1>2, LocalKeepsQueues
<1>3. ASSUME status'[g] = "running", g \in it'.scheduled \cup it'.leftover
      PROVE  QueueKept(g)'
  BY <1>1, <1>3 DEF QueueKept, Kept
<1>4. ASSUME status' = status, waiting' = waiting, swapped' = swapped,
             g \in waiting \/ g \in swapped
      PROVE  QueueKept(g)'
  <2>1. /\ status[g] = "waiting" => g \in waiting
        /\ status[g] = "swapped" => g \in swapped
        /\ status[g] # "running"
    BY <1>2, <1>4
    DEF Linked, GroupLinked, TableLinked, CacheLinked, QueuesLinked,
        ResultsLinked, SelectedLinked, CandidateLinked, TodoLinked, Scheduling,
        Deciding, Planned, ChunkFits, IsFinished, Finished, IsPrefill
  <2> QED
    BY <1>4, <2>1 DEF QueueKept
<1>5. CASE SwapInSelected(g)
  <2>1. CASE SwapInSelects(g)
    <3>1. status'[g] = "running" /\ g \in it'.scheduled
      BY <1>2, <2>1, CallIsIteration DEF SwapInSelects, Iteration
    <3> QED
      BY <1>3, <3>1
  <2>2. CASE SwapInDeclines(g)
    BY <1>4, <1>5, <2>2 DEF SwapInSelected, SwapInDeclines
  <2> QED
    BY <1>5, <2>1, <2>2, SwapInSelectedOutcomes
<1>6. CASE RunSelected(g)
  <2>1. status' = status /\ status[g] = "running"
    BY <1>1, <1>2, <1>6
    DEF RunSelected, seqVars, Linked, GroupLinked, TableLinked, CacheLinked,
        QueuesLinked, ResultsLinked, SelectedLinked, CandidateLinked,
        TodoLinked, Scheduling, Deciding, Planned, ChunkFits, IsFinished,
        Finished, IsPrefill
  <2>2. g \in it'.scheduled \cup it'.leftover
    <3>1. CASE RunSelects(g)
      BY <3>1, CallIsIteration DEF RunSelects, Iteration
    <3>2. CASE RunDeclines(g)
      BY <3>2, CallIsIteration DEF RunDeclines, Iteration
    <3> QED
      BY <1>6, <3>1, <3>2, RunSelectedOutcomes
  <2> QED
    BY <1>3, <2>1, <2>2
<1>7. CASE PrefillSelected(g)
  <2>1. CASE PrefillSelects(g)
    <3>1. PICK add \in Int :
            it' = [it EXCEPT !.selected = @ \ {g}, !.scheduled = @ \cup {g},
                             !.tokens = @ + add, !.chunk[g] = @ + add]
      BY <2>1 DEF PrefillSelects
    <3>2. status'[g] = "running" /\ g \in it'.scheduled
      BY <1>2, <2>1, <3>1, CallIsIteration DEF PrefillSelects, Iteration
    <3> QED
      BY <1>3, <3>2
  <2>2. CASE PrefillDeclines(g)
    BY <1>4, <1>7, <2>2 DEF PrefillSelected, PrefillDeclines
  <2> QED
    BY <1>7, <2>1, <2>2, PrefillSelectedOutcomes
<1> QED
  BY <1>5, <1>6, <1>7

\* _schedule_running leaves over what it cannot schedule.
LEMMA RunKeepsQueues ==
    ASSUME Inv, Linked, QueuesKept, NEW g \in Groups,
           RunNext(g) \/ RunEvicts(g) \/ (RunFits /\ g = it.cand)
    PROVE  QueuesKept'
<1>1. /\ pc = "run" /\ pc' = pc /\ Scheduling
      /\ UNCHANGED <<waiting, running, swapped, execOrder, pendingSwapOut>>
  BY DEF RunNext, RunEvicts, RunFits, Scheduling, queueVars, binVars
<1>2. /\ QueueKept(g) /\ GroupLinked(g) /\ Local(g)
      /\ status \in [Groups -> Statuses]
  BY RunNextIsLocal, RunEvictsIsLocal, RunFitsIsLocal
  DEF QueuesKept, Linked, Inv, SeqTypeOK
<1>. SUFFICES QueueKept(g)'
  BY <1>1, <1>2, LocalKeepsQueues
<1>3. ASSUME status' = status, status[g] = "running",
             g \in it'.scheduled \cup it'.leftover \/ it'.cand = g
      PROVE  QueueKept(g)'
  BY <1>1, <1>3 DEF QueueKept, Kept
<1>4. CASE RunNext(g)
  <2>1. status[g] = "running"
    BY <1>1, <1>2, <1>4
    DEF RunNext, Linked, GroupLinked, TableLinked, CacheLinked, QueuesLinked,
        ResultsLinked, SelectedLinked, CandidateLinked, TodoLinked, Scheduling,
        Deciding, Planned, ChunkFits, IsFinished, Finished, IsPrefill
  <2>2. CASE RunSkips(g)
    <3>1. status' = status /\ g \in it'.leftover
      BY <2>2, CallIsIteration DEF RunSkips, Iteration
    <3> QED
      BY <1>3, <2>1, <3>1
  <2>3. CASE RunStops(g)
    <3>1. status'[g] \in Finished
      BY <1>2, <2>3 DEF RunStops, Finished
    <3> QED
      BY <3>1, FinishedNeedsNoQueue
  <2>4. ASSUME NEW n \in Nat \ {0}, RunTries(g, n) PROVE QueueKept(g)'
    <3>1. status' = status /\ it'.cand = g
      BY <2>4, CallIsIteration DEF RunTries, Iteration
    <3> QED
      BY <1>3, <2>1, <3>1
  <2> QED
    BY <1>4, <2>2, <2>3, <2>4, RunNextOutcomes
<1>5. CASE RunEvicts(g)
  <2>1. CASE RunStopsLate(g)
    <3>1. status'[g] \in Finished
      BY <1>2, <2>1 DEF RunStopsLate
    <3> QED
      BY <3>1, FinishedNeedsNoQueue
  <2>2. CASE RunPreempts(g)
    BY <1>1, <2>2, WithoutVictimFields, PreemptKeepsQueue DEF RunPreempts
  <2> QED
    BY <1>5, <2>1, <2>2, RunEvictsOutcomes
<1>6. CASE RunFits /\ g = it.cand
  <2>1. status' = status /\ status[g] = "running"
    BY <1>1, <1>2, <1>6
    DEF RunFits, seqVars, Linked, GroupLinked, TableLinked, CacheLinked,
        QueuesLinked, ResultsLinked, SelectedLinked, CandidateLinked,
        TodoLinked, Scheduling, Deciding, Planned, ChunkFits, IsFinished,
        Finished, IsPrefill
  <2>2. g \in it'.scheduled
    BY <1>6, CallIsIteration DEF RunFits, Iteration
  <2> QED
    BY <1>3, <2>1, <2>2
<1> QED
  BY <1>4, <1>5, <1>6

\* The last two loops leave a group in its queue, or admit it.
LEMMA AdmissionKeepsQueues ==
    ASSUME Inv, Linked, QueuesKept, NEW g \in Groups,
           SwapInNext(g) \/ PrefillNext(g)
    PROVE  QueuesKept'
<1>1. /\ pc \in {"swapIn", "prefill"} /\ pc' = pc /\ Scheduling
      /\ running' = running /\ UNCHANGED <<execOrder, pendingSwapOut>>
  BY DEF SwapInNext, PrefillNext, Scheduling, queueVars, binVars
<1>2. /\ QueueKept(g) /\ GroupLinked(g) /\ Local(g)
      /\ status \in [Groups -> Statuses]
  BY SwapInNextIsLocal, PrefillNextIsLocal
  DEF QueuesKept, Linked, Inv, SeqTypeOK
<1>. SUFFICES QueueKept(g)'
  BY <1>1, <1>2, LocalKeepsQueues
<1>3. CASE \/ SwapInNext(g) /\ (SwapInEnds \/ SwapInPasses(g))
           \/ PrefillNext(g) /\ PrefillEnds
  <2>1. /\ it'.scheduled = it.scheduled /\ it'.selected = it.selected
        /\ it'.leftover = it.leftover /\ it'.preempted = it.preempted
        /\ it'.swappedOut = it.swappedOut
    BY <1>3, CallIsIteration
    DEF SwapInEnds, SwapInPasses, PrefillEnds, Iteration
  <2>2. status' = status /\ waiting' = waiting /\ swapped' = swapped
    BY <1>3
    DEF SwapInEnds, SwapInPasses, PrefillEnds, SwapInNext, PrefillNext
  <2> QED
    BY <1>1, <1>2, <2>1, <2>2 DEF QueueKept, Kept, Scheduling, Deciding
<1>4. CASE SwapInGivesUp(g) \/ PrefillGivesUp(g)
  <2>1. status'[g] \in Finished
    BY <1>2, <1>4 DEF SwapInGivesUp, PrefillGivesUp, Finished
  <2> QED
    BY <2>1, FinishedNeedsNoQueue
<1>5. CASE PrefillNext(g) /\ PrefillSkips(g)
  <2>1. g \in waiting /\ status'[g] = status[g] /\ status[g] # "waiting"
    BY <1>2, <1>5
    DEF PrefillNext, PrefillSkips, Linked, GroupLinked, TableLinked,
        CacheLinked, QueuesLinked, ResultsLinked, SelectedLinked,
        CandidateLinked, TodoLinked, Scheduling, Deciding, Planned, ChunkFits,
        IsFinished, Finished, IsPrefill
  <2>2. status[g] \in Finished
    BY <1>2, <2>1
    DEF Finished, Linked, GroupLinked, TableLinked, CacheLinked, QueuesLinked,
        ResultsLinked, SelectedLinked, CandidateLinked, TodoLinked, Scheduling,
        Deciding, Planned, ChunkFits, IsFinished, Finished, IsPrefill
  <2> QED
    BY <2>1, <2>2, FinishedNeedsNoQueue
<1>6. ASSUME NEW n \in Nat \ {0}, SwapInAdmits(g, n) \/ PrefillAdmits(g, n)
      PROVE  QueueKept(g)'
  <2>1. PICK t : it' = [it EXCEPT !.todo = t, !.scheduled = @ \cup {g},
                                  !.chunk[g] = n, !.tokens = @ + n,
                                  !.seqs = @ + 1]
    BY <1>6 DEF SwapInAdmits, PrefillAdmits
  <2>2. status'[g] = "running" /\ g \in it'.scheduled
    BY <1>2, <1>6, <2>1, CallIsIteration
    DEF SwapInAdmits, PrefillAdmits, Iteration
  <2> QED
    BY <1>1, <2>2 DEF QueueKept, Kept
<1> QED
  BY <1>3, <1>4, <1>5, <1>6, SwapInNextOutcomes, PrefillNextOutcomes

\* After the call a running group stays in the queue until it finishes.
LEMMA OutsideKeepsQueues ==
    ASSUME Inv, Linked, QueuesKept, NEW g \in Groups,
           \/ FreeStopped(g) \/ DullAbort(g) \/ Advance(g) \/ ProcessOutput(g)
    PROVE  QueuesKept'
<1>1. /\ Local(g) /\ UNCHANGED binVars /\ QueueKept(g)
      /\ status \in [Groups -> Statuses]
  BY FreeStoppedIsLocal, DullAbortIsLocal, AdvanceIsLocal, ProcessOutputIsLocal
  DEF FreeStopped, DullAbort, Advance, ProcessOutput, QueuesKept, Inv,
      SeqTypeOK
<1>. SUFFICES QueueKept(g)'
  BY <1>1, LocalKeepsQueues DEF binVars
<1>2. CASE FreeStopped(g)
  BY <1>1, <1>2
  DEF FreeStopped, seqVars, QueueKept, Kept, Scheduling, Deciding
<1>3. CASE DullAbort(g)
  <2>1. status'[g] \in Finished
    BY <1>1, <1>3 DEF DullAbort, Finished
  <2> QED
    BY <2>1, FinishedNeedsNoQueue
<1>4. CASE Advance(g)
  <2>1. pc = "advance" /\ pc' = pc /\ status' = status /\ UNCHANGED queueVars
    BY <1>4 DEF Advance
  <2> QED
    BY <1>1, <2>1 DEF queueVars, QueueKept, Scheduling, Deciding
<1>5. CASE ProcessOutput(g)
  <2>1. /\ pc \in {"lateOutputs", "outputs"} /\ pc' = pc
        /\ UNCHANGED queueVars
        /\ status'[g] \in Finished \cup {status[g]}
    BY <1>1, <1>5 DEF ProcessOutput
  <2>2. CASE status'[g] \in Finished
    BY <2>2, FinishedNeedsNoQueue
  <2>3. CASE status'[g] = status[g]
    BY <1>1, <2>1, <2>3 DEF queueVars, QueueKept, Scheduling, Deciding
  <2> QED
    BY <2>1, <2>2, <2>3
<1> QED
  BY <1>2, <1>3, <1>4, <1>5

\* The choice of the bin: the call is given up only when no group runs.
LEMMA ChooseBinKeepsQueues ==
    ASSUME Inv, Linked, QueuesKept, ChooseBin
    PROVE  QueuesKept'
<1>1. /\ pc = "free" /\ UNCHANGED <<status, waiting, running, swapped, it>>
      /\ pc' \in {"preempt", "commit"}
      /\ pc' = "commit" => ~execOrder' /\ ~SlidingWindow
  BY DEF ChooseBin, seqVars, queueVars
<1>2. CASE ClearBins /\ Queued = {}
  <2>1. BinKept'
    BY <1>2 DEF ClearBins, BinKept
  <2>2. ASSUME NEW h \in Groups PROVE QueueKept(h)'
    BY <1>1, <1>2 DEF QueuesKept, QueueKept, Queued, Scheduling, Deciding
  <2> QED
    BY <2>1, <2>2 DEF QueuesKept
<1>3. CASE \/ RecomputeBins
           \/ RecomputeSlidingWindow /\ SlidingWindow
           \/ KeepBins /\ ~SlidingWindow /\ pendingSwapOut # {}
  <2>1. SlidingWindow \/ execOrder'
    <3>1. CASE RecomputeBins
      BY <3>1 DEF RecomputeBins
    <3>2. CASE KeepBins /\ ~SlidingWindow /\ pendingSwapOut # {}
      BY <3>2 DEF KeepBins, QueuesKept, BinKept
    <3> QED
      BY <1>3, <3>1, <3>2
  <2>2. BinKept' /\ pc' = "preempt"
    BY <1>1, <2>1 DEF BinKept
  <2>3. ASSUME NEW h \in Groups PROVE QueueKept(h)'
    BY <1>1, <2>2 DEF QueuesKept, QueueKept, Scheduling, Deciding
  <2> QED
    BY <2>2, <2>3 DEF QueuesKept
<1>4. IF SlidingWindow \/ pendingSwapOut = {}
      THEN IF Queued = {} THEN ClearBins
           ELSE IF SlidingWindow THEN RecomputeSlidingWindow ELSE RecomputeBins
      ELSE KeepBins
  BY DEF ChooseBin
<1> QED
  BY <1>2, <1>3, <1>4

\* Every running group is on the process list, unless it was just preempted.
LEMMA BuildProcessListKeepsQueues ==
    ASSUME Inv, Linked, QueuesKept, BuildProcessList
    PROVE  QueuesKept'
<1>1. /\ pc = "preempt" /\ pc' = "process"
      /\ UNCHANGED <<status, waiting, running, swapped, pendingSwapOut,
                     execOrder>>
  BY DEF BuildProcessList, seqVars, queueVars
<1>2. /\ running \ (it.swappedOut \cup it.preempted) \subseteq it'.todo
      /\ it'.preempted = it.preempted /\ it'.swappedOut = it.swappedOut
  <2> DEFINE q == NumGpuBlocks - Watermark
             Cap(t) == Max2(MaxNumSeqs, Cardinality(t))
             kept == running \ (it.swappedOut \cup it.preempted)
  <2>1. \E t : /\ kept \subseteq t
               /\ \/ it' = [it EXCEPT !.todo = t, !.seqCap = Cap(t), !.quota = q]
                  \/ it' = [it EXCEPT !.todo = t, !.quota = q]
    BY DEF BuildProcessList
  <2> HIDE DEF q, Cap
  <2> QED
    BY <2>1, CallIsIteration DEF Iteration
<1>3. ASSUME NEW h \in Groups PROVE QueueKept(h)'
  <2>1. status[h] = "running" => h \in running \cap it'.todo
    BY <1>1, <1>2
    DEF QueuesKept, QueueKept, Linked, GroupLinked, TableLinked, CacheLinked,
        QueuesLinked, ResultsLinked, SelectedLinked, CandidateLinked,
        TodoLinked, Scheduling, Deciding, Planned, ChunkFits, IsFinished,
        Finished, IsPrefill
  <2> QED
    BY <1>1, <1>2, <2>1 DEF QueuesKept, QueueKept, Scheduling, Deciding
<1> QED
  BY <1>1, <1>3 DEF QueuesKept, BinKept

\* The steps from one loop to the next lose no group.
LEMMA LoopsKeepQueues ==
    ASSUME Inv, Linked, QueuesKept,
           \/ BeginSchedule \/ EndProcess \/ EnterChunked \/ EndRun
           \/ EndSwapIn \/ EndSchedule \/ EndAdvance \/ EndOutputs
    PROVE  QueuesKept'
<1>1. UNCHANGED <<status, waiting, pendingSwapOut, execOrder>>
  BY
  DEF BeginSchedule, EndProcess, EnterChunked, EndRun, EndSwapIn, EndSchedule,
      EndAdvance, EndOutputs, seqVars, queueVars, binVars
<1>. SUFFICES ASSUME NEW h \in Groups PROVE QueueKept(h)'
  BY <1>1 DEF QueuesKept, BinKept
<1>2. QueueKept(h)
  BY DEF QueuesKept
<1>3. CASE BeginSchedule
  BY <1>1, <1>2, <1>3
  DEF BeginSchedule, Unfinished, IsFinished, Finished, QueueKept, Scheduling,
      Deciding
<1>4. CASE EndProcess \/ EnterChunked \/ EndRun \/ EndSwapIn
  <2>1. /\ it'.selected = it.selected /\ it'.scheduled = it.scheduled
        /\ it'.leftover = it.leftover /\ it'.preempted = it.preempted
        /\ it'.swappedOut = it.swappedOut
        /\ UNCHANGED <<running, swapped>>
    BY <1>4, CallIsIteration
    DEF EndProcess, EnterChunked, EndRun, EndSwapIn, Iteration, queueVars
  <2>2. EnterChunked => it'.todo = running
    BY CallIsIteration DEF EnterChunked, Iteration
  <2>3. h # None
    BY SchedulerAssumption
  <2>4. CASE EndProcess
    BY <1>1, <1>2, <2>1, <2>4
    DEF EndProcess, QueueKept, Kept, Scheduling, Deciding
  <2>5. CASE EnterChunked
    BY <1>1, <1>2, <2>1, <2>2, <2>5
    DEF EnterChunked, QueueKept, Kept, Scheduling, Deciding
  <2>6. CASE EndRun
    BY <1>1, <1>2, <2>1, <2>3, <2>6
    DEF EndRun, QueueKept, Kept, Scheduling, Deciding
  <2>7. CASE EndSwapIn
    BY <1>1, <1>2, <2>1, <2>7
    DEF EndSwapIn, QueueKept, Kept, Scheduling, Deciding
  <2> QED
    BY <1>4, <2>4, <2>5, <2>6, <2>7
<1>5. CASE EndSchedule
  BY <1>1, <1>2, <1>5 DEF EndSchedule, QueueKept, Scheduling, Deciding
<1>6. CASE EndAdvance
  BY <1>1, <1>2, <1>6
  DEF EndAdvance, queueVars, QueueKept, Scheduling, Deciding
<1>7. CASE EndOutputs
  BY <1>1, <1>2, <1>7
  DEF EndOutputs, Unfinished, IsFinished, Finished, QueueKept, Scheduling,
      Deciding
<1> QED
  BY <1>3, <1>4, <1>5, <1>6, <1>7

\* The queues are rebuilt from the lists of the call, all of them.
LEMMA CommitKeepsQueues ==
    ASSUME Inv, Linked, QueuesKept, Commit
    PROVE  QueuesKept'
<1>1. /\ UNCHANGED <<status, swapped, pendingSwapOut, execOrder>>
      /\ pc \in {"apply", "prefill", "commit"} /\ pc' = "dull"
      /\ waiting' = waiting \cup it.preempted
      /\ running' = it.scheduled \cup it.leftover
  BY DEF Commit, NewRunning, Decided, seqVars, binVars
<1>2. it'.swappedOut = it.swappedOut
  BY CallIsIteration DEF Commit, Iteration
<1>3. ASSUME NEW h \in Groups PROVE QueueKept(h)'
  <2>1. h \notin it.selected
    BY DecidedIsDone DEF Commit
  <2> QED
    BY <1>1, <1>2, <2>1
    DEF QueuesKept, QueueKept, Kept, Scheduling, Deciding
<1> QED
  BY <1>1, <1>3 DEF QueuesKept, BinKept

LEMMA NextKeepsQueues ==
    AmpleBudget /\ Inv /\ Linked /\ FewTokens /\ (SlidingWindow \/ BatchKept)
      /\ QueuesKept /\ [Next]_vars => QueuesKept'
<1> SUFFICES ASSUME AmpleBudget, Inv, Linked, FewTokens,
                    SlidingWindow \/ BatchKept, QueuesKept, [Next]_vars
             PROVE  QueuesKept'
  OBVIOUS
<1>1. CASE WaitForRequests \/ UNCHANGED vars
  BY <1>1
  DEF WaitForRequests, vars, seqVars, queueVars, binVars, QueuesKept,
      QueueKept, BinKept, Kept, Scheduling, Deciding
<1>2. CASE Clients
  BY <1>2, ClientsKeepQueues DEF Clients
<1>3. CASE \/ BeginSchedule \/ EndProcess \/ EnterChunked \/ EndRun
           \/ EndSwapIn \/ EndSchedule \/ EndAdvance \/ EndOutputs
  BY <1>3, LoopsKeepQueues
<1>4. CASE ChooseBin \/ BuildProcessList \/ Commit
  BY <1>4, ChooseBinKeepsQueues, BuildProcessListKeepsQueues, CommitKeepsQueues
<1>5. CASE RunFits
  BY <1>5, RunKeepsQueues, CandidateIsGroup DEF RunFits
<1>6. CASE \E g \in Groups :
             \/ FreeStopped(g) \/ PreemptPending(g) \/ Process(g)
             \/ SwapInSelected(g) \/ RunSelected(g) \/ PrefillSelected(g)
             \/ RunNext(g) \/ RunEvicts(g) \/ SwapInNext(g) \/ PrefillNext(g)
             \/ DullAbort(g) \/ Advance(g) \/ ProcessOutput(g)
  BY <1>6, PreemptPendingKeepsQueues, ProcessKeepsQueues, SettleKeepsQueues,
     RunKeepsQueues, AdmissionKeepsQueues, OutsideKeepsQueues
<1> QED
  BY <1>1, <1>2, <1>3, <1>4, <1>5, <1>6 DEF Next, Engine

\* A group that is not finished is always in a queue or in a list of the call
\* that ends in one, when the token budget is ample.
LEMMA QueuesAlwaysKept ==
    ASSUME AmpleBudget
    PROVE  Spec => []QueuesKept
<1> DEFINE Batch == SlidingWindow \/ BatchKept
<1>1. Init => QueuesKept /\ Batch
  BY FS_EmptySet, SchedulerAssumption
  DEF Init, QueuesKept, QueueKept, BinKept, BatchKept, Scheduling
<1>2. Inv /\ Inv' /\ Linked /\ BudgetKept /\ FewTokens /\ Batch
        /\ [Next]_vars => Batch'
  BY NextKeepsBatch
<1>3. Inv /\ Linked /\ FewTokens /\ Batch /\ QueuesKept /\ [Next]_vars
        => QueuesKept'
  BY NextKeepsQueues
<1> HIDE DEF Batch
<1> QED
  BY <1>1, <1>2, <1>3, BudgetAlways, PTL DEF Spec

\* Between two steps every group that is not finished is in the queue of its
\* status, when the token budget is ample.  Without that the first loop of
\* the process list can exhaust the budget, and drops the groups that run.
THEOREM LiveIsAlwaysQueued ==
    ASSUME AmpleBudget
    PROVE  Spec => []LiveIsQueued
<1>1. QueuesKept => LiveIsQueued
  BY DEF QueuesKept, QueueKept, LiveIsQueued, Scheduling, Deciding
<1> QED
  BY <1>1, QueuesAlwaysKept, PTL
====
