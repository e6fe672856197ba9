------------------------ MODULE SchedulerSafetyProofs ------------------------
(***************************************************************************)
(* What holds of types, block pools, tables, caches, batches and results   *)
(* in every state of the scheduler, for any number of requests of any      *)
(* length, any pools and any limits.                                       *)
(*                                                                         *)
(* The first part proves Inv inductive.  That the pools never run dry      *)
(* needs two more facts than that they are not dry: that no table holds    *)
(* more tokens than its sequence has (the guards count blocks by the       *)
(* length of the sequence, the operations move the blocks of the table),   *)
(* and the types.                                                          *)
(*                                                                         *)
(* The second part proves Linked (SchedulerInvariant) inductive on top of  *)
(* Inv.  Most steps are about one group: they leave the others as they are *)
(* (Local), so that only the group itself is left to look at.              *)
(***************************************************************************)
EXTENDS SchedulerInvariant, FiniteSums

-----------------------------------------------------------------------------
(* The block counts of the block manager.  What its guards count (blocks   *)
(* touched) bounds what its operations take (blocks allocated and held):   *)
(* the arithmetic on which every guard of the scheduler relies.            *)

\* Division with remainder, by the block size.
LEMMA BlockDivision ==
    ASSUME NEW s \in Nat
    PROVE  /\ s \div BlockSize \in Int
           /\ s % BlockSize \in Int
           /\ s = (BlockSize * (s \div BlockSize)) + (s % BlockSize)
           /\ BlockSize * (s \div BlockSize) <= s
  BY BlockAssumption, SMT

\* cdiv is the ceiling: its product with the block size is the least multiple
\* of the block size that is not below n.
LEMMA CeilDivBounds ==
    ASSUME NEW n \in Int
    PROVE  /\ CeilDiv(n) \in Int
           /\ n <= BlockSize * CeilDiv(n)
           /\ BlockSize * CeilDiv(n) < n + BlockSize
  BY BlockAssumption, SMT DEF CeilDiv

\* q blocks that hold n tokens are at least cdiv(n) blocks.
LEMMA CeilDivLeast ==
    ASSUME NEW n \in Int, NEW q \in Int, n <= BlockSize * q
    PROVE  CeilDiv(n) <= q
<1> DEFINE c == CeilDiv(n)
<1>1. c \in Int /\ BlockSize * c < n + BlockSize
  BY CeilDivBounds
<1>2. BlockSize \in Nat \ {0}
  BY BlockAssumption
<1>3. SUFFICES ASSUME c >= q + 1 PROVE FALSE
  BY <1>1
<1>4. BlockSize * c >= BlockSize * (q + 1)
  BY <1>1, <1>2, <1>3, SMT
<1> QED
  BY <1>1, <1>2, <1>4, SMT

\* A longer sequence needs no fewer blocks.
LEMMA CeilDivMonotone ==
    ASSUME NEW m \in Int, NEW n \in Int, m <= n
    PROVE  CeilDiv(m) <= CeilDiv(n)
<1>1. CeilDiv(n) \in Int /\ n <= BlockSize * CeilDiv(n)
  BY CeilDivBounds
<1>2. BlockSize * CeilDiv(n) \in Int
  BY <1>1, BlockAssumption, SMT
<1>3. m <= BlockSize * CeilDiv(n)
  BY <1>1, <1>2
<1> QED
  BY <1>1, <1>3, CeilDivLeast

\* A table of a number of tokens has a number of blocks.
LEMMA CeilDivNat ==
    ASSUME NEW n \in Nat
    PROVE  CeilDiv(n) \in Nat
  BY BlockAssumption, SMT DEF CeilDiv

\* q more full blocks make q more blocks.
LEMMA CeilDivShift ==
    ASSUME NEW n \in Int, NEW q \in Int
    PROVE  CeilDiv(n + BlockSize * q) = CeilDiv(n) + q
<1> DEFINE c == CeilDiv(n)  d == CeilDiv(n + BlockSize * q)
<1>0. BlockSize \in Nat \ {0} /\ BlockSize * q \in Int
  BY BlockAssumption, SMT
<1>1. /\ c \in Int /\ n <= BlockSize * c /\ BlockSize * c < n + BlockSize
      /\ d \in Int /\ n + BlockSize * q <= BlockSize * d
      /\ BlockSize * d < n + BlockSize * q + BlockSize
  BY CeilDivBounds, <1>0
<1>2. d <= c + q
  <2>1. n + BlockSize * q <= BlockSize * (c + q)
    BY <1>0, <1>1, SMT
  <2> QED BY <2>1, <1>0, <1>1, CeilDivLeast
<1>3. c <= d - q
  <2>1. n <= BlockSize * (d - q)
    BY <1>0, <1>1, SMT
  <2> QED BY <2>1, <1>0, <1>1, CeilDivLeast
<1> QED
  BY <1>1, <1>2, <1>3, SMT

-----------------------------------------------------------------------------

\* What an append touches: the blocks of the whole sequence but the full
\* blocks of the table, so the partial last block is among them.
LEMMA TouchedByAppend ==
    ASSUME NEW g \in Groups, slots[g] \in Nat, NEW n \in Int
    PROVE  NumTouchedByAppend(g, n) = CeilDiv(n) - (slots[g] \div BlockSize)
<1> DEFINE s == slots[g]
           q == s \div BlockSize
           r == s % BlockSize
           tail == (n - s) - (BlockSize - r)
<1>1. BlockSize \in Nat \ {0}
  BY BlockAssumption
<1>2. q \in Int /\ r \in Int /\ s = (BlockSize * q) + r
  BY BlockDivision
<1>3. tail \in Int /\ n = tail + (BlockSize * (q + 1))
  <2>1. BlockSize * q \in Int /\ BlockSize * (q + 1) = (BlockSize * q) + BlockSize
    BY <1>1, <1>2, SMT
  <2>2. tail = (n - s) - (BlockSize - r)
    OBVIOUS
  <2> HIDE DEF tail, q, r
  <2> QED BY <1>1, <1>2, <2>1, <2>2
<1>4. CeilDiv(n) = CeilDiv(tail) + (q + 1)
  BY <1>2, <1>3, CeilDivShift
<1>5. CeilDiv(tail) \in Int
  BY <1>3, CeilDivBounds
<1>6. NumTouchedByAppend(g, n) = 1 + CeilDiv(tail)
  BY DEF NumTouchedByAppend
<1> QED
  BY <1>2, <1>4, <1>5, <1>6

\* What a swap touches: the blocks of the whole sequence.
LEMMA TouchedBySwap ==
    ASSUME NEW g \in Groups, slots[g] \in Nat, NEW n \in Int
    PROVE  NumTouchedBySwap(g, n) = CeilDiv(n)
<1>1. slots[g] \div BlockSize \in Int
  BY BlockDivision
<1>2. CeilDiv(n) \in Int
  BY CeilDivBounds
<1> QED
  BY <1>1, <1>2, TouchedByAppend DEF NumTouchedBySwap

\* What an append allocates: the blocks that the table lacks.
LEMMA AllocatedByAppend ==
    ASSUME NEW g \in Groups, slots[g] \in Nat, NEW n \in Nat, slots[g] <= n
    PROVE  NumAllocatedByAppend(g, n) = CeilDiv(n) - CeilDiv(slots[g])
<1> DEFINE s == slots[g]
           h == CeilDiv(s)
           over == n - (BlockSize * h)
<1>1. BlockSize \in Nat \ {0}
  BY BlockAssumption
<1>2. h \in Int /\ CeilDiv(n) \in Int
  BY CeilDivBounds
<1>3. BlockSize * h \in Int /\ h * BlockSize = BlockSize * h
  BY <1>1, <1>2, SMT
<1>4. NumEmptySlots(g) = (BlockSize * h) - s
  BY <1>3 DEF NumEmptySlots, NumHeld
<1>5. (n - s) - NumEmptySlots(g) = over
  BY <1>3, <1>4
<1>6. CASE NumEmptySlots(g) >= n - s
  <2>1. n <= BlockSize * h
    BY <1>3, <1>4, <1>6
  <2>2. CeilDiv(n) <= h
    BY <1>2, <2>1, CeilDivLeast
  <2>3. h <= CeilDiv(n)
    BY CeilDivMonotone
  <2> QED
    BY <1>2, <1>6, <2>2, <2>3 DEF NumAllocatedByAppend
<1>7. CASE ~(NumEmptySlots(g) >= n - s)
  <2>1. over \in Int /\ n = over + (BlockSize * h)
    BY <1>3
  <2>2. CeilDiv(n) = CeilDiv(over) + h
    BY <1>2, <2>1, CeilDivShift
  <2>3. CeilDiv(over) \in Int
    BY <2>1, CeilDivBounds
  <2> QED
    BY <1>2, <1>5, <1>7, <2>2, <2>3 DEF NumAllocatedByAppend
<1> QED
  BY <1>6, <1>7

\* can_append_slots asks for at least the blocks that append_slots takes.
THEOREM AppendGuardSuffices ==
    ASSUME NEW g \in Groups, slots[g] \in Nat, NEW n \in Nat, slots[g] <= n
    PROVE  /\ NumAllocatedByAppend(g, n) \in Nat
           /\ NumAllocatedByAppend(g, n) <= NumTouchedByAppend(g, n)
<1> DEFINE q == slots[g] \div BlockSize
<1>1. q \in Int /\ BlockSize * q <= slots[g]
  BY BlockDivision
<1>2. CeilDiv(slots[g]) \in Int /\ slots[g] <= BlockSize * CeilDiv(slots[g])
      /\ CeilDiv(n) \in Int
  BY CeilDivBounds
<1>3. q <= CeilDiv(slots[g])
  BY <1>1, <1>2, BlockAssumption, SMT
<1>4. CeilDiv(slots[g]) <= CeilDiv(n)
  BY CeilDivMonotone
<1> QED
  BY <1>1, <1>2, <1>3, <1>4, TouchedByAppend, AllocatedByAppend

\* can_swap_out and can_swap_in ask for at least the blocks that the table
\* holds and those that append_slots adds on the way in.
THEOREM SwapGuardSuffices ==
    ASSUME NEW g \in Groups, slots[g] \in Nat, NEW n \in Nat, slots[g] <= n
    PROVE  /\ NumHeld(g) \in Nat
           /\ NumHeld(g) <= NumTouchedBySwap(g, n)
           /\ NumHeld(g) + NumAllocatedByAppend(g, n) = NumTouchedBySwap(g, n)
<1>1. NumHeld(g) \in Nat /\ CeilDiv(n) \in Nat
  BY CeilDivNat DEF NumHeld
<1>2. NumHeld(g) <= CeilDiv(n)
  BY CeilDivMonotone DEF NumHeld
<1> QED
  BY <1>1, <1>2, TouchedBySwap, AllocatedByAppend DEF NumHeld

-----------------------------------------------------------------------------
(* The invariant.                                                          *)

\* No table holds more tokens than its sequence has.
SlotsFit == \A g \in Groups : slots[g] <= SeqLen(g)

\* The part of Inv about the block manager.
MemSafe == MemTypeOK /\ SlotsFit /\ PoolsSuffice

\* The inductive invariant: TypeOK, SlotsFit and PoolsSuffice.
Inv == /\ SeqTypeOK /\ MemSafe /\ QueueTypeOK /\ BinTypeOK
       /\ CtlTypeOK /\ OutTypeOK /\ CallTypeOK

-----------------------------------------------------------------------------
(* Operators.                                                              *)

\* A sequence has a length.
LEMMA SeqLenNat ==
    ASSUME SeqTypeOK, NEW g \in Groups
    PROVE  SeqLen(g) \in Nat /\ NumUncomputed(g) \in Int
  BY SchedulerAssumption DEF SeqTypeOK, SeqLen, NumUncomputed

\* A queue or a list of groups has a size.
LEMMA GroupsFinite ==
    ASSUME NEW S \in SUBSET Groups
    PROVE  IsFiniteSet(S) /\ Cardinality(S) \in Nat
  BY SchedulerAssumption, FS_Subset, FS_CardinalityType

\* _get_num_new_tokens gives a number.
LEMMA NumNewTokensInt ==
    ASSUME SeqTypeOK, it \in Iteration, NEW g \in Groups, NEW st
    PROVE  NumNewTokens(g, st) \in Int
<1>1. RemainingTokens \in Int
  BY SchedulerAssumption DEF RemainingTokens, Iteration
<1>2. NumUncomputed(g) \in Int
  BY SeqLenNat
<1> QED
  BY <1>1, <1>2 DEF NumNewTokens, Min2

\* Between two calls there is nothing in the lists.
LEMMA NoIterationType == NoIteration \in Iteration
  BY DEF NoIteration, Iteration

\* _test_enough_swap_space answers yes or no.
LEMMA EnoughSwapSpaceType == EnoughSwapSpace \in BOOLEAN
<1>1. CpuSpaceLow \in BOOLEAN /\ CpuSpaceHigh \in BOOLEAN
  BY DEF CpuSpaceLow, CpuSpaceHigh
<1> QED
  BY <1>1 DEF EnoughSwapSpace

\* The blocks a group asks for are a number.
LEMMA NumBlocksInt ==
    ASSUME SeqTypeOK, MemTypeOK, NEW g \in Groups
    PROVE  NumBlocksNumber(g) \in Int
<1>1. SeqLen(g) \in Int /\ slots[g] \in Nat
  BY SeqLenNat DEF MemTypeOK
<1>2. CeilDiv(SeqLen(g)) \in Int
  BY <1>1, CeilDivBounds
<1> QED
  BY <1>1, <1>2, TouchedBySwap DEF NumBlocksNumber, NumRequired

\* The lists stay lists of groups when one more is preempted.
LEMMA WithPreemptedType ==
    ASSUME NEW r \in Iteration, NEW g \in Groups
    PROVE  WithPreempted(r, g) \in Iteration
<1>1. r.swappedOut \cup {g} \in SUBSET Groups /\ r.preempted \cup {g} \in SUBSET Groups
  BY DEF Iteration
<1>2. [r EXCEPT !.swappedOut = @ \cup {g}] \in Iteration
  BY <1>1 DEF Iteration
<1>3. [r EXCEPT !.preempted = @ \cup {g}] \in Iteration
  BY <1>1 DEF Iteration
<1> QED
  BY <1>2, <1>3 DEF WithPreempted

\* The loop of _schedule_running stays one without its victim.
LEMMA WithoutVictimType ==
    ASSUME it \in Iteration, NEW v \in Groups
    PROVE  WithoutVictim(v) \in Iteration
<1>1. it.todo \ {v} \in SUBSET Groups
  BY DEF Iteration
<1>2. (IF v = it.cand THEN None ELSE it.cand) \in Groups \cup {None}
  BY DEF Iteration
<1> QED
  BY <1>1, <1>2 DEF WithoutVictim, Iteration

\* The stop checker's answer is a status.
LEMMA StopStatusType ==
    ASSUME SeqTypeOK, NEW g \in Groups
    PROVE  StopStatus(g) \in Statuses
  BY DEF SeqTypeOK, StopStatus, Statuses, Finished

-----------------------------------------------------------------------------
(* The bounds of a bin.                                                    *)

\* The lengths of some groups have a least and a greatest.
LEMMA LengthsType ==
    ASSUME SeqTypeOK, NEW S \in SUBSET Groups, S # {}
    PROVE  Max(Lengths(S)) \in Int /\ Min(Lengths(S)) \in Int
<1> DEFINE f == [g \in S |-> SeqLen(g)]
<1>1. ASSUME NEW g \in S PROVE SeqLen(g) \in Int
  BY g \in Groups, SeqLenNat
<1>2. f \in Surjection(S, Lengths(S))
  BY DEF Surjection, Lengths
<1>3. IsFiniteSet(S)
  BY GroupsFinite
<1>4. IsFiniteSet(Lengths(S))
  BY <1>2, <1>3, FS_Surjection
<1>5. Lengths(S) \in SUBSET Int /\ Lengths(S) # {}
  BY <1>1 DEF Lengths
<1> QED
  BY <1>4, <1>5, MaxMinType

\* _switch_to_bin, for a bin that is not empty.
LEMMA SwitchToType ==
    ASSUME SeqTypeOK, QueueTypeOK, NEW window \in SUBSET Groups, window # {},
           NEW isLast \in BOOLEAN, SwitchTo(window, isLast)
    PROVE  /\ currentBin' \in SUBSET Groups /\ pendingSwapOut' \in SUBSET Groups
           /\ bounds' \in [lo : Int, hi : Int, last : BOOLEAN]
<1>1. Min(Lengths(window)) \in Int /\ Max(Lengths(window)) + 1 \in Int
  BY LengthsType
<1>2. currentBin' \in SUBSET Groups /\ pendingSwapOut' \in SUBSET Groups
  BY DEF SwitchTo, QueueTypeOK, Queued
<1> QED
  BY <1>1, <1>2 DEF SwitchTo

\* The places of the i-th bin of n groups, and of its extension to the left.
LEMMA BinPlaces ==
    ASSUME NEW n \in Nat, NEW size \in Nat \ {0},
           NEW i \in 1..((n + size - 1) \div size)
    PROVE  LET first == (i - 1) * size + 1
               last == Min2(i * size, n)
           IN first \in Int /\ last \in Int /\ first <= last
<1>1. i \in Int /\ (n + size - 1) \div size \in Int
      /\ i <= (n + size - 1) \div size
  BY SMT
<1>2. size * ((n + size - 1) \div size) <= n + size - 1
  BY SMT
<1>3. size * i <= size * ((n + size - 1) \div size)
  BY <1>1, SMT
<1>4. /\ size * i \in Int /\ i * size = size * i
      /\ (i - 1) * size = (size * i) - size
      /\ size * ((n + size - 1) \div size) \in Int
  BY <1>1, SMT
<1> HIDE DEF Min2
<1>5. (i - 1) * size + 1 <= n
  BY <1>2, <1>3, <1>4
<1>6. (i - 1) * size + 1 <= i * size
  BY <1>4
<1> QED
  BY <1>4, <1>5, <1>6 DEF Min2

\* A slice of at least one place is not empty, and is a part of the whole.
LEMMA SliceType ==
    ASSUME NEW S \in SUBSET Groups, NEW first \in Int, NEW last \in Int,
           first <= last, NEW W \in Slices(S, first, last)
    PROVE  W \in SUBSET Groups /\ W # {}
<1>1. W \in SUBSET S /\ Cardinality(W) = last - first + 1
  BY DEF Slices, kSubset
<1>2. Cardinality({}) = 0
  BY FS_EmptySet
<1> QED
  BY <1>1, <1>2

-----------------------------------------------------------------------------
(* The operations of the block manager, as the scheduler calls them.       *)

\* A step that leaves the tables and the lengths alone is safe.
LEMMA UnchangedIsSafe ==
    ASSUME MemSafe, UNCHANGED <<memVars, outLen>>
    PROVE  MemSafe'
  BY DEF MemSafe, MemTypeOK, SlotsFit, PoolsSuffice, SeqLen, memVars

\* A table of one group may hold up to the length of its sequence.
LEMMA OneTableFits ==
    ASSUME SeqTypeOK, MemSafe, NEW g \in Groups, NEW n \in 0..SeqLen(g),
           slots' = [slots EXCEPT ![g] = n], UNCHANGED outLen
    PROVE  SlotsFit' /\ slots' \in [Groups -> Nat]
<1>1. slots \in [Groups -> Nat] /\ n \in Nat
  BY SeqLenNat DEF MemSafe, MemTypeOK
<1>2. ASSUME NEW h \in Groups PROVE slots'[h] <= SeqLen(h)'
  <2>1. SeqLen(h)' = SeqLen(h) /\ slots[h] <= SeqLen(h) /\ n <= SeqLen(g)
    BY SeqLenNat DEF SeqLen, MemSafe, SlotsFit
  <2> QED
    BY <1>1, <2>1
<1> QED
  BY <1>1, <1>2 DEF SlotsFit

\* free gives blocks back.
LEMMA FreeIsSafe ==
    ASSUME SeqTypeOK, MemSafe, NEW g \in Groups, Free(g), UNCHANGED outLen
    PROVE  MemSafe'
<1>1. /\ device \in [Groups -> Devices] /\ slots \in [Groups -> Nat]
      /\ gpuFree \in Nat /\ cpuFree \in Nat
  BY DEF MemSafe, MemTypeOK, PoolsSuffice
<1>2. NumHeld(g) \in Nat
  BY <1>1, CeilDivNat DEF NumHeld
<1>3. MemTypeOK' /\ PoolsSuffice'
  BY <1>1, <1>2 DEF Free, MemTypeOK, PoolsSuffice, Devices
<1>4. SlotsFit'
  <2>1. 0 \in 0..SeqLen(g)
    BY SeqLenNat
  <2>2. slots' = [slots EXCEPT ![g] = 0]
    BY DEF Free
  <2> QED
    BY <2>1, <2>2, OneTableFits
<1> QED
  BY <1>3, <1>4 DEF MemSafe

\* allocate takes no more than can_allocate has counted.
LEMMA AllocateIsSafe ==
    ASSUME SeqTypeOK, MemSafe, NEW g \in Groups, UNCHANGED outLen,
           CanAllocate(SeqLen(g)) = "OK", Allocate(g, SeqLen(g))
    PROVE  MemSafe'
<1>1. /\ device \in [Groups -> Devices] /\ slots \in [Groups -> Nat]
      /\ gpuFree \in Nat /\ cpuFree \in Nat
  BY DEF MemSafe, MemTypeOK, PoolsSuffice
<1>2. SeqLen(g) \in Nat
  BY SeqLenNat
<1>3. NumRequired(SeqLen(g)) \in Nat
  BY <1>2, CeilDivNat DEF NumRequired
<1>4. gpuFree - NumRequired(SeqLen(g)) >= Watermark
  BY DEF CanAllocate
<1>5. MemTypeOK' /\ PoolsSuffice'
  BY <1>1, <1>2, <1>3, <1>4, BlockAssumption
  DEF Allocate, MemTypeOK, PoolsSuffice, Devices
<1>6. SlotsFit'
  <2>1. SeqLen(g) \in 0..SeqLen(g)
    BY <1>2
  <2>2. slots' = [slots EXCEPT ![g] = SeqLen(g)]
    BY DEF Allocate
  <2> QED
    BY <2>1, <2>2, OneTableFits
<1> QED
  BY <1>5, <1>6 DEF MemSafe

\* append_slots takes no more than can_append_slots has counted.
LEMMA AppendIsSafe ==
    ASSUME SeqTypeOK, MemSafe, NEW g \in Groups, UNCHANGED outLen,
           CanAppendSlots(g, SeqLen(g)), AppendSlots(g, SeqLen(g))
    PROVE  MemSafe'
<1>1. /\ device \in [Groups -> Devices] /\ slots \in [Groups -> Nat]
      /\ gpuFree \in Nat /\ cpuFree \in Nat /\ slots[g] \in Nat
  BY DEF MemSafe, MemTypeOK, PoolsSuffice
<1>2. SeqLen(g) \in Nat /\ slots[g] <= SeqLen(g)
  BY SeqLenNat DEF MemSafe, SlotsFit
<1>3. /\ NumAllocatedByAppend(g, SeqLen(g)) \in Nat
      /\ NumTouchedByAppend(g, SeqLen(g)) \in Int
      /\ NumAllocatedByAppend(g, SeqLen(g)) <= NumTouchedByAppend(g, SeqLen(g))
  <2>1. CeilDiv(SeqLen(g)) - (slots[g] \div BlockSize) \in Int
    BY <1>1, <1>2, CeilDivBounds, BlockDivision
  <2> QED
    BY <1>1, <1>2, <2>1, AppendGuardSuffices, TouchedByAppend
<1>4. MemTypeOK' /\ PoolsSuffice'
  BY <1>1, <1>2, <1>3 DEF CanAppendSlots, AppendSlots, MemTypeOK, PoolsSuffice
<1>5. SlotsFit'
  <2>1. SeqLen(g) \in 0..SeqLen(g)
    BY <1>2
  <2>2. slots' = [slots EXCEPT ![g] = SeqLen(g)]
    BY DEF AppendSlots
  <2> QED
    BY <2>1, <2>2, OneTableFits
<1> QED
  BY <1>4, <1>5 DEF MemSafe

\* swap_out takes no more CPU blocks than can_swap_out has counted.
LEMMA SwapOutIsSafe ==
    ASSUME SeqTypeOK, MemSafe, NEW g \in Groups, UNCHANGED outLen,
           CanSwapOut(g, SeqLen(g)), SwapOut(g)
    PROVE  MemSafe'
<1>1. /\ device \in [Groups -> Devices] /\ slots \in [Groups -> Nat]
      /\ gpuFree \in Nat /\ cpuFree \in Nat /\ slots[g] \in Nat
  BY DEF MemSafe, MemTypeOK, PoolsSuffice
<1>2. SeqLen(g) \in Nat /\ slots[g] <= SeqLen(g)
  BY SeqLenNat DEF MemSafe, SlotsFit
<1>3. NumHeld(g) \in Nat /\ NumHeld(g) <= NumTouchedBySwap(g, SeqLen(g))
  BY <1>1, <1>2, SwapGuardSuffices
<1>4. NumTouchedBySwap(g, SeqLen(g)) \in Int
  BY <1>1, <1>2, TouchedBySwap, CeilDivBounds
<1>5. MemTypeOK' /\ PoolsSuffice'
  BY <1>1, <1>3, <1>4 DEF CanSwapOut, SwapOut, MemTypeOK, PoolsSuffice, Devices
<1>6. SlotsFit'
  BY DEF SwapOut, MemSafe, SlotsFit, SeqLen
<1> QED
  BY <1>5, <1>6 DEF MemSafe

\* swap_in and append_slots together take what can_swap_in has counted.
LEMMA SwapInIsSafe ==
    ASSUME SeqTypeOK, MemSafe, NEW g \in Groups, UNCHANGED outLen,
           CanSwapIn(g, SeqLen(g)) = "OK", SwapInAndAppend(g, SeqLen(g))
    PROVE  MemSafe'
<1>1. /\ device \in [Groups -> Devices] /\ slots \in [Groups -> Nat]
      /\ gpuFree \in Nat /\ cpuFree \in Nat /\ slots[g] \in Nat
  BY DEF MemSafe, MemTypeOK, PoolsSuffice
<1>2. SeqLen(g) \in Nat /\ slots[g] <= SeqLen(g)
  BY SeqLenNat DEF MemSafe, SlotsFit
<1>3. /\ NumHeld(g) \in Nat
      /\ NumAllocatedByAppend(g, SeqLen(g)) \in Nat
      /\ NumHeld(g) + NumAllocatedByAppend(g, SeqLen(g))
           = NumTouchedBySwap(g, SeqLen(g))
  BY <1>1, <1>2, SwapGuardSuffices, AppendGuardSuffices
<1>4. gpuFree - NumTouchedBySwap(g, SeqLen(g)) >= Watermark
  BY DEF CanSwapIn
<1>5. MemTypeOK' /\ PoolsSuffice'
  BY <1>1, <1>2, <1>3, <1>4, BlockAssumption
  DEF SwapInAndAppend, MemTypeOK, PoolsSuffice, Devices
<1>6. SlotsFit'
  <2>1. SeqLen(g) \in 0..SeqLen(g)
    BY <1>2
  <2>2. slots' = [slots EXCEPT ![g] = SeqLen(g)]
    BY DEF SwapInAndAppend
  <2> QED
    BY <2>1, <2>2, OneTableFits
<1> QED
  BY <1>5, <1>6 DEF MemSafe

\* _preempt is safe in either mode, and leaves the sequences well-typed.
LEMMA PreemptIsSafe ==
    ASSUME SeqTypeOK, MemSafe, NEW g \in Groups, UNCHANGED outLen, Preempt(g)
    PROVE  MemSafe' /\ SeqTypeOK'
<1>1. CASE CanSwapOut(g, SeqLen(g))
  <2>1. MemSafe'
    BY <1>1, SwapOutIsSafe DEF Preempt
  <2> QED
    BY <1>1, <2>1 DEF Preempt, SeqTypeOK, Statuses
<1>2. CASE ~CanSwapOut(g, SeqLen(g))
  <2>1. MemSafe'
    BY <1>2, FreeIsSafe DEF Preempt
  <2> QED
    BY <1>2, <2>1 DEF Preempt, SeqTypeOK, Statuses
<1> QED
  BY <1>1, <1>2

-----------------------------------------------------------------------------
(* One lemma per action: it preserves Inv.                                 *)

\* What a step leaves alone stays well-typed.
LEMMA UnchangedTypes ==
    /\ SeqTypeOK /\ UNCHANGED seqVars => SeqTypeOK'
    /\ QueueTypeOK /\ UNCHANGED queueVars => QueueTypeOK'
    /\ BinTypeOK /\ UNCHANGED binVars => BinTypeOK'
    /\ CtlTypeOK /\ UNCHANGED ctlVars => CtlTypeOK'
    /\ OutTypeOK /\ UNCHANGED outVars => OutTypeOK'
    /\ CallTypeOK /\ UNCHANGED <<pc, it>> => CallTypeOK'
  BY DEF SeqTypeOK, QueueTypeOK, BinTypeOK, CtlTypeOK, OutTypeOK, CallTypeOK,
         seqVars, queueVars, binVars, ctlVars, outVars

\* A new request.
LEMMA AddSeqGroupKeepsInv ==
    ASSUME Inv, NEW g \in Groups, AddSeqGroup(g)
    PROVE  Inv'
<1>1. SeqTypeOK'
  BY DEF Inv, AddSeqGroup, SeqTypeOK, Statuses
<1>2. MemSafe'
  BY UnchangedIsSafe DEF Inv, AddSeqGroup, memVars
<1>3. QueueTypeOK'
  BY DEF Inv, AddSeqGroup, QueueTypeOK
<1>4. CtlTypeOK'
  BY DEF Inv, AddSeqGroup, CtlTypeOK
<1>5. BinTypeOK' /\ OutTypeOK' /\ CallTypeOK'
  BY UnchangedTypes DEF Inv, AddSeqGroup
<1> QED
  BY <1>1, <1>2, <1>3, <1>4, <1>5 DEF Inv

\* A request that its client gives up.
LEMMA AbortSeqGroupKeepsInv ==
    ASSUME Inv, NEW g \in Groups, AbortSeqGroup(g)
    PROVE  Inv'
<1>1. SeqTypeOK'
  BY DEF Inv, AbortSeqGroup, SeqTypeOK, Statuses, Finished
<1>2. MemSafe'
  <2>1. CASE g \in Queued /\ ~IsFinished(g)
    BY <2>1, FreeIsSafe DEF Inv, AbortSeqGroup
  <2>2. CASE ~(g \in Queued /\ ~IsFinished(g))
    BY <2>2, UnchangedIsSafe DEF Inv, AbortSeqGroup, memVars
  <2> QED
    BY <2>1, <2>2
<1>3. QueueTypeOK' /\ OutTypeOK'
  BY DEF Inv, AbortSeqGroup, QueueTypeOK, OutTypeOK
<1>4. BinTypeOK' /\ CtlTypeOK' /\ CallTypeOK'
  BY UnchangedTypes DEF Inv, AbortSeqGroup
<1> QED
  BY <1>1, <1>2, <1>3, <1>4 DEF Inv

\* The call begins.
LEMMA BeginScheduleKeepsInv ==
    ASSUME Inv, BeginSchedule
    PROVE  Inv'
<1>1. Cardinality(running) \in Int /\ maxNumSeqs \in Int
  BY GroupsFinite, SchedulerAssumption DEF Inv, QueueTypeOK, CtlTypeOK
<1>2. CallTypeOK'
  BY <1>1, NoIterationType, EnoughSwapSpaceType
  DEF Inv, BeginSchedule, CallTypeOK, Iteration, Max2
<1>3. scheduleCount' \in 0..(ScheduleInterval - 1)
  BY SchedulerAssumption DEF Inv, BeginSchedule, CtlTypeOK
<1>4. CtlTypeOK'
  BY <1>3, EnoughSwapSpaceType, Zenon DEF Inv, BeginSchedule, CtlTypeOK
<1>5. QueueTypeOK'
  BY DEF Inv, BeginSchedule, QueueTypeOK, Unfinished
<1>6. SeqTypeOK' /\ MemSafe' /\ BinTypeOK' /\ OutTypeOK'
  BY UnchangedTypes, UnchangedIsSafe DEF Inv, BeginSchedule, seqVars
<1> QED
  BY <1>2, <1>4, <1>5, <1>6 DEF Inv

\* A group stopped asynchronously is freed.
LEMMA FreeStoppedKeepsInv ==
    ASSUME Inv, NEW g \in Groups, FreeStopped(g)
    PROVE  Inv'
<1>1. MemSafe'
  BY FreeIsSafe DEF Inv, FreeStopped, seqVars
<1>2. QueueTypeOK'
  BY DEF Inv, FreeStopped, QueueTypeOK
<1>3. /\ SeqTypeOK' /\ BinTypeOK' /\ CtlTypeOK' /\ OutTypeOK' /\ CallTypeOK'
  BY UnchangedTypes DEF Inv, FreeStopped
<1> QED
  BY <1>1, <1>2, <1>3 DEF Inv

\* The process list is done.
LEMMA EndProcessKeepsInv ==
    ASSUME Inv, EndProcess
    PROVE  Inv'
<1>1. CallTypeOK'
  BY DEF Inv, EndProcess, CallTypeOK
<1>2. /\ SeqTypeOK' /\ MemSafe' /\ QueueTypeOK' /\ BinTypeOK'
      /\ CtlTypeOK' /\ OutTypeOK'
  BY UnchangedTypes, UnchangedIsSafe DEF Inv, EndProcess, seqVars
<1> QED
  BY <1>1, <1>2 DEF Inv

\* The chunked-prefill path begins with the running queue.
LEMMA EnterChunkedKeepsInv ==
    ASSUME Inv, EnterChunked
    PROVE  Inv'
<1>1. CallTypeOK'
  BY DEF Inv, EnterChunked, CallTypeOK, QueueTypeOK, Iteration
<1>2. /\ SeqTypeOK' /\ MemSafe' /\ QueueTypeOK' /\ BinTypeOK'
      /\ CtlTypeOK' /\ OutTypeOK'
  BY UnchangedTypes, UnchangedIsSafe DEF Inv, EnterChunked, seqVars
<1> QED
  BY <1>1, <1>2 DEF Inv

\* It goes on with the swapped queue.
LEMMA EndRunKeepsInv ==
    ASSUME Inv, EndRun
    PROVE  Inv'
<1>1. CallTypeOK'
  BY DEF Inv, EndRun, CallTypeOK, QueueTypeOK, Iteration
<1>2. /\ SeqTypeOK' /\ MemSafe' /\ QueueTypeOK' /\ BinTypeOK'
      /\ CtlTypeOK' /\ OutTypeOK'
  BY UnchangedTypes, UnchangedIsSafe DEF Inv, EndRun, seqVars
<1> QED
  BY <1>1, <1>2 DEF Inv

\* It ends with the waiting queue.
LEMMA EndSwapInKeepsInv ==
    ASSUME Inv, EndSwapIn
    PROVE  Inv'
<1>1. CallTypeOK'
  BY DEF Inv, EndSwapIn, CallTypeOK, QueueTypeOK, Iteration
<1>2. /\ SeqTypeOK' /\ MemSafe' /\ QueueTypeOK' /\ BinTypeOK'
      /\ CtlTypeOK' /\ OutTypeOK'
  BY UnchangedTypes, UnchangedIsSafe DEF Inv, EndSwapIn, seqVars
<1> QED
  BY <1>1, <1>2 DEF Inv

\* The swapped-out groups join their queue, and the model runs.
LEMMA EndScheduleKeepsInv ==
    ASSUME Inv, EndSchedule
    PROVE  Inv'
<1>1. CallTypeOK'
  BY DEF Inv, EndSchedule, CallTypeOK, Iteration
<1>2. QueueTypeOK'
  BY DEF Inv, EndSchedule, CallTypeOK, QueueTypeOK, Iteration
<1>3. /\ SeqTypeOK' /\ MemSafe' /\ BinTypeOK' /\ CtlTypeOK' /\ OutTypeOK'
  BY UnchangedTypes, UnchangedIsSafe DEF Inv, EndSchedule, seqVars
<1> QED
  BY <1>1, <1>2, <1>3 DEF Inv

\* The tokens are counted; the outputs follow now or with the next step.
LEMMA EndAdvanceKeepsInv ==
    ASSUME Inv, EndAdvance
    PROVE  Inv'
<1>1. CallTypeOK'
  BY NoIterationType DEF Inv, EndAdvance, CallTypeOK
<1>2. OutTypeOK'
  BY DEF Inv, EndAdvance, CallTypeOK, OutTypeOK, Iteration
<1>3. /\ SeqTypeOK' /\ MemSafe' /\ QueueTypeOK' /\ BinTypeOK' /\ CtlTypeOK'
  BY UnchangedTypes, UnchangedIsSafe DEF Inv, EndAdvance, seqVars
<1> QED
  BY <1>1, <1>2, <1>3 DEF Inv

\* The engine step ends, or goes on after the late outputs.
LEMMA EndOutputsKeepsInv ==
    ASSUME Inv, EndOutputs
    PROVE  Inv'
<1>1. [it EXCEPT !.finished = FALSE] \in Iteration
  BY DEF Inv, CallTypeOK, Iteration
<1>2. CallTypeOK'
  BY <1>1, NoIterationType DEF Inv, EndOutputs, CallTypeOK
<1>3. QueueTypeOK' /\ OutTypeOK' /\ CtlTypeOK'
  BY DEF Inv, EndOutputs, QueueTypeOK, OutTypeOK, CtlTypeOK, Unfinished
<1>4. SeqTypeOK' /\ MemSafe' /\ BinTypeOK'
  BY UnchangedTypes, UnchangedIsSafe DEF Inv, EndOutputs, seqVars
<1> QED
  BY <1>2, <1>3, <1>4 DEF Inv

\* A group out of the bounds of the bin is preempted.
LEMMA PreemptPendingKeepsInv ==
    ASSUME Inv, NEW g \in Groups, PreemptPending(g)
    PROVE  Inv'
<1> DEFINE counted == [it EXCEPT !.swaps = @ + 1]
<1>1. counted \in Iteration
  BY DEF Inv, CallTypeOK, Iteration
<1>2. CallTypeOK'
  <2>1. it \in Iteration /\ WithPreempted(counted, g) \in Iteration
    BY <1>1, WithPreemptedType DEF Inv, CallTypeOK
  <2>2. it' \in {it, counted, WithPreempted(counted, g)} /\ pc' = pc
    BY DEF PreemptPending
  <2> QED
    BY <1>1, <2>1, <2>2 DEF Inv, CallTypeOK
<1>3. SeqTypeOK' /\ MemSafe'
  <2>1. CASE UNCHANGED <<status, stage, computed, memVars>>
    BY <2>1, UnchangedTypes, UnchangedIsSafe DEF Inv, PreemptPending, seqVars
  <2>2. CASE Preempt(g)
    BY <2>2, PreemptIsSafe DEF Inv, PreemptPending
  <2> QED
    BY <2>1, <2>2 DEF PreemptPending
<1>4. BinTypeOK'
  BY DEF Inv, PreemptPending, BinTypeOK
<1>5. QueueTypeOK' /\ CtlTypeOK' /\ OutTypeOK'
  BY UnchangedTypes DEF Inv, PreemptPending
<1> QED
  BY <1>2, <1>3, <1>4, <1>5 DEF Inv

\* A group of the process list is selected, passed over or preempted.
LEMMA ProcessKeepsInv ==
    ASSUME Inv, NEW g \in Groups, Process(g)
    PROVE  Inv'
<1> DEFINE new == NumNewTokens(g, QueueOf(g))
           n == IF IsPrefill(g) THEN Min2(new, 2) ELSE new
           rest == [it EXCEPT !.todo = @ \ {g}]
           selected == [rest EXCEPT !.selected = @ \cup {g}, !.chunk[g] = n,
                                    !.tokens = @ + n, !.seqs = @ + 1,
                                    !.quota = @ - NumBlocksNumber(g)]
           stopped == [rest EXCEPT !.stop = TRUE]
           passed == [rest EXCEPT !.stop = \/ @
                                           \/ n > 0
                                           \/ /\ QueueOf(g) # "none"
                                              /\ NumUncomputed(g) > 0]
<1>1. new \in Int /\ n \in Int /\ NumBlocksNumber(g) \in Int
  <2>1. new \in Int
    BY NumNewTokensInt DEF Inv, CallTypeOK
  <2>2. NumBlocksNumber(g) \in Int
    BY NumBlocksInt DEF Inv, MemSafe
  <2> QED
    BY <2>1, <2>2 DEF Min2
<1>2. rest \in Iteration
  BY DEF Inv, CallTypeOK, Iteration
<1>3. selected \in Iteration
  <2>1. /\ rest.selected \cup {g} \in SUBSET Groups
        /\ rest.tokens + n \in Int /\ rest.seqs + 1 \in Int
        /\ rest.quota - NumBlocksNumber(g) \in Int
    BY <1>1, <1>2 DEF Iteration
  <2> HIDE DEF rest, n
  <2> QED
    BY <1>1, <1>2, <2>1 DEF Iteration
<1>4. stopped \in Iteration
  BY <1>2 DEF Iteration
<1>5. passed \in Iteration
  BY <1>2 DEF Iteration
<1>6. CallTypeOK'
  <2>1. WithPreempted(stopped, g) \in Iteration
    BY <1>4, WithPreemptedType
  <2>2. it' \in {selected, passed, WithPreempted(stopped, g)} /\ pc' = pc
    BY DEF Process
  <2> QED
    BY <1>3, <1>5, <2>1, <2>2 DEF Inv, CallTypeOK
<1>7. SeqTypeOK' /\ MemSafe'
  <2>1. CASE UNCHANGED <<status, stage, computed, memVars>>
    BY <2>1, UnchangedTypes, UnchangedIsSafe DEF Inv, Process, seqVars
  <2>2. CASE Preempt(g)
    BY <2>2, PreemptIsSafe DEF Inv, Process
  <2> QED
    BY <2>1, <2>2 DEF Process
<1>8. QueueTypeOK' /\ BinTypeOK' /\ CtlTypeOK' /\ OutTypeOK'
  BY UnchangedTypes DEF Inv, Process
<1> QED
  BY <1>6, <1>7, <1>8 DEF Inv

\* A selected group is swapped in, or is left where it is.
LEMMA SwapInSelectedKeepsInv ==
    ASSUME Inv, NEW g \in Groups, SwapInSelected(g)
    PROVE  Inv'
<1> DEFINE c == IF IsPrefill(g) THEN 0 ELSE 1
           rest == [it EXCEPT !.selected = @ \ {g}]
           added == [it EXCEPT !.selected = @ \ {g}, !.scheduled = @ \cup {g},
                               !.chunk[g] = c]
<1>1. rest \in Iteration /\ added \in Iteration
  <2>1. it \in Iteration /\ c \in Int
    BY DEF Inv, CallTypeOK
  <2>2. it.selected \ {g} \in SUBSET Groups /\ it.scheduled \cup {g} \in SUBSET Groups
    BY <2>1 DEF Iteration
  <2> HIDE DEF c
  <2>3. rest \in Iteration
    BY <2>1, <2>2 DEF Iteration
  <2>4. added \in Iteration
    BY <2>1, <2>2 DEF Iteration
  <2> QED
    BY <2>3, <2>4
<1>2. CallTypeOK'
  BY <1>1, Zenon DEF Inv, SwapInSelected, CallTypeOK
<1>3. SeqTypeOK'
  BY DEF Inv, SwapInSelected, SeqTypeOK, Statuses
<1>4. MemSafe'
  <2>1. CASE CanSwapIn(g, SeqLen(g)) = "OK"
    BY <2>1, SwapInIsSafe DEF Inv, SwapInSelected
  <2>2. CASE CanSwapIn(g, SeqLen(g)) # "OK"
    BY <2>2, UnchangedIsSafe DEF Inv, SwapInSelected
  <2> QED
    BY <2>1, <2>2
<1>5. QueueTypeOK'
  BY DEF Inv, SwapInSelected, QueueTypeOK
<1>6. BinTypeOK' /\ CtlTypeOK' /\ OutTypeOK'
  BY UnchangedTypes DEF Inv, SwapInSelected
<1> QED
  BY <1>2, <1>3, <1>4, <1>5, <1>6 DEF Inv

\* A selected running group gets its slots, or is left over.
LEMMA RunSelectedKeepsInv ==
    ASSUME Inv, NEW g \in Groups, RunSelected(g)
    PROVE  Inv'
<1> DEFINE c == IF IsPrefill(g) THEN it.chunk[g] ELSE 1
           kept == [it EXCEPT !.selected = @ \ {g}, !.leftover = @ \cup {g}]
           added == [it EXCEPT !.selected = @ \ {g}, !.scheduled = @ \cup {g},
                               !.chunk[g] = c]
<1>1. kept \in Iteration /\ added \in Iteration
  <2>1. it \in Iteration /\ c \in Int
    BY DEF Inv, CallTypeOK, Iteration
  <2>2. /\ it.selected \ {g} \in SUBSET Groups
        /\ it.scheduled \cup {g} \in SUBSET Groups
        /\ it.leftover \cup {g} \in SUBSET Groups
    BY <2>1 DEF Iteration
  <2> HIDE DEF c
  <2>3. kept \in Iteration
    BY <2>1, <2>2 DEF Iteration
  <2>4. added \in Iteration
    BY <2>1, <2>2 DEF Iteration
  <2> QED
    BY <2>3, <2>4
<1>2. CallTypeOK'
  BY <1>1, Zenon DEF Inv, RunSelected, CallTypeOK
<1>3. MemSafe'
  <2>1. CASE CanAppendSlots(g, SeqLen(g))
    BY <2>1, AppendIsSafe DEF Inv, RunSelected, seqVars
  <2>2. CASE ~CanAppendSlots(g, SeqLen(g))
    BY <2>2, UnchangedIsSafe DEF Inv, RunSelected, seqVars
  <2> QED
    BY <2>1, <2>2
<1>4. /\ SeqTypeOK' /\ QueueTypeOK' /\ BinTypeOK' /\ CtlTypeOK' /\ OutTypeOK'
  BY UnchangedTypes DEF Inv, RunSelected
<1> QED
  BY <1>2, <1>3, <1>4 DEF Inv

\* A selected waiting group is allocated with a chunk that takes what is left
\* of the budget, or goes on waiting.
LEMMA PrefillSelectedKeepsInv ==
    ASSUME Inv, NEW g \in Groups, PrefillSelected(g)
    PROVE  Inv'
<1> DEFINE n == it.chunk[g]
           add == IF RemainingTokens > 0
                  THEN Min2(NumUncomputed(g) - n, RemainingTokens) ELSE 0
           rest == [it EXCEPT !.selected = @ \ {g}, !.tokens = @ + add]
           added == [rest EXCEPT !.scheduled = @ \cup {g}, !.chunk[g] = n + add]
<1>1. n \in Int /\ add \in Int
  <2>1. n \in Int
    BY DEF Inv, CallTypeOK, Iteration
  <2>2. RemainingTokens \in Int
    BY SchedulerAssumption DEF Inv, CallTypeOK, RemainingTokens, Iteration
  <2>3. NumUncomputed(g) \in Int
    BY SeqLenNat DEF Inv
  <2> QED
    BY <2>1, <2>2, <2>3 DEF Min2
<1>2. rest \in Iteration
  <2>1. it.selected \ {g} \in SUBSET Groups /\ it.tokens + add \in Int
    BY <1>1 DEF Inv, CallTypeOK, Iteration
  <2> HIDE DEF add
  <2> QED
    BY <2>1 DEF Inv, CallTypeOK, Iteration
<1>3. added \in Iteration
  <2> HIDE DEF rest, n, add
  <2>1. rest.scheduled \cup {g} \in SUBSET Groups /\ n + add \in Int
    BY <1>1, <1>2 DEF Iteration
  <2> QED
    BY <1>2, <2>1 DEF Iteration
<1>4. CallTypeOK'
  <2>1. it' \in {rest, added} /\ pc' = pc
    BY DEF PrefillSelected
  <2> QED
    BY <1>2, <1>3, <2>1 DEF Inv, CallTypeOK
<1>5. SeqTypeOK'
  BY DEF Inv, PrefillSelected, SeqTypeOK, Statuses
<1>6. MemSafe'
  <2>1. CASE CanAllocate(SeqLen(g)) = "OK"
    BY <2>1, AllocateIsSafe DEF Inv, PrefillSelected
  <2>2. CASE CanAllocate(SeqLen(g)) # "OK"
    BY <2>2, UnchangedIsSafe DEF Inv, PrefillSelected
  <2> QED
    BY <2>1, <2>2
<1>7. QueueTypeOK'
  BY DEF Inv, PrefillSelected, QueueTypeOK
<1>8. BinTypeOK' /\ CtlTypeOK' /\ OutTypeOK'
  BY UnchangedTypes DEF Inv, PrefillSelected
<1> QED
  BY <1>4, <1>5, <1>6, <1>7, <1>8 DEF Inv

\* The next running group is left over, stopped or a candidate.
LEMMA RunNextKeepsInv ==
    ASSUME Inv, NEW g \in Groups, RunNext(g)
    PROVE  Inv'
<1> DEFINE n == NumNewTokens(g, "running")
           rest == [it EXCEPT !.todo = @ \ {g}]
           kept == [rest EXCEPT !.leftover = @ \cup {g}]
           next == [rest EXCEPT !.cand = g, !.chunk[g] = n]
<1>1. n \in Int /\ rest \in Iteration
  <2>1. n \in Int
    BY NumNewTokensInt DEF Inv, CallTypeOK
  <2>2. rest \in Iteration
    BY DEF Inv, CallTypeOK, Iteration
  <2> QED
    BY <2>1, <2>2
<1>2. kept \in Iteration /\ next \in Iteration
  <2>1. rest.leftover \cup {g} \in SUBSET Groups
    BY <1>1 DEF Iteration
  <2> HIDE DEF rest, n
  <2> QED
    BY <1>1, <2>1 DEF Iteration
<1>3. CallTypeOK'
  <2>1. it' \in {rest, kept, next} /\ pc' = pc
    BY DEF RunNext
  <2> QED
    BY <1>1, <1>2, <2>1 DEF Inv, CallTypeOK
<1>4. SeqTypeOK' /\ QueueTypeOK'
  BY DEF Inv, RunNext, SeqTypeOK, QueueTypeOK, Statuses, Finished
<1>5. MemSafe'
  BY UnchangedIsSafe DEF Inv, RunNext
<1>6. BinTypeOK' /\ CtlTypeOK' /\ OutTypeOK'
  BY UnchangedTypes DEF Inv, RunNext
<1> QED
  BY <1>3, <1>4, <1>5, <1>6 DEF Inv

\* The candidate gets its slots.
LEMMA RunFitsKeepsInv ==
    ASSUME Inv, RunFits
    PROVE  Inv'
<1>1. it \in Iteration /\ it.cand \in Groups
  BY DEF Inv, RunFits, CallTypeOK, Iteration
<1>2. CallTypeOK'
  <2>1. /\ it.scheduled \cup {it.cand} \in SUBSET Groups
        /\ it.tokens + it.chunk[it.cand] \in Int /\ it.seqs + 1 \in Int
    BY <1>1 DEF Iteration
  <2> QED
    BY <1>1, <2>1 DEF Inv, RunFits, CallTypeOK, Iteration
<1>3. MemSafe'
  BY <1>1, AppendIsSafe DEF Inv, RunFits, seqVars
<1>4. /\ SeqTypeOK' /\ QueueTypeOK' /\ BinTypeOK' /\ CtlTypeOK' /\ OutTypeOK'
  BY UnchangedTypes DEF Inv, RunFits
<1> QED
  BY <1>2, <1>3, <1>4 DEF Inv

\* The victim is finished by its pending output, or preempted.
LEMMA RunEvictsKeepsInv ==
    ASSUME Inv, NEW v \in Groups, RunEvicts(v)
    PROVE  Inv'
<1> DEFINE stops == AsyncOutput /\ v \in outputQueue /\ StopStatus(v) \in Finished
<1>1. it \in Iteration /\ WithoutVictim(v) \in Iteration
  BY WithoutVictimType DEF Inv, CallTypeOK
<1>2. CallTypeOK'
  <2>1. WithPreempted(WithoutVictim(v), v) \in Iteration
    BY <1>1, WithPreemptedType
  <2>2. it' \in {WithoutVictim(v), WithPreempted(WithoutVictim(v), v)} /\ pc' = pc
    BY DEF RunEvicts
  <2> QED
    BY <1>1, <2>1, <2>2 DEF Inv, CallTypeOK
<1>3. SeqTypeOK' /\ MemSafe'
  <2>1. CASE stops
    <3>1. MemSafe'
      BY <2>1, FreeIsSafe DEF Inv, RunEvicts
    <3>2. StopStatus(v) \in Statuses
      BY StopStatusType DEF Inv
    <3> QED
      BY <2>1, <3>1, <3>2 DEF Inv, RunEvicts, SeqTypeOK
  <2>2. CASE ~stops
    BY <2>2, PreemptIsSafe DEF Inv, RunEvicts
  <2> QED
    BY <2>1, <2>2
<1>4. OutTypeOK'
  BY DEF Inv, RunEvicts, OutTypeOK
<1>5. QueueTypeOK' /\ BinTypeOK' /\ CtlTypeOK'
  BY UnchangedTypes DEF Inv, RunEvicts
<1> QED
  BY <1>2, <1>3, <1>4, <1>5 DEF Inv

\* A swapped-out group is swapped in, dropped, or goes on waiting.
LEMMA SwapInNextKeepsInv ==
    ASSUME Inv, NEW g \in Groups, SwapInNext(g)
    PROVE  Inv'
<1> DEFINE n == NumNewTokens(g, "swapped")
           rest == [it EXCEPT !.todo = @ \ {g}]
           ended == [it EXCEPT !.todo = {}]
           dropped == [rest EXCEPT !.ignored = @ \cup {g}]
           added == [rest EXCEPT !.scheduled = @ \cup {g}, !.chunk[g] = n,
                                 !.tokens = @ + n, !.seqs = @ + 1]
<1>1. n \in Int /\ rest \in Iteration /\ ended \in Iteration
  <2>1. n \in Int
    BY NumNewTokensInt DEF Inv, CallTypeOK
  <2>2. rest \in Iteration
    BY DEF Inv, CallTypeOK, Iteration
  <2>3. ended \in Iteration
    BY DEF Inv, CallTypeOK, Iteration
  <2> QED
    BY <2>1, <2>2, <2>3
<1>2. dropped \in Iteration /\ added \in Iteration
  <2> HIDE DEF n, rest
  <2>1. /\ rest.ignored \cup {g} \in SUBSET Groups
        /\ rest.scheduled \cup {g} \in SUBSET Groups
    BY <1>1 DEF Iteration
  <2>2. rest.tokens + n \in Int /\ rest.seqs + 1 \in Int
    BY <1>1 DEF Iteration
  <2>3. dropped \in Iteration
    BY <1>1, <2>1 DEF Iteration
  <2>4. added \in Iteration
    BY <1>1, <2>1, <2>2 DEF Iteration
  <2> QED
    BY <2>3, <2>4
<1>3. CallTypeOK'
  <2>1. it' \in {rest, ended, dropped, added} /\ pc' = pc
    BY DEF SwapInNext
  <2> QED
    BY <1>1, <1>2, <2>1 DEF Inv, CallTypeOK
<1>4. SeqTypeOK' /\ QueueTypeOK'
  BY DEF Inv, SwapInNext, SeqTypeOK, QueueTypeOK, Statuses, Finished
<1>5. MemSafe'
  <2>1. CASE UNCHANGED memVars
    BY <2>1, UnchangedIsSafe DEF Inv, SwapInNext
  <2>2. CASE Free(g)
    BY <2>2, FreeIsSafe DEF Inv, SwapInNext
  <2>3. CASE /\ n > 0 /\ SwapInStatus(g) = "OK"
             /\ SwapInAndAppend(g, SeqLen(g))
    <3>1. status[g] = "swapped"
      BY <2>3 DEF NumNewTokens
    <3>2. CanSwapIn(g, SeqLen(g)) = "OK"
      BY <2>3, <3>1 DEF SwapInStatus
    <3> QED
      BY <2>3, <3>2, SwapInIsSafe DEF Inv, SwapInNext
  <2> QED
    BY <2>1, <2>2, <2>3 DEF SwapInNext
<1>6. BinTypeOK' /\ CtlTypeOK' /\ OutTypeOK'
  BY UnchangedTypes DEF Inv, SwapInNext
<1> QED
  BY <1>3, <1>4, <1>5, <1>6 DEF Inv

\* A waiting group is admitted, dropped, or goes on waiting.
LEMMA PrefillNextKeepsInv ==
    ASSUME Inv, NEW g \in Groups, PrefillNext(g)
    PROVE  Inv'
<1> DEFINE n == NumNewTokens(g, "waiting")
           ended == [it EXCEPT !.todo = {}]
           dropped == [it EXCEPT !.todo = @ \ {g}, !.ignored = @ \cup {g}]
           added == [it EXCEPT !.todo = @ \ {g}, !.scheduled = @ \cup {g},
                               !.chunk[g] = n, !.tokens = @ + n, !.seqs = @ + 1]
<1>1. ended \in Iteration /\ dropped \in Iteration /\ added \in Iteration
  <2>1. it \in Iteration /\ n \in Int
    BY NumNewTokensInt DEF Inv, CallTypeOK
  <2> HIDE DEF n
  <2>2. /\ it.todo \ {g} \in SUBSET Groups
        /\ it.ignored \cup {g} \in SUBSET Groups
        /\ it.scheduled \cup {g} \in SUBSET Groups
    BY <2>1 DEF Iteration
  <2>3. it.tokens + n \in Int /\ it.seqs + 1 \in Int
    BY <2>1 DEF Iteration
  <2>4. ended \in Iteration
    BY <2>1 DEF Iteration
  <2>5. dropped \in Iteration
    BY <2>1, <2>2 DEF Iteration
  <2>6. added \in Iteration
    BY <2>1, <2>2, <2>3 DEF Iteration
  <2> QED
    BY <2>4, <2>5, <2>6
<1>2. CallTypeOK'
  <2>1. it' \in {ended, dropped, added} /\ pc' = pc
    BY DEF PrefillNext
  <2> QED
    BY <1>1, <2>1 DEF Inv, CallTypeOK
<1>3. SeqTypeOK' /\ QueueTypeOK'
  BY DEF Inv, PrefillNext, SeqTypeOK, QueueTypeOK, Statuses, Finished
<1>4. MemSafe'
  <2>1. CASE UNCHANGED memVars
    BY <2>1, UnchangedIsSafe DEF Inv, PrefillNext
  <2>2. CASE CanAllocate(SeqLen(g)) = "OK" /\ Allocate(g, SeqLen(g))
    BY <2>2, AllocateIsSafe DEF Inv, PrefillNext
  <2> QED
    BY <2>1, <2>2 DEF PrefillNext
<1>5. BinTypeOK' /\ CtlTypeOK' /\ OutTypeOK'
  BY UnchangedTypes DEF Inv, PrefillNext
<1> QED
  BY <1>2, <1>3, <1>4, <1>5 DEF Inv

\* The queues are rebuilt; the count of dull calls stays under its limit.
LEMMA CommitKeepsInv ==
    ASSUME Inv, Commit
    PROVE  Inv'
<1>1. it \in Iteration
  BY DEF Inv, CallTypeOK
<1>2. QueueTypeOK'
  BY <1>1 DEF Inv, Commit, NewRunning, QueueTypeOK, Iteration
<1>3. CallTypeOK'
  BY <1>1, <1>2 DEF Inv, Commit, CallTypeOK, QueueTypeOK, Iteration
<1>4. CtlTypeOK'
  BY SchedulerAssumption DEF Inv, Commit, CtlTypeOK, DullAborts
<1>5. SeqTypeOK' /\ MemSafe' /\ BinTypeOK' /\ OutTypeOK'
  BY UnchangedTypes, UnchangedIsSafe DEF Inv, Commit, seqVars
<1> QED
  BY <1>2, <1>3, <1>4, <1>5 DEF Inv

\* A pending group is given up.
LEMMA DullAbortKeepsInv ==
    ASSUME Inv, NEW g \in Groups, DullAbort(g)
    PROVE  Inv'
<1>1. CallTypeOK'
  <2>1. it \in Iteration
    BY DEF Inv, CallTypeOK
  <2>2. it.todo \ {g} \in SUBSET Groups /\ it.ignored \cup {g} \in SUBSET Groups
    BY <2>1 DEF Iteration
  <2> QED
    BY <2>1, <2>2 DEF Inv, DullAbort, CallTypeOK, Iteration
<1>2. SeqTypeOK' /\ QueueTypeOK'
  BY DEF Inv, DullAbort, SeqTypeOK, QueueTypeOK, Statuses, Finished
<1>3. MemSafe'
  BY FreeIsSafe DEF Inv, DullAbort
<1>4. BinTypeOK' /\ CtlTypeOK' /\ OutTypeOK'
  BY UnchangedTypes DEF Inv, DullAbort
<1> QED
  BY <1>1, <1>2, <1>3, <1>4 DEF Inv

\* A group gets a token, for which its table need not have a slot yet.
LEMMA AdvanceKeepsInv ==
    ASSUME Inv, NEW g \in Groups, Advance(g)
    PROVE  Inv'
<1>1. CallTypeOK'
  BY DEF Inv, Advance, CallTypeOK, Iteration
<1>2. SeqTypeOK'
  <2>1. it.chunk[g] \in Int
    BY DEF Inv, CallTypeOK, Iteration
  <2> QED
    BY <2>1 DEF Inv, Advance, SeqTypeOK
<1>3. MemSafe'
  <2>1. MemTypeOK' /\ PoolsSuffice'
    BY DEF Inv, MemSafe, Advance, MemTypeOK, PoolsSuffice, memVars
  <2>2. ASSUME NEW h \in Groups PROVE slots'[h] <= SeqLen(h)'
    <3>1. outLen[h] \in Nat /\ outLen'[h] \in {outLen[h], outLen[h] + 1}
      BY DEF Inv, SeqTypeOK, Advance
    <3>2. PromptLen[h] \in Nat /\ slots[h] \in Nat /\ slots'[h] = slots[h]
          /\ slots[h] <= PromptLen[h] + outLen[h]
      BY SchedulerAssumption
      DEF Inv, MemSafe, MemTypeOK, SlotsFit, SeqLen, Advance, memVars
    <3> QED
      BY <3>1, <3>2 DEF SeqLen
  <2> QED
    BY <2>1, <2>2 DEF MemSafe, SlotsFit
<1>4. OutTypeOK'
  BY DEF Inv, Advance, OutTypeOK
<1>5. QueueTypeOK' /\ BinTypeOK' /\ CtlTypeOK'
  BY UnchangedTypes DEF Inv, Advance
<1> QED
  BY <1>1, <1>2, <1>3, <1>4, <1>5 DEF Inv

\* An output is processed, and may finish its group.
LEMMA ProcessOutputKeepsInv ==
    ASSUME Inv, NEW g \in Groups, ProcessOutput(g)
    PROVE  Inv'
<1> DEFINE stops == ~IsFinished(g) /\ StopStatus(g) \in Finished
<1>1. CallTypeOK'
  <2>1. [it EXCEPT !.finished = TRUE] \in Iteration
    BY DEF Inv, CallTypeOK, Iteration
  <2>2. it' \in {it, [it EXCEPT !.finished = TRUE]} /\ pc' = pc
    BY DEF ProcessOutput
  <2> QED
    BY <2>1, <2>2 DEF Inv, CallTypeOK
<1>2. SeqTypeOK'
  BY StopStatusType DEF Inv, ProcessOutput, SeqTypeOK
<1>3. MemSafe'
  <2>1. CASE stops
    BY <2>1, FreeIsSafe DEF Inv, ProcessOutput
  <2>2. CASE ~stops
    BY <2>2, UnchangedIsSafe DEF Inv, ProcessOutput
  <2> QED
    BY <2>1, <2>2
<1>4. OutTypeOK'
  BY DEF Inv, ProcessOutput, OutTypeOK
<1>5. QueueTypeOK' /\ BinTypeOK' /\ CtlTypeOK'
  BY UnchangedTypes DEF Inv, ProcessOutput
<1> QED
  BY <1>1, <1>2, <1>3, <1>4, <1>5 DEF Inv

\* The bins are cut anew: the one to execute is not empty, so it has bounds.
LEMMA RecomputeBinsTypes ==
    ASSUME Inv, ~SlidingWindow, RecomputeBins
    PROVE  BinTypeOK'
<1> DEFINE TypedBins == /\ currentBin' \in SUBSET Groups
                        /\ pendingSwapOut' \in SUBSET Groups
                        /\ bounds' \in [lo : Int, hi : Int, last : BOOLEAN]
<1>0. Queued \in SUBSET Groups
  BY DEF Inv, QueueTypeOK, Queued
<1>1. PICK top \in kSubset(Min2(Cardinality(Queued), maxNumSeqs * TopK), Queued) :
        LET n == Cardinality(top)
            size == Max2(maxNumSeqs, n \div TopK)
        IN \E i \in 1..((n + size - 1) \div size) :
             LET first == (i - 1) * size + 1
                 last == Min2(i * size, n)
                 left == IF i > 1 /\ last - first + 1 < maxNumSeqs
                         THEN first - size ELSE first
             IN \E window \in Slices(top, left, last) :
                  SwitchTo(window, Max(Lengths(window)) = Max(Lengths(top)))
  BY DEF RecomputeBins
<1> DEFINE n == Cardinality(top)
           size == Max2(maxNumSeqs, n \div TopK)
<1>2. top \in SUBSET Groups
  BY <1>0 DEF kSubset
<1>3. n \in Nat /\ size \in Nat \ {0}
  <2>1. n \in Nat
    BY <1>2, GroupsFinite
  <2>2. n \div TopK \in Int
    BY <2>1, SchedulerAssumption
  <2>3. maxNumSeqs \in Nat \ {0}
    BY SchedulerAssumption DEF Inv, CtlTypeOK
  <2> QED
    BY <2>1, <2>2, <2>3 DEF Max2
<1>4. PICK i \in 1..((n + size - 1) \div size) :
        LET first == (i - 1) * size + 1
            last == Min2(i * size, n)
            left == IF i > 1 /\ last - first + 1 < maxNumSeqs
                    THEN first - size ELSE first
        IN \E window \in Slices(top, left, last) :
             SwitchTo(window, Max(Lengths(window)) = Max(Lengths(top)))
  BY <1>1
<1> DEFINE first == (i - 1) * size + 1
           last == Min2(i * size, n)
           left == IF i > 1 /\ last - first + 1 < maxNumSeqs
                   THEN first - size ELSE first
<1>5. PICK window \in Slices(top, left, last) :
        SwitchTo(window, Max(Lengths(window)) = Max(Lengths(top)))
  BY <1>4
<1>6. left \in Int /\ last \in Int /\ left <= last
  <2>1. first \in Int /\ last \in Int /\ first <= last
    <3> HIDE DEF n, size
    <3> QED
      BY <1>3, BinPlaces
  <2> HIDE DEF n, size, first, last
  <2> QED
    BY <1>3, <2>1
<1>7. window \in SUBSET Groups /\ window # {}
  <2> HIDE DEF left, last
  <2> QED
    BY <1>2, <1>5, <1>6, SliceType
<1>8. TypedBins
  BY <1>5, <1>7, SwitchToType DEF Inv
<1> QED
  BY <1>8 DEF BinTypeOK, RecomputeBins

\* So is the window that is to be executed.
LEMMA RecomputeSlidingWindowTypes ==
    ASSUME Inv, Queued # {}, RecomputeSlidingWindow
    PROVE  BinTypeOK'
<1> DEFINE TypedBins == /\ currentBin' \in SUBSET Groups
                        /\ pendingSwapOut' \in SUBSET Groups
                        /\ bounds' \in [lo : Int, hi : Int, last : BOOLEAN]
<1>0. Queued \in SUBSET Groups
  BY DEF Inv, QueueTypeOK, Queued
<1>1. PICK top \in kSubset(Min2(Cardinality(Queued), MaxNumSeqs * TopK), Queued) :
        IF Cardinality(top) >= MaxNumSeqs
        THEN \E i \in 1..(Cardinality(top) - MaxNumSeqs + 1) :
               \E window \in Slices(top, i, i + MaxNumSeqs - 1) :
                 SwitchTo(window, TRUE)
        ELSE SwitchTo(top, TRUE)
  BY DEF RecomputeSlidingWindow
<1>2. top \in SUBSET Groups /\ top # {}
  <2>1. /\ top \in SUBSET Queued
        /\ Cardinality(top) = Min2(Cardinality(Queued), MaxNumSeqs * TopK)
    BY DEF kSubset
  <2>2. Cardinality(Queued) \in Nat \ {0}
    BY <1>0, GroupsFinite, FS_EmptySet
  <2>3. MaxNumSeqs * TopK \in Nat \ {0}
    BY SchedulerAssumption, SMT
  <2>4. Cardinality(top) # 0
    BY <2>1, <2>2, <2>3 DEF Min2
  <2> QED
    BY <1>0, <2>1, <2>4, FS_EmptySet
<1>3. PICK window \in SUBSET Groups : window # {} /\ SwitchTo(window, TRUE)
  <2>1. CASE Cardinality(top) >= MaxNumSeqs
    <3>1. PICK i \in 1..(Cardinality(top) - MaxNumSeqs + 1) :
            \E window \in Slices(top, i, i + MaxNumSeqs - 1) :
              SwitchTo(window, TRUE)
      BY <1>1, <2>1
    <3>2. PICK window \in Slices(top, i, i + MaxNumSeqs - 1) :
            SwitchTo(window, TRUE)
      BY <3>1
    <3>3. i \in Int /\ i + MaxNumSeqs - 1 \in Int /\ i <= i + MaxNumSeqs - 1
      BY SchedulerAssumption
    <3> QED
      BY <1>2, <3>2, <3>3, SliceType
  <2>2. CASE ~(Cardinality(top) >= MaxNumSeqs)
    BY <1>1, <1>2, <2>2
  <2> QED
    BY <2>1, <2>2
<1>4. TypedBins
  BY <1>3, SwitchToType DEF Inv
<1> QED
  BY <1>4 DEF Inv, BinTypeOK, RecomputeSlidingWindow

\* The bin is chosen.
LEMMA ChooseBinKeepsInv ==
    ASSUME Inv, ChooseBin
    PROVE  Inv'
<1>1. BinTypeOK'
  <2>1. ASSUME KeepBins PROVE BinTypeOK'
    BY <2>1 DEF Inv, KeepBins, BinTypeOK, QueueTypeOK
  <2>2. ASSUME ClearBins PROVE BinTypeOK'
    BY <2>2 DEF Inv, ClearBins, BinTypeOK
  <2> QED
    BY <2>1, <2>2, RecomputeBinsTypes, RecomputeSlidingWindowTypes DEF ChooseBin
<1>2. CallTypeOK'
  BY DEF Inv, ChooseBin, CallTypeOK
<1>3. /\ SeqTypeOK' /\ MemSafe' /\ QueueTypeOK' /\ CtlTypeOK' /\ OutTypeOK'
  BY UnchangedTypes, UnchangedIsSafe DEF Inv, ChooseBin, seqVars
<1> QED
  BY <1>1, <1>2, <1>3 DEF Inv

\* The process list is built; the sliding window sets the batch size.
LEMMA BuildProcessListKeepsInv ==
    ASSUME Inv, BuildProcessList
    PROVE  Inv'
<1>1. PICK activate \in SUBSET currentBin, passed \in SUBSET currentBin,
           slow \in BOOLEAN :
        LET todo == activate \cup (running \ (it.swappedOut \cup it.preempted))
            cap == Max2(MaxNumSeqs, Cardinality(todo))
        IN /\ currentBin' = currentBin \ (activate \cup passed)
           /\ IF SlidingWindow
              THEN /\ maxNumSeqs' = IF slow THEN cap - MaxSwapsPerIter ELSE cap
                   /\ it' = [it EXCEPT !.todo = todo, !.seqCap = cap,
                                       !.quota = NumGpuBlocks - Watermark]
              ELSE /\ it' = [it EXCEPT !.todo = todo,
                                       !.quota = NumGpuBlocks - Watermark]
                   /\ UNCHANGED maxNumSeqs
  BY DEF BuildProcessList, kSubset
<1> DEFINE todo == activate \cup (running \ (it.swappedOut \cup it.preempted))
           cap == Max2(MaxNumSeqs, Cardinality(todo))
<1>2. todo \in SUBSET Groups
  BY DEF Inv, QueueTypeOK, BinTypeOK
<1>3. cap \in Int
  <2>1. Cardinality(todo) \in Int
    BY <1>2, GroupsFinite
  <2> QED
    BY <2>1, SchedulerAssumption DEF Max2
<1>4. CallTypeOK'
  <2>1. it \in Iteration /\ NumGpuBlocks - Watermark \in Int
    BY BlockAssumption DEF Inv, CallTypeOK
  <2>2. \/ it' = [it EXCEPT !.todo = todo, !.seqCap = cap,
                            !.quota = NumGpuBlocks - Watermark]
        \/ it' = [it EXCEPT !.todo = todo, !.quota = NumGpuBlocks - Watermark]
    BY <1>1
  <2> HIDE DEF todo, cap
  <2>3. it' \in Iteration
    <3>1. CASE it' = [it EXCEPT !.todo = todo, !.seqCap = cap,
                                !.quota = NumGpuBlocks - Watermark]
      BY <1>2, <1>3, <2>1, <3>1 DEF Iteration
    <3>2. CASE it' = [it EXCEPT !.todo = todo, !.quota = NumGpuBlocks - Watermark]
      BY <1>2, <2>1, <3>2 DEF Iteration
    <3> QED
      BY <2>2, <3>1, <3>2
  <2> QED
    BY <2>3 DEF BuildProcessList, CallTypeOK
<1>5. CtlTypeOK'
  <2>1. maxNumSeqs' \in IF SlidingWindow THEN Int ELSE {MaxNumSeqs}
    <3> HIDE DEF cap
    <3> QED
      BY <1>1, <1>3, SchedulerAssumption DEF Inv, CtlTypeOK, cap
  <2> QED
    BY <2>1 DEF Inv, BuildProcessList, CtlTypeOK
<1>6. BinTypeOK'
  BY DEF Inv, BuildProcessList, BinTypeOK
<1>7. SeqTypeOK' /\ MemSafe' /\ QueueTypeOK' /\ OutTypeOK'
  BY UnchangedTypes, UnchangedIsSafe DEF Inv, BuildProcessList, seqVars
<1> QED
  BY <1>4, <1>5, <1>6, <1>7 DEF Inv

-----------------------------------------------------------------------------
(* The theorems.                                                           *)

\* The scheduler starts with empty queues and full pools.
LEMMA InitInv == Init => Inv
<1> SUFFICES ASSUME Init PROVE Inv
  OBVIOUS
<1>1. SeqTypeOK
  BY DEF Init, SeqTypeOK, Statuses
<1>2. QueueTypeOK /\ OutTypeOK
  BY DEF Init, QueueTypeOK, OutTypeOK
<1>3. BinTypeOK
  <2>1. execOrder \in BOOLEAN
    BY Zenon DEF Init
  <2>2. [lo |-> 0, hi |-> 0, last |-> FALSE] \in [lo : Int, hi : Int, last : BOOLEAN]
    OBVIOUS
  <2> QED
    BY <2>1, <2>2, Zenon DEF Init, BinTypeOK
<1>4. CtlTypeOK
  <2>1. inProgress \in BOOLEAN /\ prevNoSwapSpace \in BOOLEAN
    BY Zenon DEF Init
  <2>2. 0 \in 0..(ScheduleInterval - 1) /\ 0 \in 0..(DullMaxIters - 1)
    BY SchedulerAssumption
  <2>3. MaxNumSeqs \in IF SlidingWindow THEN Int ELSE {MaxNumSeqs}
    BY SchedulerAssumption
  <2> QED
    BY <2>1, <2>2, <2>3, Zenon DEF Init, CtlTypeOK
<1>5. CallTypeOK
  BY NoIterationType DEF Init, CallTypeOK
<1>6. MemSafe
  <2>1. MemTypeOK /\ PoolsSuffice
    BY BlockAssumption DEF Init, MemInit, MemTypeOK, PoolsSuffice, Devices
  <2>2. ASSUME NEW g \in Groups PROVE slots[g] <= SeqLen(g)
    BY <1>1, SeqLenNat DEF Init, MemInit
  <2> QED
    BY <2>1, <2>2 DEF MemSafe, SlotsFit
<1> QED
  BY <1>1, <1>2, <1>3, <1>4, <1>5, <1>6 DEF Inv

\* Every step of the clients and of the engine preserves Inv.
LEMMA NextKeepsInv == Inv /\ [Next]_vars => Inv'
<1> SUFFICES ASSUME Inv, [Next]_vars PROVE Inv'
  OBVIOUS
<1>1. CASE UNCHANGED vars
  BY <1>1, UnchangedTypes, UnchangedIsSafe DEF Inv, vars, seqVars
<1>2. CASE Clients
  BY <1>2, AddSeqGroupKeepsInv, AbortSeqGroupKeepsInv DEF Clients
<1>3. CASE Engine
  <2>1. CASE \/ BeginSchedule \/ ChooseBin \/ BuildProcessList \/ EndProcess
             \/ EnterChunked \/ RunFits \/ EndRun \/ EndSwapIn
             \/ Commit \/ EndSchedule \/ EndAdvance \/ EndOutputs
    BY <2>1, BeginScheduleKeepsInv, ChooseBinKeepsInv,
       BuildProcessListKeepsInv, EndProcessKeepsInv, EnterChunkedKeepsInv,
       RunFitsKeepsInv, EndRunKeepsInv, EndSwapInKeepsInv, CommitKeepsInv,
       EndScheduleKeepsInv, EndAdvanceKeepsInv, EndOutputsKeepsInv
  <2>2. ASSUME NEW g \in Groups,
               \/ FreeStopped(g) \/ PreemptPending(g) \/ Process(g)
               \/ SwapInSelected(g) \/ RunSelected(g) \/ PrefillSelected(g)
               \/ RunNext(g) \/ RunEvicts(g) \/ SwapInNext(g) \/ PrefillNext(g)
               \/ DullAbort(g) \/ Advance(g) \/ ProcessOutput(g)
        PROVE  Inv'
    BY <2>2, FreeStoppedKeepsInv, PreemptPendingKeepsInv, ProcessKeepsInv,
       SwapInSelectedKeepsInv, RunSelectedKeepsInv, PrefillSelectedKeepsInv,
       RunNextKeepsInv, RunEvictsKeepsInv, SwapInNextKeepsInv,
       PrefillNextKeepsInv, DullAbortKeepsInv, AdvanceKeepsInv,
       ProcessOutputKeepsInv
  <2> QED
    BY <1>3, <2>1, <2>2 DEF Engine
<1>4. CASE WaitForRequests
  BY <1>1, <1>4 DEF WaitForRequests
<1> QED
  BY <1>1, <1>2, <1>3, <1>4 DEF Next

\* Inv holds of every reachable state.
THEOREM Invariance == Spec => []Inv
  BY InitInv, NextKeepsInv, PTL DEF Spec

\* Every variable keeps its type: queues and lists hold requests only, the
\* count of dull calls stays under its limit, and only the sliding window
\* changes the batch size.
THEOREM TypeCorrect == Spec => []TypeOK
<1>1. Inv => TypeOK
  BY DEF Inv, MemSafe, TypeOK
<1> QED
  BY <1>1, Invariance, PTL

\* No operation of the scheduler takes a block from an empty pool.
THEOREM NoFreeBlocksErrorNeverRaised == Spec => []PoolsSuffice
<1>1. Inv => PoolsSuffice
  BY DEF Inv, MemSafe
<1> QED
  BY <1>1, Invariance, PTL

-----------------------------------------------------------------------------
(* Operators.                                                              *)

\* The call in progress is a record.
LEMMA CallIsIteration ==
    ASSUME Inv
    PROVE  it \in Iteration
  BY DEF Inv, CallTypeOK

\* The length of a sequence and what is computed of it are numbers.
LEMMA LengthsAreInt ==
    ASSUME Inv, NEW g \in Groups
    PROVE  SeqLen(g) \in Nat /\ computed[g] \in Int /\ outLen[g] \in Nat
  BY SeqLenNat DEF Inv, SeqTypeOK

\* _get_num_new_tokens gives a group tokens only if it has the status asked
\* for, and no more than it lacks and the budget has left.
LEMMA NewTokensFit ==
    ASSUME Inv, NEW g \in Groups, CacheLinked(g),
           NEW st, st \notin Finished, NumNewTokens(g, st) > 0
    PROVE  /\ status[g] = st
           /\ computed[g] + NumNewTokens(g, st) <= SeqLen(g)
           /\ NumNewTokens(g, st) <= RemainingTokens
           /\ NumNewTokens(g, st) \in Nat
<1>1. RemainingTokens \in Int
  BY SchedulerAssumption, CallIsIteration DEF Iteration, RemainingTokens
<1>2. computed[g] + 1 <= SeqLen(g)
  BY LengthsAreInt DEF CacheLinked
<1>3. status[g] = st /\ ~IsFinished(g)
  BY DEF NumNewTokens, IsFinished
<1>4. NumUncomputed(g) = SeqLen(g) - computed[g]
  BY <1>3 DEF NumUncomputed
<1> QED
  BY <1>1, <1>2, <1>3, <1>4, LengthsAreInt DEF NumNewTokens, Min2

\* A group in the status asked for gets tokens while the budget has some left.
LEMMA NewTokensGiven ==
    ASSUME Inv, NEW g \in Groups, CacheLinked(g), ~IsFinished(g),
           RemainingTokens > 0
    PROVE  NumNewTokens(g, status[g]) > 0
<1>1. RemainingTokens \in Int
  BY SchedulerAssumption, CallIsIteration DEF Iteration, RemainingTokens
<1>2. NumUncomputed(g) = SeqLen(g) - computed[g]
  BY DEF NumUncomputed
<1> QED
  BY <1>1, <1>2, LengthsAreInt DEF NumNewTokens, Min2, CacheLinked

\* _preempt moves the table of a group to the CPU, or gives it up with what is
\* computed; the caller lists the group accordingly.
PreemptedFrom(r, g) ==
    \/ /\ it' = [r EXCEPT !.swappedOut = @ \cup {g}]
       /\ status' = [status EXCEPT ![g] = "swapped"]
       /\ device' = [device EXCEPT ![g] = "cpu"]
       /\ UNCHANGED <<stage, computed, slots>>
    \/ /\ it' = [r EXCEPT !.preempted = @ \cup {g}]
       /\ status' = [status EXCEPT ![g] = "waiting"]
       /\ device' = [device EXCEPT ![g] = "none"]
       /\ slots' = [slots EXCEPT ![g] = 0]
       /\ computed' = [computed EXCEPT ![g] = 0]
       /\ stage' = [stage EXCEPT ![g] = "prefill"]

LEMMA PreemptLists ==
    ASSUME NEW g, NEW r, Preempt(g), it' = WithPreempted(r, g)
    PROVE  PreemptedFrom(r, g)
  BY DEF Preempt, WithPreempted, PreemptedFrom, SwapOut, Free

\* What the first loop of the process list does with a group: it selects it,
\* passes it over, or preempts it.
ProcessSelects(g, n) ==
    /\ status[g] = QueueOf(g) /\ computed[g] + n <= SeqLen(g)
    /\ n > 0 /\ CanSchedule(n)
    /\ \E q \in Int : it' = [it EXCEPT !.todo = @ \ {g},
                               !.selected = @ \cup {g}, !.chunk[g] = n,
                               !.tokens = @ + n, !.seqs = @ + 1, !.quota = q]
    /\ UNCHANGED <<status, stage, computed, memVars>>

ProcessPasses(g) ==
    /\ QueueOf(g) = "running" /\ status[g] = "running" => RemainingTokens <= 0
    /\ \E b \in BOOLEAN : it' = [it EXCEPT !.todo = @ \ {g}, !.stop = b]
    /\ UNCHANGED <<status, stage, computed, memVars>>

ProcessPreempts(g) ==
    /\ status[g] = "running" /\ g \in running
    /\ PreemptedFrom([it EXCEPT !.todo = @ \ {g}, !.stop = TRUE], g)
    /\ Preempt(g)

LEMMA ProcessOutcomes ==
    ASSUME Inv, NEW g \in Groups, CacheLinked(g), Process(g)
    PROVE  \/ \E n \in 1..2 : ProcessSelects(g, n)
           \/ ProcessPasses(g)
           \/ ProcessPreempts(g)
<1> DEFINE new == NumNewTokens(g, QueueOf(g))
           n == IF IsPrefill(g) THEN Min2(new, 2) ELSE new
           rest == [it EXCEPT !.todo = @ \ {g}]
           stopped == [rest EXCEPT !.stop = TRUE]
           passed == [rest EXCEPT !.stop = \/ @
                                           \/ n > 0
                                           \/ /\ QueueOf(g) # "none"
                                              /\ NumUncomputed(g) > 0]
           chosen == [rest EXCEPT !.selected = @ \cup {g}, !.chunk[g] = n,
                                  !.tokens = @ + n, !.seqs = @ + 1,
                                  !.quota = @ - NumBlocksNumber(g)]
           Selects == /\ n > 0 /\ CanSchedule(n) /\ it' = chosen
                      /\ UNCHANGED <<status, stage, computed, memVars>>
           Passes == /\ it' = passed /\ ~(QueueOf(g) = "running" /\ n > 0)
                     /\ UNCHANGED <<status, stage, computed, memVars>>
           Preempts == /\ QueueOf(g) = "running" /\ n > 0
                       /\ it' = WithPreempted(stopped, g) /\ Preempt(g)
<1>1. new \in Int /\ n \in Int /\ NumBlocksNumber(g) \in Int
  <2>1. new \in Int
    BY NumNewTokensInt DEF Inv, CallTypeOK
  <2>2. NumBlocksNumber(g) \in Int
    BY NumBlocksInt DEF Inv, MemSafe
  <2> QED
    BY <2>1, <2>2 DEF Min2
<1>2. QueueOf(g) \notin Finished
  BY DEF QueueOf, Finished
<1>3. n > 0 => n \in 1..2 /\ status[g] = QueueOf(g)
                 /\ computed[g] + n <= SeqLen(g)
  <2>1. n > 0 => new > 0 /\ n <= new
    BY <1>1 DEF Min2
  <2>2. n <= 2
    BY <1>1, SchedulerAssumption, CallIsIteration
    DEF Min2, NumNewTokens, RemainingTokens, Iteration
  <2> QED
    BY <1>1, <1>2, <2>1, <2>2, NewTokensFit, LengthsAreInt
<1>4. QueueOf(g) = "running" /\ status[g] = "running" /\ n <= 0
        => RemainingTokens <= 0
  <2>1. RemainingTokens \in Int
    BY SchedulerAssumption, CallIsIteration DEF Iteration, RemainingTokens
  <2>2. status[g] = "running" => ~IsFinished(g)
    BY DEF IsFinished, Finished
  <2> QED
    BY <1>1, <2>1, <2>2, NewTokensGiven DEF Min2
<1>5. Selects \/ Passes \/ Preempts
  BY DEF Process
<1> HIDE DEF n
<1>6. CASE Selects
  <2>1. it.quota - NumBlocksNumber(g) \in Int
    BY <1>1, CallIsIteration DEF Iteration
  <2>2. it' = [it EXCEPT !.todo = @ \ {g},
                         !.selected = @ \cup {g}, !.chunk[g] = n,
                         !.tokens = @ + n, !.seqs = @ + 1,
                         !.quota = it.quota - NumBlocksNumber(g)]
    BY <1>6, CallIsIteration DEF Iteration
  <2> QED
    BY <1>3, <1>6, <2>1, <2>2 DEF ProcessSelects
<1>7. CASE Passes
  <2>1. \E b \in BOOLEAN : it' = [rest EXCEPT !.stop = b]
    BY <1>7, CallIsIteration DEF Iteration
  <2>2. \E b \in BOOLEAN : it' = [it EXCEPT !.todo = @ \ {g}, !.stop = b]
    BY <2>1, CallIsIteration DEF Iteration
  <2>3. QueueOf(g) = "running" /\ status[g] = "running"
          => RemainingTokens <= 0
    BY <1>1, <1>4, <1>7
  <2> QED
    BY <1>7, <2>2, <2>3, Zenon DEF ProcessPasses
<1>8. CASE Preempts
  <2>1. stopped = [it EXCEPT !.todo = @ \ {g}, !.stop = TRUE]
    BY CallIsIteration DEF Iteration
  <2>2. g \in running /\ status[g] = "running"
    BY <1>3, <1>8 DEF QueueOf
  <2> QED
    BY <1>8, <2>1, <2>2, PreemptLists DEF ProcessPreempts
<1> QED
  BY <1>5, <1>6, <1>7, <1>8

-----------------------------------------------------------------------------
(* Steps about one group.                                                  *)

\* A group that a step leaves as it is stays linked.
LEMMA OthersLinked ==
    ASSUME NEW h \in Groups, GroupLinked(h), Untouched(h), pc' = pc
    PROVE  GroupLinked(h)'
<1>1. TableLinked(h)' /\ CacheLinked(h)'
  BY DEF GroupLinked, Untouched, TableLinked, CacheLinked, SeqLen, IsPrefill
<1>2. QueuesLinked(h)'
  BY DEF GroupLinked, Untouched, QueuesLinked, Scheduling, IsFinished
<1>3. ResultsLinked(h)'
  BY
  DEF GroupLinked, Untouched, ResultsLinked, Scheduling, Deciding, IsFinished,
      Planned, ChunkFits, SeqLen
<1>4. SelectedLinked(h)' /\ CandidateLinked(h)'
  BY
  DEF GroupLinked, Untouched, SelectedLinked, CandidateLinked, ChunkFits,
      SeqLen
<1>5. TodoLinked(h)'
  BY
  DEF GroupLinked, Untouched, TodoLinked, Planned, IsFinished, ChunkFits,
      SeqLen
<1> QED
  BY <1>1, <1>2, <1>3, <1>4, <1>5 DEF GroupLinked

\* So only the group itself has to be looked at.
LEMMA LocalKeepsLinked ==
    ASSUME Linked, NEW g \in Groups, Local(g), GroupLinked(g)'
    PROVE  Linked'
  BY OthersLinked DEF Linked, Local

\* _preempt is about one group.
LEMMA PreemptIsLocal ==
    ASSUME Inv, NEW g \in Groups, NEW r \in Iteration, PreemptedFrom(r, g),
           NEW h \in Groups \ {g}
    PROVE  /\ status'[h] = status[h] /\ stage'[h] = stage[h]
           /\ computed'[h] = computed[h]
           /\ device'[h] = device[h] /\ slots'[h] = slots[h]
           /\ h \in it'.preempted <=> h \in r.preempted
           /\ h \in it'.swappedOut <=> h \in r.swappedOut
           /\ it'.todo = r.todo /\ it'.selected = r.selected
           /\ it'.scheduled = r.scheduled /\ it'.leftover = r.leftover
           /\ it'.ignored = r.ignored
           /\ it'.cand = r.cand /\ it'.chunk = r.chunk
  BY DEF Inv, SeqTypeOK, MemSafe, MemTypeOK, PreemptedFrom, Iteration

\* Clients concern themselves with one request each.
LEMMA AddSeqGroupIsLocal ==
    ASSUME Inv, NEW g \in Groups, AddSeqGroup(g)
    PROVE  Local(g)
  BY
  DEF Inv, SeqTypeOK, AddSeqGroup, Local, Untouched, memVars, binVars, outVars

LEMMA AbortSeqGroupIsLocal ==
    ASSUME Inv, NEW g \in Groups, AbortSeqGroup(g)
    PROVE  Local(g)
<1>1. ASSUME NEW h \in Groups \ {g} PROVE Untouched(h)
  BY
  DEF Inv, SeqTypeOK, MemSafe, MemTypeOK, AbortSeqGroup, Untouched, memVars,
      binVars, Free
<1> QED
  BY <1>1 DEF Local, AbortSeqGroup

LEMMA FreeStoppedIsLocal ==
    ASSUME Inv, NEW g \in Groups, FreeStopped(g)
    PROVE  Local(g)
  BY
  DEF Inv, MemSafe, MemTypeOK, FreeStopped, Free, Local, Untouched, seqVars,
      binVars, outVars

\* What _preempt_pending does with a group: nothing, a count, or _preempt.
PendingPreempts(g) ==
    /\ g \in running /\ ~IsFinished(g)
    /\ PreemptedFrom([it EXCEPT !.swaps = @ + 1], g)
    /\ Preempt(g)

LEMMA PreemptPendingOutcomes ==
    ASSUME Inv, NEW g \in Groups, PreemptPending(g)
    PROVE  \/ UNCHANGED <<status, stage, computed, memVars, it>>
           \/ /\ it' = [it EXCEPT !.swaps = @ + 1]
              /\ UNCHANGED <<status, stage, computed, memVars>>
           \/ PendingPreempts(g)
  BY PreemptLists DEF PreemptPending, PendingPreempts

LEMMA PreemptPendingIsLocal ==
    ASSUME Inv, NEW g \in Groups, PreemptPending(g)
    PROVE  Local(g)
<1> SUFFICES ASSUME NEW h \in Groups \ {g} PROVE Untouched(h)
  BY DEF Local, PreemptPending
<1>1. UNCHANGED <<outLen, queueVars, outVars>> /\ pendingSwapOut' = pendingSwapOut \ {g}
  BY DEF PreemptPending
<1>2. CASE UNCHANGED <<status, stage, computed, memVars, it>>
  BY <1>1, <1>2 DEF Untouched, memVars, queueVars, outVars
<1>3. CASE /\ it' = [it EXCEPT !.swaps = @ + 1]
           /\ UNCHANGED <<status, stage, computed, memVars>>
  BY <1>1, <1>3, CallIsIteration
  DEF Untouched, memVars, queueVars, outVars, Iteration
<1>4. CASE PendingPreempts(g)
  <2>1. [it EXCEPT !.swaps = @ + 1] \in Iteration
    BY CallIsIteration DEF Iteration
  <2> QED
    BY <1>1, <1>4, <2>1, CallIsIteration, PreemptIsLocal
    DEF PendingPreempts, Untouched, queueVars, outVars, Iteration
<1> QED
  BY <1>2, <1>3, <1>4, PreemptPendingOutcomes

LEMMA ProcessIsLocal ==
    ASSUME Inv, Linked, NEW g \in Groups, Process(g)
    PROVE  Local(g)
<1> SUFFICES ASSUME NEW h \in Groups \ {g} PROVE Untouched(h)
  BY DEF Local, Process
<1>1. UNCHANGED <<outLen, queueVars, binVars, outVars>>
  BY DEF Process
<1>2. ASSUME NEW n \in 1..2, ProcessSelects(g, n) PROVE Untouched(h)
  BY <1>1, <1>2, CallIsIteration
  DEF ProcessSelects, Untouched, memVars, queueVars, binVars, outVars,
      Iteration
<1>3. CASE ProcessPasses(g)
  BY <1>1, <1>3, CallIsIteration
  DEF ProcessPasses, Untouched, memVars, queueVars, binVars, outVars, Iteration
<1>4. CASE ProcessPreempts(g)
  <2> DEFINE r == [it EXCEPT !.todo = @ \ {g}, !.stop = TRUE]
  <2>1. /\ r \in Iteration
        /\ r.todo = it.todo \ {g} /\ r.selected = it.selected
        /\ r.scheduled = it.scheduled /\ r.leftover = it.leftover
        /\ r.preempted = it.preempted /\ r.swappedOut = it.swappedOut
        /\ r.ignored = it.ignored /\ r.cand = it.cand /\ r.chunk = it.chunk
    BY CallIsIteration DEF Iteration
  <2>2. PreemptedFrom(r, g)
    BY <1>4 DEF ProcessPreempts
  <2> HIDE DEF r
  <2> QED
    BY <1>1, <2>1, <2>2, PreemptIsLocal
    DEF Untouched, queueVars, binVars, outVars
<1> QED
  BY <1>2, <1>3, <1>4, ProcessOutcomes DEF Linked, GroupLinked

\* What the second loop does with a selected group.
SwapInSelects(g) ==
    /\ CanSwapIn(g, SeqLen(g)) = "OK" /\ SwapInAndAppend(g, SeqLen(g))
    /\ swapped' = swapped \ {g}
    /\ status' = [status EXCEPT ![g] = "running"]
    /\ it' = [it EXCEPT !.selected = @ \ {g}, !.scheduled = @ \cup {g},
                        !.chunk[g] = IF IsPrefill(g) THEN 0 ELSE 1]

SwapInDeclines(g) ==
    /\ it' = [it EXCEPT !.selected = @ \ {g}]
    /\ UNCHANGED <<memVars, swapped, status>>

LEMMA SwapInSelectedOutcomes ==
    ASSUME NEW g, SwapInSelected(g)
    PROVE  SwapInSelects(g) \/ SwapInDeclines(g)
  BY DEF SwapInSelected, SwapInSelects, SwapInDeclines

LEMMA SwapInSelectedIsLocal ==
    ASSUME Inv, NEW g \in Groups, SwapInSelected(g)
    PROVE  Local(g)
<1> SUFFICES ASSUME NEW h \in Groups \ {g} PROVE Untouched(h)
  BY DEF Local, SwapInSelected
<1>1. /\ UNCHANGED <<stage, computed, outLen, waiting, running, asyncStopped, binVars, outVars>>
  BY DEF SwapInSelected
<1>2. CASE SwapInSelects(g)
  BY <1>1, <1>2, CallIsIteration
  DEF Inv, SeqTypeOK, MemSafe, MemTypeOK, SwapInSelects, SwapInAndAppend,
      Untouched, binVars, outVars, Iteration
<1>3. CASE SwapInDeclines(g)
  BY <1>1, <1>3, CallIsIteration
  DEF SwapInDeclines, Untouched, memVars, binVars, outVars, Iteration
<1> QED
  BY <1>2, <1>3, SwapInSelectedOutcomes

\* What the third loop does.
RunSelects(g) ==
    /\ CanAppendSlots(g, SeqLen(g)) /\ AppendSlots(g, SeqLen(g))
    /\ it' = [it EXCEPT !.selected = @ \ {g}, !.scheduled = @ \cup {g},
                        !.chunk[g] = IF IsPrefill(g) THEN @ ELSE 1]

RunDeclines(g) ==
    /\ it' = [it EXCEPT !.selected = @ \ {g}, !.leftover = @ \cup {g}]
    /\ UNCHANGED memVars

LEMMA RunSelectedOutcomes ==
    ASSUME NEW g, RunSelected(g)
    PROVE  RunSelects(g) \/ RunDeclines(g)
  BY DEF RunSelected, RunSelects, RunDeclines

LEMMA RunSelectedIsLocal ==
    ASSUME Inv, NEW g \in Groups, RunSelected(g)
    PROVE  Local(g)
<1> SUFFICES ASSUME NEW h \in Groups \ {g} PROVE Untouched(h)
  BY DEF Local, RunSelected
<1>1. UNCHANGED <<seqVars, queueVars, binVars, outVars>>
  BY DEF RunSelected
<1>2. CASE RunSelects(g)
  BY <1>1, <1>2, CallIsIteration
  DEF Inv, SeqTypeOK, MemSafe, MemTypeOK, RunSelects, AppendSlots, Untouched,
      seqVars, queueVars, binVars, outVars, Iteration
<1>3. CASE RunDeclines(g)
  BY <1>1, <1>3, CallIsIteration
  DEF RunDeclines, Untouched, memVars, seqVars, queueVars, binVars, outVars,
      Iteration
<1> QED
  BY <1>2, <1>3, RunSelectedOutcomes

\* What the fourth loop does.
PrefillSelects(g) ==
    /\ CanAllocate(SeqLen(g)) = "OK" /\ Allocate(g, SeqLen(g))
    /\ status' = [status EXCEPT ![g] = "running"]
    /\ waiting' = waiting \ {g}
    /\ \E add \in Int :
         /\ it' = [it EXCEPT !.selected = @ \ {g}, !.scheduled = @ \cup {g},
                             !.tokens = @ + add, !.chunk[g] = @ + add]
         /\ it.chunk[g] + add <= NumUncomputed(g)
         /\ 0 <= add /\ add <= Max2(0, RemainingTokens)

PrefillDeclines(g) ==
    /\ \E add \in Int :
         /\ it' = [it EXCEPT !.selected = @ \ {g}, !.tokens = @ + add]
         /\ 0 <= add /\ add <= Max2(0, RemainingTokens)
    /\ UNCHANGED <<memVars, status, waiting>>

LEMMA PrefillSelectedOutcomes ==
    ASSUME Inv, Linked, NEW g \in Groups, PrefillSelected(g)
    PROVE  /\ status[g] = "waiting"
           /\ PrefillSelects(g) \/ PrefillDeclines(g)
<1> DEFINE n == it.chunk[g]
           add == IF RemainingTokens > 0
                  THEN Min2(NumUncomputed(g) - n, RemainingTokens) ELSE 0
           rest == [it EXCEPT !.selected = @ \ {g}, !.tokens = @ + add]
           Selects == /\ CanAllocate(SeqLen(g)) = "OK"
                      /\ Allocate(g, SeqLen(g))
                      /\ status' = [status EXCEPT ![g] = "running"]
                      /\ waiting' = waiting \ {g}
                      /\ it' = [rest EXCEPT !.scheduled = @ \cup {g},
                                            !.chunk[g] = n + add]
           Declines == it' = rest /\ UNCHANGED <<memVars, status, waiting>>
<1>1. status[g] = "waiting" /\ ChunkFits(g)
  BY
  DEF PrefillSelected, Linked, GroupLinked, TableLinked, CacheLinked,
      QueuesLinked, ResultsLinked, SelectedLinked, CandidateLinked, TodoLinked,
      Scheduling, Deciding, Planned, ChunkFits, IsFinished, Finished, IsPrefill
<1>2. NumUncomputed(g) = SeqLen(g) - computed[g]
  BY <1>1 DEF NumUncomputed, IsFinished, Finished
<1>3. RemainingTokens \in Int /\ n \in Int
  BY SchedulerAssumption, CallIsIteration DEF Iteration, RemainingTokens
<1>4. /\ add \in Int /\ 0 <= add /\ n + add <= NumUncomputed(g)
      /\ add <= Max2(0, RemainingTokens)
  BY <1>1, <1>2, <1>3, LengthsAreInt DEF ChunkFits, Min2, Max2
<1>5. Selects \/ Declines
  BY DEF PrefillSelected
<1> HIDE DEF add
<1>6. CASE Selects
  <2>1. it' = [it EXCEPT !.selected = @ \ {g}, !.scheduled = @ \cup {g},
                         !.tokens = @ + add, !.chunk[g] = @ + add]
    BY <1>6, CallIsIteration DEF Iteration
  <2> QED
    BY <1>1, <1>4, <1>6, <2>1 DEF PrefillSelects
<1>7. CASE Declines
  BY <1>1, <1>4, <1>7 DEF PrefillDeclines
<1> QED
  BY <1>5, <1>6, <1>7

LEMMA PrefillSelectedIsLocal ==
    ASSUME Inv, Linked, NEW g \in Groups, PrefillSelected(g)
    PROVE  Local(g)
<1> SUFFICES ASSUME NEW h \in Groups \ {g} PROVE Untouched(h)
  BY DEF Local, PrefillSelected
<1>1. UNCHANGED <<stage, computed, outLen, running, swapped, asyncStopped, binVars, outVars>>
  BY DEF PrefillSelected
<1>2. CASE PrefillSelects(g)
  BY <1>1, <1>2, CallIsIteration
  DEF Inv, SeqTypeOK, MemSafe, MemTypeOK, PrefillSelects, Allocate, Untouched,
      binVars, outVars, Iteration
<1>3. CASE PrefillDeclines(g)
  BY <1>1, <1>3, CallIsIteration
  DEF PrefillDeclines, Untouched, memVars, binVars, outVars, Iteration
<1> QED
  BY <1>2, <1>3, PrefillSelectedOutcomes

\* A running group that no list holds is preempted: it is listed once, and its
\* table and its computed tokens agree with its new status.
LEMMA PreemptKeepsLinked ==
    ASSUME Inv, Linked, NEW g \in Groups, NEW r \in Iteration,
           PreemptedFrom(r, g), status[g] = "running",
           pc \in {"preempt", "process", "run"}, pc' = pc,
           UNCHANGED <<outLen, waiting, running, swapped, asyncStopped>>,
           pc = "preempt" => g \notin pendingSwapOut',
           pc = "run" => g \notin r.todo,
           g \notin r.selected, r.cand # g,
           g \notin r.scheduled, g \notin r.leftover,
           r.preempted = it.preempted, r.swappedOut = it.swappedOut,
           r.ignored = it.ignored
    PROVE  GroupLinked(g)'
<1>1. SeqLen(g)' = SeqLen(g)
  BY DEF SeqLen
<1>2. g \notin it.preempted /\ g \notin it.swappedOut /\ g \notin it.ignored
      /\ g \notin waiting /\ g \notin swapped /\ g \notin asyncStopped
  BY
  DEF Linked, GroupLinked, TableLinked, CacheLinked, QueuesLinked,
      ResultsLinked, SelectedLinked, CandidateLinked, TodoLinked, Scheduling,
      Deciding, Planned, ChunkFits, IsFinished, Finished, IsPrefill
<1>3. /\ it'.todo = r.todo /\ it'.selected = r.selected
      /\ it'.scheduled = r.scheduled /\ it'.leftover = r.leftover
      /\ it'.ignored = r.ignored
      /\ it'.cand = r.cand
  BY DEF PreemptedFrom, Iteration
<1>4. CASE /\ it' = [r EXCEPT !.swappedOut = @ \cup {g}]
           /\ status' = [status EXCEPT ![g] = "swapped"]
           /\ device' = [device EXCEPT ![g] = "cpu"]
           /\ UNCHANGED <<stage, computed, slots>>
  <2>1. it'.swappedOut = r.swappedOut \cup {g} /\ it'.preempted = r.preempted
    BY <1>4 DEF Iteration
  <2> QED
    BY <1>1, <1>2, <1>3, <1>4, <2>1
    DEF Inv, SeqTypeOK, MemSafe, MemTypeOK, Linked, GroupLinked, TableLinked,
        CacheLinked, QueuesLinked, ResultsLinked, SelectedLinked,
        CandidateLinked, TodoLinked, Scheduling, Deciding, Planned, ChunkFits,
        IsFinished, Finished, IsPrefill
<1>5. CASE /\ it' = [r EXCEPT !.preempted = @ \cup {g}]
           /\ status' = [status EXCEPT ![g] = "waiting"]
           /\ device' = [device EXCEPT ![g] = "none"]
           /\ slots' = [slots EXCEPT ![g] = 0]
           /\ computed' = [computed EXCEPT ![g] = 0]
           /\ stage' = [stage EXCEPT ![g] = "prefill"]
  <2>1. it'.preempted = r.preempted \cup {g} /\ it'.swappedOut = r.swappedOut
    BY <1>5 DEF Iteration
  <2>2. SeqLen(g) > 0
    BY LengthsAreInt
    DEF Linked, GroupLinked, TableLinked, CacheLinked, QueuesLinked,
        ResultsLinked, SelectedLinked, CandidateLinked, TodoLinked, Scheduling,
        Deciding, Planned, ChunkFits, IsFinished, Finished, IsPrefill
  <2> QED
    BY <1>1, <1>2, <1>3, <1>5, <2>1, <2>2
    DEF Inv, SeqTypeOK, MemSafe, MemTypeOK, Linked, GroupLinked, TableLinked,
        CacheLinked, QueuesLinked, ResultsLinked, SelectedLinked,
        CandidateLinked, TodoLinked, Scheduling, Deciding, Planned, ChunkFits,
        IsFinished, Finished, IsPrefill
<1> QED
  BY <1>4, <1>5 DEF PreemptedFrom

-----------------------------------------------------------------------------
(* One lemma per action: it preserves Linked.                              *)

LEMMA AddSeqGroupKeepsLinked ==
    ASSUME Inv, Linked, NEW g \in Groups, AddSeqGroup(g)
    PROVE  Linked'
<1>1. GroupLinked(g)'
  BY
  DEF Inv, SeqTypeOK, AddSeqGroup, memVars, binVars, SeqLen, Linked,
      GroupLinked, TableLinked, CacheLinked, QueuesLinked, ResultsLinked,
      SelectedLinked, CandidateLinked, TodoLinked, Scheduling, Deciding,
      Planned, ChunkFits, IsFinished, Finished, IsPrefill
<1> QED
  BY <1>1, AddSeqGroupIsLocal, LocalKeepsLinked

LEMMA AbortSeqGroupKeepsLinked ==
    ASSUME Inv, Linked, NEW g \in Groups, AbortSeqGroup(g)
    PROVE  Linked'
<1>1. CASE g \in Queued /\ ~IsFinished(g)
  BY <1>1
  DEF Inv, SeqTypeOK, MemSafe, MemTypeOK, AbortSeqGroup, Free, SeqLen, Linked,
      GroupLinked, TableLinked, CacheLinked, QueuesLinked, ResultsLinked,
      SelectedLinked, CandidateLinked, TodoLinked, Scheduling, Deciding,
      Planned, ChunkFits, IsFinished, Finished, IsPrefill
<1>2. CASE ~(g \in Queued /\ ~IsFinished(g))
  BY <1>2
  DEF AbortSeqGroup, memVars, SeqLen, Linked, GroupLinked, TableLinked,
      CacheLinked, QueuesLinked, ResultsLinked, SelectedLinked,
      CandidateLinked, TodoLinked, Scheduling, Deciding, Planned, ChunkFits,
      IsFinished, Finished, IsPrefill
<1> QED
  BY <1>1, <1>2, AbortSeqGroupIsLocal, LocalKeepsLinked

LEMMA FreeStoppedKeepsLinked ==
    ASSUME Inv, Linked, NEW g \in Groups, FreeStopped(g)
    PROVE  Linked'
<1>1. GroupLinked(g)'
  BY
  DEF Inv, SeqTypeOK, MemSafe, MemTypeOK, FreeStopped, Free, seqVars, binVars,
      SeqLen, Linked, GroupLinked, TableLinked, CacheLinked, QueuesLinked,
      ResultsLinked, SelectedLinked, CandidateLinked, TodoLinked, Scheduling,
      Deciding, Planned, ChunkFits, IsFinished, Finished, IsPrefill
<1> QED
  BY <1>1, FreeStoppedIsLocal, LocalKeepsLinked

LEMMA PreemptPendingKeepsLinked ==
    ASSUME Inv, Linked, NEW g \in Groups, PreemptPending(g)
    PROVE  Linked'
<1>1. /\ pc = "preempt" /\ pc' = pc /\ g \in pendingSwapOut
      /\ UNCHANGED <<outLen, waiting, running, swapped, asyncStopped>>
      /\ pendingSwapOut' = pendingSwapOut \ {g}
  BY DEF PreemptPending, queueVars
<1>2. GroupLinked(g)'
  <2>1. CASE UNCHANGED <<status, stage, computed, memVars, it>>
    BY <1>1, <2>1
    DEF memVars, SeqLen, Linked, GroupLinked, TableLinked, CacheLinked,
        QueuesLinked, ResultsLinked, SelectedLinked, CandidateLinked,
        TodoLinked, Scheduling, Deciding, Planned, ChunkFits, IsFinished,
        Finished, IsPrefill
  <2>2. CASE /\ it' = [it EXCEPT !.swaps = @ + 1]
             /\ UNCHANGED <<status, stage, computed, memVars>>
    BY <1>1, <2>2, CallIsIteration
    DEF Iteration, memVars, SeqLen, Linked, GroupLinked, TableLinked,
        CacheLinked, QueuesLinked, ResultsLinked, SelectedLinked,
        CandidateLinked, TodoLinked, Scheduling, Deciding, Planned, ChunkFits,
        IsFinished, Finished, IsPrefill
  <2>3. CASE PendingPreempts(g)
    <3> DEFINE r == [it EXCEPT !.swaps = @ + 1]
    <3>1. /\ r \in Iteration
          /\ r.todo = it.todo /\ r.selected = it.selected /\ r.cand = it.cand
          /\ r.scheduled = it.scheduled /\ r.leftover = it.leftover
          /\ r.preempted = it.preempted /\ r.swappedOut = it.swappedOut
          /\ r.ignored = it.ignored
      BY CallIsIteration DEF Iteration
    <3>2. PreemptedFrom(r, g)
      BY <2>3 DEF PendingPreempts
    <3> HIDE DEF r
    <3>3. status[g] = "running"
      BY <1>1, <2>3
      DEF PendingPreempts, Linked, GroupLinked, TableLinked, CacheLinked,
          QueuesLinked, ResultsLinked, SelectedLinked, CandidateLinked,
          TodoLinked, Scheduling, Deciding, Planned, ChunkFits, IsFinished,
          Finished, IsPrefill
    <3>4. /\ g \notin it.scheduled /\ g \notin it.leftover
          /\ g \notin it.selected /\ it.cand # g
      BY <1>1
      DEF Linked, GroupLinked, TableLinked, CacheLinked, QueuesLinked,
          ResultsLinked, SelectedLinked, CandidateLinked, TodoLinked,
          Scheduling, Deciding, Planned, ChunkFits, IsFinished, Finished,
          IsPrefill
    <3> QED
      BY <1>1, <3>1, <3>2, <3>3, <3>4, PreemptKeepsLinked
  <2> QED
    BY <2>1, <2>2, <2>3, PreemptPendingOutcomes
<1> QED
  BY <1>2, PreemptPendingIsLocal, LocalKeepsLinked

LEMMA ProcessKeepsLinked ==
    ASSUME Inv, Linked, NEW g \in Groups, Process(g)
    PROVE  Linked'
<1>1. /\ pc = "process" /\ pc' = pc /\ g \in it.todo
      /\ UNCHANGED <<outLen, waiting, running, swapped, asyncStopped>>
      /\ pendingSwapOut' = pendingSwapOut
  BY DEF Process, queueVars, binVars
<1>2. /\ g \notin it.scheduled /\ g \notin it.leftover
      /\ g \notin it.selected /\ it.cand # g
  BY <1>1
  DEF Linked, GroupLinked, TableLinked, CacheLinked, QueuesLinked,
      ResultsLinked, SelectedLinked, CandidateLinked, TodoLinked, Scheduling,
      Deciding, Planned, ChunkFits, IsFinished, Finished, IsPrefill
<1>3. ASSUME NEW n \in 1..2, ProcessSelects(g, n)
      PROVE  GroupLinked(g)'
  <2>1. /\ it'.todo = it.todo \ {g} /\ it'.selected = it.selected \cup {g}
        /\ it'.chunk[g] = n /\ it'.cand = it.cand
        /\ it'.scheduled = it.scheduled /\ it'.leftover = it.leftover
        /\ it'.preempted = it.preempted /\ it'.swappedOut = it.swappedOut
        /\ it'.ignored = it.ignored
    BY <1>3, CallIsIteration DEF ProcessSelects, Iteration
  <2>2. \/ status[g] = "waiting" /\ g \in waiting
        \/ status[g] = "swapped" /\ g \in swapped
        \/ status[g] = "running" /\ g \in running
    BY <1>3 DEF Inv, SeqTypeOK, Statuses, Finished, ProcessSelects, QueueOf
  <2> QED
    BY <1>1, <1>2, <1>3, <2>1, <2>2
    DEF ProcessSelects, memVars, SeqLen, Linked, GroupLinked, TableLinked,
        CacheLinked, QueuesLinked, ResultsLinked, SelectedLinked,
        CandidateLinked, TodoLinked, Scheduling, Deciding, Planned, ChunkFits,
        IsFinished, Finished, IsPrefill
<1>4. ASSUME ProcessPasses(g)
      PROVE  GroupLinked(g)'
  BY <1>1, <1>2, <1>4, CallIsIteration
  DEF ProcessPasses, memVars, SeqLen, Iteration, Linked, GroupLinked,
      TableLinked, CacheLinked, QueuesLinked, ResultsLinked, SelectedLinked,
      CandidateLinked, TodoLinked, Scheduling, Deciding, Planned, ChunkFits,
      IsFinished, Finished, IsPrefill
<1>5. ASSUME ProcessPreempts(g)
      PROVE  GroupLinked(g)'
  <2> DEFINE r == [it EXCEPT !.todo = @ \ {g}, !.stop = TRUE]
  <2>1. /\ r \in Iteration
        /\ r.selected = it.selected /\ r.cand = it.cand
        /\ r.scheduled = it.scheduled /\ r.leftover = it.leftover
        /\ r.preempted = it.preempted /\ r.swappedOut = it.swappedOut
        /\ r.ignored = it.ignored
    BY CallIsIteration DEF Iteration
  <2>2. PreemptedFrom(r, g) /\ status[g] = "running"
    BY <1>5 DEF ProcessPreempts
  <2> HIDE DEF r
  <2>3. /\ pc \in {"preempt", "process", "run"}
        /\ pc # "run" /\ pc # "preempt"
        /\ g \notin r.selected /\ r.cand # g
        /\ g \notin r.scheduled /\ g \notin r.leftover
    BY <1>1, <1>2, <2>1
  <2> QED
    BY <1>1, <2>1, <2>2, <2>3, PreemptKeepsLinked
<1> QED
  BY <1>3, <1>4, <1>5, ProcessOutcomes, ProcessIsLocal, LocalKeepsLinked
  DEF Linked, GroupLinked

LEMMA SwapInSelectedKeepsLinked ==
    ASSUME Inv, Linked, NEW g \in Groups, SwapInSelected(g)
    PROVE  Linked'
<1>1. /\ pc = "apply" /\ pc' = pc
      /\ UNCHANGED <<stage, computed, outLen, waiting, running, asyncStopped, pendingSwapOut>>
      /\ g \in it.selected /\ g \in swapped
  BY DEF SwapInSelected, binVars
<1>2. status[g] = "swapped" /\ computed[g] < SeqLen(g) /\ g \notin waiting /\ g \notin asyncStopped
  BY <1>1
  DEF Linked, GroupLinked, TableLinked, CacheLinked, QueuesLinked,
      ResultsLinked, SelectedLinked, CandidateLinked, TodoLinked, Scheduling,
      Deciding, Planned, ChunkFits, IsFinished, Finished, IsPrefill
<1>3. GroupLinked(g)'
  <2>1. CASE SwapInSelects(g)
    <3>1. /\ it'.selected = it.selected \ {g}
          /\ it'.chunk[g] = IF IsPrefill(g) THEN 0 ELSE 1
          /\ it'.scheduled = it.scheduled \cup {g}
          /\ it'.leftover = it.leftover /\ it'.preempted = it.preempted
          /\ it'.swappedOut = it.swappedOut /\ it'.ignored = it.ignored
          /\ it'.todo = it.todo /\ it'.cand = it.cand
      BY <2>1, CallIsIteration DEF SwapInSelects, Iteration
    <3>2. SeqLen(g)' = SeqLen(g) /\ SeqLen(g) \in Nat /\ computed[g] \in Int
      BY <1>1, LengthsAreInt DEF SeqLen
    <3> QED
      BY <1>1, <1>2, <2>1, <3>1, <3>2
      DEF Inv, SeqTypeOK, MemSafe, MemTypeOK, SwapInSelects, SwapInAndAppend,
          Linked, GroupLinked, TableLinked, CacheLinked, QueuesLinked,
          ResultsLinked, SelectedLinked, CandidateLinked, TodoLinked,
          Scheduling, Deciding, Planned, ChunkFits, IsFinished, Finished,
          IsPrefill
  <2>2. CASE SwapInDeclines(g)
    BY <1>1, <1>2, <2>2, CallIsIteration
    DEF SwapInDeclines, memVars, SeqLen, Iteration, Linked, GroupLinked,
        TableLinked, CacheLinked, QueuesLinked, ResultsLinked, SelectedLinked,
        CandidateLinked, TodoLinked, Scheduling, Deciding, Planned, ChunkFits,
        IsFinished, Finished, IsPrefill
  <2> QED
    BY <2>1, <2>2, SwapInSelectedOutcomes
<1> QED
  BY <1>3, SwapInSelectedIsLocal, LocalKeepsLinked

LEMMA RunSelectedKeepsLinked ==
    ASSUME Inv, Linked, NEW g \in Groups, RunSelected(g)
    PROVE  Linked'
<1>1. /\ pc = "apply" /\ pc' = pc
      /\ UNCHANGED <<seqVars, queueVars, pendingSwapOut>>
      /\ g \in it.selected /\ g \in running
  BY DEF RunSelected, binVars
<1>2. /\ status[g] = "running" /\ computed[g] < SeqLen(g) /\ ChunkFits(g)
      /\ g \notin it.scheduled /\ g \notin it.leftover
  BY <1>1
  DEF Linked, GroupLinked, TableLinked, CacheLinked, QueuesLinked,
      ResultsLinked, SelectedLinked, CandidateLinked, TodoLinked, Scheduling,
      Deciding, Planned, ChunkFits, IsFinished, Finished, IsPrefill
<1>3. GroupLinked(g)'
  <2>1. CASE RunSelects(g)
    <3>1. /\ it'.selected = it.selected \ {g}
          /\ it'.chunk[g] = IF IsPrefill(g) THEN it.chunk[g] ELSE 1
          /\ it'.scheduled = it.scheduled \cup {g}
          /\ it'.leftover = it.leftover /\ it'.preempted = it.preempted
          /\ it'.swappedOut = it.swappedOut /\ it'.ignored = it.ignored
          /\ it'.todo = it.todo /\ it'.cand = it.cand
      BY <2>1, CallIsIteration DEF RunSelects, Iteration
    <3>2. SeqLen(g)' = SeqLen(g) /\ SeqLen(g) \in Nat /\ computed[g] \in Int
      BY <1>1, LengthsAreInt DEF SeqLen, seqVars
    <3> QED
      BY <1>1, <1>2, <2>1, <3>1, <3>2
      DEF Inv, SeqTypeOK, MemSafe, MemTypeOK, RunSelects, AppendSlots, seqVars,
          queueVars, Linked, GroupLinked, TableLinked, CacheLinked,
          QueuesLinked, ResultsLinked, SelectedLinked, CandidateLinked,
          TodoLinked, Scheduling, Deciding, Planned, ChunkFits, IsFinished,
          Finished, IsPrefill
  <2>2. CASE RunDeclines(g)
    BY <1>1, <1>2, <2>2, CallIsIteration
    DEF RunDeclines, seqVars, memVars, queueVars, SeqLen, Iteration, Linked,
        GroupLinked, TableLinked, CacheLinked, QueuesLinked, ResultsLinked,
        SelectedLinked, CandidateLinked, TodoLinked, Scheduling, Deciding,
        Planned, ChunkFits, IsFinished, Finished, IsPrefill
  <2> QED
    BY <2>1, <2>2, RunSelectedOutcomes
<1> QED
  BY <1>3, RunSelectedIsLocal, LocalKeepsLinked

LEMMA PrefillSelectedKeepsLinked ==
    ASSUME Inv, Linked, NEW g \in Groups, PrefillSelected(g)
    PROVE  Linked'
<1>1. /\ pc = "apply" /\ pc' = pc
      /\ UNCHANGED <<stage, computed, outLen, running, swapped, asyncStopped, pendingSwapOut>>
      /\ g \in it.selected /\ g \in waiting
  BY DEF PrefillSelected, binVars
<1>2. /\ status[g] = "waiting" /\ ChunkFits(g) /\ computed[g] = 0
      /\ computed[g] < SeqLen(g) /\ g \notin it.leftover
      /\ g \notin it.preempted /\ g \notin it.swappedOut
  BY <1>1
  DEF Linked, GroupLinked, TableLinked, CacheLinked, QueuesLinked,
      ResultsLinked, SelectedLinked, CandidateLinked, TodoLinked, Scheduling,
      Deciding, Planned, ChunkFits, IsFinished, Finished, IsPrefill
<1>3. GroupLinked(g)'
  <2>1. CASE PrefillSelects(g)
    <3>1. /\ it'.selected = it.selected \ {g}
          /\ it'.scheduled = it.scheduled \cup {g}
          /\ it'.leftover = it.leftover /\ it'.preempted = it.preempted
          /\ it'.swappedOut = it.swappedOut /\ it'.ignored = it.ignored
          /\ it'.todo = it.todo /\ it'.cand = it.cand
      BY <2>1, CallIsIteration DEF PrefillSelects, Iteration
    <3>2. it.chunk[g] <= it'.chunk[g] /\ it'.chunk[g] <= NumUncomputed(g) /\ it.chunk[g] \in Int /\ it'.chunk[g] \in Int
      BY <2>1, CallIsIteration DEF PrefillSelects, Iteration
    <3>3. NumUncomputed(g) = SeqLen(g) - computed[g]
      BY <1>2 DEF NumUncomputed, IsFinished, Finished
    <3>4. SeqLen(g)' = SeqLen(g) /\ SeqLen(g) \in Nat /\ computed[g] \in Int
      BY <1>1, LengthsAreInt DEF SeqLen
    <3>5. ChunkFits(g)'
      BY <1>1, <1>2, <3>2, <3>3, <3>4 DEF ChunkFits
    <3> HIDE DEF ChunkFits
    <3> QED
      BY <1>1, <1>2, <2>1, <3>1, <3>4, <3>5
      DEF Inv, SeqTypeOK, MemSafe, MemTypeOK, PrefillSelects, Allocate, Linked,
          GroupLinked, TableLinked, CacheLinked, QueuesLinked, ResultsLinked,
          SelectedLinked, CandidateLinked, TodoLinked, Scheduling, Deciding,
          Planned, IsFinished, Finished, IsPrefill
  <2>2. CASE PrefillDeclines(g)
    BY <1>1, <1>2, <2>2, CallIsIteration
    DEF PrefillDeclines, memVars, SeqLen, Iteration, Linked, GroupLinked,
        TableLinked, CacheLinked, QueuesLinked, ResultsLinked, SelectedLinked,
        CandidateLinked, TodoLinked, Scheduling, Deciding, Planned, ChunkFits,
        IsFinished, Finished, IsPrefill
  <2> QED
    BY <2>1, <2>2, PrefillSelectedOutcomes
<1> QED
  BY <1>3, PrefillSelectedIsLocal, LocalKeepsLinked

\* What _schedule_running does with the next group: it is left over, stopped,
\* or becomes the candidate.
RunSkips(g) ==
    /\ NumNewTokens(g, "running") = 0
    /\ it' = [it EXCEPT !.todo = @ \ {g}, !.leftover = @ \cup {g}]
    /\ UNCHANGED <<status, asyncStopped>>

RunStops(g) ==
    /\ AsyncOutput /\ SeqLen(g) > MaxModelLen
    /\ it' = [it EXCEPT !.todo = @ \ {g}]
    /\ status' = [status EXCEPT ![g] = "aborted"]
    /\ asyncStopped' = asyncStopped \cup {g}

RunTries(g, n) ==
    /\ computed[g] + n <= SeqLen(g) /\ n <= RemainingTokens
    /\ it' = [it EXCEPT !.todo = @ \ {g}, !.cand = g, !.chunk[g] = n]
    /\ UNCHANGED <<status, asyncStopped>>

LEMMA RunNextOutcomes ==
    ASSUME Inv, Linked, NEW g \in Groups, RunNext(g)
    PROVE  \/ RunSkips(g) \/ RunStops(g)
           \/ \E n \in Nat \ {0} : RunTries(g, n)
<1> DEFINE n == NumNewTokens(g, "running")
           rest == [it EXCEPT !.todo = @ \ {g}]
<1>1. /\ [rest EXCEPT !.leftover = @ \cup {g}]
           = [it EXCEPT !.todo = @ \ {g}, !.leftover = @ \cup {g}]
      /\ [rest EXCEPT !.cand = g, !.chunk[g] = n]
           = [it EXCEPT !.todo = @ \ {g}, !.cand = g, !.chunk[g] = n]
  BY CallIsIteration DEF Iteration
<1>2. "running" \notin Finished /\ CacheLinked(g)
  BY DEF Finished, Linked, GroupLinked
<1>3. n > 0 => /\ n \in Nat \ {0} /\ computed[g] + n <= SeqLen(g)
               /\ n <= RemainingTokens
  BY <1>2, NewTokensFit
<1> HIDE DEF n
<1> QED
  BY <1>1, <1>3 DEF RunNext, RunSkips, RunStops, RunTries, n

LEMMA RunNextIsLocal ==
    ASSUME Inv, Linked, NEW g \in Groups, RunNext(g)
    PROVE  Local(g)
<1> SUFFICES ASSUME NEW h \in Groups \ {g} PROVE Untouched(h)
  BY DEF Local, RunNext
<1>1. /\ UNCHANGED <<stage, computed, outLen, memVars, waiting, running, swapped, binVars, outVars>>
      /\ it.cand = None /\ None \notin Groups
  BY SchedulerAssumption DEF RunNext
<1>2. CASE RunSkips(g)
  BY <1>1, <1>2, CallIsIteration
  DEF RunSkips, Untouched, memVars, binVars, outVars, Iteration
<1>3. CASE RunStops(g)
  BY <1>1, <1>3, CallIsIteration
  DEF Inv, SeqTypeOK, RunStops, Untouched, memVars, binVars, outVars, Iteration
<1>4. ASSUME NEW n \in Nat \ {0}, RunTries(g, n) PROVE Untouched(h)
  BY <1>1, <1>4, CallIsIteration
  DEF RunTries, Untouched, memVars, binVars, outVars, Iteration
<1> QED
  BY <1>2, <1>3, <1>4, RunNextOutcomes

LEMMA RunNextKeepsLinked ==
    ASSUME Inv, Linked, NEW g \in Groups, RunNext(g)
    PROVE  Linked'
<1>1. /\ UNCHANGED <<stage, computed, outLen, memVars, waiting, running, swapped, pendingSwapOut>>
      /\ pc = "run" /\ pc' = pc /\ g \in it.todo /\ it.cand # g
      /\ SeqLen(g)' = SeqLen(g)
  BY SchedulerAssumption DEF RunNext, binVars, SeqLen
<1>2. /\ status[g] = "running" /\ g \notin it.selected
      /\ g \notin it.scheduled /\ g \notin it.leftover
      /\ g \notin it.preempted /\ g \notin it.swappedOut
      /\ g \notin waiting /\ g \notin swapped /\ g \notin it.ignored
  BY <1>1
  DEF Linked, GroupLinked, TableLinked, CacheLinked, QueuesLinked,
      ResultsLinked, SelectedLinked, CandidateLinked, TodoLinked, Scheduling,
      Deciding, Planned, ChunkFits, IsFinished, Finished, IsPrefill
<1>3. ASSUME RunSkips(g)
      PROVE  GroupLinked(g)'
  BY <1>1, <1>2, <1>3, CallIsIteration
  DEF RunSkips, memVars, Iteration, Linked, GroupLinked, TableLinked,
      CacheLinked, QueuesLinked, ResultsLinked, SelectedLinked,
      CandidateLinked, TodoLinked, Scheduling, Deciding, Planned, ChunkFits,
      IsFinished, Finished, IsPrefill
<1>4. ASSUME RunStops(g)
      PROVE  GroupLinked(g)'
  BY <1>1, <1>2, <1>4, CallIsIteration
  DEF Inv, SeqTypeOK, RunStops, memVars, Iteration, Linked, GroupLinked,
      TableLinked, CacheLinked, QueuesLinked, ResultsLinked, SelectedLinked,
      CandidateLinked, TodoLinked, Scheduling, Deciding, Planned, ChunkFits,
      IsFinished, Finished, IsPrefill
<1>5. ASSUME NEW n \in Nat \ {0}, RunTries(g, n)
      PROVE  GroupLinked(g)'
  BY <1>1, <1>2, <1>5, CallIsIteration
  DEF RunTries, memVars, Iteration, Linked, GroupLinked, TableLinked,
      CacheLinked, QueuesLinked, ResultsLinked, SelectedLinked,
      CandidateLinked, TodoLinked, Scheduling, Deciding, Planned, ChunkFits,
      IsFinished, Finished, IsPrefill
<1> QED
  BY <1>3, <1>4, <1>5, RunNextOutcomes, RunNextIsLocal, LocalKeepsLinked

\* The candidate is a group, about which the next two steps are.
LEMMA CandidateIsGroup ==
    ASSUME Inv, it.cand # None
    PROVE  it.cand \in Groups
  BY CallIsIteration DEF Iteration

LEMMA RunFitsIsLocal ==
    ASSUME Inv, RunFits
    PROVE  Local(it.cand)
<1> SUFFICES ASSUME NEW h \in Groups \ {it.cand} PROVE Untouched(h)
  BY DEF Local, RunFits
<1> QED
  BY SchedulerAssumption, CallIsIteration, CandidateIsGroup
  DEF Inv, SeqTypeOK, MemSafe, MemTypeOK, RunFits, AppendSlots, Untouched,
      seqVars, queueVars, binVars, outVars, Iteration

LEMMA RunFitsKeepsLinked ==
    ASSUME Inv, Linked, RunFits
    PROVE  Linked'
<1> PICK g \in Groups : g = it.cand
  BY CandidateIsGroup DEF RunFits
<1>1. g # None
  BY DEF RunFits
<1>2. /\ UNCHANGED <<seqVars, queueVars, pendingSwapOut>>
      /\ pc = "run" /\ pc' = pc /\ SeqLen(g)' = SeqLen(g)
      /\ AppendSlots(g, SeqLen(g))
      /\ it'.cand = None
      /\ it'.scheduled = it.scheduled \cup {g}
      /\ it'.todo = it.todo /\ it'.chunk = it.chunk
      /\ it'.selected = it.selected /\ it'.leftover = it.leftover
      /\ it'.preempted = it.preempted /\ it'.swappedOut = it.swappedOut
      /\ it'.ignored = it.ignored
  BY CallIsIteration DEF RunFits, binVars, seqVars, SeqLen, Iteration
<1>3. Local(g)
  BY RunFitsIsLocal
<1>4. /\ status[g] = "running" /\ ChunkFits(g) /\ g \notin it.todo
      /\ g \notin it.scheduled /\ g \notin it.leftover /\ g \notin it.selected
  BY <1>1, <1>2
  DEF Linked, GroupLinked, TableLinked, CacheLinked, QueuesLinked,
      ResultsLinked, SelectedLinked, CandidateLinked, TodoLinked, Scheduling,
      Deciding, Planned, ChunkFits, IsFinished, Finished, IsPrefill
<1>5. SeqLen(g) \in Nat /\ computed[g] \in Int
  BY <1>1, LengthsAreInt
<1>6. GroupLinked(g)'
  BY <1>1, <1>2, <1>4, <1>5
  DEF Inv, SeqTypeOK, MemSafe, MemTypeOK, AppendSlots, seqVars, queueVars,
      Linked, GroupLinked, TableLinked, CacheLinked, QueuesLinked,
      ResultsLinked, SelectedLinked, CandidateLinked, TodoLinked, Scheduling,
      Deciding, Planned, ChunkFits, IsFinished, Finished, IsPrefill
<1> QED
  BY <1>3, <1>6, LocalKeepsLinked

\* What the eviction does with its victim: its late output stops it, or it is
\* preempted.
RunStopsLate(v) ==
    /\ AsyncOutput /\ v \in outputQueue /\ StopStatus(v) \in Finished
    /\ status' = [status EXCEPT ![v] = StopStatus(v)]
    /\ Free(v)
    /\ reported' = reported \cup {v}
    /\ it' = WithoutVictim(v)
    /\ UNCHANGED <<stage, computed>>

RunPreempts(v) ==
    /\ AsyncOutput /\ v \in outputQueue => StopStatus(v) \notin Finished
    /\ PreemptedFrom(WithoutVictim(v), v)
    /\ Preempt(v)
    /\ UNCHANGED reported

LEMMA RunEvictsOutcomes ==
    ASSUME NEW v, RunEvicts(v)
    PROVE  RunStopsLate(v) \/ RunPreempts(v)
  BY PreemptLists DEF RunEvicts, RunStopsLate, RunPreempts

LEMMA WithoutVictimFields ==
    ASSUME Inv, NEW v \in Groups
    PROVE  /\ WithoutVictim(v) \in Iteration
           /\ WithoutVictim(v).todo = it.todo \ {v}
           /\ WithoutVictim(v).cand = IF v = it.cand THEN None ELSE it.cand
           /\ WithoutVictim(v).selected = it.selected
           /\ WithoutVictim(v).chunk = it.chunk
           /\ WithoutVictim(v).scheduled = it.scheduled
           /\ WithoutVictim(v).leftover = it.leftover
           /\ WithoutVictim(v).preempted = it.preempted
           /\ WithoutVictim(v).swappedOut = it.swappedOut
           /\ WithoutVictim(v).ignored = it.ignored
  BY CallIsIteration DEF WithoutVictim, Iteration

LEMMA RunEvictsIsLocal ==
    ASSUME Inv, NEW v \in Groups, RunEvicts(v)
    PROVE  Local(v)
<1> SUFFICES ASSUME NEW h \in Groups \ {v} PROVE Untouched(h)
  BY DEF Local, RunEvicts
<1>1. /\ UNCHANGED <<outLen, queueVars, binVars, ignoredQueue>>
      /\ outputQueue' = outputQueue \ {v} /\ None \notin Groups
  BY SchedulerAssumption DEF RunEvicts
<1>2. CASE RunStopsLate(v)
  BY <1>1, <1>2, WithoutVictimFields
  DEF Inv, SeqTypeOK, MemSafe, MemTypeOK, RunStopsLate, Free, Untouched,
      queueVars, binVars
<1>3. CASE RunPreempts(v)
  BY <1>1, <1>3, WithoutVictimFields, PreemptIsLocal
  DEF RunPreempts, Untouched, queueVars, binVars
<1> QED
  BY <1>2, <1>3, RunEvictsOutcomes

LEMMA RunEvictsKeepsLinked ==
    ASSUME Inv, Linked, NEW v \in Groups, RunEvicts(v)
    PROVE  Linked'
<1>1. /\ pc = "run" /\ pc' = pc /\ v # None
      /\ UNCHANGED <<outLen, waiting, running, swapped, asyncStopped>>
      /\ pendingSwapOut' = pendingSwapOut
      /\ v \in it.todo \/ v = it.cand
      /\ SeqLen(v)' = SeqLen(v)
  BY SchedulerAssumption DEF RunEvicts, queueVars, binVars, SeqLen
<1>2. /\ status[v] = "running" /\ v \notin it.selected
      /\ v \notin it.scheduled /\ v \notin it.leftover
      /\ v \notin it.preempted /\ v \notin it.swappedOut
      /\ v \notin waiting /\ v \notin swapped /\ v \notin asyncStopped
  BY <1>1
  DEF Linked, GroupLinked, TableLinked, CacheLinked, QueuesLinked,
      ResultsLinked, SelectedLinked, CandidateLinked, TodoLinked, Scheduling,
      Deciding, Planned, ChunkFits, IsFinished, Finished, IsPrefill
<1>3. ASSUME RunStopsLate(v)
      PROVE  GroupLinked(v)'
  BY <1>1, <1>2, <1>3, WithoutVictimFields
  DEF Inv, SeqTypeOK, MemSafe, MemTypeOK, RunStopsLate, Free, Linked,
      GroupLinked, TableLinked, CacheLinked, QueuesLinked, ResultsLinked,
      SelectedLinked, CandidateLinked, TodoLinked, Scheduling, Deciding,
      Planned, ChunkFits, IsFinished, Finished, IsPrefill
<1>4. ASSUME RunPreempts(v)
      PROVE  GroupLinked(v)'
  <2>1. /\ v \notin WithoutVictim(v).todo /\ WithoutVictim(v).cand # v
        /\ v \notin WithoutVictim(v).selected
        /\ v \notin WithoutVictim(v).scheduled
        /\ v \notin WithoutVictim(v).leftover
    BY <1>1, <1>2, WithoutVictimFields
  <2> QED
    BY <1>1, <1>2, <1>4, <2>1, WithoutVictimFields, PreemptKeepsLinked
    DEF RunPreempts
<1> QED
  BY <1>3, <1>4, RunEvictsOutcomes, RunEvictsIsLocal, LocalKeepsLinked

\* What _schedule_swapped does with a group: it ends, gives the group up,
\* passes it over, or admits it.
SwapInEnds ==
    /\ it' = [it EXCEPT !.todo = {}]
    /\ UNCHANGED <<status, swapped, memVars>>

SwapInGivesUp(g) ==
    /\ SwapInStatus(g) = "NEVER"
    /\ status' = [status EXCEPT ![g] = "aborted"]
    /\ Free(g)
    /\ swapped' = swapped \ {g}
    /\ it' = [it EXCEPT !.todo = @ \ {g}, !.ignored = @ \cup {g}]

SwapInPasses(g) ==
    /\ it' = [it EXCEPT !.todo = @ \ {g}]
    /\ UNCHANGED <<status, swapped, memVars>>

SwapInAdmits(g, n) ==
    /\ status[g] = "swapped" /\ computed[g] + n <= SeqLen(g)
    /\ CanSwapIn(g, SeqLen(g)) = "OK"
    /\ CanSchedule(n)
    /\ SwapInAndAppend(g, SeqLen(g))
    /\ status' = [status EXCEPT ![g] = "running"]
    /\ swapped' = swapped \ {g}
    /\ it' = [it EXCEPT !.todo = @ \ {g}, !.scheduled = @ \cup {g},
                        !.chunk[g] = n, !.tokens = @ + n, !.seqs = @ + 1]

LEMMA SwapInNextOutcomes ==
    ASSUME Inv, Linked, NEW g \in Groups, SwapInNext(g)
    PROVE  \/ SwapInEnds \/ SwapInGivesUp(g) \/ SwapInPasses(g)
           \/ \E n \in Nat \ {0} : SwapInAdmits(g, n)
<1> DEFINE n == NumNewTokens(g, "swapped")
           rest == [it EXCEPT !.todo = @ \ {g}]
           dropped == [rest EXCEPT !.ignored = @ \cup {g}]
           admitted == [rest EXCEPT !.scheduled = @ \cup {g}, !.chunk[g] = n,
                                    !.tokens = @ + n, !.seqs = @ + 1]
           Drops == /\ SwapInStatus(g) = "NEVER"
                    /\ status' = [status EXCEPT ![g] = "aborted"]
                    /\ Free(g)
                    /\ swapped' = swapped \ {g}
                    /\ it' = dropped
           Admits == /\ SwapInStatus(g) = "OK" /\ n > 0 /\ CanSchedule(n)
                     /\ SwapInAndAppend(g, SeqLen(g))
                     /\ status' = [status EXCEPT ![g] = "running"]
                     /\ swapped' = swapped \ {g}
                     /\ it' = admitted
<1>1. SwapInEnds \/ Drops \/ SwapInPasses(g) \/ Admits
  BY DEF SwapInNext, SwapInEnds, SwapInPasses
<1>2. "swapped" \notin Finished /\ CacheLinked(g)
  BY DEF Finished, Linked, GroupLinked
<1>3. n > 0 => /\ n \in Nat \ {0} /\ computed[g] + n <= SeqLen(g)
               /\ status[g] = "swapped"
  BY <1>2, NewTokensFit
<1> HIDE DEF n
<1>4. CASE Drops
  <2>1. dropped = [it EXCEPT !.todo = @ \ {g}, !.ignored = @ \cup {g}]
    BY CallIsIteration DEF Iteration
  <2> QED
    BY <1>4, <2>1 DEF SwapInGivesUp
<1>5. CASE Admits
  <2>1. admitted = [it EXCEPT !.todo = @ \ {g}, !.scheduled = @ \cup {g},
                        !.chunk[g] = n, !.tokens = @ + n, !.seqs = @ + 1]
    BY CallIsIteration DEF Iteration
  <2>2. CanSwapIn(g, SeqLen(g)) = "OK"
    BY <1>3, <1>5 DEF SwapInStatus
  <2> QED
    BY <1>3, <1>5, <2>1, <2>2 DEF SwapInAdmits
<1> QED
  BY <1>1, <1>4, <1>5

LEMMA SwapInNextIsLocal ==
    ASSUME Inv, Linked, NEW g \in Groups, SwapInNext(g)
    PROVE  Local(g)
<1> SUFFICES ASSUME NEW h \in Groups \ {g} PROVE Untouched(h)
  BY DEF Local, SwapInNext
<1>1. /\ UNCHANGED <<stage, computed, outLen, waiting, running, asyncStopped, binVars, outVars>>
      /\ pc = "swapIn"
  BY DEF SwapInNext
<1>2. CASE SwapInEnds
  BY <1>1, <1>2, CallIsIteration
  DEF SwapInEnds, Untouched, memVars, binVars, outVars, Iteration
<1>3. CASE SwapInGivesUp(g)
  BY <1>1, <1>3, CallIsIteration
  DEF Inv, SeqTypeOK, MemSafe, MemTypeOK, SwapInGivesUp, Free, Untouched,
      binVars, outVars, Iteration
<1>4. CASE SwapInPasses(g)
  BY <1>1, <1>4, CallIsIteration
  DEF SwapInPasses, Untouched, memVars, binVars, outVars, Iteration
<1>5. ASSUME NEW n \in Nat \ {0}, SwapInAdmits(g, n) PROVE Untouched(h)
  BY <1>1, <1>5, CallIsIteration
  DEF Inv, SeqTypeOK, MemSafe, MemTypeOK, SwapInAdmits, SwapInAndAppend,
      Untouched, binVars, outVars, Iteration
<1> QED
  BY <1>2, <1>3, <1>4, <1>5, SwapInNextOutcomes

LEMMA SwapInNextKeepsLinked ==
    ASSUME Inv, Linked, NEW g \in Groups, SwapInNext(g)
    PROVE  Linked'
<1>1. /\ UNCHANGED <<stage, computed, outLen, waiting, running, asyncStopped, pendingSwapOut>>
      /\ pc = "swapIn" /\ pc' = pc /\ g \in it.todo
      /\ SeqLen(g)' = SeqLen(g)
  BY DEF SwapInNext, binVars, SeqLen
<1>2. /\ status[g] \in {"swapped", "stopped", "capped"} /\ g \in swapped
      /\ g \notin it.selected /\ it.cand # g
      /\ g \notin it.leftover /\ g \notin it.scheduled
      /\ g \notin it.preempted /\ g \notin it.swappedOut
      /\ g \notin asyncStopped
  BY <1>1
  DEF Linked, GroupLinked, TableLinked, CacheLinked, QueuesLinked,
      ResultsLinked, SelectedLinked, CandidateLinked, TodoLinked, Scheduling,
      Deciding, Planned, ChunkFits, IsFinished, Finished, IsPrefill
<1>3. ASSUME SwapInEnds
      PROVE  GroupLinked(g)'
  BY <1>1, <1>2, <1>3, CallIsIteration
  DEF SwapInEnds, memVars, Iteration, Linked, GroupLinked, TableLinked,
      CacheLinked, QueuesLinked, ResultsLinked, SelectedLinked,
      CandidateLinked, TodoLinked, Scheduling, Deciding, Planned, ChunkFits,
      IsFinished, Finished, IsPrefill
<1>4. ASSUME SwapInGivesUp(g)
      PROVE  GroupLinked(g)'
  <2>1. /\ it'.todo = it.todo \ {g} /\ it'.ignored = it.ignored \cup {g}
        /\ it'.scheduled = it.scheduled /\ it'.cand = it.cand
        /\ it'.selected = it.selected /\ it'.leftover = it.leftover
        /\ it'.preempted = it.preempted /\ it'.swappedOut = it.swappedOut
    BY <1>4, CallIsIteration DEF SwapInGivesUp, Iteration
  <2>2. /\ status'[g] = "aborted" /\ device'[g] = "none"
        /\ swapped' = swapped \ {g}
    BY <1>4 DEF Inv, SeqTypeOK, MemSafe, MemTypeOK, SwapInGivesUp, Free
  <2>3. status[g] = "swapped"
    BY <1>4 DEF SwapInGivesUp, SwapInStatus
  <2> QED
    BY <1>1, <1>2, <2>1, <2>2, <2>3
    DEF Linked, GroupLinked, TableLinked, CacheLinked, QueuesLinked,
        ResultsLinked, SelectedLinked, CandidateLinked, TodoLinked, Scheduling,
        Deciding, Planned, ChunkFits, IsFinished, Finished, IsPrefill
<1>5. ASSUME SwapInPasses(g)
      PROVE  GroupLinked(g)'
  BY <1>1, <1>2, <1>5, CallIsIteration
  DEF SwapInPasses, memVars, Iteration, Linked, GroupLinked, TableLinked,
      CacheLinked, QueuesLinked, ResultsLinked, SelectedLinked,
      CandidateLinked, TodoLinked, Scheduling, Deciding, Planned, ChunkFits,
      IsFinished, Finished, IsPrefill
<1>6. ASSUME NEW n \in Nat \ {0}, SwapInAdmits(g, n)
      PROVE  GroupLinked(g)'
  <2>1. /\ it'.todo = it.todo \ {g} /\ it'.scheduled = it.scheduled \cup {g}
        /\ it'.chunk[g] = n /\ it'.cand = it.cand
        /\ it'.selected = it.selected /\ it'.leftover = it.leftover
        /\ it'.preempted = it.preempted /\ it'.swappedOut = it.swappedOut
        /\ it'.ignored = it.ignored
    BY <1>6, CallIsIteration DEF SwapInAdmits, Iteration
  <2>2. SeqLen(g) \in Nat /\ computed[g] \in Int
    BY LengthsAreInt
  <2> QED
    BY <1>1, <1>2, <1>6, <2>1, <2>2
    DEF Inv, SeqTypeOK, MemSafe, MemTypeOK, SwapInAdmits, SwapInAndAppend,
        Linked, GroupLinked, TableLinked, CacheLinked, QueuesLinked,
        ResultsLinked, SelectedLinked, CandidateLinked, TodoLinked, Scheduling,
        Deciding, Planned, ChunkFits, IsFinished, Finished, IsPrefill
<1> QED
  BY <1>3, <1>4, <1>5, <1>6, SwapInNextOutcomes, SwapInNextIsLocal,
     LocalKeepsLinked

\* What _schedule_prefills does with a group: it passes over one that has been
\* stopped, gives up one that is too long, ends, or admits the group.
PrefillSkips(g) ==
    /\ status[g] # "waiting"
    /\ waiting' = waiting \ {g}
    /\ it' = [it EXCEPT !.todo = @ \ {g}, !.ignored = @ \cup {g}]
    /\ UNCHANGED <<status, memVars>>

PrefillGivesUp(g) ==
    /\ status[g] = "waiting"
    /\ NumNewTokens(g, "waiting") > MaxModelLen \/ CanAllocate(SeqLen(g)) = "NEVER"
    /\ status' = [status EXCEPT ![g] = "ignored"]
    /\ waiting' = waiting \ {g}
    /\ it' = [it EXCEPT !.todo = @ \ {g}, !.ignored = @ \cup {g}]
    /\ UNCHANGED memVars

PrefillEnds ==
    /\ it' = [it EXCEPT !.todo = {}]
    /\ UNCHANGED <<status, waiting, memVars>>

PrefillAdmits(g, n) ==
    /\ status[g] = "waiting" /\ computed[g] + n <= SeqLen(g)
    /\ CanAllocate(SeqLen(g)) = "OK" /\ CanSchedule(n)
    /\ Allocate(g, SeqLen(g))
    /\ status' = [status EXCEPT ![g] = "running"]
    /\ waiting' = waiting \ {g}
    /\ it' = [it EXCEPT !.todo = @ \ {g}, !.scheduled = @ \cup {g},
                        !.chunk[g] = n, !.tokens = @ + n, !.seqs = @ + 1]

LEMMA PrefillNextOutcomes ==
    ASSUME Inv, Linked, NEW g \in Groups, PrefillNext(g)
    PROVE  \/ PrefillSkips(g) \/ PrefillGivesUp(g) \/ PrefillEnds
           \/ \E n \in Nat \ {0} : PrefillAdmits(g, n)
<1> DEFINE n == NumNewTokens(g, "waiting")
<1>1. "waiting" \notin Finished /\ CacheLinked(g)
  BY DEF Finished, Linked, GroupLinked
<1>2. n > 0 => n \in Nat \ {0} /\ computed[g] + n <= SeqLen(g)
  BY <1>1, NewTokensFit
<1> QED
  BY <1>2
  DEF PrefillNext, PrefillSkips, PrefillGivesUp, PrefillEnds, PrefillAdmits

LEMMA PrefillNextIsLocal ==
    ASSUME Inv, Linked, NEW g \in Groups, PrefillNext(g)
    PROVE  Local(g)
<1> SUFFICES ASSUME NEW h \in Groups \ {g} PROVE Untouched(h)
  BY DEF Local, PrefillNext
<1>1. /\ UNCHANGED <<stage, computed, outLen, running, swapped, asyncStopped, binVars, outVars>>
      /\ pc = "prefill"
  BY DEF PrefillNext
<1>2. CASE PrefillSkips(g)
  BY <1>1, <1>2, CallIsIteration
  DEF PrefillSkips, Untouched, memVars, binVars, outVars, Iteration
<1>3. CASE PrefillGivesUp(g)
  BY <1>1, <1>3, CallIsIteration
  DEF Inv, SeqTypeOK, MemSafe, MemTypeOK, PrefillGivesUp, Untouched, memVars,
      binVars, outVars, Iteration
<1>4. CASE PrefillEnds
  BY <1>1, <1>4, CallIsIteration
  DEF PrefillEnds, Untouched, memVars, binVars, outVars, Iteration
<1>5. ASSUME NEW n \in Nat \ {0}, PrefillAdmits(g, n) PROVE Untouched(h)
  BY <1>1, <1>5, CallIsIteration
  DEF Inv, SeqTypeOK, MemSafe, MemTypeOK, PrefillAdmits, Allocate, Untouched,
      binVars, outVars, Iteration
<1> QED
  BY <1>2, <1>3, <1>4, <1>5, PrefillNextOutcomes

LEMMA PrefillNextKeepsLinked ==
    ASSUME Inv, Linked, NEW g \in Groups, PrefillNext(g)
    PROVE  Linked'
<1>1. /\ UNCHANGED <<stage, computed, outLen, running, swapped, asyncStopped, pendingSwapOut>>
      /\ pc = "prefill" /\ pc' = pc /\ g \in it.todo
      /\ SeqLen(g)' = SeqLen(g)
  BY DEF PrefillNext, binVars, SeqLen
<1>2. /\ status[g] \in {"waiting", "stopped", "capped"} /\ g \in waiting
      /\ g \notin it.selected /\ it.cand # g
      /\ g \notin it.leftover /\ g \notin it.scheduled
      /\ g \notin it.preempted /\ g \notin it.swappedOut
      /\ g \notin asyncStopped
  BY <1>1
  DEF Linked, GroupLinked, TableLinked, CacheLinked, QueuesLinked,
      ResultsLinked, SelectedLinked, CandidateLinked, TodoLinked, Scheduling,
      Deciding, Planned, ChunkFits, IsFinished, Finished, IsPrefill
<1>3. ASSUME PrefillSkips(g)
      PROVE  GroupLinked(g)'
  BY <1>1, <1>2, <1>3, CallIsIteration
  DEF PrefillSkips, memVars, Iteration, Linked, GroupLinked, TableLinked,
      CacheLinked, QueuesLinked, ResultsLinked, SelectedLinked,
      CandidateLinked, TodoLinked, Scheduling, Deciding, Planned, ChunkFits,
      IsFinished, Finished, IsPrefill
<1>4. ASSUME PrefillGivesUp(g)
      PROVE  GroupLinked(g)'
  BY <1>1, <1>2, <1>4, CallIsIteration
  DEF Inv, SeqTypeOK, MemSafe, MemTypeOK, PrefillGivesUp, memVars, Iteration,
      Linked, GroupLinked, TableLinked, CacheLinked, QueuesLinked,
      ResultsLinked, SelectedLinked, CandidateLinked, TodoLinked, Scheduling,
      Deciding, Planned, ChunkFits, IsFinished, Finished, IsPrefill
<1>5. ASSUME PrefillEnds
      PROVE  GroupLinked(g)'
  BY <1>1, <1>2, <1>5, CallIsIteration
  DEF PrefillEnds, memVars, Iteration, Linked, GroupLinked, TableLinked,
      CacheLinked, QueuesLinked, ResultsLinked, SelectedLinked,
      CandidateLinked, TodoLinked, Scheduling, Deciding, Planned, ChunkFits,
      IsFinished, Finished, IsPrefill
<1>6. ASSUME NEW n \in Nat \ {0}, PrefillAdmits(g, n)
      PROVE  GroupLinked(g)'
  <2>1. /\ it'.todo = it.todo \ {g} /\ it'.scheduled = it.scheduled \cup {g}
        /\ it'.chunk[g] = n /\ it'.cand = it.cand
        /\ it'.selected = it.selected /\ it'.leftover = it.leftover
        /\ it'.preempted = it.preempted /\ it'.swappedOut = it.swappedOut
        /\ it'.ignored = it.ignored
    BY <1>6, CallIsIteration DEF PrefillAdmits, Iteration
  <2>2. SeqLen(g) \in Nat /\ computed[g] \in Int
    BY LengthsAreInt
  <2> QED
    BY <1>1, <1>2, <1>6, <2>1, <2>2
    DEF Inv, SeqTypeOK, MemSafe, MemTypeOK, PrefillAdmits, Allocate, Linked,
        GroupLinked, TableLinked, CacheLinked, QueuesLinked, ResultsLinked,
        SelectedLinked, CandidateLinked, TodoLinked, Scheduling, Deciding,
        Planned, ChunkFits, IsFinished, Finished, IsPrefill
<1> QED
  BY <1>3, <1>4, <1>5, <1>6, PrefillNextOutcomes, PrefillNextIsLocal,
     LocalKeepsLinked

LEMMA DullAbortIsLocal ==
    ASSUME Inv, NEW g \in Groups, DullAbort(g)
    PROVE  Local(g)
<1> SUFFICES ASSUME NEW h \in Groups \ {g} PROVE Untouched(h)
  BY DEF Local, DullAbort
<1> QED
  BY CallIsIteration
  DEF Inv, SeqTypeOK, MemSafe, MemTypeOK, DullAbort, Free, Untouched, binVars,
      outVars, Iteration

LEMMA DullAbortKeepsLinked ==
    ASSUME Inv, Linked, NEW g \in Groups, DullAbort(g)
    PROVE  Linked'
<1>1. GroupLinked(g)'
  <2>1. /\ UNCHANGED <<stage, computed, outLen, running, asyncStopped, pendingSwapOut>>
        /\ pc = "dull" /\ pc' = pc /\ g \in it.todo
        /\ SeqLen(g)' = SeqLen(g)
        /\ status'[g] = "aborted" /\ Free(g)
        /\ waiting' = waiting \ {g} /\ swapped' = swapped \ {g}
        /\ it'.ignored = it.ignored \cup {g} /\ it'.todo = it.todo \ {g}
        /\ it'.selected = it.selected /\ it'.cand = it.cand
        /\ it'.scheduled = it.scheduled /\ it'.leftover = it.leftover
        /\ it'.preempted = it.preempted /\ it'.swappedOut = it.swappedOut
    BY CallIsIteration
    DEF DullAbort, binVars, SeqLen, Iteration, Inv, SeqTypeOK
  <2>2. /\ status[g] \in {"waiting", "swapped", "stopped", "capped"}
        /\ g \notin it.selected /\ it.cand # g
        /\ g \notin it.scheduled /\ g \notin it.swappedOut
        /\ g \notin asyncStopped
    BY <2>1
    DEF Linked, GroupLinked, TableLinked, CacheLinked, QueuesLinked,
        ResultsLinked, SelectedLinked, CandidateLinked, TodoLinked, Scheduling,
        Deciding, Planned, ChunkFits, IsFinished, Finished, IsPrefill
  <2> QED
    BY <2>1, <2>2
    DEF Inv, SeqTypeOK, MemSafe, MemTypeOK, Free, Linked, GroupLinked,
        TableLinked, CacheLinked, QueuesLinked, ResultsLinked, SelectedLinked,
        CandidateLinked, TodoLinked, Scheduling, Deciding, Planned, ChunkFits,
        IsFinished, Finished, IsPrefill
<1> QED
  BY <1>1, DullAbortIsLocal, LocalKeepsLinked

LEMMA AdvanceIsLocal ==
    ASSUME Inv, NEW g \in Groups, Advance(g)
    PROVE  Local(g)
<1> SUFFICES ASSUME NEW h \in Groups \ {g} PROVE Untouched(h)
  BY DEF Local, Advance
<1> QED
  BY CallIsIteration
  DEF Inv, SeqTypeOK, MemSafe, MemTypeOK, Advance, Untouched, memVars,
      queueVars, binVars, Iteration

\* The tokens that a group was given are computed; the last of them samples
\* the next one, which is not.
LEMMA AdvanceKeepsLinked ==
    ASSUME Inv, Linked, NEW g \in Groups, Advance(g)
    PROVE  Linked'
<1>1. /\ UNCHANGED <<status, memVars, queueVars, pendingSwapOut>>
      /\ pc = "advance" /\ pc' = pc /\ g \in it.todo
      /\ it'.todo = it.todo \ {g} /\ it'.ignored = it.ignored
      /\ it'.selected = it.selected /\ it'.cand = it.cand
      /\ it'.scheduled = it.scheduled /\ it'.leftover = it.leftover
      /\ it'.preempted = it.preempted /\ it'.swappedOut = it.swappedOut
  BY CallIsIteration DEF Advance, binVars, Iteration
<1>2. /\ g \in it.scheduled /\ g \notin it.selected /\ it.cand # g
      /\ IsFinished(g) \/ Planned(g)
  BY <1>1
  DEF Linked, GroupLinked, TableLinked, CacheLinked, QueuesLinked,
      ResultsLinked, SelectedLinked, CandidateLinked, TodoLinked, Scheduling,
      Deciding, Planned, ChunkFits, IsFinished, Finished, IsPrefill
<1>3. GroupLinked(g)'
  <2>1. ASSUME IsFinished(g)
        PROVE  GroupLinked(g)'
    <3>1. UNCHANGED <<stage, computed, outLen>> /\ SeqLen(g)' = SeqLen(g)
      BY <2>1 DEF Advance, SeqLen
    <3> QED
      BY <1>1, <1>2, <2>1, <3>1
      DEF memVars, queueVars, Linked, GroupLinked, TableLinked, CacheLinked,
          QueuesLinked, ResultsLinked, SelectedLinked, CandidateLinked,
          TodoLinked, Scheduling, Deciding, Planned, ChunkFits, IsFinished,
          Finished, IsPrefill
  <2>2. ASSUME Planned(g), ~IsFinished(g)
        PROVE  GroupLinked(g)'
    <3>1. /\ it.chunk[g] \in Int /\ computed[g] \in Int
          /\ outLen[g] \in Nat /\ PromptLen[g] \in Nat
          /\ SeqLen(g) \in Nat
      BY CallIsIteration, LengthsAreInt, SchedulerAssumption DEF Iteration
    <3>2. computed'[g] = computed[g] + it.chunk[g]
      BY <2>2 DEF Advance, Inv, SeqTypeOK
    <3>3. SeqLen(g)' = IF computed'[g] = SeqLen(g) THEN SeqLen(g) + 1 ELSE SeqLen(g)
      BY <2>2, <3>1, <3>2 DEF Advance, Inv, SeqTypeOK, SeqLen
    <3>4. computed'[g] <= SeqLen(g) /\ 0 <= computed'[g]
      BY <2>2, <3>1, <3>2
      DEF Planned, ChunkFits, Linked, GroupLinked, TableLinked, CacheLinked,
          QueuesLinked, ResultsLinked, SelectedLinked, CandidateLinked,
          TodoLinked, Scheduling, Deciding, Planned, ChunkFits, IsFinished,
          Finished, IsPrefill
    <3>5. 0 <= computed'[g] /\ computed'[g] < SeqLen(g)' /\ computed'[g] <= slots[g]
      BY <2>2, <3>1, <3>2, <3>3, <3>4 DEF Planned
    <3>6. status[g] = "running"
      BY <2>2 DEF Planned
    <3> QED
      BY <1>1, <1>2, <3>5, <3>6
      DEF memVars, queueVars, Linked, GroupLinked, TableLinked, CacheLinked,
          QueuesLinked, ResultsLinked, SelectedLinked, CandidateLinked,
          TodoLinked, Scheduling, Deciding, Planned, ChunkFits, IsFinished,
          Finished, IsPrefill
  <2> QED
    BY <1>2, <2>1, <2>2
<1> QED
  BY <1>3, AdvanceIsLocal, LocalKeepsLinked

LEMMA ProcessOutputIsLocal ==
    ASSUME Inv, NEW g \in Groups, ProcessOutput(g)
    PROVE  Local(g)
<1> SUFFICES ASSUME NEW h \in Groups \ {g} PROVE Untouched(h)
  BY DEF Local, ProcessOutput
<1> QED
  BY CallIsIteration
  DEF Inv, SeqTypeOK, MemSafe, MemTypeOK, ProcessOutput, Free, Untouched,
      memVars, queueVars, binVars, Iteration

LEMMA ProcessOutputKeepsLinked ==
    ASSUME Inv, Linked, NEW g \in Groups, ProcessOutput(g)
    PROVE  Linked'
<1>1. /\ UNCHANGED <<stage, computed, outLen, queueVars, pendingSwapOut>>
      /\ pc \in {"lateOutputs", "outputs"} /\ pc' = pc
      /\ SeqLen(g)' = SeqLen(g)
      /\ it'.todo = it.todo /\ it'.ignored = it.ignored
      /\ it'.selected = it.selected /\ it'.cand = it.cand
      /\ it'.chunk = it.chunk
      /\ it'.scheduled = it.scheduled /\ it'.leftover = it.leftover
      /\ it'.preempted = it.preempted /\ it'.swappedOut = it.swappedOut
  BY CallIsIteration DEF ProcessOutput, binVars, SeqLen, Iteration
<1>2. g \notin it.selected /\ it.cand # g
  BY <1>1
  DEF Linked, GroupLinked, TableLinked, CacheLinked, QueuesLinked,
      ResultsLinked, SelectedLinked, CandidateLinked, TodoLinked, Scheduling,
      Deciding, Planned, ChunkFits, IsFinished, Finished, IsPrefill
<1>3. GroupLinked(g)'
  <2>1. ASSUME UNCHANGED <<status, memVars>>
        PROVE  GroupLinked(g)'
    BY <1>1, <1>2, <2>1
    DEF memVars, queueVars, Linked, GroupLinked, TableLinked, CacheLinked,
        QueuesLinked, ResultsLinked, SelectedLinked, CandidateLinked,
        TodoLinked, Scheduling, Deciding, Planned, ChunkFits, IsFinished,
        Finished, IsPrefill
  <2>2. ASSUME ~IsFinished(g), StopStatus(g) \in Finished,
               status' = [status EXCEPT ![g] = StopStatus(g)], Free(g)
        PROVE  GroupLinked(g)'
    <3>1. status'[g] \in {"stopped", "capped"}
      BY <2>2 DEF Inv, SeqTypeOK, StopStatus, IsFinished
    <3>2. device'[g] = "none" /\ slots'[g] = 0
      BY <2>2 DEF Inv, SeqTypeOK, MemSafe, MemTypeOK, Free
    <3>3. g \notin asyncStopped
      BY <2>2
      DEF Linked, GroupLinked, TableLinked, CacheLinked, QueuesLinked,
          ResultsLinked, SelectedLinked, CandidateLinked, TodoLinked,
          Scheduling, Deciding, Planned, ChunkFits, IsFinished, Finished,
          IsPrefill
    <3> QED
      BY <1>1, <1>2, <3>1, <3>2, <3>3
      DEF queueVars, Linked, GroupLinked, TableLinked, CacheLinked,
          QueuesLinked, ResultsLinked, SelectedLinked, CandidateLinked,
          TodoLinked, Scheduling, Deciding, Planned, ChunkFits, IsFinished,
          Finished, IsPrefill
  <2> QED
    BY <2>1, <2>2 DEF ProcessOutput
<1> QED
  BY <1>3, ProcessOutputIsLocal, LocalKeepsLinked

-----------------------------------------------------------------------------
(* Steps from one loop to the next.                                        *)

\* Such a step changes no sequence and no table.
LEMMA FrozenKeepsCache ==
    ASSUME NEW h \in Groups, GroupLinked(h),
           UNCHANGED <<seqVars, memVars, asyncStopped>>
    PROVE  /\ TableLinked(h)' /\ CacheLinked(h)'
           /\ status'[h] = status[h] /\ slots'[h] = slots[h]
           /\ computed'[h] = computed[h] /\ SeqLen(h)' = SeqLen(h)
           /\ (IsFinished(h))' = IsFinished(h)
  BY
  DEF GroupLinked, TableLinked, CacheLinked, seqVars, memVars, SeqLen,
      IsPrefill, IsFinished

\* A step that changes nothing.
LEMMA StutterKeepsLinked ==
    ASSUME Linked, UNCHANGED vars
    PROVE  Linked'
<1> SUFFICES ASSUME NEW h \in Groups PROVE GroupLinked(h)'
  BY DEF Linked
<1>1. UNCHANGED <<seqVars, memVars, queueVars, pendingSwapOut, pc, it>>
  BY DEF vars, binVars
<1> QED
  BY <1>1
  DEF seqVars, memVars, queueVars, SeqLen, Linked, GroupLinked, TableLinked,
      CacheLinked, QueuesLinked, ResultsLinked, SelectedLinked,
      CandidateLinked, TodoLinked, Scheduling, Deciding, Planned, ChunkFits,
      IsFinished, Finished, IsPrefill

LEMMA InitLinked == Init => Linked
<1> SUFFICES ASSUME Init, NEW h \in Groups PROVE GroupLinked(h)
  BY DEF Linked
<1>1. SeqLen(h) > 0
  BY SchedulerAssumption DEF Init, SeqLen
<1>2. /\ it.cand = None /\ it.selected = {} /\ it.scheduled = {}
      /\ it.leftover = {} /\ it.preempted = {} /\ it.swappedOut = {}
      /\ it.ignored = {} /\ it.todo = {}
  BY DEF Init, NoIteration
<1>3. status[h] = "new" /\ computed[h] = 0 /\ stage[h] = "prefill" /\ device[h] = "none"
  BY DEF Init, MemInit
<1> QED
  BY <1>1, <1>2, <1>3, SchedulerAssumption
  DEF Init, Linked, GroupLinked, TableLinked, CacheLinked, QueuesLinked,
      ResultsLinked, SelectedLinked, CandidateLinked, TodoLinked, Scheduling,
      Deciding, Planned, ChunkFits, IsFinished, Finished, IsPrefill

\* A call that has not begun has no lists.
LEMMA EmptyLists ==
    ASSUME NEW h \in Groups
    PROVE  /\ NoIteration.cand # h /\ h \notin NoIteration.selected
           /\ h \notin NoIteration.scheduled /\ h \notin NoIteration.leftover
           /\ h \notin NoIteration.preempted /\ h \notin NoIteration.swappedOut
           /\ h \notin NoIteration.ignored /\ h \notin NoIteration.todo
  BY SchedulerAssumption DEF NoIteration

LEMMA BeginScheduleKeepsLinked ==
    ASSUME Inv, Linked, BeginSchedule
    PROVE  Linked'
<1> SUFFICES ASSUME NEW h \in Groups PROVE GroupLinked(h)'
  BY DEF Linked
<1>1. /\ UNCHANGED <<seqVars, memVars, waiting, swapped, asyncStopped>>
      /\ pc = "idle" /\ pc' = "free" /\ running' = Unfinished(running)
  BY DEF BeginSchedule
<1>2. /\ it'.cand # h /\ h \notin it'.selected
      /\ h \notin it'.scheduled /\ h \notin it'.leftover
      /\ h \notin it'.preempted /\ h \notin it'.swappedOut
      /\ h \notin it'.ignored /\ h \notin it'.todo
  BY SchedulerAssumption DEF BeginSchedule, NoIteration
<1>3. h \in running' => status[h] = "running"
  BY <1>1
  DEF Unfinished, Linked, GroupLinked, TableLinked, CacheLinked, QueuesLinked,
      ResultsLinked, SelectedLinked, CandidateLinked, TodoLinked, Scheduling,
      Deciding, Planned, ChunkFits, IsFinished, Finished, IsPrefill
<1>4. TableLinked(h)' /\ CacheLinked(h)' /\ status'[h] = status[h]
  BY <1>1, FrozenKeepsCache DEF Linked
<1>5. QueuesLinked(h)'
  BY <1>1, <1>3, <1>4 DEF Linked, GroupLinked, QueuesLinked
<1> QED
  BY <1>2, <1>4, <1>5
  DEF GroupLinked, ResultsLinked, SelectedLinked, CandidateLinked, TodoLinked

LEMMA ChooseBinKeepsLinked ==
    ASSUME Inv, Linked, ChooseBin
    PROVE  Linked'
<1> SUFFICES ASSUME NEW h \in Groups PROVE GroupLinked(h)'
  BY DEF Linked
<1>1. /\ UNCHANGED <<seqVars, memVars, queueVars, it>>
      /\ pc = "free" /\ pc' \in {"preempt", "commit"}
  BY DEF ChooseBin
<1> QED
  BY <1>1
  DEF seqVars, memVars, queueVars, SeqLen, Linked, GroupLinked, TableLinked,
      CacheLinked, QueuesLinked, ResultsLinked, SelectedLinked,
      CandidateLinked, TodoLinked, Scheduling, Deciding, Planned, ChunkFits,
      IsFinished, Finished, IsPrefill

LEMMA BuildProcessListKeepsLinked ==
    ASSUME Inv, Linked, BuildProcessList
    PROVE  Linked'
<1> SUFFICES ASSUME NEW h \in Groups PROVE GroupLinked(h)'
  BY DEF Linked
<1>1. /\ UNCHANGED <<seqVars, memVars, queueVars>>
      /\ pc = "preempt" /\ pc' = "process"
  BY DEF BuildProcessList
<1>2. /\ it'.cand = it.cand /\ it'.selected = it.selected
      /\ it'.scheduled = it.scheduled /\ it'.leftover = it.leftover
      /\ it'.preempted = it.preempted /\ it'.swappedOut = it.swappedOut
      /\ it'.ignored = it.ignored
  <2>1. \E t, c, q : \/ it' = [it EXCEPT !.todo = t, !.seqCap = c, !.quota = q]
                    \/ it' = [it EXCEPT !.todo = t, !.quota = q]
    BY DEF BuildProcessList
  <2> QED
    BY <2>1, CallIsIteration DEF Iteration
<1> QED
  BY <1>1, <1>2
  DEF seqVars, memVars, queueVars, SeqLen, Linked, GroupLinked, TableLinked,
      CacheLinked, QueuesLinked, ResultsLinked, SelectedLinked,
      CandidateLinked, TodoLinked, Scheduling, Deciding, Planned, ChunkFits,
      IsFinished, Finished, IsPrefill

LEMMA EndProcessKeepsLinked ==
    ASSUME Inv, Linked, EndProcess
    PROVE  Linked'
<1> SUFFICES ASSUME NEW h \in Groups PROVE GroupLinked(h)'
  BY DEF Linked
<1>1. /\ UNCHANGED <<seqVars, memVars, queueVars, it>>
      /\ pc = "process" /\ pc' = "apply" /\ it.todo = {}
  BY DEF EndProcess
<1> QED
  BY <1>1
  DEF seqVars, memVars, queueVars, SeqLen, Linked, GroupLinked, TableLinked,
      CacheLinked, QueuesLinked, ResultsLinked, SelectedLinked,
      CandidateLinked, TodoLinked, Scheduling, Deciding, Planned, ChunkFits,
      IsFinished, Finished, IsPrefill

LEMMA EnterChunkedKeepsLinked ==
    ASSUME Inv, Linked, EnterChunked
    PROVE  Linked'
<1> SUFFICES ASSUME NEW h \in Groups PROVE GroupLinked(h)'
  BY DEF Linked
<1>1. /\ UNCHANGED <<seqVars, memVars, queueVars>>
      /\ pc = "free" /\ pc' = "run"
  BY DEF EnterChunked
<1>2. /\ it'.todo = running
      /\ it'.cand = it.cand /\ it'.selected = it.selected
      /\ it'.scheduled = it.scheduled /\ it'.leftover = it.leftover
      /\ it'.preempted = it.preempted /\ it'.swappedOut = it.swappedOut
      /\ it'.ignored = it.ignored
  BY CallIsIteration DEF EnterChunked, Iteration
<1> QED
  BY <1>1, <1>2
  DEF seqVars, memVars, queueVars, SeqLen, Linked, GroupLinked, TableLinked,
      CacheLinked, QueuesLinked, ResultsLinked, SelectedLinked,
      CandidateLinked, TodoLinked, Scheduling, Deciding, Planned, ChunkFits,
      IsFinished, Finished, IsPrefill

LEMMA EndRunKeepsLinked ==
    ASSUME Inv, Linked, EndRun
    PROVE  Linked'
<1> SUFFICES ASSUME NEW h \in Groups PROVE GroupLinked(h)'
  BY DEF Linked
<1>1. /\ UNCHANGED <<seqVars, memVars, queueVars>>
      /\ pc = "run" /\ pc' = "swapIn" /\ it.cand = None /\ h # None
  BY SchedulerAssumption DEF EndRun
<1>2. /\ it'.todo \in {swapped, {}}
      /\ it'.cand = it.cand /\ it'.selected = it.selected
      /\ it'.scheduled = it.scheduled /\ it'.leftover = it.leftover
      /\ it'.preempted = it.preempted /\ it'.swappedOut = it.swappedOut
      /\ it'.ignored = it.ignored /\ it'.chunk = it.chunk
  BY CallIsIteration DEF EndRun, Iteration
<1> QED
  BY <1>1, <1>2
  DEF seqVars, memVars, queueVars, SeqLen, Linked, GroupLinked, TableLinked,
      CacheLinked, QueuesLinked, ResultsLinked, SelectedLinked,
      CandidateLinked, TodoLinked, Scheduling, Deciding, Planned, ChunkFits,
      IsFinished, Finished, IsPrefill

LEMMA EndSwapInKeepsLinked ==
    ASSUME Inv, Linked, EndSwapIn
    PROVE  Linked'
<1> SUFFICES ASSUME NEW h \in Groups PROVE GroupLinked(h)'
  BY DEF Linked
<1>1. /\ UNCHANGED <<seqVars, memVars, queueVars>>
      /\ pc = "swapIn" /\ pc' = "prefill"
  BY DEF EndSwapIn
<1>2. /\ it'.todo = waiting
      /\ it'.cand = it.cand /\ it'.selected = it.selected
      /\ it'.scheduled = it.scheduled /\ it'.leftover = it.leftover
      /\ it'.preempted = it.preempted /\ it'.swappedOut = it.swappedOut
      /\ it'.ignored = it.ignored /\ it'.chunk = it.chunk
  BY CallIsIteration DEF EndSwapIn, Iteration
<1> QED
  BY <1>1, <1>2
  DEF seqVars, memVars, queueVars, SeqLen, Linked, GroupLinked, TableLinked,
      CacheLinked, QueuesLinked, ResultsLinked, SelectedLinked,
      CandidateLinked, TodoLinked, Scheduling, Deciding, Planned, ChunkFits,
      IsFinished, Finished, IsPrefill

\* When the call has decided, no group is half decided.
LEMMA DecidedIsDone ==
    ASSUME Linked, Decided, NEW h \in Groups
    PROVE  /\ pc \in {"apply", "prefill", "commit"}
           /\ h \notin it.selected /\ it.cand # h
  BY
  DEF Decided, Linked, GroupLinked, TableLinked, CacheLinked, QueuesLinked,
      ResultsLinked, SelectedLinked, CandidateLinked, TodoLinked, Scheduling,
      Deciding, Planned, ChunkFits, IsFinished, Finished, IsPrefill

LEMMA CommitKeepsLinked ==
    ASSUME Inv, Linked, Commit
    PROVE  Linked'
<1> SUFFICES ASSUME NEW h \in Groups PROVE GroupLinked(h)'
  BY DEF Linked
<1>1. /\ UNCHANGED <<seqVars, memVars, swapped, asyncStopped>>
      /\ pc \in {"apply", "prefill", "commit"} /\ pc' = "dull"
      /\ h \notin it.selected /\ it.cand # h
      /\ waiting' = waiting \cup it.preempted
      /\ running' = it.scheduled \cup it.leftover
  BY DecidedIsDone DEF Commit, NewRunning
<1>2. /\ it'.todo \in {waiting' \cup swapped, {}}
      /\ it'.cand = it.cand /\ it'.selected = it.selected
      /\ it'.scheduled = it.scheduled /\ it'.leftover = it.leftover
      /\ it'.preempted = it.preempted /\ it'.swappedOut = it.swappedOut
      /\ it'.ignored = it.ignored /\ it'.chunk = it.chunk
  BY CallIsIteration DEF Commit, Iteration
<1> QED
  BY <1>1, <1>2
  DEF seqVars, memVars, SeqLen, Linked, GroupLinked, TableLinked, CacheLinked,
      QueuesLinked, ResultsLinked, SelectedLinked, CandidateLinked, TodoLinked,
      Scheduling, Deciding, Planned, ChunkFits, IsFinished, Finished, IsPrefill

LEMMA EndScheduleKeepsLinked ==
    ASSUME Inv, Linked, EndSchedule
    PROVE  Linked'
<1> SUFFICES ASSUME NEW h \in Groups PROVE GroupLinked(h)'
  BY DEF Linked
<1>1. /\ UNCHANGED <<seqVars, memVars, waiting, running, asyncStopped>>
      /\ pc = "dull" /\ pc' \in {"lateOutputs", "advance"}
      /\ swapped' = swapped \cup it.swappedOut
  BY DEF EndSchedule
<1>2. /\ it'.todo = it.scheduled
      /\ it'.cand = it.cand /\ it'.selected = it.selected
      /\ it'.scheduled = it.scheduled /\ it'.leftover = it.leftover
      /\ it'.preempted = it.preempted /\ it'.swappedOut = it.swappedOut
      /\ it'.ignored = it.ignored /\ it'.chunk = it.chunk
  BY CallIsIteration DEF EndSchedule, Iteration
<1> QED
  BY <1>1, <1>2
  DEF seqVars, memVars, SeqLen, Linked, GroupLinked, TableLinked, CacheLinked,
      QueuesLinked, ResultsLinked, SelectedLinked, CandidateLinked, TodoLinked,
      Scheduling, Deciding, Planned, ChunkFits, IsFinished, Finished, IsPrefill

LEMMA EndAdvanceKeepsLinked ==
    ASSUME Inv, Linked, EndAdvance
    PROVE  Linked'
<1> SUFFICES ASSUME NEW h \in Groups PROVE GroupLinked(h)'
  BY DEF Linked
<1>1. /\ UNCHANGED <<seqVars, memVars, queueVars>>
      /\ pc = "advance" /\ pc' \in {"idle", "outputs"} /\ it.todo = {}
      /\ it' = IF pc' = "idle" THEN NoIteration ELSE it
  BY DEF EndAdvance
<1> QED
  BY <1>1, EmptyLists
  DEF seqVars, memVars, queueVars, SeqLen, Linked, GroupLinked, TableLinked,
      CacheLinked, QueuesLinked, ResultsLinked, SelectedLinked,
      CandidateLinked, TodoLinked, Scheduling, Deciding, Planned, ChunkFits,
      IsFinished, Finished, IsPrefill

LEMMA EndOutputsKeepsLinked ==
    ASSUME Inv, Linked, EndOutputs
    PROVE  Linked'
<1> SUFFICES ASSUME NEW h \in Groups PROVE GroupLinked(h)'
  BY DEF Linked
<1>1. /\ UNCHANGED <<seqVars, memVars, waiting, swapped, asyncStopped>>
      /\ pc \in {"lateOutputs", "outputs"}
      /\ pc' = IF pc = "lateOutputs" THEN "advance" ELSE "idle"
      /\ running' \in {Unfinished(running), running}
  BY DEF EndOutputs
<1>2. \/ pc = "outputs" /\ it' = NoIteration
      \/ /\ pc = "lateOutputs"
         /\ it'.cand = it.cand /\ it'.selected = it.selected
         /\ it'.scheduled = it.scheduled /\ it'.leftover = it.leftover
         /\ it'.preempted = it.preempted /\ it'.swappedOut = it.swappedOut
         /\ it'.ignored = it.ignored /\ it'.chunk = it.chunk
         /\ it'.todo = it.todo
  BY CallIsIteration DEF EndOutputs, Iteration
<1>3. \/ running' = running
      \/ running' = {g \in running : ~IsFinished(g)}
  BY <1>1 DEF Unfinished
<1> QED
  BY <1>1, <1>2, <1>3, EmptyLists
  DEF seqVars, memVars, SeqLen, Linked, GroupLinked, TableLinked, CacheLinked,
      QueuesLinked, ResultsLinked, SelectedLinked, CandidateLinked, TodoLinked,
      Scheduling, Deciding, Planned, ChunkFits, IsFinished, Finished, IsPrefill

-----------------------------------------------------------------------------
(* Linked is inductive.                                                    *)

LEMMA NextKeepsLinked == Inv /\ Linked /\ [Next]_vars => Linked'
<1> SUFFICES ASSUME Inv, Linked, [Next]_vars PROVE Linked'
  OBVIOUS
<1>1. CASE UNCHANGED vars \/ WaitForRequests
  BY <1>1, StutterKeepsLinked DEF WaitForRequests
<1>2. CASE Clients
  BY <1>2, AddSeqGroupKeepsLinked, AbortSeqGroupKeepsLinked DEF Clients
<1>3. CASE Engine
  <2>1. CASE \/ BeginSchedule \/ ChooseBin \/ BuildProcessList
             \/ EndProcess \/ EnterChunked \/ RunFits \/ EndRun
             \/ EndSwapIn \/ Commit \/ EndSchedule \/ EndAdvance
             \/ EndOutputs
    BY <2>1, BeginScheduleKeepsLinked, ChooseBinKeepsLinked,
       BuildProcessListKeepsLinked, EndProcessKeepsLinked,
       EnterChunkedKeepsLinked, RunFitsKeepsLinked, EndRunKeepsLinked,
       EndSwapInKeepsLinked, CommitKeepsLinked, EndScheduleKeepsLinked,
       EndAdvanceKeepsLinked, EndOutputsKeepsLinked
  <2>2. CASE \E g \in Groups :
               \/ FreeStopped(g) \/ PreemptPending(g) \/ Process(g)
               \/ SwapInSelected(g) \/ RunSelected(g) \/ PrefillSelected(g)
               \/ RunNext(g) \/ RunEvicts(g) \/ SwapInNext(g)
               \/ PrefillNext(g) \/ DullAbort(g) \/ Advance(g)
               \/ ProcessOutput(g)
    BY <2>2, FreeStoppedKeepsLinked, PreemptPendingKeepsLinked,
       ProcessKeepsLinked, SwapInSelectedKeepsLinked, RunSelectedKeepsLinked,
       PrefillSelectedKeepsLinked, RunNextKeepsLinked, RunEvictsKeepsLinked,
       SwapInNextKeepsLinked, PrefillNextKeepsLinked, DullAbortKeepsLinked,
       AdvanceKeepsLinked, ProcessOutputKeepsLinked
  <2> QED
    BY <1>3, <2>1, <2>2 DEF Engine
<1> QED
  BY <1>1, <1>2, <1>3 DEF Next

\* The inductive invariant: types, slots and pools, and what links them.
THEOREM LinkedAlways == Spec => [](Inv /\ Linked)
<1>1. Init => Inv /\ Linked
  BY InitInv, InitLinked
<1>2. Inv /\ Linked /\ [Next]_vars => (Inv /\ Linked)'
  BY NextKeepsInv, NextKeepsLinked
<1> QED
  BY <1>1, <1>2, PTL DEF Spec

\* The block table of a request is where its status says, whatever sequence
\* of swaps, preemptions, aborts and late outputs it went through.
THEOREM TableAlwaysFollowsStatus == Spec => []TableFollowsStatus
<1>1. Linked => TableFollowsStatus
  BY DEF Linked, GroupLinked, TableLinked, TableFollowsStatus
<1> QED
  BY <1>1, LinkedAlways, PTL

\* No group is ever believed to have computed a token that is not in its KV
\* cache, and a group that is to be recomputed starts from zero.
THEOREM ComputedIsAlwaysCached == Spec => []ComputedIsCached
<1>1. Inv /\ Linked => ComputedIsCached
  BY
  DEF Inv, MemSafe, SlotsFit, Linked, GroupLinked, CacheLinked,
      ComputedIsCached
<1> QED
  BY <1>1, LinkedAlways, PTL

\* Every group that the model is about to run is running, with its table on
\* the GPU and a slot for each of its tokens.
THEOREM BatchIsAlwaysRunnable == Spec => []BatchIsRunnable
<1>1. Inv /\ Linked => BatchIsRunnable
  <2> SUFFICES ASSUME Inv, Linked, pc = "advance", NEW g \in it.todo,
                      ~IsFinished(g)
               PROVE  /\ g \in running /\ status[g] = "running"
                      /\ device[g] = "gpu" /\ slots[g] = SeqLen(g)
                      /\ computed[g] + it.chunk[g] <= SeqLen(g)
    BY DEF BatchIsRunnable
  <2>1. g \in Groups
    BY CallIsIteration DEF Iteration
  <2> QED
    BY <2>1
    DEF Linked, GroupLinked, TableLinked, CacheLinked, QueuesLinked,
        ResultsLinked, SelectedLinked, CandidateLinked, TodoLinked, Scheduling,
        Deciding, Planned, ChunkFits, IsFinished, Finished, IsPrefill
<1> QED
  BY <1>1, LinkedAlways, PTL

\* The result lists of a call are disjoint.
LEMMA ListsAreDisjoint ==
    ASSUME Linked, Decided, NEW g \in Groups
    PROVE  /\ g \in it.scheduled => g \notin it.leftover
           /\ g \in it.scheduled \cup it.leftover =>
                /\ g \notin it.preempted /\ g \notin it.swappedOut
                /\ g \notin it.ignored
           /\ g \in it.preempted =>
                g \notin it.swappedOut /\ g \notin it.ignored
           /\ g \in it.swappedOut => g \notin it.ignored
<1>1. Scheduling /\ Deciding
  BY DEF Decided, Scheduling, Deciding
<1>2. ResultsLinked(g)
  BY DEF Linked, GroupLinked
<1>3. /\ g \in it.scheduled => status[g] = "running" /\ g \notin it.leftover
      /\ g \in it.leftover => status[g] = "running"
      /\ g \in it.preempted => status[g] = "waiting"
      /\ g \in it.swappedOut => status[g] = "swapped"
      /\ g \in it.ignored => status[g] \in Finished
  BY <1>1, <1>2 DEF ResultsLinked, Planned, IsFinished
<1> QED
  BY <1>3 DEF Finished

\* A call decides one thing of a group.
THEOREM OneDecisionEach == Spec => []OneDecision
<1>1. Inv /\ Linked => OneDecision
  <2> SUFFICES ASSUME Inv, Linked, Decided, NEW g \in Groups
               PROVE  Cardinality({r \in {"scheduled", "leftover", "preempted",
                                          "swappedOut", "ignored"} :
                                     g \in it[r]}) <= 1
    BY DEF OneDecision
  <2> DEFINE lists == {"scheduled", "leftover", "preempted", "swappedOut",
                       "ignored"}
             R == {r \in lists : g \in it[r]}
  <2>1. /\ it["scheduled"] = it.scheduled /\ it["leftover"] = it.leftover
        /\ it["preempted"] = it.preempted
        /\ it["swappedOut"] = it.swappedOut /\ it["ignored"] = it.ignored
    OBVIOUS
  <2>2. \A r, s \in R : r = s
    BY <2>1, ListsAreDisjoint
  <2>3. R = {} \/ \E r : R = {r}
    BY <2>2
  <2> HIDE DEF R
  <2>4. Cardinality(R) \in {0, 1}
    BY <2>3, FS_EmptySet, FS_Singleton
  <2> QED
    BY <2>4 DEF R
<1> QED
  BY <1>1, LinkedAlways, PTL
====
