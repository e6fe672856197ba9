---------------------------- MODULE SearchStrategy ----------------------------
(****************************************************************************)
(* The two search strategies of jitserve/scheduler/slo_scheduler.py as they *)
(* are computed.  SLOScheduler leaves open which bin or window is executed; *)
(* here the queues are lists, the groups have gains, and the groups are     *)
(* sorted, cut into bins, scored and merged as the code does it.  BinSpec is*)
(* the scheduler with these choices beside the open ones, of which they     *)
(* should be some.                                                          *)
(*                                                                          *)
(* A gain is what _service_gain makes of a priority: a number, the less the *)
(* more urgent.  The policy computes it anew for every call of the SLO path,*)
(* so a call finds any gains, and the queues in any order.                  *)
(****************************************************************************)
EXTENDS SLOScheduler, SequencesExt

CONSTANT Gains       \* the gains a group may have

ASSUME GainsAssumption == Gains \subseteq Int /\ Gains # {}

-----------------------------------------------------------------------------
\* list.sort(key): elements of the same key keep their order.  (SortSeq of the
\* standard modules cannot be expanded in a proof.)
StableSort(s, key) ==
    LET Before(i) == {j \in DOMAIN s : \/ key[s[j]] < key[s[i]]
                                       \/ key[s[j]] = key[s[i]] /\ j < i}
        rank == [i \in DOMAIN s |-> Cardinality(Before(i)) + 1]
    IN [k \in DOMAIN s |-> s[CHOOSE i \in DOMAIN s : rank[i] = k]]

Prefix(s, n) == SubSeq(s, 1, Min2(n, Len(s)))

SumOf(s, gain) == FoldFunction(+, 0, [i \in DOMAIN s |-> gain[s[i]]])

\* The first of those of least score.
Smallest(S, score) ==
    CHOOSE i \in S :
      \A j \in S : score[i] < score[j] \/ (score[i] = score[j] /\ i <= j)

\* top_mk: the groups of least gain, by length.
TopGroups(list, gain, n) ==
    StableSort(Prefix(StableSort(list, gain), n), [g \in Groups |-> SeqLen(g)])

-----------------------------------------------------------------------------
(* length_bin.                                                             *)

\* The bins are filled one after the other.
CutIntoBins(top, size) ==
    [i \in 1..((Len(top) + size - 1) \div size) |->
        SubSeq(top, (i - 1) * size + 1, Min2(i * size, Len(top)))]

\* The first of _exec_order.
BinToExecute(bins, gain) ==
    Smallest(DOMAIN bins, [i \in DOMAIN bins |-> SumOf(bins[i], gain)])

\* Mutant: a short bin is executed alone.
OnlyItself(bins, exec) == ToSet(bins[exec])

\* _switch_to_bin: the bins next to the one to execute, the nearest first and
\* the left one of two, until there are enough groups.
Widened(bins, exec) ==
    LET distance == [i \in DOMAIN bins |-> IF i >= exec THEN i - exec ELSE exec - i]
        nearest == StableSort([i \in DOMAIN bins |-> i], distance)
        Joined(n) == UNION {ToSet(bins[nearest[k]]) : k \in 1..n}
        Enough(n) == Cardinality(Joined(n)) >= maxNumSeqs \/ n = Len(bins)
    IN Joined(CHOOSE n \in DOMAIN bins : Enough(n) /\ \A m \in 1..(n - 1) : ~Enough(m))

RecomputeLengthBins ==
    \E list \in SetToSeqs(Queued), gain \in [Queued -> Gains] :
      LET top == TopGroups(list, gain, maxNumSeqs * TopK)
          bins == CutIntoBins(top, Max2(maxNumSeqs, Len(top) \div TopK))
          window == Widened(bins, BinToExecute(bins, gain))
      IN /\ SwitchTo(window, Max(Lengths(window)) = Max(Lengths(ToSet(Last(bins)))))
         /\ execOrder' = TRUE

-----------------------------------------------------------------------------
(* sliding_window.                                                         *)

\* Mutant: the end of the slice taken for its last element.
LongWindow(top, at, size) == SubSeq(top, at, Min2(at + size, Len(top)))

Window(top, at, size) == SubSeq(top, at, at + size - 1)

\* Where the window of least gain begins, the first of several.
BestWindow(top, gain, size) ==
    LET places == 1..(Len(top) - size + 1)
    IN Smallest(places, [i \in places |-> SumOf(Window(top, i, size), gain)])

SlideWindow ==
    \E list \in SetToSeqs(Queued), gain \in [Queued -> Gains] :
      LET top == TopGroups(list, gain, MaxNumSeqs * TopK)
          window == IF Len(top) >= MaxNumSeqs
                    THEN Window(top, BestWindow(top, gain, MaxNumSeqs), MaxNumSeqs)
                    ELSE top
      IN SwitchTo(ToSet(window), TRUE) /\ UNCHANGED execOrder

-----------------------------------------------------------------------------
\* ChooseBin of SLOScheduler with these choices in place of the open ones.
ChooseBestBin ==
    /\ pc = "free" /\ asyncStopped = {} /\ it.slo
    /\ IF SlidingWindow \/ pendingSwapOut = {}
       THEN IF Queued = {} THEN ClearBins
            ELSE IF SlidingWindow THEN SlideWindow ELSE RecomputeLengthBins
       ELSE KeepBins
    /\ pc' = IF execOrder' \/ SlidingWindow THEN "preempt" ELSE "commit"
    /\ UNCHANGED <<seqVars, memVars, queueVars, ctlVars, outVars, it>>

BinNext == Next \/ ChooseBestBin

BinSpec == Init /\ [][BinNext]_vars

FairBinSpec == BinSpec /\ WF_vars(Engine)

\* However the groups are sorted, cut and merged, what a call ends up with is
\* a choice that SLOScheduler allows, and so is every behaviour: all that is
\* shown of its open choices holds for the computed ones
\* (slo_scheduler.py:301-416, 418-496).
ChoiceIsAllowed == [][Next]_vars
=============================================================================
