-------------------------- MODULE PolicyProperties --------------------------
(***************************************************************************)
(* What the tracker records of a request, and what the policies promise.   *)
(***************************************************************************)
EXTENDS Policy

-----------------------------------------------------------------------------
(* What the tracker records.                                               *)

(* The times between tokens add up: with the time to the first token they   *)
(* span the time from the arrival to the last update that saw a new token,  *)
(* and their tokens with those of the first update are the tokens seen.     *)
(* There is a time to the first token as soon as a token has been seen, and *)
(* preemption by recomputation, which keeps the tokens and forgets the      *)
(* times, is no exception (slo_tracker.py _update_metrics, _update_tbt).    *)
(* Requests that were swapped out are left out: a comment wants their last  *)
(* time forgotten (request_info.py:136), and nothing forgets it.            *)
TimesAddUp ==
    \A g \in Groups : LET m == metrics[g]
                          Total(f) == FoldFunction(+, 0, [e \in DOMAIN m.tbt |-> m.tbt[e][f]])
                      IN ~m.swapped =>
                           /\ InQueue(g) => ((m.last = Unknown) <=> (m.output = 0))
                           /\ m.last # Unknown =>
                                /\ m.ttft # Unknown
                                /\ m.arrival + m.ttft + Total(1) = m.last
                                /\ m.last <= now
                                /\ Total(2) < m.output /\ m.output <= decoded[g]

(* The gain that a request is worth: its prompt and its weighted tokens.    *)
WholeOf(g) == Whole(DecodeWeight * decoded[g] + InputLen[g])

(* A finished request has met its constraints.  A latency request is only   *)
(* paid by weight for tokens that come after its first one.                 *)
OnTime(g) ==
    LET m == metrics[g]
    IN CASE Type[g] = "latency" -> /\ m.ttft <= SLO[g].ttft /\ m.ttft < m.ttlt
                                   /\ m.ttlt - m.ttft <= SLO[g].tbt * decoded[g]
         [] Type[g] = "throughput" -> m.ttlt <= DeadlineOf(g)
         [] OTHER -> TRUE

(* The recorded gain, which the policies add to what they expect and the    *)
(* caller gets with the last output, counts nothing twice, also when a      *)
(* recomputation has forgotten what was credited before and all tokens are  *)
(* credited again; and a finished request that met its constraints gets all *)
(* of it, although the updates have paid for the prompt or for some of the  *)
(* tokens before (slo_tracker.py:32, 78; sequence.py:868-877).              *)
GainCountsOnce ==
    \A g \in Groups : /\ AtMost(metrics[g].gain, WholeOf(g))
                      /\ phase[g] = "finished" /\ OnTime(g) =>
                           AtMost(WholeOf(g), metrics[g].gain)

-----------------------------------------------------------------------------
(* What the policies promise.                                              *)

Live(g) == InQueue(g)

(* The policy knows the groups that are queued: each of them is once in the *)
(* list of its collection, which get_priority and allocation_control look   *)
(* up without asking whether it is there, no list is empty, and nobody but  *)
(* aborted groups, which the policy is not told of, stays (policy.py        *)
(* add_seq_group, delete_seq_group).                                        *)
DictIsLive ==
    /\ \A c \in DOMAIN dict :
         /\ dict[c] # <<>>
         /\ IsInjective(dict[c])
         /\ \A g \in ToSet(dict[c]) : /\ Collection[g] = c
                                      /\ Live(g) \/ phase[g] = "aborted"
    /\ \A g \in Groups : Live(g) => g \in Peers(g)

(* Peers share their fate: two queued groups of a collection that both have *)
(* a priority have the same one, also when one of them arrived, or was      *)
(* asked for, after the other's was computed (policy.py:329-338).           *)
CachedPeersAgree ==
    \A g \in Groups : Live(g) /\ Type[g] = "collective" =>
        \A p \in Peers(g) : cached[g] # None /\ cached[p] # None => cached[g] = cached[p]

(* Priorities do not outlive their interval: whatever is cached when a call *)
(* ends an interval is what the lengths, predictions and times known at     *)
(* that call give (policy.py:47, 318).                                      *)
FreshAtInterval ==
    [][count' < count \/ (Interval = 1 /\ called' /\ ~called) =>
         \A g \in Groups : cached'[g] # None /\ Live(g) =>
           LET unit == UnitTime(intervals')
           IN cached'[g] = <<Density(g, unit, now), RemainTime(g, unit)>>]_vars

Before(a, b) ==
    LET x == Priority(a)
        y == Priority(b)
    IN x[1] < y[1] \/ (x[1] = y[1] /\ x[2] < y[2])

Missed(g) == now >= metrics[g].arrival + DeadlineOf(g)

(* FCFS and SRTF: the order of two queued groups changes only when one of   *)
(* them misses its deadline, so that sorting the queue again and again      *)
(* never shuffles it (policy.py:127-131, 184-193).                          *)
OrderKept ==
    [][(policy \in {"fcfs", "srtf"}) =>
         \A a, b \in {g \in Groups : Live(g) /\ Live(g)' /\ Missed(g)' = Missed(g)} :
             Before(a, b)' <=> Before(a, b)]_vars
=============================================================================
