---------------------------- MODULE GraphContext ----------------------------
(***************************************************************************)
(* GraphMatchContext (jitserve/request_analyzer/graph_context.py) and the  *)
(* part of the request handler that uses it (jitserve/server.py): the      *)
(* deadline of every request of a collection is a share of the deadline of *)
(* the collection, and every completed request advances the structure of   *)
(* its collection.                                                         *)
(*                                                                         *)
(* The clients are external: they send the requests of a stage at once and *)
(* those of the next stage when all have been answered, give up the        *)
(* collection when one of them fails, and may send the same collection     *)
(* again (benchmark/trace/client.py, client_deepresearch.py).  A client    *)
(* reads a stream to its end, which the server signals after it has        *)
(* tracked the completion.                                                 *)
(*                                                                         *)
(* find_best_match is any finished graph, or none while there are too few  *)
(* to cluster; DynamicClustering says which.                               *)
(***************************************************************************)
EXTENDS StageStructure, FiniteSets

CONSTANTS
    Collections,     \* collection ids
    App,             \* App[c]: "tot" or "deepresearch" (requests_per_stage is sent)
    Shape,           \* Shape[c]: requests in each stage, as the client sends them
    TotPattern,      \* Default_ToT_Requests_Pattern
    DeepPattern,     \* Default_DeepResearch_Requests_Pattern
    UseTotalDeadline,\* use_total_deadline
    ClusterAt,       \* finished graphs it takes to have clusters
    Setups,          \* the servers and clients that are considered
    Rounds,          \* bound: times a collection is sent
    MaxElapsed       \* bound: duration of a stage

ASSUME ContextAssumption ==
    /\ IsFiniteSet(Collections)
    /\ \A p \in {TotPattern, DeepPattern} \cup {Shape[c] : c \in Collections} :
         p \in Seq(Nat \ {0}) /\ p # <<>>
    /\ \A c \in Collections : App[c] \in {"tot", "deepresearch"}
    /\ \A c \in Collections : App[c] = "tot" => Shape[c] = TotPattern
    /\ Setups \subseteq [mode : {"none", "static", "online", "precise"},
                        sent : SUBSET Collections, outputs : SUBSET Nat,
                        cancel : BOOLEAN]
    /\ UseTotalDeadline \in BOOLEAN
    /\ ClusterAt \in Nat \ {0} /\ Rounds \in Nat /\ MaxElapsed \in Nat \ {0}

VARIABLES
    setup,       \* graph_matching_mode, the collections that are sent, the
                 \* output lengths, whether clients time out: chosen once
    structure,   \* collection_graph_unfinished_dict, collection_deepresearch_unfinished_dict
    finished,    \* dynamic_clustering.finished_requests
    round,       \* times the client of a collection has sent it
    stage,       \* the stage the client is in
    request,     \* what has become of each request of that stage
    abandoned,   \* requests in the engine whose client has gone
    ratio        \* stage_ratio of the last request of a collection that was handled

vars == <<setup, structure, finished, round, stage, request, abandoned, ratio>>

NoStructure == [app |-> "none"]
Unsent(n) == [i \in 1..n |-> "unsent"]
Range1(s) == {s[i] : i \in DOMAIN s}

Init ==
    /\ setup \in Setups
    /\ structure = [c \in Collections |-> NoStructure]
    /\ finished = <<>>
    /\ round = [c \in Collections |-> 1]
    /\ stage = [c \in Collections |-> 1]
    /\ request = [c \in Collections |-> Unsent(Shape[c][1])]
    /\ abandoned = {}
    /\ ratio = [c \in Collections |-> <<1, 1>>]

-----------------------------------------------------------------------------
(* A request arrives.                                                      *)

\* init_collection: the structure of an earlier, finished round is reset.
InitCollection(c) ==
    IF structure[c] = NoStructure
    THEN NewStructure(App[c], IF App[c] = "tot" THEN TotPattern ELSE Shape[c],
                      Len(Shape[c]))
    ELSE IF structure[c].finished THEN Reset(structure[c])
    ELSE structure[c]

\* stage_id of the request: the ToT client leaves it at its default.
StageId(c) == IF App[c] = "tot" THEN 0 ELSE stage[c] - 1

\* The share of the first k stages.
Share(weights, k) == <<SumSeq(SubSeq(weights, 1, k)), SumSeq(weights)>>

LeastOf(a, b) == IF a <= b THEN a ELSE b

LargerRatio(a, b) == IF a[1] * b[2] >= b[1] * a[2] THEN a ELSE b

DefaultRatio(c) ==
    IF App[c] = "deepresearch" THEN <<1, Len(DeepPattern)>>
    ELSE <<TotPattern[LeastOf(StageId(c), Len(TotPattern) - 1) + 1],
           SumSeq(TotPattern)>>

\* calculate_accumulate_stage_ratio of the client, from the output lengths in
\* its trace; the widths of the stages stand for these.
PreciseRatio(c) ==
    IF App[c] = "deepresearch" THEN Share(Shape[c], stage[c]) ELSE DefaultRatio(c)

\* The exception of the handler when a list is indexed out of its range.
IndexError == <<0, 0>>

\* _static_ratio; best is the best match, <<>> for none.
StaticRatio(c, query, best) ==
    LET s == Len(query.nodes)
        id == StageId(c)
    IN IF id # 0 THEN DefaultRatio(c)
       ELSE IF App[c] = "tot"
       THEN IF best # <<>> /\ s < Len(best.times)
            THEN <<best.times[s + 1], SumSeq(best.times)>>
            ELSE IF s < Len(TotPattern)
            THEN <<TotPattern[s + 1], SumSeq(TotPattern)>>
            ELSE IndexError
       ELSE IF best # <<>> /\ id < Len(best.times)
       THEN LargerRatio(<<best.times[id + 1], SumSeq(best.times)>>,
                        <<DeepPattern[id + 1], SumSeq(DeepPattern)>>)
       ELSE Share(DeepPattern, LeastOf(id + 1, Len(DeepPattern)))

\* Mutant: the ratio of a match with fewer stages is read past its end.
OnlineUnchecked(c, query, best) ==
    LET s == Len(query.nodes)
        id == StageId(c)
        default == Share(DeepPattern, LeastOf(id, Len(DeepPattern)))
    IN IF App[c] = "tot"
       THEN IF best # <<>> THEN <<SumSeq(best.times) + s, SumSeq(best.times)>>
            ELSE Share(TotPattern, LeastOf(s, Len(TotPattern)))
       ELSE IF best # <<>> THEN Share(best.times, id) ELSE default

\* _online_ratio.
OnlineRatio(c, query, best) ==
    LET s == Len(query.nodes) - 1
        id == StageId(c)
        default == Share(DeepPattern, LeastOf(id, Len(DeepPattern)))
    IN IF App[c] = "tot"
       THEN IF best # <<>> /\ s < Len(best.times) THEN Share(best.times, s)
            ELSE Share(TotPattern, LeastOf(s, Len(TotPattern)))
       ELSE IF best # <<>> /\ id < Len(best.times)
            THEN LargerRatio(Share(best.times, id), default)
            ELSE default

\* What find_best_match may return; <<>> while nothing is clustered.
BestMatches ==
    IF Len(finished) < ClusterAt THEN {<<>>} ELSE {<<>>} \cup Range1(finished)

\* calculate_stage_ratio, when the handler calls it.
StageRatio(c, query, best) ==
    CASE UseTotalDeadline \/ setup.mode = "none" -> <<1, 1>>
      [] ~UseTotalDeadline /\ setup.mode = "precise" -> PreciseRatio(c)
      [] ~UseTotalDeadline /\ setup.mode = "static" -> StaticRatio(c, query, best)
      [] ~UseTotalDeadline /\ setup.mode = "online" -> OnlineRatio(c, query, best)

\* _handle_collective_request, up to the call of the engine.
HandleCollectiveRequest(c, i) ==
    /\ request[c][i] = "unsent"
    /\ LET s == InitCollection(c)
           query == ToUnfinishedGraph(s, [round |-> round[c], out |-> 0])
       IN \E best \in BestMatches :
            LET r == StageRatio(c, query, best)
            IN /\ structure' = [structure EXCEPT ![c] = s]
               /\ ratio' = [ratio EXCEPT ![c] = r]
               /\ request' = [request EXCEPT ![c][i] =
                                IF r = IndexError THEN "failed" ELSE "engine"]
    /\ UNCHANGED <<setup, finished, round, stage, abandoned>>

-----------------------------------------------------------------------------
(* The engine is done with a request.                                      *)

\* track_collection_completion, of a request sent in round r: each completion
\* that finds the structure finished adds its graph.
TrackCollectionCompletion(c, r) ==
    \E out \in setup.outputs, elapsed \in 1..MaxElapsed :
      LET s == AddLength(structure[c], [round |-> r, out |-> out], elapsed)
      IN /\ structure' = [structure EXCEPT ![c] = s]
         /\ finished' = IF s.finished THEN Append(finished, ToGraph(s))
                                      ELSE finished

Complete(c, i) ==
    /\ request[c][i] = "engine"
    /\ TrackCollectionCompletion(c, round[c])
    /\ request' = [request EXCEPT ![c][i] = "done"]
    /\ UNCHANGED <<setup, round, stage, abandoned, ratio>>

\* The client times out and closes the connection.
TimeOut(c, i) ==
    /\ setup.cancel
    /\ request[c][i] = "engine"
    /\ request' = [request EXCEPT ![c][i] = "failed"]
    /\ abandoned' = abandoned \cup {<<c, round[c], stage[c], i>>}
    /\ UNCHANGED <<setup, structure, finished, round, stage, ratio>>

\* The handler sees that the client is gone and returns without tracking, or
\* the request completes before it looks.
Disconnected(a) ==
    /\ a \in abandoned
    /\ abandoned' = abandoned \ {a}
    /\ UNCHANGED <<setup, structure, finished, round, stage, request, ratio>>

CompleteLate(a) ==
    /\ a \in abandoned
    /\ abandoned' = abandoned \ {a}
    /\ TrackCollectionCompletion(a[1], a[2])
    /\ UNCHANGED <<setup, round, stage, request, ratio>>

-----------------------------------------------------------------------------
(* The client of a collection.                                             *)

StageAnswered(c) == Range1(request[c]) \subseteq {"done", "failed"}
StageFailed(c) == "failed" \in Range1(request[c])

NextStage(c) ==
    /\ StageAnswered(c) /\ ~StageFailed(c) /\ stage[c] < Len(Shape[c])
    /\ stage' = [stage EXCEPT ![c] = @ + 1]
    /\ request' = [request EXCEPT ![c] = Unsent(Shape[c][stage[c] + 1])]
    /\ UNCHANGED <<setup, structure, finished, round, abandoned, ratio>>

\* The collection is over or given up, and sent again.
NextRound(c) ==
    /\ StageAnswered(c) /\ (StageFailed(c) \/ stage[c] = Len(Shape[c]))
    /\ round[c] < Rounds
    /\ round' = [round EXCEPT ![c] = @ + 1]
    /\ stage' = [stage EXCEPT ![c] = 1]
    /\ request' = [request EXCEPT ![c] = Unsent(Shape[c][1])]
    /\ UNCHANGED <<setup, structure, finished, abandoned, ratio>>

Next ==
    \/ \E c \in setup.sent :
        \/ \E i \in DOMAIN request[c] :
             \/ HandleCollectiveRequest(c, i)
             \/ Complete(c, i)
             \/ TimeOut(c, i)
        \/ NextStage(c)
        \/ NextRound(c)
    \/ \E a \in abandoned : Disconnected(a) \/ CompleteLate(a)

Spec == Init /\ [][Next]_vars
=============================================================================
