--------------------------- MODULE GraphSimilarity ---------------------------
(***************************************************************************)
(* The similarity of stage graphs (jitserve/request_analyzer/similarity.py)*)
(* and the graphs read from traces (deepresearch_trace_reader.py).         *)
(*                                                                         *)
(* A node is the pair of an input and an output length; NoOutput is the    *)
(* None of a request that has not run.  The Gaussian kernel of the code is *)
(* in hundredths, and 0 from a distance of four on.  What graph_distance   *)
(* returns is a similarity: more is closer.                                *)
(***************************************************************************)
EXTENDS Integers, Sequences, SequencesExt

CONSTANT
    MaxPermuted    \* stages of more nodes are matched greedily (6 in the code)

ASSUME SimilarityAssumption == MaxPermuted \in Nat

NoOutput == -1

\* The nodes of a graph, stage by stage.
Node == Nat \X (Nat \cup {NoOutput})
IsGraph(graph) == graph.nodes \in Seq(Seq(Node))

Total(s) == FoldLeft(LAMBDA a, b : a + b, 0, s)

\* What a loop over the indices S finds that keeps the best score so far and
\* replaces it only by a better one.
FirstBest(S, score(_)) ==
    CHOOSE i \in S :
      \A j \in S : score(j) < score(i) \/ (score(j) = score(i) /\ i <= j)

\* exp(-(a - b)^2 / 2)
Kernel(a, b) ==
    LET d == IF a >= b THEN a - b ELSE b - a
    IN IF d > 3 THEN 0 ELSE <<100, 61, 14, 1>>[d + 1]

\* node_similarity with input_w = 0.3 and output_w = 0.7.
NodeSimilarity(m, n) ==
    3 * Kernel(m[1], n[1]) +
    (IF NoOutput \in {m[2], n[2]} THEN 0 ELSE 7 * Kernel(m[2], n[2]))

\* Mutant: the nodes are compared in the order in which they completed.
AlignedSimilarity(q, t) == Total([i \in DOMAIN q |-> NodeSimilarity(q[i], t[i])])

\* The search of all permutations in find_best_matching_similarity.
PermutedSimilarity(q, t) ==
    Max({Total([i \in DOMAIN q |-> NodeSimilarity(q[i], t[p[i]])]) :
           p \in Bijection(DOMAIN t, DOMAIN t)})

\* Mutant: a target may be matched more than once.
TakeBest(found, node, t) ==
    LET i == FirstBest(DOMAIN t, LAMBDA j : NodeSimilarity(node, t[j]))
    IN [found EXCEPT !.total = @ + NodeSimilarity(node, t[i])]

\* One round of the loop of _greedy_matching_similarity: the best of the
\* targets that are left, unless it has no similarity at all.
TakeBestLeft(found, node, t) ==
    LET left == DOMAIN t \ found.used
        i == FirstBest(left, LAMBDA j : NodeSimilarity(node, t[j]))
    IN IF left = {} \/ NodeSimilarity(node, t[i]) = 0 THEN found
       ELSE [used |-> found.used \cup {i},
             total |-> found.total + NodeSimilarity(node, t[i])]

GreedySimilarity(q, t) ==
    FoldLeft(LAMBDA found, node : TakeBestLeft(found, node, t),
             [used |-> {}, total |-> 0], q).total

\* find_best_matching_similarity.
StageSimilarity(q, t) ==
    IF q = <<>> \/ t = <<>> THEN 0
    ELSE IF Len(t) > MaxPermuted THEN GreedySimilarity(q, t)
    ELSE PermutedSimilarity(q, t)

Pad(s, n, node) == s \o [i \in 1..(n - Len(s)) |-> node]

\* The similarity of two stages, the smaller one filled with empty nodes.
PaddedSimilarity(q, t) ==
    LET n == IF Len(q) >= Len(t) THEN Len(q) ELSE Len(t)
        empty == IF q # <<>> /\ q[1][2] # NoOutput THEN <<0, 0>> ELSE <<0, NoOutput>>
    IN StageSimilarity(Pad(q, n, empty), Pad(t, n, <<0, 0>>))

\* graph_distance.
GraphDistance(query, target) ==
    IF Len(query.nodes) # Len(target.nodes) THEN 0
    ELSE Total([i \in DOMAIN query.nodes |->
                  PaddedSimilarity(query.nodes[i], target.nodes[i])])

-----------------------------------------------------------------------------
(* _convert_trace_to_graph: a trace is a sequence of stages, a stage one of *)
(* pairs of token counts.                                                   *)

\* Mutant: the weight of a stage is that of its first request.
FirstOf(outputs) == outputs[1]

LargestOf(outputs) == FoldLeft(LAMBDA a, b : IF a >= b THEN a ELSE b, 0, outputs)

TraceGraph(trace, allNode) ==
    LET Sum(requests) == <<Total([j \in DOMAIN requests |-> requests[j][1]]),
                           Total([j \in DOMAIN requests |-> requests[j][2]])>>
        nodes == [i \in DOMAIN trace |->
                    IF allNode THEN trace[i] ELSE <<Sum(trace[i])>>]
        most == [i \in DOMAIN trace |->
                   LargestOf([j \in DOMAIN nodes[i] |-> nodes[i][j][2]])]
    IN [app |-> "deepresearch", nodes |-> nodes,
        times |-> IF Total(most) > 0 THEN most ELSE [i \in DOMAIN trace |-> 1]]
=============================================================================
