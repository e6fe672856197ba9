-------------------------- MODULE MCGraphSimilarity --------------------------
(***************************************************************************)
(* The operators of GraphSimilarity over all pairs of small stages, and    *)
(* the graph of a trace against the graph that is learned when its         *)
(* requests complete.  A stage grows by one request at a time.             *)
(***************************************************************************)
EXTENDS GraphSimilarity

CONSTANTS MaxNodes, Inputs, OutputLens

ASSUME StagesAssumption ==
    MaxNodes \in Nat /\ Inputs \subseteq Nat /\ OutputLens \subseteq Nat

VARIABLES query, target    \* the nodes of one stage each
stages == <<query, target>>

Nodes == Inputs \X OutputLens

StagesInit == query = <<>> /\ target = <<>>

AddQuery(n) == Len(query) < MaxNodes /\ query' = Append(query, n) /\ UNCHANGED target
AddTarget(n) == Len(target) < MaxNodes /\ target' = Append(target, n) /\ UNCHANGED query

StagesNext == \E n \in Nodes : AddQuery(n) \/ AddTarget(n)

StagesSpec == StagesInit /\ [][StagesNext]_stages

-----------------------------------------------------------------------------
Graph(stage) == [app |-> "tot", nodes |-> <<stage>>]
Learned == INSTANCE StageStructure WITH AllNode <- TRUE, ByOutput <- TRUE

\* The order in which the requests of a stage complete, which is the order of
\* its nodes, does not change how close it is to another, and neither does it
\* matter which of the two is the query (similarity.py:455-485, 586-636).
OrderIsIrrelevant ==
    query # <<>> /\ target # <<>> =>
      \A p \in Bijection(DOMAIN query, DOMAIN query) :
        GraphDistance(Graph([i \in DOMAIN query |-> query[p[i]]]), Graph(target))
          = GraphDistance(Graph(target), Graph(query))

\* The greedy matching of large stages never claims more than the best
\* matching, and finds the identical stage (similarity.py:488-523).
GreedyIsMatching ==
    /\ Len(query) = Len(target) /\ query # <<>> =>
         GreedySimilarity(query, target) <= PermutedSimilarity(query, target)
    /\ query # <<>> =>
         GreedySimilarity(query, Reverse(query)) = PermutedSimilarity(query, query)

\* The stages with outputs that may be empty.
Least == CHOOSE n \in OutputLens : \A m \in OutputLens : n <= m
Shortened(nodes) == [i \in DOMAIN nodes |-> <<nodes[i][1], nodes[i][2] - Least>>]

\* The structure that learns a collection from the completions of its
\* requests, in their order.
Completed ==
    LET empty == Learned!NewStructure("deepresearch", <<Len(query), Len(target)>>, 2)
        Add(s, n) == Learned!AddLength(s, [node |-> n, out |-> n[2]], 1)
    IN FoldLeft(Add, FoldLeft(Add, empty, Shortened(query)), Shortened(target))

\* At most one of the requests has an output.
OneOutput(nodes) ==
    \A i, j \in DOMAIN nodes : i = j \/ nodes[i][2] = 0 \/ nodes[j][2] = 0

\* With a node for each request, a collection read from a trace weighs its
\* stages as the server does that learns it from its completions by output
\* length: by the largest output of each.  With a node for each stage, which
\* is the default of the reader, it weighs by the sum of the outputs, and so
\* alike only if no stage has two requests with an output
\* (deepresearch_trace_reader.py:68-96, similarity.py:324-332).
TraceIsLearned ==
    query # <<>> /\ target # <<>> =>
      LET trace == <<Shortened(query), Shortened(target)>>
          learned == Learned!ToGraph(Completed).times
      IN /\ TraceGraph(trace, TRUE).times = learned
         /\ OneOutput(trace[1]) /\ OneOutput(trace[2]) =>
              TraceGraph(trace, FALSE).times = learned
=============================================================================
