-------------------------- MODULE DynamicClustering --------------------------
(***************************************************************************)
(* DynamicClustering and k_medoids_clustering                              *)
(* (jitserve/request_analyzer/similarity.py): the graphs of finished       *)
(* collections are clustered by background tasks of the server's event     *)
(* loop, one of which is created for every finished graph.                 *)
(*                                                                         *)
(* The loop runs one task at a time, so an action is what a task does      *)
(* between two awaits.  The clustering awaits while it walks over the list *)
(* of finished graphs, which keeps growing.  Updating the medoids awaits   *)
(* too, but reads only what cannot change meanwhile: it is one action.     *)
(* The random choices of the code are nondeterministic.  Indices are from 1.*)
(***************************************************************************)
EXTENDS GraphSimilarity, FiniteSets

CONSTANTS
    Graphs,          \* the graphs collections may have
    Thresholds,      \* cluster_thresholds
    YieldEvery,      \* graphs assigned between two awaits (10 in the code)
    MaxIterations,   \* max_iterations of k_medoids_clustering
    MaxFinished      \* bound: finished graphs

ASSUME ClusteringAssumption ==
    /\ \A graph \in Graphs : IsGraph(graph)
    /\ Thresholds \in Seq(Nat)
    /\ \A i \in DOMAIN Thresholds : Thresholds[i] > i   \* k <= len(graphs)
    /\ YieldEvery \in Nat \ {0} /\ MaxIterations \in Nat \ {0}
    /\ MaxFinished \in Nat

VARIABLES
    mayTimeOut,   \* whether clusterings take longer than their 30 s: chosen once
    finished,     \* finished_requests
    clusters,     \* clusters: sequences of indices of finished
    medoids,      \* medoids
    currentK,     \* current_k
    inProgress,   \* _clustering_in_progress
    created,      \* update tasks that have not begun
    update        \* the update that is clustering

vars == <<mayTimeOut, finished, clusters, medoids, currentK, inProgress, created,
          update>>

NoUpdate == [at |-> "none", n |-> 0, k |-> 0, iteration |-> 0,
             medoids |-> <<>>, assigned |-> <<>>]

Init ==
    /\ mayTimeOut \in BOOLEAN
    /\ finished = <<>> /\ clusters = <<>> /\ medoids = <<>> /\ currentK = 0
    /\ inProgress = FALSE /\ created = 0 /\ update = NoUpdate

-----------------------------------------------------------------------------
\* graph_distance; a table for the graphs that occur.
DistanceTable ==
    [g \in Graphs |-> [h \in Graphs |-> GraphDistance(g, h)]]
Distance(g, h) ==
    IF g \in Graphs THEN DistanceTable[g][h] ELSE GraphDistance(g, h)

\* The cluster whose medoid is closest to a graph, the first of equals.
Closest(graph, ms) ==
    FirstBest(DOMAIN ms, LAMBDA c : Distance(graph, finished[ms[c]]))

\* random.sample(range(n), k)
Samples(n, k) == {s \in [1..k -> 1..n] : IsInjective(s)}

\* The number of clusters for n graphs: two from the first threshold on, one
\* more from each of the others.
TargetK(n) ==
    LET reached == Cardinality({i \in DOMAIN Thresholds : n >= Thresholds[i]})
    IN IF reached = 0 THEN 0 ELSE reached + 1

ShouldRecluster(n) ==
    TargetK(n) # currentK \/ \E i \in DOMAIN Thresholds : n = Thresholds[i]

\* Mutant: indices of the code's origin, 0, where 1 is expected.
ClustersFromZero(assigned, k) ==
    [c \in 1..k |-> SelectSeq([i \in DOMAIN assigned |-> i - 1],
                              LAMBDA i : assigned[i + 1] = c)]

\* The lists of clusters for the assignments.
ClustersOf(assigned, k) ==
    [c \in 1..k |->
        FoldLeft(LAMBDA list, i : IF assigned[i] = c THEN Append(list, i) ELSE list,
                 <<>>, [i \in DOMAIN assigned |-> i])]

-----------------------------------------------------------------------------
AddFinishedRequest(graph) ==
    /\ Len(finished) < MaxFinished
    /\ finished' = Append(finished, graph)
    /\ created' = created + 1
    /\ UNCHANGED <<mayTimeOut, clusters, medoids, currentK, inProgress, update>>

\* Mutant: the return below the first threshold leaves the flag up.
UpdateWithoutFinally ==
    LET n == Len(finished)
        k == TargetK(n)
    IN /\ created > 0
       /\ created' = created - 1
       /\ IF inProgress \/ k = 0
          THEN /\ inProgress' = TRUE
               /\ UNCHANGED <<clusters, medoids, currentK, update>>
          ELSE /\ inProgress' = TRUE
               /\ update' = [NoUpdate EXCEPT !.at = "begin", !.n = n, !.k = k]
               /\ UNCHANGED <<clusters, medoids, currentK>>
       /\ UNCHANGED <<mayTimeOut, finished>>

\* The beginning of _update_clustering_async: another update is running; or
\* there is nothing to cluster yet; or a clustering begins; or the newest
\* graph joins the closest cluster.
UpdateClustering ==
    LET n == Len(finished)
        k == TargetK(n)
    IN /\ created > 0
       /\ created' = created - 1
       /\ \/ /\ inProgress
             /\ UNCHANGED <<clusters, medoids, currentK, inProgress, update>>
          \/ /\ ~inProgress /\ k = 0
             /\ clusters' = <<>> /\ medoids' = <<>> /\ currentK' = 0
             /\ UNCHANGED <<inProgress, update>>
          \/ /\ ~inProgress /\ k > 0 /\ ShouldRecluster(n)
             /\ inProgress' = TRUE
             /\ update' = [NoUpdate EXCEPT !.at = "begin", !.n = n, !.k = k]
             /\ UNCHANGED <<clusters, medoids, currentK>>
          \/ /\ ~inProgress /\ k > 0 /\ ~ShouldRecluster(n)
             /\ clusters' = [clusters EXCEPT
                               ![Closest(finished[n], medoids)] = Append(@, n)]
             /\ UNCHANGED <<medoids, currentK, inProgress, update>>
       /\ UNCHANGED <<mayTimeOut, finished>>

\* k_medoids_clustering begins with medoids at random.
ChooseMedoids ==
    /\ update.at = "begin"
    /\ \E ms \in Samples(Len(finished), update.k) :
         update' = [update EXCEPT !.at = "assign", !.medoids = ms]
    /\ UNCHANGED <<mayTimeOut, finished, clusters, medoids, currentK, inProgress,
                   created>>

\* Assigns graphs to their closest medoid, up to the next await: one after
\* the first graph, then one after each YieldEvery of them.
AssignSome ==
    /\ update.at = "assign"
    /\ LET from == Len(update.assigned)
           next == IF from = 0 THEN 1 ELSE from + YieldEvery
           to == IF next <= Len(finished) THEN next ELSE Len(finished)
           added == [i \in 1..(to - from) |->
                       Closest(finished[from + i], update.medoids)]
       IN update' = [update EXCEPT
                       !.assigned = @ \o added,
                       !.at = IF to < next THEN "medoids" ELSE "assign"]
    /\ UNCHANGED <<mayTimeOut, finished, clusters, medoids, currentK, inProgress,
                   created>>

\* Mutant: the loop ends after its first round.
UpdateMedoidsOnce ==
    /\ update.at = "medoids"
    /\ LET members(c) == {i \in DOMAIN update.assigned : update.assigned[i] = c}
           new == [c \in 1..update.k |->
                     IF members(c) = {} THEN update.medoids[c]
                     ELSE FirstBest(members(c), LAMBDA i :
                            Total([j \in DOMAIN update.assigned |->
                              IF j = i \/ update.assigned[j] # c THEN 0
                              ELSE Distance(finished[i], finished[j])]))]
       IN update' = [update EXCEPT !.medoids = new, !.at = "install"]
    /\ UNCHANGED <<mayTimeOut, finished, clusters, medoids, currentK, inProgress,
                   created>>

\* The most central of the graphs of a cluster becomes its medoid; the loop
\* ends when none has changed.
UpdateMedoids ==
    /\ update.at = "medoids"
    /\ LET members(c) == {i \in DOMAIN update.assigned : update.assigned[i] = c}
           central(c) == FirstBest(members(c), LAMBDA i :
                           Total([j \in DOMAIN update.assigned |->
                             IF j = i \/ update.assigned[j] # c THEN 0
                             ELSE Distance(finished[i], finished[j])]))
           new == [c \in 1..update.k |->
                     IF members(c) = {} THEN update.medoids[c] ELSE central(c)]
           over == new = update.medoids \/ update.iteration + 1 = MaxIterations
       IN update' = [update EXCEPT
                       !.medoids = new,
                       !.iteration = @ + 1,
                       !.at = IF over THEN "install" ELSE "assign",
                       !.assigned = IF over THEN @ ELSE <<>>]
    /\ UNCHANGED <<mayTimeOut, finished, clusters, medoids, currentK, inProgress,
                   created>>

\* Mutant: the old clusters are kept with the new medoids.
InstallMedoids(ms, assigned) ==
    /\ clusters' = [c \in 1..update.k |->
                     IF c <= Len(clusters) THEN clusters[c] ELSE <<>>]
    /\ medoids' = ms
    /\ currentK' = update.k
    /\ inProgress' = FALSE
    /\ update' = NoUpdate
    /\ UNCHANGED <<mayTimeOut, finished, created>>

Install(ms, assigned) ==
    /\ clusters' = ClustersOf(assigned, update.k)
    /\ medoids' = ms
    /\ currentK' = update.k
    /\ inProgress' = FALSE
    /\ update' = NoUpdate
    /\ UNCHANGED <<mayTimeOut, finished, created>>

InstallClustering ==
    update.at = "install" /\ Install(update.medoids, update.assigned)

\* The clustering did not end in time: random medoids, and the graphs that
\* were there when the update began dealt out.
TimeOut ==
    /\ mayTimeOut
    /\ update.at \in {"begin", "assign", "medoids"}
    /\ \E ms \in Samples(update.n, update.k) :
         Install(ms, [i \in 1..update.n |-> ((i - 1) % update.k) + 1])

-----------------------------------------------------------------------------
\* The graphs find_best_match is asked for are those of unfinished collections:
\* of a collection that will have graph g, when the first request of stage n
\* has arrived.
Query(g, n) ==
    [app |-> g.app,
     nodes |-> SubSeq(g.nodes, 1, n - 1) \o <<<<<<g.nodes[n][1][1], NoOutput>>>>>>]
Queries == UNION {{Query(g, n) : n \in DOMAIN g.nodes} : g \in Graphs}

\* Mutant: the graph of the newest index of the closest cluster.
FindLastMatch(query) ==
    IF medoids = <<>> \/ clusters = <<>> THEN 0
    ELSE LET cluster == clusters[Closest(query, medoids)]
         IN IF cluster = <<>> THEN 0 ELSE cluster[Len(cluster)]

\* find_best_match: an index of finished, 0 for none.
FindBestMatch(query) ==
    IF medoids = <<>> \/ clusters = <<>> THEN 0
    ELSE LET cluster == clusters[Closest(query, medoids)]
             place == FirstBest(DOMAIN cluster, LAMBDA p :
                        Distance(query, finished[cluster[p]]))
         IN IF cluster = <<>> THEN 0 ELSE cluster[place]

Next ==
    \/ \E graph \in Graphs : AddFinishedRequest(graph)
    \/ UpdateClustering
    \/ ChooseMedoids
    \/ AssignSome
    \/ UpdateMedoids
    \/ InstallClustering
    \/ TimeOut

Spec == Init /\ [][Next]_vars

\* The event loop runs the tasks that are ready.
FairSpec ==
    /\ Spec
    /\ WF_vars(UpdateClustering)
    /\ WF_vars(ChooseMedoids \/ AssignSome \/ UpdateMedoids \/ InstallClustering)
=============================================================================
