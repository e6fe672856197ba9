------------------------- MODULE MCDynamicClustering -------------------------
(***************************************************************************)
(* Properties of DynamicClustering and small instances of it.              *)
(***************************************************************************)
EXTENDS DynamicClustering

Chain(first, second) == [app |-> "tot", nodes |-> <<<<first>>, <<second>>>>]
ShortLong == Chain(<<4, 4>>, <<9, 9>>)
LongLong == Chain(<<9, 9>>, <<9, 9>>)
TwoGraphs == {ShortLong, LongLong}
OneThreshold == <<3>>

Quiet == created = 0 /\ ~inProgress
Clustered == clusters # <<>>

-----------------------------------------------------------------------------
\* The indices in the clusters and the medoids are those of finished graphs,
\* there is one medoid for each cluster, and the flag is up exactly while an
\* update runs: whatever was appended, reclustered or timed out meanwhile,
\* find_best_match never indexes a list out of its range
\* (similarity.py:757-825, 837-869).
TypeOK ==
    /\ \A c \in DOMAIN clusters : ToSet(clusters[c]) \subseteq DOMAIN finished
    /\ ToSet(medoids) \subseteq DOMAIN finished
    /\ Len(medoids) = currentK /\ Len(clusters) = currentK
    /\ inProgress = (update.at # "none")

\* Once there are clusters, every query finds a match: the closest cluster is
\* never one that has lost all its graphs (similarity.py:854-857).
MatchExists ==
    Clustered => \A query \in Queries : FindBestMatch(query) # 0

\* The graphs of a cluster are no closer to the medoid of another one, also
\* those appended while the medoids moved: the assignments installed belong
\* to the medoids installed (similarity.py:667-729, 809-823).
InClosestCluster ==
    ~mayTimeOut => \A c, d \in DOMAIN clusters : \A i \in ToSet(clusters[c]) :
        Distance(finished[i], finished[medoids[c]])
          >= Distance(finished[i], finished[medoids[d]])

\* Only one cluster is searched, and yet the match of a query is as close to
\* it as the medoid of any cluster: the cluster with the closest medoid holds
\* a graph like that medoid (similarity.py:837-869).  A query of the last stage
\* of a medoid's collection therefore finds a graph as close as that
\* collection; at an earlier stage no graph is close, and any one is found.
ClosestIsFound ==
    ~mayTimeOut /\ Clustered =>
      \A query \in Queries : \A m \in ToSet(medoids) :
        Distance(query, finished[FindBestMatch(query)])
          >= Distance(query, finished[m])

\* When enough collections have finished they get clustered, and the update
\* that does it comes to an end, although it walks over a list that grows
\* (similarity.py:667-727, 745-785).
EventuallyClustered ==
    Len(finished) >= Thresholds[1] ~> Clustered /\ ~inProgress

=============================================================================
