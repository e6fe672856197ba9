-------------------------- MODULE MCSearchStrategy --------------------------
(* Small instances of SearchStrategy.                                       *)
EXTENDS SchedulerRefinement, SearchStrategy

TwoGains == {0, 1}
\* Densities are negative: one urgent group outweighs two others.
Densities == {-3, -1}
=============================================================================
