----------------------- MODULE GraphContextProperties -----------------------
(***************************************************************************)
(* What the server promises of collective requests: their stages, the      *)
(* graphs learned of them and the shares of their deadlines.               *)
(***************************************************************************)
EXTENDS GraphContext

\* In static mode the handler looks up the stage after the one that a request
\* is in.  The last stage of a tree of thought has none after it, and its
\* requests fail (graph_context.py:172-176).
StaticTree(c) == ~UseTotalDeadline /\ setup.mode = "static" /\ App[c] = "tot"

\* No client times out and no handler fails.
Calm == ~setup.cancel /\ \A c \in setup.sent : ~StaticTree(c)

CountOf(c, what) == Cardinality({i \in DOMAIN request[c] : request[c][i] = what})

\* While no client times out and no handler fails the server, which only counts
\* completions, is in the stage the client is in and has seen what the client
\* has seen of it (graph_context.py:109-142, similarity.py:82-117, 247-288).
InStep ==
    Calm => \A c \in setup.sent :
        LET s == structure[c]
            over == stage[c] = Len(Shape[c]) /\ StageAnswered(c)
        IN CountOf(c, "engine") + CountOf(c, "done") > 0 =>
             /\ Len(s.done) = IF StageAnswered(c) THEN stage[c] ELSE stage[c] - 1
             /\ StageAnswered(c) \/ Len(s.current) = CountOf(c, "done")
             /\ s.finished = over

EntriesOf(graph) == UNION {Range1(graph.nodes[i]) : i \in DOMAIN graph.nodes}

\* While no client times out and no handler fails, a finished graph is made of
\* the requests of one collective request: what a round leaves behind does not
\* become part of the graph of the next (graph_context.py:60, 74 and
\* similarity.py:238).
GraphIsOneRound ==
    Calm => \A k \in DOMAIN finished :
        \A e, f \in EntriesOf(finished[k]) : e.round = f.round

RoundsDone(c) ==
    IF stage[c] = Len(Shape[c]) /\ StageAnswered(c) THEN round[c] ELSE round[c] - 1

\* While no client times out and no handler fails, every collective request that
\* completes is learned, and learned once: the graphs kept for clustering are as
\* many as the rounds that are over (graph_context.py:119-127, 134-142).
LearnedOnce ==
    Calm => \A r \in 1..Rounds :
        Cardinality({k \in DOMAIN finished :
                       \E e \in EntriesOf(finished[k]) : e.round = r})
          = Cardinality({c \in Collections : RoundsDone(c) >= r})

\* Whatever completes when, the graphs have the stages of the pattern with the
\* requests of the pattern, one weight for each stage, and some weight: the
\* ratios divide by their sum (similarity.py:82-95, 145-163).
GraphIsComplete ==
    \A k \in DOMAIN finished :
        LET g == finished[k]
            widths == [i \in DOMAIN g.nodes |-> Len(g.nodes[i])]
        IN /\ \E c \in Collections : App[c] = g.app /\ widths = Shape[c]
           /\ Len(g.times) = Len(g.nodes)
           /\ SumSeq(g.times) > 0

\* A stage ratio is a fraction of the deadline of the collection, never more
\* than all of it, also when late completions make the stages uneven or all
\* outputs are empty.  The one exception is an index error: it happens in static
\* mode, to a tree of thought, and only when all of its stages but the last are
\* complete (graph_context.py:77-107, 155-235).
RatioIsFraction ==
    \A c \in Collections :
        \/ ratio[c][2] > 0 /\ ratio[c][1] <= ratio[c][2]
        \/ /\ ratio[c] = IndexError
           /\ StaticTree(c)
           /\ Len(structure[c].done) + 1 >= Len(TotPattern)

=============================================================================
