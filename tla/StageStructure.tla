--------------------------- MODULE StageStructure ---------------------------
(***************************************************************************)
(* The stages of a collective request as the server sees them go by:       *)
(* ToTStructure and DeepResearchStructure of                               *)
(* jitserve/request_analyzer/similarity.py, and the graphs made of them.   *)
(*                                                                         *)
(* A structure knows how many requests each stage has and only counts the  *)
(* completions: nothing tells it which request completed.  An entry stands *)
(* for the pair of lengths of one completed request; the fields of it that *)
(* the code does not have are for the properties alone.  A super-node, the *)
(* sum of the requests of a stage, is represented by its summands.  Stage  *)
(* times and ratios are integer weights: a ratio of the code is a weight   *)
(* over the sum of the weights.                                            *)
(***************************************************************************)
EXTENDS Naturals, Sequences, SequencesExt

CONSTANTS
    AllNode,       \* use_all_node: a node per request, else a node per stage
    ByOutput       \* stage_ratio_method = "output_length", else "execution_time"

ASSUME StructureAssumption == AllNode \in BOOLEAN /\ ByOutput \in BOOLEAN

SumSeq(s) == FoldLeft(LAMBDA a, b : a + b, 0, s)
MaxSeq(s) == FoldLeft(LAMBDA a, b : IF a >= b THEN a ELSE b, 0, s)
Ones(n) == [i \in 1..n |-> 1]
Outputs(entries) == [i \in DOMAIN entries |-> entries[i].out]

\* The constructors.  For ToT num is the length of the pattern (an assertion
\* of the code); for DeepResearch the client sends both.
NewStructure(app, pattern, num) ==
    [app |-> app, pattern |-> pattern, num |-> num, done |-> <<>>,
     current |-> <<>>, times |-> <<>>, finished |-> FALSE]

\* Mutant: the structure of the last request is kept.
KeepStages(s) == [s EXCEPT !.finished = FALSE]

Reset(s) == NewStructure(s.app, s.pattern, s.num)

\* Mutant: a stage needs one completion more than it has requests.
OneMore(s) ==
    IF Len(s.done) < Len(s.pattern) THEN s.pattern[Len(s.done) + 1] + 1
    ELSE IF s.app = "tot" THEN 0 ELSE 1

\* How many completions end the stage: a DeepResearch collection may have
\* more stages than its pattern, a ToT one ends with it.
StageSize(s) ==
    IF Len(s.done) < Len(s.pattern) THEN s.pattern[Len(s.done) + 1]
    ELSE IF s.app = "tot" THEN 0 ELSE 1

\* Mutant: finished one stage too early.
EndsEarly(s, entry, elapsed) ==
    LET current == Append(s.current, entry)
    IN IF s.app = "deepresearch" /\ s.finished THEN s
       ELSE IF Len(current) = StageSize(s)
       THEN [s EXCEPT !.done = Append(@, current), !.current = <<>>,
                      !.times = Append(@, elapsed),
                      !.finished = @ \/ Len(s.done) + 2 >= s.num]
       ELSE [s EXCEPT !.current = current]

\* add_length; elapsed is the time since the last stage ended.  It returns
\* the new value of finished.
AddLength(s, entry, elapsed) ==
    LET current == Append(s.current, entry)
    IN IF s.app = "deepresearch" /\ s.finished THEN s
       ELSE IF Len(current) = StageSize(s)
       THEN [s EXCEPT !.done = Append(@, current), !.current = <<>>,
                      !.times = Append(@, elapsed),
                      !.finished = @ \/ Len(s.done) + 1 >= s.num]
       ELSE [s EXCEPT !.current = current]

\* Mutant: no fallback when nothing was generated.
MostOutput(s) == [i \in DOMAIN s.done |-> MaxSeq(Outputs(s.done[i]))]

\* The weights of the stages of a finished structure.
StageWeights(s) ==
    LET most == [i \in DOMAIN s.done |-> MaxSeq(Outputs(s.done[i]))]
    IN IF s.done = <<>> THEN Ones(s.num)
       ELSE IF ~ByOutput THEN s.times
       ELSE IF SumSeq(most) > 0 THEN most
       ELSE Ones(Len(s.done))

ToGraph(s) == [app |-> s.app, nodes |-> s.done, times |-> StageWeights(s)]

\* The graph of an unfinished structure: the completed stages, then one for
\* the request that has just arrived.  With all nodes the request joins the
\* last completed stage if that one is short, and the DeepResearch structure
\* adds it a second time.  The code looks the last completed stage up in the
\* pattern unguarded where n <= Len(s.pattern) stands: n exceeds it in no
\* reachable state, since the pattern of a tree of thought has all its stages,
\* and so has what a client sends with a DeepResearch collection.
ToUnfinishedGraph(s, entry) ==
    LET n == Len(s.done)
        short == AllNode /\ n > 0 /\ n <= Len(s.pattern)
                 /\ Len(s.done[n]) < s.pattern[n]
        joined == IF short THEN [s.done EXCEPT ![n] = Append(@, entry)]
                  ELSE Append(s.done, <<entry>>)
    IN [app |-> s.app, times |-> <<>>,
        nodes |-> IF AllNode /\ s.app = "deepresearch"
                  THEN Append(joined, <<entry>>) ELSE joined]
=============================================================================
