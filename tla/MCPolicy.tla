------------------------------ MODULE MCPolicy ------------------------------
(* Two requests of a collection, and one of each other type, for TLC: either *)
(* the peers come, or the two others.                                        *)
EXTENDS PolicyProperties

CONSTANTS c1, c2,     \* the peers
          s, t        \* a latency request and a throughput request

MCLoads == {{c1, c2}, {s, t}}

MCType ==
    [g \in Groups |-> CASE g = s -> "latency"
                         [] g = t -> "throughput"
                         [] OTHER -> "collective"]

MCCollection == [g \in Groups |-> CASE g = s -> 2 [] g = t -> 3 [] OTHER -> 1]

MCInputLen == [g \in Groups |-> 2]

MCOutputLen == [g \in Groups |-> IF g = c1 THEN 1 ELSE 2]

MCSLO == [g \in Groups |-> [ttft |-> 2, tbt |-> 1,
                            ttlt |-> CASE g = c1 -> 1 [] g = t -> 2 [] OTHER -> 3]]

MCLeast == <<1, 20>>

MCPredicted == [g \in Groups |-> CASE g = c1 -> 2 [] g = s -> 1 [] OTHER -> 3]

MCUnit == <<1, 1>>
=============================================================================
