--------------------------- MODULE MCGraphContext ---------------------------
(***************************************************************************)
(* Small instances of GraphContext for TLC.                                *)
(***************************************************************************)
EXTENDS GraphContextProperties

CONSTANTS t1, d1

Sent(mode, collections, outputs, cancel) ==
    [mode |-> mode, sent |-> collections, outputs |-> outputs, cancel |-> cancel]

TotAndDeep == {t1, d1}
MCSetups ==
    {Sent("online", {t1, d1}, {1}, FALSE), Sent("precise", {t1, d1}, {1}, FALSE),
     Sent("online", {d1}, {0, 1}, FALSE), Sent("static", {d1}, {0, 1}, FALSE),
     Sent("none", {t1}, {1}, FALSE), Sent("static", {t1}, {0, 1}, FALSE),
     Sent("online", {t1}, {0, 1}, TRUE)}
MCApp == [c \in Collections |-> IF c = d1 THEN "deepresearch" ELSE "tot"]
\* The patterns of the code, <<3, 1, 3, 1>> and six times 1, cut short; a
\* trace of DeepResearch has its own shape.
WideTot == <<3, 1>>
ShortDeep == <<1, 1>>
MCShape == [c \in Collections |-> IF c = d1 THEN <<1, 2, 1>> ELSE TotPattern]
=============================================================================
