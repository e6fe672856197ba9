--------------------------- MODULE MCSLOScheduler ---------------------------
(* Instances of the scheduler for TLC.                                      *)
EXTENDS SchedulerProperties, TLC

CONSTANTS g1, g2, g3, g4

Three == {g1, g2, g3}
Four == {g1, g2, g3, g4}

\* A short, a long and a middling prompt: the long one is chunked and fills
\* more than one block, the short one decodes early.
ThreePrompts == g1 :> 1 @@ g2 :> 3 @@ g3 :> 2
ThreeOutputs == g1 :> 4 @@ g2 :> 2 @@ g3 :> 3

\* Prompts of at most two tokens: no running prefill ever lacks more than one.
BriefPrompts == g1 :> 1 @@ g2 :> 2 @@ g3 :> 2
BriefOutputs == g1 :> 3 @@ g2 :> 3 @@ g3 :> 2

\* On three blocks of two slots: two that fit, one that outgrows them while it
\* runs, and one whose prompt is too long.
OversizedPrompts == g1 :> 1 @@ g2 :> 2 @@ g3 :> 5 @@ g4 :> 7
OversizedOutputs == g1 :> 3 @@ g2 :> 2 @@ g3 :> 3 @@ g4 :> 1

\* Two pairs of groups of like length.
FourPrompts == g1 :> 1 @@ g2 :> 1 @@ g3 :> 4 @@ g4 :> 3
FourOutputs == g1 :> 2 @@ g2 :> 3 @@ g3 :> 2 @@ g4 :> 2
=============================================================================
