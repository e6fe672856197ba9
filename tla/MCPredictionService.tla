------------------------- MODULE MCPredictionService -------------------------
(* Prompts of one, two and more segments for TLC. *)
EXTENDS PredictionService

CONSTANTS short, medium, long

MCSize == [r \in Requests |-> CASE r = short -> 1 [] r = medium -> 2 [] OTHER -> 3]

MCAnswer == [r \in Requests |-> CASE r = short -> 7 [] r = medium -> 0 [] OTHER -> 9]
==============================================================================
