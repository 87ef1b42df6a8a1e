--------------------------- MODULE MCServingGate ---------------------------
(* The gate under one retrieve, which makes a lexical, a vector and then a *)
(* graph search, and under one search of another caller.                   *)
EXTENDS ServingGate

CONSTANTS lexical, vector, graph, other

MCAfter == [s \in Searches |-> IF s = graph THEN {lexical, vector} ELSE {}]
=============================================================================
