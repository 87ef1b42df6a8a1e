-------------------------- MODULE MCClaimConflicts --------------------------
(* Three claims in one of two namespaces, for TLC. Claims 1 and 2 violate  *)
(* the rule; if y is x, 2 and 3 do so too, at a later time.                *)
EXTENDS ClaimConflicts, TLC

CONSTANTS a, b, x, y, p, q

MCNamespace == [c \in Claims |-> a]
MCSubject == [c \in Claims |-> IF c = 3 THEN y ELSE x]
MCObject == [c \in Claims |-> IF c = 2 THEN q ELSE p]
MCFrom == [c \in Claims |-> c - 1]
MCTo == [c \in Claims |-> CASE c = 1 -> 2 [] c = 2 -> 4 [] c = 3 -> 3]
MCRequests == {{1, 2}}
Symmetric == Permutations(Detectors) \cup Permutations(Curators)
=============================================================================
