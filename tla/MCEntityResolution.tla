------------------------- MODULE MCEntityResolution -------------------------
(* Entity resolution on a small instance, for TLC.                         *)
EXTENDS EntityResolution, TLC

CONSTANTS a, b, c

(* The pair of a run about one proposal, and the pairs of a run about      *)
(* clusters.                                                               *)
OnePair == {{a, b}}
Chain == {{a, b}, {b, c}}

CallerSymmetry == Permutations(Callers)
ChainSymmetry == {[x \in Entities |-> IF x = a THEN c ELSE IF x = c THEN a ELSE b]}
=============================================================================
