------------------------ MODULE MCRetrievalProjection ------------------------
(* The retrieval projection with the resolver of the code, for TLC.        *)
EXTENDS RetrievalProjection, EntityRedirects

CONSTANTS c1, c2, e1, e2

MCSubject == [c \in Claims |-> IF c = c1 THEN e1 ELSE e2]

=============================================================================
