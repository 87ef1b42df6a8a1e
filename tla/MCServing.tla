------------------------------ MODULE MCServing ------------------------------
(***************************************************************************)
(* Four claims of one tenant: one that matches best, one in a second       *)
(* namespace, one that is restricted and that only the graph finds, and    *)
(* one that comes late and is two hops from the first. Searches by a human *)
(* who may read it all and by one who may not, in each kind of store;      *)
(* requests that share a token, with tokens of two principals, with one    *)
(* that has no scopes and with one that soon expires.                      *)
(***************************************************************************)
EXTENDS Serving

MCClaims == {"c1", "c2", "c3", "c4"}
MCOrder == <<"c1", "c2", "c3", "c4">>
MCAsserted == {"c1", "c2", "c3"}
MCChanging == {"c1", "c4"}

MCSubject(c) == [c1 |-> "e1", c2 |-> "e2", c3 |-> "e2", c4 |-> "e3"][c]
MCObject(c) == [c1 |-> "e2", c2 |-> None, c3 |-> "e3", c4 |-> None][c]
MCTokens == [c1 |-> 2, c2 |-> 2, c3 |-> 0, c4 |-> 1]
MCSimilarity == [c1 |-> 8, c2 |-> 0, c3 |-> 0, c4 |-> 0]

MCRecord(c) ==
  [tenant |-> "acme", owner |-> "ann",
   namespace |-> IF c = "c2" THEN "legal" ELSE "sales",
   classification |-> IF c = "c3" THEN "tlp_red" ELSE "internal",
   visibility |-> IF c = "c4" THEN "private" ELSE "workspace"]

MCSearchers == {"s1", "s2", "s3", "s4", "s5"}
MCRequests == MCSearchers \cup {"r1", "r2", "r3", "r4", "r5", "r6"}
MCCasts == {{s} : s \in MCSearchers} \cup {{"r1", "r2"}, {"r3", "r5"}, {"r4"}, {"r6"}}
MCOperation(q) == IF q \in MCSearchers THEN "search_knowledge" ELSE "list_policies"
MCSource(q) ==
  IF q \in {"s1", "s2"} THEN "gate" ELSE [s3 |-> "postgres", s4 |-> "sqlite", s5 |-> "memory"][q]
MCBudget(q) == IF q \in {"s4", "s5"} THEN 1 ELSE 2
MCRoute(q) == IF q \in {"s1", "s2", "s4", "s5", "r3", "r5"} THEN "rest" ELSE "mcp"
MCBearer(q) == [s1 |-> "ta", s2 |-> "tb", s3 |-> "tb", s4 |-> "ta", s5 |-> "ta", r1 |-> "ta", r2 |-> "ta", r3 |-> "tb", r4 |-> "tc", r5 |-> "tc", r6 |-> "tb"][q]

MCAccessTokens == {"ta", "tb", "tc"}
MCRequired == {"kotowari.retrieve"}
MCScopes(t) == IF t = "tc" THEN {} ELSE MCRequired
MCExpiry(t) == IF t = "tb" THEN 2 ELSE 4

MCPrincipal(t) ==
  [kind |-> "human", tenant |-> "acme", namespaces |-> <<"sales">>, roles |-> {"viewer"},
   id |-> [ta |-> "ann", tb |-> "bob", tc |-> "cat"][t],
   clearance |-> IF t = "ta" THEN "tlp_red" ELSE "internal"]
=============================================================================
