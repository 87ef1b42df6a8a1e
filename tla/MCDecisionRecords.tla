-------------------------- MODULE MCDecisionRecords --------------------------
(* Decisions, their lifecycle and their audits on a small instance.        *)
EXTENDS DecisionRecords

CONSTANTS c1, c2, w1, w2, w3, r1, a1, d1, d2, k1, m1, m2

(* The second claim is valid before time 1 only.                           *)
MCValidity(c) == IF c = c1 THEN [from |-> 0, to |-> MaxTime + 1] ELSE [from |-> 0, to |-> 1]

MCCasts == {{w1, w2, r1}, {w1, w2, w3, r1}, {w1, d1, a1}, {d1, d2, k1, a1}, {m1, m2, d1, a1}}

(* Without writers every store is alike.                                   *)
MCInit == Init /\ (cast \cap Writers = {} => store = "postgres")

(* Three writers are at work on one claim, until time 1, and one listing   *)
(* asks what was known at time 0: enough for a version to be archived late.*)
MCBound ==
  Writers \subseteq cast =>
    /\ store = "postgres" /\ now <= 1
    /\ \A w \in Writers : writer[w].pc \in {"built", "archive", "upsert"} => writer[w].claim = c1
    /\ \A w \in Writers : writer[w].pc # "transaction"
    /\ reader[r1].pc # "idle" => reader[r1].temporal.knownAt = 0

MCSpec == MCInit /\ [][Next]_decisionVars

MCRequests ==
  [purpose : {"onboarding"}, outcome : {"approve"}, confidence : {5},
   temporal : {[validAt |-> None, knownAt |-> None], [validAt |-> 0, knownAt |-> 1]}]

MCAsked == [validAt : {0}, knownAt : {None, 0, 1}]

Policy(id, policyId, version, from, to, rules) ==
  [id |-> id, policyId |-> policyId, version |-> version, status |-> "active",
   effectiveFrom |-> from, effectiveTo |-> to, purposes |-> None,
   classifications |-> {"internal"}, rules |-> rules]

MCLegacy == {Policy("old", None, 1, None, None, [allowedOutcomes |-> {"reject"}])}

(* One policy that was made stricter at time 1, and later withdrawn.       *)
MCDrafts ==
  {Policy("v1", "p", 1, None, 1, [minConfidence |-> 3]),
   Policy("v2", "p", 2, 1, None, [minConfidence |-> 7, maxClassification |-> "public"])}
=============================================================================
