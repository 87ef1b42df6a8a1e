------------------------------ MODULE Policies ------------------------------
(***************************************************************************)
(* Which policy versions apply to a decision, and what they find wrong     *)
(* with it. A version has its own id; a record of an old store has only    *)
(* the id of its policy, stands for its one version and always applies.    *)
(***************************************************************************)
EXTENDS Naturals

CONSTANT None

(* What a decision stores of the versions that were applied to it.         *)
Ref(policy) ==
  [policyId |-> IF policy.policyId = None THEN policy.id ELSE policy.policyId,
   versionId |-> policy.id, version |-> policy.version]

Within(x, allowed) == x = None \/ allowed = None \/ x \in allowed

(* Without a time every version counts, those that are over as well.       *)
InForce(policy, at) ==
  \/ at = None
  \/ /\ policy.effectiveFrom = None \/ policy.effectiveFrom <= at
     /\ policy.effectiveTo = None \/ at < policy.effectiveTo

Applicable(policy, case) ==
  \/ policy.policyId = None
  \/ /\ policy.status = "active"
     /\ InForce(policy, case.at)
     /\ Within(case.purpose, policy.purposes)
     /\ Within(case.classification, policy.classifications)

SelectApplicable(policies, case) == {policy \in policies : Applicable(policy, case)}

Rank == [public |-> 0, internal |-> 1, confidential |-> 2, restricted |-> 3]

(* What a version finds wrong with an outcome, whoever asks and whenever.  *)
Violations(policy, candidate) ==
  LET rules == policy.rules
  IN  {rule \in DOMAIN rules :
         CASE rule = "minConfidence" -> candidate.confidence < rules[rule]
           [] rule = "allowedOutcomes" -> candidate.outcome \notin rules[rule]
           [] rule = "maxClassification" -> Rank[candidate.classification] > Rank[rules[rule]]}
=============================================================================
