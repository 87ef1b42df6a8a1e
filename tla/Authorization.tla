---------------------------- MODULE Authorization ----------------------------
(***************************************************************************)
(* Who may do what with a record. A principal has a tenant, namespaces,    *)
(* roles and a clearance, and may be an agent that acts for another; a     *)
(* record has an owner, a tenant, a namespace, a classification and a      *)
(* visibility. Only the effect is modelled, not which check denies first.  *)
(***************************************************************************)
EXTENDS Naturals, Sequences

CONSTANT None

ClassificationRank ==
  [public |-> 0, internal |-> 1, confidential |-> 2, tlp_amber |-> 3, tlp_red |-> 4]

WriteActions ==
  {"knowledge.write", "entity.resolve", "entity.merge", "memory.write", "decision.record",
   "decision.relate", "decision.observe", "decision.approve", "ingestion.write",
   "policy.evaluate", "policy.manage", "policy.exception", "conflict.detect",
   "conflict.resolve", "admin"}

Namespaces(principal) == {principal.namespaces[n] : n \in DOMAIN principal.namespaces}

ActsForAnother(principal) == principal.kind = "agent" /\ principal.actingFor # None

CrossTenant(principal, record, context) ==
  principal.tenant # context.tenant \/ record.tenant # context.tenant

ClassificationInsufficient(principal, record) ==
  ClassificationRank[principal.clearance] < ClassificationRank[record.classification]

(* An agent that acts for somebody shows a delegation by them that covers  *)
(* the action, has not expired and is for this purpose.                    *)
DelegationInvalid(principal, action, context) ==
  /\ ActsForAnother(principal)
  /\ LET delegation == context.delegation
     IN  \/ delegation = None
         \/ delegation.delegator # principal.actingFor
         \/ action \notin delegation.scope
         \/ delegation.expiresAt < context.now
         \/ context.purpose # None /\ delegation.purpose # None
              /\ context.purpose # delegation.purpose

ActingAs(principal) == IF ActsForAnother(principal) THEN principal.actingFor ELSE principal.id

PrivateToAnother(principal, record) ==
  record.visibility = "private" /\ record.owner # None /\ record.owner # ActingAs(principal)

ViewerCannotWrite(principal, action) ==
  action \in WriteActions /\ "viewer" \in principal.roles /\ "admin" \notin principal.roles

Allow(principal, action, record, context) ==
  /\ ~CrossTenant(principal, record, context)
  /\ ~ClassificationInsufficient(principal, record)
  /\ action = "admin" => "admin" \in principal.roles
  /\ ~DelegationInvalid(principal, action, context)
  /\ ~PrivateToAnother(principal, record)
  /\ record.namespace \in Namespaces(principal)
  /\ ~ViewerCannotWrite(principal, action)
=============================================================================
