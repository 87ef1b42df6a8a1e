--------------------------- MODULE DecisionRecords ---------------------------
(***************************************************************************)
(* Decisions: what one is recorded with, what is added to it later, and    *)
(* what an audit finds of it.                                              *)
(*                                                                         *)
(* A decider selects the policies that apply, searches the claims, stores  *)
(* the receipt of the search and a snapshot of the context, and commits    *)
(* the decision with them. A curator relates decisions, observes outcomes, *)
(* and records exceptions and approvals; they exist as events only. An     *)
(* auditor replays a decision and collects what the store says of it.      *)
(* Claims are written meanwhile, and policy versions added.                *)
(*                                                                         *)
(* The callers are authorized, and a search returns every claim it may.    *)
(***************************************************************************)
EXTENDS BitemporalStore

INSTANCE Policies

CONSTANTS
  Deciders,    \* each records one decision, which bears its name
  Curators,    \* each does one operation
  Auditors,    \* each audits one decision
  Managers,    \* each adds a policy version
  Casts,       \* the processes that are at work together
  Requests,    \* [purpose, temporal, outcome, confidence]
  Asked,       \* perspectives of the other readers
  Legacy,      \* policies of an old store
  Drafts       \* policy versions that may be added

ASSUME DecisionAssumption ==
  /\ Auditors \subseteq Readers
  /\ Asked \subseteq Perspectives
  /\ \A request \in Requests : request.temporal \in Perspectives
  /\ None \notin Deciders
  /\ \A policy, other \in Legacy : policy.id = other.id => policy = other

VARIABLES
  cast,
  policies,    \* the stored policy records
  receipts,    \* decisions whose retrieval receipt is stored
  decisions,   \* the stored decisions
  log,         \* lifecycle events in the order of their commits
  decider, curator, auditor, manager

audit == <<decisions, log>>
decisionVars == <<storeVars, cast, policies, receipts, audit, decider, curator, auditor, manager>>

Init ==
  /\ StoreInit
  /\ cast \in Casts
  /\ policies = Legacy
  /\ receipts = {}
  /\ decisions = [d \in {} |-> None]
  /\ log = <<>>
  /\ decider = [d \in Deciders |-> Idle]
  /\ curator = [k \in Curators |-> Idle]
  /\ auditor = [a \in Auditors |-> Idle]
  /\ manager = [m \in Managers |-> "idle"]

-----------------------------------------------------------------------------
(* Policy versions.                                                        *)

(* Mutant of StorageKey: the record is stored under the id of its policy.  *)
PolicyKey(draft) == draft.policyId

(* Every version is a record of its own.                                   *)
StorageKey(draft) == draft.id

PutPolicyVersion(m) ==
  /\ manager[m] = "idle"
  /\ \E draft \in Drafts :
       /\ ~( /\ draft.effectiveFrom # None /\ draft.effectiveTo # None
             /\ draft.effectiveTo <= draft.effectiveFrom)
       /\ \A policy \in policies : policy.id # draft.id
       /\ policies' = {policy \in policies : StorageKey(policy) # StorageKey(draft)}
                        \cup {draft}
  /\ manager' = [manager EXCEPT ![m] = "done"]
  /\ UNCHANGED <<storeVars, receipts, audit, decider, curator, auditor>>

-----------------------------------------------------------------------------
(* Recording a decision.                                                   *)

At(temporal) == IF temporal.knownAt # None THEN temporal.knownAt ELSE temporal.validAt

Decide(d) ==
  /\ decider[d].pc = "idle"
  /\ \E request \in Requests :
       decider' = [decider EXCEPT ![d] =
         [pc |-> "search", request |-> request,
          policies |-> SelectApplicable(policies,
            [purpose |-> request.purpose, classification |-> "internal",
             at |-> At(request.temporal)])]]
  /\ UNCHANGED <<storeVars, policies, receipts, audit, curator, auditor, manager>>

Search(d) ==
  /\ decider[d].pc = "search"
  /\ decider' = [decider EXCEPT ![d] =
       [pc |-> "receipt", request |-> @.request, policies |-> @.policies,
        claims |-> {c \in Claims : AsOf(c, decider[d].request.temporal) # None},
        searched |-> Len(commits)]]
  /\ UNCHANGED <<storeVars, policies, receipts, audit, curator, auditor, manager>>

PutReceipt(d) ==
  /\ decider[d].pc = "receipt"
  /\ receipts' = receipts \cup {d}
  /\ decider' = [decider EXCEPT ![d].pc = "capture"]
  /\ UNCHANGED <<storeVars, policies, audit, curator, auditor, manager>>

(* The snapshot is built and stored.                                       *)
Capture(d) ==
  /\ decider[d].pc = "capture"
  /\ decider' = [decider EXCEPT ![d] =
       [pc |-> "commit", request |-> @.request, policies |-> @.policies, claims |-> @.claims,
        searched |-> @.searched, capturedAt |-> now]]
  /\ UNCHANGED <<storeVars, policies, receipts, audit, curator, auditor, manager>>

Candidate(request) ==
  [outcome |-> request.outcome, confidence |-> request.confidence, classification |-> "internal"]

(* One transaction stores the decision with its snapshot, its event and    *)
(* what the policies found.                                                *)
CommitDecision(d) ==
  /\ decider[d].pc = "commit"
  /\ decisions' = [e \in DOMAIN decisions \cup {d} |->
       IF e # d THEN decisions[e]
       ELSE LET made == decider[d]
            IN  [request |-> made.request, claims |-> made.claims, searched |-> made.searched,
                 capturedAt |-> made.capturedAt,
                 refs |-> {Ref(policy) : policy \in made.policies},
                 evaluations |-> {[policyId |-> Ref(policy).policyId, version |-> policy.version,
                                   violations |-> Violations(policy, Candidate(made.request))]
                                  : policy \in made.policies}]]
  /\ log' = Append(log, [kind |-> "recorded", decision |-> d, related |-> None, by |-> d])
  /\ decider' = [decider EXCEPT ![d] = [pc |-> "done"]]
  /\ UNCHANGED <<storeVars, policies, receipts, curator, auditor, manager>>

(* Something throws, or the process dies: no decision.                     *)
DeciderFails(d) ==
  /\ decider[d].pc \notin {"idle", "done"}
  /\ decider' = [decider EXCEPT ![d] = [pc |-> "done"]]
  /\ UNCHANGED <<storeVars, policies, receipts, audit, curator, auditor, manager>>

-----------------------------------------------------------------------------
(* The lifecycle of a decision.                                            *)

CuratorGoes(k, next) == curator' = [curator EXCEPT ![k] = next]

GetDecision(k) ==
  /\ curator[k].pc = "idle"
  /\ \E d \in Deciders, kind \in {"related", "outcome", "exception", "approval"} :
       CuratorGoes(k, IF d \in DOMAIN decisions
                      THEN [pc |-> "check", kind |-> kind, decision |-> d]
                      ELSE [pc |-> "done"])
  /\ UNCHANGED <<storeVars, policies, receipts, audit, decider, auditor, manager>>

Checked(k, kind, related) ==
  CuratorGoes(k, [pc |-> "write", kind |-> kind, decision |-> curator[k].decision,
                  related |-> related])

Refused(k) == CuratorGoes(k, [pc |-> "done"])

Checks(k, kind) ==
  /\ curator[k].pc = "check" /\ curator[k].kind = kind
  /\ UNCHANGED <<storeVars, policies, receipts, audit, decider, auditor, manager>>

(* The other decision must be there.                                       *)
RelateDecision(k) ==
  /\ Checks(k, "related")
  /\ \E other \in Deciders :
       IF other \in DOMAIN decisions THEN Checked(k, "related", other) ELSE Refused(k)

(* So must the evidence of an outcome; what evidence there is is left open. *)
ObserveDecisionOutcome(k) ==
  /\ Checks(k, "outcome")
  /\ Checked(k, "outcome", None) \/ Refused(k)

(* And the version of a policy an exception is made from.                  *)
RecordPolicyException(k) ==
  /\ Checks(k, "exception")
  /\ \E draft \in Drafts :
       IF \E policy \in policies : Ref(policy).versionId = draft.id
       THEN Checked(k, "exception", None) ELSE Refused(k)

RecordDecisionApproval(k) ==
  /\ Checks(k, "approval")
  /\ Checked(k, "approval", None)

LifecycleRecord(k) ==
  [kind |-> curator[k].kind, decision |-> curator[k].decision, related |-> curator[k].related,
   by |-> k]

PersistLifecycleEvent(k) ==
  /\ curator[k].pc = "write"
  /\ log' = Append(log, LifecycleRecord(k))
  /\ CuratorGoes(k, [pc |-> "done"])
  /\ UNCHANGED <<storeVars, policies, receipts, decisions, decider, auditor, manager>>

-----------------------------------------------------------------------------
(* The audit of a decision.                                                *)

Range(sequence) == {sequence[n] : n \in DOMAIN sequence}

GetAuditedDecision(a) ==
  /\ auditor[a].pc = "idle"
  /\ \E d \in DOMAIN decisions :
       auditor' = [auditor EXCEPT ![a] = [pc |-> "receipt", decision |-> d, began |-> Range(log)]]
  /\ UNCHANGED <<storeVars, policies, receipts, audit, decider, curator, manager>>

GetReceipt(a) ==
  /\ auditor[a].pc = "receipt"
  /\ auditor' = [auditor EXCEPT ![a] =
       [pc |-> "policies", decision |-> @.decision, began |-> @.began,
        receipt |-> @.decision \in receipts]]
  /\ UNCHANGED <<storeVars, policies, receipts, audit, decider, curator, manager>>

(* Claims are listed as of the time the request knew of, or else of the    *)
(* snapshot.                                                               *)
KnownTo(decision) ==
  LET knownAt == decision.request.temporal.knownAt
  IN  IF knownAt = None THEN decision.capturedAt ELSE knownAt

AuditPerspective(decision) == [decision.request.temporal EXCEPT !.knownAt = KnownTo(decision)]

LoadPolicies(a) ==
  /\ auditor[a].pc = "policies"
  /\ LET decision == decisions[auditor[a].decision]
     IN  /\ auditor' = [auditor EXCEPT ![a] =
              [pc |-> "claims", decision |-> @.decision, began |-> @.began, receipt |-> @.receipt,
               policies |-> {policy \in policies : \E ref \in decision.refs :
                               Ref(policy).versionId = ref.versionId /\ policy.version = ref.version}]]
         /\ BeginList(a, AuditPerspective(decision))
  /\ UNCHANGED <<store, now, records, writer, policies, receipts, audit, decider, curator, manager>>

Lists == [relations |-> "related", outcomes |-> "outcome", exceptions |-> "exception",
          approvals |-> "approval"]

(* Events of claims and evidence are left out.                             *)
TouchesContext(event, d) == event.decision = d

(* When the claims are listed, the events that name the decision are read, *)
ListEvents(a) ==
  /\ auditor[a].pc = "claims"
  /\ reader[a].pc = "listed"
  /\ auditor' = [auditor EXCEPT ![a] =
       [pc |-> "lifecycle", decision |-> @.decision, began |-> @.began, receipt |-> @.receipt,
        policies |-> @.policies,
        claims |-> {c \in decisions[@.decision].claims : reader[a].answer[c] # None},
        base |-> {event \in Range(log) : TouchesContext(event, @.decision)},
        lists |-> [list \in {} |-> {}],
        events |-> {}, left |-> DOMAIN Lists \cup {"events"}]]
  /\ UNCHANGED <<storeVars, policies, receipts, audit, decider, curator, manager>>

(* Mutant of Matches: a relation belongs to the decision it begins at.     *)
MatchesFrom(event, d) == event.decision = d

Matches(event, d) == event.decision = d \/ (event.kind = "related" /\ event.related = d)

TouchesDecision(event, d) ==
  event.kind \in {Lists[list] : list \in DOMAIN Lists} /\ Matches(event, d)

(* then the four lists and once more the events, at the same time. An      *)
(* event that was read before is not added again.                          *)
ListLifecycle(a) ==
  /\ auditor[a].pc = "lifecycle"
  /\ \E list \in auditor[a].left :
       LET d == auditor[a].decision
           found(kind) == {event \in Range(log) : event.kind = kind /\ Matches(event, d)}
       IN  auditor' = [auditor EXCEPT
             ![a].left = @ \ {list},
             ![a].lists = IF list = "events" THEN @
                          ELSE [l \in DOMAIN @ \cup {list} |->
                                  IF l = list THEN found(Lists[l]) ELSE @[l]],
             ![a].events = IF list # "events" THEN @
                           ELSE {event \in Range(log) : TouchesDecision(event, d)}
                                  \ auditor[a].base,
             ![a].pc = IF auditor[a].left = {list} THEN "done" ELSE @]
  /\ UNCHANGED <<storeVars, policies, receipts, audit, decider, curator, manager>>

-----------------------------------------------------------------------------
StoreStep ==
  /\ \/ \E w \in Writers \cap cast : Write(w)
     \/ \E r \in Readers \cap cast : List(r)
     \/ \E r \in (Readers \ Auditors) \cap cast :
          /\ reader[r].pc = "idle"
          /\ \E temporal \in Asked : BeginList(r, temporal)
          /\ UNCHANGED <<store, now, records, writer>>
     \/ Tick
  /\ UNCHANGED <<policies, receipts, audit, decider, curator, auditor, manager>>

Record(d) == Decide(d) \/ Search(d) \/ PutReceipt(d) \/ Capture(d) \/ CommitDecision(d) \/ DeciderFails(d)

Curate(k) ==
  \/ GetDecision(k)
  \/ RelateDecision(k)
  \/ ObserveDecisionOutcome(k)
  \/ RecordPolicyException(k)
  \/ RecordDecisionApproval(k)
  \/ PersistLifecycleEvent(k)

Audit(a) == GetAuditedDecision(a) \/ GetReceipt(a) \/ LoadPolicies(a) \/ ListEvents(a) \/ ListLifecycle(a)

Next ==
  /\ \/ StoreStep
     \/ \E m \in Managers \cap cast : PutPolicyVersion(m)
     \/ \E d \in Deciders \cap cast : Record(d)
     \/ \E k \in Curators \cap cast : Curate(k)
     \/ \E a \in Auditors \cap cast : Audit(a)
  /\ UNCHANGED cast

Spec == Init /\ [][Next]_decisionVars

-----------------------------------------------------------------------------
(* A replay finds the receipt and every version the decision was made      *)
(* under, and these find wrong with it what they found then, although      *)
(* newer versions have been stored.                                        *)
ReplayIsComplete ==
  \A a \in Auditors : auditor[a].pc \in {"claims", "lifecycle", "done"} =>
    LET decision == decisions[auditor[a].decision]
    IN  /\ auditor[a].receipt
        /\ {Ref(policy) : policy \in auditor[a].policies} = decision.refs
        /\ {[policyId |-> Ref(policy).policyId, version |-> policy.version,
             violations |-> Violations(policy, Candidate(decision.request))]
            : policy \in auditor[a].policies} = decision.evaluations

(* An audit tells the whole story. The claims the decision was made with   *)
(* are in it; one is missing only if a version that was built before the   *)
(* snapshot was committed after the search, or two versions in another     *)
(* order than their times, or a version was overrun or archived late. And  *)
(* what was added to the decision before the audit began is in the list of *)
(* its kind and once among the events, also the relations that lead to it  *)
(* from another decision.                                                  *)
AuditsAreComplete ==
  \A a \in Auditors : auditor[a].pc = "done" =>
    LET d == auditor[a].decision
        decision == decisions[d]
    IN  /\ \A c \in decision.claims \ auditor[a].claims :
             \/ Overtaken(c) \/ Lost(c) \/ ArchivedLate(c)
             \/ \E n \in DOMAIN commits :
                  /\ n > decision.searched
                  /\ commits[n].claim = c
                  /\ commits[n].version.recordedAt <= KnownTo(decision)
        /\ auditor[a].base \cap auditor[a].events = {}
        /\ \A event \in auditor[a].began :
             event.decision = d \/ event.related = d =>
               /\ event \in auditor[a].base \cup auditor[a].events
               /\ \A list \in DOMAIN Lists :
                    event.kind = Lists[list] => event \in auditor[a].lists[list]
=============================================================================
