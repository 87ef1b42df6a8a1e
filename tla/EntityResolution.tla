-------------------------- MODULE EntityResolution --------------------------
(***************************************************************************)
(* Reviewed entity resolution: a pair of entities is proposed as one, the  *)
(* proposal is decided, an approved one is merged, and a merge may be      *)
(* reverted. Nothing but the event log is kept: each operation reads the   *)
(* log, once per check, and then appends one event in a transaction.       *)
(*                                                                         *)
(* The checks and the transaction are steps of their own, so the           *)
(* operations of several callers interleave. With one caller (the          *)
(* standalone profile, where an operation runs to its end between two      *)
(* requests) they are serial.                                              *)
(*                                                                         *)
(* As in RetrievalProjection an event id is the position of the event in   *)
(* the order the code sorts by. Clocks of several processes disagree: an   *)
(* event may take a position before one that is there already.             *)
(***************************************************************************)
EXTENDS Naturals, FiniteSets

CONSTANTS
  Entities,
  Similar,       \* pairs {x, y} of entities with an identity signal
  EventIds,      \* a subset of Nat
  MaxSkew,       \* bound on the free positions an event may leave before it
  Callers,
  None

Redirects == INSTANCE EntityRedirects
               WITH EntitySet <- Entities, NoEvent <- None, Cycle <- None

Outcomes == {"approved", "rejected"}

ProposedEvent == [kind : {"entity.resolution_proposed"}, source : Entities, candidate : Entities]
DecidedEvent == [kind : {"entity.resolution_decided"}, proposal : EventIds, outcome : Outcomes]
MergedEvent == [kind : {"entity.merged"}, absorbed : Entities, surviving : Entities,
                proposal : EventIds]
RevertedEvent == [kind : {"entity.merge_reverted"}, merge : EventIds]
Event == ProposedEvent \cup DecidedEvent \cup MergedEvent \cup RevertedEvent
Log == [EventIds -> Event \cup {None}]

ASSUME ResolutionAssumption ==
  /\ EventIds \subseteq Nat /\ IsFiniteSet(EventIds)
  /\ MaxSkew \in Nat
  /\ \A pair \in Similar : \E x, y \in Entities : x # y /\ pair = {x, y}
  /\ None \notin Entities \cup Event

VARIABLES
  events,   \* the event log
  pc,       \* what each caller does next
  call,     \* the event its operation will append
  toCheck,  \* entities and proposals it has still to check
  seen      \* the log as the operation read it once for all checks

vars == <<events, pc, call, toCheck, seen>>

-----------------------------------------------------------------------------
(* Reading a log.                                                          *)

Ids(log, kind) == {i \in EventIds : log[i] # None /\ log[i].kind = kind}

Proposals(log) == Ids(log, "entity.resolution_proposed")
Decisions(log, proposal) ==
  {i \in Ids(log, "entity.resolution_decided") : log[i].proposal = proposal}
Merges(log) == Ids(log, "entity.merged")
MergesOf(log, proposal) == {i \in Merges(log) : log[i].proposal = proposal}
Reverts(log, merge) == {i \in Ids(log, "entity.merge_reverted") : log[i].merge = merge}

(* The decision that counts is the last one.                               *)
Outcome(log, proposal) ==
  LET decisions == Decisions(log, proposal)
  IN  IF decisions = {} THEN "none"
      ELSE log[CHOOSE i \in decisions : \A j \in decisions : j <= i].outcome

(* The surviving and the absorbed entity of active merges.                 *)
activeMerges(log) == {i \in Merges(log) : Reverts(log, i) = {}}

IsRoot(log, x) == Redirects!canonicalEntityIdFromEvents(log, x) = x

-----------------------------------------------------------------------------
NoLog == [i \in EventIds |-> None]

Init ==
  /\ events = NoLog
  /\ pc = [p \in Callers |-> "idle"]
  /\ call = [p \in Callers |-> None]
  /\ toCheck = [p \in Callers |-> {}]
  /\ seen = [p \in Callers |-> NoLog]

(* An operation of p goes on to a next step, or it ends.                   *)
Goto(p, next, check, log) ==
  /\ pc' = [pc EXCEPT ![p] = next]
  /\ toCheck' = [toCheck EXCEPT ![p] = check]
  /\ seen' = [seen EXCEPT ![p] = log]

Return(p) == Goto(p, "idle", {}, NoLog) /\ call' = [call EXCEPT ![p] = None]

Free(log) == {i \in EventIds : log[i] = None}
Busy == {p \in Callers : pc[p] # "idle"}

(* An operation begins while there is an id left for its event: a bound.   *)
Begin(p, event, next, check) ==
  /\ pc[p] = "idle"
  /\ Cardinality(Busy) < Cardinality(Free(events))
  /\ call' = [call EXCEPT ![p] = event]
  /\ Goto(p, next, check, NoLog)
  /\ UNCHANGED events

(* The check of a step passes, or throws and ends the operation.           *)
Check(p, passes, next, check, log) ==
  /\ IF passes THEN Goto(p, next, check, log) /\ UNCHANGED call ELSE Return(p)
  /\ UNCHANGED events

-----------------------------------------------------------------------------
(* recordEntityResolutionProposal: both entities must be roots, then no    *)
(* equivalent proposal may be open, approved or merged.                    *)

Propose(p, source, candidate) ==
  /\ {source, candidate} \in Similar
  /\ Begin(p, [kind |-> "entity.resolution_proposed", source |-> source, candidate |-> candidate],
           "proposeRoots", {source, candidate})

(* assertResolutionRoots reads the log anew for each entity.               *)
CheckRoot(p, x, here, next) ==
  /\ pc[p] = here
  /\ x \in toCheck[p]
  /\ LET rest == toCheck[p] \ {x}
     IN  Check(p, IsRoot(events, x), IF rest = {} THEN next ELSE here, rest, NoLog)

ProposeReadEvents(p) ==
  /\ pc[p] = "proposeEvents"
  /\ Check(p, TRUE, "proposeList", {}, events)

(* Mutant: does not see the pair when it was proposed the other way round. *)
SameDirection(log, proposal, event) ==
  log[proposal].source = event.source /\ log[proposal].candidate = event.candidate

SamePair(log, proposal, event) ==
  {log[proposal].source, log[proposal].candidate} = {event.source, event.candidate}

ProposeListProposals(p) ==
  /\ pc[p] = "proposeList"
  /\ LET same == {i \in Proposals(events) : SamePair(events, i, call[p])}
     IN  Check(p, TRUE, IF same = {} THEN "write" ELSE "proposeDecisions", same, seen[p])

(* A pair may be proposed again once it was rejected, or merged and the    *)
(* merge reverted. The merge and its reversal are looked up in the events  *)
(* read before the decisions.                                              *)
Reopened(p, proposal, merge) ==
  \/ Outcome(events, proposal) = "rejected"
  \/ /\ Outcome(events, proposal) = "approved"
     /\ merge # None
     /\ Reverts(seen[p], merge) # {}

ProposeReadDecisions(p, proposal) ==
  /\ pc[p] = "proposeDecisions"
  /\ proposal \in toCheck[p]
  /\ LET rest == toCheck[p] \ {proposal}
         merges == MergesOf(seen[p], proposal)
     IN  \E merge \in (IF merges = {} THEN {None} ELSE merges) :
           Check(p, Reopened(p, proposal, merge),
                 IF rest = {} THEN "write" ELSE "proposeDecisions", rest, seen[p])

(* decideEntityResolutionProposal.                                         *)

Decide(p, proposal, outcome) ==
  /\ proposal \in Proposals(events)
  /\ Begin(p, [kind |-> "entity.resolution_decided", proposal |-> proposal, outcome |-> outcome],
           "decide", {})

DecideReadDecisions(p) ==
  /\ pc[p] = "decide"
  /\ Check(p, Decisions(events, call[p].proposal) = {}, "write", {}, NoLog)

(* mergeApprovedEntityResolution: the proposal is approved, both entities  *)
(* are roots, and the proposal was not merged before.                      *)

Merge(p, proposal, surviving, absorbed) ==
  /\ proposal \in Proposals(events)
  /\ surviving # absorbed
  /\ {surviving, absorbed} = {events[proposal].source, events[proposal].candidate}
  /\ Begin(p, [kind |-> "entity.merged", absorbed |-> absorbed, surviving |-> surviving,
               proposal |-> proposal],
           "mergeDecisions", {})

(* Mutant: does not check that the absorbed entity is a root.              *)
MergeChecksSurviving(p) ==
  /\ pc[p] = "mergeDecisions"
  /\ Check(p, Outcome(events, call[p].proposal) = "approved", "mergeRoots",
           {call[p].surviving}, NoLog)

(* Mutant: does not check that the surviving entity is a root.             *)
MergeChecksAbsorbed(p) ==
  /\ pc[p] = "mergeDecisions"
  /\ Check(p, Outcome(events, call[p].proposal) = "approved", "mergeRoots",
           {call[p].absorbed}, NoLog)

(* Mutant: takes a pending proposal for an approved one.                   *)
MergeUnlessRejected(p) ==
  /\ pc[p] = "mergeDecisions"
  /\ Check(p, Outcome(events, call[p].proposal) # "rejected", "mergeRoots",
           {call[p].surviving, call[p].absorbed}, NoLog)

MergeReadDecisions(p) ==
  /\ pc[p] = "mergeDecisions"
  /\ Check(p, Outcome(events, call[p].proposal) = "approved", "mergeRoots",
           {call[p].surviving, call[p].absorbed}, NoLog)

MergeReadEvents(p) ==
  /\ pc[p] = "mergeEvents"
  /\ Check(p, MergesOf(events, call[p].proposal) = {}, "write", {}, NoLog)

(* revertEntityMerge.                                                      *)

RevertMerge(p, merge) ==
  /\ merge \in Merges(events)
  /\ Begin(p, [kind |-> "entity.merge_reverted", merge |-> merge], "revert", {})

RevertReadEvents(p) ==
  /\ pc[p] = "revert"
  /\ Check(p, Reverts(events, call[p].merge) = {}, "write", {}, NoLog)

(* The transaction of the four operations: the event, and the same event   *)
(* in the outbox.                                                          *)
Write(p, i) ==
  /\ pc[p] = "write"
  /\ i \in Free(events)
  /\ Cardinality({j \in Free(events) : j < i}) <= MaxSkew
  /\ events' = [events EXCEPT ![i] = call[p]]
  /\ Return(p)

-----------------------------------------------------------------------------
Start(p) ==
  \/ \E x, y \in Entities : Propose(p, x, y)
  \/ \E proposal \in EventIds :
       \/ \E outcome \in Outcomes : Decide(p, proposal, outcome)
       \/ \E x, y \in Entities : Merge(p, proposal, x, y)
  \/ \E merge \in EventIds : RevertMerge(p, merge)

Continue(p) ==
  \/ \E x \in Entities :
       \/ CheckRoot(p, x, "proposeRoots", "proposeEvents")
       \/ CheckRoot(p, x, "mergeRoots", "mergeEvents")
  \/ ProposeReadEvents(p)
  \/ ProposeListProposals(p)
  \/ \E proposal \in EventIds : ProposeReadDecisions(p, proposal)
  \/ DecideReadDecisions(p)
  \/ MergeReadDecisions(p)
  \/ MergeReadEvents(p)
  \/ RevertReadEvents(p)
  \/ \E i \in EventIds : Write(p, i)

Next == \E p \in Callers : Start(p) \/ Continue(p)

Spec == Init /\ [][Next]_vars

-----------------------------------------------------------------------------
(* Properties of any number of callers.                                    *)

(* An entity is merged only after a review: the proposal of a merge is of  *)
(* that pair, and some decision approved it.                               *)
MergesWereApproved ==
  \A i \in Merges(events) :
    LET proposal == events[i].proposal
    IN  /\ proposal \in Proposals(events)
        /\ {events[i].absorbed, events[i].surviving}
             = {events[proposal].source, events[proposal].candidate}
        /\ \E d \in Decisions(events, proposal) : events[d].outcome = "approved"

(* The knowledge capability and the retrieval projection each derive the   *)
(* canonical entity from the log in code of their own. Wherever the first  *)
(* does not fail on a cycle they agree.                                    *)
ResolversAgree ==
  \A x \in Entities :
    Redirects!canonicalEntityIdFromEvents(events, x) \in
      {None, Redirects!canonicalEntityResolver(events, x)}

(* Properties of one caller.                                               *)

(* No cycle of merges, and no entity absorbed twice: the active merges are *)
(* a forest, so the order in which merges are read does not matter.        *)
MergesFormAForest ==
  /\ \A x \in Entities : Redirects!canonicalEntityIdFromEvents(events, x) # None
  /\ \A i, j \in activeMerges(events) : events[i].absorbed = events[j].absorbed => i = j

(* A proposal is decided once and merged once, a merge is reverted once,   *)
(* and a pair has one proposal that may still be merged or is.             *)
Open(log, i) ==
  LET merges == MergesOf(log, i)
  IN  Outcome(log, i) # "rejected" /\ (merges = {} \/ merges \cap activeMerges(log) # {})

ReviewedOnce ==
  /\ \A i \in Proposals(events) :
       /\ Cardinality(Decisions(events, i)) <= 1
       /\ Cardinality(MergesOf(events, i)) <= 1
  /\ \A i \in Merges(events) : Cardinality(Reverts(events, i)) <= 1
  /\ \A i, j \in Proposals(events) :
       /\ Open(events, i) /\ Open(events, j)
       /\ {events[i].source, events[i].candidate} = {events[j].source, events[j].candidate}
       => i = j

(* A merge moves exactly the cluster of the absorbed entity to the         *)
(* surviving one, a reversal gives the absorbed entity back its own        *)
(* cluster, and no other step changes what any entity stands for.          *)
Canonical(log, x) == Redirects!canonicalEntityIdFromEvents(log, x)

Moved(i, x) ==
  CASE events'[i] \in MergedEvent ->
         Canonical(events', x) = IF Canonical(events, x) = events'[i].absorbed
                                 THEN events'[i].surviving ELSE Canonical(events, x)
    [] events'[i] \in RevertedEvent ->
         LET restored == events[events'[i].merge].absorbed
         IN  /\ Canonical(events', restored) = restored
             /\ Canonical(events', x) \in {restored, Canonical(events, x)}
    [] OTHER -> Canonical(events', x) = Canonical(events, x)

StepsMoveOneCluster ==
  [][\A i \in EventIds : events'[i] # events[i] => \A x \in Entities : Moved(i, x)]_events

(* What tests of the code say of operations that run one after another.    *)

(* "requires merge inputs to remain canonical roots".                      *)
NoMergeCycle == \A x \in Entities : Canonical(events, x) # None
=============================================================================
