------------------------ MODULE RetrievalProjection ------------------------
(***************************************************************************)
(* The Postgres retrieval projection: a table with one row per live claim, *)
(* derived from the canonical claims and from the domain-event log, and    *)
(* maintained by sync() (incremental, run in a loop by the worker) and     *)
(* rebuild() (full, run by sync when an entity identity changed, or by an  *)
(* operator).                                                              *)
(*                                                                         *)
(* Every await of the code that reads or writes the database is a step of  *)
(* its own: a maintainer first reads the event log, then the processed     *)
(* marks, then the claims one by one, and then commits rows and marks in   *)
(* one transaction. Canonical writers, other maintainers and failures may  *)
(* come in between. A canonical write commits its record and its event in  *)
(* one transaction, so it is one step.                                     *)
(*                                                                         *)
(* An event id is also the position of the event in the order the code     *)
(* sorts by (occurredAt, then eventId). Writers take ids in any order: an  *)
(* event stamped early may commit late.                                    *)
(***************************************************************************)
EXTENDS Naturals

CONSTANTS
  Claims,          \* claim ids
  Entities,        \* entity ids
  EventIds,        \* event ids, a subset of Nat
  Subject,         \* the entity each claim is about
  Resolver(_, _),  \* the canonical id of an entity under a log of identity events
  Maintainers,     \* processes that call sync() or rebuild()
  MaxFaults,       \* bound on failed operations and lost projections
  None             \* no event, no row

(* What the claim.* and entity.* events carry; every other kind of event   *)
(* is "other".                                                             *)
ClaimEvent == [kind : {"claim.asserted", "claim.retracted"}, claim : Claims]
MergeEvent == [kind : {"entity.merged"}, absorbed : Entities, surviving : Entities]
RevertEvent == [kind : {"entity.merge_reverted"}, merge : EventIds]
OtherEvent == [kind : {"other"}]
Event == ClaimEvent \cup MergeEvent \cup RevertEvent \cup OtherEvent
Log == [EventIds -> Event \cup {None}]
IdentityLog == [EventIds -> MergeEvent \cup RevertEvent \cup {None}]

ASSUME ConstantsAssumption ==
  /\ EventIds \subseteq Nat
  /\ Subject \in [Claims -> Entities]
  /\ None \notin Entities
  /\ None \notin Event
  /\ MaxFaults \in Nat

(* A resolver maps entities to entities, whatever identity events it sees. *)
ASSUME ResolverAssumption ==
  \A log \in IdentityLog, x \in Entities : Resolver(log, x) \in Entities

VARIABLES
  status,     \* canonical claims: absent, live or retracted
  events,     \* canonical event log
  rows,       \* retrieval_projection: the canonical entity stored per claim
  processed,  \* retrieval_projection_events: ids marked processed
  pc,         \* where each maintainer is
  view,       \* the event log as the maintainer read it
  pend,       \* ids the maintainer will mark processed
  toRead,     \* claims it has still to read
  live,       \* claims it read and found not retracted
  faults      \* failures so far

canonical == <<status, events>>
projection == <<rows, processed>>
locals == <<pc, view, pend, toRead, live>>
vars == <<status, events, rows, processed, pc, view, pend, toRead, live, faults>>

-----------------------------------------------------------------------------
(* Reading a log.                                                          *)

Committed(log) == {i \in EventIds : log[i] # None}

IdentityKinds == {"entity.merged", "entity.merge_reverted"}
ClaimKinds == {"claim.asserted", "claim.retracted"}

IdentityIds(log) == {i \in Committed(log) : log[i].kind \in IdentityKinds}
ClaimIds(log) == {i \in Committed(log) : log[i].kind \in ClaimKinds}

relevantEvents(log) == IdentityIds(log) \cup ClaimIds(log)

ClaimsOf(log, ids) == {log[i].claim : i \in ids \cap ClaimIds(log)}

(* The resolver reads the merges and the reverts of the log it is given.   *)
resolveEntity(log, x) ==
  Resolver([i \in EventIds |-> IF i \in IdentityIds(log) THEN log[i] ELSE None], x)

-----------------------------------------------------------------------------
Init ==
  /\ status = [c \in Claims |-> "absent"]
  /\ events = [i \in EventIds |-> None]
  /\ rows = [c \in Claims |-> None]
  /\ processed = {}
  /\ pc = [m \in Maintainers |-> "idle"]
  /\ view = [m \in Maintainers |-> [i \in EventIds |-> None]]
  /\ pend = [m \in Maintainers |-> {}]
  /\ toRead = [m \in Maintainers |-> {}]
  /\ live = [m \in Maintainers |-> {}]
  /\ faults = 0

-----------------------------------------------------------------------------
(* Canonical writers. Each appends one event under an unused id.           *)

appendEvent(i, event) ==
  /\ events[i] = None
  /\ events' = [events EXCEPT ![i] = event]

AssertClaim(c, i) ==
  /\ status[c] = "absent"
  /\ status' = [status EXCEPT ![c] = "live"]
  /\ appendEvent(i, [kind |-> "claim.asserted", claim |-> c])
  /\ UNCHANGED <<projection, locals, faults>>

RetractClaim(c, i) ==
  /\ status[c] = "live"
  /\ status' = [status EXCEPT ![c] = "retracted"]
  /\ appendEvent(i, [kind |-> "claim.retracted", claim |-> c])
  /\ UNCHANGED <<projection, locals, faults>>

(* The checks of a merge and of a revert are made before its transaction,  *)
(* so concurrent calls may commit any pair of distinct entities and any    *)
(* revert of a committed merge.                                            *)
MergeEntities(absorbed, surviving, i) ==
  /\ absorbed # surviving
  /\ appendEvent(i, [kind |-> "entity.merged", absorbed |-> absorbed, surviving |-> surviving])
  /\ UNCHANGED <<status, projection, locals, faults>>

RevertMerge(merge, i) ==
  /\ events[merge] \in MergeEvent
  /\ appendEvent(i, [kind |-> "entity.merge_reverted", merge |-> merge])
  /\ UNCHANGED <<status, projection, locals, faults>>

RecordOther(i) ==
  /\ appendEvent(i, [kind |-> "other"])
  /\ UNCHANGED <<status, projection, locals, faults>>

-----------------------------------------------------------------------------
(* Maintainers.                                                            *)

(* The operation is over, or failed: its local variables are gone.         *)
Return(m) ==
  /\ pc' = [pc EXCEPT ![m] = "idle"]
  /\ view' = [view EXCEPT ![m] = [i \in EventIds |-> None]]
  /\ pend' = [pend EXCEPT ![m] = {}]
  /\ toRead' = [toRead EXCEPT ![m] = {}]
  /\ live' = [live EXCEPT ![m] = {}]

SyncReadEvents(m) ==
  /\ pc[m] = "idle"
  /\ pc' = [pc EXCEPT ![m] = "viewed"]
  /\ view' = [view EXCEPT ![m] = events]
  /\ UNCHANGED <<canonical, projection, pend, toRead, live, faults>>

Pending(m) == relevantEvents(view[m]) \ processed

SyncNothingPending(m) ==
  /\ pc[m] = "viewed"
  /\ Pending(m) = {}
  /\ Return(m)
  /\ UNCHANGED <<canonical, projection, faults>>

SyncNeedsRebuild(m) ==
  /\ pc[m] = "viewed"
  /\ Pending(m) \cap IdentityIds(view[m]) # {}
  /\ pc' = [pc EXCEPT ![m] = "rebuild"]
  /\ UNCHANGED <<canonical, projection, view, pend, toRead, live, faults>>

(* Mutant: takes the incremental way for identity events as well.          *)
SyncIncrementIdentity(m) ==
  /\ pc[m] = "viewed"
  /\ Pending(m) # {}
  /\ pc' = [pc EXCEPT ![m] = "syncClaims"]
  /\ pend' = [pend EXCEPT ![m] = Pending(m)]
  /\ toRead' = [toRead EXCEPT ![m] = ClaimsOf(view[m], Pending(m))]
  /\ UNCHANGED <<canonical, projection, view, live, faults>>

SyncIncrement(m) ==
  /\ pc[m] = "viewed"
  /\ Pending(m) # {}
  /\ Pending(m) \cap IdentityIds(view[m]) = {}
  /\ pc' = [pc EXCEPT ![m] = "syncClaims"]
  /\ pend' = [pend EXCEPT ![m] = Pending(m)]
  /\ toRead' = [toRead EXCEPT ![m] = ClaimsOf(view[m], Pending(m))]
  /\ UNCHANGED <<canonical, projection, view, live, faults>>

(* Mutant: will mark the events not yet marked only.                       *)
RebuildMarksPending(m) ==
  /\ pc' = [pc EXCEPT ![m] = "rebuildClaims"]
  /\ view' = [view EXCEPT ![m] = events]
  /\ pend' = [pend EXCEPT ![m] = relevantEvents(events) \ processed]
  /\ toRead' = [toRead EXCEPT ![m] = ClaimsOf(events, relevantEvents(events))]
  /\ UNCHANGED <<canonical, projection, live, faults>>

RebuildReadEvents(m) ==
  /\ pc' = [pc EXCEPT ![m] = "rebuildClaims"]
  /\ view' = [view EXCEPT ![m] = events]
  /\ pend' = [pend EXCEPT ![m] = relevantEvents(events)]
  /\ toRead' = [toRead EXCEPT ![m] = ClaimsOf(events, relevantEvents(events))]
  /\ UNCHANGED <<canonical, projection, live, faults>>

SyncRebuild(m) == pc[m] = "rebuild" /\ RebuildReadEvents(m)
OperatorRebuild(m) == pc[m] = "idle" /\ RebuildReadEvents(m)

ReadClaim(m, c) ==
  /\ pc[m] \in {"syncClaims", "rebuildClaims"}
  /\ c \in toRead[m]
  /\ toRead' = [toRead EXCEPT ![m] = @ \ {c}]
  /\ live' = [live EXCEPT ![m] = IF status[c] = "live" THEN @ \cup {c} ELSE @]
  /\ UNCHANGED <<canonical, projection, pc, view, pend, faults>>

(* The row upsertClaim writes, or the absence of one.                      *)
RowFrom(m, c) == IF c \in live[m] THEN resolveEntity(view[m], Subject[c]) ELSE None

(* Mutant: does not mark what it has processed.                            *)
CommitSyncWithoutMarks(m) ==
  /\ pc[m] = "syncClaims"
  /\ toRead[m] = {}
  /\ rows' = [c \in Claims |-> IF c \in ClaimsOf(view[m], pend[m]) THEN RowFrom(m, c) ELSE rows[c]]
  /\ Return(m)
  /\ UNCHANGED <<canonical, processed, faults>>

CommitSync(m) ==
  /\ pc[m] = "syncClaims"
  /\ toRead[m] = {}
  /\ rows' = [c \in Claims |-> IF c \in ClaimsOf(view[m], pend[m]) THEN RowFrom(m, c) ELSE rows[c]]
  /\ processed' = processed \cup pend[m]
  /\ Return(m)
  /\ UNCHANGED <<canonical, faults>>

(* Mutant: does not delete the old rows first.                             *)
CommitRebuildOverOldRows(m) ==
  /\ pc[m] = "rebuildClaims"
  /\ toRead[m] = {}
  /\ rows' = [c \in Claims |-> IF c \in live[m] THEN RowFrom(m, c) ELSE rows[c]]
  /\ processed' = pend[m]
  /\ Return(m)
  /\ UNCHANGED <<canonical, faults>>

CommitRebuild(m) ==
  /\ pc[m] = "rebuildClaims"
  /\ toRead[m] = {}
  /\ rows' = [c \in Claims |-> RowFrom(m, c)]
  /\ processed' = pend[m]
  /\ Return(m)
  /\ UNCHANGED <<canonical, faults>>

(* A query, the embedding provider or the transaction throws, or the       *)
(* process dies: nothing of the operation is in the database.              *)
Fail(m) ==
  /\ pc[m] # "idle"
  /\ faults < MaxFaults
  /\ faults' = faults + 1
  /\ Return(m)
  /\ UNCHANGED <<canonical, projection>>

(* The projection's tables are lost and created empty again by initialize. *)
LoseProjection ==
  /\ faults < MaxFaults
  /\ faults' = faults + 1
  /\ rows' = [c \in Claims |-> None]
  /\ processed' = {}
  /\ UNCHANGED <<canonical, locals>>

-----------------------------------------------------------------------------
Write ==
  \E i \in EventIds :
    \/ \E c \in Claims : AssertClaim(c, i) \/ RetractClaim(c, i)
    \/ \E a, s \in Entities : MergeEntities(a, s, i)
    \/ \E merge \in EventIds : RevertMerge(merge, i)
    \/ RecordOther(i)

SyncStep(m) ==
  \/ SyncReadEvents(m)
  \/ SyncNothingPending(m)
  \/ SyncNeedsRebuild(m)
  \/ SyncIncrement(m)
  \/ SyncRebuild(m)
  \/ \E c \in Claims : ReadClaim(m, c)
  \/ CommitSync(m)
  \/ CommitRebuild(m)

Next ==
  \/ Write
  \/ \E m \in Maintainers : SyncStep(m) \/ OperatorRebuild(m) \/ Fail(m)
  \/ LoseProjection

Spec == Init /\ [][Next]_vars

(* The worker's run loop calls sync again and again and catches its        *)
(* errors, so a maintainer keeps making steps. Nobody has to write.        *)
Fairness == \A m \in Maintainers : WF_vars(SyncStep(m))

FairSpec == Spec /\ Fairness

-----------------------------------------------------------------------------
MaintainerPc == {"idle", "viewed", "rebuild", "syncClaims", "rebuildClaims"}

TypeOK ==
  /\ status \in [Claims -> {"absent", "live", "retracted"}]
  /\ events \in Log
  /\ rows \in [Claims -> Entities \cup {None}]
  /\ processed \subseteq EventIds
  /\ pc \in [Maintainers -> MaintainerPc]
  /\ view \in [Maintainers -> Log]
  /\ pend \in [Maintainers -> SUBSET EventIds]
  /\ toRead \in [Maintainers -> SUBSET Claims]
  /\ live \in [Maintainers -> SUBSET Claims]
  /\ faults \in 0..MaxFaults

(* The row a claim should have now.                                        *)
RowOf(c) == IF status[c] = "live" THEN resolveEntity(events, Subject[c]) ELSE None

EventsOf(c) == {i \in ClaimIds(events) : events[i].claim = c}

ClaimCaughtUp(c) == EventsOf(c) \subseteq processed

IdentityCaughtUp == IdentityIds(events) \subseteq processed

(* What status() reports as pendingEvents = 0.                             *)
NothingPending == relevantEvents(events) \subseteq processed

(* Properties of a projection with one maintainer.                         *)

(* A claim whose events are all marked processed has the row it should     *)
(* have, once the identity events are processed too. In particular, when   *)
(* status() finds nothing pending, every row is right: each await of sync  *)
(* and rebuild may let writers in, but what they change stays pending.     *)
CaughtUpRowsAreRight ==
  IdentityCaughtUp => \A c \in Claims : ClaimCaughtUp(c) => rows[c] = RowOf(c)

(* A retracted claim whose retraction is marked processed has no row, even *)
(* while identity events are pending: no later commit of sync or rebuild   *)
(* brings back what an earlier one removed.                                *)
NoResurrection ==
  \A c \in Claims : status[c] = "retracted" /\ ClaimCaughtUp(c) => rows[c] = None

(* No mark is made behind a maintainer's back: whatever is marked while it *)
(* works, it has in its view. With a second maintainer this fails, and the *)
(* properties above with it.                                               *)
NoMarksBehindTheView ==
  \A m \in Maintainers : pc[m] # "idle" => processed \subseteq relevantEvents(view[m])

(* An event once marked processed is pending again only if the whole       *)
(* projection is lost: a rebuild, which deletes every mark first, marks    *)
(* again at least what it deleted.                                         *)
MarksAreKept ==
  [][processed \subseteq processed' \/ (\A c \in Claims : rows'[c] = None)]_processed

(* The projection is an eventually consistent index of the canonical       *)
(* claims: ConsistentIndex says what such an index promises.               *)
DirtyClaims ==
  IF IdentityCaughtUp THEN {c \in Claims : ~ClaimCaughtUp(c)} ELSE Claims

Index == INSTANCE ConsistentIndex
           WITH Keys <- Claims, Values <- Entities \cup {None}, Absent <- None,
                truth <- [c \in Claims |-> RowOf(c)], dirty <- DirtyClaims, index <- rows

(* Every step of writers and of the maintainer is a step of that index, or *)
(* changes nothing it shows, and under the worker's loop every change is   *)
(* shown in the end.                                                       *)
ImplementsConsistentIndex == Index!FairSpec

(* Properties of a projection with any number of maintainers.              *)

(* Only committed claim and identity events are marked, and only a claim   *)
(* with an event in the log has a row.                                     *)
MarksAndRowsHaveSources ==
  /\ processed \subseteq relevantEvents(events)
  /\ \A c \in Claims : rows[c] # None => EventsOf(c) # {}

(* What a maintainer knows in the middle of an operation: the log has only *)
(* grown since it was read, and if a claim it has read has no event        *)
(* outside the view, the status it read is still the status.               *)
ViewIsPrefix(m) == \A i \in EventIds : view[m][i] # None => events[i] = view[m][i]

PlanFollowsView(m) ==
  /\ pend[m] \subseteq relevantEvents(view[m])
  /\ pc[m] \in {"idle", "viewed", "rebuild"} => pend[m] = {}
  /\ pc[m] = "syncClaims" => pend[m] \cap IdentityIds(view[m]) = {}
  /\ pc[m] = "rebuildClaims" => pend[m] = relevantEvents(view[m])
  /\ toRead[m] \cup live[m] \subseteq ClaimsOf(view[m], pend[m])
  /\ toRead[m] \cap live[m] = {}

ReadsStillHold(m) ==
  \A c \in ClaimsOf(view[m], pend[m]) \ toRead[m] :
    EventsOf(c) \subseteq Committed(view[m]) => (c \in live[m] <=> status[c] = "live")

MaintainerKnows ==
  /\ \A c \in Claims : status[c] # "absent" => EventsOf(c) # {}
  /\ \A m \in Maintainers : ViewIsPrefix(m) /\ PlanFollowsView(m) /\ ReadsStillHold(m)

(* With any number of maintainers the loops do not livelock: in the end    *)
(* nothing is pending.                                                     *)
EventuallyNothingPending == <>[]NothingPending
=============================================================================
