--------------------- MODULE RetrievalProjection_proofs ---------------------
(***************************************************************************)
(* Proofs about the retrieval projection: type correctness for any number  *)
(* of maintainers, and for a single maintainer that caught-up rows are     *)
(* right, that retracted claims do not come back, that marks are kept, and *)
(* that the projection implements an eventually consistent index.          *)
(***************************************************************************)
EXTENDS RetrievalProjection, TLAPS

(* What an event of a log is, by its kind.                                 *)
LEMMA ClaimEventType ==
  ASSUME NEW log \in Log, NEW i \in ClaimIds(log)
  PROVE  i \in EventIds /\ log[i] \in ClaimEvent /\ log[i].claim \in Claims
BY ConstantsAssumption
   DEF Log, ClaimIds, Committed, ClaimKinds, Event, ClaimEvent, MergeEvent, RevertEvent, OtherEvent

LEMMA IdentityEventType ==
  ASSUME NEW log \in Log, NEW i \in IdentityIds(log)
  PROVE  i \in EventIds /\ log[i] \in MergeEvent \cup RevertEvent
BY ConstantsAssumption
   DEF Log, IdentityIds, Committed, IdentityKinds, Event, ClaimEvent, MergeEvent, RevertEvent, OtherEvent

(* relevantEvents keeps ids of the log, and they name claims of the model. *)
LEMMA RelevantType ==
  ASSUME NEW log \in Log, NEW ids
  PROVE  relevantEvents(log) \subseteq Committed(log)
         /\ Committed(log) \subseteq EventIds
         /\ ClaimsOf(log, ids) \subseteq Claims
BY ClaimEventType DEF relevantEvents, IdentityIds, ClaimIds, Committed, ClaimsOf

(* resolveEntity returns an entity.                                        *)
LEMMA ResolveType ==
  ASSUME NEW log \in Log, NEW x \in Entities
  PROVE  resolveEntity(log, x) \in Entities
<1> DEFINE ilog == [i \in EventIds |-> IF i \in IdentityIds(log) THEN log[i] ELSE None]
<1>1. ilog \in IdentityLog
  BY IdentityEventType DEF IdentityLog
<1> QED BY <1>1, ResolverAssumption DEF resolveEntity

(* The log that no event was appended to is a log.                         *)
LEMMA EmptyLog == [i \in EventIds |-> None] \in Log
BY DEF Log

(* The empty log has no ids.                                               *)
LEMMA EmptyIds ==
  ASSUME NEW log, log = [i \in EventIds |-> None]
  PROVE  /\ Committed(log) = {}
         /\ IdentityIds(log) = {}
         /\ ClaimIds(log) = {}
         /\ relevantEvents(log) = {}
         /\ \A ids : ClaimsOf(log, ids) = {}
BY DEF Committed, IdentityIds, ClaimIds, relevantEvents, ClaimsOf

(* An operation that ends leaves its maintainer's locals well typed.       *)
LEMMA ReturnType ==
  ASSUME TypeOK, NEW m \in Maintainers, Return(m)
  PROVE  /\ pc' \in [Maintainers -> MaintainerPc]
         /\ view' \in [Maintainers -> Log]
         /\ pend' \in [Maintainers -> SUBSET EventIds]
         /\ toRead' \in [Maintainers -> SUBSET Claims]
         /\ live' \in [Maintainers -> SUBSET Claims]
BY EmptyLog DEF TypeOK, Return, MaintainerPc

(* A row computed from what a maintainer read is a row.                    *)
LEMMA RowFromType ==
  ASSUME TypeOK, NEW m \in Maintainers, NEW c \in Claims
  PROVE  RowFrom(m, c) \in Entities \cup {None}
<1>1. view[m] \in Log /\ Subject[c] \in Entities
  BY ConstantsAssumption DEF TypeOK
<1> QED BY <1>1, ResolveType DEF RowFrom

(* Appending an event of the model to the log gives a log.                 *)
LEMMA AppendType ==
  ASSUME events \in Log, NEW i \in EventIds, NEW event \in Event, appendEvent(i, event)
  PROVE  events' \in Log
BY DEF Log, appendEvent

-----------------------------------------------------------------------------
(* One writer step preserves types.                                        *)
LEMMA WriteType == TypeOK /\ Write => TypeOK'
<1> SUFFICES ASSUME TypeOK, Write PROVE TypeOK'
  OBVIOUS
<1> PICK i \in EventIds :
       \/ \E c \in Claims : AssertClaim(c, i) \/ RetractClaim(c, i)
       \/ \E a, s \in Entities : MergeEntities(a, s, i)
       \/ \E merge \in EventIds : RevertMerge(merge, i)
       \/ RecordOther(i)
  BY DEF Write
<1> USE DEF TypeOK
<1>0. events \in Log
  OBVIOUS
<1>1. ASSUME NEW c \in Claims, AssertClaim(c, i) PROVE TypeOK'
  <2>1. [kind |-> "claim.asserted", claim |-> c] \in Event
    BY DEF Event, ClaimEvent
  <2>2. events' \in Log
    BY <1>0, <1>1, <2>1, AppendType DEF AssertClaim
  <2> QED BY <1>1, <2>2 DEF AssertClaim, projection, locals
<1>2. ASSUME NEW c \in Claims, RetractClaim(c, i) PROVE TypeOK'
  <2>1. [kind |-> "claim.retracted", claim |-> c] \in Event
    BY DEF Event, ClaimEvent
  <2>2. events' \in Log
    BY <1>0, <1>2, <2>1, AppendType DEF RetractClaim
  <2> QED BY <1>2, <2>2 DEF RetractClaim, projection, locals
<1>3. ASSUME NEW a \in Entities, NEW s \in Entities, MergeEntities(a, s, i) PROVE TypeOK'
  <2>1. [kind |-> "entity.merged", absorbed |-> a, surviving |-> s] \in Event
    BY DEF Event, MergeEvent
  <2>2. events' \in Log
    BY <1>0, <1>3, <2>1, AppendType DEF MergeEntities
  <2> QED BY <1>3, <2>2 DEF MergeEntities, projection, locals
<1>4. ASSUME NEW merge \in EventIds, RevertMerge(merge, i) PROVE TypeOK'
  <2>1. [kind |-> "entity.merge_reverted", merge |-> merge] \in Event
    BY DEF Event, RevertEvent
  <2>2. events' \in Log
    BY <1>0, <1>4, <2>1, AppendType DEF RevertMerge
  <2> QED BY <1>4, <2>2 DEF RevertMerge, projection, locals
<1>5. CASE RecordOther(i)
  <2>1. [kind |-> "other"] \in Event
    BY DEF Event, OtherEvent
  <2>2. events' \in Log
    BY <1>0, <1>5, <2>1, AppendType DEF RecordOther
  <2> QED BY <1>5, <2>2 DEF RecordOther, projection, locals
<1> QED BY <1>1, <1>2, <1>3, <1>4, <1>5

(* One step of a maintainer, or the loss of the tables, preserves types.   *)
LEMMA MaintainerType ==
  ASSUME TypeOK, NEW m \in Maintainers, SyncStep(m) \/ OperatorRebuild(m) \/ Fail(m)
  PROVE  TypeOK'
<1> USE DEF TypeOK, canonical, projection, MaintainerPc
<1>0. /\ events \in Log
      /\ view[m] \in Log
      /\ view[m] \in [EventIds -> Event \cup {None}]
  BY DEF Log
<1>1. CASE SyncReadEvents(m)
  BY <1>1 DEF SyncReadEvents
<1>2. CASE SyncNothingPending(m)
  BY <1>2, ReturnType DEF SyncNothingPending
<1>3. CASE SyncNeedsRebuild(m)
  BY <1>3 DEF SyncNeedsRebuild
<1>4. CASE SyncIncrement(m)
  <2>1. Pending(m) \subseteq EventIds /\ ClaimsOf(view[m], Pending(m)) \subseteq Claims
    BY <1>0, RelevantType DEF Pending
  <2> QED BY <1>4, <2>1 DEF SyncIncrement
<1>5. CASE RebuildReadEvents(m)
  <2>1. relevantEvents(events) \subseteq EventIds
        /\ ClaimsOf(events, relevantEvents(events)) \subseteq Claims
    BY <1>0, RelevantType
  <2> QED BY <1>5, <2>1 DEF RebuildReadEvents
<1>6. ASSUME NEW c \in Claims, ReadClaim(m, c) PROVE TypeOK'
  BY <1>6 DEF ReadClaim
<1>7. CASE CommitSync(m)
  <2>1. rows' \in [Claims -> Entities \cup {None}]
    BY <1>7, RowFromType DEF CommitSync
  <2> QED BY <1>7, <2>1, ReturnType DEF CommitSync
<1>8. CASE CommitRebuild(m)
  <2>1. rows' \in [Claims -> Entities \cup {None}]
    BY <1>8, RowFromType DEF CommitRebuild
  <2> QED BY <1>8, <2>1, ReturnType DEF CommitRebuild
<1>9. CASE Fail(m)
  <2>1. faults' \in 0..MaxFaults
    BY <1>9, ConstantsAssumption DEF Fail
  <2> QED BY <1>9, <2>1, ReturnType DEF Fail
<1> QED
  BY <1>1, <1>2, <1>3, <1>4, <1>5, <1>6, <1>7, <1>8, <1>9
     DEF SyncStep, SyncRebuild, OperatorRebuild

LEMMA LossType == TypeOK /\ LoseProjection => TypeOK'
BY ConstantsAssumption DEF TypeOK, LoseProjection, canonical, locals

(* Every variable of the projection, of the log and of the maintainers     *)
(* keeps its type, however many maintainers there are.                     *)
THEOREM TypeCorrect == Spec => []TypeOK
<1>1. Init => TypeOK
  <2> SUFFICES ASSUME Init PROVE TypeOK
    OBVIOUS
  <2>1. events \in Log /\ view \in [Maintainers -> Log]
    BY EmptyLog DEF Init
  <2>2. faults \in 0..MaxFaults
    BY ConstantsAssumption DEF Init
  <2> QED BY <2>1, <2>2 DEF Init, TypeOK, MaintainerPc
<1>2. TypeOK /\ [Next]_vars => TypeOK'
  <2>1. TypeOK /\ Next => TypeOK'
    BY WriteType, MaintainerType, LossType DEF Next
  <2>2. TypeOK /\ UNCHANGED vars => TypeOK'
    BY DEF TypeOK, vars
  <2> QED BY <2>1, <2>2
<1> QED BY <1>1, <1>2, PTL DEF Spec

-----------------------------------------------------------------------------
(* What a canonical write does to the log and to the claims: one event is  *)
(* appended, and a claim changes only if the event is about it.            *)
Appended(i, event) ==
  /\ event \in Event
  /\ events[i] = None
  /\ events' = [events EXCEPT ![i] = event]
  /\ \A c \in Claims :
       status'[c] = status[c] \/ (event.kind \in ClaimKinds /\ event.claim = c)
  /\ UNCHANGED <<projection, locals>>

LEMMA WriteAppends ==
  ASSUME TypeOK, Write
  PROVE  \E i \in EventIds, event \in Event : Appended(i, event)
<1> PICK i \in EventIds :
       \/ \E c \in Claims : AssertClaim(c, i) \/ RetractClaim(c, i)
       \/ \E a, s \in Entities : MergeEntities(a, s, i)
       \/ \E merge \in EventIds : RevertMerge(merge, i)
       \/ RecordOther(i)
  BY DEF Write
<1> USE DEF Appended, appendEvent, projection, locals
<1>1. ASSUME NEW c \in Claims, AssertClaim(c, i)
      PROVE  Appended(i, [kind |-> "claim.asserted", claim |-> c])
             /\ [kind |-> "claim.asserted", claim |-> c] \in Event
  BY <1>1 DEF AssertClaim, Event, ClaimEvent, ClaimKinds, TypeOK
<1>2. ASSUME NEW c \in Claims, RetractClaim(c, i)
      PROVE  Appended(i, [kind |-> "claim.retracted", claim |-> c])
             /\ [kind |-> "claim.retracted", claim |-> c] \in Event
  BY <1>2 DEF RetractClaim, Event, ClaimEvent, ClaimKinds, TypeOK
<1>3. ASSUME NEW a \in Entities, NEW s \in Entities, MergeEntities(a, s, i)
      PROVE  Appended(i, [kind |-> "entity.merged", absorbed |-> a, surviving |-> s])
             /\ [kind |-> "entity.merged", absorbed |-> a, surviving |-> s] \in Event
  BY <1>3 DEF MergeEntities, Event, MergeEvent
<1>4. ASSUME NEW merge \in EventIds, RevertMerge(merge, i)
      PROVE  Appended(i, [kind |-> "entity.merge_reverted", merge |-> merge])
             /\ [kind |-> "entity.merge_reverted", merge |-> merge] \in Event
  BY <1>4 DEF RevertMerge, Event, RevertEvent
<1>5. ASSUME RecordOther(i)
      PROVE  Appended(i, [kind |-> "other"]) /\ [kind |-> "other"] \in Event
  BY <1>5 DEF RecordOther, Event, OtherEvent
<1> HIDE DEF Appended
<1> QED BY <1>1, <1>2, <1>3, <1>4, <1>5

(* Appending keeps what the log already says, and says no more about a     *)
(* claim that the event is not about.                                      *)
LEMMA AppendedLog ==
  ASSUME TypeOK, NEW i \in EventIds, NEW event \in Event, Appended(i, event)
  PROVE  /\ i \notin Committed(events)
         /\ \A j \in EventIds : j # i => events'[j] = events[j]
         /\ Committed(events) \subseteq Committed(events')
         /\ IdentityIds(events) \subseteq IdentityIds(events')
         /\ IdentityIds(events') \subseteq IdentityIds(events) \cup {i}
         /\ relevantEvents(events) \subseteq relevantEvents(events')
         /\ \A c \in Claims : EventsOf(c) \subseteq EventsOf(c)'
         /\ \A c \in Claims : status'[c] # status[c] => i \in EventsOf(c)'
<1>1. events \in [EventIds -> Event \cup {None}] /\ event # None
  BY ConstantsAssumption DEF TypeOK, Log
<1>2. /\ events[i] = None
      /\ events'[i] = event
      /\ \A j \in EventIds : j # i => events'[j] = events[j]
  BY <1>1 DEF Appended
<1>3. /\ i \notin Committed(events)
      /\ Committed(events') = Committed(events) \cup {i}
      /\ Committed(events) \subseteq EventIds
  BY <1>1, <1>2 DEF Committed
<1>4. ASSUME NEW c \in Claims, status'[c] # status[c]
      PROVE  event.kind \in ClaimKinds /\ event.claim = c
  BY <1>4 DEF Appended
<1>5. /\ IdentityIds(events) \subseteq IdentityIds(events')
      /\ IdentityIds(events') \subseteq IdentityIds(events) \cup {i}
      /\ ClaimIds(events) \subseteq ClaimIds(events')
      /\ event.kind \in ClaimKinds => i \in ClaimIds(events')
  BY <1>2, <1>3 DEF IdentityIds, ClaimIds
<1>6. ASSUME NEW c \in Claims PROVE EventsOf(c) \subseteq EventsOf(c)'
  BY <1>2, <1>3, <1>5 DEF EventsOf, ClaimIds
<1>7. ASSUME NEW c \in Claims, status'[c] # status[c] PROVE i \in EventsOf(c)'
  BY <1>2, <1>4, <1>5, <1>7 DEF EventsOf
<1>8. relevantEvents(events) \subseteq relevantEvents(events')
  BY <1>5 DEF relevantEvents
<1> QED BY <1>2, <1>3, <1>5, <1>6, <1>7, <1>8

(* A write disturbs no maintainer's knowledge.                             *)
LEMMA WriteKnows ==
  ASSUME TypeOK, MaintainerKnows, Write
  PROVE  MaintainerKnows'
<1> PICK i \in EventIds, event \in Event : Appended(i, event)
  BY WriteAppends
<1>0. UNCHANGED locals /\ UNCHANGED <<view, pend, toRead, live, pc>>
  BY DEF Appended, locals
<1>1. ASSUME NEW c \in Claims, status'[c] # "absent" PROVE EventsOf(c)' # {}
  BY <1>1, AppendedLog DEF MaintainerKnows
<1> SUFFICES ASSUME NEW m \in Maintainers
             PROVE  (ViewIsPrefix(m) /\ PlanFollowsView(m) /\ ReadsStillHold(m))'
  BY <1>1 DEF MaintainerKnows
<1>2. ViewIsPrefix(m) /\ PlanFollowsView(m) /\ ReadsStillHold(m)
  BY DEF MaintainerKnows
<1>3. i \notin Committed(view[m])
  BY <1>2, AppendedLog DEF ViewIsPrefix, Committed
<1>4. ViewIsPrefix(m)'
  BY <1>0, <1>2, AppendedLog DEF ViewIsPrefix, Committed
<1>5. PlanFollowsView(m)'
  BY <1>0, <1>2 DEF PlanFollowsView
<1>6. ReadsStillHold(m)'
  <2> SUFFICES ASSUME NEW c \in ClaimsOf(view[m], pend[m]) \ toRead[m],
                      EventsOf(c)' \subseteq Committed(view[m])
               PROVE  c \in live[m] <=> status'[c] = "live"
    BY <1>0 DEF ReadsStillHold
  <2>1. c \in Claims
    BY RelevantType DEF TypeOK
  <2>2. status'[c] = status[c] /\ EventsOf(c) \subseteq EventsOf(c)'
    BY <1>3, <2>1, AppendedLog
  <2> QED BY <1>2, <2>2 DEF ReadsStillHold
<1> QED BY <1>4, <1>5, <1>6

(* What a maintainer knows, in one formula.                                *)
Knows(m) == ViewIsPrefix(m) /\ PlanFollowsView(m) /\ ReadsStillHold(m)

(* An idle maintainer has nothing to be wrong about.                       *)
LEMMA ReturnKnows ==
  ASSUME TypeOK, NEW m \in Maintainers, Return(m), UNCHANGED canonical
  PROVE  Knows(m)'
<1>1. /\ view'[m] = [i \in EventIds |-> None]
      /\ pend'[m] = {}
      /\ toRead'[m] = {}
      /\ live'[m] = {}
      /\ pc'[m] = "idle"
  BY DEF Return, TypeOK
<1>2. /\ \A i \in EventIds : view'[m][i] = None
      /\ ClaimsOf(view'[m], pend'[m]) = {}
  BY <1>1 DEF ClaimsOf
<1> QED BY <1>1, <1>2 DEF Knows, ViewIsPrefix, PlanFollowsView, ReadsStillHold

(* A step of one maintainer leaves the locals of the others alone.         *)
LEMMA OthersUntouched ==
  ASSUME TypeOK, NEW m \in Maintainers, SyncStep(m) \/ OperatorRebuild(m) \/ Fail(m),
         NEW n \in Maintainers, n # m
  PROVE  /\ UNCHANGED canonical
         /\ pc'[n] = pc[n]
         /\ view'[n] = view[n]
         /\ pend'[n] = pend[n]
         /\ toRead'[n] = toRead[n]
         /\ live'[n] = live[n]
BY DEF TypeOK, SyncStep, SyncReadEvents, SyncNothingPending, SyncNeedsRebuild, SyncIncrement,
       SyncRebuild, OperatorRebuild, RebuildReadEvents, ReadClaim, CommitSync, CommitRebuild,
       Fail, Return, canonical

(* A maintainer's own step keeps what it knows.                            *)
LEMMA OwnStepKnows ==
  ASSUME TypeOK, NEW m \in Maintainers, Knows(m), SyncStep(m) \/ OperatorRebuild(m) \/ Fail(m)
  PROVE  Knows(m)' /\ UNCHANGED canonical
<1> USE DEF canonical
<1> USE DEF Knows
<1>0. /\ events \in Log /\ view[m] \in Log
      /\ ClaimsOf(view[m], {}) = {} /\ ClaimsOf(events, {}) = {}
  BY DEF TypeOK, ClaimsOf
<1>1. CASE SyncReadEvents(m)
  <2>1. /\ pc[m] = "idle" /\ pc'[m] = "viewed"
        /\ view'[m] = events
        /\ UNCHANGED <<status, events, pend, toRead, live>>
    BY <1>1 DEF SyncReadEvents, TypeOK
  <2>2. pend[m] = {} /\ toRead[m] = {} /\ live[m] = {}
    BY <1>0, <2>1 DEF PlanFollowsView
  <2>3. ClaimsOf(view'[m], pend'[m]) = {}
    BY <1>0, <2>1, <2>2
  <2> QED BY <2>1, <2>2, <2>3 DEF ViewIsPrefix, PlanFollowsView, ReadsStillHold
<1>2. CASE SyncNothingPending(m) \/ CommitSync(m) \/ CommitRebuild(m) \/ Fail(m)
  BY <1>2, ReturnKnows DEF SyncNothingPending, CommitSync, CommitRebuild, Fail
<1>3. CASE SyncNeedsRebuild(m)
  <2>1. /\ pc[m] = "viewed" /\ pc'[m] = "rebuild"
        /\ UNCHANGED <<status, events, view, pend, toRead, live>>
    BY <1>3 DEF SyncNeedsRebuild, TypeOK
  <2> QED BY <2>1 DEF ViewIsPrefix, PlanFollowsView, ReadsStillHold, EventsOf
<1>4. CASE SyncIncrement(m)
  <2>1. /\ pc[m] = "viewed" /\ pc'[m] = "syncClaims"
        /\ pend'[m] = Pending(m) /\ Pending(m) \cap IdentityIds(view[m]) = {}
        /\ toRead'[m] = ClaimsOf(view[m], Pending(m))
        /\ UNCHANGED <<status, events, view, live>>
    BY <1>4 DEF SyncIncrement, TypeOK
  <2>2. live[m] = {}
    BY <1>0, <2>1 DEF PlanFollowsView
  <2> QED BY <2>1, <2>2 DEF ViewIsPrefix, PlanFollowsView, ReadsStillHold, Pending
<1>5. CASE SyncRebuild(m) \/ OperatorRebuild(m)
  <2>1. /\ pc[m] \in {"idle", "rebuild"} /\ pc'[m] = "rebuildClaims"
        /\ view'[m] = events /\ pend'[m] = relevantEvents(events)
        /\ toRead'[m] = ClaimsOf(events, relevantEvents(events))
        /\ UNCHANGED <<status, events, live>>
    BY <1>5 DEF SyncRebuild, OperatorRebuild, RebuildReadEvents, TypeOK
  <2>2. live[m] = {}
    BY <1>0, <2>1 DEF PlanFollowsView
  <2> QED BY <2>1, <2>2 DEF ViewIsPrefix, PlanFollowsView, ReadsStillHold
<1>6. ASSUME NEW c \in Claims, ReadClaim(m, c) PROVE Knows(m)' /\ UNCHANGED canonical
  <2>1. /\ c \in toRead[m]
        /\ toRead'[m] = toRead[m] \ {c}
        /\ live'[m] = IF status[c] = "live" THEN live[m] \cup {c} ELSE live[m]
        /\ UNCHANGED <<status, events, view, pend, pc>>
    BY <1>6 DEF ReadClaim, TypeOK
  <2>2. ViewIsPrefix(m)' /\ PlanFollowsView(m)'
    BY <2>1 DEF ViewIsPrefix, PlanFollowsView
  <2>3. c \notin live[m]
    BY <2>1 DEF PlanFollowsView
  <2>4. ReadsStillHold(m)'
    <3> SUFFICES ASSUME NEW d \in ClaimsOf(view[m], pend[m]) \ toRead'[m],
                        EventsOf(d) \subseteq Committed(view[m])
                 PROVE  d \in live'[m] <=> status[d] = "live"
      BY <2>1 DEF ReadsStillHold, EventsOf
    <3> QED BY <2>1, <2>3 DEF ReadsStillHold
  <2> QED BY <2>1, <2>2, <2>4
<1> QED BY <1>1, <1>2, <1>3, <1>4, <1>5, <1>6 DEF SyncStep

(* Whatever the writers and the other maintainers do, a maintainer in the  *)
(* middle of an operation is right about what it read: its view is a part  *)
(* of the log, and a claim it read without having missed an event of it    *)
(* still has the status it read.                                           *)
THEOREM ReadsStayValid == Spec => []MaintainerKnows
<1>1. Init => MaintainerKnows
  <2> SUFFICES ASSUME Init PROVE MaintainerKnows
    OBVIOUS
  <2>1. \A m \in Maintainers : \A i \in EventIds : view[m][i] = None
    BY DEF Init
  <2>2. ASSUME NEW m \in Maintainers PROVE ClaimsOf(view[m], pend[m]) = {}
    BY DEF Init, ClaimsOf
  <2> QED BY <2>1, <2>2
        DEF Init, MaintainerKnows, ViewIsPrefix, PlanFollowsView, ReadsStillHold
<1>2. TypeOK /\ MaintainerKnows /\ [Next]_vars => MaintainerKnows'
  <2> SUFFICES ASSUME TypeOK, MaintainerKnows, [Next]_vars PROVE MaintainerKnows'
    OBVIOUS
  <2>1. CASE Write
    BY <2>1, WriteKnows
  <2>2. ASSUME NEW m \in Maintainers, SyncStep(m) \/ OperatorRebuild(m) \/ Fail(m)
        PROVE  MaintainerKnows'
    <3>1. Knows(m)' /\ UNCHANGED canonical
      BY <2>2, OwnStepKnows DEF MaintainerKnows, Knows
    <3>2. ASSUME NEW n \in Maintainers, n # m PROVE Knows(n)'
      <4>1. /\ pc'[n] = pc[n] /\ view'[n] = view[n] /\ pend'[n] = pend[n]
            /\ toRead'[n] = toRead[n] /\ live'[n] = live[n]
        BY <2>2, <3>2, OthersUntouched
      <4>2. Knows(n) /\ UNCHANGED <<status, events>>
        BY <3>1 DEF MaintainerKnows, Knows, canonical
      <4> QED BY <4>1, <4>2 DEF Knows, ViewIsPrefix, PlanFollowsView, ReadsStillHold, EventsOf
    <3>3. \A n \in Maintainers : Knows(n)'
      BY <3>1, <3>2
    <3> QED BY <3>1, <3>3 DEF MaintainerKnows, Knows, canonical, EventsOf
  <2>3. CASE LoseProjection \/ UNCHANGED vars
    <3>1. UNCHANGED <<status, events, pc, view, pend, toRead, live>>
      BY <2>3 DEF LoseProjection, canonical, locals, vars
    <3> QED BY <3>1 DEF MaintainerKnows, ViewIsPrefix, PlanFollowsView, ReadsStillHold, EventsOf
  <2> QED BY <2>1, <2>2, <2>3 DEF Next
<1> QED BY <1>1, <1>2, TypeCorrect, PTL DEF Spec

-----------------------------------------------------------------------------
(* What the plan of a maintainer takes from its view is in the log.        *)
LEMMA PlanIsInLog ==
  ASSUME TypeOK, NEW m \in Maintainers, ViewIsPrefix(m), PlanFollowsView(m)
  PROVE  /\ relevantEvents(view[m]) \subseteq relevantEvents(events)
         /\ pend[m] \subseteq relevantEvents(events)
         /\ \A c \in ClaimsOf(view[m], pend[m]) : EventsOf(c) # {}
<1>1. /\ IdentityIds(view[m]) \subseteq IdentityIds(events)
      /\ ClaimIds(view[m]) \subseteq ClaimIds(events)
      /\ \A i \in ClaimIds(view[m]) : events[i] = view[m][i]
  BY DEF ViewIsPrefix, IdentityIds, ClaimIds, Committed
<1>2. \A c \in ClaimsOf(view[m], pend[m]) : EventsOf(c) # {}
  BY <1>1 DEF ClaimsOf, EventsOf
<1> QED BY <1>1, <1>2 DEF relevantEvents, PlanFollowsView

(* Marks are only made for committed claim and identity events, and rows   *)
(* only for claims that have events, however many maintainers there are.   *)
THEOREM SourcesOfMarksAndRows == Spec => []MarksAndRowsHaveSources
<1>1. Init => MarksAndRowsHaveSources
  BY DEF Init, MarksAndRowsHaveSources
<1>2. TypeOK /\ MaintainerKnows /\ MarksAndRowsHaveSources /\ [Next]_vars
        => MarksAndRowsHaveSources'
  <2> SUFFICES ASSUME TypeOK, MaintainerKnows, MarksAndRowsHaveSources, [Next]_vars
               PROVE  MarksAndRowsHaveSources'
    OBVIOUS
  <2> USE DEF MarksAndRowsHaveSources
  <2>1. CASE Write
    <3> PICK i \in EventIds, event \in Event : Appended(i, event)
      BY <2>1, WriteAppends
    <3>1. UNCHANGED <<rows, processed>>
      BY DEF Appended, projection
    <3>2. /\ relevantEvents(events) \subseteq relevantEvents(events')
          /\ \A c \in Claims : EventsOf(c) \subseteq EventsOf(c)'
      BY AppendedLog
    <3> QED BY <3>1, <3>2
  <2>2. ASSUME NEW m \in Maintainers, SyncStep(m) \/ OperatorRebuild(m) \/ Fail(m)
        PROVE  MarksAndRowsHaveSources'
    <3>1. /\ pend[m] \subseteq relevantEvents(events)
          /\ \A c \in ClaimsOf(view[m], pend[m]) : EventsOf(c) # {}
          /\ live[m] \subseteq ClaimsOf(view[m], pend[m])
      BY PlanIsInLog DEF MaintainerKnows, PlanFollowsView
    <3>2. UNCHANGED <<status, events>>
      BY <2>2, OwnStepKnows DEF MaintainerKnows, Knows, canonical
    <3>3. \A c \in Claims : RowFrom(m, c) # None => EventsOf(c) # {}
      BY <3>1 DEF RowFrom
    <3>4. \/ UNCHANGED <<rows, processed>>
          \/ CommitSync(m)
          \/ CommitRebuild(m)
      BY <2>2 DEF SyncStep, SyncReadEvents, SyncNothingPending, SyncNeedsRebuild, SyncIncrement,
                  SyncRebuild, OperatorRebuild, RebuildReadEvents, ReadClaim, Fail, projection
    <3>5. CASE UNCHANGED <<rows, processed>>
      BY <3>2, <3>5 DEF EventsOf
    <3>6. CASE CommitSync(m)
      BY <3>1, <3>2, <3>3, <3>6 DEF CommitSync, EventsOf
    <3>7. CASE CommitRebuild(m)
      BY <3>1, <3>2, <3>3, <3>7 DEF CommitRebuild, EventsOf
    <3> QED BY <3>4, <3>5, <3>6, <3>7
  <2>3. CASE LoseProjection
    BY <2>3 DEF LoseProjection, canonical, EventsOf
  <2>4. CASE UNCHANGED vars
    BY <2>4 DEF vars, EventsOf
  <2> QED BY <2>1, <2>2, <2>3, <2>4 DEF Next
<1> QED BY <1>1, <1>2, TypeCorrect, ReadsStayValid, PTL DEF Spec

-----------------------------------------------------------------------------
(* A maintainer that has every identity event in its view resolves as the  *)
(* log does.                                                               *)
LEMMA SameResolution ==
  ASSUME TypeOK, NEW m \in Maintainers, ViewIsPrefix(m),
         IdentityIds(events) \subseteq Committed(view[m]), NEW x
  PROVE  resolveEntity(view[m], x) = resolveEntity(events, x)
<1>1. \A i \in EventIds :
        /\ i \in IdentityIds(view[m]) <=> i \in IdentityIds(events)
        /\ i \in IdentityIds(events) => view[m][i] = events[i]
  BY DEF ViewIsPrefix, IdentityIds, Committed
<1>2. [i \in EventIds |-> IF i \in IdentityIds(view[m]) THEN view[m][i] ELSE None]
        = [i \in EventIds |-> IF i \in IdentityIds(events) THEN events[i] ELSE None]
  BY <1>1
<1> QED BY <1>2 DEF resolveEntity

(* The row a maintainer computes for a claim it read is the right row, if  *)
(* its view misses no event of the claim and no identity event.            *)
LEMMA RowFromIsRight ==
  ASSUME TypeOK, MaintainerKnows, NEW m \in Maintainers, toRead[m] = {},
         NEW c \in ClaimsOf(view[m], pend[m]), EventsOf(c) \subseteq Committed(view[m])
  PROVE  /\ status[c] # "live" => RowFrom(m, c) = None
         /\ IdentityIds(events) \subseteq Committed(view[m]) => RowFrom(m, c) = RowOf(c)
<1>1. ViewIsPrefix(m) /\ (c \in live[m] <=> status[c] = "live")
  BY DEF MaintainerKnows, ReadsStillHold
<1> QED BY <1>1, SameResolution DEF RowFrom, RowOf

(* The invariant of a projection with one maintainer.                      *)
SingleMaintainerInv ==
  /\ NoMarksBehindTheView
  /\ CaughtUpRowsAreRight
  /\ NoResurrection

(* A write leaves nothing wrong: what it changes becomes pending.          *)
LEMMA WriteKeepsSingle ==
  ASSUME TypeOK, MarksAndRowsHaveSources, SingleMaintainerInv, Write
  PROVE  SingleMaintainerInv'
<1> PICK i \in EventIds, event \in Event : Appended(i, event)
  BY WriteAppends
<1>1. UNCHANGED <<rows, processed, view, pc>>
  BY DEF Appended, projection, locals
<1>2. i \notin processed
  BY AppendedLog, RelevantType DEF MarksAndRowsHaveSources, TypeOK
<1>3. NoMarksBehindTheView'
  BY <1>1 DEF SingleMaintainerInv, NoMarksBehindTheView
<1>4. ASSUME NEW c \in Claims, ClaimCaughtUp(c)'
      PROVE  ClaimCaughtUp(c) /\ status'[c] = status[c]
  BY <1>1, <1>2, <1>4, AppendedLog DEF ClaimCaughtUp
<1>5. ASSUME IdentityCaughtUp'
      PROVE  /\ IdentityCaughtUp
             /\ \A x : resolveEntity(events, x)' = resolveEntity(events, x)
  <2>1. /\ IdentityIds(events') = IdentityIds(events)
        /\ \A j \in IdentityIds(events) : j \in EventIds /\ events'[j] = events[j]
    BY <1>1, <1>2, <1>5, AppendedLog DEF IdentityCaughtUp, IdentityIds, Committed
  <2>2. [j \in EventIds |-> IF j \in IdentityIds(events') THEN events'[j] ELSE None]
          = [j \in EventIds |-> IF j \in IdentityIds(events) THEN events[j] ELSE None]
    BY <2>1
  <2> QED BY <1>1, <1>5, <2>1, <2>2 DEF IdentityCaughtUp, resolveEntity
<1>6. CaughtUpRowsAreRight'
  BY <1>1, <1>4, <1>5 DEF SingleMaintainerInv, CaughtUpRowsAreRight, RowOf
<1>7. NoResurrection'
  BY <1>1, <1>4 DEF SingleMaintainerInv, NoResurrection
<1> QED BY <1>3, <1>6, <1>7 DEF SingleMaintainerInv

(* What a commit of a single maintainer marks as processed it has in its   *)
(* view, and a claim that is caught up afterwards was either caught up     *)
(* before or is in the plan.                                               *)
LEMMA CommitCoverage ==
  ASSUME TypeOK, MaintainerKnows, NoMarksBehindTheView, NEW m \in Maintainers, pc[m] # "idle",
         NEW c \in Claims, EventsOf(c) \subseteq processed \cup pend[m]
  PROVE  /\ EventsOf(c) \subseteq Committed(view[m])
         /\ EventsOf(c) \subseteq processed \/ c \in ClaimsOf(view[m], pend[m])
<1>1. /\ processed \cup pend[m] \subseteq relevantEvents(view[m])
      /\ relevantEvents(view[m]) \subseteq Committed(view[m])
      /\ Committed(view[m]) \subseteq EventIds
  BY RelevantType DEF NoMarksBehindTheView, MaintainerKnows, PlanFollowsView, TypeOK
<1>2. ASSUME NEW i \in EventsOf(c), i \notin processed PROVE c \in ClaimsOf(view[m], pend[m])
  <2>1. i \in pend[m] /\ i \in Committed(view[m]) /\ i \in EventIds
    BY <1>1, <1>2
  <2>2. view[m][i] = events[i]
    BY <2>1 DEF MaintainerKnows, ViewIsPrefix, Committed
  <2>3. i \in ClaimIds(view[m]) /\ view[m][i].claim = c
    BY <2>1, <2>2 DEF EventsOf, ClaimIds
  <2> QED BY <2>1, <2>3 DEF ClaimsOf
<1> QED BY <1>1, <1>2

(* The steps of the maintainer other than a commit change neither rows nor *)
(* marks nor the log.                                                      *)
LEMMA OwnStepOrCommit ==
  ASSUME TypeOK, MaintainerKnows, NEW m \in Maintainers,
         SyncStep(m) \/ OperatorRebuild(m) \/ Fail(m)
  PROVE  /\ UNCHANGED <<status, events>>
         /\ UNCHANGED <<rows, processed>> \/ CommitSync(m) \/ CommitRebuild(m)
<1>1. UNCHANGED <<status, events>>
  BY OwnStepKnows DEF MaintainerKnows, Knows, canonical
<1> QED
  BY <1>1 DEF SyncStep, SyncReadEvents, SyncNothingPending, SyncNeedsRebuild, SyncIncrement,
              SyncRebuild, OperatorRebuild, RebuildReadEvents, ReadClaim, Fail, projection

(* The maintainer's view keeps containing every mark.                      *)
LEMMA OwnStepKeepsMarksInView ==
  ASSUME TypeOK, MaintainerKnows, MarksAndRowsHaveSources, NoMarksBehindTheView,
         NEW m \in Maintainers, SyncStep(m) \/ OperatorRebuild(m) \/ Fail(m)
  PROVE  pc'[m] # "idle" => processed' \subseteq relevantEvents(view'[m])
<1>1. CASE SyncReadEvents(m) \/ RebuildReadEvents(m)
  BY <1>1 DEF SyncReadEvents, RebuildReadEvents, TypeOK, MarksAndRowsHaveSources, projection
<1>2. CASE SyncNothingPending(m) \/ CommitSync(m) \/ CommitRebuild(m) \/ Fail(m)
  BY <1>2 DEF SyncNothingPending, CommitSync, CommitRebuild, Fail, Return, TypeOK
<1>3. CASE SyncNeedsRebuild(m) \/ SyncIncrement(m) \/ \E c \in Claims : ReadClaim(m, c)
  BY <1>3 DEF SyncNeedsRebuild, SyncIncrement, ReadClaim, NoMarksBehindTheView, projection
<1> QED BY <1>1, <1>2, <1>3 DEF SyncStep, SyncRebuild, OperatorRebuild

(* A commit of a single maintainer leaves every caught-up row right.       *)
LEMMA CommitKeepsSingle ==
  ASSUME TypeOK, MaintainerKnows, SingleMaintainerInv, NEW m \in Maintainers,
         CommitSync(m) \/ CommitRebuild(m)
  PROVE  CaughtUpRowsAreRight' /\ NoResurrection'
<1> USE DEF SingleMaintainerInv
<1>0. /\ pc[m] # "idle" /\ toRead[m] = {}
      /\ UNCHANGED <<status, events>>
      /\ processed' \subseteq processed \cup pend[m]
  BY DEF CommitSync, CommitRebuild, canonical
<1>1. PlanFollowsView(m) /\ ViewIsPrefix(m)
  BY DEF MaintainerKnows
<1>2. ASSUME NEW c \in Claims, ClaimCaughtUp(c)', c \in ClaimsOf(view[m], pend[m])
      PROVE  rows'[c] = RowFrom(m, c) /\ EventsOf(c) \subseteq Committed(view[m])
  <2>1. rows'[c] = RowFrom(m, c)
    BY <1>2 DEF CommitSync, CommitRebuild
  <2>2. EventsOf(c) \subseteq processed \cup pend[m]
    BY <1>0, <1>2 DEF ClaimCaughtUp, EventsOf
  <2> QED BY <1>0, <2>1, <2>2, CommitCoverage
<1>3. ASSUME NEW c \in Claims, ClaimCaughtUp(c)', c \notin ClaimsOf(view[m], pend[m])
      PROVE  \/ CommitSync(m) /\ rows'[c] = rows[c] /\ ClaimCaughtUp(c)
             \/ rows'[c] = None /\ status[c] = "absent"
  <2>1. EventsOf(c) \subseteq processed \cup pend[m]
    BY <1>0, <1>3 DEF ClaimCaughtUp, EventsOf
  <2>2. EventsOf(c) \subseteq processed
    BY <1>0, <1>3, <2>1, CommitCoverage
  <2>3. CASE CommitSync(m)
    BY <1>3, <2>2, <2>3 DEF CommitSync, ClaimCaughtUp
  <2>4. CASE CommitRebuild(m)
    <3>1. rows'[c] = None
      BY <1>1, <1>3, <2>4 DEF CommitRebuild, RowFrom, PlanFollowsView
    <3>2. ClaimsOf(view[m], relevantEvents(view[m])) = ClaimsOf(view[m], pend[m])
      BY <1>1, <2>4 DEF PlanFollowsView, CommitRebuild
    <3>3. EventsOf(c) = {}
      <4> SUFFICES ASSUME NEW i \in EventsOf(c) PROVE FALSE
        OBVIOUS
      <4>1. i \in relevantEvents(view[m]) /\ i \in EventIds /\ view[m][i] # None
        BY <1>0, <2>2, RelevantType
           DEF NoMarksBehindTheView, TypeOK, Committed
      <4>2. view[m][i] = events[i]
        BY <1>1, <4>1 DEF ViewIsPrefix
      <4>3. i \in ClaimIds(view[m]) /\ view[m][i].claim = c
        BY <4>1, <4>2 DEF EventsOf, ClaimIds, Committed
      <4> QED BY <1>3, <3>2, <4>1, <4>3 DEF ClaimsOf
    <3> QED BY <3>1, <3>3 DEF MaintainerKnows
  <2> QED BY <2>3, <2>4
<1>4. ASSUME IdentityCaughtUp'
      PROVE  /\ IdentityIds(events) \subseteq Committed(view[m])
             /\ CommitSync(m) => IdentityCaughtUp
  <2>1. IdentityIds(events) \subseteq processed \cup pend[m]
    BY <1>0, <1>4 DEF IdentityCaughtUp
  <2>2. IdentityIds(events) \subseteq Committed(view[m])
    BY <1>0, <1>1, <2>1, RelevantType DEF NoMarksBehindTheView, PlanFollowsView, TypeOK
  <2>3. ASSUME CommitSync(m), NEW i \in IdentityIds(events) PROVE i \in processed
    <3>1. i \in IdentityIds(view[m])
      BY <1>1, <2>2 DEF ViewIsPrefix, IdentityIds, Committed
    <3> QED BY <1>1, <2>1, <2>3, <3>1 DEF PlanFollowsView, CommitSync
  <2> QED BY <2>2, <2>3 DEF IdentityCaughtUp
<1>5. CaughtUpRowsAreRight'
  <2> SUFFICES ASSUME IdentityCaughtUp', NEW c \in Claims, ClaimCaughtUp(c)'
               PROVE  rows'[c] = RowOf(c)
    BY <1>0 DEF CaughtUpRowsAreRight, RowOf, resolveEntity
  <2>1. CASE c \in ClaimsOf(view[m], pend[m])
    BY <1>0, <1>2, <1>4, <2>1, RowFromIsRight
  <2>2. CASE c \notin ClaimsOf(view[m], pend[m])
    BY <1>3, <1>4, <2>2 DEF CaughtUpRowsAreRight, RowOf
  <2> QED BY <2>1, <2>2
<1>6. NoResurrection'
  <2> SUFFICES ASSUME NEW c \in Claims, status[c] = "retracted", ClaimCaughtUp(c)'
               PROVE  rows'[c] = None
    BY <1>0 DEF NoResurrection
  <2>1. CASE c \in ClaimsOf(view[m], pend[m])
    BY <1>0, <1>2, <2>1, RowFromIsRight
  <2>2. CASE c \notin ClaimsOf(view[m], pend[m])
    BY <1>3, <2>2 DEF NoResurrection
  <2> QED BY <2>1, <2>2
<1> QED BY <1>5, <1>6

(* Every step of the system with one maintainer keeps its invariant.       *)
LEMMA SingleStep ==
  ASSUME NEW worker, Maintainers = {worker},
         TypeOK, MaintainerKnows, MarksAndRowsHaveSources, SingleMaintainerInv, [Next]_vars
  PROVE  SingleMaintainerInv'
<1> USE DEF SingleMaintainerInv
<1>1. CASE Write
  BY <1>1, WriteKeepsSingle
<1>2. ASSUME NEW m \in Maintainers, SyncStep(m) \/ OperatorRebuild(m) \/ Fail(m)
      PROVE  SingleMaintainerInv'
  <2>1. NoMarksBehindTheView'
    BY <1>2, OwnStepKeepsMarksInView DEF NoMarksBehindTheView
  <2>2. CASE UNCHANGED <<rows, processed, status, events>>
    BY <2>1, <2>2
       DEF CaughtUpRowsAreRight, NoResurrection, IdentityCaughtUp, ClaimCaughtUp, EventsOf,
           RowOf, resolveEntity
  <2>3. CASE CommitSync(m) \/ CommitRebuild(m)
    BY <2>1, <2>3, CommitKeepsSingle
  <2> QED BY <1>2, <2>2, <2>3, OwnStepOrCommit
<1>3. CASE LoseProjection
  <2>1. /\ rows' = [c \in Claims |-> None] /\ processed' = {}
        /\ UNCHANGED <<status, events, pc, view>>
    BY <1>3 DEF LoseProjection, canonical, locals
  <2>2. ASSUME NEW c \in Claims, ClaimCaughtUp(c)' PROVE rows'[c] = RowOf(c)
    BY <2>1, <2>2 DEF ClaimCaughtUp, EventsOf, RowOf, MaintainerKnows
  <2> QED BY <2>1, <2>2
          DEF CaughtUpRowsAreRight, NoResurrection, NoMarksBehindTheView, RowOf, resolveEntity
<1>4. CASE UNCHANGED vars
  BY <1>4 DEF vars, CaughtUpRowsAreRight, NoResurrection, NoMarksBehindTheView,
              IdentityCaughtUp, ClaimCaughtUp, EventsOf, RowOf, resolveEntity
<1> QED BY <1>1, <1>2, <1>3, <1>4 DEF Next

LEMMA SingleInit == Init => SingleMaintainerInv
<1> SUFFICES ASSUME Init PROVE SingleMaintainerInv
  OBVIOUS
<1> QED BY DEF Init, SingleMaintainerInv, NoMarksBehindTheView, CaughtUpRowsAreRight,
               NoResurrection, RowOf

THEOREM SingleMaintainer ==
  ASSUME NEW CONSTANT worker, Maintainers = {worker}
  PROVE  Spec => []SingleMaintainerInv
<1>1. TypeOK /\ MaintainerKnows /\ MarksAndRowsHaveSources /\ SingleMaintainerInv
        /\ [Next]_vars => SingleMaintainerInv'
  BY SingleStep
<1> QED BY <1>1, SingleInit, TypeCorrect, ReadsStayValid, SourcesOfMarksAndRows, PTL DEF Spec

(* With one maintainer, a projection that reports nothing pending shows    *)
(* exactly the live claims, each under the current canonical id of its     *)
(* entity; and claim by claim as soon as the claim and the identity events *)
(* are processed.                                                          *)
THEOREM CaughtUpIsRight ==
  ASSUME NEW CONSTANT worker, Maintainers = {worker}
  PROVE  Spec => []CaughtUpRowsAreRight
<1>1. SingleMaintainerInv => CaughtUpRowsAreRight
  BY DEF SingleMaintainerInv
<1> QED BY <1>1, SingleMaintainer, PTL

(* With one maintainer, a retraction once processed is final.              *)
THEOREM RetractedStayOut ==
  ASSUME NEW CONSTANT worker, Maintainers = {worker}
  PROVE  Spec => []NoResurrection
<1>1. SingleMaintainerInv => NoResurrection
  BY DEF SingleMaintainerInv
<1> QED BY <1>1, SingleMaintainer, PTL

(* With one maintainer, no event becomes pending again unless the tables   *)
(* are lost.                                                               *)
THEOREM MarksKept ==
  ASSUME NEW CONSTANT worker, Maintainers = {worker}
  PROVE  Spec => MarksAreKept
<1>1. TypeOK /\ MaintainerKnows /\ SingleMaintainerInv /\ [Next]_vars
        => [processed \subseteq processed' \/ (\A c \in Claims : rows'[c] = None)]_processed
  <2> SUFFICES ASSUME MaintainerKnows, SingleMaintainerInv, TypeOK, Next
               PROVE  processed \subseteq processed' \/ (\A c \in Claims : rows'[c] = None)
    BY DEF vars
  <2>1. CASE Write
    <3> PICK i \in EventIds, event \in Event : Appended(i, event)
      BY <2>1, WriteAppends
    <3> QED BY DEF Appended, projection
  <2>2. ASSUME NEW m \in Maintainers, SyncStep(m) \/ OperatorRebuild(m) \/ Fail(m)
        PROVE  processed \subseteq processed'
    <3>1. CASE CommitRebuild(m)
      BY <3>1 DEF CommitRebuild, MaintainerKnows, PlanFollowsView, SingleMaintainerInv,
                  NoMarksBehindTheView
    <3>2. CASE CommitSync(m)
      BY <3>2 DEF CommitSync
    <3> QED BY <2>2, <3>1, <3>2, OwnStepOrCommit
  <2>3. CASE LoseProjection
    BY <2>3 DEF LoseProjection
  <2> QED BY <2>1, <2>2, <2>3 DEF Next
<1> QED BY <1>1, TypeCorrect, ReadsStayValid, SingleMaintainer, PTL DEF Spec, MarksAreKept

-----------------------------------------------------------------------------
(* A step of the system with one maintainer is a step of the abstract      *)
(* index under the refinement mapping, or changes nothing of it.           *)
Truth == [c \in Claims |-> RowOf(c)]

LEMMA TruthType ==
  ASSUME TypeOK'
  PROVE  Truth' \in [Claims -> Entities \cup {None}] /\ DirtyClaims' \in SUBSET Claims
<1>1. ASSUME NEW c \in Claims PROVE RowOf(c)' \in Entities \cup {None}
  BY ResolveType, ConstantsAssumption DEF TypeOK, RowOf
<1> QED BY <1>1 DEF Truth, DirtyClaims

LEMMA WriteRefines ==
  ASSUME TypeOK, TypeOK', MarksAndRowsHaveSources, Write
  PROVE  Index!Change
<1> PICK i \in EventIds, event \in Event : Appended(i, event)
  BY WriteAppends
<1>1. UNCHANGED <<rows, processed>>
  BY DEF Appended, projection
<1>2. i \notin processed
  BY AppendedLog, RelevantType DEF MarksAndRowsHaveSources, TypeOK
<1>3. IdentityCaughtUp' => IdentityCaughtUp
  BY <1>1, AppendedLog DEF IdentityCaughtUp
<1>4. ASSUME NEW c \in Claims PROVE ClaimCaughtUp(c)' => ClaimCaughtUp(c) /\ status'[c] = status[c]
  BY <1>1, <1>2, AppendedLog DEF ClaimCaughtUp
<1>5. DirtyClaims \subseteq DirtyClaims'
  BY <1>3, <1>4 DEF DirtyClaims
<1>6. ASSUME NEW c \in Claims, c \notin DirtyClaims' PROVE RowOf(c)' = RowOf(c)
  <2>1. IdentityCaughtUp' /\ ClaimCaughtUp(c)'
    BY <1>6 DEF DirtyClaims
  <2>2. /\ IdentityIds(events') = IdentityIds(events)
        /\ \A j \in IdentityIds(events) : j \in EventIds /\ events'[j] = events[j]
    BY <1>1, <1>2, <2>1, AppendedLog DEF IdentityCaughtUp, IdentityIds, Committed
  <2>3. [j \in EventIds |-> IF j \in IdentityIds(events') THEN events'[j] ELSE None]
          = [j \in EventIds |-> IF j \in IdentityIds(events) THEN events[j] ELSE None]
    BY <2>2
  <2> QED BY <1>4, <2>1, <2>3 DEF RowOf, resolveEntity
<1>7. /\ Truth' \in [Claims -> Entities \cup {None}]
      /\ DirtyClaims' \in SUBSET Claims
      /\ \A c \in Claims : Truth'[c] # Truth[c] => c \in DirtyClaims'
  BY <1>6, TruthType DEF Truth
<1> QED BY <1>1, <1>5, <1>7 DEF Index!Change, Truth

LEMMA MaintenanceRefines ==
  ASSUME TypeOK, TypeOK', SingleMaintainerInv', UNCHANGED <<status, events>>
  PROVE  Index!Refresh
<1>1. ASSUME NEW c \in Claims \ DirtyClaims' PROVE rows'[c] = RowOf(c)'
  BY <1>1 DEF SingleMaintainerInv, CaughtUpRowsAreRight, DirtyClaims
<1>2. \A c \in Claims : RowOf(c)' = RowOf(c)
  BY DEF RowOf, resolveEntity
<1>3. rows' \in [Claims -> Entities \cup {None}] /\ DirtyClaims' \in SUBSET Claims
  BY TruthType DEF TypeOK
<1>4. \A c \in Claims \ DirtyClaims' : rows'[c] = Truth[c]
  BY <1>1, <1>2 DEF Truth
<1>5. UNCHANGED Truth
  BY <1>2 DEF Truth
<1> QED BY <1>3, <1>4, <1>5 DEF Index!Refresh, Truth

(* With one maintainer, the projection implements the safety part of an    *)
(* eventually consistent index: every write dirties what it changes, and   *)
(* after every maintenance step what is not dirty is exact.                *)
THEOREM ImplementsIndex ==
  ASSUME NEW CONSTANT worker, Maintainers = {worker}
  PROVE  Spec => Index!Spec
<1>1. Init => Index!Init
  <2> SUFFICES ASSUME Init PROVE Index!Init
    OBVIOUS
  <2>1. DirtyClaims = {}
    BY EmptyIds DEF Init, DirtyClaims, IdentityCaughtUp, ClaimCaughtUp, EventsOf
  <2>2. \A c \in Claims : RowOf(c) = None
    BY DEF Init, RowOf
  <2> QED BY <2>1, <2>2 DEF Init, Index!Init
<1>2. TypeOK /\ TypeOK' /\ MaintainerKnows /\ MarksAndRowsHaveSources
        /\ SingleMaintainerInv /\ SingleMaintainerInv' /\ [Next]_vars
        => [Index!Next]_Index!vars
  <2> SUFFICES ASSUME TypeOK, TypeOK', MaintainerKnows, MarksAndRowsHaveSources,
                      SingleMaintainerInv, SingleMaintainerInv', [Next]_vars
               PROVE  Index!Change \/ Index!Refresh
    BY DEF Index!Next
  <2>1. CASE Write
    BY <2>1, WriteRefines
  <2>2. CASE ~Write
    <3>1. UNCHANGED <<status, events>>
      BY <2>2, OwnStepOrCommit DEF Next, LoseProjection, canonical, vars
    <3> QED BY <3>1, MaintenanceRefines
  <2> QED BY <2>1, <2>2
<1> QED
  BY <1>1, <1>2, TypeCorrect, ReadsStayValid, SourcesOfMarksAndRows, SingleMaintainer, PTL
     DEF Spec, Index!Spec

=============================================================================
