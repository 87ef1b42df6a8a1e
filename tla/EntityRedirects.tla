--------------------------- MODULE EntityRedirects ---------------------------
(***************************************************************************)
(* Entity identity as the code derives it from the event log, at read      *)
(* time: an entity.merged event that no entity.merge_reverted event names  *)
(* redirects the absorbed entity to the surviving one, a later event       *)
(* overriding an earlier one, and an entity stands for the end of its      *)
(* chain of redirects.                                                     *)
(*                                                                         *)
(* A log is a function from event ids, which are in the order the code     *)
(* sorts events by, to events or to NoEvent.                               *)
(***************************************************************************)
LOCAL INSTANCE Naturals

CONSTANTS
  EntitySet,  \* entity ids
  NoEvent,    \* the content of an unused event id
  Cycle       \* stands for the error canonicalEntityIdFromEvents throws

IdsOfKind(log, kind) == {i \in DOMAIN log : log[i] # NoEvent /\ log[i].kind = kind}

activeEntityMergeEvents(log) ==
  IdsOfKind(log, "entity.merged")
    \ {log[j].merge : j \in IdsOfKind(log, "entity.merge_reverted")}

(* Later merges override earlier ones.                                     *)
redirectsOf(log, merges) ==
  [e \in {log[i].absorbed : i \in merges} |->
     LET merged == {i \in merges : log[i].absorbed = e}
     IN  log[CHOOSE i \in merged : \A j \in merged : j <= i].surviving]

redirects(log) == redirectsOf(log, activeEntityMergeEvents(log))

(* The resolver of the projection: it stops at the first entity it meets   *)
(* again.                                                                  *)
chaseUntilSeen(to) ==
  LET chase[seen \in SUBSET EntitySet] ==
        [current \in EntitySet |->
           IF current \in seen \/ current \notin DOMAIN to
           THEN current
           ELSE chase[seen \cup {current}][to[current]]]
  IN  chase

(* Mutant: reads a merge although it was reverted.                         *)
canonicalEntityResolverOfAllMerges(log, id) ==
  chaseUntilSeen(redirectsOf(log, IdsOfKind(log, "entity.merged")))[{}][id]

canonicalEntityResolver(log, id) == chaseUntilSeen(redirects(log))[{}][id]

(* The resolver of the knowledge capability: it throws instead.            *)
chaseToRoot(to) ==
  LET chase[seen \in SUBSET EntitySet] ==
        [current \in EntitySet |->
           IF current \notin DOMAIN to THEN current
           ELSE IF current \in seen THEN Cycle
           ELSE chase[seen \cup {current}][to[current]]]
  IN  chase

canonicalEntityIdFromEvents(log, id) == chaseToRoot(redirects(log))[{}][id]
=============================================================================
