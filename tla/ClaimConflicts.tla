--------------------------- MODULE ClaimConflicts ---------------------------
(***************************************************************************)
(* Conflicts between claims: detectors look for claims of one subject that *)
(* state more values at one time than a rule allows, and record each set   *)
(* of them once; curators resolve a conflict, or one they name by its      *)
(* claims, in favour of one of them. Claims are asserted, and a pair of    *)
(* entities merged and separated, while detectors and curators are at it.  *)
(*                                                                         *)
(* One rule on one predicate, whose claims the caller may all read. A      *)
(* claim's id is a number; so is a conflict's, as good as a random one.    *)
(***************************************************************************)
EXTENDS Naturals, FiniteSets

CONSTANTS
  Claims,             \* a set of numbers
  Namespaces,         \* those of the callers
  Namespace,          \* of each claim
  Subject,            \* of each claim, an entity
  Object,             \* of each claim, an entity or a literal
  From, To,           \* the interval in which each claim is valid
  Absorbed, Surviving,  \* the two entities that may be merged
  Max,                \* how many values the rule allows
  Detectors, Curators,
  Requests,           \* the sets of claims that curators resolve
  ConflictIds,        \* a set of numbers
  MaxIdentityEvents,  \* bound on merges and separations
  Early,              \* the claims asserted before anything else
  None

ASSUME ConflictsAssumption ==
  /\ Claims \subseteq Nat /\ IsFiniteSet(Claims) /\ ConflictIds \subseteq Nat
  /\ Namespace \in [Claims -> Namespaces]
  /\ From \in [Claims -> Nat] /\ To \in [Claims -> Nat]
  /\ Max \in Nat \ {0}
  /\ MaxIdentityEvents \in Nat
  /\ Early \subseteq Claims
  /\ Detectors \cap Curators = {}
  /\ \A r \in Requests : r \subseteq Claims /\ Cardinality(r) >= 2
  /\ None \notin [cause : {Subject[c] : c \in Claims} \cup {Surviving, None},
                  claims : SUBSET Claims, by : Detectors \cup Curators]

Calls == Detectors \cup Curators
Peers(p) == IF p \in Detectors THEN Detectors ELSE Curators

VARIABLES
  stored,       \* the claims asserted so far
  merged,       \* the identity events so far: is Absorbed merged, and how many
  conflicts,    \* of each id: its claims, cause and author, or None
  resolutions,  \* of each conflict: the preferred claim and the author, or None
  pc,           \* where each call is
  view,         \* is Absorbed merged in the events a detector read
  known,        \* the identities of conflicts a detector read or recorded
  left,         \* the namespaces a detector has still to look into
  request,      \* what a curator resolves
  found,        \* all violations a detector found
  ended         \* the calls of its kind that had ended when a call began

store == <<stored, merged, conflicts, resolutions>>
detector == <<view, known, left, found>>
vars == <<stored, merged, conflicts, resolutions, pc, view, known, left, request, found, ended>>

Init ==
  /\ stored = Early
  /\ merged = [now |-> FALSE, events |-> 0]
  /\ conflicts = [i \in ConflictIds |-> None]
  /\ resolutions = [i \in ConflictIds |-> None]
  /\ pc = [p \in Calls |-> "new"]
  /\ view = [p \in Detectors |-> FALSE]
  /\ known = [p \in Detectors |-> {}]
  /\ left = [p \in Detectors |-> {}]
  /\ request = [p \in Curators |-> None]
  /\ found = [p \in Detectors |-> {}]
  /\ ended = [p \in Calls |-> {}]

-----------------------------------------------------------------------------
(* What a detector makes of claims, with Absorbed merged or not.           *)

Canonical(isMerged, x) == IF isMerged /\ x = Absorbed THEN Surviving ELSE x

ActiveAt(claims, t) == {c \in claims : From[c] <= t /\ t < To[c]}

(* Of claims that state the same value, the one with the lowest id.        *)
Representatives(claims, isMerged) ==
  {c \in claims : \A d \in claims :
     Canonical(isMerged, Object[d]) = Canonical(isMerged, Object[c]) => c <= d}

(* Mutant of MaximalViolatingSets: looks when claims end, not when they    *)
(* begin.                                                                  *)
SetsAtEnds(group, isMerged) ==
  LET sets == {Representatives(ActiveAt(group, To[c]), isMerged) : c \in group}
  IN  {s \in sets : Cardinality(s) > Max}

MaximalViolatingSets(group, isMerged) ==
  LET sets == {Representatives(ActiveAt(group, From[c]), isMerged) : c \in group}
      violating == {s \in sets : Cardinality(s) > Max}
  IN  {s \in violating : ~\E other \in violating : s \subseteq other /\ s # other}

Group(claims, isMerged, namespace, subject) ==
  {c \in claims : Namespace[c] = namespace /\ Canonical(isMerged, Subject[c]) = subject}

(* The violations of a namespace: a subject, the cause of the conflict,    *)
(* with the claims.                                                        *)
Violations(claims, isMerged, namespace) ==
  UNION {[cause : {subject},
          claims : MaximalViolatingSets(Group(claims, isMerged, namespace, subject), isMerged)] :
         subject \in {Canonical(isMerged, Subject[c]) : c \in claims}}

Recorded == {i \in ConflictIds : conflicts[i] # None}
Identity(conflict) == [cause |-> conflict.cause, claims |-> conflict.claims]
Identities == {Identity(conflicts[i]) : i \in Recorded}

-----------------------------------------------------------------------------
(* The world.                                                              *)

AssertClaim(c) ==
  /\ c \notin stored
  /\ stored' = stored \cup {c}
  /\ UNCHANGED <<merged, conflicts, resolutions, pc, detector, request, ended>>

MergeOrRevert ==
  /\ merged.events < MaxIdentityEvents
  /\ merged' = [now |-> ~merged.now, events |-> merged.events + 1]
  /\ UNCHANGED <<stored, conflicts, resolutions, pc, detector, request, ended>>

-----------------------------------------------------------------------------
(* Detection. The events and the recorded conflicts are read once, the     *)
(* claims anew for every namespace, and each violation is a transaction.   *)

Begin(p, next) ==
  /\ pc[p] = "new"
  /\ pc' = [pc EXCEPT ![p] = next]
  /\ ended' = [ended EXCEPT ![p] = {q \in Peers(p) : pc[q] \in {"done", "failed"}}]

DetectReadEvents(p) ==
  /\ Begin(p, "conflicts")
  /\ view' = [view EXCEPT ![p] = merged.now]
  /\ UNCHANGED <<store, known, left, found, request>>

ReadConflicts(p, identities) ==
  /\ pc[p] = "conflicts"
  /\ pc' = [pc EXCEPT ![p] = "claims"]
  /\ known' = [known EXCEPT ![p] = identities]
  /\ left' = [left EXCEPT ![p] = Namespaces]
  /\ UNCHANGED <<store, view, found, request, ended>>

(* Mutant of DetectReadConflicts: claims already in a conflict of any      *)
(* cause are passed over.                                                  *)
KnownByClaims(p) ==
  ReadConflicts(p, [cause : {Subject[c] : c \in Claims},
                    claims : {conflicts[i].claims : i \in Recorded}])

DetectReadConflicts(p) == ReadConflicts(p, Identities)

(* A violation that is known is passed over.                               *)
ToRecord(p) == found[p] \ known[p]

(* What comes next; a call that ends forgets what it read.                 *)
Continue(p) ==
  CASE ToRecord(p)' # {} -> pc' = [pc EXCEPT ![p] = "record"] /\ UNCHANGED view
    [] ToRecord(p)' = {} /\ left'[p] # {} -> pc' = [pc EXCEPT ![p] = "claims"] /\ UNCHANGED view
    [] OTHER -> pc' = [pc EXCEPT ![p] = "done"] /\ view' = [view EXCEPT ![p] = FALSE]

DetectReadClaims(p, namespace) ==
  /\ pc[p] = "claims"
  /\ namespace \in left[p]
  /\ found' = [found EXCEPT ![p] = @ \cup Violations(stored, view[p], namespace)]
  /\ left' = [left EXCEPT ![p] = @ \ {namespace}]
  /\ UNCHANGED known
  /\ Continue(p)
  /\ UNCHANGED <<store, request, ended>>

(* A conflict gets an id that no other has.                                *)
RecordConflict(i, p, violation) ==
  /\ i \notin Recorded
  /\ \A j \in ConflictIds \ Recorded : i <= j
  /\ conflicts' = [conflicts EXCEPT ![i] = [cause |-> violation.cause,
                                            claims |-> violation.claims, by |-> p]]

DetectPersist(p, violation, i) ==
  /\ pc[p] = "record"
  /\ violation \in ToRecord(p)
  /\ RecordConflict(i, p, violation)
  /\ known' = [known EXCEPT ![p] = @ \cup {violation}]
  /\ UNCHANGED <<left, found>>
  /\ Continue(p)
  /\ UNCHANGED <<stored, merged, resolutions, request, ended>>

(* The call throws, or its process dies; what it recorded stays.           *)
Fail(p) ==
  /\ pc[p] \notin {"new", "done", "failed"}
  /\ pc' = [pc EXCEPT ![p] = "failed"]
  /\ IF p \in Detectors
     THEN /\ view' = [view EXCEPT ![p] = FALSE]
          /\ known' = [known EXCEPT ![p] = {}]
          /\ left' = [left EXCEPT ![p] = {}]
          /\ found' = [found EXCEPT ![p] = {}]
          /\ UNCHANGED request
     ELSE /\ request' = [request EXCEPT ![p] = None]
          /\ UNCHANGED detector
  /\ UNCHANGED <<store, ended>>

-----------------------------------------------------------------------------
(* Resolution of the conflict with an id, or of the claims given.          *)

Resolve(p, claims, preferred) ==
  /\ claims \subseteq stored
  /\ LET Start(next, i) ==
            /\ Begin(p, next)
            /\ request' = [request EXCEPT ![p] =
                             [conflict |-> i, claims |-> claims, preferred |-> preferred]]
         same == {i \in Recorded : conflicts[i].claims = claims}
     IN  \/ \E i \in same : Start("resolutions", i)
         \/ same = {} /\ Start("write", None)
  /\ UNCHANGED <<store, detector>>

ResolveReadConflicts(p, claims, preferred) ==
  /\ preferred \in claims
  /\ Resolve(p, claims, preferred)

(* Mutant of ResolveReadResolutions: a prior resolution is not looked for. *)
ResolveAgain(p) ==
  /\ pc[p] = "resolutions"
  /\ pc' = [pc EXCEPT ![p] = "write"]
  /\ UNCHANGED <<store, detector, request, ended>>

ResolveReadResolutions(p) ==
  /\ pc[p] = "resolutions"
  /\ IF resolutions[request[p].conflict] = None
     THEN pc' = [pc EXCEPT ![p] = "write"] /\ UNCHANGED request
     ELSE pc' = [pc EXCEPT ![p] = "failed"] /\ request' = [request EXCEPT ![p] = None]
  /\ UNCHANGED <<store, detector, ended>>

(* Claims in conflict that nobody detected become a conflict without a     *)
(* cause.                                                                  *)
ResolveWrite(p, i) ==
  /\ pc[p] = "write"
  /\ IF request[p].conflict = None
     THEN RecordConflict(i, p, [cause |-> None, claims |-> request[p].claims])
     ELSE i = request[p].conflict /\ UNCHANGED conflicts
  /\ resolutions' = [resolutions EXCEPT ![i] = [preferred |-> request[p].preferred, by |-> p]]
  /\ pc' = [pc EXCEPT ![p] = "done"]
  /\ request' = [request EXCEPT ![p] = None]
  /\ UNCHANGED <<stored, merged, detector, ended>>

-----------------------------------------------------------------------------
Next ==
  \/ \E c \in Claims : AssertClaim(c)
  \/ MergeOrRevert
  \/ \E p \in Detectors :
       \/ DetectReadEvents(p)
       \/ DetectReadConflicts(p)
       \/ \E n \in Namespaces : DetectReadClaims(p, n)
       \/ \E v \in ToRecord(p), i \in ConflictIds : DetectPersist(p, v, i)
  \/ \E p \in Curators :
       \/ \E claims \in Requests, c \in Claims : ResolveReadConflicts(p, claims, c)
       \/ ResolveReadResolutions(p)
       \/ \E i \in ConflictIds : ResolveWrite(p, i)
  \/ \E p \in Calls : Fail(p)

Spec == Init /\ [][Next]_vars

-----------------------------------------------------------------------------
(* A rule is violated at any time, not only when a claim begins: whenever  *)
(* the claims of a subject state more values than allowed, one of the sets *)
(* reported has all these values.                                          *)
Values(claims, isMerged) == {Canonical(isMerged, Object[c]) : c \in claims}

Times == UNION {From[c]..To[c] : c \in Claims}

NoViolationIsMissed ==
  \A n \in Namespaces, s \in {Subject[c] : c \in Claims}, t \in Times :
    LET group == Group(stored, merged.now, n, s)
        values == Values(ActiveAt(group, t), merged.now)
    IN  Cardinality(values) > Max =>
          \E v \in Violations(stored, merged.now, n) :
            v.cause = s /\ values \subseteq Values(v.claims, merged.now)

(* When a detection has ended, all it found is on record, under the same   *)
(* subject, whoever recorded it.                                           *)
AllFoundIsRecorded ==
  \A p \in Detectors : pc[p] = "done" => found[p] \subseteq Identities

(* A resolution stands, unless another curator was at it meanwhile.        *)
ResolutionsStand ==
  [][\A i \in ConflictIds :
       resolutions[i] # None /\ resolutions'[i] # resolutions[i] =>
         resolutions[i].by \notin ended[resolutions'[i].by]]_vars
=============================================================================
