------------------------ MODULE ClaimConflicts_proofs ------------------------
(***************************************************************************)
(* That what a detection found is on record when it has ended, that        *)
(* resolutions stand, and that no violation is missed at any time, for any *)
(* rule, claims, detectors and curators.                                   *)
(***************************************************************************)
EXTENDS ClaimConflicts, FiniteSetTheorems, WellFoundedInduction, TLAPS

Causes == {Subject[c] : c \in Claims} \cup {Surviving, None}
ViolationType == [cause : Causes, claims : SUBSET Claims]
ConflictType == [cause : Causes, claims : SUBSET Claims, by : Calls]
RequestType == [conflict : ConflictIds \cup {None}, claims : SUBSET Claims, preferred : Claims]
Places == {"new", "conflicts", "claims", "record", "resolutions", "write", "done", "failed"}

(* The types of what the other invariants speak of.                        *)
TypeInv ==
  /\ stored \subseteq Claims
  /\ conflicts \in [ConflictIds -> ConflictType \cup {None}]
  /\ DOMAIN resolutions = ConflictIds
  /\ pc \in [Calls -> Places]
  /\ known \in [Detectors -> SUBSET ViolationType]
  /\ found \in [Detectors -> SUBSET ViolationType]
  /\ DOMAIN left = Detectors
  /\ request \in [Curators -> RequestType \cup {None}]
  /\ ended \in [Calls -> SUBSET Calls]

(* What a detector knows is on record, and what it found is known to it    *)
(* unless it is at recording.                                              *)
DetectionInv ==
  \A p \in Detectors :
    /\ known[p] \subseteq Identities
    /\ pc[p] \in {"new", "conflicts"} => found[p] = {}
    /\ pc[p] # "record" => found[p] \subseteq known[p]

(* A curator at work knows what to resolve, and a conflict that is there.  *)
RequestInv ==
  \A p \in Curators : pc[p] \in {"resolutions", "write"} =>
    /\ request[p] \in RequestType
    /\ request[p].conflict # None => request[p].conflict \in Recorded

(* Who resolved a conflict is done. Who had ended when a call began is not *)
(* the one that resolved, since it looked, the conflict it is about to.    *)
ResolutionInv ==
  /\ \A p \in Calls : \A q \in ended[p] : pc[q] \in {"done", "failed"}
  /\ \A i \in ConflictIds : resolutions[i] # None =>
       i \in Recorded /\ resolutions[i].by \in Curators /\ pc[resolutions[i].by] = "done"
  /\ \A p \in Curators : \A i \in ConflictIds :
       /\ pc[p] = "write" /\ request[p].conflict = i /\ i # None
       /\ resolutions[i] # None
       => resolutions[i].by \notin ended[p]

-----------------------------------------------------------------------------
(* What a detector makes of claims has its type.                           *)

LEMMA ViolationsType ==
  ASSUME NEW claims \in SUBSET Claims, NEW isMerged, NEW n
  PROVE  Violations(claims, isMerged, n) \subseteq ViolationType
<1> SUFFICES ASSUME NEW c \in claims,
                    NEW v \in [cause : {Canonical(isMerged, Subject[c])},
                               claims : MaximalViolatingSets(
                                 Group(claims, isMerged, n, Canonical(isMerged, Subject[c])), isMerged)]
             PROVE  v \in ViolationType
  BY DEF Violations
<1> DEFINE group == Group(claims, isMerged, n, Canonical(isMerged, Subject[c]))
<1>1. group \subseteq Claims
  BY DEF Group
<1>2. \A t : Representatives(ActiveAt(group, t), isMerged) \subseteq group
  BY DEF Representatives, ActiveAt
<1>3. MaximalViolatingSets(group, isMerged) \subseteq SUBSET Claims
  <2> HIDE DEF group
  <2> QED  BY <1>1, <1>2 DEF MaximalViolatingSets
<1>4. Canonical(isMerged, Subject[c]) \in Causes
  BY DEF Canonical, Causes
<1> QED  BY <1>3, <1>4 DEF ViolationType

(* A new conflict is one more, under an id that had none.                  *)
LEMMA RecordFacts ==
  ASSUME TypeInv, NEW i \in ConflictIds, NEW p \in Calls, NEW v \in ViolationType,
         RecordConflict(i, p, v)
  PROVE  /\ conflicts' \in [ConflictIds -> ConflictType \cup {None}]
         /\ i \notin Recorded
         /\ Recorded' = Recorded \cup {i}
         /\ Identities \cup {v} \subseteq Identities'
<1> DEFINE new == [cause |-> v.cause, claims |-> v.claims, by |-> p]
<1>1. new \in ConflictType
  BY DEF ConflictType, ViolationType
<1>2. new # None
  BY <1>1, ConflictsAssumption DEF ConflictType, Causes, Calls
<1>3. conflicts' = [conflicts EXCEPT ![i] = new] /\ i \notin Recorded
  BY DEF RecordConflict
<1>4. Identity(new) = v
  BY DEF Identity, ViolationType
<1> HIDE DEF new
<1>5. conflicts' \in [ConflictIds -> ConflictType \cup {None}]
  BY <1>1, <1>3 DEF TypeInv
<1>6. \A j \in ConflictIds : conflicts'[j] = IF j = i THEN new ELSE conflicts[j]
  BY <1>3 DEF TypeInv
<1>7. Recorded' = Recorded \cup {i}
  BY <1>2, <1>6 DEF Recorded
<1>8. Identities' = {Identity(conflicts'[j]) : j \in Recorded'}
  BY DEF Identities
<1>9. \A j \in Recorded : conflicts'[j] = conflicts[j]
  BY <1>3, <1>6 DEF Recorded
<1>10. conflicts'[i] = new
  BY <1>6
<1>11. Identities \subseteq Identities'
  BY <1>7, <1>8, <1>9 DEF Identities
<1>12. v \in Identities'
  BY <1>4, <1>7, <1>8, <1>10
<1> QED  BY <1>3, <1>5, <1>7, <1>11, <1>12

LEMMA RecordedStay ==
  ASSUME UNCHANGED conflicts
  PROVE  Recorded' = Recorded /\ Identities' = Identities
BY DEF Recorded, Identities, Identity

LEMMA IdentitiesType == TypeInv => Identities \subseteq ViolationType
<1> SUFFICES ASSUME TypeInv, NEW i \in Recorded PROVE Identity(conflicts[i]) \in ViolationType
  BY DEF Identities
<1>1. conflicts[i] \in ConflictType
  BY DEF TypeInv, Recorded
<1> QED  BY <1>1 DEF ConflictType, ViolationType, Identity

-----------------------------------------------------------------------------
(* A step of a detector.                                                   *)

LEMMA PlaceType ==
  ASSUME TypeInv, NEW p \in Calls, NEW place \in Places, pc' = [pc EXCEPT ![p] = place]
  PROVE  pc' \in [Calls -> Places] /\ pc'[p] = place /\ \A q \in Calls \ {p} : pc'[q] = pc[q]
BY DEF TypeInv

(* Where a detector goes on, it has nothing left to record or is about to. *)
LEMMA ContinueFacts ==
  ASSUME TypeInv, NEW p \in Detectors, Continue(p)
  PROVE  \E place \in {"record", "claims", "done"} :
           /\ pc' = [pc EXCEPT ![p] = place]
           /\ place # "record" => found'[p] \subseteq known'[p]
<1>1. CASE ToRecord(p)' # {}
  BY <1>1 DEF Continue
<1>2. CASE ToRecord(p)' = {}
  <2>1. found'[p] \subseteq known'[p]
    BY <1>2 DEF ToRecord
  <2>2. \/ pc' = [pc EXCEPT ![p] = "claims"]
        \/ pc' = [pc EXCEPT ![p] = "done"]
    BY <1>2 DEF Continue
  <2> QED  BY <2>1, <2>2
<1> QED  BY <1>1, <1>2

(* The other detectors keep theirs, if no conflict gets lost.              *)
LEMMA OthersDetect ==
  ASSUME TypeInv, DetectionInv, NEW p, Identities \subseteq Identities',
         \A q \in Detectors \ {p} : pc'[q] = pc[q] /\ known'[q] = known[q] /\ found'[q] = found[q],
         p \in Detectors => /\ known'[p] \subseteq Identities'
                            /\ pc'[p] \in {"new", "conflicts"} => found'[p] = {}
                            /\ pc'[p] # "record" => found'[p] \subseteq known'[p]
  PROVE  DetectionInv'
<1> SUFFICES ASSUME NEW q \in Detectors
             PROVE  /\ known'[q] \subseteq Identities'
                    /\ pc'[q] \in {"new", "conflicts"} => found'[q] = {}
                    /\ pc'[q] # "record" => found'[q] \subseteq known'[q]
  BY DEF DetectionInv
<1>1. CASE q = p
  BY <1>1
<1>2. CASE q # p
  BY <1>2 DEF DetectionInv
<1> QED  BY <1>1, <1>2

-----------------------------------------------------------------------------
(* Types.                                                                  *)

LEMMA BeginFacts ==
  ASSUME TypeInv, NEW p \in Calls, NEW next \in Places, Begin(p, next)
  PROVE  /\ pc[p] = "new"
         /\ pc' = [pc EXCEPT ![p] = next]
         /\ ended' = [ended EXCEPT ![p] = {q \in Peers(p) : pc[q] \in {"done", "failed"}}]
         /\ ended' \in [Calls -> SUBSET Calls]
<1>1. {q \in Peers(p) : pc[q] \in {"done", "failed"}} \subseteq Calls
  BY DEF Peers, Calls
<1> QED  BY <1>1 DEF Begin, TypeInv

LEMMA TypeInit == Init => TypeInv
<1> SUFFICES ASSUME Init PROVE TypeInv
  OBVIOUS
<1>1. stored \subseteq Claims
  BY ConflictsAssumption DEF Init
<1>2. pc \in [Calls -> Places] /\ ended \in [Calls -> SUBSET Calls]
  BY DEF Init, Places
<1> QED  BY <1>1, <1>2 DEF Init, TypeInv

LEMMA DetectorTypes ==
  ASSUME TypeInv, NEW p \in Detectors,
         \/ DetectReadEvents(p) \/ DetectReadConflicts(p)
         \/ \E n \in Namespaces : DetectReadClaims(p, n)
         \/ \E v \in ToRecord(p), i \in ConflictIds : DetectPersist(p, v, i)
  PROVE  TypeInv'
<1>0. p \in Calls
  BY DEF Calls
<1>1. CASE DetectReadEvents(p)
  <2>1. "conflicts" \in Places /\ Begin(p, "conflicts")
    BY <1>1 DEF Places, DetectReadEvents
  <2>2. pc' \in [Calls -> Places] /\ ended' \in [Calls -> SUBSET Calls]
    BY <1>0, <2>1, BeginFacts, PlaceType
  <2> QED  BY <1>1, <2>2 DEF DetectReadEvents, TypeInv, store
<1>2. CASE DetectReadConflicts(p)
  <2>1. pc' \in [Calls -> Places]
    BY <1>0, <1>2 DEF DetectReadConflicts, ReadConflicts, TypeInv, Places
  <2>2. known' \in [Detectors -> SUBSET ViolationType]
    BY <1>2, IdentitiesType DEF DetectReadConflicts, ReadConflicts, TypeInv
  <2> QED  BY <1>2, <2>1, <2>2 DEF DetectReadConflicts, ReadConflicts, TypeInv, store
<1>3. ASSUME Continue(p) PROVE pc' \in [Calls -> Places]
  <2>1. PICK place \in {"record", "claims", "done"} : pc' = [pc EXCEPT ![p] = place]
    BY <1>3, ContinueFacts
  <2> QED  BY <1>0, <2>1, PlaceType DEF Places
<1>4. ASSUME NEW n \in Namespaces, DetectReadClaims(p, n) PROVE TypeInv'
  <2>1. pc' \in [Calls -> Places]
    BY <1>3, <1>4 DEF DetectReadClaims
  <2>2. Violations(stored, view[p], n) \subseteq ViolationType
    BY ViolationsType DEF TypeInv
  <2>3. found' = [found EXCEPT ![p] = @ \cup Violations(stored, view[p], n)]
    BY <1>4 DEF DetectReadClaims
  <2>4. found' \in [Detectors -> SUBSET ViolationType]
    BY <2>2, <2>3 DEF TypeInv
  <2> QED  BY <1>4, <2>1, <2>4 DEF DetectReadClaims, TypeInv, store
<1>5. ASSUME NEW v \in ToRecord(p), NEW i \in ConflictIds, DetectPersist(p, v, i) PROVE TypeInv'
  <2>1. pc' \in [Calls -> Places]
    BY <1>3, <1>5 DEF DetectPersist
  <2>2. v \in ViolationType
    BY DEF ToRecord, TypeInv
  <2>3. conflicts' \in [ConflictIds -> ConflictType \cup {None}]
    BY <1>0, <1>5, <2>2, RecordFacts DEF DetectPersist
  <2>4. known' \in [Detectors -> SUBSET ViolationType]
    BY <1>5, <2>2 DEF DetectPersist, TypeInv
  <2> QED  BY <1>5, <2>1, <2>3, <2>4 DEF DetectPersist, TypeInv
<1> QED  BY <1>1, <1>2, <1>4, <1>5

LEMMA FailTypes ==
  ASSUME TypeInv, NEW p \in Calls, Fail(p)
  PROVE  TypeInv'
<1>1. pc' \in [Calls -> Places] /\ UNCHANGED <<store, ended>>
  BY DEF Fail, TypeInv, Places
<1>2. CASE p \in Detectors
  BY <1>1, <1>2 DEF Fail, TypeInv, store
<1>3. CASE p \notin Detectors
  BY <1>1, <1>3 DEF Fail, TypeInv, store, detector
<1> QED  BY <1>2, <1>3

LEMMA CuratorTypes ==
  ASSUME TypeInv, RequestInv, NEW p \in Curators,
         \/ \E claims \in Requests, c \in Claims : ResolveReadConflicts(p, claims, c)
         \/ ResolveReadResolutions(p)
         \/ \E i \in ConflictIds : ResolveWrite(p, i)
  PROVE  TypeInv'
<1>0. p \in Calls
  BY DEF Calls
<1>1. ASSUME NEW claims \in Requests, NEW c \in Claims, ResolveReadConflicts(p, claims, c)
      PROVE  TypeInv'
  <2>1. PICK next \in {"resolutions", "write"}, i \in Recorded \cup {None} :
          /\ Begin(p, next)
          /\ request' = [request EXCEPT ![p] = [conflict |-> i, claims |-> claims, preferred |-> c]]
    BY <1>1 DEF ResolveReadConflicts, Resolve
  <2>2. pc' \in [Calls -> Places] /\ ended' \in [Calls -> SUBSET Calls]
    BY <1>0, <2>1, BeginFacts, PlaceType DEF Places
  <2>3. claims \subseteq Claims
    BY <1>1 DEF ResolveReadConflicts, Resolve, TypeInv
  <2>4. [conflict |-> i, claims |-> claims, preferred |-> c] \in RequestType
    BY <2>3 DEF RequestType, Recorded
  <2>5. request' \in [Curators -> RequestType \cup {None}]
    BY <2>1, <2>4 DEF TypeInv
  <2> QED  BY <1>1, <2>2, <2>5 DEF ResolveReadConflicts, Resolve, TypeInv, store, detector
<1>2. CASE ResolveReadResolutions(p)
  BY <1>0, <1>2 DEF ResolveReadResolutions, TypeInv, store, detector, Places
<1>3. ASSUME NEW i \in ConflictIds, ResolveWrite(p, i) PROVE TypeInv'
  <2>1. conflicts' \in [ConflictIds -> ConflictType \cup {None}]
    <3>1. CASE request[p].conflict = None
      <4>1. request[p] \in RequestType
        BY <1>3 DEF ResolveWrite, RequestInv
      <4>2. [cause |-> None, claims |-> request[p].claims] \in ViolationType
        BY <4>1 DEF RequestType, ViolationType, Causes
      <4>3. RecordConflict(i, p, [cause |-> None, claims |-> request[p].claims])
        BY <1>3, <3>1 DEF ResolveWrite
      <4> QED  BY <1>0, <4>2, <4>3, RecordFacts
    <3>2. CASE request[p].conflict # None
      BY <1>3, <3>2 DEF ResolveWrite, TypeInv
    <3> QED  BY <3>1, <3>2
  <2> QED  BY <1>0, <1>3, <2>1 DEF ResolveWrite, TypeInv, detector, Places
<1> QED  BY <1>1, <1>2, <1>3

-----------------------------------------------------------------------------
(* Steps of the invariants.                                                *)

LEMMA DetectionStep ==
  ASSUME TypeInv, RequestInv, DetectionInv, [Next]_vars
  PROVE  DetectionInv'
<1>1. ASSUME UNCHANGED <<conflicts, pc, known, found>> PROVE DetectionInv'
  BY <1>1, RecordedStay DEF DetectionInv
<1>2. CASE UNCHANGED vars
  BY <1>1, <1>2 DEF vars
<1>3. ASSUME NEW c \in Claims, AssertClaim(c) PROVE DetectionInv'
  BY <1>1, <1>3 DEF AssertClaim, detector
<1>4. CASE MergeOrRevert
  BY <1>1, <1>4 DEF MergeOrRevert, detector
<1>5. ASSUME NEW p \in Detectors,
             \/ DetectReadEvents(p) \/ DetectReadConflicts(p)
             \/ \E n \in Namespaces : DetectReadClaims(p, n)
             \/ \E v \in ToRecord(p), i \in ConflictIds : DetectPersist(p, v, i)
      PROVE  DetectionInv'
  <2>0. p \in Calls
    BY DEF Calls
  <2>1. CASE DetectReadEvents(p)
    <3>1. pc[p] = "new" /\ pc' = [pc EXCEPT ![p] = "conflicts"]
      BY <2>0, <2>1, BeginFacts DEF DetectReadEvents, Places
    <3>2. Identities' = Identities /\ UNCHANGED <<known, found>>
      BY <2>1, RecordedStay DEF DetectReadEvents, store
    <3>3. pc'[p] = "conflicts" /\ \A q \in Detectors \ {p} : pc'[q] = pc[q]
      BY <2>0, <3>1 DEF TypeInv, Calls
    <3> QED  BY <3>1, <3>2, <3>3, OthersDetect DEF DetectionInv
  <2>2. CASE DetectReadConflicts(p)
    <3>1. /\ pc[p] = "conflicts" /\ pc' = [pc EXCEPT ![p] = "claims"]
          /\ known' = [known EXCEPT ![p] = Identities] /\ UNCHANGED found
          /\ Identities' = Identities
      BY <2>2, RecordedStay DEF DetectReadConflicts, ReadConflicts, store
    <3>2. /\ pc'[p] = "claims" /\ known'[p] = Identities
          /\ \A q \in Detectors \ {p} : pc'[q] = pc[q] /\ known'[q] = known[q]
      BY <2>0, <3>1 DEF TypeInv, Calls
    <3>3. found'[p] = {}
      BY <3>1 DEF DetectionInv
    <3> QED  BY <3>1, <3>2, <3>3, OthersDetect
  <2>3. ASSUME Continue(p) PROVE /\ pc'[p] \in {"record", "claims", "done"}
                                 /\ pc'[p] # "record" => found'[p] \subseteq known'[p]
                                 /\ \A q \in Detectors \ {p} : pc'[q] = pc[q]
    <3>1. PICK place \in {"record", "claims", "done"} :
            /\ pc' = [pc EXCEPT ![p] = place]
            /\ place # "record" => found'[p] \subseteq known'[p]
      BY <2>3, ContinueFacts
    <3> QED  BY <2>0, <3>1 DEF TypeInv, Calls
  <2>4. ASSUME NEW n \in Namespaces, DetectReadClaims(p, n) PROVE DetectionInv'
    <3>1. /\ Continue(p) /\ UNCHANGED known /\ Identities' = Identities
          /\ found' = [found EXCEPT ![p] = @ \cup Violations(stored, view[p], n)]
      BY <2>4, RecordedStay DEF DetectReadClaims, store
    <3>2. \A q \in Detectors \ {p} : found'[q] = found[q]
      BY <3>1 DEF TypeInv
    <3>3. known'[p] \subseteq Identities'
      BY <3>1 DEF DetectionInv
    <3> QED  BY <2>3, <3>1, <3>2, <3>3, OthersDetect
  <2>5. ASSUME NEW v \in ToRecord(p), NEW i \in ConflictIds, DetectPersist(p, v, i)
        PROVE  DetectionInv'
    <3>1. /\ Continue(p) /\ UNCHANGED found /\ RecordConflict(i, p, v)
          /\ known' = [known EXCEPT ![p] = @ \cup {v}]
      BY <2>5 DEF DetectPersist
    <3>2. v \in ViolationType
      BY DEF ToRecord, TypeInv
    <3>3. Identities \cup {v} \subseteq Identities'
      BY <2>0, <3>1, <3>2, RecordFacts
    <3>4. known'[p] = known[p] \cup {v} /\ \A q \in Detectors \ {p} : known'[q] = known[q]
      BY <3>1 DEF TypeInv
    <3>5. known'[p] \subseteq Identities'
      BY <3>3, <3>4 DEF DetectionInv
    <3> QED  BY <2>3, <3>1, <3>3, <3>4, <3>5, OthersDetect
  <2> QED  BY <1>5, <2>1, <2>2, <2>4, <2>5
<1>6. ASSUME NEW p \in Curators,
             \/ \E claims \in Requests, c \in Claims : ResolveReadConflicts(p, claims, c)
             \/ ResolveReadResolutions(p)
             \/ \E i \in ConflictIds : ResolveWrite(p, i)
      PROVE  DetectionInv'
  <2>0. p \in Calls /\ p \notin Detectors
    BY ConflictsAssumption DEF Calls
  <2>1. UNCHANGED <<known, found>> /\ \A q \in Detectors \ {p} : pc'[q] = pc[q]
    BY <1>6, <2>0 DEF ResolveReadConflicts, Resolve, Begin, ResolveReadResolutions, ResolveWrite,
                      detector, TypeInv, Calls
  <2>2. Identities \subseteq Identities'
    <3>1. CASE UNCHANGED conflicts
      BY <3>1, RecordedStay
    <3>2. ASSUME NEW i \in ConflictIds, ResolveWrite(p, i), request[p].conflict = None
          PROVE  Identities \subseteq Identities'
      <4>1. request[p] \in RequestType
        BY <3>2 DEF ResolveWrite, RequestInv
      <4>2. [cause |-> None, claims |-> request[p].claims] \in ViolationType
        BY <4>1 DEF RequestType, ViolationType, Causes
      <4> QED  BY <2>0, <3>2, <4>2, RecordFacts DEF ResolveWrite
    <3> QED  BY <1>6, <3>1, <3>2
             DEF ResolveReadConflicts, Resolve, ResolveReadResolutions, ResolveWrite, store
  <2> QED  BY <2>0, <2>1, <2>2, OthersDetect
<1>7. ASSUME NEW p \in Calls, Fail(p) PROVE DetectionInv'
  <2>1. Identities' = Identities /\ pc' = [pc EXCEPT ![p] = "failed"]
    BY <1>7, RecordedStay DEF Fail, store
  <2>2. pc'[p] = "failed" /\ \A q \in Detectors \ {p} : pc'[q] = pc[q]
    BY <2>1 DEF TypeInv, Calls
  <2>3. CASE p \in Detectors
    <3>1. /\ known'[p] = {} /\ found'[p] = {}
          /\ \A q \in Detectors \ {p} : known'[q] = known[q] /\ found'[q] = found[q]
      BY <1>7, <2>3 DEF Fail, TypeInv
    <3> QED  BY <2>1, <2>2, <3>1, OthersDetect
  <2>4. CASE p \notin Detectors
    <3>1. UNCHANGED <<known, found>>
      BY <1>7, <2>4 DEF Fail, detector
    <3> QED  BY <2>1, <2>2, <2>4, <3>1, OthersDetect
  <2> QED  BY <2>3, <2>4
<1> QED  BY <1>2, <1>3, <1>4, <1>5, <1>6, <1>7 DEF Next

LEMMA TypeStep ==
  ASSUME TypeInv, RequestInv, [Next]_vars
  PROVE  TypeInv'
<1>1. CASE UNCHANGED vars
  BY <1>1 DEF vars, TypeInv
<1>2. ASSUME NEW c \in Claims, AssertClaim(c) PROVE TypeInv'
  BY <1>2 DEF AssertClaim, TypeInv, detector
<1>3. CASE MergeOrRevert
  BY <1>3 DEF MergeOrRevert, TypeInv, detector
<1> QED  BY <1>1, <1>2, <1>3, DetectorTypes, CuratorTypes, FailTypes DEF Next

(* Only a call that has not ended takes a step, and its kind looks at      *)
(* nothing of others but whether they have ended.                          *)
Moves(p) ==
  /\ pc[p] \notin {"done", "failed"}
  /\ \A q \in Calls \ {p} : pc'[q] = pc[q] /\ ended'[q] = ended[q]
  /\ \A q \in ended'[p] : q \in ended[p] \/ pc[q] \in {"done", "failed"}

LEMMA EndedStep ==
  ASSUME TypeInv, TypeInv', ResolutionInv, NEW p \in Calls, Moves(p)
  PROVE  \A q \in Calls : \A other \in ended'[q] : pc'[other] \in {"done", "failed"}
<1> SUFFICES ASSUME NEW q \in Calls, NEW other \in ended'[q]
             PROVE  pc'[other] \in {"done", "failed"}
  OBVIOUS
<1>1. pc[other] \in {"done", "failed"}
  BY DEF Moves, ResolutionInv
<1>2. other # p
  BY <1>1 DEF Moves
<1>3. other \in Calls
  BY DEF TypeInv
<1> QED  BY <1>1, <1>2, <1>3 DEF Moves

(* A step that resolves nothing.                                           *)
LEMMA NothingResolved ==
  ASSUME TypeInv, TypeInv', RequestInv, ResolutionInv,
         NEW p \in Calls, Moves(p), UNCHANGED resolutions, Recorded \subseteq Recorded',
         \A q \in Curators \ {p} : request'[q] = request[q],
         p \in Curators /\ pc'[p] \in {"resolutions", "write"} =>
           /\ request'[p] \in RequestType
           /\ request'[p].conflict # None => /\ request'[p].conflict \in Recorded
                                             /\ pc'[p] = "write" =>
                                                  resolutions[request'[p].conflict] = None
  PROVE  RequestInv' /\ ResolutionInv'
<1>1. RequestInv'
  <2> SUFFICES ASSUME NEW q \in Curators, pc'[q] \in {"resolutions", "write"}
               PROVE  /\ request'[q] \in RequestType
                      /\ request'[q].conflict # None => request'[q].conflict \in Recorded'
    BY DEF RequestInv
  <2>1. CASE q = p
    BY <2>1
  <2>2. CASE q # p
    <3>1. pc'[q] = pc[q] /\ request'[q] = request[q]
      BY <2>2 DEF Moves, Calls
    <3> QED  BY <3>1 DEF RequestInv
  <2> QED  BY <2>1, <2>2
<1>2. \A q \in Calls : \A other \in ended'[q] : pc'[other] \in {"done", "failed"}
  BY EndedStep
<1>3. ASSUME NEW i \in ConflictIds, resolutions'[i] # None
      PROVE  /\ i \in Recorded' /\ resolutions'[i].by \in Curators
             /\ pc'[resolutions'[i].by] = "done"
  <2>1. /\ i \in Recorded /\ resolutions[i].by \in Curators /\ pc[resolutions[i].by] = "done"
    BY <1>3 DEF ResolutionInv
  <2> QED  BY <2>1 DEF Moves, Calls
<1>4. ASSUME NEW q \in Curators, NEW i \in ConflictIds,
             pc'[q] = "write", request'[q].conflict = i, i # None, resolutions'[i] # None
      PROVE  resolutions'[i].by \notin ended'[q]
  <2>1. CASE q = p
    BY <1>4, <2>1
  <2>2. CASE q # p
    <3>1. pc'[q] = pc[q] /\ request'[q] = request[q] /\ ended'[q] = ended[q]
      BY <2>2 DEF Moves, Calls
    <3> QED  BY <1>4, <3>1 DEF ResolutionInv
  <2> QED  BY <2>1, <2>2
<1> QED  BY <1>1, <1>2, <1>3, <1>4 DEF ResolutionInv

(* Of a detector's step, and of an end by failure.                         *)
LEMMA DetectorMoves ==
  ASSUME TypeInv, NEW p \in Detectors,
         \/ DetectReadEvents(p) \/ DetectReadConflicts(p)
         \/ \E n \in Namespaces : DetectReadClaims(p, n)
         \/ \E v \in ToRecord(p), i \in ConflictIds : DetectPersist(p, v, i)
  PROVE  Moves(p) /\ UNCHANGED <<resolutions, request>> /\ Recorded \subseteq Recorded'
<1>0. p \in Calls
  BY DEF Calls
<1>1. CASE DetectReadEvents(p)
  <2>1. Begin(p, "conflicts") /\ "conflicts" \in Places
    BY <1>1 DEF DetectReadEvents, Places
  <2>2. Moves(p)
    BY <1>0, <2>1, BeginFacts DEF Moves, TypeInv
  <2> QED  BY <1>1, <2>2, RecordedStay DEF DetectReadEvents, store
<1>2. CASE DetectReadConflicts(p)
  BY <1>0, <1>2, RecordedStay DEF DetectReadConflicts, ReadConflicts, Moves, store, TypeInv
<1>3. ASSUME Continue(p) PROVE \A q \in Calls \ {p} : pc'[q] = pc[q]
  BY <1>0, <1>3, ContinueFacts DEF TypeInv
<1>4. ASSUME NEW n \in Namespaces, DetectReadClaims(p, n)
      PROVE  Moves(p) /\ UNCHANGED <<resolutions, request>> /\ Recorded \subseteq Recorded'
  BY <1>0, <1>3, <1>4, RecordedStay DEF DetectReadClaims, Moves, store
<1>5. ASSUME NEW v \in ToRecord(p), NEW i \in ConflictIds, DetectPersist(p, v, i)
      PROVE  Moves(p) /\ UNCHANGED <<resolutions, request>> /\ Recorded \subseteq Recorded'
  <2>1. v \in ViolationType
    BY DEF ToRecord, TypeInv
  <2>2. Recorded \subseteq Recorded'
    BY <1>0, <1>5, <2>1, RecordFacts DEF DetectPersist
  <2> QED  BY <1>0, <1>3, <1>5, <2>2 DEF DetectPersist, Moves
<1> QED  BY <1>1, <1>2, <1>4, <1>5

LEMMA ResolutionStep ==
  ASSUME TypeInv, TypeInv', RequestInv, ResolutionInv, [Next]_vars
  PROVE  RequestInv' /\ ResolutionInv'
<1>1. ASSUME UNCHANGED <<conflicts, resolutions, pc, request, ended>>
      PROVE  RequestInv' /\ ResolutionInv'
  BY <1>1, RecordedStay DEF RequestInv, ResolutionInv
<1>2. CASE UNCHANGED vars
  BY <1>1, <1>2 DEF vars
<1>3. ASSUME NEW c \in Claims, AssertClaim(c) PROVE RequestInv' /\ ResolutionInv'
  BY <1>1, <1>3 DEF AssertClaim
<1>4. CASE MergeOrRevert
  BY <1>1, <1>4 DEF MergeOrRevert
<1>5. ASSUME NEW p \in Detectors,
             \/ DetectReadEvents(p) \/ DetectReadConflicts(p)
             \/ \E n \in Namespaces : DetectReadClaims(p, n)
             \/ \E v \in ToRecord(p), i \in ConflictIds : DetectPersist(p, v, i)
      PROVE  RequestInv' /\ ResolutionInv'
  <2>1. Moves(p) /\ UNCHANGED <<resolutions, request>> /\ Recorded \subseteq Recorded'
    BY <1>5, DetectorMoves
  <2>2. p \in Calls /\ p \notin Curators
    BY ConflictsAssumption DEF Calls
  <2> QED  BY <2>1, <2>2, NothingResolved
<1>6. ASSUME NEW p \in Calls, Fail(p) PROVE RequestInv' /\ ResolutionInv'
  <2>1. Moves(p) /\ pc'[p] = "failed" /\ Recorded' = Recorded /\ UNCHANGED resolutions
    BY <1>6, RecordedStay DEF Fail, Moves, TypeInv, store
  <2>2. \A q \in Curators \ {p} : request'[q] = request[q]
    BY <1>6 DEF Fail, TypeInv
  <2> QED  BY <2>1, <2>2, NothingResolved
<1>7. ASSUME NEW p \in Curators PROVE p \in Calls
  BY DEF Calls
<1>8. ASSUME NEW p \in Curators, NEW claims \in Requests, NEW c \in Claims,
             ResolveReadConflicts(p, claims, c)
      PROVE  RequestInv' /\ ResolutionInv'
  <2>1. PICK next \in {"resolutions", "write"}, i \in Recorded \cup {None} :
          /\ Begin(p, next)
          /\ next = "resolutions" \/ i = None
          /\ request' = [request EXCEPT ![p] = [conflict |-> i, claims |-> claims, preferred |-> c]]
    BY <1>8 DEF ResolveReadConflicts, Resolve
  <2>2. /\ Moves(p) /\ pc'[p] = next
        /\ \A q \in Curators \ {p} : request'[q] = request[q]
        /\ request'[p].conflict = i
    BY <1>7, <2>1, BeginFacts DEF Moves, TypeInv, Places
  <2>3. request'[p] \in RequestType
    <3>1. claims \subseteq Claims /\ i \in ConflictIds \cup {None}
      BY <1>8 DEF ResolveReadConflicts, Resolve, TypeInv, Recorded
    <3>2. request'[p] = [conflict |-> i, claims |-> claims, preferred |-> c]
      BY <2>1 DEF TypeInv
    <3> QED  BY <3>1, <3>2 DEF RequestType
  <2>4. Recorded' = Recorded /\ UNCHANGED resolutions
    BY <1>8, RecordedStay DEF ResolveReadConflicts, Resolve, store
  <2> QED  BY <1>7, <2>1, <2>2, <2>3, <2>4, NothingResolved
<1>9. ASSUME NEW p \in Curators, ResolveReadResolutions(p)
      PROVE  RequestInv' /\ ResolutionInv'
  <2>1. Moves(p) /\ Recorded' = Recorded /\ UNCHANGED resolutions
    BY <1>7, <1>9, RecordedStay DEF ResolveReadResolutions, Moves, TypeInv, store
  <2>2. CASE resolutions[request[p].conflict] = None
    <3>1. UNCHANGED request /\ pc[p] = "resolutions"
      BY <1>9, <2>2 DEF ResolveReadResolutions
    <3> QED  BY <1>7, <2>1, <2>2, <3>1, NothingResolved DEF RequestInv
  <2>3. CASE resolutions[request[p].conflict] # None
    <3>1. pc'[p] = "failed" /\ \A q \in Curators \ {p} : request'[q] = request[q]
      BY <1>7, <1>9, <2>3 DEF ResolveReadResolutions, TypeInv
    <3> QED  BY <1>7, <2>1, <3>1, NothingResolved
  <2> QED  BY <2>2, <2>3
<1>10. ASSUME NEW p \in Curators, NEW i \in ConflictIds, ResolveWrite(p, i)
       PROVE  RequestInv' /\ ResolutionInv'
  <2>1. /\ pc[p] = "write" /\ pc'[p] = "done" /\ UNCHANGED ended
        /\ \A q \in Calls \ {p} : pc'[q] = pc[q]
        /\ \A q \in Curators \ {p} : request'[q] = request[q]
    BY <1>7, <1>10 DEF ResolveWrite, TypeInv
  <2>2. Moves(p)
    BY <2>1 DEF Moves
  <2>3. Recorded' = Recorded \cup {i}
    <3>1. request[p] \in RequestType
      BY <2>1 DEF RequestInv
    <3>2. CASE request[p].conflict = None
      <4>1. [cause |-> None, claims |-> request[p].claims] \in ViolationType
        BY <3>1 DEF RequestType, ViolationType, Causes
      <4>2. RecordConflict(i, p, [cause |-> None, claims |-> request[p].claims])
        BY <1>10, <3>2 DEF ResolveWrite
      <4> QED  BY <1>7, <4>1, <4>2, RecordFacts
    <3>3. CASE request[p].conflict # None
      BY <1>10, <2>1, <3>3, RecordedStay DEF ResolveWrite, RequestInv
    <3> QED  BY <3>2, <3>3
  <2>4. /\ resolutions'[i].by = p
        /\ \A j \in ConflictIds \ {i} : resolutions'[j] = resolutions[j]
    BY <1>10 DEF ResolveWrite, TypeInv
  <2>5. RequestInv'
    <3> SUFFICES ASSUME NEW q \in Curators, pc'[q] \in {"resolutions", "write"}
                 PROVE  /\ request'[q] \in RequestType
                        /\ request'[q].conflict # None => request'[q].conflict \in Recorded'
      BY DEF RequestInv
    <3>1. q # p
      BY <2>1
    <3>2. pc'[q] = pc[q] /\ request'[q] = request[q]
      BY <2>1, <3>1, <1>7
    <3> QED  BY <2>3, <3>2 DEF RequestInv
  <2>6. \A q \in Calls : \A other \in ended'[q] : pc'[other] \in {"done", "failed"}
    BY <1>7, <2>2, EndedStep
  <2>7. ASSUME NEW j \in ConflictIds, resolutions'[j] # None
        PROVE  /\ j \in Recorded' /\ resolutions'[j].by \in Curators
               /\ pc'[resolutions'[j].by] = "done"
    <3>1. CASE j = i
      BY <2>1, <2>3, <2>4, <3>1
    <3>2. CASE j # i
      <4>1. /\ j \in Recorded /\ resolutions[j].by \in Curators /\ pc[resolutions[j].by] = "done"
        BY <2>4, <2>7, <3>2 DEF ResolutionInv
      <4> QED  BY <1>7, <2>1, <2>3, <2>4, <3>2, <4>1
    <3> QED  BY <3>1, <3>2
  <2>8. ASSUME NEW q \in Curators, NEW j \in ConflictIds,
               pc'[q] = "write", request'[q].conflict = j, j # None, resolutions'[j] # None
        PROVE  resolutions'[j].by \notin ended'[q]
    <3>1. q # p
      BY <2>1, <2>8
    <3>2. pc'[q] = pc[q] /\ request'[q] = request[q] /\ ended'[q] = ended[q]
      BY <1>7, <2>1, <3>1
    <3>3. CASE j = i
      BY <1>7, <2>1, <2>4, <3>2, <3>3 DEF ResolutionInv
    <3>4. CASE j # i
      BY <2>4, <2>8, <3>2, <3>4 DEF ResolutionInv
    <3> QED  BY <3>3, <3>4
  <2> QED  BY <2>5, <2>6, <2>7, <2>8 DEF ResolutionInv
<1> QED  BY <1>2, <1>3, <1>4, <1>5, <1>6, <1>8, <1>9, <1>10 DEF Next

-----------------------------------------------------------------------------
(* The theorems.                                                           *)

Inv == TypeInv /\ RequestInv /\ DetectionInv /\ ResolutionInv

(* All four hold in every state: each is inductive with the types and     *)
(* requests.                                                               *)
THEOREM InvHolds == Spec => []Inv
<1>1. Init => Inv
  <2> SUFFICES ASSUME Init PROVE RequestInv /\ DetectionInv /\ ResolutionInv
    BY TypeInit DEF Inv
  <2>1. \A p \in Calls : pc[p] = "new" /\ ended[p] = {}
    BY DEF Init
  <2>2. RequestInv
    BY <2>1 DEF RequestInv, Calls
  <2>3. DetectionInv
    BY DEF Init, DetectionInv
  <2>4. ResolutionInv
    BY <2>1 DEF Init, ResolutionInv, Calls
  <2> QED  BY <2>2, <2>3, <2>4
<1>2. Inv /\ [Next]_vars => Inv'
  BY TypeStep, DetectionStep, ResolutionStep DEF Inv
<1> QED  BY <1>1, <1>2, PTL DEF Spec

(* When a detection has ended, each violation it found is on record under  *)
(* its subject, whoever recorded it and whatever else was recorded.        *)
THEOREM FoundIsRecorded == Spec => []AllFoundIsRecorded
<1>1. Inv => AllFoundIsRecorded
  BY DEF Inv, DetectionInv, AllFoundIsRecorded
<1> QED  BY <1>1, InvHolds, PTL

(* A curator never replaces the resolution of one that had ended when it   *)
(* began: only two that are at it at the same time can overwrite.          *)
THEOREM ResolvedForGood == Spec => ResolutionsStand
<1>1. Inv /\ [Next]_vars =>
        [\A i \in ConflictIds :
           resolutions[i] # None /\ resolutions'[i] # resolutions[i] =>
             resolutions[i].by \notin ended[resolutions'[i].by]]_vars
  <2> SUFFICES ASSUME Inv, Next, NEW i \in ConflictIds,
                      resolutions[i] # None, resolutions'[i] # resolutions[i]
               PROVE  resolutions[i].by \notin ended[resolutions'[i].by]
    BY DEF vars
  <2>1. PICK p \in Curators, j \in ConflictIds : ResolveWrite(p, j)
    <3>1. ~UNCHANGED resolutions
      OBVIOUS
    <3>2. ASSUME NEW p \in Detectors,
                 \/ DetectReadEvents(p) \/ DetectReadConflicts(p)
                 \/ \E n \in Namespaces : DetectReadClaims(p, n)
                 \/ \E v \in ToRecord(p), c \in ConflictIds : DetectPersist(p, v, c)
          PROVE  UNCHANGED resolutions
      BY <3>2, DetectorMoves DEF Inv
    <3> QED  BY <3>1, <3>2 DEF Next, AssertClaim, MergeOrRevert, Fail, ResolveReadConflicts, Resolve,
                               ResolveReadResolutions, store
  <2>2. j = i /\ resolutions'[i].by = p /\ pc[p] = "write"
    BY <2>1 DEF ResolveWrite, Inv, TypeInv
  <2>3. i \in Recorded
    BY DEF Inv, ResolutionInv
  <2>4. request[p].conflict = i /\ i # None
    BY <2>1, <2>2, <2>3 DEF ResolveWrite, RecordConflict
  <2> QED  BY <2>2, <2>4 DEF Inv, ResolutionInv
<1> QED  BY <1>1, InvHolds, PTL DEF Spec, ResolutionsStand

-----------------------------------------------------------------------------
(* What a detector finds in the claims of a subject, at any moment.        *)

FiniteSetsOf(S, family) == family # {} /\ \A s \in family : s \subseteq S /\ IsFiniteSet(s)

(* Of some finite sets one contains no other; this stands in for the       *)
(* induction that the provers cannot do.                                   *)
LEMMA SmallestSet ==
  ASSUME NEW S, NEW family, FiniteSetsOf(S, family)
  PROVE  \E s \in family : \A other \in family : other \subseteq s => other = s
<1>1. family \subseteq FiniteSubsetsOf(S)
  BY DEF FiniteSubsetsOf, FiniteSetsOf
<1>2. PICK s \in family : \A other \in family : ~(<<other, s>> \in StrictSubsetOrdering(S))
  BY <1>1, FS_StrictSubsetOrderingWellFounded, WFMin DEF FiniteSetsOf
<1>3. ASSUME NEW other \in family, other \subseteq s, other # s PROVE FALSE
  <2>1. <<other, s>> \in StrictSubsetOrdering(S)
    BY <1>1, <1>3 DEF StrictSubsetOrdering, FiniteSubsetsOf
  <2> QED BY <1>2, <2>1
<1> QED BY <1>3

LEMMA LeastNumber ==
  ASSUME NEW some \in SUBSET Nat, some # {}
  PROVE  \E n \in some : \A m \in some : n <= m
<1> DEFINE family == {0..n : n \in some}
<1>1. ASSUME NEW n \in some PROVE 0..n \subseteq Nat /\ IsFiniteSet(0..n)
  <2>1. n \in Int /\ 0 \in Int
    OBVIOUS
  <2> QED BY <2>1, FS_Interval
<1>2. FiniteSetsOf(Nat, family)
  BY <1>1 DEF FiniteSetsOf
<1>3. PICK s \in family : \A other \in family : other \subseteq s => other = s
  <2> HIDE DEF family
  <2> QED BY <1>2, SmallestSet
<1>4. PICK n \in some : s = 0..n
  OBVIOUS
<1>5. ASSUME NEW m \in some, m < n PROVE FALSE
  <2>1. 0..m \in family /\ 0..m \subseteq 0..n /\ n \in 0..n /\ n \notin 0..m
    BY <1>5
  <2> HIDE DEF family
  <2> QED BY <1>3, <1>4, <2>1
<1> QED BY <1>5

(* Of some sets of claims one that contains a given one is in no other.    *)
LEMMA LargestSet ==
  ASSUME NEW sets \in SUBSET (SUBSET Claims), NEW some \in sets
  PROVE  \E s \in sets : some \subseteq s /\ \A other \in sets : s \subseteq other => other = s
<1> DEFINE family == {Claims \ s : s \in {t \in sets : some \subseteq t}}
<1>1. FiniteSetsOf(Claims, family)
  <2>1. \A s : IsFiniteSet(Claims \ s)
    BY ConflictsAssumption, FS_Difference
  <2>2. ASSUME NEW s \in family PROVE s \subseteq Claims /\ IsFiniteSet(s)
    BY <2>1
  <2>3. Claims \ some \in family
    OBVIOUS
  <2> HIDE DEF family
  <2> QED BY <2>2, <2>3 DEF FiniteSetsOf
<1>2. PICK least \in family : \A other \in family : other \subseteq least => other = least
  <2> HIDE DEF family
  <2> QED BY <1>1, SmallestSet
<1>3. PICK s \in sets : least = Claims \ s /\ some \subseteq s
  OBVIOUS
<1>4. ASSUME NEW other \in sets, s \subseteq other PROVE other = s
  <2>1. Claims \ other \in family /\ Claims \ other \subseteq least
    BY <1>3, <1>4
  <2>2. Claims \ other = Claims \ s
    <3> HIDE DEF family
    <3> QED BY <1>2, <1>3, <2>1
  <2> QED BY <2>2
<1> QED BY <1>3, <1>4

(* The last of some claims to begin.                                       *)
LEMMA LastToBegin ==
  ASSUME NEW some \in SUBSET Claims, some # {}
  PROVE  \E c \in some : \A d \in some : From[d] <= From[c]
<1> DEFINE Later(c) == {d \in some : From[d] >= From[c]}
           family == {Later(c) : c \in some}
<1>1. From \in [Claims -> Nat]
  BY ConflictsAssumption
<1>2. FiniteSetsOf(Claims, family)
  <2>1. \A c : Later(c) \in SUBSET Claims
    OBVIOUS
  <2>2. \A c : IsFiniteSet(Later(c))
    BY <2>1, ConflictsAssumption, FS_Subset
  <2> HIDE DEF Later
  <2> QED BY <2>1, <2>2 DEF FiniteSetsOf
<1>3. PICK least \in family : \A other \in family : other \subseteq least => other = least
  <2> HIDE DEF family
  <2> QED BY <1>2, SmallestSet
<1>4. PICK c \in some : least = Later(c)
  OBVIOUS
<1>5. ASSUME NEW d \in some, From[d] > From[c] PROVE FALSE
  <2>1. From[c] \in Nat /\ From[d] \in Nat
    BY <1>1
  <2>2. Later(d) \subseteq Later(c)
    <3>1. ASSUME NEW e \in some, From[e] >= From[d] PROVE From[e] >= From[c]
      <4>1. From[e] \in Nat
        BY <1>1
      <4> QED BY <1>5, <2>1, <3>1, <4>1
    <3> QED BY <3>1
  <2>3. c \in Later(c) /\ c \notin Later(d)
    BY <1>5, <2>1
  <2>4. Later(d) = least
    <3>1. Later(d) \in family
      OBVIOUS
    <3> HIDE DEF family, Later
    <3> QED BY <1>3, <1>4, <2>2, <3>1
  <2> QED BY <1>4, <2>3, <2>4
<1>6. ASSUME NEW d \in some PROVE From[d] <= From[c]
  <2>1. From[c] \in Nat /\ From[d] \in Nat
    BY <1>1
  <2> QED BY <1>5, <2>1
<1> QED BY <1>6

(* Every value is stated by one of the representatives, and by one only,   *)
(* so there are as many of them as values.                                 *)
LEMMA EveryValueIsRepresented ==
  ASSUME NEW some \in SUBSET Claims, NEW isMerged
  PROVE  /\ Values(some, isMerged) = Values(Representatives(some, isMerged), isMerged)
         /\ IsFiniteSet(Values(some, isMerged))
         /\ Cardinality(Values(some, isMerged)) <= Cardinality(Representatives(some, isMerged))
         /\ IsFiniteSet(Representatives(some, isMerged))
<1> DEFINE Value(c) == Canonical(isMerged, Object[c])
           chosen == Representatives(some, isMerged)
           value == [c \in chosen |-> Value(c)]
<1>1. chosen \subseteq some /\ chosen \in SUBSET Claims
  BY DEF Representatives
<1>2. Values(some, isMerged) \subseteq Values(chosen, isMerged)
  <2> SUFFICES ASSUME NEW c \in some PROVE \E r \in chosen : Value(r) = Value(c)
    BY DEF Values
  <2> DEFINE same == {d \in some : Value(d) = Value(c)}
  <2>1. same \in SUBSET Nat /\ same # {}
    BY ConflictsAssumption
  <2>2. PICK r \in same : \A d \in same : r <= d
    <3> HIDE DEF same
    <3> QED BY <2>1, LeastNumber
  <2>3. r \in some /\ Value(r) = Value(c) /\ \A d \in some : Value(d) = Value(r) => r <= d
    BY <2>2
  <2> QED BY <2>3 DEF Representatives
<1>3. Values(chosen, isMerged) = Values(some, isMerged)
  BY <1>1, <1>2 DEF Values
<1>4. IsFiniteSet(chosen)
  BY <1>1, ConflictsAssumption, FS_Subset
<1>5. value \in Surjection(chosen, Values(chosen, isMerged))
  BY DEF Surjection, Values
<1>6. /\ IsFiniteSet(Values(chosen, isMerged))
      /\ Cardinality(Values(chosen, isMerged)) <= Cardinality(chosen)
  <2> HIDE DEF value, chosen
  <2> QED BY <1>4, <1>5, FS_Surjection
<1> QED BY <1>3, <1>4, <1>6

(* A set of claims that states more values than allowed is in a violation: *)
(* at the moment the last of its claims began all of them were valid.      *)
LEMMA ViolationsAreFound ==
  ASSUME NEW claims \in SUBSET Claims, NEW isMerged, NEW n \in Namespaces, NEW s, NEW t \in Nat,
         Cardinality(Values(ActiveAt(Group(claims, isMerged, n, s), t), isMerged)) > Max
  PROVE  \E v \in Violations(claims, isMerged, n) :
           /\ v.cause = s
           /\ Values(ActiveAt(Group(claims, isMerged, n, s), t), isMerged) \subseteq Values(v.claims, isMerged)
<1>1. PICK group, active, values :
        /\ group = Group(claims, isMerged, n, s) /\ active = ActiveAt(group, t)
        /\ values = Values(active, isMerged)
  OBVIOUS
<1>2. group \in SUBSET Claims /\ active \in SUBSET Claims /\ active \subseteq group
  BY <1>1 DEF Group, ActiveAt
<1>3. Max \in Nat /\ Cardinality(values) > Max
  BY <1>1, ConflictsAssumption
<1>4. active # {}
  <2> SUFFICES ASSUME active = {} PROVE FALSE
    OBVIOUS
  <2>1. values = {}
    BY <1>1 DEF Values
  <2> QED BY <1>3, <2>1, FS_EmptySet
<1>5. PICK c \in active : \A d \in active : From[d] <= From[c]
  BY <1>2, <1>4, LastToBegin
<1>6. c \in group /\ c \in Claims
  BY <1>2
<1>7. PICK valid : valid = ActiveAt(group, From[c])
  OBVIOUS
<1>8. valid \in SUBSET Claims /\ active \subseteq valid
  <2>1. ASSUME NEW d \in active PROVE From[d] <= From[c] /\ From[c] < To[d]
    <3>1. From[c] \in Nat /\ To[d] \in Nat /\ From[c] <= t /\ t < To[d]
      BY <1>1, <1>2, ConflictsAssumption DEF ActiveAt
    <3> QED BY <1>5, <3>1
  <2> QED BY <1>2, <1>7, <2>1 DEF ActiveAt
<1>9. PICK chosen : chosen = Representatives(valid, isMerged)
  OBVIOUS
<1>10. /\ Values(valid, isMerged) = Values(chosen, isMerged) /\ IsFiniteSet(Values(valid, isMerged))
       /\ Cardinality(Values(valid, isMerged)) <= Cardinality(chosen) /\ IsFiniteSet(chosen)
  BY <1>8, <1>9, EveryValueIsRepresented
<1>11. values \in SUBSET Values(valid, isMerged)
  BY <1>1, <1>8 DEF Values
<1>12. Cardinality(chosen) > Max
  <2>1. Cardinality(values) <= Cardinality(Values(valid, isMerged)) /\ IsFiniteSet(values)
    BY <1>10, <1>11, FS_Subset
  <2>2. Cardinality(values) \in Nat /\ Cardinality(Values(valid, isMerged)) \in Nat /\ Cardinality(chosen) \in Nat
    BY <1>10, <2>1, FS_CardinalityType
  <2> QED BY <1>3, <1>10, <2>1, <2>2
<1>13. PICK violating :
         violating = {r \in {Representatives(ActiveAt(group, From[d]), isMerged) : d \in group} : Cardinality(r) > Max}
  OBVIOUS
<1>14. chosen \in violating
  BY <1>6, <1>7, <1>9, <1>12, <1>13
<1>15. violating \in SUBSET (SUBSET Claims)
  <2>1. \A d : Representatives(ActiveAt(group, From[d]), isMerged) \subseteq group
    BY DEF Representatives, ActiveAt
  <2> QED BY <1>2, <1>13, <2>1
<1>16. PICK largest \in violating : chosen \subseteq largest
                                    /\ \A other \in violating : largest \subseteq other => other = largest
  BY <1>14, <1>15, LargestSet
<1>17. largest \in MaximalViolatingSets(group, isMerged)
  BY <1>13, <1>16 DEF MaximalViolatingSets
<1>18. s \in {Canonical(isMerged, Subject[d]) : d \in claims}
  BY <1>1, <1>6 DEF Group
<1>19. PICK v : v = [cause |-> s, claims |-> largest]
  OBVIOUS
<1>20. v \in Violations(claims, isMerged, n)
  BY <1>1, <1>17, <1>18, <1>19 DEF Violations
<1>21. values \subseteq Values(largest, isMerged)
  BY <1>10, <1>11, <1>16 DEF Values
<1> QED BY <1>1, <1>19, <1>20, <1>21

(* The sets a detector looks at, those of the claims valid when one of     *)
(* them begins, leave out no violation at any other time, for any claims,  *)
(* intervals and limit, and whatever is merged.                            *)
THEOREM ViolationsNotMissed == Spec => []NoViolationIsMissed
<1>1. Inv => NoViolationIsMissed
  <2> SUFFICES ASSUME Inv, NEW n \in Namespaces, NEW s \in {Subject[c] : c \in Claims}, NEW t \in Times,
                      Cardinality(Values(ActiveAt(Group(stored, merged.now, n, s), t), merged.now)) > Max
               PROVE  \E v \in Violations(stored, merged.now, n) :
                        /\ v.cause = s
                        /\ Values(ActiveAt(Group(stored, merged.now, n, s), t), merged.now)
                             \subseteq Values(v.claims, merged.now)
    BY DEF NoViolationIsMissed
  <2>1. stored \in SUBSET Claims
    BY DEF Inv, TypeInv
  <2>2. t \in Nat
    BY ConflictsAssumption DEF Times
  <2>3. PICK claims, isMerged : claims = stored /\ isMerged = merged.now
    OBVIOUS
  <2> QED BY <2>1, <2>2, <2>3, ViolationsAreFound
<1> QED BY <1>1, InvHolds, PTL
=============================================================================
