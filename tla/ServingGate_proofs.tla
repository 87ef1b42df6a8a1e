------------------------- MODULE ServingGate_proofs -------------------------
(***************************************************************************)
(* Proofs about the serving gate, for any number of concurrent searches,   *)
(* any policy and any number of resets: its types, whom the projection     *)
(* answers, what the rollback means and that it drains, and that the       *)
(* counters add up.                                                        *)
(***************************************************************************)
EXTENDS ServingGate, FiniteSetTheorems, TLAPS

-----------------------------------------------------------------------------
(* Types.                                                                  *)

LEMMA CountType ==
  ASSUME NEW these, counts \in [Counters -> Nat], Count(these)
  PROVE  counts' \in [Counters -> Nat]
BY DEF Count

LEMMA WantsType ==
  ASSUME NEW s \in Searches, NEW isReady \in BOOLEAN
  PROVE  Wants(s, isReady) \in {"shadowCanonical", "canonical", "projection"}
BY DEF Wants

(* Every step that is not a reset leaves the results or appends to them.   *)
LEMMA ResultsType ==
  ASSUME results \in Seq({"ok", "error"}),
         RecordSuccess \/ RecordError \/ results' = results \/ results' = NoResults
  PROVE  results' \in Seq({"ok", "error"})
<1>1. ASSUME NEW r \in {"ok", "error"} PROVE Append(results, r) \in Seq({"ok", "error"})
  OBVIOUS
<1>2. NoResults \in Seq({"ok", "error"})
  BY DEF NoResults
<1> QED BY <1>1, <1>2 DEF RecordSuccess, RecordError

LEMMA InitTypes == Init => TypeOK
<1> SUFFICES ASSUME Init PROVE TypeOK
  OBVIOUS
<1>1. results \in Seq({"ok", "error"})
  BY DEF Init, NoResults
<1>2. snapshot \in [effectiveMode : Modes \cup {"disabled"}, rollbackActive : BOOLEAN,
                    servingReady : BOOLEAN]
  BY DEF Init, NoSnapshot
<1>3. /\ rollbackActive \in BOOLEAN /\ consecutiveProjectionErrors \in Nat
      /\ counts \in [Counters -> Nat]
  BY DEF Init
<1>4. /\ policyMode \in Modes
      /\ pc \in [Searches -> SearchPc] /\ mode \in [Searches -> Modes \cup {"disabled"}]
      /\ ready \in [Searches -> BOOLEAN]
      /\ answer \in [Searches -> {"none", "canonical", "projection"}]
      /\ probe \in Modes \cup {"disabled", "none"}
  BY DEF Init, SearchPc
<1>5. resets \in 0..MaxResets
  BY GateAssumption DEF Init
<1> QED BY <1>1, <1>2, <1>3, <1>4, <1>5 DEF TypeOK

LEMMA StepTypes == TypeOK /\ [Next]_vars => TypeOK'
<1> SUFFICES ASSUME TypeOK, [Next]_vars PROVE TypeOK'
  OBVIOUS
<1> USE DEF TypeOK
<1>1. ASSUME NEW s \in Searches, StartDisabled(s) PROVE TypeOK'
  BY <1>1, CountType DEF StartDisabled, Await, SearchPc, breaker, local, probing
<1>2. ASSUME NEW s \in Searches, Start(s) PROVE TypeOK'
  BY <1>2 DEF Start, Await, SearchPc, breaker, probing, effectiveMode
<1>3. ASSUME NEW s \in Searches, NEW isReady \in BOOLEAN, StatusReturns(s, isReady) PROVE TypeOK'
  BY <1>3, CountType, WantsType DEF StatusReturns, Await, SearchPc, breaker, probing
<1>4. ASSUME NEW s \in Searches, CanonicalReturns(s) PROVE TypeOK'
  BY <1>4, CountType DEF CanonicalReturns, Await, Answered, SearchPc, breaker, probing
<1>5. ASSUME NEW s \in Searches, CanonicalThrows(s) PROVE TypeOK'
  BY <1>5, CountType DEF CanonicalThrows, Await, SearchPc, breaker, local, probing
<1>6. ASSUME NEW s \in Searches, ProjectionReturns(s) PROVE TypeOK'
  <2>1. results' \in Seq({"ok", "error"})
    BY <1>6, ResultsType DEF ProjectionReturns
  <2>2. counts' \in [Counters -> Nat]
    BY <1>6, CountType DEF ProjectionReturns
  <2>3. consecutiveProjectionErrors' \in Nat /\ rollbackActive' \in BOOLEAN
    BY <1>6 DEF ProjectionReturns, RecordSuccess
  <2>4. /\ pc' \in [Searches -> SearchPc]
        /\ answer' \in [Searches -> {"none", "canonical", "projection"}]
        /\ UNCHANGED <<policyMode, mode, ready, probe, snapshot, resets>>
    BY <1>6 DEF ProjectionReturns, Await, Answered, probing, SearchPc
  <2> QED BY <2>1, <2>2, <2>3, <2>4
<1>7. ASSUME NEW s \in Searches, ProjectionThrows(s) PROVE TypeOK'
  <2>1. results' \in Seq({"ok", "error"})
    BY <1>7, ResultsType DEF ProjectionThrows
  <2>2. counts' \in [Counters -> Nat]
    BY <1>7, CountType DEF ProjectionThrows
  <2>3. consecutiveProjectionErrors' \in Nat /\ rollbackActive' \in BOOLEAN
    BY <1>7 DEF ProjectionThrows, RecordError
  <2>4. /\ pc' \in [Searches -> SearchPc]
        /\ answer' \in [Searches -> {"none", "canonical", "projection"}]
        /\ UNCHANGED <<policyMode, mode, ready, probe, snapshot, resets>>
    BY <1>7 DEF ProjectionThrows, Await, Answered, probing, SearchPc
  <2> QED BY <2>1, <2>2, <2>3, <2>4
<1>8. CASE resetRollback
  <2>1. results' \in Seq({"ok", "error"})
    BY <1>8, ResultsType DEF resetRollback
  <2>2. /\ rollbackActive' \in BOOLEAN /\ consecutiveProjectionErrors' \in Nat
        /\ UNCHANGED <<policyMode, counts, pc, mode, ready, answer, probe, snapshot>>
    BY <1>8 DEF resetRollback, local, probing
  <2>3. resets' \in 0..MaxResets
    BY <1>8, GateAssumption DEF resetRollback
  <2> QED BY <2>1, <2>2, <2>3
<1>9. CASE StartProbe
  BY <1>9 DEF StartProbe, breaker, local, effectiveMode
<1>10. ASSUME NEW isReady \in BOOLEAN, ProbeReturns(isReady) PROVE TypeOK'
  BY <1>10 DEF ProbeReturns, breaker, local
<1>11. CASE UNCHANGED vars
  BY <1>11 DEF vars
<1> QED
  BY <1>1, <1>2, <1>3, <1>4, <1>5, <1>6, <1>7, <1>8, <1>9, <1>10, <1>11 DEF Next, SearchStep

(* The variables keep their types.                                         *)
THEOREM TypeCorrect == Spec => []TypeOK
BY InitTypes, StepTypes, PTL DEF Spec

-----------------------------------------------------------------------------
(* Whom the projection answers. A search keeps the mode it read while the  *)
(* rollback may change under it, so what it is about to do is tied to the  *)
(* policy through its own mode and snapshot.                               *)
SearchKnows(s) ==
  /\ pc[s] \in {"status", "shadowCanonical", "projection", "shadowProjection"} =>
       mode[s] = policyMode /\ mode[s] # "disabled"
  /\ pc[s] = "projection" =>
       ready[s] /\ mode[s] # "shadow" /\ (mode[s] = "canary" => s \in Sampled)
  /\ answer[s] = "projection" =>
       /\ pc[s] = "answered"
       /\ ready[s]
       /\ policyMode = "enabled" \/ (policyMode = "canary" /\ s \in Sampled)
       /\ s \notin Historical

AdmissionInv == \A s \in Searches : SearchKnows(s)

LEMMA AdmissionStep == TypeOK /\ AdmissionInv /\ [Next]_vars => AdmissionInv'
<1> SUFFICES ASSUME TypeOK, AdmissionInv, [Next]_vars, NEW t \in Searches PROVE SearchKnows(t)'
  BY DEF AdmissionInv
<1> USE DEF TypeOK, AdmissionInv, SearchKnows
<1>1. ASSUME NEW s \in Searches, StartDisabled(s) PROVE SearchKnows(t)'
  BY <1>1 DEF StartDisabled, MayStart, Await, breaker, local, probing
<1>2. ASSUME NEW s \in Searches, Start(s) PROVE SearchKnows(t)'
  BY <1>2 DEF Start, MayStart, Await, breaker, probing, effectiveMode
<1>3. ASSUME NEW s \in Searches, NEW isReady \in BOOLEAN, StatusReturns(s, isReady)
      PROVE  SearchKnows(t)'
  BY <1>3 DEF StatusReturns, Wants, Await, breaker, probing
<1>4. ASSUME NEW s \in Searches, CanonicalReturns(s) PROVE SearchKnows(t)'
  BY <1>4 DEF CanonicalReturns, Await, Answered, breaker, probing
<1>5. ASSUME NEW s \in Searches, CanonicalThrows(s) PROVE SearchKnows(t)'
  BY <1>5 DEF CanonicalThrows, Await, breaker, local, probing
<1>6. ASSUME NEW s \in Searches, ProjectionReturns(s) PROVE SearchKnows(t)'
  <2>1. UNCHANGED <<policyMode, mode, ready>> /\ s \notin Historical
    BY <1>6 DEF ProjectionReturns
  <2>2. CASE pc[s] = "projection" /\ Answered(s, "projection")
    <3>1. policyMode \in {"disabled", "shadow", "canary", "enabled"}
      BY GateAssumption
    <3>2. SearchKnows(s)'
      BY <2>1, <2>2, <3>1 DEF Await, Answered
    <3>3. CASE t # s
      BY <2>1, <2>2, <3>3 DEF Await, Answered
    <3> QED BY <3>2, <3>3
  <2>3. CASE Answered(s, "canonical")
    BY <2>1, <2>3 DEF Await, Answered
  <2> QED BY <1>6, <2>2, <2>3 DEF ProjectionReturns
<1>7. ASSUME NEW s \in Searches, ProjectionThrows(s) PROVE SearchKnows(t)'
  BY <1>7 DEF ProjectionThrows, Await, Answered, probing
<1>8. CASE resetRollback \/ StartProbe \/ (\E isReady \in BOOLEAN : ProbeReturns(isReady))
           \/ UNCHANGED vars
  <2>1. UNCHANGED <<policyMode, pc, mode, ready, answer>>
    BY <1>8 DEF resetRollback, StartProbe, ProbeReturns, local, vars
  <2> QED BY <2>1
<1> QED BY <1>1, <1>2, <1>3, <1>4, <1>5, <1>6, <1>7, <1>8 DEF Next, SearchStep

(* Only a search the projection supports, which the policy selects and for *)
(* which status() found the projection caught up, is answered by it, even  *)
(* if the rollback comes and goes while the search is under way.           *)
THEOREM AdmissionHolds == Spec => []ProjectionAnswersAreAdmitted
<1>1. Init => AdmissionInv
  BY DEF Init, AdmissionInv, SearchKnows
<1>2. AdmissionInv => ProjectionAnswersAreAdmitted
  BY DEF AdmissionInv, SearchKnows, ProjectionAnswersAreAdmitted
<1> QED BY <1>1, <1>2, AdmissionStep, TypeCorrect, PTL DEF Spec

-----------------------------------------------------------------------------
(* The rollback holds and drains.                                          *)

LEMMA DrainStep ==
  ASSUME TypeOK, Next, rollbackActive, resets' = resets
  PROVE  rollbackActive' /\ Admitted' \subseteq Admitted
<1> USE DEF TypeOK, Admitted
<1>1. ASSUME NEW s \in Searches, StartDisabled(s) \/ CanonicalThrows(s)
      PROVE  rollbackActive' /\ Admitted' \subseteq Admitted
  BY <1>1 DEF StartDisabled, CanonicalThrows, Await, breaker
<1>2. ASSUME NEW s \in Searches, Start(s) PROVE FALSE
  BY <1>2 DEF Start, effectiveMode
<1>3. ASSUME NEW s \in Searches, NEW isReady \in BOOLEAN, StatusReturns(s, isReady)
      PROVE  rollbackActive' /\ Admitted' \subseteq Admitted
  BY <1>3 DEF StatusReturns, Await, breaker
<1>4. ASSUME NEW s \in Searches, CanonicalReturns(s)
      PROVE  rollbackActive' /\ Admitted' \subseteq Admitted
  BY <1>4 DEF CanonicalReturns, Await, Answered, breaker
<1>5. ASSUME NEW s \in Searches, ProjectionReturns(s) \/ ProjectionThrows(s)
      PROVE  rollbackActive' /\ Admitted' \subseteq Admitted
  BY <1>5 DEF ProjectionReturns, ProjectionThrows, RecordSuccess, RecordError, Await, Answered
<1>6. ASSUME resetRollback PROVE FALSE
  BY <1>6 DEF resetRollback
<1>7. ASSUME StartProbe \/ (\E isReady \in BOOLEAN : ProbeReturns(isReady))
      PROVE  rollbackActive' /\ Admitted' \subseteq Admitted
  BY <1>7 DEF StartProbe, ProbeReturns, breaker
<1> QED BY <1>1, <1>2, <1>3, <1>4, <1>5, <1>6, <1>7 DEF Next, SearchStep

(* Between two resets the rollback stays, and the searches that may still  *)
(* reach the projection only get fewer.                                    *)
THEOREM RollbackDrains == Spec => RollbackHoldsAndDrains
<1>1. TypeOK /\ [Next]_vars
        => [rollbackActive /\ resets' = resets
              => rollbackActive' /\ Admitted' \subseteq Admitted]_vars
  BY DrainStep
<1> QED BY <1>1, TypeCorrect, PTL DEF Spec, RollbackHoldsAndDrains

-----------------------------------------------------------------------------
(* What the rollback means. The counter is the length of the run of errors *)
(* the results end with; so the counter reaches its limit exactly when     *)
(* such a run first gets that long.                                        *)
EndsWithErrors(n) ==
  /\ n \in 0..Len(results)
  /\ \A j \in 1..Len(results) : j > Len(results) - n => results[j] = "error"
  /\ n < Len(results) => results[Len(results) - n] = "ok"

HistoryInv == EndsWithErrors(consecutiveProjectionErrors) /\ RollbackMatchesHistory

LEMMA AppendFacts ==
  ASSUME results \in Seq({"ok", "error"}), NEW r \in {"ok", "error"},
         results' = Append(results, r)
  PROVE  /\ Len(results) \in Nat
         /\ Len(results') = Len(results) + 1
         /\ \A j \in 1..Len(results) : results'[j] = results[j]
         /\ results'[Len(results) + 1] = r
OBVIOUS

(* A run of errors of the new results that is not one of the old results   *)
(* ends with the new result.                                               *)
LEMMA RunAfterAppend ==
  ASSUME results \in Seq({"ok", "error"}), NEW r \in {"ok", "error"},
         results' = Append(results, r), NEW n \in Nat \ {0}
  PROVE  ErrorRun(n)' <=>
           \/ ErrorRun(n)
           \/ /\ n <= Len(results) + 1
              /\ \A j \in 1..n : results'[Len(results) + 1 - n + j] = "error"
<1> DEFINE len == Len(results)
<1>1. /\ len \in Nat /\ Len(results') = len + 1
      /\ \A j \in 1..len : results'[j] = results[j]
  BY AppendFacts
<1>0. ErrorRun(n)' <=> \E i \in 0..((len + 1) - n) : \A j \in 1..n : results'[i + j] = "error"
  BY <1>1 DEF ErrorRun
<1>2. ASSUME ErrorRun(n) PROVE ErrorRun(n)'
  <2>1. PICK i \in 0..(len - n) : \A j \in 1..n : results[i + j] = "error"
    BY <1>2 DEF ErrorRun
  <2>2. \A j \in 1..n : i + j \in 1..len
    BY <1>1
  <2>3. i \in 0..((len + 1) - n) /\ \A j \in 1..n : results'[i + j] = "error"
    BY <1>1, <2>1, <2>2
  <2> QED BY <1>0, <2>3
<1>3. ASSUME n <= len + 1, \A j \in 1..n : results'[len + 1 - n + j] = "error"
      PROVE  ErrorRun(n)'
  <2>1. len + 1 - n \in 0..((len + 1) - n)
    BY <1>1, <1>3
  <2> QED BY <1>0, <1>3, <2>1
<1>4. ASSUME ErrorRun(n)'
      PROVE  \/ ErrorRun(n)
             \/ n <= len + 1 /\ \A j \in 1..n : results'[len + 1 - n + j] = "error"
  <2>1. PICK i \in 0..((len + 1) - n) : \A j \in 1..n : results'[i + j] = "error"
    BY <1>0, <1>4
  <2>2. CASE i = len + 1 - n
    <3>1. n <= len + 1
      BY <1>1, <2>1, <2>2
    <3>2. \A j \in 1..n : results'[len + 1 - n + j] = "error"
      BY <2>1, <2>2
    <3> QED BY <3>1, <3>2
  <2>3. CASE i # len + 1 - n
    <3>1. i \in 0..(len - n) /\ \A j \in 1..n : i + j \in 1..len
      BY <1>1, <2>1, <2>3
    <3>2. \A j \in 1..n : results[i + j] = "error"
      BY <1>1, <2>1, <3>1
    <3> QED BY <3>1, <3>2 DEF ErrorRun
  <2> QED BY <2>2, <2>3
<1> QED BY <1>2, <1>3, <1>4

LEMMA SuccessHistory ==
  ASSUME TypeOK, HistoryInv, RecordSuccess
  PROVE  HistoryInv'
<1> DEFINE len == Len(results)
           max == MaxConsecutiveErrors
<1>1. /\ results' = Append(results, "ok") /\ results \in Seq({"ok", "error"})
      /\ max \in Nat \ {0}
  BY GateAssumption DEF RecordSuccess, TypeOK
<1>2. len \in Nat /\ Len(results') = len + 1 /\ results'[len + 1] = "ok"
  BY <1>1, AppendFacts
<1>3. EndsWithErrors(consecutiveProjectionErrors)'
  BY <1>2 DEF RecordSuccess, EndsWithErrors
<1>4. ~(\A j \in 1..max : results'[len + 1 - max + j] = "error")
  <2>1. max \in 1..max /\ len + 1 - max + max = len + 1
    BY <1>1, <1>2
  <2> QED BY <1>2, <2>1
<1>5. ErrorRun(max)' <=> ErrorRun(max)
  BY <1>1, <1>4, RunAfterAppend
<1> QED BY <1>3, <1>5 DEF RecordSuccess, HistoryInv, RollbackMatchesHistory

LEMMA ErrorHistory ==
  ASSUME TypeOK, HistoryInv, RecordError
  PROVE  HistoryInv'
<1> DEFINE len == Len(results)
           max == MaxConsecutiveErrors
           n == consecutiveProjectionErrors
<1>1. /\ results' = Append(results, "error") /\ results \in Seq({"ok", "error"})
      /\ max \in Nat \ {0} /\ n \in Nat /\ n' = n + 1
  BY GateAssumption DEF RecordError, TypeOK
<1>2. /\ len \in Nat /\ Len(results') = len + 1 /\ results'[len + 1] = "error"
      /\ \A j \in 1..len : results'[j] = results[j]
  BY <1>1, AppendFacts
<1>3. /\ n <= len /\ (n < len => results[len - n] = "ok")
      /\ \A j \in 1..len : j > len - n => results[j] = "error"
  BY <1>2 DEF HistoryInv, EndsWithErrors
<1>4. EndsWithErrors(n)'
  <2>1. n' \in 0..(len + 1)
    BY <1>1, <1>2, <1>3
  <2>2. \A j \in 1..(len + 1) : j > (len + 1) - n' => results'[j] = "error"
    BY <1>1, <1>2, <1>3
  <2>3. n' < len + 1 => results'[(len + 1) - n'] = "ok"
    BY <1>1, <1>2, <1>3
  <2> QED BY <1>2, <2>1, <2>2, <2>3 DEF EndsWithErrors
<1>5. (max <= len + 1 /\ \A j \in 1..max : results'[len + 1 - max + j] = "error")
        <=> n + 1 >= max
  <2>1. ASSUME n + 1 >= max
        PROVE  max <= len + 1 /\ \A j \in 1..max : results'[len + 1 - max + j] = "error"
    <3>1. max <= len + 1
      BY <1>1, <1>2, <1>3, <2>1
    <3>2. ASSUME NEW j \in 1..max PROVE results'[len + 1 - max + j] = "error"
      <4>1. len + 1 - max + j \in 1..(len + 1) /\ len + 1 - max + j > len - n
        BY <1>1, <1>2, <2>1, <3>1, <3>2
      <4> QED BY <1>2, <1>3, <4>1
    <3> QED BY <3>1, <3>2
  <2>2. ASSUME n + 1 < max, max <= len + 1
        PROVE  \E j \in 1..max : results'[len + 1 - max + j] # "error"
    <3>1. /\ (max - 1) - n \in 1..max
          /\ len + 1 - max + ((max - 1) - n) = len - n
          /\ len - n \in 1..len /\ n < len
      BY <1>1, <1>2, <1>3, <2>2
    <3> QED BY <1>2, <1>3, <3>1
  <2>3. n + 1 >= max \/ n + 1 < max
    BY <1>1
  <2> QED BY <2>1, <2>2, <2>3
<1>6. ErrorRun(max)' <=> ErrorRun(max) \/ n + 1 >= max
  BY <1>1, <1>5, RunAfterAppend
<1> QED BY <1>4, <1>6 DEF RecordError, HistoryInv, RollbackMatchesHistory

LEMMA ResetHistory ==
  ASSUME results = NoResults, rollbackActive = FALSE, consecutiveProjectionErrors = 0
  PROVE  HistoryInv
<1>1. Len(results) = 0
  BY DEF NoResults
<1>2. ~ErrorRun(MaxConsecutiveErrors)
  BY <1>1, GateAssumption DEF ErrorRun
<1>3. EndsWithErrors(0)
  BY <1>1 DEF EndsWithErrors
<1> QED BY <1>2, <1>3 DEF HistoryInv, RollbackMatchesHistory

LEMMA HistoryStep == TypeOK /\ HistoryInv /\ [Next]_vars => HistoryInv'
<1> SUFFICES ASSUME TypeOK, HistoryInv, [Next]_vars PROVE HistoryInv'
  OBVIOUS
<1>1. CASE UNCHANGED breaker
  BY <1>1 DEF breaker, HistoryInv, EndsWithErrors, RollbackMatchesHistory, ErrorRun
<1>2. CASE RecordSuccess
  BY <1>2, SuccessHistory
<1>3. CASE RecordError
  BY <1>3, ErrorHistory
<1>4. CASE resetRollback
  <2>1. results' = NoResults /\ rollbackActive' = FALSE /\ consecutiveProjectionErrors' = 0
    BY <1>4 DEF resetRollback
  <2>2. Len(results') = 0
    BY <2>1 DEF NoResults
  <2>3. ~ErrorRun(MaxConsecutiveErrors)'
    BY <2>2, GateAssumption DEF ErrorRun
  <2>4. EndsWithErrors(consecutiveProjectionErrors)'
    BY <2>1, <2>2 DEF EndsWithErrors
  <2> QED BY <2>1, <2>3, <2>4 DEF HistoryInv, RollbackMatchesHistory
<1> QED
  BY <1>1, <1>2, <1>3, <1>4
     DEF Next, SearchStep, StartDisabled, Start, StatusReturns, CanonicalReturns, CanonicalThrows,
         ProjectionReturns, ProjectionThrows, StartProbe, ProbeReturns, breaker, vars

(* The rollback is active exactly when, since the last reset, the          *)
(* projection failed MaxConsecutiveErrors times in a row, in the order the *)
(* concurrent results came in.                                             *)
THEOREM RollbackMeansErrorRun == Spec => []RollbackMatchesHistory
<1>1. Init => HistoryInv
  BY ResetHistory DEF Init
<1>2. HistoryInv => RollbackMatchesHistory
  BY DEF HistoryInv
<1> QED BY <1>1, <1>2, HistoryStep, TypeCorrect, PTL DEF Spec

-----------------------------------------------------------------------------
(* The counters. A search that compares has the mode "shadow", and only    *)
(* finitely many searches have begun, so those that are counted can be.    *)

Compared == Ended \cup {s \in Searches : pc[s] = "shadowProjection"}

CountingInv ==
  /\ \A s \in Searches : pc[s] \in {"shadowCanonical", "shadowProjection"} => mode[s] = "shadow"
  /\ IsFiniteSet({s \in Searches : pc[s] # "new"})
  /\ CountersAddUp

LEMMA Counted ==
  ASSUME CountingInv
  PROVE  /\ IsFiniteSet(Compared) /\ IsFiniteSet(PastTheGate)
         /\ Cardinality(Compared) \in Nat /\ Cardinality(PastTheGate) \in Nat
         /\ \A s : s \notin Compared => Cardinality(Compared \cup {s}) = Cardinality(Compared) + 1
         /\ \A s : s \notin PastTheGate =>
              Cardinality(PastTheGate \cup {s}) = Cardinality(PastTheGate) + 1
<1>1. /\ Compared \subseteq {s \in Searches : pc[s] # "new"}
      /\ PastTheGate \subseteq {s \in Searches : pc[s] # "new"}
  BY DEF Compared, PastTheGate, Ended
<1>2. IsFiniteSet(Compared) /\ IsFiniteSet(PastTheGate)
  BY <1>1, FS_Subset DEF CountingInv
<1> QED  BY <1>2, FS_CardinalityType, FS_AddElement

(* A step of a search that begins, or goes on.                             *)
LEMMA BegunFinite ==
  ASSUME TypeOK, CountingInv, NEW s \in Searches, NEW what, Await(s, what)
  PROVE  IsFiniteSet({t \in Searches : pc'[t] # "new"})
<1>1. {t \in Searches : pc'[t] # "new"} \subseteq {t \in Searches : pc[t] # "new"} \cup {s}
  BY DEF TypeOK, Await
<1>2. IsFiniteSet({t \in Searches : pc[t] # "new"} \cup {s})
  BY FS_AddElement DEF CountingInv
<1> QED  BY <1>1, <1>2, FS_Subset

(* How the counted searches change when one goes from a place to another.  *)
LEMMA CountedMoves ==
  ASSUME TypeOK, NEW s \in Searches, NEW what \in SearchPc, Await(s, what), pc[s] # what
  PROVE  /\ Compared' = IF what \in {"answered", "failed", "shadowProjection"}
                        THEN Compared \cup {s} ELSE Compared \ {s}
         /\ PastTheGate' = IF what \in {"answered", "failed", "canonical"}
                           THEN PastTheGate \cup {s} ELSE PastTheGate \ {s}
         /\ s \in Compared <=> pc[s] \in {"answered", "failed", "shadowProjection"}
         /\ s \in PastTheGate <=> pc[s] \in {"answered", "failed", "canonical"}
BY DEF TypeOK, Await, SearchPc, Compared, PastTheGate, Ended

LEMMA CountsByOne ==
  ASSUME NEW these \in SUBSET Counters, Count(these), NEW k \in Counters
  PROVE  counts'[k] = IF k \in these THEN counts[k] + 1 ELSE counts[k]
BY DEF Count

LEMMA CountingStep == TypeOK /\ AdmissionInv /\ CountingInv /\ [Next]_vars => CountingInv'
<1> SUFFICES ASSUME TypeOK, AdmissionInv, CountingInv, [Next]_vars PROVE CountingInv'
  OBVIOUS
<1> DEFINE canonical == counts["canonicalSearches"]
           served == counts["projectionServedSearches"]
           searched == counts["projectionSearches"]
           compared == counts["shadowComparisons"]
           fallbacks == counts["canonicalFallbacks"]
<1>1. /\ canonical \in Nat /\ served \in Nat /\ searched \in Nat /\ compared \in Nat
      /\ fallbacks \in Nat
  BY DEF TypeOK, Counters
<1>2. /\ canonical + served = Cardinality(Compared)
      /\ searched = served + compared
      /\ policyMode = "enabled" => served + fallbacks = Cardinality(PastTheGate)
  BY DEF CountingInv, CountersAddUp, Compared
<1>3. /\ Cardinality(Compared) \in Nat /\ Cardinality(PastTheGate) \in Nat
      /\ \A s : s \notin Compared => Cardinality(Compared \cup {s}) = Cardinality(Compared) + 1
      /\ \A s : s \notin PastTheGate =>
           Cardinality(PastTheGate \cup {s}) = Cardinality(PastTheGate) + 1
  BY Counted
<1>4. ASSUME canonical' + served' = Cardinality(Compared'),
             searched' = served' + compared',
             policyMode' = "enabled" => served' + fallbacks' = Cardinality(PastTheGate')
      PROVE  CountersAddUp'
  BY <1>4 DEF CountersAddUp, Compared
<1>5. ASSUME NEW s \in Searches, StartDisabled(s) PROVE CountingInv'
  <2>1. /\ Await(s, "canonical") /\ pc[s] = "new" /\ UNCHANGED <<policyMode, mode>>
        /\ policyMode = "enabled" => rollbackActive
        /\ Count(IF rollbackActive THEN {"canonicalFallbacks"} ELSE {})
    BY <1>5 DEF StartDisabled, MayStart, effectiveMode, local
  <2>2. /\ UNCHANGED <<canonical, served, searched, compared>>
        /\ policyMode = "enabled" => fallbacks' = fallbacks + 1
    BY <2>1, CountsByOne DEF Counters
  <2>3. Compared' = Compared /\ PastTheGate' = PastTheGate \cup {s} /\ s \notin PastTheGate
    BY <2>1, CountedMoves DEF SearchPc
  <2>4. CountersAddUp'
    <3> HIDE DEF canonical, served, searched, compared, fallbacks
    <3> QED  BY <1>1, <1>2, <1>3, <1>4, <2>1, <2>2, <2>3
  <2>5. \A t \in Searches : pc'[t] \in {"shadowCanonical", "shadowProjection"} => mode'[t] = "shadow"
    BY <2>1 DEF CountingInv, Await, TypeOK
  <2> QED  BY <2>1, <2>4, <2>5, BegunFinite DEF CountingInv
<1>6. ASSUME NEW s \in Searches, Start(s) PROVE CountingInv'
  <2>1. /\ Await(s, "status") /\ pc[s] = "new" /\ UNCHANGED <<policyMode, counts>>
        /\ \A t \in Searches \ {s} : mode'[t] = mode[t]
    BY <1>6 DEF Start, MayStart, TypeOK
  <2>2. Compared' = Compared /\ PastTheGate' = PastTheGate
    BY <2>1, CountedMoves DEF SearchPc
  <2>3. CountersAddUp'
    <3> HIDE DEF canonical, served, searched, compared, fallbacks
    <3>1. UNCHANGED <<canonical, served, searched, compared, fallbacks>>
      BY <2>1 DEF canonical, served, searched, compared, fallbacks
    <3> QED  BY <1>1, <1>2, <1>3, <1>4, <2>1, <2>2, <3>1
  <2>4. \A t \in Searches : pc'[t] \in {"shadowCanonical", "shadowProjection"} => mode'[t] = "shadow"
    BY <2>1 DEF CountingInv, Await, TypeOK
  <2> QED  BY <2>1, <2>3, <2>4, BegunFinite DEF CountingInv
<1>7. ASSUME NEW s \in Searches, NEW isReady \in BOOLEAN, StatusReturns(s, isReady)
      PROVE  CountingInv'
  <2>1. /\ Await(s, Wants(s, isReady)) /\ pc[s] = "status" /\ UNCHANGED <<policyMode, mode>>
        /\ Count(IF mode[s] # "shadow" /\ ~isReady THEN {"canonicalFallbacks"} ELSE {})
        /\ mode[s] = policyMode
    BY <1>7 DEF StatusReturns, AdmissionInv, SearchKnows
  <2>2. /\ UNCHANGED <<canonical, served, searched, compared>>
        /\ policyMode = "enabled" => fallbacks' = IF isReady THEN fallbacks ELSE fallbacks + 1
    BY <2>1, CountsByOne DEF Counters
  <2>3. /\ Wants(s, isReady) \in {"shadowCanonical", "canonical", "projection"}
        /\ Wants(s, isReady) = "shadowCanonical" => mode[s] = "shadow"
        /\ policyMode = "enabled" =>
             Wants(s, isReady) = IF isReady THEN "projection" ELSE "canonical"
    BY <2>1 DEF Wants
  <2>4. /\ Compared' = Compared
        /\ PastTheGate' = IF Wants(s, isReady) = "canonical" THEN PastTheGate \cup {s}
                          ELSE PastTheGate
        /\ s \notin PastTheGate
    BY <2>1, <2>3, CountedMoves DEF SearchPc
  <2>5. CountersAddUp'
    <3> HIDE DEF canonical, served, searched, compared, fallbacks
    <3> QED  BY <1>1, <1>2, <1>3, <1>4, <2>1, <2>2, <2>3, <2>4
  <2>6. \A t \in Searches : pc'[t] \in {"shadowCanonical", "shadowProjection"} => mode'[t] = "shadow"
    BY <2>1, <2>3 DEF CountingInv, Await, TypeOK
  <2> QED  BY <2>1, <2>5, <2>6, BegunFinite DEF CountingInv
<1>8. ASSUME NEW s \in Searches, CanonicalReturns(s) \/ CanonicalThrows(s) PROVE CountingInv'
  <2>1. PICK what \in {"answered", "failed", "shadowProjection"} :
             /\ Await(s, what)
             /\ what = "shadowProjection" => pc[s] = "shadowCanonical"
    BY <1>8 DEF CanonicalReturns, CanonicalThrows, Answered
  <2>2. /\ pc[s] \in {"canonical", "shadowCanonical"} /\ UNCHANGED <<policyMode, mode>>
        /\ Count({"canonicalSearches"})
    BY <1>8 DEF CanonicalReturns, CanonicalThrows, local
  <2>3. UNCHANGED <<served, searched, compared, fallbacks>> /\ canonical' = canonical + 1
    BY <2>2, CountsByOne DEF Counters
  <2>4. pc[s] = "shadowCanonical" => mode[s] = "shadow" /\ policyMode # "enabled"
    BY DEF CountingInv, AdmissionInv, SearchKnows
  <2>5. /\ Compared' = Compared \cup {s} /\ s \notin Compared
        /\ policyMode = "enabled" => PastTheGate' = PastTheGate
    BY <2>1, <2>2, <2>4, CountedMoves DEF SearchPc
  <2>6. CountersAddUp'
    <3> HIDE DEF canonical, served, searched, compared, fallbacks
    <3> QED  BY <1>1, <1>2, <1>3, <1>4, <2>2, <2>3, <2>5
  <2>7. \A t \in Searches : pc'[t] \in {"shadowCanonical", "shadowProjection"} => mode'[t] = "shadow"
    BY <2>1, <2>2, <2>4 DEF CountingInv, Await, TypeOK
  <2> QED  BY <2>1, <2>6, <2>7, BegunFinite DEF CountingInv
<1>9. ASSUME NEW s \in Searches, ProjectionReturns(s) PROVE CountingInv'
  <2>1. Await(s, "answered") /\ UNCHANGED <<policyMode, mode>>
    BY <1>9 DEF ProjectionReturns, Answered
  <2>2. \/ pc[s] = "projection" /\ Count({"projectionSearches", "projectionServedSearches"})
        \/ pc[s] = "shadowProjection" /\ Count({"projectionSearches", "shadowComparisons"})
    BY <1>9 DEF ProjectionReturns
  <2>3. pc[s] = "shadowProjection" => policyMode # "enabled"
    BY DEF CountingInv, AdmissionInv, SearchKnows
  <2>4. CountersAddUp'
    <3>1. CASE pc[s] = "projection"
      <4>1. /\ UNCHANGED <<canonical, compared, fallbacks>>
            /\ served' = served + 1 /\ searched' = searched + 1
        BY <2>2, <3>1, CountsByOne DEF Counters
      <4>2. /\ Compared' = Compared \cup {s} /\ s \notin Compared
            /\ PastTheGate' = PastTheGate \cup {s} /\ s \notin PastTheGate
        BY <2>1, <3>1, CountedMoves DEF SearchPc
      <4> HIDE DEF canonical, served, searched, compared, fallbacks
      <4> QED  BY <1>1, <1>2, <1>3, <1>4, <2>1, <4>1, <4>2
    <3>2. CASE pc[s] = "shadowProjection"
      <4>1. /\ UNCHANGED <<canonical, served, fallbacks>>
            /\ compared' = compared + 1 /\ searched' = searched + 1
        BY <2>2, <3>2, CountsByOne DEF Counters
      <4>2. Compared' = Compared
        BY <2>1, <3>2, CountedMoves DEF SearchPc
      <4> HIDE DEF canonical, served, searched, compared, fallbacks
      <4> QED  BY <1>1, <1>2, <1>3, <1>4, <2>1, <2>3, <3>2, <4>1, <4>2
    <3> QED  BY <2>2, <3>1, <3>2
  <2>5. \A t \in Searches : pc'[t] \in {"shadowCanonical", "shadowProjection"} => mode'[t] = "shadow"
    BY <2>1 DEF CountingInv, Await, TypeOK
  <2> QED  BY <2>1, <2>4, <2>5, BegunFinite DEF CountingInv
<1>10. ASSUME NEW s \in Searches, ProjectionThrows(s) PROVE CountingInv'
  <2>1. /\ UNCHANGED <<policyMode, mode>>
        /\ \/ /\ pc[s] = "projection" /\ Await(s, "canonical")
              /\ Count({"projectionErrors", "canonicalFallbacks"})
           \/ /\ pc[s] = "shadowProjection" /\ Await(s, "answered")
              /\ Count({"projectionErrors"})
    BY <1>10 DEF ProjectionThrows, Answered
  <2>2. pc[s] = "shadowProjection" => policyMode # "enabled"
    BY DEF CountingInv, AdmissionInv, SearchKnows
  <2>3. CountersAddUp'
    <3>1. CASE pc[s] = "projection"
      <4>1. UNCHANGED <<canonical, served, searched, compared>> /\ fallbacks' = fallbacks + 1
        BY <2>1, <3>1, CountsByOne DEF Counters
      <4>2. /\ Compared' = Compared
            /\ PastTheGate' = PastTheGate \cup {s} /\ s \notin PastTheGate
        BY <2>1, <3>1, CountedMoves DEF SearchPc
      <4> HIDE DEF canonical, served, searched, compared, fallbacks
      <4> QED  BY <1>1, <1>2, <1>3, <1>4, <2>1, <4>1, <4>2
    <3>2. CASE pc[s] = "shadowProjection"
      <4>1. UNCHANGED <<canonical, served, searched, compared, fallbacks>>
        BY <2>1, <3>2, CountsByOne DEF Counters
      <4>2. Compared' = Compared
        BY <2>1, <3>2, CountedMoves DEF SearchPc
      <4> HIDE DEF canonical, served, searched, compared, fallbacks
      <4> QED  BY <1>1, <1>2, <1>3, <1>4, <2>1, <2>2, <3>2, <4>1, <4>2
    <3> QED  BY <2>1, <3>1, <3>2
  <2>4. \A t \in Searches : pc'[t] \in {"shadowCanonical", "shadowProjection"} => mode'[t] = "shadow"
    BY <2>1 DEF CountingInv, Await, TypeOK
  <2> QED  BY <2>1, <2>3, <2>4, BegunFinite DEF CountingInv
<1>11. CASE resetRollback \/ StartProbe \/ (\E isReady \in BOOLEAN : ProbeReturns(isReady))
            \/ UNCHANGED vars
  <2>1. UNCHANGED <<policyMode, pc, mode, counts>>
    BY <1>11 DEF resetRollback, StartProbe, ProbeReturns, local, vars
  <2> QED  BY <2>1 DEF CountingInv, CountersAddUp, PastTheGate, Ended
<1> QED  BY <1>5, <1>6, <1>7, <1>8, <1>9, <1>10, <1>11 DEF Next, SearchStep

(* However many searches run concurrently, and however often the rollback  *)
(* comes and goes under them: a search that ended was answered by one      *)
(* store and counted once, what the projection answered was served or      *)
(* compared, and with the projection enabled a search that got past the    *)
(* gate was served by it or is counted as a fallback, once.                *)
THEOREM CountersTellTheStory == Spec => []CountersAddUp
<1>1. Init => CountingInv
  <2> SUFFICES ASSUME Init PROVE CountingInv
    OBVIOUS
  <2>1. {s \in Searches : pc[s] # "new"} = {} /\ Compared = {} /\ PastTheGate = {}
    BY DEF Init, Compared, PastTheGate, Ended
  <2>2. Cardinality({}) = 0 /\ IsFiniteSet({})
    BY FS_EmptySet
  <2>3. CountersAddUp
    BY <2>1, <2>2 DEF Init, CountersAddUp, Counters, Compared
  <2> QED  BY <2>1, <2>2, <2>3 DEF Init, CountingInv
<1>2. Init => AdmissionInv
  BY DEF Init, AdmissionInv, SearchKnows
<1>3. CountingInv => CountersAddUp
  BY DEF CountingInv
<1> QED  BY <1>1, <1>2, <1>3, CountingStep, AdmissionStep, TypeCorrect, PTL DEF Spec
=============================================================================
