---------------------------- MODULE ServingGate ----------------------------
(***************************************************************************)
(* The gate in front of the retrieval projection: it decides, search by    *)
(* search, whether the projection or canonical storage answers, under a    *)
(* rollout policy and behind a circuit breaker (the rollback) that sends   *)
(* everything to canonical storage after too many consecutive errors.      *)
(*                                                                         *)
(* Searches run concurrently in one process. A step is what runs between   *)
(* two awaits: a search reads the mode when it starts, then awaits the     *)
(* projection's status, then awaits the answer of one store or of both.    *)
(* The projection and canonical storage are the environment: each call     *)
(* returns or throws.                                                      *)
(***************************************************************************)
EXTENDS Integers, Sequences, FiniteSets

CONSTANTS
  Searches,              \* calls of search(), each made once
  After,                 \* the searches whose results a search is made from
  Historical,            \* searches with a knownAt: the projection refuses them
  Sampled,               \* searches whose sample is below canaryPercent
  Modes,                 \* the policy modes to consider
  MaxConsecutiveErrors,
  MaxResets              \* bound on calls of resetRollback

ASSUME GateAssumption ==
  /\ After \in [Searches -> SUBSET Searches]
  /\ Historical \subseteq Searches
  /\ Sampled \subseteq Searches
  /\ Modes \subseteq {"disabled", "shadow", "canary", "enabled"}
  /\ MaxConsecutiveErrors \in Nat \ {0}
  /\ MaxResets \in Nat

VARIABLES
  policyMode,                   \* policy.mode, fixed when the gate is made
  rollbackActive,
  consecutiveProjectionErrors,
  counts,                       \* the other counters of the metrics
  pc,                           \* what each search awaits
  mode,                         \* the mode it read when it started
  ready,                        \* the ready of the snapshot it awaited
  answer,                       \* who answered it
  probe,                        \* the health or metrics probe in progress
  snapshot,                     \* what the last probe reported
  results,                      \* outcomes of projection searches since the last reset
  resets                        \* number of resets

breaker == <<rollbackActive, consecutiveProjectionErrors, results>>
local == <<mode, ready, answer>>
probing == <<probe, snapshot>>
vars == <<policyMode, rollbackActive, consecutiveProjectionErrors, counts, pc, mode, ready,
          answer, probe, snapshot, results, resets>>

Counters == {"projectionSearches", "projectionServedSearches", "canonicalSearches",
             "canonicalFallbacks", "projectionErrors", "shadowComparisons"}

(* The counters after adding one to each of a set of them.                 *)
Count(these) == counts' = [k \in Counters |-> IF k \in these THEN counts[k] + 1 ELSE counts[k]]

effectiveMode == IF rollbackActive THEN "disabled" ELSE policyMode

NoSnapshot == [effectiveMode |-> "disabled", rollbackActive |-> FALSE, servingReady |-> TRUE]

NoResults == <<>>

Init ==
  /\ policyMode \in Modes
  /\ rollbackActive = FALSE
  /\ consecutiveProjectionErrors = 0
  /\ counts = [k \in Counters |-> 0]
  /\ pc = [s \in Searches |-> "new"]
  /\ mode = [s \in Searches |-> "disabled"]
  /\ ready = [s \in Searches |-> FALSE]
  /\ answer = [s \in Searches |-> "none"]
  /\ probe = "none"
  /\ snapshot = NoSnapshot
  /\ results = NoResults
  /\ resets = 0

-----------------------------------------------------------------------------
(* A search.                                                               *)

Await(s, what) == pc' = [pc EXCEPT ![s] = what]

Answered(s, source) ==
  /\ Await(s, "answered")
  /\ answer' = [answer EXCEPT ![s] = source]

(* retrieve makes the lexical and the vector search together, and the      *)
(* graph search from the claims they find.                                 *)
MayStart(s) == pc[s] = "new" /\ \A t \in After[s] : pc[t] = "answered"

StartDisabled(s) ==
  /\ MayStart(s)
  /\ effectiveMode = "disabled"
  /\ Count(IF rollbackActive THEN {"canonicalFallbacks"} ELSE {})
  /\ Await(s, "canonical")
  /\ UNCHANGED <<policyMode, breaker, local, probing, resets>>

Start(s) ==
  /\ MayStart(s)
  /\ effectiveMode # "disabled"
  /\ mode' = [mode EXCEPT ![s] = effectiveMode]
  /\ Await(s, "status")
  /\ UNCHANGED <<policyMode, breaker, counts, ready, answer, probing, resets>>

(* Mutant: a sampled canary search does not wait for the projection.       *)
WantsSampledAnyway(s, isReady) ==
  CASE mode[s] = "shadow" -> "shadowCanonical"
    [] mode[s] = "canary" -> IF s \in Sampled THEN "projection" ELSE "canonical"
    [] mode[s] # "shadow" /\ mode[s] # "canary" /\ ~isReady -> "canonical"
    [] OTHER -> "projection"

(* What a search does with the ready of the snapshot. A status that throws *)
(* gives a snapshot that is not ready.                                     *)
Wants(s, isReady) ==
  CASE mode[s] = "shadow" -> "shadowCanonical"
    [] mode[s] # "shadow" /\ ~isReady -> "canonical"
    [] mode[s] = "canary" /\ isReady /\ s \notin Sampled -> "canonical"
    [] OTHER -> "projection"

StatusReturns(s, isReady) ==
  /\ pc[s] = "status"
  /\ ready' = [ready EXCEPT ![s] = isReady]
  /\ Count(IF mode[s] # "shadow" /\ ~isReady THEN {"canonicalFallbacks"} ELSE {})
  /\ Await(s, Wants(s, isReady))
  /\ UNCHANGED <<policyMode, breaker, mode, answer, probing, resets>>

CanonicalReturns(s) ==
  /\ pc[s] \in {"canonical", "shadowCanonical"}
  /\ Count({"canonicalSearches"})
  /\ IF pc[s] = "shadowCanonical" /\ ready[s]
     THEN Await(s, "shadowProjection") /\ UNCHANGED answer
     ELSE Answered(s, "canonical")
  /\ UNCHANGED <<policyMode, breaker, mode, ready, probing, resets>>

CanonicalThrows(s) ==
  /\ pc[s] \in {"canonical", "shadowCanonical"}
  /\ Count({"canonicalSearches"})
  /\ Await(s, "failed")
  /\ UNCHANGED <<policyMode, breaker, local, probing, resets>>

(* Mutant: a success ends the rollback.                                    *)
RecordSuccessEndsRollback ==
  /\ consecutiveProjectionErrors' = 0
  /\ results' = Append(results, "ok")
  /\ rollbackActive' = FALSE

(* runProjection after a success, and after an error.                      *)
RecordSuccess ==
  /\ consecutiveProjectionErrors' = 0
  /\ results' = Append(results, "ok")
  /\ UNCHANGED rollbackActive

(* Mutant: one error more.                                                 *)
RecordErrorOneMore ==
  /\ consecutiveProjectionErrors' = consecutiveProjectionErrors + 1
  /\ results' = Append(results, "error")
  /\ rollbackActive' =
       (rollbackActive \/ consecutiveProjectionErrors + 1 > MaxConsecutiveErrors)

RecordError ==
  /\ consecutiveProjectionErrors' = consecutiveProjectionErrors + 1
  /\ results' = Append(results, "error")
  /\ rollbackActive' =
       (rollbackActive \/ consecutiveProjectionErrors + 1 >= MaxConsecutiveErrors)

ProjectionReturns(s) ==
  /\ s \notin Historical
  /\ RecordSuccess
  /\ \/ /\ pc[s] = "projection"
        /\ Count({"projectionSearches", "projectionServedSearches"})
        /\ Answered(s, "projection")
     \/ /\ pc[s] = "shadowProjection"
        /\ Count({"projectionSearches", "shadowComparisons"})
        /\ Answered(s, "canonical")
  /\ UNCHANGED <<policyMode, mode, ready, probing, resets>>

(* Mutant: an error is not counted as a fallback.                          *)
ProjectionThrowsUncounted(s) ==
  /\ RecordError
  /\ \/ /\ pc[s] = "projection"
        /\ Count({"projectionErrors"})
        /\ Await(s, "canonical")
        /\ UNCHANGED answer
     \/ /\ pc[s] = "shadowProjection"
        /\ Count({"projectionErrors"})
        /\ Answered(s, "canonical")
  /\ UNCHANGED <<policyMode, mode, ready, probing, resets>>

ProjectionThrows(s) ==
  /\ RecordError
  /\ \/ /\ pc[s] = "projection"
        /\ Count({"projectionErrors", "canonicalFallbacks"})
        /\ Await(s, "canonical")
        /\ UNCHANGED answer
     \/ /\ pc[s] = "shadowProjection"
        /\ Count({"projectionErrors"})
        /\ Answered(s, "canonical")
  /\ UNCHANGED <<policyMode, mode, ready, probing, resets>>

-----------------------------------------------------------------------------
resetRollback ==
  /\ resets < MaxResets
  /\ resets' = resets + 1
  /\ rollbackActive' = FALSE
  /\ consecutiveProjectionErrors' = 0
  /\ results' = NoResults
  /\ UNCHANGED <<policyMode, counts, pc, local, probing>>

(* status() for the health, readiness and metrics endpoints: the mode is   *)
(* read before the await, the rest after it.                               *)
StartProbe ==
  /\ probe = "none"
  /\ probe' = effectiveMode
  /\ UNCHANGED <<policyMode, breaker, counts, pc, local, snapshot, resets>>

ProbeReturns(isReady) ==
  /\ probe # "none"
  /\ snapshot' = [effectiveMode |-> probe,
                  rollbackActive |-> rollbackActive,
                  servingReady |-> probe \in {"disabled", "shadow"} \/ isReady]
  /\ probe' = "none"
  /\ UNCHANGED <<policyMode, breaker, counts, pc, local, resets>>

SearchStep(s) ==
  \/ StartDisabled(s)
  \/ Start(s)
  \/ \E isReady \in BOOLEAN : StatusReturns(s, isReady)
  \/ CanonicalReturns(s)
  \/ CanonicalThrows(s)
  \/ ProjectionReturns(s)
  \/ ProjectionThrows(s)

Next ==
  \/ \E s \in Searches : SearchStep(s)
  \/ resetRollback
  \/ StartProbe
  \/ \E isReady \in BOOLEAN : ProbeReturns(isReady)

Spec == Init /\ [][Next]_vars

-----------------------------------------------------------------------------
SearchPc == {"new", "status", "canonical", "shadowCanonical", "projection",
             "shadowProjection", "answered", "failed"}

TypeOK ==
  /\ policyMode \in Modes
  /\ rollbackActive \in BOOLEAN
  /\ consecutiveProjectionErrors \in Nat
  /\ counts \in [Counters -> Nat]
  /\ pc \in [Searches -> SearchPc]
  /\ mode \in [Searches -> Modes \cup {"disabled"}]
  /\ ready \in [Searches -> BOOLEAN]
  /\ answer \in [Searches -> {"none", "canonical", "projection"}]
  /\ probe \in Modes \cup {"disabled", "none"}
  /\ snapshot \in [effectiveMode : Modes \cup {"disabled"}, rollbackActive : BOOLEAN,
                   servingReady : BOOLEAN]
  /\ results \in Seq({"ok", "error"})
  /\ resets \in 0..MaxResets

(* The counters tell the same story as the searches: whatever ended was    *)
(* answered by one store, once; a projection answer was served or          *)
(* compared; and with the projection enabled every search that got past    *)
(* the gate was either served by it or is counted as a fallback, whichever *)
(* of the reasons for a fallback came first.                               *)
Ended == {s \in Searches : pc[s] \in {"answered", "failed"}}
PastTheGate == Ended \cup {s \in Searches : pc[s] = "canonical"}

CountersAddUp ==
  /\ counts["canonicalSearches"] + counts["projectionServedSearches"]
       = Cardinality(Ended \cup {s \in Searches : pc[s] = "shadowProjection"})
  /\ counts["projectionSearches"]
       = counts["projectionServedSearches"] + counts["shadowComparisons"]
  /\ policyMode = "enabled" =>
       counts["projectionServedSearches"] + counts["canonicalFallbacks"] = Cardinality(PastTheGate)

(* The rollback is active exactly when the projection has failed           *)
(* MaxConsecutiveErrors times in a row since the last reset, in the order  *)
(* the results came in, and a success that comes in later does not hide    *)
(* it.                                                                     *)
ErrorRun(n) ==
  \E i \in 0..(Len(results) - n) : \A j \in 1..n : results[i + j] = "error"

RollbackMatchesHistory == rollbackActive <=> ErrorRun(MaxConsecutiveErrors)

(* Who the projection answers: a search it supports, selected by the       *)
(* policy, for which status() found it caught up.                          *)
ProjectionAnswersAreAdmitted ==
  \A s \in Searches : answer[s] = "projection" =>
    /\ ready[s]
    /\ policyMode = "enabled" \/ (policyMode = "canary" /\ s \in Sampled)
    /\ s \notin Historical

(* Between two resets the rollback holds and drains: searches already past *)
(* the mode check may still go to the projection, but no search joins      *)
(* them, whatever their results.                                           *)
Admitted ==
  {s \in Searches : pc[s] \in {"status", "shadowCanonical", "projection", "shadowProjection"}}

RollbackHoldsAndDrains ==
  [][rollbackActive /\ resets' = resets => rollbackActive' /\ Admitted' \subseteq Admitted]_vars

-----------------------------------------------------------------------------
(* What the projection asks of the gate, and what the gate does not do.    *)

(* The projection asks that historical searches use canonical retrieval;   *)
(* then they say nothing about its health, and it takes other searches to  *)
(* roll it back.                                                           *)
RollbackIsAboutSupportedSearches ==
  rollbackActive => \E s \in Searches \ Historical : pc[s] # "new"
=============================================================================
