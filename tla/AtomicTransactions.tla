------------------------- MODULE AtomicTransactions -------------------------
(***************************************************************************)
(* What callers of a store's transactions rely on: the writes of a call    *)
(* become visible together or never, and a call that was answered got the  *)
(* answer that is true.                                                    *)
(***************************************************************************)
CONSTANTS
  Calls,
  Writes   \* the writes of each call

VARIABLES
  outcome,  \* of each call: pending, committed or aborted
  visible,  \* the writes a reader of the store sees
  answer    \* what each call was told: nothing yet, ok or failed

vars == <<outcome, visible, answer>>

Init ==
  /\ outcome = [p \in Calls |-> "pending"]
  /\ visible = {}
  /\ answer = [p \in Calls |-> "none"]

Commit(p) ==
  /\ outcome[p] = "pending"
  /\ outcome' = [outcome EXCEPT ![p] = "committed"]
  /\ visible' = visible \cup Writes[p]
  /\ answer' \in {answer, [answer EXCEPT ![p] = "ok"]}

(* Calls fail, alone or together when the process dies.                    *)
Abort(these) ==
  /\ \A p \in these : outcome[p] = "pending"
  /\ outcome' = [p \in Calls |-> IF p \in these THEN "aborted" ELSE outcome[p]]
  /\ \E told \in SUBSET these :
       answer' = [p \in Calls |-> IF p \in told THEN "failed" ELSE answer[p]]
  /\ UNCHANGED visible

Answer(p) ==
  /\ answer[p] = "none"
  /\ \/ outcome[p] = "committed" /\ answer' = [answer EXCEPT ![p] = "ok"]
     \/ outcome[p] = "aborted" /\ answer' = [answer EXCEPT ![p] = "failed"]
  /\ UNCHANGED <<outcome, visible>>

Next ==
  \/ \E p \in Calls : Commit(p) \/ Answer(p)
  \/ \E these \in SUBSET Calls : Abort(these)

Spec == Init /\ [][Next]_vars
=============================================================================
