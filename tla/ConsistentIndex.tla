--------------------------- MODULE ConsistentIndex ---------------------------
(***************************************************************************)
(* What an eventually consistent index promises its readers. The truth     *)
(* about each key changes elsewhere; the index may lag behind, but it      *)
(* knows for which keys: an entry that is not dirty is exact.              *)
(***************************************************************************)
CONSTANTS
  Keys,
  Values,
  Absent   \* the value of a key that is not there

VARIABLES
  truth,   \* the current value of each key
  dirty,   \* keys whose entry may be out of date
  index    \* the value the index shows

vars == <<truth, dirty, index>>

Init ==
  /\ truth = [k \in Keys |-> Absent]
  /\ dirty = {}
  /\ index = [k \in Keys |-> Absent]

(* Some keys change, and at least these become dirty.                      *)
Change ==
  /\ truth' \in [Keys -> Values]
  /\ dirty' \in SUBSET Keys
  /\ dirty \subseteq dirty'
  /\ \A k \in Keys : truth'[k] # truth[k] => k \in dirty'
  /\ UNCHANGED index

(* Entries are rewritten or dropped. Whatever is not dirty afterwards is   *)
(* exact.                                                                  *)
Refresh ==
  /\ index' \in [Keys -> Values]
  /\ dirty' \in SUBSET Keys
  /\ \A k \in Keys \ dirty' : index'[k] = truth[k]
  /\ UNCHANGED truth

(* The refresh that leaves nothing dirty.                                  *)
CatchUp ==
  /\ dirty # {}
  /\ index' = truth
  /\ dirty' = {}
  /\ UNCHANGED truth

Next == Change \/ Refresh

Spec == Init /\ [][Next]_vars

FairSpec == Spec /\ WF_vars(CatchUp)

=============================================================================
