------------------------ MODULE DecisionRecords_proofs ------------------------
(***************************************************************************)
(* That no version of a claim gets lost unless a writer overran it; that   *)
(* what a listing says as of a time was so while it was made and stays so, *)
(* but for the versions that are committed or archived out of order; that  *)
(* a replay finds all a decision was made with, and an audit all that was  *)
(* added to it: for any writers, readers, deciders, auditors and policies. *)
(*                                                                         *)
(* The invariant relates three records of the same versions: the commits   *)
(* in their order, the current row, which is the last of them, and the     *)
(* history, which holds the others unless one was overrun. What an answer  *)
(* is computed from, a row and a history read later, is then compared with *)
(* the commits (AnswerIsRight).                                            *)
(***************************************************************************)
EXTENDS DecisionRecords, WellFoundedInduction, TLAPS

VersionType == [recordedAt : Times, status : {"asserted", "retracted"}, by : Writers \cup Claims]
EntryType == [claim : Claims, version : VersionType]

(* What a writer at work holds; what it read is archived before it writes. *)
WriterInv(w) ==
  \/ writer[w] \in [pc : {"idle", "done"}]
  \/ writer[w] \in [pc : {"built"}, claim : Claims, version : VersionType]
  \/ /\ writer[w] \in [pc : {"archive", "upsert", "transaction"}, claim : Claims,
                       version : VersionType, read : VersionType \cup {None}]
     /\ writer[w].pc = "upsert" /\ writer[w].read # None =>
          \E m \in DOMAIN history[writer[w].claim] : history[writer[w].claim][m] = writer[w].read

StoreInv ==
  /\ now \in Times
  /\ rows \in [Claims -> VersionType \cup {None}]
  /\ history \in [Claims -> Seq(VersionType)]
  /\ commits \in Seq(EntryType)
  /\ DOMAIN writer = Writers
  /\ \A w \in Writers : WriterInv(w)
  /\ VersionsAreKept

LEMMA NoneIsNoVersion == None \notin VersionType
BY BitemporalAssumption DEF VersionType, Times

LEMMA VersionHasType ==
  ASSUME NEW time \in Times, NEW status \in {"asserted", "retracted"}, NEW by \in Writers \cup Claims
  PROVE  Version(time, status, by) \in VersionType
BY DEF Version, VersionType

LEMMA StoreInvInit == StoreInit => StoreInv
<1> SUFFICES ASSUME StoreInit PROVE StoreInv
  OBVIOUS
<1>1. now \in Times
  BY BitemporalAssumption DEF StoreInit, Times
<1>2. rows \in [Claims -> VersionType \cup {None}]
  BY <1>1, VersionHasType DEF StoreInit
<1>3. DOMAIN writer = Writers /\ \A w \in Writers : WriterInv(w)
  BY DEF StoreInit, WriterInv, Idle
<1>4. history \in [Claims -> Seq(VersionType)] /\ commits \in Seq(EntryType) /\ VersionsAreKept
  BY DEF StoreInit, VersionsAreKept
<1> QED  BY <1>1, <1>2, <1>3, <1>4 DEF StoreInv

-----------------------------------------------------------------------------
(* A version is archived: nothing that was archived goes.                  *)

Holds(past, version) == \E m \in DOMAIN past : past[m] = version

LEMMA AppendHolds ==
  ASSUME NEW S, NEW s \in Seq(S), NEW x \in S
  PROVE  /\ Append(s, x) \in Seq(S)
         /\ Holds(Append(s, x), x)
         /\ \A v : Holds(s, v) => Holds(Append(s, x), v)
<1>1. /\ Append(s, x) \in Seq(S)
      /\ Len(s) \in Nat /\ DOMAIN s = 1..Len(s)
      /\ DOMAIN Append(s, x) = 1..(Len(s) + 1)
      /\ Append(s, x)[Len(s) + 1] = x
      /\ \A m \in 1..Len(s) : Append(s, x)[m] = s[m]
  OBVIOUS
<1>2. Len(s) + 1 \in DOMAIN Append(s, x) /\ \A m \in DOMAIN s : m \in DOMAIN Append(s, x)
  BY <1>1
<1>3. Holds(Append(s, x), x)
  BY <1>1, <1>2 DEF Holds
<1>4. \A v : Holds(s, v) => Holds(Append(s, x), v)
  BY <1>1, <1>2 DEF Holds
<1> QED  BY <1>1, <1>3, <1>4

LEMMA ArchivedFacts ==
  ASSUME StoreInv, NEW c \in Claims, NEW version \in VersionType \cup {None},
         history' = Archived(c, version)
  PROVE  /\ history' \in [Claims -> Seq(VersionType)]
         /\ \A d \in Claims : \A v : Holds(history[d], v) => Holds(history'[d], v)
         /\ version # None => Holds(history'[c], version)
<1>1. CASE version = None
  BY <1>1 DEF Archived, StoreInv
<1>2. CASE version # None
  <2>1. history' = [history EXCEPT ![c] = Append(history[c], version)]
    BY <1>2 DEF Archived
  <2>2. history[c] \in Seq(VersionType) /\ version \in VersionType
    BY <1>2 DEF StoreInv
  <2>3. /\ Append(history[c], version) \in Seq(VersionType)
        /\ Holds(Append(history[c], version), version)
        /\ \A v : Holds(history[c], v) => Holds(Append(history[c], version), v)
    BY <2>2, AppendHolds
  <2>4. history'[c] = Append(history[c], version) /\ \A d \in Claims \ {c} : history'[d] = history[d]
    BY <2>1 DEF StoreInv
  <2>5. history' \in [Claims -> Seq(VersionType)]
    BY <2>1, <2>3 DEF StoreInv
  <2> HIDE DEF Holds
  <2> QED  BY <2>3, <2>4, <2>5
<1> QED  BY <1>1, <1>2

(* The other writers keep what they hold.                                  *)
LEMMA OtherWriters ==
  ASSUME StoreInv, NEW w \in Writers, DOMAIN writer' = Writers,
         \A v \in Writers \ {w} : writer'[v] = writer[v],
         \A d \in Claims : \A v : Holds(history[d], v) => Holds(history'[d], v),
         WriterInv(w)'
  PROVE  \A v \in Writers : WriterInv(v)'
<1> SUFFICES ASSUME NEW v \in Writers, v # w PROVE WriterInv(v)'
  OBVIOUS
<1>1. WriterInv(v) /\ writer'[v] = writer[v]
  BY DEF StoreInv
<1>2. CASE writer[v] \in [pc : {"idle", "done"}]
  BY <1>1, <1>2 DEF WriterInv
<1>3. CASE writer[v] \in [pc : {"built"}, claim : Claims, version : VersionType]
  BY <1>1, <1>3 DEF WriterInv
<1>4. CASE writer[v] \in [pc : {"archive", "upsert", "transaction"}, claim : Claims,
                         version : VersionType, read : VersionType \cup {None}]
  <2>1. writer[v].pc = "upsert" /\ writer[v].read # None =>
          Holds(history[writer[v].claim], writer[v].read)
    BY <1>1, <1>4 DEF WriterInv, Holds
  <2>2. writer[v].pc = "upsert" /\ writer[v].read # None =>
          Holds(history'[writer[v].claim], writer[v].read)
    BY <1>4, <2>1
  <2> QED  BY <1>1, <1>4, <2>2 DEF WriterInv, Holds
<1> QED  BY <1>1, <1>2, <1>3, <1>4 DEF WriterInv

(* Versions stay while they are archived and not written over.             *)
LEMMA VersionsStay ==
  ASSUME StoreInv, UNCHANGED <<rows, commits>>, overrun \subseteq overrun',
         \A d \in Claims : \A v : Holds(history[d], v) => Holds(history'[d], v)
  PROVE  VersionsAreKept'
<1> SUFFICES ASSUME NEW n \in DOMAIN commits
             PROVE  \/ commits[n].version \in overrun' \cup {rows[commits[n].claim]}
                    \/ Holds(history'[commits[n].claim], commits[n].version)
  BY DEF VersionsAreKept, Holds
<1>1. commits[n].claim \in Claims
  <2>1. commits[n] \in EntryType
    BY DEF StoreInv
  <2> QED  BY <2>1 DEF EntryType
<1>2. \/ commits[n].version \in overrun \cup {rows[commits[n].claim]}
      \/ Holds(history[commits[n].claim], commits[n].version)
  BY DEF StoreInv, VersionsAreKept, Holds
<1> QED  BY <1>1, <1>2

(* A write puts a version in the place of one that is archived or overrun. *)
LEMMA UpsertKeeps ==
  ASSUME StoreInv, NEW w \in Writers, Upsert(w), writer[w].claim \in Claims,
         writer[w].version \in VersionType, overrun \subseteq overrun',
         \A d \in Claims : \A v : Holds(history[d], v) => Holds(history'[d], v),
         rows[writer[w].claim] # None =>
           \/ rows[writer[w].claim] \in overrun'
           \/ Holds(history'[writer[w].claim], rows[writer[w].claim])
  PROVE  /\ rows' \in [Claims -> VersionType \cup {None}]
         /\ commits' \in Seq(EntryType)
         /\ VersionsAreKept'
<1> DEFINE c == writer[w].claim
           version == writer[w].version
           entry == [claim |-> c, version |-> version]
<1>1. rows' = [rows EXCEPT ![c] = version] /\ commits' = Append(commits, entry)
  BY DEF Upsert
<1>2. entry \in EntryType /\ c \in Claims /\ version \in VersionType
  BY DEF EntryType
<1> HIDE DEF c, version, entry
<1>3. rows' \in [Claims -> VersionType \cup {None}] /\ commits' \in Seq(EntryType)
  BY <1>1, <1>2 DEF StoreInv
<1>4. rows'[c] = version /\ \A d \in Claims \ {c} : rows'[d] = rows[d]
  BY <1>1, <1>2 DEF StoreInv
<1>5. /\ Len(commits) \in Nat /\ DOMAIN commits = 1..Len(commits)
      /\ DOMAIN commits' = 1..(Len(commits) + 1)
      /\ commits'[Len(commits) + 1] = entry
      /\ \A n \in 1..Len(commits) : commits'[n] = commits[n]
  BY <1>1, <1>2 DEF StoreInv
<1>6. ASSUME NEW n \in DOMAIN commits'
      PROVE  \/ commits'[n].version \in overrun' \cup {rows'[commits'[n].claim]}
             \/ Holds(history'[commits'[n].claim], commits'[n].version)
  <2>1. CASE n = Len(commits) + 1
    BY <1>4, <1>5, <2>1 DEF entry
  <2>2. CASE n # Len(commits) + 1
    <3>1. n \in DOMAIN commits /\ commits'[n] = commits[n]
      BY <1>5, <1>6, <2>2
    <3>2. commits[n].claim \in Claims /\ commits[n].version # None
      <4>1. commits[n] \in EntryType
        BY <3>1 DEF StoreInv
      <4> QED  BY <4>1, NoneIsNoVersion DEF EntryType
    <3>3. \/ commits[n].version \in overrun
          \/ commits[n].version = rows[commits[n].claim]
          \/ Holds(history[commits[n].claim], commits[n].version)
      BY <3>1 DEF StoreInv, VersionsAreKept, Holds
    <3>4. CASE commits[n].version = rows[commits[n].claim]
      <4>1. CASE commits[n].claim = c
        BY <3>1, <3>2, <3>4, <4>1 DEF c
      <4>2. CASE commits[n].claim # c
        BY <1>4, <3>1, <3>2, <3>4, <4>2
      <4> QED  BY <4>1, <4>2
    <3> QED  BY <3>1, <3>2, <3>3, <3>4
  <2> QED  BY <2>1, <2>2
<1> QED  BY <1>3, <1>6 DEF VersionsAreKept, Holds

-----------------------------------------------------------------------------
(* The steps of the store.                                                 *)

LEMMA NothingWritten ==
  ASSUME StoreInv, UNCHANGED <<now, records, writer>>
  PROVE  StoreInv'
BY DEF StoreInv, records, WriterInv, VersionsAreKept

(* A writer builds a version, reads or ends, and nothing is stored.        *)
LEMMA WriterAlone ==
  ASSUME StoreInv, NEW w \in Writers, NEW next, writer' = [writer EXCEPT ![w] = next],
         UNCHANGED <<now, rows, history, commits, overrun>>,
         \/ next \in [pc : {"idle", "done"}]
         \/ next \in [pc : {"built"}, claim : Claims, version : VersionType]
         \/ next \in [pc : {"archive", "transaction"}, claim : Claims,
                      version : VersionType, read : VersionType \cup {None}]
  PROVE  StoreInv'
<1>1. DOMAIN writer' = Writers /\ writer'[w] = next /\ \A v \in Writers \ {w} : writer'[v] = writer[v]
  BY DEF StoreInv
<1>2. WriterInv(w)'
  <2>1. CASE next \in [pc : {"archive", "transaction"}, claim : Claims,
                       version : VersionType, read : VersionType \cup {None}]
    <3>1. /\ next \in [pc : {"archive", "upsert", "transaction"}, claim : Claims,
                       version : VersionType, read : VersionType \cup {None}]
          /\ next.pc # "upsert"
      BY <2>1
    <3> QED  BY <1>1, <3>1 DEF WriterInv
  <2>2. CASE next \notin [pc : {"archive", "transaction"}, claim : Claims,
                       version : VersionType, read : VersionType \cup {None}]
    BY <1>1, <2>2 DEF WriterInv
  <2> QED  BY <2>1, <2>2
<1>3. \A v \in Writers : WriterInv(v)'
  BY <1>1, <1>2, OtherWriters
<1>4. VersionsAreKept'
  BY VersionsStay
<1> QED  BY <1>1, <1>3, <1>4 DEF StoreInv

(* A version is put, and that in its place is in the history or overrun.   *)
LEMMA WriterPuts ==
  ASSUME StoreInv, NEW w \in Writers, Upsert(w), UNCHANGED now,
         writer[w].claim \in Claims, writer[w].version \in VersionType, overrun \subseteq overrun',
         history' \in [Claims -> Seq(VersionType)],
         \A d \in Claims : \A v : Holds(history[d], v) => Holds(history'[d], v),
         rows[writer[w].claim] # None =>
           \/ rows[writer[w].claim] \in overrun'
           \/ Holds(history'[writer[w].claim], rows[writer[w].claim])
  PROVE  StoreInv'
<1>1. /\ rows' \in [Claims -> VersionType \cup {None}]
      /\ commits' \in Seq(EntryType)
      /\ VersionsAreKept'
  BY UpsertKeeps
<1>2. /\ DOMAIN writer' = Writers /\ writer'[w] = [pc |-> "done"]
      /\ \A v \in Writers \ {w} : writer'[v] = writer[v]
  BY DEF Upsert, StoreInv
<1>3. WriterInv(w)'
  BY <1>2 DEF WriterInv
<1>4. \A v \in Writers : WriterInv(v)'
  BY <1>2, <1>3, OtherWriters
<1> QED  BY <1>1, <1>2, <1>4 DEF StoreInv

LEMMA WriteStep ==
  ASSUME StoreInv, NEW w \in Writers, Write(w)
  PROVE  StoreInv'
<1>0. \A v, place : writer[w].pc = place /\ place \notin {"idle", "built", "done"} =>
        writer[w] \in [pc : {"archive", "upsert", "transaction"}, claim : Claims,
                       version : VersionType, read : VersionType \cup {None}]
  BY DEF StoreInv, WriterInv
<1>1. CASE BuildAsserted(w)
  <2>1. PICK c \in Claims : Build(w, c, "asserted")
    BY <1>1 DEF BuildAsserted
  <2>2. Version(now, "asserted", w) \in VersionType
    BY VersionHasType DEF StoreInv
  <2> QED  BY <1>1, <2>1, <2>2, WriterAlone DEF BuildAsserted, Build, records
<1>2. CASE BuildRetracted(w)
  <2>1. PICK c \in Claims : Build(w, c, "retracted")
    BY <1>2 DEF BuildRetracted
  <2>2. Version(now, "retracted", w) \in VersionType
    BY VersionHasType DEF StoreInv
  <2> QED  BY <1>2, <2>1, <2>2, WriterAlone DEF BuildRetracted, Build, records
<1>3. ASSUME writer[w].pc = "built"
      PROVE  writer[w].claim \in Claims /\ writer[w].version \in VersionType
  BY <1>3 DEF StoreInv, WriterInv
<1>4. CASE PutRead(w)
  <2>1. PICK inTransaction \in BOOLEAN :
          writer' = [writer EXCEPT ![w] =
            [pc |-> IF inTransaction THEN "transaction" ELSE "archive", claim |-> writer[w].claim,
             version |-> writer[w].version, read |-> rows[writer[w].claim]]]
    BY <1>4 DEF PutRead
  <2>2. rows[writer[w].claim] \in VersionType \cup {None}
    BY <1>3, <1>4 DEF PutRead, StoreInv
  <2> QED  BY <1>3, <1>4, <2>1, <2>2, WriterAlone DEF PutRead, records
<1>5. CASE PutArchive(w)
  <2>1. writer[w] \in [pc : {"archive", "upsert", "transaction"}, claim : Claims,
                       version : VersionType, read : VersionType \cup {None}]
    BY <1>0, <1>5 DEF PutArchive
  <2>2. /\ history' \in [Claims -> Seq(VersionType)]
        /\ \A d \in Claims : \A v : Holds(history[d], v) => Holds(history'[d], v)
        /\ writer[w].read # None => Holds(history'[writer[w].claim], writer[w].read)
    BY <1>5, <2>1, ArchivedFacts DEF PutArchive
  <2>3. /\ DOMAIN writer' = Writers /\ writer'[w] = [writer[w] EXCEPT !.pc = "upsert"]
        /\ \A v \in Writers \ {w} : writer'[v] = writer[v]
    BY <1>5 DEF PutArchive, StoreInv
  <2>4. WriterInv(w)'
    <3>1. /\ writer'[w] \in [pc : {"archive", "upsert", "transaction"}, claim : Claims,
                             version : VersionType, read : VersionType \cup {None}]
          /\ writer'[w].claim = writer[w].claim /\ writer'[w].read = writer[w].read
      BY <2>1, <2>3
    <3> QED  BY <2>2, <3>1 DEF WriterInv, Holds
  <2>5. \A v \in Writers : WriterInv(v)'
    BY <2>2, <2>3, <2>4, OtherWriters
  <2>6. VersionsAreKept'
    BY <1>5, <2>2, VersionsStay DEF PutArchive
  <2> QED  BY <1>5, <2>2, <2>3, <2>5, <2>6 DEF PutArchive, StoreInv
<1>6. CASE PutUpsert(w)
  <2>1. /\ writer[w] \in [pc : {"archive", "upsert", "transaction"}, claim : Claims,
                          version : VersionType, read : VersionType \cup {None}]
        /\ writer[w].read # None => Holds(history[writer[w].claim], writer[w].read)
    BY <1>0, <1>6 DEF PutUpsert, StoreInv, WriterInv, Holds
  <2> QED  BY <1>6, <2>1, WriterPuts DEF PutUpsert, StoreInv
<1>7. CASE PutCommit(w)
  <2>1. writer[w] \in [pc : {"archive", "upsert", "transaction"}, claim : Claims,
                       version : VersionType, read : VersionType \cup {None}]
    BY <1>0, <1>7 DEF PutCommit
  <2>2. /\ history' \in [Claims -> Seq(VersionType)]
        /\ \A d \in Claims : \A v : Holds(history[d], v) => Holds(history'[d], v)
        /\ writer[w].read # None => Holds(history'[writer[w].claim], writer[w].read)
    BY <1>7, <2>1, ArchivedFacts DEF PutCommit
  <2> QED  BY <1>7, <2>1, <2>2, WriterPuts DEF PutCommit
<1>8. CASE PutAtOnce(w)
  <2>1. rows[writer[w].claim] \in VersionType \cup {None}
    BY <1>3, <1>8 DEF PutAtOnce, StoreInv
  <2>2. /\ history' \in [Claims -> Seq(VersionType)]
        /\ \A d \in Claims : \A v : Holds(history[d], v) => Holds(history'[d], v)
        /\ rows[writer[w].claim] # None => Holds(history'[writer[w].claim], rows[writer[w].claim])
    BY <1>3, <1>8, <2>1, ArchivedFacts DEF PutAtOnce
  <2> QED  BY <1>3, <1>8, <2>2, WriterPuts DEF PutAtOnce
<1>9. CASE WriterFails(w)
  BY <1>9, WriterAlone DEF WriterFails, records
<1> QED  BY <1>1, <1>2, <1>4, <1>5, <1>6, <1>7, <1>8, <1>9 DEF Write

LEMMA StoreInvStep ==
  ASSUME StoreInv, [Next]_decisionVars
  PROVE  StoreInv'
<1>1. ASSUME NEW w \in Writers, Write(w) PROVE StoreInv'
  BY <1>1, WriteStep
<1>2. CASE Tick
  <2>1. now' \in Times
    BY <1>2, BitemporalAssumption DEF Tick, StoreInv, Times
  <2> QED  BY <1>2, <2>1 DEF Tick, StoreInv, records, WriterInv, VersionsAreKept
<1>3. CASE StoreStep
  BY <1>1, <1>2, <1>3, NothingWritten DEF StoreStep, List, ListAtOnce, ListCurrent, ListHistory
<1>4. ASSUME UNCHANGED storeVars PROVE StoreInv'
  BY <1>4, NothingWritten DEF storeVars
<1>5. ASSUME NEW a \in Auditors, Audit(a) PROVE StoreInv'
  BY <1>4, <1>5, NothingWritten
     DEF Audit, GetAuditedDecision, GetReceipt, LoadPolicies, ListEvents, ListLifecycle
<1>6. ASSUME NEW d \in Deciders, Record(d) PROVE StoreInv'
  BY <1>4, <1>6 DEF Record, Decide, Search, PutReceipt, Capture, CommitDecision, DeciderFails
<1>7. ASSUME NEW k \in Curators, Curate(k) PROVE StoreInv'
  BY <1>4, <1>7 DEF Curate, GetDecision, RelateDecision, ObserveDecisionOutcome,
     RecordPolicyException, RecordDecisionApproval, PersistLifecycleEvent, Checks
<1>8. ASSUME NEW m \in Managers, PutPolicyVersion(m) PROVE StoreInv'
  BY <1>4, <1>8 DEF PutPolicyVersion
<1> QED  BY <1>3, <1>4, <1>5, <1>6, <1>7, <1>8 DEF Next, decisionVars

-----------------------------------------------------------------------------
(* What a decision is made with. Policy versions are never removed, so     *)
(* what was selected of them stays stored.                                 *)

UniqueIds == \A policy, other \in policies : policy.id = other.id => policy = other

Kinds ==
  [pc : {"idle", "done"}]
    \cup [pc : {"search"}, request : Requests, policies : SUBSET policies]
    \cup [pc : {"receipt", "capture"}, request : Requests, policies : SUBSET policies,
          claims : SUBSET Claims, searched : Nat]
    \cup [pc : {"commit"}, request : Requests, policies : SUBSET policies,
          claims : SUBSET Claims, searched : Nat, capturedAt : Times]

DeciderInv ==
  /\ DOMAIN decider = Deciders
  /\ \A d \in Deciders :
       /\ decider[d] \in Kinds
       /\ decider[d].pc \in {"capture", "commit"} => d \in receipts
       /\ d \in DOMAIN decisions => decider[d].pc = "done"

Evaluation(policy, request) ==
  [policyId |-> Ref(policy).policyId, version |-> policy.version,
   violations |-> Violations(policy, Candidate(request))]

(* A decision has its receipt, and what it says of policies it says of     *)
(* some that are stored.                                                   *)
MadeWith(decision, made) ==
  /\ made \subseteq policies
  /\ decision.refs = {Ref(policy) : policy \in made}
  /\ decision.evaluations = {Evaluation(policy, decision.request) : policy \in made}

DecisionInv ==
  /\ DOMAIN decisions \subseteq Deciders
  /\ \A d \in DOMAIN decisions : d \in receipts /\ \E made : MadeWith(decisions[d], made)

(* What an auditor has of a decision is what was recorded of it.           *)
Replays(a) ==
  LET decision == decisions[auditor[a].decision]
  IN  /\ auditor[a].receipt
      /\ {Ref(policy) : policy \in auditor[a].policies} = decision.refs
      /\ {Evaluation(policy, decision.request) : policy \in auditor[a].policies} = decision.evaluations

AuditorInv ==
  /\ DOMAIN auditor = Auditors
  /\ \A a \in Auditors :
       /\ auditor[a].pc # "idle" => auditor[a].decision \in DOMAIN decisions
       /\ auditor[a].pc \in {"policies", "claims", "lifecycle", "done"} => auditor[a].receipt
       /\ auditor[a].pc = "lifecycle" =>
            {"pc", "decision", "receipt", "policies", "lists", "events", "left"} \subseteq DOMAIN auditor[a]
       /\ auditor[a].pc \in {"claims", "lifecycle", "done"} => Replays(a)

ReplayInv == UniqueIds /\ DeciderInv /\ DecisionInv /\ AuditorInv

LEMMA ReplayInvInit == Init => ReplayInv
<1> SUFFICES ASSUME Init PROVE ReplayInv
  OBVIOUS
<1>1. UniqueIds
  BY DecisionAssumption DEF Init, UniqueIds
<1>2. DeciderInv
  BY DEF Init, DeciderInv, Kinds, Idle
<1>3. DecisionInv
  BY DEF Init, DecisionInv
<1>4. AuditorInv
  BY DEF Init, AuditorInv, Idle
<1> QED  BY <1>1, <1>2, <1>3, <1>4 DEF ReplayInv

(* Steps that store no decision and select nothing.                        *)
LEMMA NothingDecided ==
  ASSUME ReplayInv, UNCHANGED <<policies, receipts, decisions, decider, auditor>>
  PROVE  ReplayInv'
<1>1. UniqueIds' /\ DeciderInv'
  BY DEF ReplayInv, UniqueIds, DeciderInv, Kinds
<1>2. DecisionInv'
  BY DEF ReplayInv, DecisionInv, MadeWith
<1>3. AuditorInv'
  BY DEF ReplayInv, AuditorInv, Replays
<1> QED  BY <1>1, <1>2, <1>3 DEF ReplayInv

LEMMA AddPolicy ==
  ASSUME ReplayInv, NEW m \in Managers, PutPolicyVersion(m)
  PROVE  ReplayInv'
<1>1. PICK draft \in Drafts :
        /\ \A policy \in policies : policy.id # draft.id
        /\ policies' = {policy \in policies : StorageKey(policy) # StorageKey(draft)} \cup {draft}
  BY DEF PutPolicyVersion
<1>2. policies' = policies \cup {draft}
  BY <1>1 DEF StorageKey
<1>3. UNCHANGED <<receipts, decisions, decider, auditor>>
  BY DEF PutPolicyVersion, audit
<1>4. UniqueIds'
  BY <1>1, <1>2 DEF ReplayInv, UniqueIds
<1>5. Kinds \subseteq Kinds'
  BY <1>2 DEF Kinds
<1>6. DeciderInv'
  BY <1>3, <1>5 DEF ReplayInv, DeciderInv
<1>7. DecisionInv'
  BY <1>2, <1>3 DEF ReplayInv, DecisionInv, MadeWith
<1>8. AuditorInv'
  BY <1>3 DEF ReplayInv, AuditorInv, Replays
<1> QED  BY <1>4, <1>6, <1>7, <1>8 DEF ReplayInv

(* A decider selects policies, stores the receipt or ends.                 *)
LEMMA DeciderAlone ==
  ASSUME ReplayInv, NEW d \in Deciders, NEW next \in Kinds, decider' = [decider EXCEPT ![d] = next],
         decider[d].pc # "done" \/ next.pc = "done",
         receipts \subseteq receipts', next.pc \in {"capture", "commit"} => d \in receipts',
         UNCHANGED <<policies, decisions, auditor>>
  PROVE  ReplayInv'
<1>1. /\ DOMAIN decider' = Deciders /\ decider'[d] = next
      /\ \A e \in Deciders \ {d} : decider'[e] = decider[e]
  BY DEF ReplayInv, DeciderInv
<1>2. Kinds' = Kinds
  BY DEF Kinds
<1>3. DeciderInv'
  BY <1>1, <1>2 DEF ReplayInv, DeciderInv
<1>4. DecisionInv'
  BY DEF ReplayInv, DecisionInv, MadeWith
<1>5. AuditorInv' /\ UniqueIds'
  BY DEF ReplayInv, AuditorInv, Replays, UniqueIds
<1> QED  BY <1>3, <1>4, <1>5 DEF ReplayInv

LEMMA RecordStep ==
  ASSUME StoreInv, ReplayInv, NEW d \in Deciders, Record(d)
  PROVE  ReplayInv'
<1>0. decider[d] \in Kinds
  BY DEF ReplayInv, DeciderInv
<1>1. CASE Decide(d)
  <2>1. PICK request \in Requests :
          decider' = [decider EXCEPT ![d] =
            [pc |-> "search", request |-> request,
             policies |-> SelectApplicable(policies,
               [purpose |-> request.purpose, classification |-> "internal",
                at |-> At(request.temporal)])]]
    BY <1>1 DEF Decide
  <2>2. [pc |-> "search", request |-> request,
         policies |-> SelectApplicable(policies,
           [purpose |-> request.purpose, classification |-> "internal",
            at |-> At(request.temporal)])] \in Kinds
    BY DEF SelectApplicable, Kinds
  <2> QED  BY <1>1, <2>1, <2>2, DeciderAlone DEF Decide, audit
<1>2. CASE Search(d)
  <2>1. decider[d] \in [pc : {"search"}, request : Requests, policies : SUBSET policies]
    BY <1>0, <1>2 DEF Search, Kinds
  <2>2. Len(commits) \in Nat
    BY DEF StoreInv
  <2>3. [pc |-> "receipt", request |-> decider[d].request, policies |-> decider[d].policies,
         claims |-> {c \in Claims : AsOf(c, decider[d].request.temporal) # None},
         searched |-> Len(commits)] \in Kinds
    BY <2>1, <2>2 DEF Kinds
  <2> QED  BY <1>2, <2>3, DeciderAlone DEF Search, audit
<1>3. CASE PutReceipt(d)
  <2>1. decider[d] \in [pc : {"receipt", "capture"}, request : Requests, policies : SUBSET policies,
                        claims : SUBSET Claims, searched : Nat]
    BY <1>0, <1>3 DEF PutReceipt, Kinds
  <2>2. [decider[d] EXCEPT !.pc = "capture"] \in Kinds
    BY <2>1 DEF Kinds
  <2>3. decider' = [decider EXCEPT ![d] = [decider[d] EXCEPT !.pc = "capture"]]
    BY <1>3 DEF PutReceipt
  <2> QED  BY <1>3, <2>2, <2>3, DeciderAlone DEF PutReceipt, audit
<1>4. CASE Capture(d)
  <2>1. /\ decider[d] \in [pc : {"receipt", "capture"}, request : Requests, policies : SUBSET policies,
                           claims : SUBSET Claims, searched : Nat]
        /\ d \in receipts
    BY <1>0, <1>4 DEF Capture, Kinds, ReplayInv, DeciderInv
  <2>2. [pc |-> "commit", request |-> decider[d].request, policies |-> decider[d].policies,
         claims |-> decider[d].claims, searched |-> decider[d].searched, capturedAt |-> now] \in Kinds
    BY <2>1 DEF Kinds, StoreInv
  <2> QED  BY <1>4, <2>1, <2>2, DeciderAlone DEF Capture, audit
<1>5. CASE DeciderFails(d)
  <2>1. [pc |-> "done"] \in Kinds
    BY DEF Kinds
  <2> QED  BY <1>5, <2>1, DeciderAlone DEF DeciderFails, audit
<1>6. CASE CommitDecision(d)
  <2>1. /\ decider[d] \in [pc : {"commit"}, request : Requests, policies : SUBSET policies,
                           claims : SUBSET Claims, searched : Nat, capturedAt : Times]
        /\ d \in receipts /\ d \notin DOMAIN decisions
    BY <1>0, <1>6 DEF CommitDecision, Kinds, ReplayInv, DeciderInv
  <2> DEFINE made == decider[d]
             new == [request |-> made.request, claims |-> made.claims, searched |-> made.searched,
                     capturedAt |-> made.capturedAt,
                     refs |-> {Ref(policy) : policy \in made.policies},
                     evaluations |-> {[policyId |-> Ref(policy).policyId, version |-> policy.version,
                                       violations |-> Violations(policy, Candidate(made.request))]
                                      : policy \in made.policies}]
  <2>2. decisions' = [e \in DOMAIN decisions \cup {d} |-> IF e # d THEN decisions[e] ELSE new]
    BY <1>6 DEF CommitDecision
  <2>3. MadeWith(new, made.policies)
    BY <2>1 DEF MadeWith, Evaluation
  <2> HIDE DEF new, made
  <2>4. /\ DOMAIN decisions' = DOMAIN decisions \cup {d} /\ decisions'[d] = new
        /\ \A e \in DOMAIN decisions : decisions'[e] = decisions[e]
    BY <2>1, <2>2
  <2>5. UNCHANGED <<policies, receipts, auditor>> /\ decider' = [decider EXCEPT ![d] = [pc |-> "done"]]
    BY <1>6 DEF CommitDecision
  <2>6. UniqueIds'
    BY <2>5 DEF ReplayInv, UniqueIds
  <2>7. DeciderInv'
    <3>1. /\ DOMAIN decider' = Deciders /\ decider'[d] = [pc |-> "done"]
          /\ \A e \in Deciders \ {d} : decider'[e] = decider[e]
      BY <2>5 DEF ReplayInv, DeciderInv
    <3>2. Kinds' = Kinds /\ [pc |-> "done"] \in Kinds
      BY <2>5 DEF Kinds
    <3> QED  BY <2>4, <2>5, <3>1, <3>2 DEF ReplayInv, DeciderInv
  <2>8. DecisionInv'
    <3>1. \A decision, by : MadeWith(decision, by) => MadeWith(decision, by)'
      BY <2>5 DEF MadeWith, Evaluation, Candidate
    <3>2. ASSUME NEW e \in DOMAIN decisions' PROVE e \in receipts' /\ \E by : MadeWith(decisions'[e], by)
      BY <2>1, <2>3, <2>4, <2>5, <3>2 DEF ReplayInv, DecisionInv
    <3>3. DOMAIN decisions' \subseteq Deciders
      BY <2>4 DEF ReplayInv, DecisionInv
    <3> QED  BY <2>5, <3>2, <3>3 DEF DecisionInv, MadeWith
  <2>9. AuditorInv'
    BY <2>4, <2>5 DEF ReplayInv, AuditorInv, Replays
  <2> QED  BY <2>6, <2>7, <2>8, <2>9 DEF ReplayInv
<1> QED  BY <1>1, <1>2, <1>3, <1>4, <1>5, <1>6 DEF Record

-----------------------------------------------------------------------------
(* The steps of an auditor.                                                *)

AuditorType(a) ==
  /\ auditor[a].pc # "idle" => auditor[a].decision \in DOMAIN decisions
  /\ auditor[a].pc \in {"policies", "claims", "lifecycle", "done"} => auditor[a].receipt
  /\ auditor[a].pc = "lifecycle" =>
       {"pc", "decision", "receipt", "policies", "lists", "events", "left"} \subseteq DOMAIN auditor[a]
  /\ auditor[a].pc \in {"claims", "lifecycle", "done"} => Replays(a)

LEMMA AuditorAlone ==
  ASSUME ReplayInv, NEW a \in Auditors, NEW next, auditor' = [auditor EXCEPT ![a] = next],
         UNCHANGED <<policies, receipts, decisions, decider>>, AuditorType(a)'
  PROVE  ReplayInv'
<1>1. UniqueIds' /\ DeciderInv'
  BY DEF ReplayInv, UniqueIds, DeciderInv, Kinds
<1>2. DecisionInv'
  BY DEF ReplayInv, DecisionInv, MadeWith
<1>3. DOMAIN auditor' = Auditors /\ \A b \in Auditors \ {a} : auditor'[b] = auditor[b]
  BY DEF ReplayInv, AuditorInv
<1>4. ASSUME NEW b \in Auditors, b # a PROVE AuditorType(b)'
  <2>1. auditor'[b] = auditor[b] /\ AuditorType(b)
    BY <1>3, <1>4 DEF ReplayInv, AuditorInv, AuditorType
  <2> QED  BY <2>1 DEF AuditorType, Replays
<1> QED  BY <1>1, <1>2, <1>3, <1>4 DEF ReplayInv, AuditorInv, AuditorType

(* The versions with the ids the decision names are those it was made      *)
(* with, for an id has one version.                                        *)
LEMMA FoundAgain ==
  ASSUME UniqueIds, NEW decision, NEW made, MadeWith(decision, made)
  PROVE  {policy \in policies : \E ref \in decision.refs :
            Ref(policy).versionId = ref.versionId /\ policy.version = ref.version} = made
<1>1. ASSUME NEW policy \in policies, NEW ref \in decision.refs, Ref(policy).versionId = ref.versionId
      PROVE  policy \in made
  <2>1. PICK other \in made : ref = Ref(other)
    BY DEF MadeWith
  <2>2. policy.id = other.id /\ other \in policies
    BY <1>1, <2>1 DEF Ref, MadeWith
  <2> QED  BY <2>1, <2>2 DEF UniqueIds
<1>2. ASSUME NEW policy \in made
      PROVE  /\ policy \in policies /\ Ref(policy) \in decision.refs
             /\ policy.version = Ref(policy).version
  BY DEF MadeWith, Ref
<1> QED  BY <1>1, <1>2

LEMMA AuditStep ==
  ASSUME ReplayInv, NEW a \in Auditors, Audit(a)
  PROVE  ReplayInv'
<1>0. AuditorType(a) /\ DOMAIN auditor = Auditors
  BY DEF ReplayInv, AuditorInv, AuditorType
<1>1. CASE GetAuditedDecision(a)
  <2>1. PICK d \in DOMAIN decisions :
          auditor' = [auditor EXCEPT ![a] = [pc |-> "receipt", decision |-> d, began |-> Range(log)]]
    BY <1>1 DEF GetAuditedDecision
  <2>2. auditor'[a] = [pc |-> "receipt", decision |-> d, began |-> Range(log)]
    BY <1>0, <2>1
  <2>3. AuditorType(a)'
    BY <1>1, <2>2 DEF AuditorType, GetAuditedDecision, audit
  <2> QED  BY <1>1, <2>1, <2>3, AuditorAlone DEF GetAuditedDecision, audit
<1>2. CASE GetReceipt(a)
  <2> DEFINE next == [pc |-> "policies", decision |-> auditor[a].decision, began |-> auditor[a].began,
                      receipt |-> auditor[a].decision \in receipts]
  <2>1. auditor' = [auditor EXCEPT ![a] = next]
    BY <1>2 DEF GetReceipt
  <2>2. auditor'[a] = next
    BY <1>0, <2>1
  <2>3. auditor[a].decision \in DOMAIN decisions /\ auditor[a].decision \in receipts
    BY <1>0, <1>2 DEF GetReceipt, AuditorType, ReplayInv, DecisionInv
  <2>4. AuditorType(a)'
    <3>1. /\ auditor'[a].pc = "policies" /\ auditor'[a].decision = auditor[a].decision
          /\ auditor'[a].receipt
      <4> DEFINE found == auditor[a].decision \in receipts
                 told(x) == [pc |-> "policies", decision |-> auditor[a].decision,
                             began |-> auditor[a].began, receipt |-> x]
      <4>1. found = TRUE /\ auditor'[a] = told(found)
        BY <2>2, <2>3
      <4> HIDE DEF found
      <4>2. auditor'[a] = told(TRUE)
        BY <4>1
      <4> QED  BY <4>2
    <3>2. UNCHANGED decisions
      BY <1>2 DEF GetReceipt, audit
    <3> QED  BY <2>3, <3>1, <3>2 DEF AuditorType
  <2> QED  BY <1>2, <2>1, <2>4, AuditorAlone DEF GetReceipt, audit
<1>3. CASE LoadPolicies(a)
  <2> DEFINE decision == decisions[auditor[a].decision]
             loaded == {policy \in policies : \E ref \in decision.refs :
                          Ref(policy).versionId = ref.versionId /\ policy.version = ref.version}
             next == [pc |-> "claims", decision |-> auditor[a].decision, began |-> auditor[a].began,
                      receipt |-> auditor[a].receipt, policies |-> loaded]
  <2>1. auditor' = [auditor EXCEPT ![a] = next]
    BY <1>3 DEF LoadPolicies
  <2>2. auditor'[a] = next
    BY <1>0, <2>1
  <2>3. auditor[a].decision \in DOMAIN decisions /\ auditor[a].receipt
    BY <1>0, <1>3 DEF LoadPolicies, AuditorType
  <2>4. PICK made : MadeWith(decision, made)
    BY <2>3 DEF ReplayInv, DecisionInv
  <2>5. loaded = made
    BY <2>4, FoundAgain DEF ReplayInv
  <2>6. /\ {Ref(policy) : policy \in loaded} = decision.refs
        /\ {Evaluation(policy, decision.request) : policy \in loaded} = decision.evaluations
    BY <2>4, <2>5 DEF MadeWith
  <2>7. UNCHANGED <<policies, receipts, decisions, decider>>
    BY <1>3 DEF LoadPolicies, audit
  <2> HIDE DEF loaded
  <2>8. Replays(a)'
    BY <2>2, <2>3, <2>6, <2>7 DEF Replays, Evaluation, Candidate
  <2>9. AuditorType(a)'
    BY <2>2, <2>3, <2>7, <2>8 DEF AuditorType
  <2> QED  BY <2>1, <2>7, <2>9, AuditorAlone
<1>4. CASE ListEvents(a)
  <2> DEFINE d == auditor[a].decision
             next == [pc |-> "lifecycle", decision |-> d, began |-> auditor[a].began,
                      receipt |-> auditor[a].receipt, policies |-> auditor[a].policies,
                      claims |-> {c \in decisions[d].claims : reader[a].answer[c] # None},
                      base |-> {event \in Range(log) : TouchesContext(event, d)},
                      lists |-> [list \in {} |-> {}],
                      events |-> {}, left |-> DOMAIN Lists \cup {"events"}]
  <2>0. auditor' = [auditor EXCEPT ![a] = next]
    BY <1>4 DEF ListEvents
  <2>1. /\ next.pc = "lifecycle" /\ next.decision = d
        /\ next.receipt = auditor[a].receipt /\ next.policies = auditor[a].policies
        /\ {"pc", "decision", "receipt", "policies", "lists", "events", "left"} \subseteq DOMAIN next
    OBVIOUS
  <2> HIDE DEF next
  <2>2. auditor'[a] = next
    BY <1>0, <2>0
  <2>3. UNCHANGED <<policies, receipts, decisions, decider>> /\ auditor[a].pc = "claims"
    BY <1>4 DEF ListEvents, audit
  <2>4. Replays(a)'
    BY <1>0, <2>1, <2>2, <2>3 DEF AuditorType, Replays, Evaluation, Candidate
  <2>5. AuditorType(a)'
    BY <1>0, <2>1, <2>2, <2>3, <2>4 DEF AuditorType
  <2> QED  BY <2>0, <2>3, <2>5, AuditorAlone
<1>5. CASE ListLifecycle(a)
  <2>1. {"pc", "decision", "receipt", "policies", "lists", "events", "left"} \subseteq DOMAIN auditor[a]
    BY <1>0, <1>5 DEF ListLifecycle, AuditorType
  <2>2. PICK list \in auditor[a].left :
          LET d == auditor[a].decision
              found(kind) == {event \in Range(log) : event.kind = kind /\ Matches(event, d)}
          IN  auditor' = [auditor EXCEPT
                ![a].left = @ \ {list},
                ![a].lists = IF list = "events" THEN @
                             ELSE [l \in DOMAIN @ \cup {list} |->
                                     IF l = list THEN found(Lists[l]) ELSE @[l]],
                ![a].events = IF list # "events" THEN @
                              ELSE {event \in Range(log) : TouchesDecision(event, d)}
                                     \ auditor[a].base,
                ![a].pc = IF auditor[a].left = {list} THEN "done" ELSE @]
    BY <1>5 DEF ListLifecycle
  <2> DEFINE d == auditor[a].decision
             found(kind) == {event \in Range(log) : event.kind = kind /\ Matches(event, d)}
             left == auditor[a].left \ {list}
             lists == IF list = "events" THEN auditor[a].lists
                      ELSE [l \in DOMAIN auditor[a].lists \cup {list} |->
                              IF l = list THEN found(Lists[l]) ELSE auditor[a].lists[l]]
             events == IF list # "events" THEN auditor[a].events
                       ELSE {event \in Range(log) : TouchesDecision(event, d)} \ auditor[a].base
             place == IF auditor[a].left = {list} THEN "done" ELSE auditor[a].pc
             next == [auditor[a] EXCEPT !.left = left, !.lists = lists, !.events = events, !.pc = place]
  <2>3. auditor' = [auditor EXCEPT ![a] = next]
    BY <1>0, <2>1, <2>2
  <2>4. auditor'[a] = next
    BY <1>0, <2>3
  <2>5. /\ next.pc = place /\ place \in {"lifecycle", "done"} /\ next.decision = auditor[a].decision
        /\ next.receipt = auditor[a].receipt /\ next.policies = auditor[a].policies
        /\ DOMAIN next = DOMAIN auditor[a]
    BY <1>5, <2>1 DEF ListLifecycle
  <2> HIDE DEF next, place
  <2>6. UNCHANGED <<policies, receipts, decisions, decider>> /\ auditor[a].pc = "lifecycle"
    BY <1>5 DEF ListLifecycle, audit
  <2>7. Replays(a)'
    BY <1>0, <2>4, <2>5, <2>6 DEF AuditorType, Replays, Evaluation, Candidate
  <2>8. AuditorType(a)'
    BY <1>0, <2>1, <2>4, <2>5, <2>6, <2>7 DEF AuditorType
  <2> QED  BY <2>3, <2>6, <2>8, AuditorAlone
<1> QED  BY <1>1, <1>2, <1>3, <1>4, <1>5 DEF Audit

LEMMA ReplayInvStep ==
  ASSUME StoreInv, ReplayInv, [Next]_decisionVars
  PROVE  ReplayInv'
<1>1. CASE UNCHANGED decisionVars
  BY <1>1, NothingDecided DEF decisionVars, audit
<1>2. CASE StoreStep
  BY <1>2, NothingDecided DEF StoreStep, audit
<1>3. ASSUME NEW k \in Curators, Curate(k) PROVE ReplayInv'
  BY <1>3, NothingDecided DEF Curate, GetDecision, RelateDecision, ObserveDecisionOutcome,
     RecordPolicyException, RecordDecisionApproval, PersistLifecycleEvent, Checks, audit
<1> QED  BY <1>1, <1>2, <1>3, AddPolicy, RecordStep, AuditStep DEF Next

-----------------------------------------------------------------------------
(* Reading as of a time. A set of numbers up to a bound has a greatest.    *)

LEMMA LeastNatural ==
  ASSUME NEW S \in SUBSET Nat, S # {}
  PROVE  \E m \in S : \A n \in S : m <= n
<1> DEFINE R == OpToRel(<, Nat)
<1>1. IsWellFoundedOn(R, Nat)
  BY NatLessThanWellFounded
<1>2. R = {ss \in Nat \X Nat : ss[1] < ss[2]}
  BY DEF OpToRel
<1> HIDE DEF R
<1>3. PICK m \in S : \A n \in S : ~ (<<n, m>> \in R)
  BY <1>1, WFMin
<1>4. ASSUME NEW n \in S PROVE m <= n
  <2>1. ~(<<n, m>> \in R)
    BY <1>3
  <2>2. ~(n < m)
    BY <1>2, <2>1
  <2> QED  BY <2>2
<1> QED  BY <1>4

LEMMA GreatestNatural ==
  ASSUME NEW bound \in Nat, NEW S \in SUBSET (0..bound), S # {}
  PROVE  \E m \in S : \A n \in S : n <= m
<1> DEFINE T == {b \in Nat : \A n \in S : n <= b}
<1>1. bound \in T
  OBVIOUS
<1>2. PICK b \in T : \A a \in T : b <= a
  <2> HIDE DEF T
  <2>1. T \in SUBSET Nat
    BY DEF T
  <2> QED  BY <1>1, <2>1, LeastNatural
<1>3. b \in S
  <2> SUFFICES ASSUME b \notin S PROVE FALSE
    OBVIOUS
  <2>1. \A n \in S : n < b
    BY <1>2
  <2>2. b - 1 \in T
    <3>1. PICK x \in S : x < b
      BY <2>1
    <3>2. b \in Nat /\ b - 1 \in Nat
      BY <3>1
    <3>3. \A n \in S : n <= b - 1
      BY <2>1, <3>2
    <3> QED  BY <3>2, <3>3
  <2> QED  BY <1>2, <2>2
<1> QED  BY <1>2, <1>3

(* The version that was known last is one of the list that no other comes  *)
(* after.                                                                  *)
Recording(version) == version.recordedAt

LEMMA LatestFacts ==
  ASSUME NEW versions \in Seq(VersionType), NEW time \in Times, time # None
  PROVE  \/ /\ LatestKnownAt(versions, time) = None
            /\ \A m \in DOMAIN versions : Recording(versions[m]) > time
         \/ \E n \in DOMAIN versions :
              /\ LatestKnownAt(versions, time) = versions[n]
              /\ Recording(versions[n]) <= time
              /\ \A m \in DOMAIN versions : Recording(versions[m]) <= time =>
                   \/ Recording(versions[m]) < Recording(versions[n])
                   \/ Recording(versions[m]) = Recording(versions[n]) /\ m <= n
<1> DEFINE rec(m) == versions[m].recordedAt
           known == {m \in DOMAIN versions : rec(m) <= time}
           After(m, n) == rec(m) < rec(n) \/ (rec(m) = rec(n) /\ m <= n)
<1>1. /\ Len(versions) \in Nat /\ DOMAIN versions = 1..Len(versions)
      /\ \A m \in DOMAIN versions : rec(m) \in 0..MaxTime
  <2>1. \A m \in DOMAIN versions : versions[m] \in VersionType
    OBVIOUS
  <2> QED  BY <2>1 DEF VersionType, Times
<1>2. LatestKnownAt(versions, time) =
        IF known = {} THEN None ELSE versions[CHOOSE n \in known : \A m \in known : After(m, n)]
  <2> DEFINE found == {m \in DOMAIN versions : KnownAt(versions[m], time)}
  <2>1. found = known
    BY DEF KnownAt
  <2>2. LatestKnownAt(versions, time) =
          IF found = {} THEN None ELSE versions[CHOOSE n \in found : \A m \in found : After(m, n)]
    BY DEF LatestKnownAt
  <2> HIDE DEF found, known, After
  <2> QED  BY <2>1, <2>2
<1>3. CASE known = {}
  <2>1. \A m \in DOMAIN versions : rec(m) > time
    BY <1>1, <1>3 DEF Times
  <2> QED  BY <1>2, <1>3, <2>1 DEF Recording
<1>4. CASE known # {}
  <2> DEFINE times == {rec(m) : m \in known}
  <2>1. times \in SUBSET (0..MaxTime) /\ times # {}
    BY <1>1, <1>4
  <2>2. PICK last \in times : \A k \in times : k <= last
    <3> HIDE DEF times
    <3> QED  BY <2>1, GreatestNatural, BitemporalAssumption
  <2> DEFINE ties == {m \in known : rec(m) = last}
  <2>3. ties \in SUBSET (0..Len(versions)) /\ ties # {}
    BY <1>1, <2>2
  <2>4. PICK n \in ties : \A m \in ties : m <= n
    <3> HIDE DEF ties
    <3> QED  BY <1>1, <2>3, GreatestNatural
  <2>5. n \in known /\ \A m \in known : After(m, n)
    <3>1. n \in known /\ rec(n) = last
      BY <2>4
    <3>2. ASSUME NEW m \in known PROVE After(m, n)
      <4>1. rec(m) \in times /\ m \in DOMAIN versions
        OBVIOUS
      <4>2. rec(m) <= last /\ rec(m) \in Nat /\ last \in Nat
        BY <1>1, <2>1, <2>2, <4>1
      <4>3. CASE rec(m) = last
        <5>1. m \in ties
          BY <4>3
        <5> QED  BY <2>4, <3>1, <4>3, <5>1
      <4>4. CASE rec(m) # last
        BY <3>1, <4>2, <4>4
      <4> QED  BY <4>3, <4>4
    <3> QED  BY <3>1, <3>2
  <2> DEFINE pick == CHOOSE i \in known : \A m \in known : After(m, i)
  <2>6. pick \in known /\ \A m \in known : After(m, pick)
    <3> HIDE DEF After, known
    <3> QED  BY <2>5
  <2>7. LatestKnownAt(versions, time) = versions[pick]
    BY <1>2, <1>4
  <2> HIDE DEF pick
  <2>8. /\ pick \in DOMAIN versions /\ rec(pick) <= time
        /\ \A m \in DOMAIN versions : rec(m) <= time => After(m, pick)
    BY <2>6
  <2> QED  BY <2>7, <2>8 DEF Recording
<1> QED  BY <1>3, <1>4

-----------------------------------------------------------------------------
(* What is stored of a claim. Every version that was committed is known by *)
(* its writer, who commits once; what is archived or read was committed;   *)
(* and the current version is the last one.                                *)

Known(c, version) == \E m \in Commits(c, Len(commits)) : version = Committed(c, m)

(* The version of a claim that was current after n commits, or None.       *)
Current(c, version, n) ==
  IF version = None THEN Commits(c, n) = {}
  ELSE \E m \in Commits(c, n) : version = Committed(c, m) /\ \A k \in Commits(c, n) : k <= m

Built(w) == writer[w].pc \in {"built", "archive", "upsert", "transaction"}

CommitInv ==
  /\ \A w \in Writers : Built(w) => writer[w].version.by = w /\ writer[w].version.recordedAt <= now
  /\ \A n \in DOMAIN commits :
       /\ commits[n].version.by \in Writers /\ writer[commits[n].version.by].pc = "done"
       /\ commits[n].version.recordedAt <= now
  /\ \A m, n \in DOMAIN commits : commits[m].version.by = commits[n].version.by => m = n

Origin(c) == Version(0, "asserted", c)

ClaimInv(c) ==
  /\ Current(c, rows[c], Len(commits))
  /\ \A n \in DOMAIN history[c] : Known(c, history[c][n])
  /\ c \in Recorded => Origin(c) = rows[c] \/ Holds(history[c], Origin(c))

ReadInv(w) ==
  writer[w].pc \in {"archive", "upsert", "transaction"} =>
    IF writer[w].read = None THEN writer[w].claim \notin Recorded
    ELSE Known(writer[w].claim, writer[w].read)

RecordsInv ==
  /\ CommitInv
  /\ \A c \in Claims : ClaimInv(c)
  /\ \A w \in Writers : ReadInv(w)

LEMMA CommitNumbers ==
  ASSUME StoreInv
  PROVE  /\ Len(commits) \in Nat /\ DOMAIN commits = 1..Len(commits)
         /\ \A n \in 0..Len(commits) : \A c \in Claims :
              /\ Commits(c, n) \in SUBSET (0..n)
              /\ Commits(c, n) = {m \in Commits(c, Len(commits)) : m <= n}
              /\ \A m \in Commits(c, n) : Committed(c, m) \in VersionType
<1>1. Len(commits) \in Nat /\ DOMAIN commits = 1..Len(commits)
      /\ \A m \in 1..Len(commits) : commits[m] \in EntryType
  BY DEF StoreInv
<1>2. ASSUME NEW n \in 0..Len(commits), NEW c \in Claims
      PROVE  /\ Commits(c, n) \in SUBSET (0..n)
             /\ Commits(c, n) = {m \in Commits(c, Len(commits)) : m <= n}
             /\ \A m \in Commits(c, n) : Committed(c, m) \in VersionType
  <2>1. Commits(c, n) \in SUBSET (0..n) /\ Commits(c, n) = {m \in Commits(c, Len(commits)) : m <= n}
    BY <1>1 DEF Commits
  <2>2. ASSUME NEW m \in Commits(c, n) PROVE Committed(c, m) \in VersionType
    <3>1. CASE m = 0
      <4>1. 0 \in Times
        BY BitemporalAssumption DEF Times
      <4> QED  BY <3>1, <4>1, VersionHasType DEF Committed
    <3>2. CASE m # 0
      <4>1. m \in 1..Len(commits)
        BY <1>1, <2>1, <3>2
      <4>2. commits[m].version \in VersionType
        BY <1>1, <4>1 DEF EntryType
      <4> QED  BY <3>2, <4>2 DEF Committed
    <3> QED  BY <3>1, <3>2
  <2> QED  BY <2>1, <2>2
<1> QED  BY <1>1, <1>2

(* No version is committed twice.                                          *)
LEMMA OneCommit ==
  ASSUME StoreInv, CommitInv, NEW c \in Claims,
         NEW k \in Commits(c, Len(commits)), NEW l \in Commits(c, Len(commits)),
         Committed(c, k) = Committed(c, l)
  PROVE  k = l
<1>1. ASSUME NEW m \in Commits(c, Len(commits))
      PROVE  IF m = 0 THEN Committed(c, m).by = c
             ELSE m \in DOMAIN commits /\ Committed(c, m) = commits[m].version
  <2>1. m \in 0..Len(commits)
    BY CommitNumbers
  <2> QED  BY <2>1, CommitNumbers DEF Committed, Version
<1>2. \A n \in DOMAIN commits : commits[n].version.by \in Writers /\ c \notin Writers
  BY BitemporalAssumption DEF CommitInv
<1>3. CASE k = 0 \/ l = 0
  BY <1>1, <1>2, <1>3
<1>4. CASE k # 0 /\ l # 0
  BY <1>1, <1>4 DEF CommitInv
<1> QED  BY <1>3, <1>4

(* Of a claim nobody overran, all but the current version are archived.    *)
LEMMA OldIsArchived ==
  ASSUME StoreInv, RecordsInv, NEW c \in Claims, ~Lost(c),
         NEW k \in Commits(c, Len(commits)), NEW l \in Commits(c, Len(commits)), k < l
  PROVE  Holds(history[c], Committed(c, k))
<1>1. k \in 0..Len(commits) /\ l \in 0..Len(commits)
  BY CommitNumbers
<1>2. Committed(c, k) # rows[c]
  <2> SUFFICES ASSUME Committed(c, k) = rows[c] PROVE FALSE
    OBVIOUS
  <2>1. Committed(c, k) # None
    <3>1. Committed(c, k) \in VersionType
      BY CommitNumbers
    <3> QED  BY <3>1, NoneIsNoVersion
  <2>2. PICK m \in Commits(c, Len(commits)) :
          rows[c] = Committed(c, m) /\ \A i \in Commits(c, Len(commits)) : i <= m
    BY <2>1 DEF RecordsInv, ClaimInv, Current
  <2>3. m = k /\ l <= m
    BY <2>2, OneCommit DEF RecordsInv
  <2> QED  BY <1>1, <2>3
<1>3. CASE k = 0
  <2>1. c \in Recorded /\ Committed(c, k) = Origin(c)
    BY <1>3 DEF Commits, Committed, Origin
  <2> QED  BY <1>2, <2>1 DEF RecordsInv, ClaimInv
<1>4. CASE k # 0
  <2>1. k \in DOMAIN commits /\ commits[k].claim = c /\ Committed(c, k) = commits[k].version
    BY <1>1, <1>4, CommitNumbers DEF Commits, Committed
  <2>2. commits[k].version \notin overrun
    BY <2>1 DEF Lost
  <2> QED  BY <1>2, <2>1, <2>2 DEF StoreInv, VersionsAreKept, Holds
<1> QED  BY <1>3, <1>4

(* What was committed stays.                                               *)
Extended ==
  /\ Len(commits') \in Nat /\ Len(commits) <= Len(commits')
  /\ \A n \in 1..Len(commits) : commits'[n] = commits[n]

LEMMA CommitsStay ==
  ASSUME StoreInv, Extended, NEW c \in Claims, NEW n \in 0..Len(commits)
  PROVE  /\ Commits(c, n)' = Commits(c, n)
         /\ \A m \in Commits(c, n) : Committed(c, m)' = Committed(c, m)
         /\ \A temporal : Truth(c, n, temporal)' = Truth(c, n, temporal)
<1>1. Len(commits) \in Nat /\ \A m \in 0..n : m # 0 => m \in 1..Len(commits)
  BY DEF StoreInv
<1>2. Commits(c, n)' = Commits(c, n)
  BY <1>1 DEF Commits, Extended
<1>3. \A m \in Commits(c, n) : Committed(c, m)' = Committed(c, m)
  BY <1>1 DEF Commits, Committed, Extended
<1>4. ASSUME NEW temporal PROVE Truth(c, n, temporal)' = Truth(c, n, temporal)
  <2> DEFINE known == {m \in Commits(c, n) :
               temporal.knownAt = None \/ Committed(c, m).recordedAt <= temporal.knownAt}
             time(m) == IF temporal.knownAt = None THEN 0 ELSE Committed(c, m).recordedAt
             later(k, m) == time(k) > time(m) \/ (time(k) = time(m) /\ k > m)
             last == {l \in known : \A k \in known : ~later(k, l)}
  <2>1. known' = known /\ \A m \in known : m \in Commits(c, n) /\ Committed(c, m)' = Committed(c, m)
    BY <1>2, <1>3
  <2> HIDE DEF known
  <2>2. \A k, m \in known : later(k, m)' <=> later(k, m)
    BY <2>1
  <2> HIDE DEF later
  <2>3. last' = last
    BY <2>1, <2>2
  <2>4. last \subseteq known
    OBVIOUS
  <2> HIDE DEF last
  <2>5. {Committed(c, m) : m \in last}' = {Committed(c, m) : m \in last}
    BY <2>1, <2>3, <2>4
  <2>6. Truth(c, n, temporal) = {Committed(c, m) : m \in last}
    BY DEF Truth, last, later, known
  <2>7. Truth(c, n, temporal)' = {Committed(c, m) : m \in last}'
    BY DEF Truth, last, later, known
  <2> QED  BY <2>5, <2>6, <2>7
<1> QED  BY <1>2, <1>3, <1>4

LEMMA KnownStays ==
  ASSUME StoreInv, Extended, NEW c \in Claims, NEW version, Known(c, version)
  PROVE  Known(c, version)'
<1>1. PICK m \in Commits(c, Len(commits)) : version = Committed(c, m)
  BY DEF Known
<1>2. Len(commits) \in 0..Len(commits)
  BY DEF StoreInv
<1>3. m \in 0..Len(commits) /\ version = Committed(c, m)'
      /\ m \in Commits(c, Len(commits)) /\ Commits(c, Len(commits)) = {k \in 0..Len(commits) :
           IF k = 0 THEN c \in Recorded ELSE commits[k].claim = c}
  BY <1>1, <1>2, CommitsStay, CommitNumbers DEF Commits
<1>4. m \in Commits(c, Len(commits))'
  BY <1>2, <1>3 DEF Extended, Commits
<1> QED  BY <1>3, <1>4 DEF Known

(* Steps that commit and archive nothing.                                  *)
LEMMA RecordsKept ==
  ASSUME StoreInv, RecordsInv, UNCHANGED records, now' = now \/ (now' = now + 1 /\ now \in Nat),
         \A w \in Writers : ReadInv(w)',
         \A w \in Writers : Built(w)' =>
           writer'[w].version.by = w /\ writer'[w].version.recordedAt <= now',
         \A w \in Writers : writer[w].pc = "done" => writer'[w].pc = "done"
  PROVE  RecordsInv'
<1>1. rows' = rows /\ history' = history /\ commits' = commits
  BY DEF records
<1>2. \A c \in Claims : ClaimInv(c)'
  BY <1>1 DEF RecordsInv, ClaimInv, Current, Known, Commits, Committed, Holds, Origin
<1>3. \A n \in DOMAIN commits : commits[n].version.recordedAt <= now'
  <2>1. ASSUME NEW n \in DOMAIN commits PROVE commits[n].version.recordedAt \in Nat
    <3>1. commits[n].version \in VersionType
      <4>1. commits[n] \in EntryType
        BY DEF StoreInv
      <4> QED  BY <4>1 DEF EntryType
    <3> QED  BY <3>1, BitemporalAssumption DEF VersionType, Times
  <2> QED  BY <2>1 DEF RecordsInv, CommitInv
<1>4. CommitInv'
  BY <1>1, <1>3 DEF RecordsInv, CommitInv
<1> QED  BY <1>2, <1>4 DEF RecordsInv

(* A writer builds a version, reads or ends.                               *)
LEMMA WriterBuilds ==
  ASSUME StoreInv, RecordsInv, NEW w \in Writers, NEW next, writer' = [writer EXCEPT ![w] = next],
         writer[w].pc # "done", UNCHANGED <<now, records>>,
         next.pc \in {"built", "archive", "transaction"} =>
           next.version.by = w /\ next.version.recordedAt <= now,
         next.pc \in {"archive", "transaction"} =>
           IF next.read = None THEN next.claim \notin Recorded ELSE Known(next.claim, next.read),
         next.pc # "upsert"
  PROVE  RecordsInv'
<1>1. writer'[w] = next /\ \A v \in Writers \ {w} : writer'[v] = writer[v]
  BY DEF StoreInv
<1>2. commits' = commits
  BY DEF records
<1>3. \A v \in Writers : ReadInv(v)'
  BY <1>1, <1>2 DEF RecordsInv, ReadInv, Known, Commits, Committed
<1>4. \A v \in Writers : Built(v)' =>
        writer'[v].version.by = v /\ writer'[v].version.recordedAt <= now'
  BY <1>1 DEF RecordsInv, CommitInv, Built
<1> QED  BY <1>1, <1>3, <1>4, RecordsKept

(* A version is committed. What it is put in the place of was read and     *)
(* archived, or is overrun; never the one from the start, which whoever    *)
(* sees it current has read.                                               *)
LEMMA WriterCommits ==
  ASSUME StoreInv, StoreInv', RecordsInv, NEW w \in Writers, Upsert(w), Built(w), UNCHANGED now,
         writer[w].claim \in Claims, writer[w].version \in VersionType,
         \A c \in Claims : \A n \in DOMAIN history'[c] :
           \/ \E m \in DOMAIN history[c] : history'[c][n] = history[c][m]
           \/ Known(c, history'[c][n]),
         \A d \in Claims : \A v : Holds(history[d], v) => Holds(history'[d], v),
         rows[writer[w].claim] = Origin(writer[w].claim) /\ writer[w].claim \in Recorded =>
           Holds(history'[writer[w].claim], Origin(writer[w].claim))
  PROVE  RecordsInv'
<1> DEFINE c == writer[w].claim
           version == writer[w].version
<1>0. PICK size \in Nat : size = Len(commits)
  BY DEF StoreInv
<1>1. /\ size \in Nat /\ Len(commits') = size + 1
      /\ \A n \in 1..size : commits'[n] = commits[n]
      /\ commits'[size + 1] = [claim |-> c, version |-> version]
      /\ DOMAIN commits = 1..size /\ DOMAIN commits' = 1..size + 1
  BY <1>0 DEF StoreInv, Upsert
<1>2. /\ rows'[c] = version /\ \A d \in Claims \ {c} : rows'[d] = rows[d]
      /\ writer'[w] = [pc |-> "done"] /\ \A v \in Writers \ {w} : writer'[v] = writer[v]
  BY DEF StoreInv, Upsert
<1>3. version.by = w /\ version.recordedAt <= now /\ writer[w].pc # "done" /\ version # None
  BY NoneIsNoVersion DEF RecordsInv, CommitInv, Built
<1>4. Extended
  BY <1>0, <1>1 DEF Extended
<1> HIDE DEF c, version
<1>5. CommitInv'
  <2>1. \A v \in Writers : Built(v)' => writer'[v].version.by = v /\ writer'[v].version.recordedAt <= now'
    BY <1>2 DEF RecordsInv, CommitInv, Built
  <2>2. \A n \in 1..size :
          /\ commits'[n].version.by \in Writers \ {w} /\ writer'[commits'[n].version.by].pc = "done"
          /\ commits'[n].version.recordedAt <= now'
    BY <1>1, <1>2, <1>3 DEF RecordsInv, CommitInv
  <2>3. /\ commits'[size + 1].version.by = w /\ writer'[w].pc = "done"
        /\ commits'[size + 1].version.recordedAt <= now'
    BY <1>1, <1>2, <1>3
  <2>4. \A n \in 1..size + 1 : n = size + 1 \/ n \in 1..size
    BY <1>1
  <2>5. \A m, n \in 1..size + 1 : commits'[m].version.by = commits'[n].version.by => m = n
    <3>1. \A m, n \in 1..size : commits'[m].version.by = commits'[n].version.by => m = n
      BY <1>1 DEF RecordsInv, CommitInv
    <3> QED  BY <2>2, <2>3, <2>4, <3>1
  <2> QED  BY <1>1, <2>1, <2>2, <2>3, <2>4, <2>5 DEF CommitInv
<1>6. \A d \in Claims : Commits(d, size + 1)' = Commits(d, size) \cup (IF d = c THEN {size + 1} ELSE {})
  BY <1>1 DEF Commits
<1>7. \A d \in Claims : \A m \in Commits(d, size) : Committed(d, m)' = Committed(d, m)
  BY <1>0, <1>1, <1>4, CommitsStay
<1>8. \A d \in Claims : \A v : Known(d, v) => Known(d, v)'
  BY <1>4, KnownStays
<1>9. ASSUME NEW d \in Claims PROVE Current(d, rows[d], Len(commits))'
  <2>1. Commits(d, size) \in SUBSET (0..size)
    BY <1>0, <1>1, CommitNumbers
  <2>2. CASE d = c
    <3>1. size + 1 \in Commits(d, size + 1)' /\ \A k \in Commits(d, size + 1)' : k <= size + 1
      BY <1>1, <1>6, <2>1, <2>2
    <3>2. Committed(d, size + 1)' = version
      BY <1>1 DEF Committed
    <3> QED  BY <1>1, <1>2, <1>3, <2>2, <3>1, <3>2 DEF Current
  <2>3. CASE d # c
    <3>1. Current(d, rows[d], size)
      BY <1>0 DEF RecordsInv, ClaimInv
    <3>2. Commits(d, size + 1)' = Commits(d, size) /\ rows'[d] = rows[d]
      BY <1>2, <1>6, <2>3
    <3>3. Commits(d, Len(commits))' = Commits(d, size)
      BY <1>1, <3>2
    <3> QED  BY <1>7, <3>1, <3>2, <3>3 DEF Current
  <2> QED  BY <2>2, <2>3
<1>10. ASSUME NEW d \in Claims PROVE ClaimInv(d)'
  <2>1. ASSUME NEW n \in DOMAIN history'[d], NEW v, history'[d][n] = v PROVE Known(d, v)'
    <3>1. Known(d, v)
      BY <2>1 DEF RecordsInv, ClaimInv
    <3> QED  BY <1>8, <3>1
  <2>3. \A n \in DOMAIN history'[d] : \E m \in Commits(d, Len(commits))' : history'[d][n] = Committed(d, m)'
    BY <2>1 DEF Known
  <2>2. d \in Recorded => Origin(d) = rows'[d] \/ Holds(history'[d], Origin(d))
    <3>1. d \in Recorded => Origin(d) = rows[d] \/ Holds(history[d], Origin(d))
      BY DEF RecordsInv, ClaimInv
    <3>2. CASE d = c
      BY <3>1, <3>2 DEF c
    <3>3. CASE d # c
      BY <1>2, <3>1, <3>3
    <3> QED  BY <3>2, <3>3
  <2> QED  BY <1>9, <2>2, <2>3 DEF ClaimInv, Known, Origin
<1>11. ASSUME NEW v \in Writers PROVE ReadInv(v)'
  <2>1. CASE v = w
    BY <1>2, <2>1 DEF ReadInv
  <2>2. CASE v # w
    <3>1. writer'[v] = writer[v] /\ ReadInv(v)
      BY <1>2, <2>2 DEF RecordsInv
    <3>2. writer[v].pc \in {"archive", "upsert", "transaction"} => writer[v].claim \in Claims
      BY DEF StoreInv, WriterInv
    <3>3. ASSUME NEW d, NEW read, d = writer[v].claim, read = writer[v].read,
                 writer[v].pc \in {"archive", "upsert", "transaction"}, read # None
          PROVE  Known(d, read)'
      BY <1>8, <3>1, <3>2, <3>3 DEF ReadInv
    <3> QED  BY <3>1, <3>3 DEF ReadInv, Known, Commits, Committed
  <2> QED  BY <2>1, <2>2
<1> QED  BY <1>5, <1>10, <1>11 DEF RecordsInv

LEMMA ArchivedKnown ==
  ASSUME StoreInv, NEW c \in Claims, NEW version \in VersionType \cup {None},
         history' = Archived(c, version), version # None => Known(c, version)
  PROVE  \A d \in Claims : \A n \in DOMAIN history'[d] :
           \/ \E m \in DOMAIN history[d] : history'[d][n] = history[d][m]
           \/ Known(d, history'[d][n])
<1>1. CASE version = None
  BY <1>1 DEF Archived
<1>2. CASE version # None
  <2>1. history'[c] = Append(history[c], version) /\ \A d \in Claims \ {c} : history'[d] = history[d]
    BY <1>2 DEF Archived, StoreInv
  <2>2. history[c] \in Seq(VersionType) /\ version \in VersionType
    BY <1>2 DEF StoreInv
  <2>3. \A n \in DOMAIN history'[c] :
          \/ n \in DOMAIN history[c] /\ history'[c][n] = history[c][n]
          \/ history'[c][n] = version
    BY <2>1, <2>2
  <2> QED  BY <1>2, <2>1, <2>3
<1> QED  BY <1>1, <1>2

LEMMA RecordsWrite ==
  ASSUME StoreInv, StoreInv', RecordsInv, NEW w \in Writers, Write(w)
  PROVE  RecordsInv'
<1>0. writer[w].pc \in {"archive", "upsert", "transaction"} =>
        /\ writer[w] \in [pc : {"archive", "upsert", "transaction"}, claim : Claims,
                          version : VersionType, read : VersionType \cup {None}]
        /\ writer[w].pc = "upsert" /\ writer[w].read # None =>
             Holds(history[writer[w].claim], writer[w].read)
  BY DEF StoreInv, WriterInv, Holds
<1>1. writer[w].pc = "built" => writer[w].claim \in Claims /\ writer[w].version \in VersionType
  BY DEF StoreInv, WriterInv
<1>2. Built(w) => writer[w].version.by = w /\ writer[w].version.recordedAt <= now
  BY DEF RecordsInv, CommitInv
<1>3. now \in Nat /\ now <= now
  BY BitemporalAssumption DEF StoreInv, Times
<1>4. ASSUME NEW c \in Claims
      PROVE  IF rows[c] = None THEN c \notin Recorded ELSE Known(c, rows[c])
  <2>1. Current(c, rows[c], Len(commits)) /\ Len(commits) \in Nat
    BY DEF RecordsInv, ClaimInv, StoreInv
  <2>2. c \in Recorded => 0 \in Commits(c, Len(commits))
    BY <2>1 DEF Commits
  <2> QED  BY <2>1, <2>2 DEF Current, Known
<1>5. CASE BuildAsserted(w) \/ BuildRetracted(w)
  <2>1. PICK c \in Claims, status \in {"asserted", "retracted"} : Build(w, c, status)
    BY <1>5 DEF BuildAsserted, BuildRetracted
  <2> DEFINE next == [pc |-> "built", claim |-> c, version |-> Version(now, status, w)]
  <2>2. /\ next.pc = "built" /\ next.version.by = w /\ next.version.recordedAt <= now
        /\ writer' = [writer EXCEPT ![w] = next] /\ writer[w].pc # "done"
        /\ UNCHANGED <<now, records>>
    BY <1>3, <1>5, <2>1 DEF BuildAsserted, BuildRetracted, Build, Version
  <2> HIDE DEF next
  <2> QED  BY <2>2, WriterBuilds
<1>6. CASE PutRead(w)
  <2>1. PICK inTransaction \in BOOLEAN :
          writer' = [writer EXCEPT ![w] =
            [pc |-> IF inTransaction THEN "transaction" ELSE "archive", claim |-> writer[w].claim,
             version |-> writer[w].version, read |-> rows[writer[w].claim]]]
    BY <1>6 DEF PutRead
  <2> DEFINE next == [pc |-> IF inTransaction THEN "transaction" ELSE "archive",
                      claim |-> writer[w].claim, version |-> writer[w].version,
                      read |-> rows[writer[w].claim]]
  <2>2. /\ next.pc # "upsert" /\ next.version.by = w /\ next.version.recordedAt <= now
        /\ IF next.read = None THEN next.claim \notin Recorded ELSE Known(next.claim, next.read)
        /\ writer' = [writer EXCEPT ![w] = next] /\ writer[w].pc # "done"
        /\ UNCHANGED <<now, records>>
    <3>1. Built(w) /\ writer[w].claim \in Claims /\ writer[w].pc = "built"
      BY <1>1, <1>6 DEF PutRead, Built
    <3> QED  BY <1>2, <1>4, <1>6, <2>1, <3>1 DEF PutRead
  <2> HIDE DEF next
  <2> QED  BY <2>2, WriterBuilds
<1>7. CASE PutArchive(w)
  <2> DEFINE c == writer[w].claim
  <2>1. /\ writer[w].pc = "archive" /\ history' = Archived(c, writer[w].read)
        /\ writer' = [writer EXCEPT ![w].pc = "upsert"]
        /\ UNCHANGED <<now, rows, commits, overrun>>
    BY <1>7 DEF PutArchive
  <2>2. /\ c \in Claims /\ writer[w].read \in VersionType \cup {None}
        /\ writer[w].read # None => Known(c, writer[w].read)
    BY <1>0, <2>1 DEF RecordsInv, ReadInv
  <2>3. \A d \in Claims : \A n \in DOMAIN history'[d] :
          \/ \E m \in DOMAIN history[d] : history'[d][n] = history[d][m]
          \/ Known(d, history'[d][n])
    BY <2>1, <2>2, ArchivedKnown
  <2>4. \A d \in Claims : \A v : Holds(history[d], v) => Holds(history'[d], v)
    BY <2>1, <2>2, ArchivedFacts
  <2>5. \A d \in Claims : \A n \in DOMAIN history'[d] : Known(d, history'[d][n])
    BY <2>3 DEF RecordsInv, ClaimInv
  <2>6. \A d \in Claims : ClaimInv(d)'
    BY <2>1, <2>4, <2>5 DEF RecordsInv, ClaimInv, Current, Known, Commits, Committed, Origin
  <2>7. /\ writer'[w] = [writer[w] EXCEPT !.pc = "upsert"]
        /\ \A v \in Writers \ {w} : writer'[v] = writer[v]
    BY <2>1 DEF StoreInv
  <2>8. /\ writer'[w].pc = "upsert" /\ writer'[w].claim = c /\ writer'[w].read = writer[w].read
        /\ writer'[w].version = writer[w].version
    BY <1>0, <2>1, <2>7
  <2>9. \A v \in Writers : ReadInv(v)'
    BY <2>1, <2>7, <2>8 DEF RecordsInv, ReadInv, Known, Commits, Committed
  <2>10. CommitInv'
    <3>1. \A v \in Writers : Built(v)' => Built(v) /\ writer'[v].version = writer[v].version
      BY <2>1, <2>7, <2>8 DEF Built
    <3>2. \A v \in Writers : writer[v].pc = "done" => writer'[v].pc = "done"
      BY <2>1, <2>7
    <3> QED  BY <2>1, <3>1, <3>2 DEF RecordsInv, CommitInv
  <2> QED  BY <2>6, <2>9, <2>10 DEF RecordsInv
<1>8. ASSUME NEW c \in Claims, c \in Recorded, rows[c] = Origin(c), NEW version, Known(c, version)
      PROVE  version = Origin(c)
  <2>1. Origin(c) # None
    BY CommitNumbers, NoneIsNoVersion, VersionHasType, BitemporalAssumption DEF Origin, Times
  <2>2. PICK m \in Commits(c, Len(commits)) :
          rows[c] = Committed(c, m) /\ \A k \in Commits(c, Len(commits)) : k <= m
    BY <1>8, <2>1 DEF RecordsInv, ClaimInv, Current
  <2>3. 0 \in Commits(c, Len(commits)) /\ Committed(c, 0) = Origin(c)
    BY <1>8 DEF Commits, Committed, Origin, StoreInv
  <2>4. m = 0
    BY <1>8, <2>2, <2>3, OneCommit DEF RecordsInv
  <2>5. PICK k \in Commits(c, Len(commits)) : version = Committed(c, k)
    BY <1>8 DEF Known
  <2>6. k = 0
    <3>1. k \in 0..Len(commits) /\ k <= 0
      BY <2>2, <2>4, <2>5, CommitNumbers
    <3> QED  BY <3>1
  <2> QED  BY <2>3, <2>5, <2>6
<1>9. CASE PutUpsert(w)
  <2>1. /\ writer[w].pc = "upsert" /\ Upsert(w) /\ Built(w) /\ UNCHANGED <<now, history>>
        /\ writer[w].claim \in Claims /\ writer[w].version \in VersionType
    BY <1>0, <1>9 DEF PutUpsert, Built
  <2>2. rows[writer[w].claim] = Origin(writer[w].claim) /\ writer[w].claim \in Recorded =>
          Holds(history'[writer[w].claim], Origin(writer[w].claim))
    BY <1>0, <1>8, <2>1 DEF RecordsInv, ReadInv
  <2> QED  BY <2>1, <2>2, WriterCommits
<1>10. CASE PutCommit(w)
  <2>1. /\ writer[w].pc = "transaction" /\ Upsert(w) /\ Built(w) /\ UNCHANGED now
        /\ history' = Archived(writer[w].claim, writer[w].read)
        /\ writer[w].claim \in Claims /\ writer[w].version \in VersionType
        /\ writer[w].read \in VersionType \cup {None}
    BY <1>0, <1>10 DEF PutCommit, Built
  <2>2. IF writer[w].read = None THEN writer[w].claim \notin Recorded
        ELSE Known(writer[w].claim, writer[w].read)
    BY <2>1 DEF RecordsInv, ReadInv
  <2>3. /\ \A d \in Claims : \A v : Holds(history[d], v) => Holds(history'[d], v)
        /\ writer[w].read # None => Holds(history'[writer[w].claim], writer[w].read)
    BY <2>1, ArchivedFacts
  <2>4. \A d \in Claims : \A n \in DOMAIN history'[d] :
          \/ \E m \in DOMAIN history[d] : history'[d][n] = history[d][m]
          \/ Known(d, history'[d][n])
    BY <2>1, <2>2, ArchivedKnown
  <2>5. rows[writer[w].claim] = Origin(writer[w].claim) /\ writer[w].claim \in Recorded =>
          Holds(history'[writer[w].claim], Origin(writer[w].claim))
    BY <1>8, <2>1, <2>2, <2>3
  <2> QED  BY <2>1, <2>3, <2>4, <2>5, WriterCommits
<1>11. CASE PutAtOnce(w)
  <2>1. /\ writer[w].pc = "built" /\ Upsert(w) /\ Built(w) /\ UNCHANGED now
        /\ history' = Archived(writer[w].claim, rows[writer[w].claim])
        /\ writer[w].claim \in Claims /\ writer[w].version \in VersionType
    BY <1>1, <1>11 DEF PutAtOnce, Built
  <2>2. /\ rows[writer[w].claim] \in VersionType \cup {None}
        /\ rows[writer[w].claim] # None => Known(writer[w].claim, rows[writer[w].claim])
    BY <1>4, <2>1 DEF StoreInv
  <2>3. /\ \A d \in Claims : \A v : Holds(history[d], v) => Holds(history'[d], v)
        /\ rows[writer[w].claim] # None => Holds(history'[writer[w].claim], rows[writer[w].claim])
    BY <2>1, <2>2, ArchivedFacts
  <2>4. \A d \in Claims : \A n \in DOMAIN history'[d] :
          \/ \E m \in DOMAIN history[d] : history'[d][n] = history[d][m]
          \/ Known(d, history'[d][n])
    BY <2>1, <2>2, ArchivedKnown
  <2>5. rows[writer[w].claim] = Origin(writer[w].claim) /\ writer[w].claim \in Recorded =>
          Holds(history'[writer[w].claim], Origin(writer[w].claim))
    BY <1>4, <2>1, <2>3
  <2> QED  BY <2>1, <2>3, <2>4, <2>5, WriterCommits
<1>12. CASE WriterFails(w)
  <2> DEFINE next == [pc |-> "done"]
  <2>1. /\ next.pc = "done" /\ writer' = [writer EXCEPT ![w] = next] /\ writer[w].pc # "done"
        /\ UNCHANGED <<now, records>>
    BY <1>12 DEF WriterFails
  <2> HIDE DEF next
  <2> QED  BY <2>1, WriterBuilds
<1> QED  BY <1>5, <1>6, <1>7, <1>9, <1>10, <1>11, <1>12 DEF Write

LEMMA RecordsInvInit == Init => StoreInv /\ RecordsInv
<1> SUFFICES ASSUME Init PROVE RecordsInv
  BY StoreInvInit DEF Init
<1>1. commits = <<>> /\ \A w \in Writers : writer[w].pc = "idle"
  BY DEF Init, StoreInit, Idle
<1>2. CommitInv
  BY <1>1 DEF CommitInv, Built
<1>3. \A w \in Writers : ReadInv(w)
  BY <1>1 DEF ReadInv
<1>4. ASSUME NEW c \in Claims PROVE ClaimInv(c)
  <2>1. Commits(c, Len(commits)) = IF c \in Recorded THEN {0} ELSE {}
    BY <1>1 DEF Commits
  <2>2. rows[c] = IF c \in Recorded THEN Origin(c) ELSE None
    BY DEF Init, StoreInit, Origin
  <2>3. Origin(c) # None
    BY NoneIsNoVersion, VersionHasType, BitemporalAssumption DEF Origin, Times
  <2>4. Committed(c, 0) = Origin(c)
    BY DEF Committed, Origin
  <2>5. Current(c, rows[c], Len(commits))
    BY <2>1, <2>2, <2>3, <2>4 DEF Current
  <2>6. history[c] = <<>>
    BY DEF Init, StoreInit
  <2> QED  BY <2>2, <2>5, <2>6 DEF ClaimInv
<1> QED  BY <1>2, <1>3, <1>4 DEF RecordsInv

LEMMA RecordsInvStep ==
  ASSUME StoreInv, StoreInv', RecordsInv, [Next]_decisionVars
  PROVE  RecordsInv'
<1>0. now \in Nat
  BY BitemporalAssumption DEF StoreInv, Times
<1>1. ASSUME NEW w \in Writers, Write(w) PROVE RecordsInv'
  BY <1>1, RecordsWrite
<1>2. ASSUME UNCHANGED <<now, records, writer>> PROVE RecordsInv'
  BY <1>2 DEF RecordsInv, CommitInv, ClaimInv, ReadInv, Built, Current, Known, Holds, Commits,
     Committed, Origin, records
<1>3. CASE Tick
  <2>1. now' = now + 1 /\ UNCHANGED <<records, writer>>
    BY <1>3 DEF Tick
  <2>2. \A w \in Writers : ReadInv(w)'
    BY <2>1 DEF RecordsInv, ReadInv, Known, Commits, Committed, records
  <2>3. ASSUME NEW w \in Writers, Built(w)'
        PROVE  writer'[w].version.by = w /\ writer'[w].version.recordedAt <= now'
    <3>1. writer[w].version \in VersionType
      BY <2>1, <2>3 DEF StoreInv, WriterInv, Built
    <3>2. writer[w].version.recordedAt \in Nat
      BY <3>1, BitemporalAssumption DEF VersionType, Times
    <3> QED  BY <1>0, <2>1, <2>3, <3>2 DEF RecordsInv, CommitInv, Built
  <2> QED  BY <1>0, <2>1, <2>2, <2>3, RecordsKept
<1>4. CASE StoreStep
  BY <1>1, <1>2, <1>3, <1>4 DEF StoreStep, List, ListAtOnce, ListCurrent, ListHistory
<1>5. ASSUME UNCHANGED storeVars PROVE RecordsInv'
  BY <1>2, <1>5 DEF storeVars
<1>6. ASSUME NEW a \in Auditors, Audit(a) PROVE RecordsInv'
  BY <1>2, <1>5, <1>6
     DEF Audit, GetAuditedDecision, GetReceipt, LoadPolicies, ListEvents, ListLifecycle
<1>7. ASSUME NEW d \in Deciders, Record(d) PROVE RecordsInv'
  BY <1>5, <1>7 DEF Record, Decide, Search, PutReceipt, Capture, CommitDecision, DeciderFails
<1>8. ASSUME NEW k \in Curators, Curate(k) PROVE RecordsInv'
  BY <1>5, <1>8 DEF Curate, GetDecision, RelateDecision, ObserveDecisionOutcome,
     RecordPolicyException, RecordDecisionApproval, PersistLifecycleEvent, Checks
<1>9. ASSUME NEW m \in Managers, PutPolicyVersion(m) PROVE RecordsInv'
  BY <1>5, <1>9 DEF PutPolicyVersion
<1> QED  BY <1>4, <1>5, <1>6, <1>7, <1>8, <1>9 DEF Next, decisionVars

-----------------------------------------------------------------------------
(* An answer is the truth after some number of commits. The row may be     *)
(* older than the history it is compared with: then either the row is the  *)
(* last version that was known, which was true when it was read, or one of *)
(* the history is, which was true when the last that is archived had been  *)
(* committed.                                                              *)

LEMMA TruthIs ==
  ASSUME StoreInv, NEW c \in Claims, NEW n \in 0..Len(commits), NEW temporal,
         temporal.knownAt \in Times, temporal.knownAt # None, NEW m \in Commits(c, n),
         Committed(c, m).recordedAt <= temporal.knownAt,
         \A k \in Commits(c, n) : Committed(c, k).recordedAt <= temporal.knownAt =>
           \/ Committed(c, k).recordedAt < Committed(c, m).recordedAt
           \/ Committed(c, k).recordedAt = Committed(c, m).recordedAt /\ k <= m
  PROVE  Truth(c, n, temporal) = {Committed(c, m)}
<1> DEFINE known == {k \in Commits(c, n) :
                       temporal.knownAt = None \/ Committed(c, k).recordedAt <= temporal.knownAt}
           time(k) == IF temporal.knownAt = None THEN 0 ELSE Committed(c, k).recordedAt
           later(k, l) == time(k) > time(l) \/ (time(k) = time(l) /\ k > l)
<1>1. \A k \in known : k \in Nat /\ time(k) \in Nat /\ time(k) = Committed(c, k).recordedAt
  <2>1. ASSUME NEW k \in known PROVE k \in Nat /\ Committed(c, k).recordedAt \in Nat
    <3>1. k \in 0..n /\ Committed(c, k) \in VersionType
      BY CommitNumbers
    <3> QED  BY <3>1, BitemporalAssumption DEF VersionType, Times
  <2> QED  BY <2>1
<1>2. m \in known /\ \A k \in known : ~later(k, m)
  BY <1>1
<1>3. \A l \in known : (\A k \in known : ~later(k, l)) => l = m
  BY <1>1, <1>2
<1>4. {l \in known : \A k \in known : ~later(k, l)} = {m}
  <2> HIDE DEF later, known
  <2> QED  BY <1>2, <1>3
<1>5. Truth(c, n, temporal) = {Committed(c, l) : l \in {i \in known : \A k \in known : ~later(k, i)}}
  BY DEF Truth
<1> QED  BY <1>4, <1>5

LEMMA NoTruth ==
  ASSUME StoreInv, NEW c \in Claims, NEW n \in 0..Len(commits), NEW temporal,
         temporal.knownAt \in Times, temporal.knownAt # None,
         \A k \in Commits(c, n) : Committed(c, k).recordedAt > temporal.knownAt
  PROVE  Truth(c, n, temporal) = {}
<1>1. ASSUME NEW k \in Commits(c, n) PROVE ~(Committed(c, k).recordedAt <= temporal.knownAt)
  <2>1. Committed(c, k) \in VersionType
    BY CommitNumbers
  <2> QED  BY <2>1, BitemporalAssumption DEF VersionType, Times
<1> QED  BY <1>1 DEF Truth

(* Without a time it is the last version.                                  *)
LEMMA TruthNow ==
  ASSUME StoreInv, NEW c \in Claims, NEW n \in 0..Len(commits), NEW temporal,
         temporal.knownAt = None
  PROVE  /\ Commits(c, n) = {} => Truth(c, n, temporal) = {}
         /\ \A m \in Commits(c, n) : (\A k \in Commits(c, n) : k <= m) =>
              Truth(c, n, temporal) = {Committed(c, m)}
<1>1. Truth(c, n, temporal) =
        {Committed(c, m) : m \in {l \in Commits(c, n) : \A k \in Commits(c, n) : ~(k > l)}}
  BY DEF Truth
<1>2. \A k \in Commits(c, n) : k \in Nat
  BY CommitNumbers
<1>3. ASSUME NEW m \in Commits(c, n), \A k \in Commits(c, n) : k <= m
      PROVE  {l \in Commits(c, n) : \A k \in Commits(c, n) : ~(k > l)} = {m}
  BY <1>2, <1>3
<1> QED  BY <1>1, <1>3

LEMMA AnswerIsRight ==
  ASSUME StoreInv, RecordsInv, NEW c \in Claims, ~Lost(c), ~ArchivedLate(c),
         NEW temporal, temporal.knownAt \in Times \cup {None},
         NEW s \in 0..Len(commits), NEW seen \in VersionType \cup {None}, Current(c, seen, s),
         temporal.knownAt = None => s = Len(commits)
  PROVE  \E n \in s..Len(commits) : Right(c, Answer(c, seen, history[c], temporal), n, temporal)
<1> DEFINE time == temporal.knownAt
           past == history[c]
           versions == Versions(seen, past)
           said(version) == IF VisibleAt(c, version, temporal) THEN version ELSE None
           all == Commits(c, Len(commits))
<1>1. /\ past \in Seq(VersionType) /\ Len(past) \in Nat /\ DOMAIN past = 1..Len(past)
      /\ Len(commits) \in Nat /\ s \in s..Len(commits)
  BY DEF StoreInv
<1>2. ASSUME NEW n, NEW version \in VersionType, Truth(c, n, temporal) = {version},
             KnownAt(version, time)
      PROVE  Right(c, said(version), n, temporal)
  <2>1. version # None
    BY NoneIsNoVersion
  <2> QED  BY <1>2, <2>1 DEF Right
<1>3. ASSUME NEW n, Truth(c, n, temporal) = {} PROVE Right(c, None, n, temporal)
  BY <1>3 DEF Right
<1>4. \A k \in all : Committed(c, k) \in VersionType /\ k \in 0..Len(commits)
  <2>1. Len(commits) \in 0..Len(commits)
    BY <1>1
  <2> QED  BY <2>1, CommitNumbers
<1>5. Commits(c, s) = {k \in all : k <= s}
  BY CommitNumbers
<1>6. CASE time = None
  <2>1. s = Len(commits)
    BY <1>6
  <2>2. CASE seen = None
    <3>1. all = {}
      BY <2>1, <2>2 DEF Current
    <3>2. DOMAIN past = {}
      BY <3>1 DEF RecordsInv, ClaimInv, Known
    <3>3. versions = <<>>
      <4>1. past = <<>>
        <5> HIDE DEF past
        <5>1. Len(past) = 0
          BY <1>1, <3>2
        <5> QED  BY <1>1, <5>1
      <4> QED  BY <2>2, <4>1 DEF Versions
    <3>4. Answer(c, seen, past, temporal) = None
      BY <3>3 DEF Answer, VisibleAt
    <3>5. Truth(c, s, temporal) = {}
      BY <1>6, <2>1, <3>1, TruthNow
    <3> QED  BY <1>1, <1>3, <3>4, <3>5
  <2>3. CASE seen # None
    <3>1. PICK m \in Commits(c, s) : seen = Committed(c, m) /\ \A k \in Commits(c, s) : k <= m
      BY <2>3 DEF Current
    <3>2. versions = Append(past, seen) /\ seen \in VersionType
      BY <2>3 DEF Versions
    <3>3. versions # <<>> /\ versions[Len(versions)] = seen
      BY <1>1, <3>2
    <3>4. Answer(c, seen, past, temporal) = said(seen)
      BY <1>6, <3>3 DEF Answer, LatestKnownAt
    <3>5. Truth(c, s, temporal) = {seen}
      BY <1>6, <3>1, TruthNow
    <3>6. KnownAt(seen, time)
      BY <1>6 DEF KnownAt
    <3> QED  BY <1>1, <1>2, <3>2, <3>4, <3>5, <3>6
  <2> QED  BY <2>2, <2>3
<1>7. CASE time # None
  <2>1. /\ versions \in Seq(VersionType)
        /\ \A i \in DOMAIN past : i \in DOMAIN versions /\ versions[i] = past[i]
        /\ \A i \in DOMAIN versions : i \in Nat /\
             (i \in DOMAIN past \/ (i = Len(past) + 1 /\ seen # None /\ versions[i] = seen))
        /\ seen # None => Len(past) + 1 \in DOMAIN versions /\ versions[Len(past) + 1] = seen
    <3>1. CASE seen = None
      BY <1>1, <3>1 DEF Versions
    <3>2. CASE seen # None
      <4>1. versions = Append(past, seen) /\ seen \in VersionType
        BY <3>2 DEF Versions
      <4> QED  BY <1>1, <3>2, <4>1
    <3> QED  BY <3>1, <3>2
  <2> DEFINE latest == LatestKnownAt(versions, time)
             rec(i) == Recording(versions[i])
  <2>2. time \in Times /\ time # None
    BY <1>7
  <2>3. \/ latest = None /\ \A i \in DOMAIN versions : rec(i) > time
        \/ \E n \in DOMAIN versions :
             /\ latest = versions[n] /\ rec(n) <= time
             /\ \A i \in DOMAIN versions : rec(i) <= time =>
                  rec(i) < rec(n) \/ (rec(i) = rec(n) /\ i <= n)
    <3> HIDE DEF versions
    <3> QED  BY <2>1, <2>2, LatestFacts
  <2>4. Answer(c, seen, past, temporal) = said(latest)
    <3>1. CASE versions = <<>>
      <4>1. DOMAIN versions = {}
        BY <3>1
      <4>2. latest = None
        BY <2>3, <4>1
      <4> QED  BY <3>1, <4>2 DEF Answer
    <3>2. CASE versions # <<>>
      BY <3>2 DEF Answer
    <3> QED  BY <3>1, <3>2
  <2>5. ASSUME NEW k \in all, NEW l \in all, k < l
        PROVE  \E i \in DOMAIN versions : versions[i] = Committed(c, k)
    <3>1. Holds(past, Committed(c, k))
      BY <2>5, OldIsArchived
    <3> QED  BY <2>1, <3>1 DEF Holds
  <2>6. \A k \in Commits(c, s) : \E i \in DOMAIN versions : versions[i] = Committed(c, k)
    <3>1. ASSUME NEW k \in Commits(c, s)
          PROVE  \E i \in DOMAIN versions : versions[i] = Committed(c, k)
      <4>1. seen # None
        BY <3>1 DEF Current
      <4>2. PICK j \in Commits(c, s) : seen = Committed(c, j) /\ \A i \in Commits(c, s) : i <= j
        BY <4>1 DEF Current
      <4>3. CASE k = j
        BY <2>1, <4>1, <4>2, <4>3
      <4>4. CASE k # j
        <5>1. k \in all /\ j \in all /\ k < j
          BY <1>4, <1>5, <4>2, <4>4
        <5> QED  BY <2>5, <5>1
      <4> QED  BY <4>3, <4>4
    <3> QED  BY <3>1
  <2> HIDE DEF versions, latest, said
  <2>7. CASE latest = None /\ \A i \in DOMAIN versions : rec(i) > time
    <3>1. \A k \in Commits(c, s) : Committed(c, k).recordedAt > time
      BY <2>6, <2>7 DEF Recording
    <3>2. Truth(c, s, temporal) = {}
      BY <2>2, <3>1, NoTruth
    <3>3. said(latest) = None
      BY <2>7 DEF said
    <3> QED  BY <1>1, <1>3, <2>4, <3>2, <3>3
  <2>8. ASSUME NEW i \in DOMAIN versions, latest = versions[i], rec(i) <= time,
               \A h \in DOMAIN versions : rec(h) <= time =>
                 rec(h) < rec(i) \/ (rec(h) = rec(i) /\ h <= i)
        PROVE  \E n \in s..Len(commits) : Right(c, said(latest), n, temporal)
    <3>1. latest \in VersionType /\ KnownAt(latest, time) /\ latest.recordedAt <= time
      BY <2>1, <2>8 DEF KnownAt, Recording
    <3>2. SUFFICES \E n \in s..Len(commits) : Truth(c, n, temporal) = {latest}
      BY <1>2, <3>1
    <3>3. CASE i \notin DOMAIN past
      <4>1. seen # None /\ latest = seen
        BY <2>1, <2>8, <3>3
      <4>2. PICK j \in Commits(c, s) : seen = Committed(c, j) /\ \A k \in Commits(c, s) : k <= j
        BY <4>1 DEF Current
      <4>3. ASSUME NEW k \in Commits(c, s), Committed(c, k).recordedAt <= time
            PROVE  \/ Committed(c, k).recordedAt < Committed(c, j).recordedAt
                   \/ Committed(c, k).recordedAt = Committed(c, j).recordedAt /\ k <= j
        <5>1. PICK h \in DOMAIN versions : versions[h] = Committed(c, k)
          BY <2>6
        <5>2. rec(h) < rec(i) \/ rec(h) = rec(i)
          BY <2>8, <4>3, <5>1 DEF Recording
        <5> QED  BY <2>8, <4>1, <4>2, <5>1, <5>2 DEF Recording
      <4>4. Committed(c, j).recordedAt <= temporal.knownAt
        BY <3>1, <4>1, <4>2
      <4>5. Truth(c, s, temporal) = {Committed(c, j)}
        BY <2>2, <4>3, <4>4, TruthIs
      <4> QED  BY <1>1, <4>1, <4>2, <4>5
    <3>4. CASE i \in DOMAIN past
      <4>1. PICK m \in all : past[i] = Committed(c, m)
        BY <3>4 DEF RecordsInv, ClaimInv, Known
      <4>2. latest = Committed(c, m)
        BY <2>1, <2>8, <3>4, <4>1
      <4>3. rows[c] # None
        BY <4>1 DEF RecordsInv, ClaimInv, Current
      <4>4. PICK top \in all : \A k \in all : k <= top
        BY <4>3 DEF RecordsInv, ClaimInv, Current
      <4> DEFINE kept(k) == \E h \in DOMAIN versions : versions[h] = Committed(c, k)
      <4>5. PICK n \in s..Len(commits) : m <= n /\ \A k \in all : k <= n => kept(k)
        <5>1. \A k \in all : k # top => kept(k)
          <6>1. ASSUME NEW k \in all, k # top PROVE kept(k)
            <7>1. k < top
              BY <1>4, <4>4, <6>1
            <7> QED  BY <2>5, <7>1
          <6> QED  BY <6>1
        <5>2. CASE kept(top)
          <6> HIDE DEF kept
          <6>1. \A k \in all : kept(k)
            BY <5>1, <5>2
          <6>2. Len(commits) \in s..Len(commits) /\ m <= Len(commits)
            BY <1>1, <1>4
          <6> QED  BY <6>1, <6>2
        <5>3. CASE ~kept(top)
          <6>1. kept(m)
            BY <2>1, <3>4, <4>1
          <6>2. \A k \in Commits(c, s) : kept(k)
            BY <2>6
          <6> HIDE DEF kept
          <6>3. m # top /\ m < top /\ top \in 0..Len(commits) /\ m \in 0..Len(commits)
            BY <1>4, <4>4, <5>3, <6>1
          <6>4. ~(top <= s)
            BY <1>5, <5>3, <6>2
          <6>5. top - 1 \in s..Len(commits) /\ m <= top - 1
            BY <1>1, <6>3, <6>4
          <6>6. \A k \in all : k <= top - 1 => kept(k)
            BY <5>1, <6>3
          <6> QED  BY <6>5, <6>6
        <5> QED  BY <5>2, <5>3
      <4>6. n \in 0..Len(commits) /\ Commits(c, n) = {k \in all : k <= n}
        <5>1. n \in 0..Len(commits)
          BY <1>1
        <5> QED  BY <5>1, CommitNumbers
      <4>7. ASSUME NEW k \in Commits(c, n), Committed(c, k).recordedAt <= time
            PROVE  \/ Committed(c, k).recordedAt < Committed(c, m).recordedAt
                   \/ Committed(c, k).recordedAt = Committed(c, m).recordedAt /\ k <= m
        <5>1. k \in all
          BY <4>6
        <5>2. PICK h \in DOMAIN versions : versions[h] = Committed(c, k)
          BY <4>5, <4>6
        <5>3. rec(h) < rec(i) \/ (rec(h) = rec(i) /\ h <= i)
          BY <2>8, <4>7, <5>2 DEF Recording
        <5>4. rec(h) = Committed(c, k).recordedAt /\ rec(i) = Committed(c, m).recordedAt
          BY <2>8, <4>2, <5>2 DEF Recording
        <5>5. CASE rec(h) = rec(i) /\ h <= i
          <6>1. h \in DOMAIN past /\ past[h] = Committed(c, k)
            BY <1>1, <2>1, <3>4, <5>2, <5>5
          <6>2. k <= m
            <7> SUFFICES ASSUME ~(k <= m) PROVE FALSE
              OBVIOUS
            <7>1. m < k
              BY <1>4, <5>1
            <7>2. h # i
              <8>1. h = i => Committed(c, k) = Committed(c, m)
                BY <4>1, <6>1
              <8>2. Committed(c, k) # Committed(c, m)
                BY <1>4, <5>1, <7>1, OneCommit DEF RecordsInv
              <8> QED  BY <8>1, <8>2
            <7>3. h < i
              BY <1>1, <3>4, <5>5, <6>1, <7>2
            <7>4. past[h].recordedAt = past[i].recordedAt
              BY <4>1, <5>4, <5>5, <6>1
            <7> QED  BY <3>4, <4>1, <5>1, <6>1, <7>1, <7>3, <7>4 DEF ArchivedLate
          <6> QED  BY <5>4, <5>5, <6>2
        <5> QED  BY <5>3, <5>4, <5>5
      <4>8. m \in Commits(c, n) /\ Committed(c, m).recordedAt <= temporal.knownAt
        BY <3>1, <4>2, <4>5, <4>6
      <4>9. Truth(c, n, temporal) = {Committed(c, m)}
        BY <2>2, <4>6, <4>7, <4>8, TruthIs
      <4> QED  BY <4>2, <4>5, <4>9
    <3> QED  BY <3>3, <3>4
  <2> QED  BY <2>3, <2>4, <2>7, <2>8
<1> QED  BY <1>6, <1>7

-----------------------------------------------------------------------------
(* What a listing was told stays true.                                     *)

StoreGrows ==
  /\ Extended /\ overrun \subseteq overrun'
  /\ \A c \in Claims : \A m \in DOMAIN history[c] :
       m \in DOMAIN history'[c] /\ history'[c][m] = history[c][m]

LEMMA NothingGrows ==
  ASSUME StoreInv, UNCHANGED records
  PROVE  StoreGrows
BY DEF StoreInv, records, StoreGrows, Extended

LEMMA ArchivedGrows ==
  ASSUME StoreInv, NEW c \in Claims, NEW version \in VersionType \cup {None},
         history' = Archived(c, version)
  PROVE  \A d \in Claims : \A m \in DOMAIN history[d] :
           m \in DOMAIN history'[d] /\ history'[d][m] = history[d][m]
<1>1. CASE version = None
  BY <1>1 DEF Archived
<1>2. CASE version # None
  <2>1. history'[c] = Append(history[c], version) /\ \A d \in Claims \ {c} : history'[d] = history[d]
    BY <1>2 DEF Archived, StoreInv
  <2>2. history[c] \in Seq(VersionType) /\ version \in VersionType
    BY <1>2 DEF StoreInv
  <2>3. \A m \in DOMAIN history[c] : m \in DOMAIN history'[c] /\ history'[c][m] = history[c][m]
    BY <2>1, <2>2
  <2> QED  BY <2>1, <2>3
<1> QED  BY <1>1, <1>2

LEMMA WriteGrows ==
  ASSUME StoreInv, NEW w \in Writers, Write(w)
  PROVE  StoreGrows
<1>0. writer[w].pc \in {"archive", "upsert", "transaction"} =>
        writer[w] \in [pc : {"archive", "upsert", "transaction"}, claim : Claims,
                       version : VersionType, read : VersionType \cup {None}]
  BY DEF StoreInv, WriterInv
<1>1. writer[w].pc = "built" => writer[w].claim \in Claims /\ writer[w].version \in VersionType
  BY DEF StoreInv, WriterInv
<1>2. Upsert(w) => Extended
  BY DEF StoreInv, Upsert, Extended
<1>3. CASE UNCHANGED records
  BY <1>3, NothingGrows
<1>4. CASE PutArchive(w)
  <2>1. /\ history' = Archived(writer[w].claim, writer[w].read) /\ UNCHANGED <<commits, overrun>>
        /\ writer[w].claim \in Claims /\ writer[w].read \in VersionType \cup {None}
    BY <1>0, <1>4 DEF PutArchive
  <2>2. Extended
    BY <2>1 DEF Extended, StoreInv
  <2> QED  BY <2>1, <2>2, ArchivedGrows DEF StoreGrows
<1>5. CASE PutUpsert(w)
  BY <1>2, <1>5 DEF PutUpsert, StoreGrows
<1>6. CASE PutCommit(w)
  <2>1. /\ history' = Archived(writer[w].claim, writer[w].read) /\ overrun \subseteq overrun'
        /\ writer[w].claim \in Claims /\ writer[w].read \in VersionType \cup {None}
    BY <1>0, <1>6 DEF PutCommit
  <2> QED  BY <1>2, <1>6, <2>1, ArchivedGrows DEF PutCommit, StoreGrows
<1>7. CASE PutAtOnce(w)
  <2>1. /\ history' = Archived(writer[w].claim, rows[writer[w].claim]) /\ overrun \subseteq overrun'
        /\ writer[w].claim \in Claims
    BY <1>1, <1>7 DEF PutAtOnce
  <2>2. rows[writer[w].claim] \in VersionType \cup {None}
    BY <2>1 DEF StoreInv
  <2> QED  BY <1>2, <1>7, <2>1, <2>2, ArchivedGrows DEF PutAtOnce, StoreGrows
<1>8. BuildAsserted(w) \/ BuildRetracted(w) \/ PutRead(w) \/ WriterFails(w) => UNCHANGED records
  BY DEF BuildAsserted, BuildRetracted, PutRead, WriterFails
<1> QED  BY <1>3, <1>4, <1>5, <1>6, <1>7, <1>8 DEF Write

Excused(c) == Lost(c) \/ ArchivedLate(c)

LEMMA ExcusedStays ==
  ASSUME StoreInv, StoreInv', StoreGrows, NEW c \in Claims, Excused(c)
  PROVE  Excused(c)'
<1>0. commits' \in Seq(EntryType)
  BY DEF StoreInv
<1>1. /\ Len(commits) \in 0..Len(commits') /\ DOMAIN commits \subseteq DOMAIN commits'
      /\ \A n \in DOMAIN commits : commits'[n] = commits[n]
  <2>1. Len(commits) \in Nat /\ DOMAIN commits = 1..Len(commits)
    BY DEF StoreInv
  <2>2. Len(commits') \in Nat /\ DOMAIN commits' = 1..Len(commits')
    BY <1>0
  <2>3. Len(commits) <= Len(commits') /\ \A n \in 1..Len(commits) : commits'[n] = commits[n]
    BY DEF StoreGrows, Extended
  <2> QED  BY <2>1, <2>2, <2>3
<1>2. CASE Lost(c)
  <2>1. PICK n \in DOMAIN commits : commits[n].claim = c /\ commits[n].version \in overrun
    BY <1>2 DEF Lost
  <2>2. n \in DOMAIN commits' /\ commits'[n].claim = c /\ commits'[n].version \in overrun'
    BY <1>1, <2>1 DEF StoreGrows
  <2> QED  BY <2>2 DEF Excused, Lost
<1>3. CASE ArchivedLate(c)
  <2>1. PICK m \in DOMAIN history[c], n \in DOMAIN history[c] :
          /\ m < n
          /\ history[c][m].recordedAt = history[c][n].recordedAt
          /\ \E k, l \in Commits(c, Len(commits)) :
               k < l /\ history[c][n] = Committed(c, k) /\ history[c][m] = Committed(c, l)
    BY <1>3 DEF ArchivedLate
  <2>2. PICK k \in Commits(c, Len(commits)), l \in Commits(c, Len(commits)) :
          k < l /\ history[c][n] = Committed(c, k) /\ history[c][m] = Committed(c, l)
    BY <2>1
  <2>3. Len(commits) \in 0..Len(commits)
    BY DEF StoreInv
  <2>4. /\ Commits(c, Len(commits)) = {i \in 0..Len(commits) :
             IF i = 0 THEN c \in Recorded ELSE commits[i].claim = c}
        /\ \A i \in Commits(c, Len(commits)) : Committed(c, i)' = Committed(c, i)
    BY <2>3, CommitsStay DEF StoreGrows, Commits
  <2>5. k \in Commits(c, Len(commits))' /\ l \in Commits(c, Len(commits))'
    BY <1>1, <2>2, <2>4 DEF Commits
  <2>6. /\ m \in DOMAIN history'[c] /\ n \in DOMAIN history'[c]
        /\ history'[c][m] = Committed(c, l)' /\ history'[c][n] = Committed(c, k)'
        /\ history'[c][m].recordedAt = history'[c][n].recordedAt
    BY <2>1, <2>2, <2>4 DEF StoreGrows
  <2>7. ArchivedLate(c)'
    BY <2>1, <2>2, <2>5, <2>6 DEF ArchivedLate
  <2> QED  BY <2>7 DEF Excused
<1> QED  BY <1>2, <1>3 DEF Excused

LEMMA RightStays ==
  ASSUME StoreInv, StoreGrows, NEW c \in Claims, NEW n \in 0..Len(commits), NEW answer,
         NEW temporal, Right(c, answer, n, temporal)
  PROVE  Right(c, answer, n, temporal)'
<1>1. Truth(c, n, temporal)' = Truth(c, n, temporal)
  BY CommitsStay DEF StoreGrows
<1> QED  BY <1>1 DEF Right

LEMMA StoreGrowsStep ==
  ASSUME StoreInv, [Next]_decisionVars
  PROVE  StoreGrows
<1>1. ASSUME NEW w \in Writers, Write(w) PROVE StoreGrows
  BY <1>1, WriteGrows
<1>2. UNCHANGED records => StoreGrows
  BY NothingGrows
<1>3. CASE StoreStep
  BY <1>1, <1>2, <1>3 DEF StoreStep, List, ListAtOnce, ListCurrent, ListHistory, Tick
<1>4. UNCHANGED storeVars => StoreGrows
  BY <1>2 DEF storeVars
<1>5. ASSUME NEW a \in Auditors, Audit(a) PROVE StoreGrows
  BY <1>2, <1>4, <1>5
     DEF Audit, GetAuditedDecision, GetReceipt, LoadPolicies, ListEvents, ListLifecycle
<1>6. ASSUME NEW d \in Deciders, Record(d) PROVE StoreGrows
  BY <1>4, <1>6 DEF Record, Decide, Search, PutReceipt, Capture, CommitDecision, DeciderFails
<1>7. ASSUME NEW k \in Curators, Curate(k) PROVE StoreGrows
  BY <1>4, <1>7 DEF Curate, GetDecision, RelateDecision, ObserveDecisionOutcome,
     RecordPolicyException, RecordDecisionApproval, PersistLifecycleEvent, Checks
<1>8. ASSUME NEW m \in Managers, PutPolicyVersion(m) PROVE StoreGrows
  BY <1>4, <1>8 DEF PutPolicyVersion
<1> QED  BY <1>3, <1>4, <1>5, <1>6, <1>7, <1>8 DEF Next, decisionVars

(* What a listing has read, and what it says: of each claim something that *)
(* was so at some moment since it began.                                   *)
ListInv(listing) ==
  /\ listing.pc \in {"idle", "current", "history", "listed"}
  /\ listing.pc # "idle" =>
       listing.temporal.knownAt \in Times \cup {None} /\ listing.since \in 0..Len(commits)
  /\ listing.pc = "history" =>
       /\ listing.temporal.knownAt # None
       /\ listing.seen \in [Claims -> VersionType \cup {None}]
       /\ \E s \in listing.since..Len(commits) : \A c \in Claims : Current(c, listing.seen[c], s)
  /\ listing.pc = "listed" =>
       /\ listing.until \in listing.since..Len(commits)
       /\ \A c \in Claims :
            \/ Excused(c)
            \/ \E n \in listing.since..listing.until :
                 Right(c, listing.answer[c], n, listing.temporal)

ListingInv == DOMAIN reader = Readers /\ \A r \in Readers : ListInv(reader[r])

LEMMA ListingStays ==
  ASSUME StoreInv, StoreInv', StoreGrows, NEW listing, ListInv(listing)
  PROVE  ListInv(listing)'
<1>1. Len(commits) \in Nat /\ Len(commits') \in Nat /\ Len(commits) <= Len(commits')
  BY DEF StoreInv, StoreGrows, Extended
<1>2. listing.pc # "idle" => listing.since \in 0..Len(commits')
  BY <1>1 DEF ListInv
<1>3. ASSUME listing.pc = "history"
      PROVE  \E s \in listing.since..Len(commits') : \A c \in Claims : Current(c, listing.seen[c], s)'
  <2>1. listing.since \in 0..Len(commits)
    BY <1>3 DEF ListInv
  <2>2. PICK s \in listing.since..Len(commits) : \A c \in Claims : Current(c, listing.seen[c], s)
    BY <1>3 DEF ListInv
  <2>3. s \in 0..Len(commits) /\ s \in listing.since..Len(commits')
    BY <1>1, <2>1
  <2>4. ASSUME NEW c \in Claims PROVE Current(c, listing.seen[c], s)'
    <3>1. Current(c, listing.seen[c], s)
      BY <2>2
    <3>2. Commits(c, s)' = Commits(c, s) /\ \A m \in Commits(c, s) : Committed(c, m)' = Committed(c, m)
      BY <2>3, CommitsStay DEF StoreGrows
    <3> QED  BY <3>1, <3>2 DEF Current
  <2> QED  BY <2>3, <2>4
<1>4. ASSUME listing.pc = "listed", NEW c \in Claims
      PROVE  \/ Excused(c)'
             \/ \E n \in listing.since..listing.until :
                  Right(c, listing.answer[c], n, listing.temporal)'
  <2>1. CASE Excused(c)
    BY <2>1, ExcusedStays
  <2>2. CASE ~Excused(c)
    <3>1. PICK n \in listing.since..listing.until :
            Right(c, listing.answer[c], n, listing.temporal)
      BY <1>4, <2>2 DEF ListInv
    <3>2. listing.since \in 0..Len(commits) /\ listing.until \in listing.since..Len(commits)
      BY <1>4 DEF ListInv
    <3>3. n \in 0..Len(commits)
      BY <1>1, <3>2
    <3>4. Right(c, listing.answer[c], n, listing.temporal)'
      BY <3>1, <3>3, RightStays
    <3> QED  BY <3>4
  <2> QED  BY <2>1, <2>2
<1>5. listing.pc = "listed" => listing.until \in listing.since..Len(commits')
  BY <1>1 DEF ListInv
<1> QED  BY <1>2, <1>3, <1>4, <1>5 DEF ListInv

-----------------------------------------------------------------------------
(* What a decision was made with: of each claim the store had said that it *)
(* was so, and what had been committed by then was recorded before the     *)
(* snapshot.                                                               *)

SearchedInv(made) ==
  /\ made.request \in Requests /\ made.claims \subseteq Claims
  /\ made.searched \in 0..Len(commits)
  /\ \A c \in made.claims :
       \/ Excused(c)
       \/ \E version \in VersionType : Right(c, version, made.searched, made.request.temporal)

SnapshotInv(made) ==
  /\ SearchedInv(made)
  /\ made.capturedAt \in Times
  /\ \A n \in 1..made.searched : commits[n].version.recordedAt <= made.capturedAt

MadeInv ==
  /\ \A d \in Deciders :
       /\ decider[d].pc \in {"receipt", "capture"} => SearchedInv(decider[d])
       /\ decider[d].pc = "commit" => SnapshotInv(decider[d])
  /\ \A d \in DOMAIN decisions : SnapshotInv(decisions[d])

LEMMA SearchedStays ==
  ASSUME StoreInv, StoreInv', StoreGrows, NEW made, SearchedInv(made)
  PROVE  SearchedInv(made)'
<1>1. Len(commits) \in Nat /\ Len(commits') \in Nat /\ Len(commits) <= Len(commits')
  BY DEF StoreInv, StoreGrows, Extended
<1>2. made.searched \in 0..Len(commits) /\ made.searched \in 0..Len(commits')
  BY <1>1 DEF SearchedInv
<1>3. ASSUME NEW c \in made.claims
      PROVE  \/ Excused(c)'
             \/ \E version \in VersionType : Right(c, version, made.searched, made.request.temporal)'
  <2>1. c \in Claims
    BY DEF SearchedInv
  <2>2. CASE Excused(c)
    BY <2>1, <2>2, ExcusedStays
  <2>3. CASE ~Excused(c)
    <3>1. PICK version \in VersionType : Right(c, version, made.searched, made.request.temporal)
      BY <2>3 DEF SearchedInv
    <3>2. Right(c, version, made.searched, made.request.temporal)'
      BY <1>2, <2>1, <3>1, RightStays
    <3> QED  BY <3>2
  <2> QED  BY <2>2, <2>3
<1> QED  BY <1>2, <1>3 DEF SearchedInv

LEMMA SnapshotStays ==
  ASSUME StoreInv, StoreInv', StoreGrows, NEW made, SnapshotInv(made)
  PROVE  SnapshotInv(made)'
<1>1. SearchedInv(made)'
  BY SearchedStays DEF SnapshotInv
<1>2. \A n \in 1..made.searched : commits'[n] = commits[n]
  BY DEF SnapshotInv, SearchedInv, StoreInv, StoreGrows, Extended
<1> QED  BY <1>1, <1>2 DEF SnapshotInv

LEMMA DecidersStay ==
  ASSUME StoreInv, StoreInv', StoreGrows, MadeInv, NEW S \in SUBSET Deciders,
         \A d \in Deciders \ S : decider'[d] = decider[d]
  PROVE  \A d \in Deciders \ S :
           /\ decider'[d].pc \in {"receipt", "capture"} => SearchedInv(decider[d])'
           /\ decider'[d].pc = "commit" => SnapshotInv(decider[d])'
<1> SUFFICES ASSUME NEW d \in Deciders \ S
             PROVE  /\ decider'[d].pc \in {"receipt", "capture"} => SearchedInv(decider[d])'
                    /\ decider'[d].pc = "commit" => SnapshotInv(decider[d])'
  OBVIOUS
<1>1. PICK made : made = decider[d]
  OBVIOUS
<1>2. decider'[d] = made
  BY <1>1
<1>3. /\ made.pc \in {"receipt", "capture"} => SearchedInv(made)
      /\ made.pc = "commit" => SnapshotInv(made)
  BY <1>1 DEF MadeInv
<1>4. /\ made.pc \in {"receipt", "capture"} => SearchedInv(made)'
      /\ made.pc = "commit" => SnapshotInv(made)'
  BY <1>3, SearchedStays, SnapshotStays
<1> QED  BY <1>2, <1>4 DEF SearchedInv, SnapshotInv

LEMMA DecisionsStay ==
  ASSUME StoreInv, StoreInv', StoreGrows, MadeInv, NEW d \in DOMAIN decisions,
         d \in DOMAIN decisions', decisions'[d] = decisions[d]
  PROVE  SnapshotInv(decisions[d])'
<1>1. PICK made : made = decisions[d]
  OBVIOUS
<1>2. SnapshotInv(made)'
  BY <1>1, SnapshotStays DEF MadeInv
<1> QED  BY <1>1, <1>2 DEF SnapshotInv, SearchedInv

LEMMA MadeInvStep ==
  ASSUME StoreInv, StoreInv', RecordsInv, DeciderInv, DecisionInv, MadeInv, [Next]_decisionVars
  PROVE  MadeInv'
<1>1. StoreGrows
  BY StoreGrowsStep
<1>2. ASSUME UNCHANGED <<decider, decisions>> PROVE MadeInv'
  <2>1. \A d \in Deciders \ {} :
           /\ decider'[d].pc \in {"receipt", "capture"} => SearchedInv(decider[d])'
           /\ decider'[d].pc = "commit" => SnapshotInv(decider[d])'
    BY <1>1, <1>2, DecidersStay
  <2>2. \A d \in DOMAIN decisions' : SnapshotInv(decisions[d])'
    BY <1>1, <1>2, DecisionsStay
  <2> QED  BY <2>1, <2>2 DEF MadeInv
<1>3. ASSUME NEW d \in Deciders, UNCHANGED decisions, NEW made, decider' = [decider EXCEPT ![d] = made],
             made.pc \in {"receipt", "capture"} => SearchedInv(made)',
             made.pc = "commit" => SnapshotInv(made)'
      PROVE  MadeInv'
  <2>1. decider'[d] = made /\ \A e \in Deciders \ {d} : decider'[e] = decider[e]
    BY <1>3 DEF DeciderInv
  <2>2. \A e \in Deciders \ {d} :
           /\ decider'[e].pc \in {"receipt", "capture"} => SearchedInv(decider[e])'
           /\ decider'[e].pc = "commit" => SnapshotInv(decider[e])'
    BY <1>1, <2>1, DecidersStay
  <2>3. /\ decider'[d].pc \in {"receipt", "capture"} => SearchedInv(decider[d])'
        /\ decider'[d].pc = "commit" => SnapshotInv(decider[d])'
    BY <1>3, <2>1 DEF SearchedInv, SnapshotInv
  <2>4. \A e \in DOMAIN decisions' : SnapshotInv(decisions[e])'
    BY <1>1, <1>3, DecisionsStay
  <2> QED  BY <2>2, <2>3, <2>4 DEF MadeInv
<1>4. ASSUME NEW d \in Deciders, Record(d) PROVE MadeInv'
  <2>0. /\ decider[d] \in Kinds
        /\ decider[d].pc \in {"receipt", "capture"} => SearchedInv(decider[d])
        /\ decider[d].pc = "commit" => SnapshotInv(decider[d])
    BY DEF DeciderInv, MadeInv
  <2>1. CASE Decide(d)
    <3>1. PICK request \in Requests :
            decider' = [decider EXCEPT ![d] =
              [pc |-> "search", request |-> request,
               policies |-> SelectApplicable(policies,
                 [purpose |-> request.purpose, classification |-> "internal",
                  at |-> At(request.temporal)])]]
      BY <2>1 DEF Decide
    <3>2. UNCHANGED decisions
      BY <2>1 DEF Decide, audit
    <3> QED  BY <1>3, <3>1, <3>2
  <2>2. CASE Search(d)
    <3>1. UNCHANGED storeVars /\ UNCHANGED decisions /\ decider[d].pc = "search"
          /\ decider[d].request \in Requests
      BY <2>0, <2>2 DEF Search, audit, Kinds
    <3>2. PICK temporal : temporal = decider[d].request.temporal
      OBVIOUS
    <3>3. temporal.knownAt \in Times \cup {None}
      BY <3>1, <3>2, DecisionAssumption DEF Perspectives
    <3>4. PICK made : made = [pc |-> "receipt", request |-> decider[d].request,
                              policies |-> decider[d].policies,
                              claims |-> {c \in Claims : AsOf(c, temporal) # None},
                              searched |-> Len(commits)]
      OBVIOUS
    <3>5. decider' = [decider EXCEPT ![d] = made]
      BY <2>2, <3>2, <3>4 DEF Search
    <3>6. ASSUME NEW c \in made.claims, ~Excused(c)
          PROVE  \E version \in VersionType : Right(c, version, Len(commits), temporal)
      <4>1. c \in Claims /\ AsOf(c, temporal) # None
        BY <3>4
      <4>2. Len(commits) \in Nat /\ rows[c] \in VersionType \cup {None}
        BY <4>1 DEF StoreInv
      <4>3. Len(commits) \in 0..Len(commits)
        BY <4>2
      <4>4. Current(c, rows[c], Len(commits))
        BY <4>1 DEF RecordsInv, ClaimInv
      <4>5. PICK n \in Len(commits)..Len(commits) :
              Right(c, Answer(c, rows[c], history[c], temporal), n, temporal)
        BY <3>3, <3>6, <4>1, <4>2, <4>3, <4>4, AnswerIsRight DEF Excused
      <4>6. n = Len(commits) /\ Right(c, AsOf(c, temporal), Len(commits), temporal)
        BY <4>2, <4>5 DEF AsOf
      <4>7. AsOf(c, temporal) \in Truth(c, Len(commits), temporal)
        BY <4>1, <4>6 DEF Right
      <4>8. AsOf(c, temporal) \in VersionType
        BY <4>1, <4>3, <4>7, CommitNumbers DEF Truth
      <4> QED  BY <4>6, <4>8
    <3>7. SearchedInv(made)
      <4>1. Len(commits) \in 0..Len(commits)
        BY DEF StoreInv
      <4> QED  BY <3>1, <3>2, <3>4, <3>6, <4>1 DEF SearchedInv
    <3>8. SearchedInv(made)' /\ made.pc = "receipt"
      BY <1>1, <3>4, <3>7, SearchedStays
    <3> QED  BY <1>3, <3>1, <3>5, <3>8
  <2>3. CASE PutReceipt(d)
    <3>1. decider[d].pc = "receipt" /\ UNCHANGED decisions
      BY <2>3 DEF PutReceipt, audit
    <3>2. PICK made : made = [decider[d] EXCEPT !.pc = "capture"]
      OBVIOUS
    <3>3. decider' = [decider EXCEPT ![d] = made]
      BY <2>3, <3>2 DEF PutReceipt
    <3>4. /\ made.pc = "capture" /\ made.request = decider[d].request
          /\ made.claims = decider[d].claims /\ made.searched = decider[d].searched
      BY <2>0, <3>1, <3>2 DEF Kinds
    <3>5. SearchedInv(made)
      BY <2>0, <3>1, <3>4 DEF SearchedInv
    <3>6. SearchedInv(made)'
      BY <1>1, <3>5, SearchedStays
    <3> QED  BY <1>3, <3>1, <3>3, <3>4, <3>6
  <2>4. CASE Capture(d)
    <3>1. decider[d].pc = "capture" /\ UNCHANGED decisions
      BY <2>4 DEF Capture, audit
    <3>2. PICK made : made = [pc |-> "commit", request |-> decider[d].request,
                              policies |-> decider[d].policies, claims |-> decider[d].claims,
                              searched |-> decider[d].searched, capturedAt |-> now]
      OBVIOUS
    <3>3. decider' = [decider EXCEPT ![d] = made]
      BY <2>4, <3>2 DEF Capture
    <3>4. SearchedInv(made)
      BY <2>0, <3>1, <3>2 DEF SearchedInv
    <3>5. \A n \in 1..made.searched : commits[n].version.recordedAt <= now
      BY <3>4 DEF SearchedInv, RecordsInv, CommitInv, StoreInv
    <3>6. SnapshotInv(made)
      BY <3>2, <3>4, <3>5 DEF SnapshotInv, StoreInv
    <3>7. SnapshotInv(made)' /\ made.pc = "commit"
      BY <1>1, <3>2, <3>6, SnapshotStays
    <3> QED  BY <1>3, <3>1, <3>3, <3>7
  <2>5. CASE CommitDecision(d)
    <3>1. decider[d].pc = "commit" /\ SnapshotInv(decider[d])
      BY <2>0, <2>5 DEF CommitDecision
    <3>2. /\ \A e \in Deciders \ {d} : decider'[e] = decider[e]
          /\ decider'[d].pc = "done"
      BY <2>5 DEF CommitDecision, DeciderInv
    <3>3. \A e \in Deciders \ {d} :
             /\ decider'[e].pc \in {"receipt", "capture"} => SearchedInv(decider[e])'
             /\ decider'[e].pc = "commit" => SnapshotInv(decider[e])'
      BY <1>1, <3>2, DecidersStay
    <3>4. /\ DOMAIN decisions' = DOMAIN decisions \cup {d}
          /\ \A e \in DOMAIN decisions \ {d} : decisions'[e] = decisions[e]
          /\ decisions'[d].request = decider[d].request /\ decisions'[d].claims = decider[d].claims
          /\ decisions'[d].searched = decider[d].searched
          /\ decisions'[d].capturedAt = decider[d].capturedAt
      BY <2>5 DEF CommitDecision
    <3>5. \A e \in DOMAIN decisions \ {d} : SnapshotInv(decisions[e])'
      BY <1>1, <3>4, DecisionsStay
    <3>6. PICK made : made = decider[d]
      OBVIOUS
    <3>7. SnapshotInv(made)'
      BY <1>1, <3>1, <3>6, SnapshotStays
    <3>8. SnapshotInv(decisions[d])'
      BY <3>4, <3>6, <3>7 DEF SnapshotInv, SearchedInv
    <3> QED  BY <3>2, <3>3, <3>4, <3>5, <3>8 DEF MadeInv
  <2>6. CASE DeciderFails(d)
    BY <1>3, <2>6 DEF DeciderFails, audit
  <2> QED  BY <1>4, <2>1, <2>2, <2>3, <2>4, <2>5, <2>6 DEF Record
<1>5. CASE StoreStep
  BY <1>2, <1>5 DEF StoreStep, audit
<1>6. ASSUME NEW a \in Auditors, Audit(a) PROVE MadeInv'
  BY <1>2, <1>6
     DEF Audit, GetAuditedDecision, GetReceipt, LoadPolicies, ListEvents, ListLifecycle, audit
<1>7. ASSUME NEW k \in Curators, Curate(k) PROVE MadeInv'
  BY <1>2, <1>7 DEF Curate, GetDecision, RelateDecision, ObserveDecisionOutcome,
     RecordPolicyException, RecordDecisionApproval, PersistLifecycleEvent, Checks, audit
<1>8. ASSUME NEW m \in Managers, PutPolicyVersion(m) PROVE MadeInv'
  BY <1>2, <1>8 DEF PutPolicyVersion, audit
<1> QED  BY <1>2, <1>4, <1>5, <1>6, <1>7, <1>8 DEF Next, decisionVars, audit

(* A listing goes on, the others are as they were.                         *)
LEMMA ListingMoves ==
  ASSUME StoreInv, StoreInv', StoreGrows, ListingInv,
         \/ UNCHANGED reader
         \/ \E r \in Readers : \E listing :
              reader' = [reader EXCEPT ![r] = listing] /\ ListInv(listing)'
  PROVE  ListingInv'
<1>1. ASSUME NEW r \in Readers, reader'[r] = reader[r] PROVE ListInv(reader[r])'
  <2>1. PICK listing : listing = reader[r]
    OBVIOUS
  <2>2. ListInv(listing)' /\ reader'[r] = listing
    BY <1>1, <2>1, ListingStays DEF ListingInv
  <2> QED  BY <2>2 DEF ListInv
<1>2. CASE UNCHANGED reader
  BY <1>1, <1>2 DEF ListingInv
<1>3. ASSUME NEW r \in Readers, NEW listing, reader' = [reader EXCEPT ![r] = listing],
             ListInv(listing)'
      PROVE  ListingInv'
  <2>1. DOMAIN reader' = Readers /\ reader'[r] = listing
        /\ \A q \in Readers \ {r} : reader'[q] = reader[q]
    BY <1>3 DEF ListingInv
  <2>2. ListInv(reader[r])'
    BY <1>3, <2>1 DEF ListInv
  <2> QED  BY <1>1, <2>1, <2>2 DEF ListingInv
<1> QED  BY <1>2, <1>3

LEMMA ListBegins ==
  ASSUME StoreInv, StoreInv', StoreGrows, ListingInv, NEW r \in Readers, NEW temporal,
         temporal.knownAt \in Times \cup {None}, BeginList(r, temporal)
  PROVE  ListingInv'
<1>1. PICK listing : listing = [pc |-> "current", temporal |-> temporal, since |-> Len(commits)]
  OBVIOUS
<1>2. ListInv(listing)
  <2>1. Len(commits) \in 0..Len(commits)
    BY DEF StoreInv
  <2> QED  BY <1>1, <2>1 DEF ListInv
<1>3. ListInv(listing)'
  BY <1>2, ListingStays
<1>4. reader' = [reader EXCEPT ![r] = listing]
  BY <1>1 DEF BeginList
<1> QED  BY <1>3, <1>4, ListingMoves

LEMMA ListStep ==
  ASSUME StoreInv, StoreInv', RecordsInv, StoreGrows, ListingInv, NEW r \in Readers, List(r)
  PROVE  ListingInv'
<1>1. PICK before : before = reader[r]
  OBVIOUS
<1>2. ListInv(before)
  BY <1>1 DEF ListingInv
<1>3. Len(commits) \in Nat /\ rows \in [Claims -> VersionType \cup {None}]
      /\ \A c \in Claims : Current(c, rows[c], Len(commits))
  BY DEF StoreInv, RecordsInv, ClaimInv
<1>4. ASSUME NEW listing, ListInv(listing), reader' = [reader EXCEPT ![r] = listing]
      PROVE  ListingInv'
  BY <1>4, ListingStays, ListingMoves
<1>5. ASSUME before.pc # "idle", before.since \in 0..Len(commits),
             before.temporal.knownAt \in Times \cup {None},
             NEW s \in before.since..Len(commits), NEW seen \in [Claims -> VersionType \cup {None}],
             \A c \in Claims : Current(c, seen[c], s),
             before.temporal.knownAt = None => s = Len(commits),
             EndList(r, [c \in Claims |-> Answer(c, seen[c], history[c], before.temporal)])
      PROVE  ListingInv'
  <2>1. PICK listing : listing =
          [pc |-> "listed", temporal |-> before.temporal, since |-> before.since,
           until |-> Len(commits),
           answer |-> [c \in Claims |-> Answer(c, seen[c], history[c], before.temporal)]]
    OBVIOUS
  <2>2. reader' = [reader EXCEPT ![r] = listing]
    BY <1>1, <1>5, <2>1 DEF EndList
  <2>3. ASSUME NEW c \in Claims
        PROVE  \/ Excused(c)
               \/ \E n \in listing.since..listing.until :
                    Right(c, listing.answer[c], n, listing.temporal)
    <3>1. CASE Excused(c)
      BY <3>1
    <3>2. CASE ~Excused(c)
      <4>1. s \in 0..Len(commits) /\ seen[c] \in VersionType \cup {None} /\ Current(c, seen[c], s)
        BY <1>3, <1>5
      <4>2. PICK n \in s..Len(commits) :
              Right(c, Answer(c, seen[c], history[c], before.temporal), n, before.temporal)
        BY <1>5, <3>2, <4>1, AnswerIsRight DEF Excused
      <4>3. n \in listing.since..listing.until
        BY <1>3, <1>5, <2>1, <4>1, <4>2
      <4> QED  BY <2>1, <4>2, <4>3
    <3> QED  BY <3>1, <3>2
  <2>4. ListInv(listing)
    <3>1. listing.until \in listing.since..Len(commits)
      BY <1>3, <1>5, <2>1
    <3> QED  BY <1>5, <2>1, <2>3, <3>1 DEF ListInv
  <2> QED  BY <1>4, <2>2, <2>4
<1>6. CASE ListAtOnce(r)
  <2>1. before.pc = "current" /\ EndList(r, [c \in Claims |-> AsOf(c, before.temporal)])
    BY <1>1, <1>6 DEF ListAtOnce
  <2>2. EndList(r, [c \in Claims |-> Answer(c, rows[c], history[c], before.temporal)])
    BY <2>1 DEF AsOf
  <2>3. before.since \in 0..Len(commits) /\ before.temporal.knownAt \in Times \cup {None}
    BY <1>2, <2>1 DEF ListInv
  <2>4. Len(commits) \in before.since..Len(commits)
    BY <1>3, <2>3
  <2> QED  BY <1>3, <1>5, <2>1, <2>2, <2>3, <2>4
<1>7. CASE ListCurrent(r)
  <2>1. before.pc = "current" /\ before.temporal.knownAt # None
    BY <1>1, <1>7 DEF ListCurrent
  <2>2. PICK listing : listing = [pc |-> "history", temporal |-> before.temporal,
                                  since |-> before.since, seen |-> rows]
    OBVIOUS
  <2>3. reader' = [reader EXCEPT ![r] = listing]
    BY <1>1, <1>7, <2>2 DEF ListCurrent
  <2>4. before.since \in 0..Len(commits) /\ before.temporal.knownAt \in Times \cup {None}
    BY <1>2, <2>1 DEF ListInv
  <2>5. Len(commits) \in before.since..Len(commits)
    BY <1>3, <2>4
  <2>6. ListInv(listing)
    BY <1>3, <2>1, <2>2, <2>4, <2>5 DEF ListInv
  <2> QED  BY <1>4, <2>3, <2>6
<1>8. CASE ListHistory(r)
  <2>1. before.pc = "history"
        /\ EndList(r, [c \in Claims |-> Answer(c, before.seen[c], history[c], before.temporal)])
    BY <1>1, <1>8 DEF ListHistory
  <2>2. /\ before.since \in 0..Len(commits) /\ before.temporal.knownAt \in Times \cup {None}
        /\ before.temporal.knownAt # None /\ before.seen \in [Claims -> VersionType \cup {None}]
    BY <1>2, <2>1 DEF ListInv
  <2>3. PICK s \in before.since..Len(commits) : \A c \in Claims : Current(c, before.seen[c], s)
    BY <1>2, <2>1 DEF ListInv
  <2> QED  BY <1>5, <2>1, <2>2, <2>3
<1> QED  BY <1>6, <1>7, <1>8 DEF List

LEMMA ListingInvStep ==
  ASSUME StoreInv, StoreInv', RecordsInv, MadeInv, AuditorInv, ListingInv, [Next]_decisionVars
  PROVE  ListingInv'
<1>1. StoreGrows
  BY StoreGrowsStep
<1>2. UNCHANGED reader => ListingInv'
  BY <1>1, ListingMoves
<1>3. CASE StoreStep
  <2>1. ASSUME NEW w \in Writers, Write(w) PROVE UNCHANGED reader
    BY <2>1 DEF Write, BuildAsserted, BuildRetracted, PutRead, PutArchive, PutUpsert, PutCommit,
       PutAtOnce, WriterFails
  <2>2. ASSUME NEW r \in Readers, NEW temporal \in Asked, BeginList(r, temporal)
        PROVE  ListingInv'
    <3>1. temporal.knownAt \in Times \cup {None}
      BY DecisionAssumption DEF Perspectives
    <3> QED  BY <1>1, <2>2, <3>1, ListBegins
  <2>3. ASSUME NEW r \in Readers, List(r) PROVE ListingInv'
    BY <1>1, <2>3, ListStep
  <2>4. Tick => UNCHANGED reader
    BY DEF Tick
  <2> QED  BY <1>2, <1>3, <2>1, <2>2, <2>3, <2>4 DEF StoreStep
<1>4. ASSUME NEW a \in Auditors, Audit(a) PROVE ListingInv'
  <2>1. ASSUME LoadPolicies(a) PROVE ListingInv'
    <3>1. PICK decision : decision = decisions[auditor[a].decision]
      OBVIOUS
    <3>2. auditor[a].decision \in DOMAIN decisions
      BY <2>1 DEF LoadPolicies, AuditorInv
    <3>3. SnapshotInv(decision)
      BY <3>1, <3>2 DEF MadeInv
    <3>4. decision.request.temporal \in Perspectives /\ decision.capturedAt \in Times
      BY <3>3, DecisionAssumption DEF SnapshotInv, SearchedInv
    <3>5. AuditPerspective(decision).knownAt \in Times \cup {None}
      BY <3>4 DEF AuditPerspective, KnownTo, Perspectives
    <3>6. BeginList(a, AuditPerspective(decision)) /\ a \in Readers
      BY <2>1, <3>1, DecisionAssumption DEF LoadPolicies
    <3> QED  BY <1>1, <3>5, <3>6, ListBegins
  <2> QED  BY <1>2, <1>4, <2>1
           DEF Audit, GetAuditedDecision, GetReceipt, ListEvents, ListLifecycle, storeVars
<1>5. ASSUME NEW d \in Deciders, Record(d) PROVE UNCHANGED reader
  BY <1>5 DEF Record, Decide, Search, PutReceipt, Capture, CommitDecision, DeciderFails, storeVars
<1>6. ASSUME NEW k \in Curators, Curate(k) PROVE UNCHANGED reader
  BY <1>6 DEF Curate, GetDecision, RelateDecision, ObserveDecisionOutcome,
     RecordPolicyException, RecordDecisionApproval, PersistLifecycleEvent, Checks, storeVars
<1>7. ASSUME NEW m \in Managers, PutPolicyVersion(m) PROVE UNCHANGED reader
  BY <1>7 DEF PutPolicyVersion, storeVars
<1> QED  BY <1>2, <1>3, <1>4, <1>5, <1>6, <1>7 DEF Next, decisionVars, storeVars

-----------------------------------------------------------------------------
(* There is one truth at a time, and it changes by commits only.           *)

LEMMA OneTruth ==
  ASSUME StoreInv, NEW c \in Claims, NEW n \in 0..Len(commits), NEW temporal,
         NEW x \in Truth(c, n, temporal), NEW y \in Truth(c, n, temporal)
  PROVE  x = y
<1> DEFINE known == {m \in Commits(c, n) :
                       temporal.knownAt = None \/ Committed(c, m).recordedAt <= temporal.knownAt}
           time(m) == IF temporal.knownAt = None THEN 0 ELSE Committed(c, m).recordedAt
           later(k, m) == time(k) > time(m) \/ (time(k) = time(m) /\ k > m)
<1>1. ASSUME NEW m \in known PROVE m \in Nat /\ time(m) \in Nat
  <2>1. m \in 0..n /\ Committed(c, m) \in VersionType
    BY CommitNumbers
  <2> QED  BY <2>1, BitemporalAssumption DEF VersionType, Times
<1>2. Truth(c, n, temporal) = {Committed(c, l) : l \in {i \in known : \A k \in known : ~later(k, i)}}
  BY DEF Truth
<1>3. PICK i \in known : x = Committed(c, i) /\ \A k \in known : ~later(k, i)
  <2> HIDE DEF known, later
  <2> QED  BY <1>2
<1>4. PICK j \in known : y = Committed(c, j) /\ \A k \in known : ~later(k, j)
  <2> HIDE DEF known, later
  <2> QED  BY <1>2
<1>5. ~later(i, j) /\ ~later(j, i)
  <2> HIDE DEF known, later
  <2> QED  BY <1>3, <1>4
<1>6. i \in Nat /\ j \in Nat /\ time(i) \in Nat /\ time(j) \in Nat
  <2> HIDE DEF known, time
  <2> QED  BY <1>1
<1>7. i = j
  <2> HIDE DEF known, time
  <2> QED  BY <1>5, <1>6
<1> QED  BY <1>3, <1>4, <1>7

(* A version of a claim that became known until some time, though only     *)
(* after so many commits.                                                  *)
KnownLate(c, since, time) ==
  \E n \in DOMAIN commits :
    n > since /\ commits[n].claim = c /\ commits[n].version.recordedAt <= time

LEMMA TruthStands ==
  ASSUME StoreInv, NEW c \in Claims, NEW temporal, temporal.knownAt # None,
         NEW m \in 0..Len(commits), NEW n \in m..Len(commits), ~KnownLate(c, m, temporal.knownAt)
  PROVE  Truth(c, n, temporal) = Truth(c, m, temporal)
<1> DEFINE known(i) == {k \in Commits(c, i) :
                          temporal.knownAt = None \/ Committed(c, k).recordedAt <= temporal.knownAt}
           time(k) == IF temporal.knownAt = None THEN 0 ELSE Committed(c, k).recordedAt
           later(k, l) == time(k) > time(l) \/ (time(k) = time(l) /\ k > l)
           last(S) == {Committed(c, i) : i \in {l \in S : \A k \in S : ~later(k, l)}}
<1>1. Len(commits) \in Nat /\ DOMAIN commits = 1..Len(commits) /\ n \in 0..Len(commits)
  BY DEF StoreInv
<1>2. ASSUME NEW k \in known(n) PROVE k <= m
  <2> SUFFICES ASSUME k > m PROVE FALSE
    BY <1>1 DEF Commits
  <2>1. k \in 0..n /\ k \in Commits(c, n) /\ Committed(c, k).recordedAt <= temporal.knownAt
    BY DEF Commits
  <2>2. k # 0 /\ k \in DOMAIN commits
    BY <1>1, <2>1
  <2>3. commits[k].claim = c /\ Committed(c, k) = commits[k].version
    BY <2>1, <2>2 DEF Commits, Committed
  <2> QED  BY <2>1, <2>2, <2>3 DEF KnownLate
<1>3. Commits(c, n) \subseteq Nat /\ \A k \in Commits(c, n) : k <= m => k \in Commits(c, m)
  BY <1>1 DEF Commits
<1>4. Commits(c, m) \subseteq Commits(c, n)
  BY <1>1 DEF Commits
<1>5. known(n) = known(m)
  <2>1. known(n) \subseteq known(m)
    BY <1>2, <1>3
  <2>2. known(m) \subseteq known(n)
    BY <1>4
  <2> QED  BY <2>1, <2>2
<1>6. Truth(c, n, temporal) = last(known(n)) /\ Truth(c, m, temporal) = last(known(m))
  BY DEF Truth
<1> HIDE DEF last, known
<1> QED  BY <1>5, <1>6

LEMMA AnswerStands ==
  ASSUME StoreInv, RecordsInv, NEW c \in Claims, ~Excused(c), NEW temporal,
         temporal.knownAt \in Times, temporal.knownAt # None, NEW since \in 0..Len(commits),
         ~KnownLate(c, since, temporal.knownAt), NEW n \in since..Len(commits),
         NEW answer, Right(c, answer, n, temporal)
  PROVE  answer = AsOf(c, temporal)
<1>1. Len(commits) \in Nat /\ Len(commits) \in 0..Len(commits) /\ Len(commits) \in since..Len(commits)
      /\ rows[c] \in VersionType \cup {None}
  BY DEF StoreInv
<1>2. Truth(c, n, temporal) = Truth(c, Len(commits), temporal)
  <2>1. Truth(c, n, temporal) = Truth(c, since, temporal)
    BY TruthStands
  <2>2. Truth(c, Len(commits), temporal) = Truth(c, since, temporal)
    BY <1>1, TruthStands
  <2> QED  BY <2>1, <2>2
<1>3. Right(c, AsOf(c, temporal), Len(commits), temporal)
  <2>1. Current(c, rows[c], Len(commits))
    BY DEF RecordsInv, ClaimInv
  <2>2. PICK m \in Len(commits)..Len(commits) :
          Right(c, Answer(c, rows[c], history[c], temporal), m, temporal)
    BY <1>1, <2>1, AnswerIsRight DEF Excused
  <2> QED  BY <1>1, <2>2 DEF AsOf
<1>4. PICK said : said = {version \in Truth(c, n, temporal) : VisibleAt(c, version, temporal)}
  OBVIOUS
<1>5. IF answer = None THEN said = {} ELSE answer \in said
  BY <1>4 DEF Right
<1>6. IF AsOf(c, temporal) = None THEN said = {} ELSE AsOf(c, temporal) \in said
  BY <1>2, <1>3, <1>4 DEF Right
<1>7. \A x, y \in said : x = y
  <2>1. n \in 0..Len(commits) /\ said \subseteq Truth(c, n, temporal)
    BY <1>1, <1>4
  <2> QED  BY <2>1, OneTruth
<1> QED  BY <1>5, <1>6, <1>7

-----------------------------------------------------------------------------
(* A claim the decision was made with is in an audit. What had been        *)
(* committed when the decider searched was known by the time of the        *)
(* snapshot; so if the request names no time, the last version that had    *)
(* been committed is also the last that was recorded until the snapshot,   *)
(* unless one was overtaken.                                               *)

Gone(c, decision) == Overtaken(c) \/ Excused(c) \/ KnownLate(c, decision.searched, KnownTo(decision))

LEMMA RecordedInOrder ==
  ASSUME StoreInv, NEW c \in Claims, ~Overtaken(c), NEW n \in 0..Len(commits),
         NEW l \in Commits(c, n), NEW m \in Commits(c, n), l < m
  PROVE  Committed(c, l).recordedAt <= Committed(c, m).recordedAt
<1>1. l \in 0..n /\ m \in 0..n /\ Len(commits) \in Nat /\ DOMAIN commits = 1..Len(commits)
  BY DEF Commits, StoreInv
<1>2. Committed(c, l).recordedAt \in Nat /\ Committed(c, m).recordedAt \in Nat
  <2>1. Committed(c, l) \in VersionType /\ Committed(c, m) \in VersionType
    BY CommitNumbers
  <2> QED  BY <2>1, BitemporalAssumption DEF VersionType, Times
<1>3. CASE l = 0
  BY <1>2, <1>3 DEF Committed, Version
<1>4. CASE l # 0
  <2>1. l \in DOMAIN commits /\ m \in DOMAIN commits /\ m # 0
    BY <1>1, <1>4
  <2>2. /\ commits[l].claim = c /\ commits[m].claim = c
        /\ Committed(c, l) = commits[l].version /\ Committed(c, m) = commits[m].version
    BY <1>4, <2>1 DEF Commits, Committed
  <2>3. ~(Committed(c, l).recordedAt > Committed(c, m).recordedAt)
    BY <2>1, <2>2 DEF Overtaken
  <2> QED  BY <1>2, <2>3
<1> QED  BY <1>3, <1>4

LEMMA AuditFindsClaim ==
  ASSUME StoreInv, NEW decision, SnapshotInv(decision), NEW c \in decision.claims,
         ~Gone(c, decision), NEW n \in decision.searched..Len(commits)
  PROVE  ~Right(c, None, n, AuditPerspective(decision))
<1> DEFINE temporal == decision.request.temporal
           known == AuditPerspective(decision)
           m == decision.searched
<1>1. /\ c \in Claims /\ temporal \in Perspectives /\ decision.capturedAt \in Times
      /\ Len(commits) \in Nat /\ m \in 0..Len(commits)
  BY DecisionAssumption DEF SnapshotInv, SearchedInv, StoreInv
<1>2. n \in 0..Len(commits)
  BY <1>1
<1>3. /\ known.validAt = temporal.validAt /\ known.knownAt = KnownTo(decision)
      /\ KnownTo(decision) \in Times /\ KnownTo(decision) # None
      /\ KnownTo(decision) = IF temporal.knownAt = None THEN decision.capturedAt ELSE temporal.knownAt
  BY <1>1, BitemporalAssumption DEF AuditPerspective, KnownTo, Perspectives, Times
<1>4. Truth(c, n, known) = Truth(c, m, known)
  <2>1. ~KnownLate(c, m, known.knownAt)
    BY <1>3 DEF Gone
  <2> QED  BY <1>1, <1>3, <2>1, TruthStands
<1>5. PICK version \in VersionType : Right(c, version, m, temporal)
  BY DEF SnapshotInv, SearchedInv, Gone
<1>6. version \in Truth(c, m, temporal) /\ VisibleAt(c, version, temporal) /\ version # None
  BY <1>5, NoneIsNoVersion DEF Right
<1>7. version \in Truth(c, m, known) /\ KnownAt(version, known.knownAt)
  <2>1. CASE temporal.knownAt # None
    <3>1. known.knownAt = temporal.knownAt
      BY <1>3, <2>1
    <3>2. Truth(c, m, known) = Truth(c, m, temporal)
      BY <3>1 DEF Truth
    <3> QED  BY <1>6, <3>1, <3>2 DEF VisibleAt
  <2>2. CASE temporal.knownAt = None
    <3>1. PICK i \in Commits(c, m) : version = Committed(c, i) /\ \A k \in Commits(c, m) : ~(k > i)
      BY <1>6, <2>2 DEF Truth
    <3>2. ASSUME NEW k \in Commits(c, m)
          PROVE  /\ k \in Nat /\ Committed(c, k).recordedAt \in Nat
                 /\ Committed(c, k).recordedAt <= known.knownAt
      <4>1. k \in 0..m /\ Committed(c, k) \in VersionType
        BY <1>1, CommitNumbers
      <4>2. Committed(c, k).recordedAt \in Nat /\ known.knownAt \in Nat
            /\ known.knownAt = decision.capturedAt
        BY <1>3, <2>2, <4>1, BitemporalAssumption DEF VersionType, Times
      <4>3. CASE k = 0
        BY <4>2, <4>3 DEF Committed, Version
      <4>4. CASE k # 0
        <5>1. k \in 1..m
          BY <1>1, <4>1, <4>4
        <5>2. commits[k].version.recordedAt <= decision.capturedAt
          BY <5>1 DEF SnapshotInv
        <5> QED  BY <4>1, <4>2, <4>4, <5>2 DEF Committed
      <4> QED  BY <4>1, <4>2, <4>3, <4>4
    <3>3. ASSUME NEW k \in Commits(c, m)
          PROVE  \/ Committed(c, k).recordedAt < Committed(c, i).recordedAt
                 \/ Committed(c, k).recordedAt = Committed(c, i).recordedAt /\ k <= i
      <4>1. CASE k = i
        BY <3>2, <4>1
      <4>2. CASE k # i
        <5>1. k < i
          BY <3>1, <3>2, <4>2
        <5>2. Committed(c, k).recordedAt <= Committed(c, i).recordedAt
          BY <1>1, <5>1, RecordedInOrder DEF Gone
        <5> QED  BY <3>2, <5>1, <5>2
      <4> QED  BY <4>1, <4>2
    <3>4. Truth(c, m, known) = {Committed(c, i)}
      <4> HIDE DEF known, m
      <4> QED  BY <1>1, <1>3, <3>2, <3>3, TruthIs
    <3> QED  BY <3>1, <3>2, <3>4 DEF KnownAt
  <2> QED  BY <2>1, <2>2
<1>8. VisibleAt(c, version, known)
  BY <1>3, <1>6, <1>7 DEF VisibleAt
<1> QED  BY <1>4, <1>7, <1>8 DEF Right

-----------------------------------------------------------------------------
(* The events: only a relation has another decision it leads to.           *)

Added == {"related", "outcome", "exception", "approval"}
EventType == [kind : Added \cup {"recorded"}, decision : Deciders, related : Deciders \cup {None},
              by : Deciders \cup Curators]

Leads(event) == event.related # None => event.kind = "related"

CuratorType ==
  [pc : {"idle", "done"}]
    \cup [pc : {"check"}, kind : Added, decision : Deciders]
    \cup [pc : {"write"}, kind : Added, decision : Deciders, related : Deciders \cup {None}]

LogInv ==
  /\ DOMAIN curator = Curators
  /\ \A k \in Curators :
       curator[k] \in CuratorType /\ (curator[k].pc = "write" => Leads(curator[k]))
  /\ log \in Seq(EventType)
  /\ \A event \in Range(log) : Leads(event)

LEMMA LogInvInit == Init => LogInv
BY DEF Init, LogInv, CuratorType, Idle, Range

LEMMA LogAppends ==
  ASSUME LogInv, NEW event \in EventType, Leads(event), log' = Append(log, event)
  PROVE  /\ log' \in Seq(EventType) /\ Range(log)' = Range(log) \cup {event}
         /\ \A e \in Range(log)' : Leads(e)
<1>1. log \in Seq(EventType) /\ Len(log) \in Nat /\ DOMAIN log = 1..Len(log)
  BY DEF LogInv
<1>2. /\ log' \in Seq(EventType) /\ DOMAIN log' = 1..(Len(log) + 1)
      /\ log'[Len(log) + 1] = event /\ \A n \in 1..Len(log) : log'[n] = log[n]
  BY <1>1
<1>3. Range(log)' = Range(log) \cup {event}
  <2>1. Range(log)' = {log'[n] : n \in 1..(Len(log) + 1)} /\ Range(log) = {log[n] : n \in 1..Len(log)}
    BY <1>1, <1>2 DEF Range
  <2>2. 1..(Len(log) + 1) = 1..Len(log) \cup {Len(log) + 1}
    BY <1>1
  <2> QED  BY <1>2, <2>1, <2>2
<1>4. \A e \in Range(log) : Leads(e)
  BY DEF LogInv
<1> QED  BY <1>2, <1>3, <1>4

LEMMA LogInvStep ==
  ASSUME DeciderInv, DecisionInv, LogInv, [Next]_decisionVars
  PROVE  LogInv' /\ Range(log) \subseteq Range(log)'
<1> DEFINE Goal == LogInv' /\ Range(log) \subseteq Range(log)'
<1>1. UNCHANGED <<log, curator>> => Goal
  BY DEF LogInv, Range
<1>2. ASSUME NEW k \in Curators, NEW next, next \in CuratorType, next.pc = "write" => Leads(next),
             curator' = [curator EXCEPT ![k] = next], UNCHANGED log
      PROVE  Goal
  BY <1>2 DEF LogInv, Range
<1>3. ASSUME NEW k \in Curators, Curate(k) PROVE Goal
  <2>0. curator[k] \in CuratorType /\ (curator[k].pc = "write" => Leads(curator[k]))
    BY DEF LogInv
  <2>1. ASSUME Refused(k), UNCHANGED log PROVE Goal
    <3>1. [pc |-> "done"] \in CuratorType
      BY DEF CuratorType
    <3> QED  BY <1>2, <2>1, <3>1 DEF Refused, CuratorGoes
  <2>2. ASSUME NEW kind \in Added, NEW related \in Deciders \cup {None},
               related # None => kind = "related", curator[k].pc = "check",
               Checked(k, kind, related), UNCHANGED log
        PROVE  Goal
    <3>1. curator[k].decision \in Deciders
      BY <2>0, <2>2 DEF CuratorType
    <3>2. PICK next : next = [pc |-> "write", kind |-> kind, decision |-> curator[k].decision,
                              related |-> related]
      OBVIOUS
    <3>3. next \in CuratorType /\ Leads(next)
      BY <2>2, <3>1, <3>2 DEF CuratorType, Leads
    <3> QED  BY <1>2, <2>2, <3>2, <3>3 DEF Checked, CuratorGoes
  <2>3. CASE GetDecision(k)
    <3>1. PICK d \in Deciders, kind \in {"related", "outcome", "exception", "approval"} :
            CuratorGoes(k, IF d \in DOMAIN decisions
                           THEN [pc |-> "check", kind |-> kind, decision |-> d]
                           ELSE [pc |-> "done"])
      BY <2>3 DEF GetDecision
    <3>2. PICK next : next = IF d \in DOMAIN decisions
                             THEN [pc |-> "check", kind |-> kind, decision |-> d]
                             ELSE [pc |-> "done"]
      OBVIOUS
    <3>3. next \in CuratorType /\ next.pc # "write"
      BY <3>2 DEF CuratorType, Added
    <3> QED  BY <1>2, <2>3, <3>1, <3>2, <3>3 DEF GetDecision, CuratorGoes, audit
  <2>4. CASE RelateDecision(k)
    BY <2>1, <2>2, <2>4 DEF RelateDecision, Checks, Added, audit
  <2>5. CASE ObserveDecisionOutcome(k)
    BY <2>1, <2>2, <2>5 DEF ObserveDecisionOutcome, Checks, Added, audit
  <2>6. CASE RecordPolicyException(k)
    BY <2>1, <2>2, <2>6 DEF RecordPolicyException, Checks, Added, audit
  <2>7. CASE RecordDecisionApproval(k)
    BY <2>1, <2>2, <2>7 DEF RecordDecisionApproval, Checks, Added, audit
  <2>8. CASE PersistLifecycleEvent(k)
    <3>1. curator[k].pc = "write" /\ log' = Append(log, LifecycleRecord(k))
          /\ curator' = [curator EXCEPT ![k] = [pc |-> "done"]]
      BY <2>8 DEF PersistLifecycleEvent, CuratorGoes
    <3>2. LifecycleRecord(k) \in EventType /\ Leads(LifecycleRecord(k))
      BY <2>0, <3>1 DEF CuratorType, EventType, LifecycleRecord, Leads
    <3>3. /\ log' \in Seq(EventType) /\ Range(log) \subseteq Range(log)'
          /\ \A e \in Range(log)' : Leads(e)
      BY <3>1, <3>2, LogAppends
    <3>4. DOMAIN curator' = Curators
          /\ \A j \in Curators : curator'[j] = IF j = k THEN [pc |-> "done"] ELSE curator[j]
      BY <3>1 DEF LogInv
    <3>5. \A j \in Curators :
            curator'[j] \in CuratorType /\ (curator'[j].pc = "write" => Leads(curator'[j]))
      BY <3>4 DEF LogInv, CuratorType
    <3> QED  BY <3>3, <3>4, <3>5 DEF LogInv, Leads
  <2> QED  BY <1>3, <2>3, <2>4, <2>5, <2>6, <2>7, <2>8 DEF Curate
<1>4. ASSUME NEW d \in Deciders, Record(d) PROVE Goal
  <2>1. CASE CommitDecision(d)
    <3>1. PICK event : event = [kind |-> "recorded", decision |-> d, related |-> None, by |-> d]
      OBVIOUS
    <3>2. event \in EventType /\ Leads(event) /\ log' = Append(log, event) /\ UNCHANGED curator
      BY <2>1, <3>1 DEF EventType, Leads, CommitDecision
    <3>3. /\ log' \in Seq(EventType) /\ Range(log) \subseteq Range(log)'
          /\ \A e \in Range(log)' : Leads(e)
      BY <3>2, LogAppends
    <3> QED  BY <3>2, <3>3 DEF LogInv, Leads
  <2> QED  BY <1>1, <1>4, <2>1 DEF Record, Decide, Search, PutReceipt, Capture, DeciderFails, audit
<1>5. CASE StoreStep
  BY <1>1, <1>5 DEF StoreStep, audit
<1>6. ASSUME NEW a \in Auditors, Audit(a) PROVE Goal
  BY <1>1, <1>6
     DEF Audit, GetAuditedDecision, GetReceipt, LoadPolicies, ListEvents, ListLifecycle, audit
<1>7. ASSUME NEW m \in Managers, PutPolicyVersion(m) PROVE Goal
  BY <1>1, <1>7 DEF PutPolicyVersion, audit
<1> QED  BY <1>1, <1>3, <1>4, <1>5, <1>6, <1>7 DEF Next, decisionVars, audit

-----------------------------------------------------------------------------
(* What an audit has found so far.                                         *)

Concerns(event, d) == event.decision = d \/ event.related = d

EventsFound(found) ==
  /\ found.base \cap found.events = {}
  /\ \A event \in found.began : event.decision = found.decision => event \in found.base
  /\ "events" \notin found.left =>
       \A event \in found.began :
         Concerns(event, found.decision) => event \in found.base \cup found.events
  /\ \A list \in DOMAIN Lists \ found.left :
       /\ list \in DOMAIN found.lists
       /\ \A event \in found.began :
            event.kind = Lists[list] /\ Concerns(event, found.decision) =>
              event \in found.lists[list]

(* listing is what the store answers to the audit.                         *)
FoundInv(found, listing) ==
  /\ found.pc \in {"idle", "receipt", "policies", "claims", "lifecycle", "done"}
  /\ found.pc # "idle" => found.decision \in DOMAIN decisions /\ found.began \subseteq Range(log)
  /\ found.pc = "claims" =>
       /\ listing.pc # "idle"
       /\ listing.temporal = AuditPerspective(decisions[found.decision])
       /\ decisions[found.decision].searched <= listing.since
  /\ found.pc \in {"lifecycle", "done"} =>
       /\ \A c \in decisions[found.decision].claims \ found.claims :
            Gone(c, decisions[found.decision])
       /\ EventsFound(found)
  /\ found.pc = "done" => found.left = {}

AuditInv == \A a \in Auditors : FoundInv(auditor[a], reader[a])

LEMMA GoneStays ==
  ASSUME StoreInv, StoreInv', StoreGrows, NEW decision, NEW c \in Claims, Gone(c, decision)
  PROVE  Gone(c, decision)'
<1>0. commits' \in Seq(EntryType)
  BY DEF StoreInv
<1>1. DOMAIN commits \subseteq DOMAIN commits' /\ \A n \in DOMAIN commits : commits'[n] = commits[n]
  <2>1. Len(commits) \in Nat /\ DOMAIN commits = 1..Len(commits)
    BY DEF StoreInv
  <2>2. Len(commits') \in Nat /\ DOMAIN commits' = 1..Len(commits')
    BY <1>0
  <2>3. Len(commits) <= Len(commits') /\ \A n \in 1..Len(commits) : commits'[n] = commits[n]
    BY DEF StoreGrows, Extended
  <2> QED  BY <2>1, <2>2, <2>3
<1>2. Excused(c) => Excused(c)'
  BY ExcusedStays
<1>3. Overtaken(c) => Overtaken(c)'
  BY <1>1 DEF Overtaken
<1>4. KnownLate(c, decision.searched, KnownTo(decision)) =>
        KnownLate(c, decision.searched, KnownTo(decision))'
  BY <1>1 DEF KnownLate, KnownTo
<1> QED  BY <1>2, <1>3, <1>4 DEF Gone

(* Nothing that is found is lost, while the listing goes on.               *)
LEMMA FoundStays ==
  ASSUME StoreInv, StoreInv', StoreGrows, MadeInv, Range(log) \subseteq Range(log)',
         DOMAIN decisions \subseteq DOMAIN decisions',
         \A d \in DOMAIN decisions : decisions'[d] = decisions[d],
         NEW found, NEW listing, NEW next, FoundInv(found, listing),
         listing.pc # "idle" =>
           next.pc # "idle" /\ next.temporal = listing.temporal /\ next.since = listing.since
  PROVE  FoundInv(found, next)'
<1>1. CASE found.pc = "idle"
  BY <1>1 DEF FoundInv
<1>2. CASE found.pc # "idle"
  <2>1. found.decision \in DOMAIN decisions /\ found.began \subseteq Range(log)
    BY <1>2 DEF FoundInv
  <2>2. PICK decision : decision = decisions[found.decision]
    OBVIOUS
  <2>3. decisions'[found.decision] = decision /\ found.decision \in DOMAIN decisions'
    BY <2>1, <2>2
  <2>4. decision.claims \subseteq Claims
    BY <2>1, <2>2 DEF MadeInv, SnapshotInv, SearchedInv
  <2>5. ASSUME found.pc \in {"lifecycle", "done"}, NEW c \in decision.claims \ found.claims
        PROVE  Gone(c, decision)'
    BY <2>2, <2>4, <2>5, GoneStays DEF FoundInv
  <2>6. AuditPerspective(decision)' = AuditPerspective(decision)
    BY DEF AuditPerspective, KnownTo
  <2>7. EventsFound(found)' <=> EventsFound(found)
    BY DEF EventsFound, Concerns, Lists
  <2> QED  BY <2>1, <2>2, <2>3, <2>5, <2>6, <2>7 DEF FoundInv, Gone, AuditPerspective, KnownTo
<1> QED  BY <1>1, <1>2

ListingKeeps(a) ==
  reader[a].pc # "idle" =>
    /\ reader'[a].pc # "idle" /\ reader'[a].temporal = reader[a].temporal
    /\ reader'[a].since = reader[a].since

LEMMA ListingsKeep ==
  ASSUME ListingInv, StoreStep
  PROVE  \A a \in Auditors : ListingKeeps(a)
<1>1. UNCHANGED reader => \A a \in Auditors : ListingKeeps(a)
  BY DEF ListingKeeps
<1>2. ASSUME NEW w \in Writers, Write(w) PROVE UNCHANGED reader
  BY <1>2 DEF Write, BuildAsserted, BuildRetracted, PutRead, PutArchive, PutUpsert, PutCommit,
     PutAtOnce, WriterFails
<1>3. ASSUME NEW r \in Readers \ Auditors, NEW temporal, BeginList(r, temporal)
      PROVE  \A a \in Auditors : ListingKeeps(a)
  BY <1>3, DecisionAssumption DEF BeginList, ListingInv, ListingKeeps
<1>4. ASSUME NEW r \in Readers, NEW answer, EndList(r, answer)
      PROVE  \A a \in Auditors : ListingKeeps(a)
  BY <1>4, DecisionAssumption DEF EndList, ListingInv, ListingKeeps
<1>5. ASSUME NEW r \in Readers, List(r) PROVE \A a \in Auditors : ListingKeeps(a)
  <2>1. CASE ListAtOnce(r) \/ ListHistory(r)
    BY <1>4, <2>1 DEF ListAtOnce, ListHistory
  <2>2. CASE ListCurrent(r)
    BY <2>2, DecisionAssumption DEF ListCurrent, ListingInv, ListingKeeps
  <2> QED  BY <1>5, <2>1, <2>2 DEF List
<1>6. Tick => UNCHANGED reader
  BY DEF Tick
<1> QED  BY <1>1, <1>2, <1>3, <1>5, <1>6 DEF StoreStep

LEMMA DecisionsGrow ==
  ASSUME DeciderInv, [Next]_decisionVars
  PROVE  /\ DOMAIN decisions \subseteq DOMAIN decisions'
         /\ \A d \in DOMAIN decisions : decisions'[d] = decisions[d]
<1> DEFINE Goal == /\ DOMAIN decisions \subseteq DOMAIN decisions'
                   /\ \A d \in DOMAIN decisions : decisions'[d] = decisions[d]
<1>1. UNCHANGED decisions => Goal
  OBVIOUS
<1>2. ASSUME NEW d \in Deciders, Record(d) PROVE Goal
  <2>1. CASE CommitDecision(d)
    <3>1. d \notin DOMAIN decisions
      BY <2>1 DEF CommitDecision, DeciderInv
    <3> QED  BY <2>1, <3>1 DEF CommitDecision
  <2> QED  BY <1>1, <1>2, <2>1 DEF Record, Decide, Search, PutReceipt, Capture, DeciderFails, audit
<1>3. StoreStep => Goal
  BY <1>1 DEF StoreStep, audit
<1>4. ASSUME NEW a \in Auditors, Audit(a) PROVE Goal
  BY <1>1, <1>4
     DEF Audit, GetAuditedDecision, GetReceipt, LoadPolicies, ListEvents, ListLifecycle, audit
<1>5. ASSUME NEW k \in Curators, Curate(k) PROVE Goal
  BY <1>1, <1>5 DEF Curate, GetDecision, RelateDecision, ObserveDecisionOutcome,
     RecordPolicyException, RecordDecisionApproval, PersistLifecycleEvent, Checks, audit
<1>6. ASSUME NEW m \in Managers, PutPolicyVersion(m) PROVE Goal
  BY <1>1, <1>6 DEF PutPolicyVersion, audit
<1> QED  BY <1>1, <1>2, <1>3, <1>4, <1>5, <1>6 DEF Next, decisionVars, audit

(* An audit goes on.                                                       *)
LEMMA AuditMoves ==
  ASSUME StoreInv, StoreInv', MadeInv, AuditorInv, AuditInv,
         UNCHANGED <<records, decisions, log>>, NEW a \in Auditors, NEW next,
         auditor' = [auditor EXCEPT ![a] = next], NEW listing, reader'[a] = listing,
         \A b \in Auditors \ {a} : ListingKeeps(b), FoundInv(next, listing)
  PROVE  AuditInv'
<1>1. StoreGrows /\ Range(log) \subseteq Range(log)'
  BY NothingGrows DEF Range
<1>2. auditor'[a] = next /\ \A b \in Auditors \ {a} : auditor'[b] = auditor[b]
  BY DEF AuditorInv
<1>3. ASSUME NEW b \in Auditors \ {a} PROVE FoundInv(auditor[b], reader[b])'
  <2>1. PICK found : found = auditor[b]
    OBVIOUS
  <2>2. PICK told : told = reader[b]
    OBVIOUS
  <2>3. PICK tells : tells = reader'[b]
    OBVIOUS
  <2>4. FoundInv(found, told)
    BY <2>1, <2>2 DEF AuditInv
  <2>5. FoundInv(found, tells)'
    BY <1>1, <2>2, <2>3, <2>4, FoundStays DEF ListingKeeps
  <2> QED  BY <1>2, <2>1, <2>3, <2>5 DEF FoundInv
<1>4. FoundInv(next, listing)'
  BY <1>1, FoundStays
<1>5. FoundInv(auditor[a], reader[a])'
  BY <1>2, <1>4 DEF FoundInv
<1> QED  BY <1>3, <1>5 DEF AuditInv

LEMMA AuditInvStay ==
  ASSUME StoreInv, StoreInv', StoreGrows, MadeInv, AuditInv, UNCHANGED auditor,
         Range(log) \subseteq Range(log)',
         DOMAIN decisions \subseteq DOMAIN decisions',
         \A d \in DOMAIN decisions : decisions'[d] = decisions[d],
         \A a \in Auditors : ListingKeeps(a)
  PROVE  AuditInv'
<1>1. ASSUME NEW b \in Auditors PROVE FoundInv(auditor[b], reader[b])'
  <2>1. PICK found : found = auditor[b]
    OBVIOUS
  <2>2. PICK told : told = reader[b]
    OBVIOUS
  <2>3. PICK tells : tells = reader'[b]
    OBVIOUS
  <2>4. FoundInv(found, told)
    BY <2>1, <2>2 DEF AuditInv
  <2>5. FoundInv(found, tells)'
    BY <2>2, <2>3, <2>4, FoundStays DEF ListingKeeps
  <2> QED  BY <2>1, <2>3, <2>5 DEF FoundInv
<1> QED  BY <1>1 DEF AuditInv

LEMMA AuditGoesOn ==
  ASSUME StoreInv, StoreInv', MadeInv, AuditorInv, ListingInv, LogInv, DecisionInv, AuditInv,
         NEW a \in Auditors, Audit(a)
  PROVE  AuditInv'
<1>1. PICK before : before = auditor[a]
  OBVIOUS
<1>2. PICK listing : listing = reader[a]
  OBVIOUS
<1>3. FoundInv(before, listing)
  BY <1>1, <1>2 DEF AuditInv
<1>4. UNCHANGED <<records, decisions, log>>
  BY DEF Audit, GetAuditedDecision, GetReceipt, LoadPolicies, ListEvents, ListLifecycle, audit,
     storeVars
<1>5. ASSUME UNCHANGED reader, NEW next, auditor' = [auditor EXCEPT ![a] = next],
             FoundInv(next, listing)
      PROVE  AuditInv'
  <2>1. reader'[a] = listing /\ \A b \in Auditors \ {a} : ListingKeeps(b)
    BY <1>2, <1>5 DEF ListingKeeps
  <2> QED  BY <1>4, <1>5, <2>1, AuditMoves
<1>6. CASE GetAuditedDecision(a)
  <2>1. PICK d \in DOMAIN decisions :
          auditor' = [auditor EXCEPT ![a] = [pc |-> "receipt", decision |-> d, began |-> Range(log)]]
    BY <1>6 DEF GetAuditedDecision
  <2>2. PICK next : next = [pc |-> "receipt", decision |-> d, began |-> Range(log)]
    OBVIOUS
  <2>3. FoundInv(next, listing)
    BY <2>2 DEF FoundInv
  <2> QED  BY <1>5, <1>6, <2>1, <2>2, <2>3 DEF GetAuditedDecision, storeVars
<1>7. CASE GetReceipt(a)
  <2>1. PICK next : next = [pc |-> "policies", decision |-> before.decision, began |-> before.began,
                            receipt |-> before.decision \in receipts]
    OBVIOUS
  <2>2. before.pc = "receipt" /\ auditor' = [auditor EXCEPT ![a] = next]
    BY <1>1, <1>7, <2>1 DEF GetReceipt
  <2>3. FoundInv(next, listing)
    <3>1. next.pc = "policies" /\ next.decision = before.decision /\ next.began = before.began
      BY <2>1
    <3> QED  BY <1>3, <2>2, <3>1 DEF FoundInv
  <2> QED  BY <1>5, <1>7, <2>2, <2>3 DEF GetReceipt, storeVars
<1>8. CASE LoadPolicies(a)
  <2>1. PICK decision : decision = decisions[before.decision]
    OBVIOUS
  <2>2. PICK next : next =
          [pc |-> "claims", decision |-> before.decision, began |-> before.began,
           receipt |-> before.receipt,
           policies |-> {policy \in policies : \E ref \in decision.refs :
                           Ref(policy).versionId = ref.versionId /\ policy.version = ref.version}]
    OBVIOUS
  <2>3. before.pc = "policies" /\ auditor' = [auditor EXCEPT ![a] = next]
        /\ BeginList(a, AuditPerspective(decision))
    BY <1>1, <1>8, <2>1, <2>2 DEF LoadPolicies
  <2>4. PICK asked : asked = [pc |-> "current", temporal |-> AuditPerspective(decision),
                              since |-> Len(commits)]
    OBVIOUS
  <2>5. reader'[a] = asked /\ \A b \in Auditors \ {a} : reader'[b] = reader[b]
    BY <2>3, <2>4, DecisionAssumption DEF BeginList, ListingInv
  <2>6. before.decision \in DOMAIN decisions /\ before.began \subseteq Range(log)
    BY <1>3, <2>3 DEF FoundInv
  <2>7. decision.searched <= Len(commits)
    BY <2>1, <2>6 DEF MadeInv, SnapshotInv, SearchedInv, StoreInv
  <2>8. FoundInv(next, asked)
    <3>1. next.pc = "claims" /\ next.decision = before.decision /\ next.began = before.began
      BY <2>2
    <3> QED  BY <2>1, <2>4, <2>6, <2>7, <3>1 DEF FoundInv
  <2>9. \A b \in Auditors \ {a} : ListingKeeps(b)
    BY <2>5 DEF ListingKeeps
  <2> QED  BY <1>4, <2>3, <2>5, <2>8, <2>9, AuditMoves
<1>9. CASE ListEvents(a)
  <2>1. PICK d : d = before.decision
    OBVIOUS
  <2>2. PICK decision : decision = decisions[d]
    OBVIOUS
  <2>3. PICK next : next =
          [pc |-> "lifecycle", decision |-> d, began |-> before.began, receipt |-> before.receipt,
           policies |-> before.policies,
           claims |-> {c \in decision.claims : listing.answer[c] # None},
           base |-> {event \in Range(log) : TouchesContext(event, d)},
           lists |-> [list \in {} |-> {}],
           events |-> {}, left |-> DOMAIN Lists \cup {"events"}]
    OBVIOUS
  <2>4. /\ before.pc = "claims" /\ listing.pc = "listed"
        /\ auditor' = [auditor EXCEPT ![a] = next]
    BY <1>1, <1>2, <1>9, <2>1, <2>2, <2>3 DEF ListEvents
  <2>5. /\ d \in DOMAIN decisions /\ before.began \subseteq Range(log)
        /\ listing.temporal = AuditPerspective(decision) /\ decision.searched <= listing.since
    BY <1>3, <2>1, <2>2, <2>4 DEF FoundInv
  <2>6. SnapshotInv(decision) /\ decision.claims \subseteq Claims
        /\ decision.searched \in 0..Len(commits) /\ Len(commits) \in Nat
    <3>1. SnapshotInv(decision)
      BY <2>2, <2>5 DEF MadeInv
    <3>2. Len(commits) \in Nat
      BY DEF StoreInv
    <3> QED  BY <3>1, <3>2 DEF SnapshotInv, SearchedInv
  <2>7. a \in Readers /\ ListInv(listing)
    BY <1>2, DecisionAssumption DEF ListingInv
  <2>8. ASSUME NEW c \in decision.claims \ next.claims PROVE Gone(c, decision)
    <3> SUFFICES ASSUME ~Gone(c, decision) PROVE FALSE
      OBVIOUS
    <3>1. c \in Claims /\ listing.answer[c] = None
      BY <2>3, <2>6
    <3>2. PICK n \in listing.since..listing.until :
            Right(c, listing.answer[c], n, listing.temporal)
      BY <2>4, <2>7, <3>1 DEF ListInv, Gone
    <3>3. /\ listing.since \in 0..Len(commits) /\ listing.until \in listing.since..Len(commits)
      BY <2>4, <2>7 DEF ListInv
    <3>4. n \in decision.searched..Len(commits)
      BY <2>5, <2>6, <3>2, <3>3
    <3> QED  BY <2>5, <2>6, <3>1, <3>2, <3>4, AuditFindsClaim
  <2>9. /\ next.pc = "lifecycle" /\ next.decision = d /\ next.began = before.began
        /\ next.base = {event \in Range(log) : event.decision = d} /\ next.events = {}
        /\ next.left = DOMAIN Lists \cup {"events"}
    BY <2>3 DEF TouchesContext
  <2>10. EventsFound(next)
    BY <2>5, <2>9 DEF EventsFound
  <2>11. FoundInv(next, listing)
    BY <2>2, <2>5, <2>8, <2>9, <2>10 DEF FoundInv
  <2> QED  BY <1>5, <1>9, <2>4, <2>11 DEF ListEvents, storeVars
<1>10. CASE ListLifecycle(a)
  <2>1. before.pc = "lifecycle" /\ {"pc", "lists", "events", "left"} \subseteq DOMAIN before
    BY <1>1, <1>10 DEF ListLifecycle, AuditorInv
  <2>2. PICK d : d = before.decision
    OBVIOUS
  <2> DEFINE found(kind) == {event \in Range(log) : event.kind = kind /\ Matches(event, d)}
             left(list) == before.left \ {list}
             lists(list) == IF list = "events" THEN before.lists
                            ELSE [l \in DOMAIN before.lists \cup {list} |->
                                    IF l = list THEN found(Lists[l]) ELSE before.lists[l]]
             events(list) == IF list # "events" THEN before.events
                             ELSE {event \in Range(log) : TouchesDecision(event, d)} \ before.base
             place(list) == IF before.left = {list} THEN "done" ELSE before.pc
  <2>3. PICK list \in before.left : auditor' = [auditor EXCEPT ![a] =
          [before EXCEPT !.left = left(list), !.lists = lists(list), !.events = events(list),
                         !.pc = place(list)]]
    <3>1. PICK list \in auditor[a].left :
            LET D == auditor[a].decision
                Found(kind) == {event \in Range(log) : event.kind = kind /\ Matches(event, D)}
            IN  auditor' = [auditor EXCEPT
                  ![a].left = @ \ {list},
                  ![a].lists = IF list = "events" THEN @
                               ELSE [l \in DOMAIN @ \cup {list} |->
                                       IF l = list THEN Found(Lists[l]) ELSE @[l]],
                  ![a].events = IF list # "events" THEN @
                                ELSE {event \in Range(log) : TouchesDecision(event, D)}
                                       \ auditor[a].base,
                  ![a].pc = IF auditor[a].left = {list} THEN "done" ELSE @]
      BY <1>10 DEF ListLifecycle
    <3>2. DOMAIN auditor = Auditors /\ list \in before.left
      BY <1>1, <3>1 DEF AuditorInv
    <3>3. auditor' = [auditor EXCEPT ![a] =
            [auditor[a] EXCEPT
               !.left = auditor[a].left \ {list},
               !.lists = IF list = "events" THEN auditor[a].lists
                         ELSE [l \in DOMAIN auditor[a].lists \cup {list} |->
                                 IF l = list
                                 THEN {event \in Range(log) : event.kind = Lists[l]
                                                             /\ Matches(event, auditor[a].decision)}
                                 ELSE auditor[a].lists[l]],
               !.events = IF list # "events" THEN auditor[a].events
                          ELSE {event \in Range(log) : TouchesDecision(event, auditor[a].decision)}
                                 \ auditor[a].base,
               !.pc = IF auditor[a].left = {list} THEN "done" ELSE auditor[a].pc]]
      <4>1. {"pc", "lists", "events", "left"} \subseteq DOMAIN auditor[a]
        BY <1>1, <2>1
      <4> QED  BY <3>1, <3>2, <4>1
    <3>4. auditor' = [auditor EXCEPT ![a] =
            [before EXCEPT !.left = left(list), !.lists = lists(list), !.events = events(list),
                           !.pc = place(list)]]
      <4>1. auditor[a] = before /\ before.decision = d
        BY <1>1, <2>2
      <4> QED  BY <3>3, <4>1, Zenon
    <3> QED  BY <3>2, <3>4
  <2>4. PICK next : next = [before EXCEPT !.left = left(list), !.lists = lists(list),
                                          !.events = events(list), !.pc = place(list)]
    OBVIOUS
  <2>5. /\ next.pc = place(list) /\ next.left = left(list) /\ next.lists = lists(list)
        /\ next.events = events(list) /\ next.base = before.base /\ next.began = before.began
        /\ next.decision = d /\ next.claims = before.claims
    BY <2>1, <2>2, <2>4
  <2>6. /\ d \in DOMAIN decisions /\ before.began \subseteq Range(log) /\ EventsFound(before)
        /\ \A c \in decisions[d].claims \ before.claims : Gone(c, decisions[d])
    BY <1>3, <2>1, <2>2 DEF FoundInv
  <2>7. d # None
    BY <2>6, DecisionAssumption DEF DecisionInv
  <2>8. ASSUME NEW event \in Range(log), Concerns(event, d)
        PROVE  /\ Matches(event, d)
               /\ event.decision = d \/ TouchesDecision(event, d)
    <3>1. event.decision = d \/ (event.kind = "related" /\ event.related = d)
      BY <2>7, <2>8 DEF Concerns, LogInv, Leads
    <3>2. "related" \in {Lists[l] : l \in DOMAIN Lists}
      BY DEF Lists
    <3> QED  BY <3>1, <3>2 DEF Matches, TouchesDecision
  <2>9. next.base \cap next.events = {}
    BY <2>5, <2>6 DEF EventsFound
  <2>10. \A event \in next.began : event.decision = next.decision => event \in next.base
    BY <2>2, <2>5, <2>6 DEF EventsFound
  <2>11. ASSUME "events" \notin next.left, NEW event \in next.began, Concerns(event, d)
         PROVE  event \in next.base \cup next.events
    <3>1. CASE list = "events"
      <4>1. event \in Range(log)
        BY <2>5, <2>6
      <4>2. event.decision = d \/ TouchesDecision(event, d)
        BY <2>8, <2>11, <4>1
      <4>3. event.decision = d => event \in next.base
        BY <2>5, <2>10
      <4>4. TouchesDecision(event, d) => event \in next.base \cup next.events
        BY <2>5, <3>1, <4>1
      <4> QED  BY <4>2, <4>3, <4>4
    <3>2. CASE list # "events"
      <4>1. "events" \notin before.left
        BY <2>5, <2>11, <3>2
      <4> QED  BY <2>2, <2>5, <2>6, <2>11, <3>2, <4>1 DEF EventsFound
    <3> QED  BY <3>1, <3>2
  <2>12. ASSUME NEW l \in DOMAIN Lists \ next.left
         PROVE  /\ l \in DOMAIN next.lists
                /\ \A event \in next.began :
                     event.kind = Lists[l] /\ Concerns(event, d) => event \in next.lists[l]
    <3>0. l # "events"
      BY DEF Lists
    <3>1. CASE list = l
      <4>1. next.lists = [k \in DOMAIN before.lists \cup {list} |->
                            IF k = list THEN found(Lists[k]) ELSE before.lists[k]]
        BY <2>5, <3>0, <3>1
      <4>2. l \in DOMAIN next.lists /\ next.lists[l] = found(Lists[l])
        BY <3>1, <4>1
      <4>3. \A event \in next.began : Concerns(event, d) => event \in Range(log) /\ Matches(event, d)
        BY <2>5, <2>6, <2>8
      <4> QED  BY <4>2, <4>3
    <3>2. CASE list # l
      <4>1. l \in DOMAIN Lists \ before.left
        BY <2>5, <2>12, <3>2
      <4>2. /\ l \in DOMAIN before.lists
            /\ \A event \in before.began :
                 event.kind = Lists[l] /\ Concerns(event, d) => event \in before.lists[l]
        BY <2>2, <2>6, <4>1 DEF EventsFound
      <4>3. l \in DOMAIN next.lists /\ next.lists[l] = before.lists[l]
        BY <2>5, <3>2, <4>2
      <4> QED  BY <2>5, <4>2, <4>3
    <3> QED  BY <3>1, <3>2
  <2>13. EventsFound(next)
    BY <2>5, <2>9, <2>10, <2>11, <2>12 DEF EventsFound
  <2>14. next.pc \in {"lifecycle", "done"} /\ (next.pc = "done" => next.left = {})
    BY <2>1, <2>5
  <2>15. FoundInv(next, listing)
    BY <2>5, <2>6, <2>13, <2>14 DEF FoundInv
  <2>16. auditor' = [auditor EXCEPT ![a] = next]
    BY <2>3, <2>4
  <2> QED  BY <1>5, <1>10, <2>15, <2>16 DEF ListLifecycle, storeVars
<1> QED  BY <1>6, <1>7, <1>8, <1>9, <1>10 DEF Audit

LEMMA AuditInvStep ==
  ASSUME StoreInv, StoreInv', ReplayInv, MadeInv, ListingInv, LogInv, AuditInv,
         [Next]_decisionVars
  PROVE  AuditInv'
<1>0. DeciderInv /\ DecisionInv /\ AuditorInv
  BY DEF ReplayInv
<1>1. /\ StoreGrows /\ Range(log) \subseteq Range(log)'
      /\ DOMAIN decisions \subseteq DOMAIN decisions'
      /\ \A d \in DOMAIN decisions : decisions'[d] = decisions[d]
  BY <1>0, StoreGrowsStep, LogInvStep, DecisionsGrow
<1>2. ASSUME UNCHANGED auditor, \A a \in Auditors : ListingKeeps(a) PROVE AuditInv'
  BY <1>1, <1>2, AuditInvStay
<1>3. UNCHANGED reader => \A a \in Auditors : ListingKeeps(a)
  BY DEF ListingKeeps
<1>4. CASE StoreStep
  BY <1>2, <1>4, ListingsKeep DEF StoreStep
<1>5. ASSUME NEW a \in Auditors, Audit(a) PROVE AuditInv'
  BY <1>0, <1>5, AuditGoesOn
<1>6. ASSUME NEW d \in Deciders, Record(d) PROVE AuditInv'
  BY <1>2, <1>3, <1>6
     DEF Record, Decide, Search, PutReceipt, Capture, CommitDecision, DeciderFails, storeVars
<1>7. ASSUME NEW k \in Curators, Curate(k) PROVE AuditInv'
  BY <1>2, <1>3, <1>7 DEF Curate, GetDecision, RelateDecision, ObserveDecisionOutcome,
     RecordPolicyException, RecordDecisionApproval, PersistLifecycleEvent, Checks, storeVars
<1>8. ASSUME NEW m \in Managers, PutPolicyVersion(m) PROVE AuditInv'
  BY <1>2, <1>3, <1>8 DEF PutPolicyVersion, storeVars
<1> QED  BY <1>2, <1>3, <1>4, <1>5, <1>6, <1>7, <1>8 DEF Next, decisionVars, storeVars

StoryInv == RecordsInv /\ MadeInv /\ ListingInv /\ LogInv /\ AuditInv

LEMMA StoryInvInit == Init => StoryInv
<1> SUFFICES ASSUME Init PROVE StoryInv
  OBVIOUS
<1>1. MadeInv
  BY DEF Init, MadeInv, Idle
<1>2. ListingInv
  BY DEF Init, StoreInit, ListingInv, ListInv, Idle
<1>3. AuditInv
  BY DEF Init, AuditInv, FoundInv, Idle
<1> QED  BY <1>1, <1>2, <1>3, RecordsInvInit, LogInvInit DEF StoryInv

LEMMA StoryInvStep ==
  ASSUME StoreInv, StoreInv', ReplayInv, StoryInv, [Next]_decisionVars
  PROVE  StoryInv'
<1>1. RecordsInv /\ MadeInv /\ ListingInv /\ LogInv /\ AuditInv
  BY DEF StoryInv
<1>2. DeciderInv /\ DecisionInv /\ AuditorInv
  BY DEF ReplayInv
<1>3. RecordsInv' /\ MadeInv' /\ ListingInv' /\ LogInv' /\ AuditInv'
  BY <1>1, <1>2, RecordsInvStep, MadeInvStep, ListingInvStep, LogInvStep, AuditInvStep
<1> QED  BY <1>3 DEF StoryInv

-----------------------------------------------------------------------------
(* The theorems.                                                           *)

LEMMA InvariantsHold == Spec => [](StoreInv /\ ReplayInv)
<1>1. Init => StoreInv /\ ReplayInv
  BY StoreInvInit, ReplayInvInit DEF Init
<1>2. StoreInv /\ ReplayInv /\ [Next]_decisionVars => StoreInv' /\ ReplayInv'
  BY StoreInvStep, ReplayInvStep
<1> QED  BY <1>1, <1>2, PTL DEF Spec

(* Whoever writes at the same time, in whichever store, and whatever fails *)
(* in between: a version that was committed is current or archived, unless *)
(* a writer that read before it was there wrote over it.                   *)
THEOREM NoVersionIsLost == Spec => []VersionsAreKept
<1>1. StoreInv => VersionsAreKept
  BY DEF StoreInv
<1> QED  BY <1>1, InvariantsHold, PTL

(* A replay finds the receipt and the policy versions of a decision, and   *)
(* these find wrong with it what they found then, whatever versions were   *)
(* added since.                                                            *)
THEOREM ReplaysAreComplete == Spec => []ReplayIsComplete
<1>1. ReplayInv => ReplayIsComplete
  BY DEF ReplayInv, AuditorInv, Replays, ReplayIsComplete, Evaluation
<1> QED  BY <1>1, InvariantsHold, PTL

LEMMA StoryHolds == Spec => [](StoreInv /\ StoryInv)
<1>1. Init => StoreInv /\ ReplayInv /\ StoryInv
  BY StoreInvInit, ReplayInvInit, StoryInvInit DEF Init
<1>2. StoreInv /\ ReplayInv /\ StoryInv /\ [Next]_decisionVars =>
        StoreInv' /\ ReplayInv' /\ StoryInv'
  BY StoreInvStep, ReplayInvStep, StoryInvStep
<1> QED  BY <1>1, <1>2, PTL DEF Spec

(* What a listing says of a claim was so at some moment while it was made, *)
(* in every store and however many write in between, unless a version of   *)
(* the claim was overrun or archived late.                                 *)
THEOREM AnswersWereTrue == Spec => []AnswersAreTrue
<1>1. StoryInv => AnswersAreTrue
  BY DEF StoryInv, ListingInv, ListInv, Excused, AnswersAreTrue
<1> QED  BY <1>1, StoryHolds, PTL

(* What was known at a time is answered alike for ever, unless a version   *)
(* that was recorded until then is committed afterwards, or one is overrun *)
(* or archived late.                                                       *)
THEOREM AnswersStayTrue == Spec => []AnswersStand
<1>1. ASSUME StoreInv, StoryInv PROVE AnswersStand
  <2> SUFFICES ASSUME NEW r \in Readers, reader[r].pc = "listed",
                      reader[r].temporal.knownAt # None, NEW c \in Claims, ~Excused(c),
                      ~KnownLate(c, reader[r].since, reader[r].temporal.knownAt)
               PROVE  reader[r].answer[c] = AsOf(c, reader[r].temporal)
    BY DEF AnswersStand, Excused, KnownLate
  <2>1. ListInv(reader[r])
    BY <1>1 DEF StoryInv, ListingInv
  <2>2. PICK n \in reader[r].since..reader[r].until :
          Right(c, reader[r].answer[c], n, reader[r].temporal)
    BY <2>1 DEF ListInv
  <2>3. /\ reader[r].temporal.knownAt \in Times
        /\ reader[r].since \in 0..Len(commits) /\ reader[r].until \in reader[r].since..Len(commits)
    BY <2>1 DEF ListInv
  <2>4. n \in reader[r].since..Len(commits)
    BY <2>2, <2>3
  <2> QED  BY <1>1, <2>2, <2>3, <2>4, AnswerStands DEF StoryInv
<1> QED  BY <1>1, StoryHolds, PTL

(* An audit finds the claims the decision was made with, as far as the     *)
(* order of the writes allows it, and all that was added to the decision   *)
(* before the audit began, whatever is added or written meanwhile.         *)
THEOREM AuditsTellAll == Spec => []AuditsAreComplete
<1>1. ASSUME StoryInv PROVE AuditsAreComplete
  <2> SUFFICES ASSUME NEW a \in Auditors, auditor[a].pc = "done"
               PROVE  LET d == auditor[a].decision
                          decision == decisions[d]
                      IN  /\ \A c \in decision.claims \ auditor[a].claims : Gone(c, decision)
                          /\ auditor[a].base \cap auditor[a].events = {}
                          /\ \A event \in auditor[a].began :
                               event.decision = d \/ event.related = d =>
                                 /\ event \in auditor[a].base \cup auditor[a].events
                                 /\ \A list \in DOMAIN Lists :
                                      event.kind = Lists[list] => event \in auditor[a].lists[list]
    BY DEF AuditsAreComplete, Gone, Excused, KnownLate
  <2>1. FoundInv(auditor[a], reader[a])
    BY <1>1 DEF StoryInv, AuditInv
  <2> QED  BY <2>1 DEF FoundInv, EventsFound, Concerns
<1> QED  BY <1>1, StoryHolds, PTL
=============================================================================
