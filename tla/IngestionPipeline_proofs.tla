----------------------- MODULE IngestionPipeline_proofs -----------------------
(***************************************************************************)
(* That what an ingestion has stored refers to nothing that is not stored, *)
(* that rebuilds leave the lexical index complete, that the queue is the   *)
(* one JobDelivery describes, that an answer has all it says, and that the *)
(* right claims are marked as conflicted, for any number of callers,       *)
(* workers, documents and failures.                                        *)
(***************************************************************************)
EXTENDS IngestionPipeline, FiniteSetTheorems, TLAPS

(* The provider may extract anything, so its drafts have no type; what is  *)
(* pending is a sequence of something.                                     *)
IsSeq(s) == \E S : s \in Seq(S)

LEMMA EmptyIsSeq == IsSeq(<<>>) /\ Len(<<>>) = 0
<1>1. <<>> \in Seq({}) /\ Len(<<>>) = 0
  OBVIOUS
<1> QED  BY <1>1 DEF IsSeq

LEMMA AppendIsSeq ==
  ASSUME NEW s, NEW x, IsSeq(s)
  PROVE  /\ IsSeq(Append(s, x))
         /\ Len(s) \in Nat /\ Len(Append(s, x)) = Len(s) + 1
         /\ \A n \in 1..Len(s) + 1 : Append(s, x)[n] = IF n = Len(s) + 1 THEN x ELSE s[n]
<1>1. PICK S : s \in Seq(S)
  BY DEF IsSeq
<1>2. s \in Seq(S \cup {x}) /\ x \in S \cup {x}
  BY <1>1
<1>3. Append(s, x) \in Seq(S \cup {x})
  BY <1>2
<1> QED  BY <1>2, <1>3 DEF IsSeq

LEMMA SeqFacts ==
  ASSUME NEW s, IsSeq(s)
  PROVE  Len(s) \in Nat /\ DOMAIN s = 1..Len(s)
BY DEF IsSeq

-----------------------------------------------------------------------------
(* The invariant.                                                          *)

Domains == DOMAIN pc = Processes /\ DOMAIN todo = Processes /\ DOMAIN pending = Processes

(* What is pending refers to entities and evidence that are stored.        *)
PendingRefers(p) ==
  /\ IsSeq(pending[p])
  /\ \A n \in 1..Len(pending[p]) :
       pending[p][n].subject \in entities /\ pending[p][n].evidence \in DOMAIN evidence

(* A document's blob is stored before its evidence, its evidence before    *)
(* anything is extracted from it.                                          *)
PlaceRefers(p) ==
  /\ pc[p] = "evidence" => p \in Callers /\ Head(todo[p]).blob \in DOMAIN blobs
  /\ pc[p] \in {"extract", "drafts"} => SourceId(p) \in DOMAIN evidence

ReferenceInv ==
  /\ Domains
  /\ \A p \in Processes : PendingRefers(p) /\ PlaceRefers(p)
  /\ ReferencesHold

LEMMA ReferenceInit == Init => ReferenceInv
<1> SUFFICES ASSUME Init PROVE ReferenceInv
  OBVIOUS
<1>1. Domains
  BY DEF Init, Domains
<1>2. \A p \in Processes : pc[p] \in {"new", "idle"} /\ pending[p] = <<>>
  BY DEF Init
<1>3. \A p \in Processes : PendingRefers(p) /\ PlaceRefers(p)
  BY <1>2, EmptyIsSeq DEF PendingRefers, PlaceRefers
<1>4. ReferencesHold
  BY DEF Init, ReferencesHold
<1> QED  BY <1>1, <1>3, <1>4 DEF ReferenceInv

(* Blobs, evidence and entities are never removed.                         *)
Grows ==
  /\ DOMAIN blobs \subseteq DOMAIN blobs'
  /\ DOMAIN evidence \subseteq DOMAIN evidence'
  /\ entities \subseteq entities'

(* A process that did nothing to its work still refers to what is stored.  *)
Kept(p) ==
  /\ pending'[p] = pending[p] /\ todo'[p] = todo[p]
  /\ pc'[p] = pc[p] \/ pc'[p] \notin {"evidence", "extract", "drafts"}

LEMMA SourceStays ==
  ASSUME NEW p \in Processes, todo'[p] = todo[p]
  PROVE  SourceId(p)' = SourceId(p)
<1>1. CASE p \in Workers
  BY <1>1 DEF SourceId
<1>2. CASE p \notin Workers
  BY <1>2 DEF SourceId, EvidenceId, Run, Processes
<1> QED  BY <1>1, <1>2

LEMMA KeptRefers ==
  ASSUME NEW p \in Processes, PendingRefers(p), PlaceRefers(p), Grows, Kept(p)
  PROVE  PendingRefers(p)' /\ PlaceRefers(p)'
<1>1. PendingRefers(p)'
  BY DEF PendingRefers, Grows, Kept
<1>2. SourceId(p)' = SourceId(p)
  BY SourceStays DEF Kept
<1>3. PlaceRefers(p)'
  BY <1>2 DEF PlaceRefers, Grows, Kept
<1> QED  BY <1>1, <1>3

(* What is stored stays whole while nothing is added to it,                *)
LEMMA ReferencesKept ==
  ASSUME ReferencesHold, Grows, UNCHANGED <<evidence, claims, events, outbox, embedded>>
  PROVE  ReferencesHold'
BY DEF ReferencesHold, Grows

(* and a step of one process that adds nothing concerns only its work.     *)
LEMMA OneProcess ==
  ASSUME ReferenceInv, NEW p \in Processes, Grows, Domains',
         UNCHANGED <<evidence, claims, events, outbox, embedded>>,
         PendingRefers(p)', PlaceRefers(p)',
         \A q \in Processes \ {p} : Kept(q)
  PROVE  ReferenceInv'
<1>1. \A q \in Processes \ {p} : PendingRefers(q)' /\ PlaceRefers(q)'
  BY KeptRefers DEF ReferenceInv
<1>2. ReferencesHold'
  BY ReferencesKept DEF ReferenceInv
<1> QED  BY <1>1, <1>2 DEF ReferenceInv

LEMMA NothingConcerned ==
  ASSUME ReferenceInv, UNCHANGED <<blobs, store, pc, work>>
  PROVE  ReferenceInv'
<1>1. Grows
  BY DEF Grows, store
<1>2. \A p \in Processes : Kept(p)
  BY DEF Kept, work
<1>3. \A p \in Processes : PendingRefers(p)' /\ PlaceRefers(p)'
  BY <1>1, <1>2, KeptRefers DEF ReferenceInv
<1>4. ReferencesHold'
  BY <1>1, ReferencesKept DEF ReferenceInv, store
<1>5. Domains'
  BY DEF ReferenceInv, Domains, work
<1> QED  BY <1>3, <1>4, <1>5 DEF ReferenceInv

-----------------------------------------------------------------------------
(* Steps that end what a process does, or begin something without claims.  *)
LEMMA IdleStep ==
  ASSUME ReferenceInv, NEW p \in Processes, NEW next, Goto(p, next),
         next \notin {"evidence", "extract", "drafts"},
         Domains', UNCHANGED <<blobs, store>>,
         IsSeq(pending'[p]) /\ (pending'[p] = pending[p] \/ pending'[p] = <<>>),
         \A q \in Processes \ {p} : pending'[q] = pending[q] /\ todo'[q] = todo[q]
  PROVE  ReferenceInv'
<1>1. /\ pc'[p] = next
      /\ \A q \in Processes \ {p} : pc'[q] = pc[q]
  BY DEF Goto, ReferenceInv, Domains
<1>2. Grows
  BY DEF Grows, store
<1>3. PlaceRefers(p)'
  BY <1>1 DEF PlaceRefers
<1>4. PendingRefers(p)'
  BY <1>2, EmptyIsSeq DEF PendingRefers, ReferenceInv, Grows
<1>5. \A q \in Processes \ {p} : Kept(q)
  BY <1>1 DEF Kept
<1> QED  BY <1>2, <1>3, <1>4, <1>5, OneProcess DEF store

LEMMA StartStep ==
  ASSUME ReferenceInv, NEW p \in Processes, NEW items, Start(p, items, "documents"),
         UNCHANGED <<blobs, store>>
  PROVE  ReferenceInv'
<1>1. Domains' /\ pending'[p] = pending[p]
      /\ \A q \in Processes \ {p} : pending'[q] = pending[q] /\ todo'[q] = todo[q]
  BY DEF Start, Goto, ReferenceInv, Domains
<1>2. IsSeq(pending[p])
  BY DEF ReferenceInv, PendingRefers
<1> QED  BY <1>1, <1>2, IdleStep DEF Start

LEMMA PutBlobStep ==
  ASSUME ReferenceInv, NEW p \in Processes, PutBlob(p)
  PROVE  ReferenceInv'
<1>1. /\ Domains' /\ Grows /\ pending' = pending /\ todo' = todo
      /\ pc'[p] = "evidence" /\ Head(todo[p]).blob \in DOMAIN blobs'
      /\ \A q \in Processes \ {p} : pc'[q] = pc[q]
  <2>1. DOMAIN blobs' = DOMAIN blobs \cup {Head(todo[p]).blob}
    BY DEF PutBlob, Extend
  <2> QED  BY <2>1 DEF PutBlob, Goto, ReferenceInv, Domains, Grows, store, work
<1>2. PlaceRefers(p)' /\ PendingRefers(p)'
  BY <1>1 DEF PlaceRefers, PendingRefers, ReferenceInv, Grows, PutBlob
<1>3. \A q \in Processes \ {p} : Kept(q)
  BY <1>1 DEF Kept
<1> QED  BY <1>1, <1>2, <1>3, OneProcess DEF PutBlob, store

(* The evidence of a document is stored with its event.                    *)
LEMMA PutEvidenceStep ==
  ASSUME ReferenceInv, NEW p \in Processes, PutEvidence(p)
  PROVE  ReferenceInv'
<1> DEFINE id == EvidenceId(p)
<1>1. /\ pc'[p] = "extract" /\ pending' = pending /\ todo' = todo /\ Domains'
      /\ \A q \in Processes \ {p} : pc'[q] = pc[q]
  BY DEF PutEvidence, Goto, ReferenceInv, Domains, work
<1>2. p \in Callers /\ p \notin Workers /\ Head(todo[p]).blob \in DOMAIN blobs
  BY PipelineAssumption DEF PutEvidence, ReferenceInv, PlaceRefers
<1>3. /\ DOMAIN evidence' = DOMAIN evidence \cup {id}
      /\ \A e \in DOMAIN evidence' : evidence'[e] = IF e = id THEN Head(todo[p]) ELSE evidence[e]
  BY DEF PutEvidence, Extend
<1>4. Grows
  BY <1>3 DEF PutEvidence, Grows
<1>5. PlaceRefers(p)'
  <2>1. SourceId(p)' = id
    BY <1>1, <1>2, SourceStays DEF SourceId
  <2> QED  BY <2>1, <1>1, <1>3 DEF PlaceRefers
<1>6. PendingRefers(p)'
  BY <1>1, <1>4 DEF PendingRefers, ReferenceInv, Grows
<1>7. \A q \in Processes \ {p} : PendingRefers(q)' /\ PlaceRefers(q)'
  <2>1. \A q \in Processes \ {p} : Kept(q)
    BY <1>1 DEF Kept
  <2> QED  BY <2>1, <1>4, KeptRefers DEF ReferenceInv
<1>8. ReferencesHold'
  <2>1. events' = events \cup {id} /\ outbox' = outbox \cup {id}
        /\ blobs' = blobs /\ claims' = claims /\ embedded' = embedded /\ entities' = entities
    BY DEF PutEvidence
  <2>2. ReferencesHold
    BY DEF ReferenceInv
  <2> QED  BY <2>1, <2>2, <1>2, <1>3 DEF ReferencesHold
<1> QED  BY <1>1, <1>5, <1>6, <1>7, <1>8 DEF ReferenceInv

LEMMA LoadEvidenceStep ==
  ASSUME ReferenceInv, NEW w \in Workers, LoadEvidence(w)
  PROVE  ReferenceInv'
<1>1. /\ w \in Processes /\ Domains' /\ pending' = pending /\ Grows
      /\ \A q \in Processes \ {w} : pc'[q] = pc[q] /\ todo'[q] = todo[q]
  BY DEF LoadEvidence, Goto, ReferenceInv, Domains, Processes, Grows, store
<1>2. PendingRefers(w)'
  BY <1>1 DEF PendingRefers, ReferenceInv, Grows
<1>3. PlaceRefers(w)'
  <2>1. CASE pc' = pc
    BY <2>1 DEF LoadEvidence, PlaceRefers
  <2>2. CASE pc' # pc
    <3>1. /\ todo' = todo /\ Head(todo[w]) \in DOMAIN evidence
          /\ pc'[w] = "extract" /\ evidence' = evidence
      BY <2>2 DEF LoadEvidence, Goto, ReferenceInv, Domains, Processes, store
    <3> QED  BY <3>1 DEF PlaceRefers, SourceId
  <2> QED  BY <2>1, <2>2
<1>4. \A q \in Processes \ {w} : Kept(q)
  BY <1>1 DEF Kept
<1> QED  BY <1>1, <1>2, <1>3, <1>4, OneProcess DEF LoadEvidence, store

LEMMA ExtractStep ==
  ASSUME ReferenceInv, NEW p \in Processes, Extract(p)
  PROVE  ReferenceInv'
<1>1. /\ Domains' /\ pending' = pending /\ todo' = todo /\ Grows
      /\ pc[p] = "extract" /\ pc'[p] = "drafts" /\ evidence' = evidence
      /\ \A q \in Processes \ {p} : pc'[q] = pc[q]
  BY DEF Extract, Goto, ReferenceInv, Domains, Grows, store
<1>2. PendingRefers(p)'
  BY <1>1 DEF PendingRefers, ReferenceInv, Grows
<1>3. PlaceRefers(p)'
  BY <1>1, SourceStays DEF PlaceRefers, ReferenceInv
<1>4. \A q \in Processes \ {p} : Kept(q)
  BY <1>1 DEF Kept
<1> QED  BY <1>1, <1>2, <1>3, <1>4, OneProcess DEF Extract, store

(* The subject of a pending claim is stored before the claim.              *)
LEMMA AddDraftStep ==
  ASSUME ReferenceInv, NEW p \in Processes, AddDraft(p)
  PROVE  ReferenceInv'
<1>1. PICK draft, claim, marked :
        /\ entities' = entities \cup {EntityId(p, draft.label)}
        /\ claim.subject = EntityId(p, draft.label) /\ claim.evidence = SourceId(p)
        /\ marked.subject = claim.subject /\ marked.evidence = claim.evidence
        /\ pending' = [pending EXCEPT ![p] = Append(@, marked)]
  <2> DEFINE draft == Found(p)[Len(pending[p]) + 1]
             claim == [subject |-> EntityId(p, draft.label), predicate |-> Normalized(draft.predicate),
                       object |-> draft.object, evidence |-> SourceId(p), status |-> "asserted"]
             others == {claims[c] : c \in existing[p]}
                         \cup {pending[p][n] : n \in DOMAIN pending[p]}
             marked == IF \E other \in others : Overlap(other, claim)
                       THEN [claim EXCEPT !.status = "conflicted"] ELSE claim
  <2>1. /\ entities' = entities \cup {EntityId(p, draft.label)}
        /\ pending' = [pending EXCEPT ![p] = Append(@, marked)]
    BY DEF AddDraft
  <2>2. claim.subject = EntityId(p, draft.label) /\ claim.evidence = SourceId(p)
    OBVIOUS
  <2>3. marked.subject = claim.subject /\ marked.evidence = claim.evidence
    OBVIOUS
  <2> HIDE DEF draft, claim, marked
  <2> QED  BY <2>1, <2>2, <2>3
<1>2. /\ Domains' /\ todo' = todo /\ pc' = pc /\ Grows /\ evidence' = evidence
      /\ pc[p] = "drafts" /\ pending'[p] = Append(pending[p], marked)
      /\ \A q \in Processes \ {p} : pending'[q] = pending[q]
  BY <1>1 DEF AddDraft, ReferenceInv, Domains, Grows
<1>3. marked.subject \in entities' /\ marked.evidence \in DOMAIN evidence'
  BY <1>1, <1>2 DEF ReferenceInv, PlaceRefers
<1>4. PendingRefers(p)'
  <2>1. IsSeq(pending[p])
    BY DEF ReferenceInv, PendingRefers
  <2>2. ASSUME NEW n \in 1..Len(pending'[p])
        PROVE  pending'[p][n].subject \in entities' /\ pending'[p][n].evidence \in DOMAIN evidence'
    <3>1. n \in 1..Len(pending[p]) + 1
      BY <2>1, <1>2, AppendIsSeq
    <3>2. pending'[p][n] = IF n = Len(pending[p]) + 1 THEN marked ELSE pending[p][n]
      BY <3>1, <2>1, <1>2, AppendIsSeq
    <3>3. CASE n = Len(pending[p]) + 1
      BY <3>2, <3>3, <1>3
    <3>4. CASE n # Len(pending[p]) + 1
      <4>1. n \in 1..Len(pending[p])
        BY <3>1, <3>4, <2>1, SeqFacts
      <4> QED  BY <4>1, <3>2, <3>4, <1>2 DEF ReferenceInv, PendingRefers, Grows
    <3> QED  BY <3>3, <3>4
  <2>3. IsSeq(pending'[p])
    BY <2>1, <1>2, AppendIsSeq
  <2> QED  BY <2>2, <2>3 DEF PendingRefers
<1>5. PlaceRefers(p)'
  BY <1>2, SourceStays DEF PlaceRefers, ReferenceInv, Grows
<1>6. \A q \in Processes \ {p} : Kept(q)
  BY <1>2 DEF Kept
<1> QED  BY <1>2, <1>4, <1>5, <1>6, OneProcess DEF AddDraft

(* A claim is stored with its event and its embedding.                     *)
LEMMA StoreClaimStep ==
  ASSUME ReferenceInv, NEW p \in Processes, StoreClaim(p)
  PROVE  ReferenceInv'
<1> DEFINE n == Stored(p) + 1
           id == ClaimId(p, n)
<1>1. UNCHANGED <<blobs, pc, todo, pending, evidence, entities>>
  BY DEF StoreClaim, work
<1>2. \A q \in Processes : PendingRefers(q)' /\ PlaceRefers(q)'
  <2>1. \A q \in Processes : Kept(q)
    BY <1>1 DEF Kept
  <2> QED  BY <1>1, <2>1, KeptRefers DEF ReferenceInv, Grows
<1>3. n \in 1..Len(pending[p])
  <2>1. Len(pending[p]) \in Nat /\ DOMAIN pending[p] = 1..Len(pending[p])
    BY SeqFacts DEF ReferenceInv, PendingRefers
  <2>2. IsFiniteSet({m \in DOMAIN pending[p] : ClaimId(p, m) \in DOMAIN claims})
    <3> DEFINE here == {m \in DOMAIN pending[p] : ClaimId(p, m) \in DOMAIN claims}
    <3>1. Len(pending[p]) \in Int
      BY <2>1
    <3>2. IsFiniteSet(1..Len(pending[p]))
      BY <3>1, FS_Interval
    <3>3. here \subseteq 1..Len(pending[p])
      BY <2>1
    <3> HIDE DEF here
    <3>4. IsFiniteSet(here)
      BY <3>2, <3>3, FS_Subset
    <3> QED  BY <3>4 DEF here
  <2>3. Stored(p) \in Nat
    BY <2>2, FS_CardinalityType DEF Stored
  <2> QED  BY <2>1, <2>3 DEF StoreClaim
<1>4. /\ pending[p][n].subject \in entities
      /\ pending[p][n].evidence \in DOMAIN evidence
  BY <1>3 DEF ReferenceInv, PendingRefers
<1>5. /\ DOMAIN claims' = DOMAIN claims \cup {id}
      /\ \A c \in DOMAIN claims' : claims'[c] = IF c = id THEN pending[p][n] ELSE claims[c]
      /\ events' = events \cup {id} /\ outbox' = outbox \cup {id}
      /\ embedded' = embedded \cup {id}
  BY DEF StoreClaim, Extend
<1>6. ReferencesHold'
  <2> HIDE DEF n, id
  <2> QED  BY <1>1, <1>4, <1>5 DEF ReferencesHold, ReferenceInv
<1>7. Domains'
  BY <1>1 DEF ReferenceInv, Domains
<1> QED  BY <1>2, <1>6, <1>7 DEF ReferenceInv

LEMMA NextDocumentStep ==
  ASSUME ReferenceInv, NEW p \in Processes, NextDocument(p)
  PROVE  ReferenceInv'
<1>1. Domains' /\ pending'[p] = <<>>
      /\ \A q \in Processes \ {p} : pending'[q] = pending[q] /\ todo'[q] = todo[q]
  BY DEF NextDocument, ReferenceInv, Domains, Goto
<1> QED  BY <1>1, EmptyIsSeq, IdleStep DEF NextDocument

(* Everything else leaves alone what is stored, and ends or begins the     *)
(* work of one process at most.                                            *)
LEMMA PlaceOnly ==
  ASSUME ReferenceInv, NEW p \in Processes, NEW next, Goto(p, next),
         next \notin {"evidence", "extract", "drafts"}, UNCHANGED <<blobs, store, work>>
  PROVE  ReferenceInv'
<1>1. Domains' /\ IsSeq(pending[p])
  BY DEF ReferenceInv, Domains, PendingRefers, Goto, work
<1> QED  BY <1>1, IdleStep DEF work

LEMMA ForgetStep ==
  ASSUME ReferenceInv, NEW p \in Processes, NEW next, Goto(p, next),
         next \notin {"evidence", "extract", "drafts"}, UNCHANGED <<blobs, store>>, Forget(p)
  PROVE  ReferenceInv'
<1>1. Domains' /\ pending'[p] = <<>>
      /\ \A q \in Processes \ {p} : pending'[q] = pending[q] /\ todo'[q] = todo[q]
  BY DEF Forget, ReferenceInv, Domains, Goto
<1> QED  BY <1>1, EmptyIsSeq, IdleStep

LEMMA IngestionStep ==
  ASSUME ReferenceInv, NEW p \in Processes, Ingestion(p)
  PROVE  ReferenceInv'
<1>1. CASE p \in Callers /\ Ingest(p)
  BY <1>1, StartStep DEF Ingest
<1>2. CASE p \in Workers /\ LoadEvidence(p)
  BY <1>2, LoadEvidenceStep
<1>3. CASE p \in Workers /\ EndIngestion(p)
  BY <1>3, PlaceOnly DEF EndIngestion, EndJob
<1>4. CASE PutBlob(p)
  BY <1>4, PutBlobStep
<1>5. CASE PutEvidence(p)
  BY <1>5, PutEvidenceStep
<1>6. CASE Extract(p)
  BY <1>6, ExtractStep
<1>7. CASE AddDraft(p)
  BY <1>7, AddDraftStep
<1>8. CASE StoreClaim(p)
  BY <1>8, StoreClaimStep
<1>9. CASE NextDocument(p)
  BY <1>9, NextDocumentStep
<1>10. CASE Enqueue(p)
  BY <1>10, PlaceOnly DEF Enqueue
<1> QED
  BY <1>1, <1>2, <1>3, <1>4, <1>5, <1>6, <1>7, <1>8, <1>9, <1>10 DEF Ingestion

LEMMA WorkerSteps ==
  ASSUME ReferenceInv, NEW w \in Workers, WorkerStep(w)
  PROVE  ReferenceInv'
<1>0. w \in Processes
  BY DEF Processes
<1>1. CASE DrainSelect(w)
  BY <1>0, <1>1, PlaceOnly DEF DrainSelect
<1>2. CASE DrainDelete(w)
  BY <1>0, <1>2, PlaceOnly DEF DrainDelete
<1>3. CASE RunIngestion(w)
  BY <1>0, <1>3, StartStep DEF RunIngestion
<1>4. CASE SkipJob(w)
  BY <1>0, <1>4, PlaceOnly DEF SkipJob, EndJob
<1>5. CASE ClearIndex(w)
  BY <1>0, <1>5, PlaceOnly DEF ClearIndex
<1>6. CASE ReadClaims(w)
  BY <1>0, <1>6, PlaceOnly DEF ReadClaims
<1>7. CASE DeleteRow(w)
  BY <1>0, <1>7, PlaceOnly DEF DeleteRow
<1>8. CASE InsertRow(w)
  BY <1>0, <1>8, PlaceOnly DEF InsertRow
<1>9. CASE InsertFails(w)
  BY <1>0, <1>9, ForgetStep DEF InsertFails, Die
<1>10. CASE EndRebuild(w)
  BY <1>0, <1>10, PlaceOnly DEF EndRebuild, EndJob
<1> QED
  BY <1>1, <1>2, <1>3, <1>4, <1>5, <1>6, <1>7, <1>8, <1>9, <1>10 DEF WorkerStep

LEMMA ReferenceStep == ReferenceInv /\ [Next]_vars => ReferenceInv'
<1> SUFFICES ASSUME ReferenceInv, [Next]_vars PROVE ReferenceInv'
  OBVIOUS
<1>1. ASSUME NEW p \in Processes, Step(p) PROVE ReferenceInv'
  BY <1>1, IngestionStep, WorkerSteps DEF Step
<1>2. ASSUME NEW p \in Processes, Fail(p) PROVE ReferenceInv'
  BY <1>2, ForgetStep DEF Fail, Die
<1>3. ASSUME NEW w \in Workers, Stop(w) \/ Restart(w) PROVE ReferenceInv'
  BY <1>3, PlaceOnly DEF Stop, Restart, Processes
<1>4. CASE EnqueueByHand
  BY <1>4, NothingConcerned DEF EnqueueByHand
<1>5. CASE UNCHANGED vars
  BY <1>5, NothingConcerned DEF vars
<1> QED  BY <1>1, <1>2, <1>3, <1>4, <1>5 DEF Next

(* Wherever ingestions and re-extractions are cut short, what is stored    *)
(* refers to what is stored: evidence to its blob, claims to their         *)
(* evidence and subject, and both have their events.                       *)
THEOREM ReferencesAlwaysHold == Spec => []ReferencesHold
<1>1. ReferenceInv => ReferencesHold
  BY DEF ReferenceInv
<1> QED  BY <1>1, ReferenceInit, ReferenceStep, PTL DEF Spec

-----------------------------------------------------------------------------
(* The lexical index: a claim that is not in it is one that a rebuild will *)
(* still insert, unless a rebuild was cut short and none has begun since.  *)

RebuildPlaces == {"readClaims", "deleteRow", "insertRow"}

Covers(w, c) == pc[w] = "readClaims" \/ c \in rows[w]

IndexInv ==
  /\ DOMAIN pc = Processes /\ DOMAIN rows = Workers /\ torn \in BOOLEAN
  /\ fts \subseteq DOMAIN claims
  /\ \A w \in Workers : rows[w] \subseteq DOMAIN claims
  /\ \A w \in Workers : pc[w] = "insertRow" => rows[w] # {}
  /\ clean \subseteq Rebuilding
  /\ ~torn \/ clean # {} =>
       \A c \in DOMAIN claims \ fts : \E w \in Rebuilding : Covers(w, c)

LEMMA IndexInit == Init => IndexInv
BY DEF Init, IndexInv, Processes, Rebuilding

(* The places of the workers' rebuilds stay.                               *)
SameRebuilds ==
  /\ DOMAIN pc' = Processes
  /\ \A w \in Workers : pc'[w] = pc[w] \/ (pc[w] \notin RebuildPlaces /\ pc'[w] \notin RebuildPlaces)

LEMMA SameRebuilding ==
  ASSUME SameRebuilds
  PROVE  Rebuilding' = Rebuilding /\ \A w \in Rebuilding : pc'[w] = pc[w]
BY DEF SameRebuilds, Rebuilding, RebuildPlaces

LEMMA IndexAside ==
  ASSUME IndexInv, SameRebuilds, UNCHANGED <<claims, index>>
  PROVE  IndexInv'
<1>1. Rebuilding' = Rebuilding /\ \A w \in Rebuilding : pc'[w] = pc[w]
  BY SameRebuilding
<1>2. ASSUME ~torn' \/ clean' # {}, NEW c \in DOMAIN claims' \ fts'
      PROVE  \E w \in Rebuilding' : Covers(w, c)'
  <2>1. PICK w \in Rebuilding : Covers(w, c)
    BY <1>2 DEF IndexInv, index
  <2> QED  BY <1>1, <2>1 DEF Covers, index
<1>3. \A w \in Workers : pc'[w] = "insertRow" => pc[w] = "insertRow"
  BY DEF SameRebuilds, RebuildPlaces
<1> QED  BY <1>1, <1>2, <1>3 DEF IndexInv, SameRebuilds, index

(* A process that goes from one place to another outside of rebuilds.      *)
LEMMA GoesAside ==
  ASSUME IndexInv, NEW p \in Processes, NEW next, Goto(p, next),
         next \notin RebuildPlaces, p \in Callers \/ pc[p] \notin RebuildPlaces,
         UNCHANGED <<claims, index>>
  PROVE  IndexInv'
<1>1. SameRebuilds
  BY PipelineAssumption DEF IndexInv, Goto, SameRebuilds, Processes
<1> QED  BY <1>1, IndexAside

LEMMA StaysAside ==
  ASSUME IndexInv, UNCHANGED <<pc, claims, index>>
  PROVE  IndexInv'
<1>1. SameRebuilds
  BY DEF IndexInv, SameRebuilds
<1> QED  BY <1>1, IndexAside

LEMMA IndexIngestion ==
  ASSUME IndexInv, NEW p \in Processes, Ingestion(p)
  PROVE  IndexInv'
<1>1. CASE StoreClaim(p)
  <2>1. PICK id : /\ DOMAIN claims' = DOMAIN claims \cup {id} /\ fts' = fts \cup {id}
                  /\ UNCHANGED <<rows, torn, clean, pc>>
    BY <1>1 DEF StoreClaim, Extend
  <2>2. Rebuilding' = Rebuilding
    BY <2>1 DEF Rebuilding
  <2> QED  BY <2>1, <2>2 DEF IndexInv, Covers
<1>2. CASE p \in Callers /\ Ingest(p)
  BY <1>2, GoesAside DEF Ingest, Start, store, RebuildPlaces
<1>3. CASE p \in Workers /\ LoadEvidence(p)
  <2>1. CASE UNCHANGED pc
    BY <1>3, <2>1, StaysAside DEF LoadEvidence, store
  <2>2. CASE Goto(p, "extract")
    BY <1>3, <2>2, GoesAside DEF LoadEvidence, store, RebuildPlaces
  <2> QED  BY <1>3, <2>1, <2>2 DEF LoadEvidence
<1>4. CASE p \in Workers /\ EndIngestion(p)
  <2>1. CASE Len(batch[p]) = 1
    BY <1>4, <2>1, GoesAside DEF EndIngestion, EndJob, store, RebuildPlaces
  <2>2. CASE Len(batch[p]) # 1
    BY <1>4, <2>2, GoesAside DEF EndIngestion, EndJob, store, RebuildPlaces
  <2> QED  BY <2>1, <2>2
<1>5. CASE PutBlob(p)
  BY <1>5, GoesAside DEF PutBlob, store, RebuildPlaces
<1>6. CASE PutEvidence(p)
  BY <1>6, GoesAside DEF PutEvidence, RebuildPlaces
<1>7. CASE Extract(p)
  BY <1>7, GoesAside DEF Extract, store, RebuildPlaces
<1>8. CASE AddDraft(p)
  BY <1>8, StaysAside DEF AddDraft
<1>9. CASE NextDocument(p)
  BY <1>9, GoesAside DEF NextDocument, store, RebuildPlaces
<1>10. CASE Enqueue(p)
  BY <1>10, GoesAside DEF Enqueue, store, RebuildPlaces
<1> QED  BY <1>1, <1>2, <1>3, <1>4, <1>5, <1>6, <1>7, <1>8, <1>9, <1>10 DEF Ingestion

(* A rebuild that is cut short leaves the index torn, and no clean rebuild. *)
LEMMA IndexDies ==
  ASSUME IndexInv, NEW w \in Workers, Die(w)
  PROVE  IndexInv'
<1>1. /\ DOMAIN pc' = Processes /\ pc'[w] = "dead"
      /\ \A v \in Workers \ {w} : pc'[v] = pc[v]
      /\ DOMAIN rows' = Workers /\ rows'[w] = {} /\ \A v \in Workers \ {w} : rows'[v] = rows[v]
      /\ UNCHANGED <<claims, fts>>
  BY DEF IndexInv, Die, Goto, Processes, store
<1>2. CASE w \in Rebuilding
  BY <1>1, <1>2 DEF IndexInv, Die, Rebuilding
<1>3. CASE w \notin Rebuilding
  <2>1. UNCHANGED <<torn, clean>>
    BY <1>3 DEF Die
  <2>2. Rebuilding' = Rebuilding /\ \A v \in Rebuilding : v # w
    BY <1>1, <1>3 DEF Rebuilding
  <2>3. \A v \in Rebuilding : \A c : Covers(v, c) => Covers(v, c)'
    BY <1>1, <2>2 DEF Covers, Rebuilding
  <2> QED  BY <1>1, <2>1, <2>2, <2>3 DEF IndexInv
<1> QED  BY <1>2, <1>3

LEMMA IndexWorker ==
  ASSUME IndexInv, NEW w \in Workers, WorkerStep(w)
  PROVE  IndexInv'
<1>0. w \in Processes
  BY DEF Processes
<1>1. CASE DrainSelect(w)
  BY <1>0, <1>1, GoesAside DEF DrainSelect, store, RebuildPlaces
<1>2. CASE DrainDelete(w)
  BY <1>0, <1>2, GoesAside DEF DrainDelete, store, RebuildPlaces
<1>3. CASE RunIngestion(w)
  BY <1>0, <1>3, GoesAside DEF RunIngestion, Start, store, RebuildPlaces
<1>4. CASE SkipJob(w)
  <2>1. CASE Len(batch[w]) = 1
    BY <1>0, <1>4, <2>1, GoesAside DEF SkipJob, EndJob, store, RebuildPlaces
  <2>2. CASE Len(batch[w]) # 1
    BY <1>0, <1>4, <2>2, GoesAside DEF SkipJob, EndJob, store, RebuildPlaces
  <2> QED  BY <2>1, <2>2
<1>5. CASE InsertFails(w)
  BY <1>5, IndexDies DEF InsertFails
<1>6. ASSUME NEW next, Goto(w, next)
      PROVE  /\ DOMAIN pc' = Processes /\ pc'[w] = next
             /\ \A v \in Workers \ {w} : pc'[v] = pc[v]
  BY <1>0, <1>6 DEF IndexInv, Goto, Processes
<1>7. CASE ClearIndex(w)
  <2>1. /\ DOMAIN pc' = Processes /\ pc'[w] = "readClaims"
        /\ \A v \in Workers \ {w} : pc'[v] = pc[v]
    BY <1>6, <1>7 DEF ClearIndex
  <2>2. w \in Rebuilding' /\ Rebuilding \subseteq Rebuilding'
    BY <2>1 DEF Rebuilding
  <2>3. UNCHANGED <<claims, rows, torn>> /\ fts' = {} /\ clean' = clean \cup {w}
    BY <1>7 DEF ClearIndex, store
  <2>4. \A c : Covers(w, c)'
    BY <2>1 DEF Covers
  <2> QED  BY <2>1, <2>2, <2>3, <2>4 DEF IndexInv
<1>8. CASE ReadClaims(w)
  <2>1. /\ DOMAIN pc' = Processes /\ pc'[w] = "deleteRow"
        /\ \A v \in Workers \ {w} : pc'[v] = pc[v]
    BY <1>6, <1>8 DEF ReadClaims
  <2>2. Rebuilding' = Rebuilding
    BY <1>8, <2>1 DEF Rebuilding, ReadClaims
  <2>3. /\ UNCHANGED <<claims, fts, torn, clean>> /\ DOMAIN rows' = Workers
        /\ rows'[w] = DOMAIN claims /\ \A v \in Workers \ {w} : rows'[v] = rows[v]
    BY <1>8 DEF ReadClaims, IndexInv, store
  <2>4. \A v \in Workers : \A c \in DOMAIN claims : Covers(v, c) => Covers(v, c)'
    BY <2>1, <2>3 DEF Covers
  <2> QED  BY <2>1, <2>2, <2>3, <2>4 DEF IndexInv, Rebuilding
<1>9. CASE DeleteRow(w)
  <2>1. /\ DOMAIN pc' = Processes /\ pc'[w] = "insertRow"
        /\ \A v \in Workers \ {w} : pc'[v] = pc[v]
    BY <1>6, <1>9 DEF DeleteRow
  <2>2. Rebuilding' = Rebuilding /\ w \in Rebuilding
    BY <1>9, <2>1 DEF Rebuilding, DeleteRow
  <2>3. /\ UNCHANGED <<claims, rows, torn, clean>> /\ rows[w] # {}
        /\ fts' = fts \ {First(rows[w])} /\ First(rows[w]) \in rows[w]
    BY <1>9 DEF DeleteRow, First, store
  <2>4. \A v \in Workers : \A c : Covers(v, c) => Covers(v, c)'
    BY <1>9, <2>1, <2>3 DEF Covers, DeleteRow
  <2>5. Covers(w, First(rows[w]))'
    BY <2>3 DEF Covers
  <2> QED  BY <2>1, <2>2, <2>3, <2>4, <2>5 DEF IndexInv, Rebuilding
<1>10. CASE InsertRow(w)
  <2>1. /\ DOMAIN pc' = Processes /\ pc'[w] = "deleteRow"
        /\ \A v \in Workers \ {w} : pc'[v] = pc[v]
    BY <1>6, <1>10 DEF InsertRow
  <2>2. Rebuilding' = Rebuilding
    BY <1>10, <2>1 DEF Rebuilding, InsertRow
  <2>3. First(rows[w]) \in rows[w]
    BY <1>10 DEF InsertRow, IndexInv, First
  <2>4. /\ UNCHANGED <<claims, torn, clean>> /\ DOMAIN rows' = Workers
        /\ rows'[w] = rows[w] \ {First(rows[w])} /\ \A v \in Workers \ {w} : rows'[v] = rows[v]
        /\ fts' = fts \cup {First(rows[w])}
    BY <1>10 DEF InsertRow, IndexInv, store
  <2>5. \A v \in Workers : \A c : Covers(v, c) => Covers(v, c)' \/ c = First(rows[w])
    BY <1>10, <2>1, <2>4 DEF Covers, InsertRow
  <2> QED  BY <2>1, <2>2, <2>3, <2>4, <2>5 DEF IndexInv, Rebuilding
<1>11. CASE EndRebuild(w)
  <2>1. PICK next \in {"idle", "jobs"} : Goto(w, next)
    BY <1>11 DEF EndRebuild, EndJob
  <2>2. /\ DOMAIN pc' = Processes /\ pc'[w] = next
        /\ \A v \in Workers \ {w} : pc'[v] = pc[v]
    BY <1>6, <2>1
  <2>3. Rebuilding' = Rebuilding \ {w}
    BY <2>2 DEF Rebuilding
  <2>4. /\ UNCHANGED <<claims, fts, rows>> /\ rows[w] = {} /\ pc[w] = "deleteRow"
        /\ torn' = (torn /\ w \notin clean) /\ clean' = clean \ {w}
    BY <1>11 DEF EndRebuild, store
  <2>5. \A c : ~Covers(w, c)
    BY <2>4 DEF Covers
  <2>6. \A v \in Workers \ {w} : \A c : Covers(v, c) => Covers(v, c)'
    BY <2>2, <2>4 DEF Covers
  <2>7. ~torn' \/ clean' # {} => ~torn \/ clean # {}
    BY <2>4
  <2>8. ASSUME ~torn' \/ clean' # {}, NEW c \in DOMAIN claims' \ fts'
        PROVE  \E v \in Rebuilding' : Covers(v, c)'
    <3>1. PICK v \in Rebuilding : Covers(v, c)
      BY <2>4, <2>7, <2>8 DEF IndexInv
    <3> QED  BY <2>3, <2>5, <2>6, <3>1 DEF Rebuilding
  <2>9. torn' \in BOOLEAN
    BY <2>4
  <2>10. /\ \A v \in Workers : pc'[v] = "insertRow" => rows'[v] # {}
         /\ clean' \subseteq Rebuilding'
    BY <2>2, <2>3, <2>4 DEF IndexInv
  <2> QED  BY <2>2, <2>4, <2>8, <2>9, <2>10 DEF IndexInv
<1> QED
  BY <1>1, <1>2, <1>3, <1>4, <1>5, <1>7, <1>8, <1>9, <1>10, <1>11 DEF WorkerStep

LEMMA IndexStep == IndexInv /\ [Next]_vars => IndexInv'
<1> SUFFICES ASSUME IndexInv, [Next]_vars PROVE IndexInv'
  OBVIOUS
<1>1. ASSUME NEW p \in Processes, Step(p) PROVE IndexInv'
  BY <1>1, IndexIngestion, IndexWorker DEF Step
<1>2. ASSUME NEW p \in Processes, Fail(p) PROVE IndexInv'
  <2>1. CASE p \in Workers
    BY <1>2, <2>1, IndexDies DEF Fail
  <2>2. CASE p \notin Workers
    BY <1>2, <2>2, GoesAside DEF Fail, store, RebuildPlaces, Processes
  <2> QED  BY <2>1, <2>2
<1>3. ASSUME NEW w \in Workers, Stop(w) \/ Restart(w) PROVE IndexInv'
  BY <1>3, GoesAside DEF Stop, Restart, store, RebuildPlaces, Processes
<1>4. CASE EnqueueByHand
  BY <1>4, StaysAside DEF EnqueueByHand, store
<1>5. CASE UNCHANGED vars
  BY <1>5, StaysAside DEF vars, store
<1> QED  BY <1>1, <1>2, <1>3, <1>4, <1>5 DEF Next

(* Any number of workers may rebuild the index at the same time while      *)
(* claims are stored, and fail in between: when none is at it, each claim  *)
(* is in the index, unless a rebuild was cut short and none that began     *)
(* after that has ended.                                                   *)
THEOREM IndexIsComplete == Spec => []IndexComplete
<1>1. IndexInv => IndexComplete
  BY DEF IndexInv, IndexComplete
<1> QED  BY <1>1, IndexInit, IndexStep, PTL DEF Spec

-----------------------------------------------------------------------------
(* Sets of numbers, and the sequence of one. Induction is by a least       *)
(* counterexample.                                                         *)

LEMMA LeastNatural ==
  ASSUME NEW S \in SUBSET Nat, S # {}
  PROVE  \E m \in S : \A n \in S : m <= n
<1> DEFINE R == OpToRel(<, Nat)
<1>1. IsWellFoundedOn(R, Nat)
  BY NatLessThanWellFounded
<1>2. R = {ss \in Nat \X Nat : ss[1] < ss[2]}
  BY DEF OpToRel
<1> HIDE DEF R
<1>3. PICK m \in S : \A n \in S : ~ (<<n, m>> \in R)
  BY <1>1, WFMin
<1>4. ASSUME NEW n \in S PROVE m <= n
  <2>1. ~(<<n, m>> \in R)
    BY <1>3
  <2>2. ~(n < m)
    BY <1>2, <2>1
  <2> QED  BY <2>2
<1> QED  BY <1>4

(* What holds of a natural if it holds of all smaller ones holds of all.   *)
LEMMA LeastCounterexample ==
  ASSUME NEW Holds \in SUBSET Nat,
         \A n \in Nat : (\A m \in Nat : m < n => m \in Holds) => n \in Holds
  PROVE  Holds = Nat
<1> SUFFICES ASSUME Nat \ Holds # {} PROVE FALSE
  OBVIOUS
<1>1. PICK m \in Nat \ Holds : \A n \in Nat \ Holds : m <= n
  BY LeastNatural
<1>2. \A k \in Nat : k < m => k \in Holds
  BY <1>1
<1> QED  BY <1>1, <1>2

LEMMA GreatestNatural ==
  ASSUME NEW S \in SUBSET Nat, IsFiniteSet(S), S # {}
  PROVE  \E m \in S : \A n \in S : n <= m
<1> DEFINE Good(n) == \A T \in SUBSET S :
             T # {} /\ Cardinality(T) = n => \E m \in T : \A k \in T : k <= m
           Holds == {n \in Nat : Good(n)}
<1>1. ASSUME NEW n \in Nat, \A m \in Nat : m < n => Good(m) PROVE Good(n)
  <2> SUFFICES ASSUME NEW T \in SUBSET S, T # {}, Cardinality(T) = n
               PROVE  \E m \in T : \A k \in T : k <= m
    OBVIOUS
  <2>1. IsFiniteSet(T)
    BY FS_Subset
  <2>2. PICK x \in T : TRUE
    OBVIOUS
  <2>3. Cardinality(T \ {x}) = n - 1
    BY <2>1, <2>2, FS_RemoveElement
  <2>4. n - 1 \in Nat
    BY <2>1, FS_RemoveElement, FS_CardinalityType, <2>3
  <2>5. CASE T \ {x} = {}
    BY <2>2, <2>5
  <2>6. CASE T \ {x} # {}
    <3>1. T \ {x} \in SUBSET S /\ n - 1 < n
      BY <2>4
    <3>2. PICK m \in T \ {x} : \A k \in T \ {x} : k <= m
      BY <1>1, <2>3, <2>4, <2>6, <3>1
    <3> QED  BY <2>2, <3>2
  <2> QED  BY <2>5, <2>6
<1>2. \A n \in Nat : (\A m \in Nat : m < n => m \in Holds) => n \in Holds
  BY <1>1
<1>3. Holds = Nat
  <2>1. Holds \in SUBSET Nat
    OBVIOUS
  <2> HIDE DEF Holds
  <2> QED  BY <1>2, <2>1, LeastCounterexample
<1>4. Cardinality(S) \in Nat
  BY FS_CardinalityType
<1>5. Good(Cardinality(S))
  <2> HIDE DEF Good
  <2> QED  BY <1>3, <1>4
<1> QED  BY <1>5

(* There is such a sequence, and it has each number once.                  *)
LEMMA InOrderExists ==
  ASSUME NEW ids \in SUBSET Nat, IsFiniteSet(ids)
  PROVE  \E s \in [1..Cardinality(ids) -> ids] : \A m, n \in DOMAIN s : m < n => s[m] < s[n]
<1> DEFINE Good(n) == \A T \in SUBSET ids : Cardinality(T) = n =>
             \E s \in [1..n -> T] : \A j, k \in 1..n : j < k => s[j] < s[k]
           Holds == {n \in Nat : Good(n)}
<1>1. ASSUME NEW n \in Nat, \A m \in Nat : m < n => m \in Holds PROVE n \in Holds
  <2> SUFFICES ASSUME NEW T \in SUBSET ids, Cardinality(T) = n
               PROVE  \E s \in [1..n -> T] : \A j, k \in 1..n : j < k => s[j] < s[k]
    OBVIOUS
  <2>1. IsFiniteSet(T)
    BY FS_Subset
  <2>2. CASE n = 0
    <3>1. 1..n = {}
      BY <2>2
    <3>2. [k \in 1..n |-> 0] \in [1..n -> T]
      BY <3>1
    <3> QED  BY <3>1, <3>2
  <2>3. CASE n # 0
    <3>1. T # {}
      BY <2>3, FS_EmptySet
    <3>2. PICK m \in T : \A k \in T : k <= m
      BY <2>1, <3>1, GreatestNatural
    <3>3. Cardinality(T \ {m}) = n - 1 /\ n - 1 \in Nat /\ n - 1 < n
      <4>1. Cardinality(T \ {m}) = Cardinality(T) - 1
        BY <2>1, <3>2, FS_RemoveElement
      <4> QED  BY <2>3, <4>1
    <3>4. Good(n - 1)
      <4> HIDE DEF Good
      <4> QED  BY <1>1, <3>3
    <3>5. PICK t \in [1..(n - 1) -> T \ {m}] : \A j, k \in 1..(n - 1) : j < k => t[j] < t[k]
      BY <3>3, <3>4
    <3> DEFINE s == [k \in 1..n |-> IF k = n THEN m ELSE t[k]]
    <3>6. s \in [1..n -> T]
      BY <3>2, <3>5
    <3>7. \A j \in 1..(n - 1) : t[j] < m
      <4>1. \A k \in T \ {m} : k < m
        BY <3>2
      <4> QED  BY <3>5, <4>1
    <3>8. \A j, k \in 1..n : j < k => s[j] < s[k]
      BY <3>5, <3>7
    <3> HIDE DEF s
    <3> QED  BY <3>6, <3>8
  <2> QED  BY <2>2, <2>3
<1>2. Holds = Nat
  <2>1. Holds \in SUBSET Nat
    OBVIOUS
  <2> HIDE DEF Holds
  <2> QED  BY <1>1, <2>1, LeastCounterexample
<1>3. Cardinality(ids) \in Nat
  BY FS_CardinalityType
<1>4. Good(Cardinality(ids))
  <2> HIDE DEF Good
  <2> QED  BY <1>2, <1>3
<1>5. PICK s \in [1..Cardinality(ids) -> ids] :
        \A j, k \in 1..Cardinality(ids) : j < k => s[j] < s[k]
  BY <1>4
<1>6. DOMAIN s = 1..Cardinality(ids)
  OBVIOUS
<1> QED  BY <1>5, <1>6

LEMMA InOrderFacts ==
  ASSUME NEW ids \in SUBSET Nat, IsFiniteSet(ids)
  PROVE  /\ Cardinality(ids) \in Nat
         /\ InOrder(ids) \in [1..Cardinality(ids) -> ids]
         /\ \A m, n \in 1..Cardinality(ids) : m < n => InOrder(ids)[m] < InOrder(ids)[n]
         /\ \A i \in ids : \E n \in 1..Cardinality(ids) : InOrder(ids)[n] = i
<1> DEFINE size == Cardinality(ids)
           s == InOrder(ids)
<1>1. size \in Nat
  BY FS_CardinalityType
<1>2. s \in [1..size -> ids] /\ \A m, n \in DOMAIN s : m < n => s[m] < s[n]
  BY InOrderExists DEF InOrder
<1> HIDE DEF s
<1>3. \A m, n \in 1..size : m < n => s[m] < s[n]
  BY <1>2
<1>4. s \in Injection(1..size, ids)
  <2>1. ASSUME NEW m \in 1..size, NEW n \in 1..size, s[m] = s[n] PROVE m = n
    <3>1. s[m] \in Nat /\ s[n] \in Nat
      BY <1>2
    <3> QED  BY <1>1, <1>3, <2>1, <3>1
  <2> QED  BY <1>2, <2>1 DEF Injection, IsInjective
<1>5. Cardinality(1..size) = size
  BY <1>1, FS_Interval
<1>6. s \in Surjection(1..size, ids)
  BY <1>4, <1>5, FS_Injection
<1>7. \A i \in ids : \E n \in 1..size : s[n] = i
  BY <1>6 DEF Surjection
<1> QED  BY <1>1, <1>2, <1>3, <1>7 DEF s

-----------------------------------------------------------------------------
(* The queue. A worker between two drains has read nothing, and once it    *)
(* has deleted the jobs it read they are not in the table again.           *)

LEMMA TailIsSeq ==
  ASSUME NEW s, IsSeq(s), Len(s) > 0
  PROVE  /\ IsSeq(Tail(s)) /\ Len(Tail(s)) = Len(s) - 1 /\ Head(s) = s[1]
         /\ \A n \in 1..Len(s) - 1 : Tail(s)[n] = s[n + 1]
<1>1. PICK S : s \in Seq(S)
  BY DEF IsSeq
<1>2. s # <<>>
  BY EmptyIsSeq
<1>3. Tail(s) \in Seq(S)
  BY <1>1, <1>2
<1>4. IsSeq(Tail(s))
  BY <1>3 DEF IsSeq
<1> QED  BY <1>1, <1>2, <1>4

Working == {"jobs", "documents", "evidence", "extract", "drafts"} \cup RebuildPlaces

BatchInv(w) ==
  /\ IsSeq(batch[w]) /\ Read(w) \subseteq 1..Len(log)
  /\ pc[w] \in {"idle", "stopped", "dead", "delete"} \cup Working
  /\ pc[w] \in {"idle", "stopped"} => batch[w] = <<>>
  /\ pc[w] \in {"delete"} \cup Working => Len(batch[w]) > 0
  /\ pc[w] \in Working => Read(w) \cap jobs = {}

QueueInv ==
  /\ DOMAIN pc = Processes /\ DOMAIN batch = Workers
  /\ IsSeq(log) /\ jobs \subseteq 1..Len(log) /\ ran \subseteq 1..Len(log)
  /\ \A w \in Workers : BatchInv(w)

SameStates == \A j \in JobIds : StateOf(j)' = StateOf(j)

(* The states of jobs move from one to another together.                   *)
Moves(from, to) == \A j \in JobIds : StateOf(j)' # StateOf(j) => StateOf(j) = from /\ StateOf(j)' = to

LEMMA MovesAre ==
  ASSUME NEW from, NEW to, Moves(from, to)
  PROVE  Delivery!Move(from, to)
BY DEF Moves, Delivery!Move

(* A step that leaves the queue and what was read of it.                   *)
LEMMA QueueAside ==
  ASSUME QueueInv, DOMAIN pc' = Processes, UNCHANGED <<queue, batch>>,
         \A w \in Workers : \/ pc'[w] = pc[w]
                            \/ pc[w] \in Working /\ pc'[w] \in Working
                            \/ pc[w] = "idle" /\ pc'[w] = "stopped"
  PROVE  QueueInv' /\ SameStates
<1>1. log' = log /\ jobs' = jobs /\ ran' = ran /\ batch' = batch
  BY DEF queue
<1>2. \A w : Read(w)' = Read(w)
  BY <1>1 DEF Read
<1>3. \A w \in Workers : BatchInv(w)'
  BY <1>1, <1>2 DEF QueueInv, BatchInv, Working, RebuildPlaces
<1>4. \A w \in Workers : pc'[w] = "dead" <=> pc[w] = "dead"
  BY DEF Working, RebuildPlaces
<1>5. SameStates
  BY <1>1, <1>2, <1>4 DEF SameStates, StateOf
<1> QED  BY <1>1, <1>3, <1>5 DEF QueueInv

LEMMA GoesOn ==
  ASSUME QueueInv, NEW p \in Processes, NEW next, Goto(p, next), UNCHANGED <<queue, batch>>,
         p \in Workers => \/ pc[p] \in Working /\ next \in Working
                          \/ pc[p] = "idle" /\ next = "stopped"
  PROVE  QueueInv' /\ SameStates
<1>1. DOMAIN pc' = Processes /\ \A q \in Processes : pc'[q] = IF q = p THEN next ELSE pc[q]
  BY DEF Goto, QueueInv
<1>2. \A w \in Workers : w \in Processes
  BY DEF Processes
<1> QED  BY <1>1, <1>2, QueueAside

(* A job is enqueued under an id that is new.                              *)
LEMMA PutMoves ==
  ASSUME QueueInv, NEW job, Put(job), DOMAIN pc' = Processes, UNCHANGED <<ran, batch>>,
         \A w \in Workers : pc'[w] = pc[w]
  PROVE  QueueInv' /\ Moves("new", "queued")
<1> DEFINE id == Len(log) + 1
<1>1. /\ IsSeq(log') /\ Len(log') = id /\ Len(log) \in Nat
      /\ jobs' = jobs \cup {id}
      /\ DOMAIN log = 1..Len(log) /\ DOMAIN log' = 1..id
  BY AppendIsSeq, SeqFacts DEF Put, QueueInv
<1>2. \A w : Read(w)' = Read(w)
  BY DEF Read
<1>3. /\ jobs \subseteq 1..Len(log) /\ ran \subseteq 1..Len(log)
      /\ \A w \in Workers : Read(w) \subseteq 1..Len(log)
  BY DEF QueueInv, BatchInv
<1>4. id \notin jobs /\ id \notin ran /\ \A w \in Workers : id \notin Read(w)
  BY <1>1, <1>3
<1>5. ASSUME NEW w \in Workers PROVE BatchInv(w)'
  <2>1. BatchInv(w)
    BY DEF QueueInv
  <2>2. Read(w)' \subseteq 1..Len(log')
    BY <1>1, <1>2, <1>3
  <2> QED  BY <1>1, <1>2, <1>4, <2>1, <2>2 DEF BatchInv
<1>6. QueueInv'
  <2>1. 1..Len(log') = 1..Len(log) \cup {id}
    BY <1>1
  <2>2. jobs' \subseteq 1..Len(log') /\ ran' \subseteq 1..Len(log')
    BY <1>1, <1>3, <2>1
  <2> QED  BY <1>1, <1>5, <2>2 DEF QueueInv
<1>7. ASSUME NEW j \in JobIds, StateOf(j)' # StateOf(j)
      PROVE  StateOf(j) = "new" /\ StateOf(j)' = "queued"
  <2>1. CASE j = id
    <3>1. StateOf(j) = "new"
      BY <1>1, <2>1 DEF StateOf
    <3>2. StateOf(j)' = "queued"
      BY <1>1, <1>4, <2>1 DEF StateOf
    <3> QED  BY <3>1, <3>2
  <2>2. CASE j # id
    <3>1. j \in DOMAIN log' <=> j \in DOMAIN log
      BY <1>1, <2>2
    <3>2. StateOf(j)' = StateOf(j)
      BY <1>1, <1>2, <2>2, <3>1 DEF StateOf
    <3> QED  BY <1>7, <3>2
  <2> QED  BY <2>1, <2>2
<1> QED  BY <1>6, <1>7 DEF Moves

(* What a step of one worker leaves to the others.                         *)
LEMMA OtherBatches ==
  ASSUME QueueInv, NEW w \in Workers, UNCHANGED log,
         DOMAIN pc' = Processes, DOMAIN batch' = Workers,
         \A v \in Workers \ {w} : pc'[v] = pc[v] /\ batch'[v] = batch[v],
         jobs' \subseteq jobs, ran' \subseteq 1..Len(log), BatchInv(w)'
  PROVE  QueueInv' /\ \A v \in Workers \ {w} : Read(v)' = Read(v)
<1>1. \A v \in Workers \ {w} : Read(v)' = Read(v)
  BY DEF Read
<1>2. ASSUME NEW v \in Workers, v # w PROVE BatchInv(v)'
  BY <1>1, <1>2 DEF BatchInv, QueueInv
<1> QED  BY <1>1, <1>2 DEF QueueInv

LEMMA NothingIn ==
  ASSUME NEW s, IsSeq(s), Len(s) = 0
  PROVE  s = <<>>
<1>1. PICK S : s \in Seq(S)
  BY DEF IsSeq
<1> QED  BY <1>1

(* A worker reads the jobs, which stay.                                    *)
LEMMA SelectMoves ==
  ASSUME QueueInv, NEW w \in Workers, DrainSelect(w)
  PROVE  QueueInv' /\ SameStates
<1> DEFINE s == InOrder(jobs)
<1>1. /\ pc[w] = "idle" /\ jobs # {} /\ UNCHANGED <<log, jobs, ran>>
      /\ DOMAIN pc' = Processes /\ DOMAIN batch' = Workers
      /\ \A v \in Workers \ {w} : pc'[v] = pc[v] /\ batch'[v] = batch[v]
      /\ batch'[w] = s /\ pc'[w] = "delete"
  BY DEF DrainSelect, Goto, QueueInv, queue, Processes
<1>2. Len(log) \in Nat
  BY SeqFacts DEF QueueInv
<1>3. jobs \in SUBSET Nat /\ IsFiniteSet(jobs)
  <2>1. IsFiniteSet(1..Len(log)) /\ 1..Len(log) \subseteq Nat
    BY <1>2, FS_Interval
  <2> QED  BY <2>1, FS_Subset DEF QueueInv
<1>4. /\ Cardinality(jobs) \in Nat
      /\ s \in [1..Cardinality(jobs) -> jobs]
      /\ \A i \in jobs : \E n \in 1..Cardinality(jobs) : s[n] = i
  BY <1>3, InOrderFacts
<1> HIDE DEF s
<1>5. IsSeq(s) /\ Len(s) = Cardinality(jobs) /\ DOMAIN s = 1..Cardinality(jobs)
  <2>1. s \in Seq(jobs)
    BY <1>4
  <2> QED  BY <1>4, <2>1 DEF IsSeq
<1>6. Len(s) > 0
  BY <1>1, <1>4, <1>5
<1>7. Read(w)' \subseteq jobs
  BY <1>1, <1>4, <1>5 DEF Read
<1>8. BatchInv(w)'
  BY <1>1, <1>5, <1>6, <1>7 DEF BatchInv, QueueInv, Working, RebuildPlaces
<1>9. QueueInv' /\ \A v \in Workers \ {w} : Read(v)' = Read(v)
  BY <1>1, <1>8, OtherBatches DEF QueueInv
<1>10. Read(w) = {}
  BY <1>1 DEF Read, QueueInv, BatchInv
<1>11. SameStates
  <2> SUFFICES ASSUME NEW j \in JobIds PROVE StateOf(j)' = StateOf(j)
    BY DEF SameStates
  <2>1. CASE j \in DOMAIN log /\ j \notin ran /\ j \notin jobs
    <3>1. (\E v \in Workers : pc'[v] # "dead" /\ j \in Read(v)')
            <=> (\E v \in Workers : pc[v] # "dead" /\ j \in Read(v))
      BY <1>1, <1>7, <1>9, <1>10, <2>1
    <3> QED  BY <1>1, <2>1, <3>1 DEF StateOf
  <2>2. CASE j \notin DOMAIN log \/ j \in ran \/ j \in jobs
    BY <1>1, <2>2 DEF StateOf
  <2> QED  BY <2>1, <2>2
<1> QED  BY <1>9, <1>11

(* What it has read it takes out of the table.                             *)
LEMMA DeleteMoves ==
  ASSUME QueueInv, NEW w \in Workers, DrainDelete(w)
  PROVE  QueueInv' /\ Moves("queued", "taken")
<1>1. /\ pc[w] = "delete" /\ UNCHANGED <<log, ran, batch>> /\ jobs' = jobs \ Read(w)
      /\ DOMAIN pc' = Processes /\ DOMAIN batch' = Workers
      /\ \A v \in Workers \ {w} : pc'[v] = pc[v] /\ batch'[v] = batch[v]
      /\ pc'[w] = "jobs"
  BY DEF DrainDelete, Goto, QueueInv, Processes
<1>2. \A v : Read(v)' = Read(v)
  BY <1>1 DEF Read
<1>3. BatchInv(w)'
  BY <1>1, <1>2 DEF BatchInv, QueueInv, Working, RebuildPlaces
<1>4. QueueInv'
  BY <1>1, <1>3, OtherBatches DEF QueueInv
<1>5. \A v \in Workers : pc'[v] = "dead" <=> pc[v] = "dead"
  BY <1>1
<1>6. ASSUME NEW j \in JobIds, StateOf(j)' # StateOf(j)
      PROVE  StateOf(j) = "queued" /\ StateOf(j)' = "taken"
  <2>1. j \in jobs /\ j \notin jobs' /\ j \in DOMAIN log /\ j \notin ran
    BY <1>1, <1>2, <1>5, <1>6 DEF StateOf
  <2>2. \E v \in Workers : pc'[v] # "dead" /\ j \in Read(v)'
    BY <1>1, <1>2, <2>1
  <2> QED  BY <1>1, <2>1, <2>2 DEF StateOf
<1> QED  BY <1>4, <1>6 DEF Moves

LEMMA EndMoves ==
  ASSUME QueueInv, NEW w \in Workers, pc[w] \in Working, EndJob(w), UNCHANGED <<log, jobs>>
  PROVE  QueueInv' /\ Moves("taken", "done")
<1> DEFINE left == Tail(batch[w])
<1>1. /\ IsSeq(batch[w]) /\ Len(batch[w]) > 0 /\ Len(batch[w]) \in Nat
      /\ DOMAIN batch[w] = 1..Len(batch[w])
      /\ Read(w) \subseteq 1..Len(log) /\ Read(w) \cap jobs = {}
  BY SeqFacts DEF QueueInv, BatchInv
<1>2. /\ IsSeq(left) /\ Len(left) = Len(batch[w]) - 1 /\ Job(w) = batch[w][1]
      /\ \A n \in 1..Len(batch[w]) - 1 : left[n] = batch[w][n + 1]
  BY <1>1, TailIsSeq DEF Job
<1>3. /\ DOMAIN pc' = Processes /\ DOMAIN batch' = Workers
      /\ \A v \in Workers \ {w} : pc'[v] = pc[v] /\ batch'[v] = batch[v]
      /\ batch'[w] = left /\ pc'[w] = IF Len(batch[w]) = 1 THEN "idle" ELSE "jobs"
      /\ ran' = ran \cup {Job(w)}
  BY DEF EndJob, Goto, QueueInv, Processes
<1> HIDE DEF left
<1>4. DOMAIN left = 1..Len(batch[w]) - 1
  BY <1>1, <1>2, SeqFacts
<1>5. Read(w)' \subseteq Read(w) /\ Job(w) \in Read(w) /\ Read(w) \subseteq Read(w)' \cup {Job(w)}
  <2>1. PICK size \in Nat : size = Len(batch[w]) /\ size > 0
    BY <1>1
  <2>2. Read(w)' = {left[n] : n \in 1..(size - 1)}
    BY <1>3, <1>4, <2>1 DEF Read
  <2>3. Read(w) = {batch[w][n] : n \in 1..size}
    BY <1>1, <2>1 DEF Read
  <2>4. ASSUME NEW j \in Read(w)' PROVE j \in Read(w)
    <3>1. PICK n \in 1..(size - 1) : j = left[n]
      BY <2>2
    <3>2. j = batch[w][n + 1] /\ n + 1 \in 1..size
      BY <1>2, <2>1, <3>1
    <3> QED  BY <2>3, <3>2
  <2>5. ASSUME NEW j \in Read(w), j # Job(w) PROVE j \in Read(w)'
    <3>1. PICK n \in 1..size : j = batch[w][n]
      BY <2>3
    <3>2. n - 1 \in 1..(size - 1) /\ (n - 1) + 1 = n
      BY <1>2, <2>1, <2>5, <3>1
    <3>3. left[n - 1] = batch[w][n]
      BY <1>2, <2>1, <3>2
    <3> QED  BY <2>2, <3>1, <3>2, <3>3
  <2>6. 1 \in 1..size
    BY <2>1
  <2>7. Job(w) \in Read(w)
    BY <1>2, <2>3, <2>6
  <2> QED  BY <2>4, <2>5, <2>7
<1>6. BatchInv(w)'
  <2>1. Len(batch[w]) = 1 => left = <<>>
    BY <1>2, NothingIn
  <2>2. Len(batch[w]) # 1 => Len(left) > 0
    <3>1. \A n \in Nat : n > 0 /\ n # 1 => n - 1 > 0
      OBVIOUS
    <3> QED  BY <1>1, <1>2, <3>1
  <2>3. IsSeq(batch[w])' /\ Read(w)' \subseteq 1..Len(log)'
    BY <1>1, <1>2, <1>3, <1>5
  <2> QED  BY <1>1, <1>3, <1>5, <2>1, <2>2, <2>3 DEF BatchInv, Working, RebuildPlaces
<1>7. ran' \subseteq 1..Len(log)
  BY <1>1, <1>3, <1>5 DEF QueueInv
<1>8. QueueInv' /\ \A v \in Workers \ {w} : Read(v)' = Read(v)
  BY <1>3, <1>6, <1>7, OtherBatches
<1>9. ASSUME NEW j \in JobIds, StateOf(j)' # StateOf(j)
      PROVE  StateOf(j) = "taken" /\ StateOf(j)' = "done"
  <2>1. pc[w] # "dead" /\ pc'[w] # "dead"
    BY <1>3 DEF Working, RebuildPlaces
  <2>2. j = Job(w) \/ ((\E v \in Workers : pc'[v] # "dead" /\ j \in Read(v)')
                         <=> (\E v \in Workers : pc[v] # "dead" /\ j \in Read(v)))
    BY <1>3, <1>5, <1>8, <2>1
  <2>3. j = Job(w) /\ j \notin ran /\ j \in DOMAIN log
    BY <1>3, <1>9, <2>2 DEF StateOf
  <2>4. j \notin jobs /\ \E v \in Workers : pc[v] # "dead" /\ j \in Read(v)
    BY <1>1, <1>5, <2>1, <2>3
  <2> QED  BY <1>3, <2>3, <2>4 DEF StateOf
<1> QED  BY <1>8, <1>9 DEF Moves

(* A worker that dies loses what it has taken, but not what it has only    *)
(* read.                                                                   *)
LEMMA DieMoves ==
  ASSUME QueueInv, NEW w \in Workers, Die(w)
  PROVE  QueueInv' /\ Moves("taken", "lost")
<1>1. /\ UNCHANGED <<log, jobs, ran, batch>>
      /\ DOMAIN pc' = Processes /\ DOMAIN batch' = Workers
      /\ \A v \in Workers \ {w} : pc'[v] = pc[v] /\ batch'[v] = batch[v]
      /\ pc'[w] = "dead"
  BY DEF Die, Goto, QueueInv, Processes, queue
<1>2. \A v : Read(v)' = Read(v)
  BY <1>1 DEF Read
<1>3. BatchInv(w)'
  BY <1>1, <1>2 DEF BatchInv, QueueInv, Working, RebuildPlaces
<1>4. QueueInv'
  BY <1>1, <1>3, OtherBatches DEF QueueInv
<1>5. ASSUME NEW j \in JobIds, StateOf(j)' # StateOf(j)
      PROVE  StateOf(j) = "taken" /\ StateOf(j)' = "lost"
  BY <1>1, <1>2, <1>5 DEF StateOf
<1> QED  BY <1>4, <1>5 DEF Moves

LEMMA RestartMoves ==
  ASSUME QueueInv, NEW w \in Workers, Restart(w)
  PROVE  QueueInv' /\ SameStates
<1>1. /\ pc[w] = "dead" /\ UNCHANGED <<log, jobs, ran>>
      /\ DOMAIN pc' = Processes /\ DOMAIN batch' = Workers
      /\ \A v \in Workers \ {w} : pc'[v] = pc[v] /\ batch'[v] = batch[v]
      /\ pc'[w] = "idle" /\ batch'[w] = <<>>
  BY DEF Restart, Goto, QueueInv, Processes, queue
<1>2. Read(w)' = {}
  BY <1>1 DEF Read
<1>3. BatchInv(w)'
  BY <1>1, <1>2, EmptyIsSeq DEF BatchInv, QueueInv, Working, RebuildPlaces
<1>4. QueueInv' /\ \A v \in Workers \ {w} : Read(v)' = Read(v)
  BY <1>1, <1>3, OtherBatches DEF QueueInv
<1>5. \A j : (\E v \in Workers : pc'[v] # "dead" /\ j \in Read(v)')
               <=> (\E v \in Workers : pc[v] # "dead" /\ j \in Read(v))
  BY <1>1, <1>2, <1>4
<1>6. SameStates
  BY <1>1, <1>5 DEF SameStates, StateOf
<1> QED  BY <1>4, <1>6

Delivers ==
  \/ SameStates
  \/ Moves("new", "queued")
  \/ Moves("queued", "taken")
  \/ Moves("taken", "done")
  \/ Moves("taken", "lost")

LEMMA QueueIngestion ==
  ASSUME QueueInv, NEW p \in Processes, Ingestion(p)
  PROVE  QueueInv' /\ Delivers
<1> USE DEF Working
<1>1. CASE p \in Callers /\ Ingest(p)
  BY <1>1, GoesOn, PipelineAssumption DEF Ingest, Start, Delivers
<1>2. CASE p \in Workers /\ LoadEvidence(p)
  <2>1. CASE UNCHANGED pc
    BY <1>2, <2>1, QueueAside DEF LoadEvidence, QueueInv, Delivers
  <2>2. CASE Goto(p, "extract")
    BY <1>2, <2>2, GoesOn DEF LoadEvidence, Delivers
  <2> QED  BY <1>2, <2>1, <2>2 DEF LoadEvidence
<1>3. CASE p \in Workers /\ EndIngestion(p)
  BY <1>3, EndMoves DEF EndIngestion, Delivers
<1>4. CASE PutBlob(p)
  BY <1>4, GoesOn DEF PutBlob, Delivers
<1>5. CASE PutEvidence(p)
  BY <1>5, GoesOn DEF PutEvidence, Delivers
<1>6. CASE Extract(p)
  BY <1>6, GoesOn DEF Extract, Delivers
<1>7. CASE AddDraft(p)
  BY <1>7, QueueAside DEF AddDraft, QueueInv, Delivers
<1>8. CASE StoreClaim(p)
  BY <1>8, QueueAside DEF StoreClaim, QueueInv, Delivers
<1>9. CASE NextDocument(p)
  BY <1>9, GoesOn DEF NextDocument, Delivers
<1>10. CASE Enqueue(p)
  <2>1. p \in Processes \ Workers
    BY <1>10, PipelineAssumption DEF Enqueue
  <2>2. DOMAIN pc' = Processes /\ \A w \in Workers : pc'[w] = pc[w]
    BY <1>10, <2>1 DEF Enqueue, Goto, QueueInv, Processes
  <2> QED  BY <1>10, <2>2, PutMoves DEF Enqueue, Delivers
<1> QED
  BY <1>1, <1>2, <1>3, <1>4, <1>5, <1>6, <1>7, <1>8, <1>9, <1>10 DEF Ingestion

LEMMA QueueWorker ==
  ASSUME QueueInv, NEW w \in Workers, WorkerStep(w)
  PROVE  QueueInv' /\ Delivers
<1> USE DEF Working, RebuildPlaces
<1>0. w \in Processes
  BY DEF Processes
<1>1. CASE DrainSelect(w)
  BY <1>1, SelectMoves DEF Delivers
<1>2. CASE DrainDelete(w)
  BY <1>2, DeleteMoves DEF Delivers
<1>3. CASE RunIngestion(w)
  BY <1>0, <1>3, GoesOn DEF RunIngestion, Start, Delivers
<1>4. CASE SkipJob(w)
  BY <1>4, EndMoves DEF SkipJob, Delivers
<1>5. CASE ClearIndex(w)
  BY <1>0, <1>5, GoesOn DEF ClearIndex, Delivers
<1>6. CASE ReadClaims(w)
  BY <1>0, <1>6, GoesOn DEF ReadClaims, Delivers
<1>7. CASE DeleteRow(w)
  BY <1>0, <1>7, GoesOn DEF DeleteRow, Delivers
<1>8. CASE InsertRow(w)
  BY <1>0, <1>8, GoesOn DEF InsertRow, Delivers
<1>9. CASE InsertFails(w)
  BY <1>9, DieMoves DEF InsertFails, Delivers
<1>10. CASE EndRebuild(w)
  BY <1>10, EndMoves DEF EndRebuild, Delivers
<1> QED
  BY <1>1, <1>2, <1>3, <1>4, <1>5, <1>6, <1>7, <1>8, <1>9, <1>10 DEF WorkerStep

LEMMA QueueStep == QueueInv /\ [Next]_vars => QueueInv' /\ Delivers
<1> SUFFICES ASSUME QueueInv, [Next]_vars PROVE QueueInv' /\ Delivers
  OBVIOUS
<1>1. ASSUME NEW p \in Processes, Step(p) PROVE QueueInv' /\ Delivers
  BY <1>1, QueueIngestion, QueueWorker DEF Step
<1>2. ASSUME NEW p \in Processes, Fail(p) PROVE QueueInv' /\ Delivers
  <2>1. CASE p \in Workers
    BY <1>2, <2>1, DieMoves DEF Fail, Delivers
  <2>2. CASE p \notin Workers
    BY <1>2, <2>2, GoesOn DEF Fail, Delivers
  <2> QED  BY <2>1, <2>2
<1>3. ASSUME NEW w \in Workers, Stop(w) PROVE QueueInv' /\ Delivers
  BY <1>3, GoesOn DEF Stop, Processes, Delivers
<1>4. ASSUME NEW w \in Workers, Restart(w) PROVE QueueInv' /\ Delivers
  BY <1>4, RestartMoves DEF Delivers
<1>5. CASE EnqueueByHand
  <2>1. PICK job : Put(job)
    BY <1>5 DEF EnqueueByHand
  <2>2. DOMAIN pc' = Processes /\ UNCHANGED <<ran, batch>> /\ \A w \in Workers : pc'[w] = pc[w]
    BY <1>5 DEF EnqueueByHand, QueueInv
  <2> QED  BY <2>1, <2>2, PutMoves DEF Delivers
<1>6. CASE UNCHANGED vars
  BY <1>6, QueueAside DEF vars, QueueInv, Delivers
<1> QED  BY <1>1, <1>2, <1>3, <1>4, <1>5, <1>6 DEF Next

LEMMA QueueInit == Init => QueueInv /\ \A j \in JobIds : StateOf(j) = "new"
<1> SUFFICES ASSUME Init PROVE QueueInv /\ \A j \in JobIds : StateOf(j) = "new"
  OBVIOUS
<1>1. log = <<>> /\ jobs = {} /\ ran = {} /\ DOMAIN pc = Processes /\ DOMAIN batch = Workers
  BY DEF Init
<1>2. \A w \in Workers : batch[w] = <<>> /\ pc[w] = "idle"
  BY PipelineAssumption DEF Init, Processes
<1>3. \A w \in Workers : BatchInv(w)
  BY <1>2, EmptyIsSeq DEF BatchInv, Read, Working, RebuildPlaces
<1>4. \A j : j \notin DOMAIN log
  BY <1>1
<1> QED  BY <1>1, <1>3, <1>4, EmptyIsSeq DEF QueueInv, StateOf

(* The queue delivers as it promises, however many workers drain it at     *)
(* once, die and start again: a job stays in the queue until a worker      *)
(* takes it out, is not run after that except by a worker that had read    *)
(* it, and is lost only with all the workers that read it. drain selects   *)
(* and deletes without a transaction, so two workers may run a job; none   *)
(* is dropped for that.                                                    *)
THEOREM QueueDelivers == Spec => ImplementsJobDelivery
<1>1. Init => Delivery!Init
  BY QueueInit DEF Delivery!Init
<1>2. QueueInv /\ [Next]_vars => [Delivery!Next]_([j \in JobIds |-> StateOf(j)])
  <2> SUFFICES ASSUME Delivers PROVE [Delivery!Next]_([j \in JobIds |-> StateOf(j)])
    BY QueueStep
  <2>1. CASE SameStates
    BY <2>1 DEF SameStates
  <2>2. CASE ~SameStates
    BY <2>2, MovesAre
       DEF Delivers, Delivery!Next, Delivery!Enqueue, Delivery!Take, Delivery!Run, Delivery!Lose
  <2> QED  BY <2>1, <2>2
<1>3. Init => QueueInv
  BY QueueInit
<1>4. QueueInv /\ [Next]_vars => QueueInv'
  BY QueueStep
<1> QED  BY <1>1, <1>2, <1>3, <1>4, PTL DEF Spec, ImplementsJobDelivery, Delivery!Spec

-----------------------------------------------------------------------------
(* What a caller is told. Its ingestion goes through the documents of the  *)
(* request in order, and leaves behind only documents that are stored with *)
(* all their claims.                                                       *)

DocumentsOf(c) == Documents(request[c])
Name(c, n) == <<<<c, 0>>, n>>

Complete(c, n) ==
  LET document == DocumentsOf(c)[n]
      id == Name(c, Len(DocumentsOf(c)) + 1 - n)
  IN  /\ id \in DOMAIN evidence /\ evidence[id] = document
      /\ \A k \in DOMAIN Drafts(document.blob, document.mime) :
           <<id[1], id[2], k>> \in DOMAIN claims

(* What the caller has still to do is the rest of its documents.           *)
Progress(c) ==
  /\ Len(todo[c]) <= Len(DocumentsOf(c))
  /\ \A n \in 1..Len(todo[c]) :
       todo[c][n] = DocumentsOf(c)[Len(DocumentsOf(c)) - Len(todo[c]) + n]
  /\ \A n \in 1..Len(DocumentsOf(c)) - Len(todo[c]) : Complete(c, n)

AnswerInv(c) ==
  /\ IsSeq(todo[c])
  /\ pc[c] \notin {"new", "failed"} => Progress(c)
  /\ pc[c] \in {"evidence", "extract", "drafts"} => Len(todo[c]) > 0
  /\ pc[c] \in {"extract", "drafts"} =>
       /\ Name(c, Len(todo[c])) \in DOMAIN evidence
       /\ evidence[Name(c, Len(todo[c]))] = todo[c][1]
  /\ pc[c] = "ok" => Len(todo[c]) = 0

CompletenessInv ==
  /\ request \in [Callers -> Requests]
  /\ \A c \in Callers : AnswerInv(c)

LEMMA DocumentsAre ==
  ASSUME NEW body \in Requests
  PROVE  /\ IsSeq(Documents(body))
         /\ \A n \in 1..Len(Documents(body)) :
              LET drafts == Drafts(Documents(body)[n].blob, Documents(body)[n].mime)
              IN  Len(drafts) \in Nat /\ DOMAIN drafts = 1..Len(drafts)
<1> DEFINE ids == {n \in DOMAIN body : body[n].blob \in Blobs}
           kept == InOrder(ids)
           size == Cardinality(ids)
           S == {body[kept[n]] : n \in 1..size}
<1>1. /\ DOMAIN body \subseteq Nat /\ IsFiniteSet(DOMAIN body)
      /\ \A n \in DOMAIN body : body[n].blob \in Blobs =>
           Len(Drafts(body[n].blob, body[n].mime)) \in Nat
             /\ DOMAIN Drafts(body[n].blob, body[n].mime)
                  = 1..Len(Drafts(body[n].blob, body[n].mime))
  BY SequenceAssumption
<1>2. ids \in SUBSET Nat /\ IsFiniteSet(ids)
  BY <1>1, FS_Subset
<1>3. size \in Nat /\ kept \in [1..size -> ids]
  <2> HIDE DEF ids
  <2> QED  BY <1>2, InOrderFacts
<1>4. Documents(body) = [n \in 1..size |-> body[kept[n]]]
  BY <1>3 DEF Documents
<1> HIDE DEF kept, size
<1>5. Documents(body) \in Seq(S)
  BY <1>3, <1>4
<1>6. IsSeq(Documents(body)) /\ Len(Documents(body)) = size
  <2>1. Len(Documents(body)) = size
    <3> HIDE DEF S
    <3> QED  BY <1>3, <1>4, <1>5
  <2> HIDE DEF S
  <2> QED  BY <1>5, <2>1 DEF IsSeq
<1>7. ASSUME NEW n \in 1..Len(Documents(body))
      PROVE  LET drafts == Drafts(Documents(body)[n].blob, Documents(body)[n].mime)
             IN  Len(drafts) \in Nat /\ DOMAIN drafts = 1..Len(drafts)
  <2>1. kept[n] \in DOMAIN body /\ body[kept[n]].blob \in Blobs
    BY <1>3, <1>6
  <2>2. Documents(body)[n] = body[kept[n]]
    BY <1>4, <1>6
  <2> QED  BY <1>1, <2>1, <2>2
<1> QED  BY <1>6, <1>7

(* The evidence of a caller and the claims are kept.                       *)
Keeps(c) ==
  /\ DOMAIN claims \subseteq DOMAIN claims'
  /\ \A n \in Nat : Name(c, n) \in DOMAIN evidence =>
       Name(c, n) \in DOMAIN evidence' /\ evidence'[Name(c, n)] = evidence[Name(c, n)]

LEMMA CompleteStays ==
  ASSUME NEW c \in Callers, request' = request, Keeps(c), IsSeq(DocumentsOf(c)),
         NEW n \in 1..Len(DocumentsOf(c)), Complete(c, n)
  PROVE  Complete(c, n)'
<1> DEFINE size == Len(DocumentsOf(c))
           id == Name(c, size + 1 - n)
           document == DocumentsOf(c)[n]
<1>1. DocumentsOf(c)' = DocumentsOf(c)
  BY DEF DocumentsOf
<1>2. size \in Nat /\ size + 1 - n \in Nat
  BY SeqFacts
<1>3. /\ id \in DOMAIN evidence /\ evidence[id] = document
      /\ \A k \in DOMAIN Drafts(document.blob, document.mime) :
           <<id[1], id[2], k>> \in DOMAIN claims
  BY DEF Complete
<1>4. id \in DOMAIN evidence' /\ evidence'[id] = document
  BY <1>2, <1>3 DEF Keeps
<1>5. \A k \in DOMAIN Drafts(document.blob, document.mime) :
        <<id[1], id[2], k>> \in DOMAIN claims'
  BY <1>3 DEF Keeps
<1>6. Name(c, size + 1 - n)' = id
  BY <1>1 DEF Name
<1> QED  BY <1>1, <1>4, <1>5, <1>6 DEF Complete, Name

(* A step after which the caller has the same to do.                       *)
LEMMA ProgressStays ==
  ASSUME NEW c \in Callers, request \in [Callers -> Requests], request' = request,
         Keeps(c), IsSeq(todo[c]), todo'[c] = todo[c], Progress(c)
  PROVE  Progress(c)'
<1>1. DocumentsOf(c)' = DocumentsOf(c)
  BY DEF DocumentsOf
<1>2. IsSeq(DocumentsOf(c))
  BY DocumentsAre DEF DocumentsOf
<1>3. Len(DocumentsOf(c)) \in Nat /\ Len(todo[c]) \in Nat
  BY <1>2, SeqFacts
<1>4. \A n \in 1..Len(DocumentsOf(c)) - Len(todo[c]) : Complete(c, n)'
  BY <1>2, <1>3, CompleteStays DEF Progress
<1> QED  BY <1>1, <1>4 DEF Progress

LEMMA AnswerKept ==
  ASSUME NEW c \in Callers, request \in [Callers -> Requests], request' = request,
         Keeps(c), AnswerInv(c), todo'[c] = todo[c], pc'[c] = pc[c]
  PROVE  AnswerInv(c)'
<1>1. Len(todo[c]) \in Nat
  BY SeqFacts DEF AnswerInv
<1>2. pc'[c] \notin {"new", "failed"} => Progress(c)'
  BY ProgressStays DEF AnswerInv
<1>3. Name(c, Len(todo[c]))' = Name(c, Len(todo[c]))
  BY DEF Name
<1> QED  BY <1>1, <1>2, <1>3 DEF AnswerInv, Keeps

(* The steps of others name what they create after themselves.             *)
LEMMA OthersKeep ==
  ASSUME CompletenessInv, request' = request, NEW p \in Processes,
         \A c \in Callers : c # p => Keeps(c) /\ todo'[c] = todo[c] /\ pc'[c] = pc[c],
         p \in Callers => AnswerInv(p)'
  PROVE  CompletenessInv'
<1>1. \A c \in Callers : c # p => AnswerInv(c)'
  BY AnswerKept DEF CompletenessInv
<1> QED  BY <1>1 DEF CompletenessInv

LEMMA NothingAnswered ==
  ASSUME CompletenessInv, request' = request, UNCHANGED <<evidence, todo>>,
         DOMAIN claims \subseteq DOMAIN claims', \A c \in Callers : pc'[c] = pc[c]
  PROVE  CompletenessInv'
<1>1. \A c \in Callers : Keeps(c)
  BY DEF Keeps
<1> QED  BY <1>1, AnswerKept DEF CompletenessInv

(* A step of one process that stores nothing.                              *)
LEMMA MovesOn ==
  ASSUME CompletenessInv, request' = request, Domains, NEW p \in Processes,
         UNCHANGED <<evidence, claims>>, NEW next, Goto(p, next),
         todo' = todo \/ \E rest : todo' = [todo EXCEPT ![p] = rest],
         p \in Callers => AnswerInv(p)'
  PROVE  CompletenessInv'
<1>1. \A c \in Processes : c # p => todo'[c] = todo[c] /\ pc'[c] = pc[c]
  BY DEF Domains, Goto
<1>2. \A c \in Callers : Keeps(c)
  BY DEF Keeps
<1> QED  BY <1>1, <1>2, OthersKeep DEF Processes

LEMMA IngestAnswers ==
  ASSUME CompletenessInv, request' = request, Domains, NEW c \in Callers, Ingest(c)
  PROVE  CompletenessInv'
<1> DEFINE D == DocumentsOf(c)
<1>1. c \in Processes /\ UNCHANGED <<evidence, claims>> /\ Goto(c, "documents")
      /\ todo' = [todo EXCEPT ![c] = D]
  BY DEF Ingest, Start, store, Processes, DocumentsOf
<1>2. todo'[c] = D /\ pc'[c] = "documents" /\ DocumentsOf(c)' = D
  BY <1>1 DEF Domains, Goto, DocumentsOf
<1>3. IsSeq(D)
  BY DocumentsAre DEF CompletenessInv, DocumentsOf
<1>4. Len(D) \in Nat
  BY <1>3, SeqFacts
<1>5. Progress(c)'
  <2> HIDE DEF D
  <2> QED  BY <1>2, <1>4 DEF Progress
<1>6. AnswerInv(c)'
  BY <1>2, <1>3, <1>5 DEF AnswerInv
<1> QED  BY <1>1, <1>6, MovesOn

LEMMA PutBlobAnswers ==
  ASSUME CompletenessInv, request' = request, Domains, NEW c \in Callers, PutBlob(c)
  PROVE  CompletenessInv'
<1>1. /\ c \in Processes /\ UNCHANGED <<evidence, claims>> /\ Goto(c, "evidence")
      /\ pc[c] = "documents" /\ todo' = todo /\ todo[c] # <<>>
  BY DEF PutBlob, store, work, Processes
<1>2. pc'[c] = "evidence" /\ todo'[c] = todo[c]
  BY <1>1 DEF Domains, Goto
<1>3. IsSeq(todo[c]) /\ Len(todo[c]) > 0
  <2>1. IsSeq(todo[c])
    BY DEF CompletenessInv, AnswerInv
  <2>2. PICK S : todo[c] \in Seq(S)
    BY <2>1 DEF IsSeq
  <2> QED  BY <1>1, <2>1, <2>2
<1>4. Progress(c)'
  BY <1>1, <1>2, <1>3, ProgressStays DEF CompletenessInv, AnswerInv, Keeps
<1>5. AnswerInv(c)'
  BY <1>1, <1>2, <1>3, <1>4 DEF AnswerInv
<1> QED  BY <1>1, <1>5, MovesOn

LEMMA PutEvidenceAnswers ==
  ASSUME CompletenessInv, request' = request, Domains, NEW p \in Processes, PutEvidence(p)
  PROVE  CompletenessInv'
<1> DEFINE id == EvidenceId(p)
<1>1. /\ pc[p] = "evidence" /\ Goto(p, "extract")
      /\ evidence' = Extend(evidence, id, Head(todo[p]))
      /\ claims' = claims /\ todo' = todo
  BY DEF PutEvidence, work
<1>2. id \in DOMAIN evidence' /\ evidence'[id] = Head(todo[p])
      /\ \A e \in DOMAIN evidence : e # id => e \in DOMAIN evidence' /\ evidence'[e] = evidence[e]
  BY <1>1 DEF Extend
<1>3. \A c \in Processes : c # p => todo'[c] = todo[c] /\ pc'[c] = pc[c]
  BY <1>1 DEF Domains, Goto
<1>4. ASSUME NEW c \in Callers, c # p PROVE Keeps(c)
  <2>1. \A n : Name(c, n) # id
    BY <1>4 DEF Name, EvidenceId, Run
  <2> QED  BY <1>1, <1>2, <2>1 DEF Keeps
<1>5. ASSUME p \in Callers PROVE AnswerInv(p)'
  <2>1. AnswerInv(p) /\ request[p] \in Requests
    BY <1>5 DEF CompletenessInv
  <2>2. id = Name(p, Len(todo[p])) /\ todo'[p] = todo[p] /\ pc'[p] = "extract"
    BY <1>1, <1>5 DEF EvidenceId, Run, Name, Domains, Goto
  <2>3. IsSeq(todo[p]) /\ Len(todo[p]) > 0 /\ Progress(p) /\ IsSeq(DocumentsOf(p))
    BY <1>1, <2>1, DocumentsAre DEF AnswerInv, DocumentsOf
  <2>4. Head(todo[p]) = todo[p][1] /\ Len(todo[p]) \in Nat /\ Len(DocumentsOf(p)) \in Nat
    BY <2>3, TailIsSeq, SeqFacts
  <2>5. ASSUME NEW n \in 1..Len(DocumentsOf(p)) - Len(todo[p]) PROVE Complete(p, n)'
    <3>1. Complete(p, n)
      BY <2>3 DEF Progress
    <3> DEFINE e == Name(p, Len(DocumentsOf(p)) + 1 - n)
    <3>2. e # id
      <4>1. Len(DocumentsOf(p)) + 1 - n # Len(todo[p])
        BY <2>4
      <4> QED  BY <2>2, <4>1 DEF Name
    <3>3. e \in DOMAIN evidence' /\ evidence'[e] = evidence[e]
      BY <1>2, <3>1, <3>2 DEF Complete
    <3>4. DocumentsOf(p)' = DocumentsOf(p)
      BY DEF DocumentsOf
    <3>5. Name(p, Len(DocumentsOf(p)) + 1 - n)' = e
      BY <3>4 DEF Name
    <3> QED  BY <1>1, <3>1, <3>3, <3>4, <3>5 DEF Complete
  <2>6. Progress(p)'
    <3>1. DocumentsOf(p)' = DocumentsOf(p)
      BY DEF DocumentsOf
    <3> QED  BY <2>2, <2>3, <2>5, <3>1 DEF Progress
  <2>7. Name(p, Len(todo[p]))' = id
    BY <2>2 DEF Name
  <2> QED  BY <1>2, <2>2, <2>3, <2>4, <2>6, <2>7 DEF AnswerInv
<1> QED  BY <1>3, <1>4, <1>5, OthersKeep DEF Processes

LEMMA ExtractAnswers ==
  ASSUME CompletenessInv, request' = request, Domains, NEW p \in Processes, Extract(p)
  PROVE  CompletenessInv'
<1>1. /\ pc[p] = "extract" /\ Goto(p, "drafts")
      /\ UNCHANGED <<evidence, claims>> /\ todo' = todo
  BY DEF Extract, store
<1>2. ASSUME p \in Callers PROVE AnswerInv(p)'
  <2>1. AnswerInv(p)
    BY <1>2 DEF CompletenessInv
  <2>2. pc'[p] = "drafts" /\ todo'[p] = todo[p]
    BY <1>1 DEF Domains, Goto
  <2>3. Progress(p)'
    BY <1>1, <1>2, <2>1, <2>2, ProgressStays DEF CompletenessInv, AnswerInv, Keeps
  <2>4. Name(p, Len(todo[p]))' = Name(p, Len(todo[p]))
    BY <2>2 DEF Name
  <2> QED  BY <1>1, <2>1, <2>2, <2>3, <2>4 DEF AnswerInv
<1> QED  BY <1>1, <1>2, MovesOn

(* All drafts of a document have been stored as claims before the next.    *)
LEMMA StoredAll ==
  ASSUME NEW p \in Processes, IsSeq(pending[p]), Stored(p) = Len(pending[p])
  PROVE  \A k \in 1..Len(pending[p]) : ClaimId(p, k) \in DOMAIN claims
<1> DEFINE size == Len(pending[p])
           stored == {n \in DOMAIN pending[p] : ClaimId(p, n) \in DOMAIN claims}
<1>1. size \in Nat /\ DOMAIN pending[p] = 1..size
  BY SeqFacts
<1>2. IsFiniteSet(1..size) /\ Cardinality(1..size) = size
  BY <1>1, FS_Interval
<1>3. stored \subseteq 1..size /\ Cardinality(stored) = size
  BY <1>1 DEF Stored
<1> HIDE DEF stored
<1>4. stored = 1..size
  BY <1>2, <1>3, FS_Subset
<1> QED  BY <1>4 DEF stored

LEMMA NextDocumentAnswers ==
  ASSUME CompletenessInv, ReferenceInv, request' = request, NEW p \in Processes, NextDocument(p)
  PROVE  CompletenessInv'
<1>1. /\ pc[p] = "drafts" /\ Goto(p, "documents")
      /\ UNCHANGED <<evidence, claims>> /\ todo' = [todo EXCEPT ![p] = Tail(@)]
      /\ Len(pending[p]) = Len(Found(p)) /\ Stored(p) = Len(pending[p])
  BY DEF NextDocument, store
<1>2. Domains
  BY DEF ReferenceInv
<1>3. ASSUME p \in Callers PROVE AnswerInv(p)'
  <2> DEFINE D == DocumentsOf(p)
             left == Len(todo[p])
  <2>1. AnswerInv(p) /\ request[p] \in Requests
    BY <1>3 DEF CompletenessInv
  <2>2. pc'[p] = "documents" /\ todo'[p] = Tail(todo[p]) /\ DocumentsOf(p)' = D
    BY <1>1, <1>2 DEF Domains, Goto, DocumentsOf
  <2>3. IsSeq(todo[p]) /\ left > 0 /\ Progress(p) /\ IsSeq(D)
    BY <1>1, <2>1, DocumentsAre DEF AnswerInv, DocumentsOf
  <2>4. left \in Nat /\ Len(D) \in Nat /\ left <= Len(D)
    BY <2>3, SeqFacts DEF Progress
  <2>4a. PICK now \in 1..Len(D) : now = Len(D) - left + 1 /\ Len(D) + 1 - now = left
    <3>1. Len(D) - left + 1 \in 1..Len(D) /\ Len(D) + 1 - (Len(D) - left + 1) = left
      <4> HIDE DEF D, left
      <4> QED  BY <2>3, <2>4
    <3> QED  BY <3>1
  <2>5. /\ IsSeq(Tail(todo[p])) /\ Len(Tail(todo[p])) = left - 1
        /\ \A n \in 1..left - 1 : Tail(todo[p])[n] = todo[p][n + 1]
    BY <2>3, TailIsSeq
  <2>6. todo[p][1] = D[now] /\ evidence[Name(p, left)] = D[now]
        /\ Name(p, left) \in DOMAIN evidence
    <3>1. todo[p][1] = D[now]
      <4>1. 1 \in 1..left /\ Len(D) - left + 1 = now
        BY <2>4a, <2>3, <2>4
      <4> QED  BY <2>3, <4>1 DEF Progress
    <3> QED  BY <1>1, <2>1, <3>1 DEF AnswerInv
  <2>7. Complete(p, now)'
    <3>1. SourceId(p) = Name(p, left)
      BY <1>3, PipelineAssumption DEF SourceId, EvidenceId, Run, Name
    <3>2. p \notin Workers
      BY <1>3, PipelineAssumption
    <3>3. Found(p) = Drafts(D[now].blob, D[now].mime)
      BY <2>6, <3>1, <3>2 DEF Found
    <3>4. Len(Found(p)) \in Nat /\ DOMAIN Found(p) = 1..Len(Found(p))
      BY <2>4a, <2>1, <3>3, DocumentsAre DEF DocumentsOf
    <3>5. IsSeq(pending[p])
      BY DEF ReferenceInv, PendingRefers
    <3>6. \A k \in DOMAIN Found(p) : ClaimId(p, k) \in DOMAIN claims
      BY <1>1, <3>4, <3>5, StoredAll
    <3>7. \A k : ClaimId(p, k) = <<<<p, 0>>, left, k>>
      BY <1>3 DEF ClaimId, Run
    <3>8. Name(p, Len(D) + 1 - now) = <<<<p, 0>>, left>>
      BY <2>4a DEF Name
    <3>9. Complete(p, now)
      BY <2>6, <3>3, <3>6, <3>7, <3>8 DEF Complete, Name
    <3>10. Keeps(p)
      BY <1>1 DEF Keeps
    <3> QED  BY <1>3, <2>3, <3>9, <3>10, CompleteStays
  <2>8. Progress(p)'
    <3>1. \A n \in 1..Len(D) - left : Complete(p, n)'
      BY <1>1, <1>3, <2>3, <2>4, CompleteStays DEF Progress, Keeps
    <3>2. \A n \in 1..Len(D) - (left - 1) : Complete(p, n)'
      <4>1. ASSUME NEW n \in 1..Len(D) - (left - 1) PROVE n = now \/ n \in 1..Len(D) - left
        BY <2>4a, <2>4
      <4> QED  BY <2>7, <3>1, <4>1
    <3>3. \A n \in 1..left - 1 : Tail(todo[p])[n] = D[Len(D) - (left - 1) + n]
      <4>1. ASSUME NEW n \in 1..left - 1 PROVE Tail(todo[p])[n] = D[Len(D) - (left - 1) + n]
        <5>1. n + 1 \in 1..left /\ Len(D) - left + (n + 1) = Len(D) - (left - 1) + n
          BY <2>4
        <5>2. Tail(todo[p])[n] = todo[p][n + 1]
          BY <2>5
        <5>3. todo[p][n + 1] = D[Len(D) - left + (n + 1)]
          BY <2>3, <5>1 DEF Progress
        <5> QED  BY <5>1, <5>2, <5>3
      <4> QED  BY <4>1
    <3>4. left - 1 <= Len(D)
      BY <2>4
    <3> QED  BY <2>2, <2>5, <3>2, <3>3, <3>4 DEF Progress
  <2> QED  BY <2>2, <2>5, <2>8 DEF AnswerInv
<1> QED  BY <1>1, <1>2, <1>3, MovesOn

LEMMA EnqueueAnswers ==
  ASSUME CompletenessInv, request' = request, Domains, NEW p \in Processes, Enqueue(p)
  PROVE  CompletenessInv'
<1>1. /\ pc[p] = "documents" /\ Goto(p, "ok") /\ todo[p] = <<>>
      /\ UNCHANGED <<evidence, claims>> /\ todo' = todo /\ p \in Callers
  BY DEF Enqueue, store, work
<1>2. AnswerInv(p)
  BY <1>1 DEF CompletenessInv
<1>3. pc'[p] = "ok" /\ todo'[p] = <<>> /\ Len(todo'[p]) = 0
  BY <1>1, EmptyIsSeq DEF Domains, Goto
<1>4. Progress(p)'
  BY <1>1, <1>2, <1>3, ProgressStays DEF CompletenessInv, AnswerInv, Keeps
<1>5. AnswerInv(p)'
  BY <1>3, <1>4, EmptyIsSeq DEF AnswerInv
<1> QED  BY <1>1, <1>5, MovesOn

LEMMA CompletenessStep == CompletenessInv /\ ReferenceInv /\ [Next]_vars => CompletenessInv'
<1> SUFFICES ASSUME CompletenessInv, ReferenceInv, [Next]_vars PROVE CompletenessInv'
  OBVIOUS
<1>1. Domains /\ Processes = Callers \cup Workers /\ Callers \cap Workers = {}
  BY PipelineAssumption DEF ReferenceInv, Processes
<1>2. ASSUME NEW p \in Processes, Ingestion(p), request' = request PROVE CompletenessInv'
  <2>1. CASE p \in Callers /\ Ingest(p)
    BY <1>1, <1>2, <2>1, IngestAnswers
  <2>2. CASE p \in Workers /\ LoadEvidence(p)
    <3>1. UNCHANGED <<evidence, claims>> /\ \A c \in Callers : todo'[c] = todo[c] /\ pc'[c] = pc[c]
      BY <1>1, <2>2 DEF LoadEvidence, store, Domains, Goto
    <3>2. \A c \in Callers : Keeps(c)
      BY <3>1 DEF Keeps
    <3> QED  BY <1>1, <1>2, <2>2, <3>1, <3>2, OthersKeep
  <2>3. CASE p \in Workers /\ EndIngestion(p)
    BY <1>1, <1>2, <2>3, NothingAnswered DEF EndIngestion, EndJob, Goto, Domains, store, work
  <2>4. CASE PutBlob(p)
    BY <1>1, <1>2, <2>4, PutBlobAnswers DEF PutBlob
  <2>5. CASE PutEvidence(p)
    BY <1>1, <1>2, <2>5, PutEvidenceAnswers
  <2>6. CASE Extract(p)
    BY <1>1, <1>2, <2>6, ExtractAnswers
  <2>7. CASE AddDraft(p)
    BY <1>2, <2>7, NothingAnswered DEF AddDraft
  <2>8. CASE StoreClaim(p)
    BY <1>2, <2>8, NothingAnswered DEF StoreClaim, Extend, work
  <2>9. CASE NextDocument(p)
    BY <1>2, <2>9, NextDocumentAnswers
  <2>10. CASE Enqueue(p)
    BY <1>1, <1>2, <2>10, EnqueueAnswers
  <2> QED
    BY <1>2, <2>1, <2>2, <2>3, <2>4, <2>5, <2>6, <2>7, <2>8, <2>9, <2>10 DEF Ingestion
<1>3. ASSUME NEW w \in Workers, WorkerStep(w), request' = request PROVE CompletenessInv'
  <2>1. UNCHANGED <<evidence, claims>> /\ \A c \in Callers : todo'[c] = todo[c] /\ pc'[c] = pc[c]
    BY <1>1, <1>3
       DEF WorkerStep, DrainSelect, DrainDelete, RunIngestion, SkipJob, ClearIndex, ReadClaims,
           DeleteRow, InsertRow, InsertFails, EndRebuild, EndJob, Die, Forget, Start, Goto,
           Domains, store, work
  <2>2. \A c \in Callers : Keeps(c)
    BY <2>1 DEF Keeps
  <2> QED  BY <1>1, <1>3, <2>1, <2>2, OthersKeep
<1>4. ASSUME NEW p \in Processes, Fail(p), request' = request PROVE CompletenessInv'
  <2>1. CASE p \in Workers
    <3>1. UNCHANGED <<evidence, claims>> /\ \A c \in Callers : todo'[c] = todo[c] /\ pc'[c] = pc[c]
      BY <1>1, <1>4, <2>1 DEF Fail, Die, Forget, Goto, Domains, store
    <3>2. \A c \in Callers : Keeps(c)
      BY <3>1 DEF Keeps
    <3> QED  BY <1>1, <1>4, <2>1, <3>1, <3>2, OthersKeep
  <2>2. CASE p \notin Workers
    <3>1. /\ UNCHANGED <<evidence, claims>> /\ Goto(p, "failed")
          /\ todo' = [todo EXCEPT ![p] = <<>>]
      BY <1>4, <2>2 DEF Fail, Forget, store
    <3>2. pc'[p] = "failed" /\ todo'[p] = <<>>
      BY <1>1, <3>1 DEF Domains, Goto
    <3>3. AnswerInv(p)'
      BY <3>2, EmptyIsSeq DEF AnswerInv
    <3> QED  BY <1>1, <1>4, <3>1, <3>3, MovesOn
  <2> QED  BY <2>1, <2>2
<1>5. ASSUME NEW w \in Workers, Stop(w) \/ Restart(w), request' = request PROVE CompletenessInv'
  BY <1>1, <1>5, NothingAnswered DEF Stop, Restart, Goto, Domains, store, work
<1>6. ASSUME EnqueueByHand, request' = request PROVE CompletenessInv'
  BY <1>6, NothingAnswered DEF EnqueueByHand, store, work
<1>7. CASE UNCHANGED vars
  BY <1>7, NothingAnswered DEF vars, store, work
<1> QED  BY <1>2, <1>3, <1>4, <1>5, <1>6, <1>7 DEF Next, Step

LEMMA CompletenessInit == Init => CompletenessInv
<1> SUFFICES ASSUME Init PROVE CompletenessInv
  OBVIOUS
<1>1. \A c \in Callers : todo[c] = <<>> /\ pc[c] = "new"
  BY DEF Init, Processes
<1>2. \A c \in Callers : AnswerInv(c)
  BY <1>1, EmptyIsSeq DEF AnswerInv
<1> QED  BY <1>2 DEF Init, CompletenessInv

(* A caller that is told ok finds all its documents that have text in the  *)
(* store, with every claim the provider extracted from them, whatever else *)
(* runs, fails or crashes meanwhile: ingestDocuments answers only when     *)
(* nothing of the request is left.                                         *)
THEOREM AnswersAreWhole == Spec => []AnswersAreComplete
<1>1. Init => CompletenessInv /\ ReferenceInv
  BY CompletenessInit, ReferenceInit
<1>2. CompletenessInv /\ ReferenceInv /\ [Next]_vars => CompletenessInv' /\ ReferenceInv'
  BY CompletenessStep, ReferenceStep
<1>3. CompletenessInv => AnswersAreComplete
  <2> SUFFICES ASSUME CompletenessInv, NEW c \in Callers, pc[c] = "ok",
                      NEW n \in DOMAIN DocumentsOf(c)
               PROVE  Complete(c, n)
    BY DEF AnswersAreComplete, Complete, DocumentsOf, Name, Run
  <2>1. AnswerInv(c) /\ IsSeq(DocumentsOf(c))
    BY DocumentsAre DEF CompletenessInv, DocumentsOf
  <2>2. DOMAIN DocumentsOf(c) = 1..Len(DocumentsOf(c)) - Len(todo[c])
    BY <2>1, SeqFacts DEF AnswerInv
  <2> QED  BY <2>1, <2>2 DEF AnswerInv, Progress
<1> QED  BY <1>1, <1>2, <1>3, PTL DEF Spec

-----------------------------------------------------------------------------
(* Which claims are marked. A run goes through its documents in order, so  *)
(* when one is extracted the claims of the earlier ones are all stored and *)
(* are listed, and those of the same document are pending together.        *)
Runs(stored) == {c[1] : c \in DOMAIN stored}

IdsAre(stored) ==
  \A c \in DOMAIN stored :
    /\ c = <<c[1], c[2], c[3]>> /\ c[2] \in Nat /\ c[3] \in Nat
    /\ stored[c].subject[1] = c[1]

Contradicts(stored, c, d) == c[1] = d[1] /\ Before(c, d) /\ Overlap(stored[c], stored[d])

Marks(stored) ==
  \A d \in DOMAIN stored :
    stored[d].status = "conflicted" <=> \E c \in DOMAIN stored : Contradicts(stored, c, d)

(* A pending claim is marked if it overlaps one that was listed or one     *)
(* that is pending before it.                                              *)
MarkedWell(run, listed, drafted, stored) ==
  \A n \in 1..Len(drafted) :
    /\ drafted[n].subject[1] = run
    /\ drafted[n].status = "conflicted" <=>
         \/ \E c \in listed : Overlap(stored[c], drafted[n])
         \/ \E m \in 1..n - 1 : Overlap(drafted[m], drafted[n])

(* The first of the pending claims are stored.                             *)
FirstStored(run, k, s, drafted, stored) ==
  \A n \in Nat :
    /\ <<run, k, n>> \in DOMAIN stored <=> n \in 1..s
    /\ n \in 1..s => stored[<<run, k, n>>] = drafted[n]

Drafting(run, k, listed, drafted, stored) ==
  /\ \A c \in DOMAIN stored : c[1] = run => c[2] >= k /\ (c[2] > k => c \in listed)
  /\ \A c \in listed : c \in DOMAIN stored /\ (c[1] = run => c[2] > k)
  /\ MarkedWell(run, listed, drafted, stored)
  /\ \E s \in 0..Len(drafted) : FirstStored(run, k, s, drafted, stored)

LEMMA DraftingBegins ==
  ASSUME NEW run, NEW k \in Nat, NEW stored, IdsAre(stored),
         \A c \in DOMAIN stored : c[1] = run => c[2] > k
  PROVE  Drafting(run, k, DOMAIN stored, <<>>, stored)
<1>1. \A n \in Nat : <<run, k, n>> \notin DOMAIN stored
  BY DEF IdsAre
<1>2. FirstStored(run, k, 0, <<>>, stored)
  BY <1>1 DEF FirstStored
<1>3. 0 \in 0..Len(<<>>)
  BY EmptyIsSeq
<1>4. MarkedWell(run, DOMAIN stored, <<>>, stored)
  BY EmptyIsSeq DEF MarkedWell
<1>5. \A c \in DOMAIN stored : c[1] = run => c[2] >= k
  BY DEF IdsAre
<1> QED  BY <1>2, <1>3, <1>4, <1>5 DEF Drafting

LEMMA DraftAdded ==
  ASSUME NEW run, NEW k, NEW listed, NEW drafted, NEW stored, IsSeq(drafted),
         Drafting(run, k, listed, drafted, stored),
         NEW claim, claim.subject[1] = run,
         claim.status = "conflicted" <=>
           \/ \E c \in listed : Overlap(stored[c], claim)
           \/ \E m \in 1..Len(drafted) : Overlap(drafted[m], claim)
  PROVE  Drafting(run, k, listed, Append(drafted, claim), stored)
<1> DEFINE size == Len(drafted)
           more == Append(drafted, claim)
<1>1. /\ size \in Nat /\ Len(more) = size + 1
      /\ \A n \in 1..size + 1 : more[n] = IF n = size + 1 THEN claim ELSE drafted[n]
  BY AppendIsSeq
<1>2. MarkedWell(run, listed, drafted, stored)
  BY DEF Drafting
<1>3. PICK s \in 0..size : FirstStored(run, k, s, drafted, stored)
  BY DEF Drafting
<1> HIDE DEF size, more
<1>4. \A n \in 1..size : more[n] = drafted[n]
  BY <1>1
<1>5. MarkedWell(run, listed, more, stored)
  <2> SUFFICES ASSUME NEW n \in 1..size + 1
               PROVE  /\ more[n].subject[1] = run
                      /\ more[n].status = "conflicted" <=>
                           \/ \E c \in listed : Overlap(stored[c], more[n])
                           \/ \E m \in 1..n - 1 : Overlap(more[m], more[n])
    BY <1>1 DEF MarkedWell
  <2>1. \A m \in 1..n - 1 : more[m] = drafted[m]
    BY <1>1, <1>4
  <2>2. CASE n = size + 1
    <3>1. more[n] = claim /\ n - 1 = size
      BY <1>1, <2>2
    <3> QED  BY <2>1, <3>1 DEF size
  <2>3. CASE n # size + 1
    <3>1. n \in 1..size
      BY <1>1, <2>3
    <3>2. more[n] = drafted[n]
      BY <1>4, <3>1
    <3> QED  BY <1>2, <2>1, <3>1, <3>2 DEF MarkedWell, size
  <2> QED  BY <2>2, <2>3
<1>6. FirstStored(run, k, s, more, stored) /\ s \in 0..Len(more)
  <2>1. \A n \in 1..s : n \in 1..size
    BY <1>1, <1>3
  <2> QED  BY <1>1, <1>3, <1>4, <2>1 DEF FirstStored
<1> QED  BY <1>5, <1>6 DEF Drafting, more

(* The next of the pending claims is stored under a new name.              *)
GrowsBy(next, stored, id, claim) ==
  /\ DOMAIN next = DOMAIN stored \cup {id} /\ id \notin DOMAIN stored
  /\ next[id] = claim
  /\ \A c \in DOMAIN stored : next[c] = stored[c]

LEMMA ClaimStored ==
  ASSUME NEW run, NEW k \in Nat, NEW listed, NEW drafted, NEW stored, NEW next, NEW s,
         IsSeq(drafted), Marks(stored), IdsAre(stored),
         Drafting(run, k, listed, drafted, stored),
         s \in 0..Len(drafted), FirstStored(run, k, s, drafted, stored),
         s + 1 \in 1..Len(drafted),
         GrowsBy(next, stored, <<run, k, s + 1>>, drafted[s + 1])
  PROVE  Marks(next) /\ IdsAre(next) /\ Drafting(run, k, listed, drafted, next)
<1> DEFINE size == Len(drafted)
<1>1. size \in Nat
  BY SeqFacts
<1>2. PICK n \in 1..size : n = s + 1 /\ n - 1 = s
  BY <1>1
<1>3. PICK id, claim : /\ id = <<run, k, n>> /\ claim = drafted[n]
                       /\ id[1] = run /\ id[2] = k /\ id[3] = n
  <2>1. \A x : x = <<run, k, n>> => x[1] = run /\ x[2] = k /\ x[3] = n
    OBVIOUS
  <2> QED  BY <2>1
<1>4. GrowsBy(next, stored, id, claim)
  BY <1>2, <1>3
<1>5. /\ \A c \in DOMAIN stored : c[1] = run => c[2] >= k /\ (c[2] > k => c \in listed)
      /\ \A c \in listed : c \in DOMAIN stored /\ (c[1] = run => c[2] > k)
      /\ MarkedWell(run, listed, drafted, stored)
  BY DEF Drafting
<1>6. claim.subject[1] = run
  BY <1>2, <1>3, <1>5 DEF MarkedWell
<1>7. IdsAre(next)
  <2>1. id = <<id[1], id[2], id[3]>> /\ id[2] \in Nat /\ id[3] \in Nat
    BY <1>1, <1>3
  <2>2. next[id].subject[1] = id[1]
    BY <1>3, <1>4, <1>6 DEF GrowsBy
  <2>3. \A c \in DOMAIN stored : next[c] = stored[c] /\ c \in DOMAIN next
    BY <1>4 DEF GrowsBy
  <2>4. DOMAIN next = DOMAIN stored \cup {id}
    BY <1>4 DEF GrowsBy
  <2> SUFFICES ASSUME NEW c \in DOMAIN next
               PROVE  /\ c = <<c[1], c[2], c[3]>> /\ c[2] \in Nat /\ c[3] \in Nat
                      /\ next[c].subject[1] = c[1]
    BY DEF IdsAre
  <2>5. CASE c = id
    BY <2>1, <2>2, <2>5
  <2>6. CASE c \in DOMAIN stored
    BY <2>3, <2>6 DEF IdsAre
  <2> QED  BY <2>4, <2>5, <2>6
(* Of the same document, the claims stored are the first n - 1 pending.    *)
<1>8. ASSUME NEW c \in DOMAIN stored, c[1] = run, c[2] = k
      PROVE  c[3] \in 1..s /\ stored[c] = drafted[c[3]]
  <2>1. c = <<run, k, c[3]>> /\ c[3] \in Nat
    BY <1>8 DEF IdsAre
  <2> QED  BY <2>1 DEF FirstStored
<1>9. ASSUME NEW c \in DOMAIN stored PROVE ~Contradicts(next, id, c)
  <2> SUFFICES ASSUME c[1] = run, Before(id, c) PROVE FALSE
    BY <1>3 DEF Contradicts
  <2>1. c[2] \in Nat /\ c[3] \in Nat /\ c[2] >= k
    BY <1>5 DEF IdsAre
  <2>2. c[2] = k /\ n < c[3]
    BY <1>3, <2>1 DEF Before
  <2> QED  BY <1>1, <1>2, <1>8, <2>2
<1>10. ASSUME NEW c \in DOMAIN stored, NEW d \in DOMAIN stored
       PROVE  Contradicts(next, c, d) <=> Contradicts(stored, c, d)
  BY <1>4 DEF GrowsBy, Contradicts
(* The claims that contradict the new one are those listed, and those that *)
(* are pending before it.                                                  *)
<1>11. (\E c \in DOMAIN stored : Contradicts(next, c, id))
         <=> \/ \E c \in listed : Overlap(stored[c], claim)
             \/ \E m \in 1..s : Overlap(drafted[m], claim)
  <2>1. ASSUME NEW c \in DOMAIN stored, Contradicts(next, c, id)
        PROVE  \/ \E b \in listed : Overlap(stored[b], claim)
               \/ \E m \in 1..s : Overlap(drafted[m], claim)
    <3>1. c[1] = run /\ Overlap(stored[c], claim)
      BY <1>3, <1>4, <2>1 DEF Contradicts, GrowsBy
    <3>2. CASE c[2] > k
      BY <1>5, <3>1, <3>2
    <3>3. CASE c[2] = k
      BY <1>8, <3>1, <3>3
    <3>4. c[2] >= k /\ c[2] \in Nat
      BY <1>5, <3>1 DEF IdsAre
    <3> QED  BY <3>2, <3>3, <3>4
  <2>2. ASSUME NEW c \in listed, Overlap(stored[c], claim)
        PROVE  \E b \in DOMAIN stored : Contradicts(next, b, id)
    <3>1. c \in DOMAIN stored
      BY <1>5
    <3>2. c[1] = run
      BY <1>6, <2>2, <3>1 DEF Overlap, IdsAre
    <3>3. c[2] > k
      BY <1>5, <3>2
    <3>4. Before(c, id)
      BY <1>3, <3>3 DEF Before
    <3>5. Contradicts(next, c, id)
      BY <1>3, <1>4, <2>2, <3>1, <3>2, <3>4 DEF Contradicts, GrowsBy
    <3> QED  BY <3>1, <3>5
  <2>3. ASSUME NEW m \in 1..s, Overlap(drafted[m], claim)
        PROVE  \E b \in DOMAIN stored : Contradicts(next, b, id)
    <3>1. PICK c : c = <<run, k, m>> /\ c[1] = run /\ c[2] = k /\ c[3] = m
      <4>1. \A x : x = <<run, k, m>> => x[1] = run /\ x[2] = k /\ x[3] = m
        OBVIOUS
      <4> QED  BY <4>1
    <3>2. c \in DOMAIN stored /\ stored[c] = drafted[m]
      BY <3>1 DEF FirstStored
    <3>3. m < n
      BY <1>1, <1>2
    <3>4. Before(c, id)
      BY <1>3, <3>1, <3>3 DEF Before
    <3>5. Contradicts(next, c, id)
      BY <1>3, <1>4, <2>3, <3>1, <3>2, <3>4 DEF Contradicts, GrowsBy
    <3> QED  BY <3>2, <3>5
  <2> QED  BY <2>1, <2>2, <2>3
<1>12. ~Contradicts(next, id, id)
  <2>1. ~Before(id, id)
    BY <1>1, <1>3 DEF Before
  <2> QED  BY <2>1 DEF Contradicts
<1>13. Marks(next)
  <2> SUFFICES ASSUME NEW d \in DOMAIN next
               PROVE  next[d].status = "conflicted"
                        <=> \E c \in DOMAIN next : Contradicts(next, c, d)
    BY DEF Marks
  <2>1. CASE d = id
    <3>1. next[d] = drafted[n] /\ n - 1 = s
      BY <1>2, <1>3, <1>4, <2>1 DEF GrowsBy
    <3>2. next[d].status = "conflicted"
            <=> \/ \E c \in listed : Overlap(stored[c], claim)
                \/ \E m \in 1..s : Overlap(drafted[m], claim)
      BY <1>3, <1>5, <3>1 DEF MarkedWell
    <3> QED  BY <1>4, <1>11, <1>12, <2>1, <3>2 DEF GrowsBy
  <2>2. CASE d # id
    <3>1. d \in DOMAIN stored /\ next[d] = stored[d]
      BY <1>4, <2>2 DEF GrowsBy
    <3>2. (\E c \in DOMAIN next : Contradicts(next, c, d))
            <=> \E c \in DOMAIN stored : Contradicts(stored, c, d)
      BY <1>4, <1>9, <1>10, <3>1 DEF GrowsBy
    <3> QED  BY <3>1, <3>2 DEF Marks
  <2> QED  BY <2>1, <2>2
<1>14. Drafting(run, k, listed, drafted, next)
  <2>1. \A c \in DOMAIN next : c[1] = run => c[2] >= k /\ (c[2] > k => c \in listed)
    <3>1. id[2] >= k /\ ~(id[2] > k)
      BY <1>3
    <3> QED  BY <1>4, <1>5, <3>1 DEF GrowsBy
  <2>2. \A c \in listed : c \in DOMAIN next /\ next[c] = stored[c]
    BY <1>4, <1>5 DEF GrowsBy
  <2>3. MarkedWell(run, listed, drafted, next)
    BY <1>5, <2>2 DEF MarkedWell
  <2>4. FirstStored(run, k, n, drafted, next)
    <3> SUFFICES ASSUME NEW m \in Nat
                 PROVE  /\ <<run, k, m>> \in DOMAIN next <=> m \in 1..n
                        /\ m \in 1..n => next[<<run, k, m>>] = drafted[m]
      BY DEF FirstStored
    <3>1. m \in 1..n <=> m = n \/ m \in 1..s
      BY <1>1, <1>2
    <3>2. <<run, k, m>> = id <=> m = n
      BY <1>3
    <3> QED  BY <1>3, <1>4, <3>1, <3>2 DEF FirstStored, GrowsBy
  <2>5. n \in 0..size
    BY <1>1
  <2> QED  BY <1>5, <2>1, <2>2, <2>3, <2>4, <2>5 DEF Drafting
<1> QED  BY <1>7, <1>13, <1>14

(* A claim of another run does not concern a document.                     *)
LEMMA DraftingStays ==
  ASSUME NEW run, NEW k, NEW listed, NEW drafted, NEW stored, NEW next, NEW id, NEW claim,
         Drafting(run, k, listed, drafted, stored), GrowsBy(next, stored, id, claim), id[1] # run
  PROVE  Drafting(run, k, listed, drafted, next)
<1>1. PICK s \in 0..Len(drafted) : FirstStored(run, k, s, drafted, stored)
  BY DEF Drafting
<1>2. FirstStored(run, k, s, drafted, next)
  <2>1. \A n \in Nat : <<run, k, n>> # id
    OBVIOUS
  <2> QED  BY <1>1, <2>1 DEF FirstStored, GrowsBy
<1>3. /\ \A c \in DOMAIN stored : c[1] = run => c[2] >= k /\ (c[2] > k => c \in listed)
      /\ \A c \in listed : c \in DOMAIN stored /\ (c[1] = run => c[2] > k)
      /\ MarkedWell(run, listed, drafted, stored)
  BY DEF Drafting
<1>4. \A c \in listed : c \in DOMAIN next /\ next[c] = stored[c]
  BY <1>3 DEF GrowsBy
<1>5. MarkedWell(run, listed, drafted, next)
  BY <1>3, <1>4 DEF MarkedWell
<1>6. \A c \in DOMAIN next : c[1] = run => c[2] >= k /\ (c[2] > k => c \in listed)
  BY <1>3 DEF GrowsBy
<1> QED  BY <1>1, <1>2, <1>3, <1>4, <1>5, <1>6 DEF Drafting

(* Where a process is in its run.                                          *)
InRun(run, place, left, listed, drafted, stored) ==
  /\ place \in {"evidence", "extract", "drafts"} => Len(left) > 0
  /\ place \in {"documents", "evidence", "extract"} =>
       \A c \in DOMAIN stored : c[1] = run => c[2] > Len(left)
  /\ place = "drafts" => Drafting(run, Len(left), listed, drafted, stored)

Running == {"documents", "evidence", "extract", "drafts"}

RunInv(p) ==
  /\ IsSeq(todo[p])
  /\ pc[p] # "drafts" => pending[p] = <<>>
  /\ pc[p] \in Running => InRun(Run(p), pc[p], todo[p], existing[p], pending[p], claims)

(* A run has not stored anything before it begins: a caller begins one,    *)
(* and a worker runs a job once, even if it drains it a second time, since *)
(* it does not run any before it has deleted them all.                     *)
Untouched(w, place, taken, started) ==
  /\ \A m, n \in 1..Len(taken) : m # n => taken[m] # taken[n]
  /\ \A n \in 1..Len(taken) :
       (n > 1 /\ place # "dead") \/ place \in {"delete", "jobs"} => <<w, taken[n]>> \notin started

RunsInv ==
  /\ \A c \in Callers : pc[c] = "new" => <<c, 0>> \notin Runs(claims)
  /\ \A w \in Workers : Untouched(w, pc[w], batch[w], Runs(claims))
  /\ \A w \in Workers, j \in Nat : <<w, j>> \in Runs(claims) => j \in 1..Len(log) /\ j \notin jobs

MarkInv ==
  /\ DOMAIN existing = Processes
  /\ Marks(claims) /\ IdsAre(claims)
  /\ \A p \in Processes : RunInv(p)
  /\ RunsInv
  /\ \A j \in 1..Len(log) : IsSeq(log[j].of)

(* What a step of one process leaves to the others.                        *)
Aside(q) ==
  /\ pc'[q] = pc[q] /\ todo'[q] = todo[q] /\ existing'[q] = existing[q]
  /\ pending'[q] = pending[q] /\ Run(q)' = Run(q)

LEMMA RunStays ==
  ASSUME NEW q \in Processes, RunInv(q), Aside(q), claims' = claims
  PROVE  RunInv(q)'
<1>1. InRun(Run(q), pc[q], todo[q], existing[q], pending[q], claims)' =
      InRun(Run(q)', pc'[q], todo'[q], existing'[q], pending'[q], claims')
  OBVIOUS
<1> QED  BY <1>1 DEF RunInv, Aside

(* A step that stores no claim and leaves the queue and the batches.       *)
LEMMA RunsStay ==
  ASSUME MarkInv, Domains, UNCHANGED <<claims, log, jobs>>, NEW p \in Processes,
         DOMAIN existing' = Processes, RunInv(p)',
         \A q \in Processes \ {p} : Aside(q),
         p \in Callers => pc'[p] # "new",
         \A w \in Workers \ {p} : batch'[w] = batch[w],
         p \in Workers => Untouched(p, pc'[p], batch'[p], Runs(claims))
  PROVE  MarkInv'
<1>1. \A q \in Processes : RunInv(q)'
  BY RunStays DEF MarkInv
<1>2. Runs(claims)' = Runs(claims)
  BY DEF Runs
<1>3. \A w \in Workers : Untouched(w, pc'[w], batch'[w], Runs(claims))
  <2>1. \A w \in Workers \ {p} : pc'[w] = pc[w]
    BY DEF Aside, Processes
  <2> QED  BY <2>1 DEF MarkInv, RunsInv
<1>4. \A w \in Workers : Untouched(w, pc[w], batch[w], Runs(claims))'
  BY <1>2, <1>3 DEF Untouched
<1>5. \A c \in Callers : pc'[c] = "new" => <<c, 0>> \notin Runs(claims)
  BY DEF Aside, Processes, MarkInv, RunsInv
<1>6. RunsInv'
  BY <1>2, <1>4, <1>5 DEF MarkInv, RunsInv
<1> QED  BY <1>1, <1>6 DEF MarkInv

(* A worker goes on to a place where it needs no more of its batch.        *)
LEMMA UntouchedStays ==
  ASSUME NEW w, NEW taken, NEW started, NEW place, NEW next, Untouched(w, place, taken, started),
         place \in {"delete", "jobs"} \/ (next \notin {"delete", "jobs"} /\ (place = "dead" => next = "dead"))
  PROVE  Untouched(w, next, taken, started)
BY DEF Untouched

(* What the work of one process becomes in a step, that of the others      *)
(* staying as it is.                                                       *)
Becomes(p, next, left, listed, drafted) ==
  /\ pc'[p] = next /\ todo'[p] = left /\ existing'[p] = listed /\ pending'[p] = drafted
  /\ DOMAIN existing' = Processes
  /\ \A q \in Processes \ {p} :
       /\ pc'[q] = pc[q] /\ todo'[q] = todo[q]
       /\ existing'[q] = existing[q] /\ pending'[q] = pending[q]

LEMMA RunIsSame ==
  ASSUME NEW q \in Processes, q \in Workers => batch'[q] = batch[q]
  PROVE  Run(q)' = Run(q)
<1>1. CASE q \in Callers
  BY <1>1 DEF Run
<1>2. CASE q \notin Callers
  BY <1>2 DEF Run, Job, Processes
<1> QED  BY <1>1, <1>2

LEMMA GoesInRun ==
  ASSUME MarkInv, Domains, NEW p \in Processes,
         NEW next, NEW left, NEW listed, NEW drafted, Becomes(p, next, left, listed, drafted),
         UNCHANGED <<claims, log, jobs, batch>>,
         IsSeq(left), next # "drafts" => drafted = <<>>,
         next \in Running => InRun(Run(p), next, left, listed, drafted, claims),
         p \in Callers => next # "new",
         p \in Workers => \/ pc[p] \in {"delete", "jobs"}
                          \/ next \notin {"delete", "jobs"} /\ (pc[p] = "dead" => next = "dead")
  PROVE  MarkInv'
<1>1. \A q \in Processes : Run(q)' = Run(q)
  BY RunIsSame
<1>2. \A q \in Processes \ {p} : Aside(q)
  BY <1>1 DEF Aside, Becomes
<1>3. InRun(Run(p), pc[p], todo[p], existing[p], pending[p], claims)' =
      InRun(Run(p)', pc'[p], todo'[p], existing'[p], pending'[p], claims')
  OBVIOUS
<1>4. RunInv(p)'
  BY <1>1, <1>3 DEF RunInv, Becomes
<1>5. p \in Workers => Untouched(p, pc'[p], batch'[p], Runs(claims))
  <2>1. p \in Workers => Untouched(p, pc[p], batch[p], Runs(claims))
    BY DEF MarkInv, RunsInv
  <2> QED  BY <2>1, UntouchedStays DEF Becomes
<1> QED  BY <1>2, <1>4, <1>5, RunsStay DEF Becomes

(* A caller or a worker begins its run.                                    *)
LEMMA StartMarks ==
  ASSUME MarkInv, Domains, NEW p \in Processes, NEW items, Start(p, items, "documents"),
         IsSeq(items), UNCHANGED <<claims, log, jobs, batch>>,
         pc[p] # "drafts", Run(p) \notin Runs(claims), p \in Workers => pc[p] = "jobs"
  PROVE  MarkInv'
<1>1. Becomes(p, "documents", items, existing[p], pending[p])
  BY DEF Start, Goto, Becomes, Domains, MarkInv
<1>2. pending[p] = <<>>
  BY DEF MarkInv, RunInv
<1>3. InRun(Run(p), "documents", items, existing[p], pending[p], claims)
  BY DEF InRun, Runs
<1> QED  BY <1>1, <1>2, <1>3, GoesInRun DEF Running

LEMMA IngestMarks ==
  ASSUME MarkInv, Domains, CompletenessInv, NEW c \in Callers, Ingest(c)
  PROVE  MarkInv'
<1>1. /\ c \in Processes /\ c \notin Workers /\ pc[c] = "new"
      /\ Start(c, Documents(request[c]), "documents") /\ UNCHANGED <<claims, log, jobs, batch>>
  BY PipelineAssumption DEF Ingest, Processes, store, queue
<1>2. IsSeq(Documents(request[c]))
  BY DocumentsAre DEF CompletenessInv
<1>3. Run(c) \notin Runs(claims)
  BY <1>1 DEF Run, MarkInv, RunsInv
<1> QED  BY <1>1, <1>2, <1>3, StartMarks

LEMMA RunIngestionMarks ==
  ASSUME MarkInv, Domains, QueueInv, NEW w \in Workers, RunIngestion(w)
  PROVE  MarkInv'
<1>1. /\ w \in Processes /\ w \notin Callers /\ pc[w] = "jobs"
      /\ Start(w, log[Job(w)].of, "documents") /\ UNCHANGED <<claims, log, jobs, batch>>
  BY PipelineAssumption DEF RunIngestion, Processes, store, queue
<1>2. /\ IsSeq(batch[w]) /\ Len(batch[w]) > 0 /\ Read(w) \subseteq 1..Len(log)
  BY <1>1 DEF QueueInv, BatchInv, Working
<1>3. Job(w) = batch[w][1] /\ 1 \in 1..Len(batch[w]) /\ DOMAIN batch[w] = 1..Len(batch[w])
  BY <1>2, TailIsSeq, SeqFacts DEF Job
<1>4. Job(w) \in 1..Len(log)
  BY <1>2, <1>3 DEF Read
<1>5. IsSeq(log[Job(w)].of)
  BY <1>4 DEF MarkInv
<1>6. Run(w) \notin Runs(claims)
  BY <1>1, <1>3 DEF Run, MarkInv, RunsInv, Untouched
<1> QED  BY <1>1, <1>5, <1>6, StartMarks

LEMMA SamePlaceMarks ==
  ASSUME MarkInv, Domains, NEW p \in Processes, pc[p] \in {"documents", "evidence"},
         NEW next \in {"evidence", "extract"}, Goto(p, next), Len(todo[p]) > 0,
         UNCHANGED <<claims, log, jobs, batch, work>>
  PROVE  MarkInv'
<1>1. Becomes(p, next, todo[p], existing[p], pending[p])
  BY DEF Goto, Becomes, Domains, MarkInv, work
<1>2. /\ IsSeq(todo[p]) /\ pending[p] = <<>>
      /\ InRun(Run(p), pc[p], todo[p], existing[p], pending[p], claims)
  BY DEF MarkInv, RunInv, Running
<1>3. InRun(Run(p), next, todo[p], existing[p], pending[p], claims)
  BY <1>2 DEF InRun
<1> QED  BY <1>1, <1>2, <1>3, GoesInRun DEF Running

LEMMA NotEmpty ==
  ASSUME NEW s, IsSeq(s), s # <<>>
  PROVE  Len(s) > 0
<1>1. PICK S : s \in Seq(S)
  BY DEF IsSeq
<1> QED  BY <1>1

LEMMA ToExtractMarks ==
  ASSUME MarkInv, Domains, NEW p \in Processes, PutBlob(p) \/ PutEvidence(p)
  PROVE  MarkInv'
<1>1. CASE PutBlob(p)
  <2>1. Len(todo[p]) > 0
    BY <1>1, NotEmpty DEF PutBlob, MarkInv, RunInv
  <2> QED  BY <1>1, <2>1, SamePlaceMarks DEF PutBlob, store, queue
<1>2. CASE PutEvidence(p)
  <2>1. Len(todo[p]) > 0
    BY <1>2 DEF PutEvidence, MarkInv, RunInv, InRun, Running
  <2> QED  BY <1>2, <2>1, SamePlaceMarks DEF PutEvidence, store, queue
<1> QED  BY <1>1, <1>2

LEMMA LoadEvidenceMarks ==
  ASSUME MarkInv, Domains, NEW w \in Workers, LoadEvidence(w)
  PROVE  MarkInv'
<1>1. /\ w \in Processes /\ pc[w] = "documents" /\ todo[w] # <<>>
      /\ UNCHANGED <<claims, log, jobs, batch, existing, pending>>
  BY DEF LoadEvidence, Processes, store, queue
<1>2. /\ IsSeq(todo[w]) /\ pending[w] = <<>> /\ Len(todo[w]) > 0
      /\ InRun(Run(w), "documents", todo[w], existing[w], pending[w], claims)
  BY <1>1, NotEmpty DEF MarkInv, RunInv, Running
<1>3. CASE Goto(w, "extract") /\ UNCHANGED todo
  BY <1>1, <1>2, <1>3, SamePlaceMarks DEF work
<1>4. CASE todo' = [todo EXCEPT ![w] = Tail(@)] /\ UNCHANGED pc
  <2>1. Becomes(w, "documents", Tail(todo[w]), existing[w], pending[w])
    BY <1>1, <1>4 DEF Becomes, Domains, MarkInv
  <2>2. IsSeq(Tail(todo[w])) /\ Len(Tail(todo[w])) = Len(todo[w]) - 1 /\ Len(todo[w]) \in Nat
    BY <1>2, TailIsSeq, SeqFacts
  <2>3. InRun(Run(w), "documents", Tail(todo[w]), existing[w], pending[w], claims)
    BY <1>2, <2>2 DEF InRun, MarkInv, IdsAre
  <2> QED  BY <1>1, <1>2, <2>1, <2>2, <2>3, GoesInRun DEF Running
<1> QED  BY <1>3, <1>4 DEF LoadEvidence

LEMMA ExtractMarks ==
  ASSUME MarkInv, Domains, NEW p \in Processes, Extract(p)
  PROVE  MarkInv'
<1>1. /\ pc[p] = "extract" /\ UNCHANGED <<claims, log, jobs, batch, todo, pending>>
      /\ existing' = [existing EXCEPT ![p] = DOMAIN claims] /\ Goto(p, "drafts")
  BY DEF Extract, store, queue
<1>2. Becomes(p, "drafts", todo[p], DOMAIN claims, pending[p])
  BY <1>1 DEF Goto, Becomes, Domains, MarkInv
<1>3. /\ IsSeq(todo[p]) /\ pending[p] = <<>> /\ Len(todo[p]) > 0
      /\ \A c \in DOMAIN claims : c[1] = Run(p) => c[2] > Len(todo[p])
  BY <1>1 DEF MarkInv, RunInv, InRun, Running
<1>4. Len(todo[p]) \in Nat
  BY <1>3, SeqFacts
<1>5. Drafting(Run(p), Len(todo[p]), DOMAIN claims, <<>>, claims)
  BY <1>3, <1>4, DraftingBegins DEF MarkInv
<1>6. InRun(Run(p), "drafts", todo[p], DOMAIN claims, pending[p], claims)
  BY <1>3, <1>5 DEF InRun
<1> QED  BY <1>1, <1>2, <1>3, <1>6, GoesInRun

LEMMA AddDraftMarks ==
  ASSUME MarkInv, Domains, NEW p \in Processes, IsSeq(pending[p]), AddDraft(p)
  PROVE  MarkInv'
<1> DEFINE drafted == pending[p]
<1>1. PICK marked :
        /\ marked.subject[1] = Run(p)
        /\ marked.status = "conflicted" <=>
             \/ \E c \in existing[p] : Overlap(claims[c], marked)
             \/ \E m \in DOMAIN drafted : Overlap(drafted[m], marked)
        /\ pending' = [pending EXCEPT ![p] = Append(@, marked)]
  <2> DEFINE draft == Found(p)[Len(pending[p]) + 1]
             claim == [subject |-> EntityId(p, draft.label), predicate |-> Normalized(draft.predicate),
                       object |-> draft.object, evidence |-> SourceId(p), status |-> "asserted"]
             others == {claims[c] : c \in existing[p]}
                         \cup {pending[p][n] : n \in DOMAIN pending[p]}
             marked == IF \E other \in others : Overlap(other, claim)
                       THEN [claim EXCEPT !.status = "conflicted"] ELSE claim
  <2>1. pending' = [pending EXCEPT ![p] = Append(@, marked)]
    BY DEF AddDraft
  <2>2. claim.subject[1] = Run(p) /\ claim.status = "asserted"
    BY DEF EntityId
  <2>3. /\ marked.subject = claim.subject /\ marked.predicate = claim.predicate
        /\ marked.object = claim.object
    OBVIOUS
  <2>4. marked.status = "conflicted" <=> \E other \in others : Overlap(other, claim)
    OBVIOUS
  <2> HIDE DEF marked, claim
  <2>5. \A other : Overlap(other, marked) <=> Overlap(other, claim)
    BY <2>3 DEF Overlap
  <2>6. (\E other \in others : Overlap(other, claim)) <=>
          \/ \E c \in existing[p] : Overlap(claims[c], marked)
          \/ \E m \in DOMAIN drafted : Overlap(drafted[m], marked)
    BY <2>5
  <2> QED  BY <2>1, <2>2, <2>3, <2>4, <2>6
<1>2. /\ pc[p] = "drafts" /\ UNCHANGED <<claims, log, jobs, batch, todo, existing, pc>>
  BY DEF AddDraft, queue
<1>3. Becomes(p, "drafts", todo[p], existing[p], Append(drafted, marked))
  BY <1>1, <1>2 DEF Becomes, Domains, MarkInv
<1>4. /\ IsSeq(todo[p]) /\ Len(todo[p]) > 0
      /\ Drafting(Run(p), Len(todo[p]), existing[p], drafted, claims)
  BY <1>2 DEF MarkInv, RunInv, InRun, Running
<1>5. DOMAIN drafted = 1..Len(drafted)
  BY SeqFacts
<1>6. Drafting(Run(p), Len(todo[p]), existing[p], Append(drafted, marked), claims)
  BY <1>1, <1>4, <1>5, DraftAdded
<1>7. InRun(Run(p), "drafts", todo[p], existing[p], Append(drafted, marked), claims)
  BY <1>4, <1>6 DEF InRun
<1> QED  BY <1>2, <1>3, <1>4, <1>7, GoesInRun

(* The claims that are stored are counted to find the next.                *)
LEMMA StoredCount ==
  ASSUME NEW p \in Processes, IsSeq(pending[p]), NEW s \in 0..Len(pending[p]),
         FirstStored(Run(p), Len(todo[p]), s, pending[p], claims)
  PROVE  Stored(p) = s
<1>1. Len(pending[p]) \in Nat /\ DOMAIN pending[p] = 1..Len(pending[p])
  BY SeqFacts
<1>2. {n \in DOMAIN pending[p] : ClaimId(p, n) \in DOMAIN claims} = 1..s
  <2>1. \A n \in 1..Len(pending[p]) : ClaimId(p, n) \in DOMAIN claims <=> n \in 1..s
    BY <1>1 DEF FirstStored, ClaimId
  <2>2. 1..s \subseteq 1..Len(pending[p])
    BY <1>1
  <2> QED  BY <1>1, <2>1, <2>2
<1>3. Cardinality(1..s) = s
  BY FS_Interval
<1> QED  BY <1>2, <1>3 DEF Stored

LEMMA StoreClaimMarks ==
  ASSUME MarkInv, Domains, QueueInv, NEW p \in Processes, IsSeq(pending[p]), StoreClaim(p)
  PROVE  MarkInv'
<1> DEFINE run == Run(p)
           k == Len(todo[p])
           drafted == pending[p]
<1>1. /\ pc[p] = "drafts" /\ UNCHANGED <<log, jobs, batch, todo, existing, pending, pc>>
      /\ Stored(p) < Len(drafted)
      /\ claims' = Extend(claims, ClaimId(p, Stored(p) + 1), drafted[Stored(p) + 1])
  BY DEF StoreClaim, queue, work
<1>2. /\ IsSeq(todo[p]) /\ k > 0 /\ k \in Nat
      /\ Drafting(run, k, existing[p], drafted, claims)
  BY <1>1, SeqFacts DEF MarkInv, RunInv, InRun, Running
<1>3. PICK s \in 0..Len(drafted) : FirstStored(run, k, s, drafted, claims)
  BY <1>2 DEF Drafting
<1>4. Stored(p) = s /\ Len(drafted) \in Nat
  BY <1>3, StoredCount, SeqFacts
<1>5. s + 1 \in 1..Len(drafted)
  BY <1>1, <1>4
<1>6. PICK next, id : next = claims' /\ id = <<run, k, s + 1>>
  OBVIOUS
<1>6a. id[1] = run
  BY <1>6
<1>7. GrowsBy(next, claims, id, drafted[s + 1])
  <2>1. id \notin DOMAIN claims
    <3>1. s + 1 \in Nat /\ s + 1 \notin 1..s
      BY <1>4
    <3> QED  BY <1>3, <1>6, <3>1 DEF FirstStored
  <2>2. next = Extend(claims, id, drafted[s + 1])
    BY <1>1, <1>4, <1>6 DEF ClaimId
  <2> HIDE DEF drafted
  <2> QED  BY <2>1, <2>2 DEF GrowsBy, Extend
<1>8. Marks(next) /\ IdsAre(next) /\ Drafting(run, k, existing[p], drafted, next)
  <2> HIDE DEF run, k, drafted
  <2>1. Marks(claims) /\ IdsAre(claims) /\ IsSeq(drafted)
    BY DEF MarkInv, drafted
  <2> QED  BY <1>2, <1>3, <1>5, <1>6, <1>7, <2>1, ClaimStored
<1>9. \A q \in Processes : Run(q)' = Run(q)
  BY <1>1, RunIsSame
<1>10. ASSUME NEW q \in Processes, pc[q] \in Running
       PROVE  InRun(Run(q), pc[q], todo[q], existing[q], pending[q], next)
  <2>1. InRun(Run(q), pc[q], todo[q], existing[q], pending[q], claims)
    BY <1>10 DEF MarkInv, RunInv
  <2>2. CASE q = p
    BY <1>1, <1>2, <1>8, <2>1, <2>2 DEF InRun
  <2>3. CASE q # p
    <3>1. id[1] # Run(q)
      BY <1>6a, <2>3 DEF Run
    <3>2. \A c \in DOMAIN next : c[1] = Run(q) => c \in DOMAIN claims
      BY <1>7, <3>1 DEF GrowsBy
    <3>3. pc[q] = "drafts" => Drafting(Run(q), Len(todo[q]), existing[q], pending[q], next)
      BY <1>7, <2>1, <3>1, DraftingStays DEF InRun
    <3> QED  BY <2>1, <3>2, <3>3 DEF InRun
  <2> QED  BY <2>2, <2>3
<1>11. \A q \in Processes : RunInv(q)'
  <2> SUFFICES ASSUME NEW q \in Processes PROVE RunInv(q)'
    OBVIOUS
  <2>1. InRun(Run(q), pc[q], todo[q], existing[q], pending[q], claims)' =
        InRun(Run(q)', pc'[q], todo'[q], existing'[q], pending'[q], claims')
    OBVIOUS
  <2>2. RunInv(q)
    BY DEF MarkInv
  <2> HIDE DEF run, k, drafted
  <2> QED  BY <1>1, <1>6, <1>9, <1>10, <2>1, <2>2 DEF RunInv
<1>12. Runs(next) = Runs(claims) \cup {run}
  <2>1. id[1] = run /\ DOMAIN next = DOMAIN claims \cup {id}
    BY <1>6a, <1>7 DEF GrowsBy
  <2> HIDE DEF run
  <2> QED  BY <2>1 DEF Runs
<1>13. ASSUME p \in Workers
       PROVE  /\ run = <<p, batch[p][1]>> /\ batch[p][1] \in 1..Len(log) /\ batch[p][1] \notin jobs
              /\ 1 \in 1..Len(batch[p])
  <2>1. /\ IsSeq(batch[p]) /\ Len(batch[p]) > 0 /\ Read(p) \subseteq 1..Len(log)
        /\ Read(p) \cap jobs = {}
    BY <1>1, <1>13 DEF QueueInv, BatchInv, Working
  <2>2. Job(p) = batch[p][1] /\ 1 \in 1..Len(batch[p]) /\ DOMAIN batch[p] = 1..Len(batch[p])
    BY <2>1, TailIsSeq, SeqFacts DEF Job
  <2>3. p \notin Callers
    BY <1>13, PipelineAssumption
  <2>4. Job(p) \in Read(p)
    BY <2>2 DEF Read
  <2> QED  BY <2>1, <2>2, <2>3, <2>4 DEF Run
<1>14. RunsInv'
  <2>0. Runs(claims)' = Runs(next)
    BY <1>6 DEF Runs
  <2>1. \A c \in Callers : pc[c] = "new" => <<c, 0>> \notin Runs(next)
    <3>1. \A c \in Callers : pc[c] = "new" => <<c, 0>> # run
      BY <1>1 DEF Run
    <3> QED  BY <1>12, <3>1 DEF MarkInv, RunsInv
  <2>2. ASSUME NEW w \in Workers PROVE Untouched(w, pc[w], batch[w], Runs(next))
    <3>1. Untouched(w, pc[w], batch[w], Runs(claims))
      BY DEF MarkInv, RunsInv
    <3>2. CASE w = p
      <4>1. /\ run = <<p, batch[p][1]>> /\ 1 \in 1..Len(batch[p])
            /\ \A m, n \in 1..Len(batch[p]) : m # n => batch[p][m] # batch[p][n]
        BY <1>13, <3>1, <3>2 DEF Untouched
      <4>2. \A n \in 1..Len(batch[p]) : n > 1 => <<p, batch[p][n]>> # run
        BY <4>1
      <4> HIDE DEF run
      <4> QED  BY <1>1, <1>12, <3>1, <3>2, <4>2 DEF Untouched
    <3>3. CASE w # p
      <4>1. \A j : <<w, j>> # run
        BY <3>3 DEF Run
      <4> HIDE DEF run
      <4> QED  BY <1>12, <3>1, <4>1 DEF Untouched
    <3> QED  BY <3>2, <3>3
  <2>3. ASSUME NEW w \in Workers, NEW j \in Nat, <<w, j>> \in Runs(next)
        PROVE  j \in 1..Len(log) /\ j \notin jobs
    <3>1. CASE <<w, j>> \in Runs(claims)
      BY <3>1 DEF MarkInv, RunsInv
    <3>2. CASE <<w, j>> = run
      <4>1. w = p
        BY <3>2 DEF Run
      <4>2. j = batch[p][1]
        BY <1>13, <3>2, <4>1
      <4> QED  BY <1>13, <4>1, <4>2
    <3> QED  BY <1>12, <2>3, <3>1, <3>2
  <2>4. \A w \in Workers : Untouched(w, pc[w], batch[w], Runs(claims))'
    BY <1>1, <2>0, <2>2 DEF Untouched
  <2> QED  BY <1>1, <2>0, <2>1, <2>3, <2>4 DEF RunsInv
<1> QED  BY <1>1, <1>6, <1>8, <1>11, <1>14 DEF MarkInv

LEMMA NextDocumentMarks ==
  ASSUME MarkInv, Domains, NEW p \in Processes, IsSeq(pending[p]), NextDocument(p)
  PROVE  MarkInv'
<1>1. /\ pc[p] = "drafts" /\ UNCHANGED <<claims, log, jobs, batch>>
  BY DEF NextDocument, store, queue
<1>2. Becomes(p, "documents", Tail(todo[p]), {}, <<>>)
  BY DEF NextDocument, Goto, Becomes, Domains, MarkInv
<1>3. /\ IsSeq(todo[p]) /\ Len(todo[p]) > 0
      /\ Drafting(Run(p), Len(todo[p]), existing[p], pending[p], claims)
  BY <1>1 DEF MarkInv, RunInv, InRun, Running
<1>4. IsSeq(Tail(todo[p])) /\ Len(Tail(todo[p])) = Len(todo[p]) - 1 /\ Len(todo[p]) \in Nat
  BY <1>3, TailIsSeq, SeqFacts
<1>5. \A c \in DOMAIN claims : c[1] = Run(p) => c[2] >= Len(todo[p]) /\ c[2] \in Nat
  BY <1>3 DEF Drafting, MarkInv, IdsAre
<1>6. InRun(Run(p), "documents", Tail(todo[p]), {}, <<>>, claims)
  BY <1>4, <1>5 DEF InRun
<1> QED  BY <1>1, <1>2, <1>4, <1>6, GoesInRun

(* A process goes on outside its run, or ends it.                          *)
LEMMA OutsideMarks ==
  ASSUME MarkInv, Domains, NEW p \in Processes, NEW next, Goto(p, next),
         UNCHANGED <<claims, log, jobs, batch, work>>, pc[p] # "drafts",
         next \notin Running \cup {"new", "delete", "jobs"}, pc[p] = "dead" => next = "dead"
  PROVE  MarkInv'
<1>1. Becomes(p, next, todo[p], existing[p], pending[p])
  BY DEF Goto, Becomes, Domains, MarkInv, work
<1>2. IsSeq(todo[p]) /\ pending[p] = <<>>
  BY DEF MarkInv, RunInv
<1> QED  BY <1>1, <1>2, GoesInRun

LEMMA ForgetMarks ==
  ASSUME MarkInv, Domains, NEW p \in Processes, NEW next \in {"dead", "failed"}, Goto(p, next),
         p \in Workers => next = "dead",
         UNCHANGED <<claims, log, jobs, batch>>, Forget(p)
  PROVE  MarkInv'
<1>1. Becomes(p, next, <<>>, {}, <<>>)
  BY DEF Forget, Goto, Becomes, Domains, MarkInv
<1> QED  BY <1>1, EmptyIsSeq, GoesInRun DEF Running

(* A worker that is in no run after the step, with another batch.          *)
LEMMA BatchMarks ==
  ASSUME MarkInv, Domains, NEW w \in Workers, NEW next \in {"idle", "jobs", "delete"}, Goto(w, next),
         UNCHANGED <<claims, log, jobs, work>>, pc[w] # "drafts",
         \A v \in Workers \ {w} : batch'[v] = batch[v],
         Untouched(w, next, batch'[w], Runs(claims))
  PROVE  MarkInv'
<1>1. w \in Processes /\ w \notin Callers
  BY PipelineAssumption DEF Processes
<1>2. /\ pc'[w] = next /\ \A q \in Processes \ {w} : pc'[q] = pc[q]
      /\ UNCHANGED <<todo, existing, pending>> /\ DOMAIN existing' = Processes
  BY <1>1 DEF Goto, Domains, MarkInv, work
<1>3. \A q \in Processes \ {w} : Run(q)' = Run(q)
  BY RunIsSame
<1>4. \A q \in Processes \ {w} : Aside(q)
  BY <1>2, <1>3 DEF Aside
<1>5. RunInv(w)'
  BY <1>1, <1>2 DEF RunInv, MarkInv, Running
<1> QED  BY <1>1, <1>2, <1>4, <1>5, RunsStay

LEMMA EndMarks ==
  ASSUME MarkInv, Domains, QueueInv, NEW w \in Workers, EndJob(w),
         pc[w] \in Working, pc[w] # "drafts", UNCHANGED <<claims, log, jobs, work>>
  PROVE  MarkInv'
<1> DEFINE next == IF Len(batch[w]) = 1 THEN "idle" ELSE "jobs"
           left == Tail(batch[w])
<1>1. /\ IsSeq(batch[w]) /\ Len(batch[w]) > 0 /\ Len(batch[w]) \in Nat
  BY SeqFacts DEF QueueInv, BatchInv, Working
<1>2. /\ Len(left) = Len(batch[w]) - 1
      /\ \A n \in 1..Len(batch[w]) - 1 : left[n] = batch[w][n + 1]
  BY <1>1, TailIsSeq
<1>3. /\ batch'[w] = left /\ Goto(w, next)
      /\ \A v \in Workers \ {w} : batch'[v] = batch[v]
  BY DEF EndJob, QueueInv
<1>4. Untouched(w, pc[w], batch[w], Runs(claims)) /\ pc[w] # "dead"
  BY DEF MarkInv, RunsInv, Working, RebuildPlaces
<1>5. Untouched(w, next, left, Runs(claims))
  <2>1. \A n \in 1..Len(left) : n + 1 \in 1..Len(batch[w]) /\ n + 1 > 1 /\ left[n] = batch[w][n + 1]
    <3> HIDE DEF left
    <3> QED  BY <1>1, <1>2
  <2>2. \A m, n \in 1..Len(left) : m # n => m + 1 # n + 1
    <3> HIDE DEF left
    <3> QED  BY <1>1, <1>2
  <2> HIDE DEF left, next
  <2> QED  BY <1>4, <2>1, <2>2 DEF Untouched
<1> QED  BY <1>3, <1>5, BatchMarks

LEMMA SelectMarks ==
  ASSUME MarkInv, Domains, QueueInv, NEW w \in Workers, DrainSelect(w)
  PROVE  MarkInv'
<1> DEFINE s == InOrder(jobs)
<1>1. /\ pc[w] = "idle" /\ Goto(w, "delete") /\ UNCHANGED <<claims, log, jobs, work>>
      /\ batch'[w] = s /\ \A v \in Workers \ {w} : batch'[v] = batch[v]
  BY DEF DrainSelect, QueueInv, store, queue
<1>2. jobs \in SUBSET Nat /\ IsFiniteSet(jobs)
  <2>1. Len(log) \in Nat /\ jobs \subseteq 1..Len(log)
    BY SeqFacts DEF QueueInv
  <2>2. IsFiniteSet(1..Len(log)) /\ 1..Len(log) \subseteq Nat
    BY <2>1, FS_Interval
  <2> QED  BY <2>1, <2>2, FS_Subset
<1>3. /\ Cardinality(jobs) \in Nat
      /\ s \in [1..Cardinality(jobs) -> jobs]
      /\ \A m, n \in 1..Cardinality(jobs) : m < n => s[m] < s[n]
  BY <1>2, InOrderFacts
<1> HIDE DEF s
<1>4. Len(s) = Cardinality(jobs)
  BY <1>3
<1>5. \A m, n \in 1..Len(s) : m # n => s[m] # s[n]
  <2> SUFFICES ASSUME NEW m \in 1..Len(s), NEW n \in 1..Len(s), m # n PROVE s[m] # s[n]
    OBVIOUS
  <2>1. s[m] \in Nat /\ s[n] \in Nat
    BY <1>2, <1>3, <1>4
  <2>2. m < n \/ n < m
    BY <1>3, <1>4
  <2> QED  BY <1>3, <1>4, <2>1, <2>2
<1>6. \A n \in 1..Len(s) : <<w, s[n]>> \notin Runs(claims)
  BY <1>2, <1>3, <1>4 DEF MarkInv, RunsInv
<1>7. Untouched(w, "delete", s, Runs(claims))
  BY <1>5, <1>6 DEF Untouched
<1> QED  BY <1>1, <1>7, BatchMarks

(* Fewer jobs are in the table, or one more under a new id.                *)
LEMMA JobsMarks ==
  ASSUME MarkInv, Domains, QueueInv, UNCHANGED <<claims, batch, work>>,
         \/ jobs' \subseteq jobs /\ log' = log
         \/ \E job : Put(job) /\ IsSeq(job.of),
         NEW p, NEW next,
         \/ UNCHANGED pc
         \/ /\ p \in Processes /\ Goto(p, next)
            /\ pc[p] # "drafts" /\ (p \in Workers => pc[p] # "dead")
            /\ next \notin Running \cup {"new", "delete"} /\ (next = "jobs" => pc[p] = "delete")
  PROVE  MarkInv'
<1>1. /\ \A q \in Processes : /\ pc'[q] = pc[q] \/ (q = p /\ pc'[q] = next)
                              /\ todo'[q] = todo[q] /\ pending'[q] = pending[q]
                              /\ existing'[q] = existing[q]
      /\ UNCHANGED <<todo, existing, pending>>
  BY DEF Goto, Domains, work
<1>2. \A q \in Processes : Run(q)' = Run(q)
  BY RunIsSame
<1>3. ASSUME NEW q \in Processes PROVE RunInv(q)'
  <2>1. RunInv(q)
    BY DEF MarkInv
  <2>2. CASE pc'[q] = pc[q]
    BY <1>1, <1>2, <2>1, <2>2, RunStays DEF Aside
  <2>3. CASE pc'[q] # pc[q]
    BY <1>1, <2>1, <2>3 DEF RunInv
  <2> QED  BY <2>2, <2>3
<1>4. Len(log) \in Nat
  BY SeqFacts DEF QueueInv
<1>5. Runs(claims)' = Runs(claims)
  BY DEF Runs
<1>6. ASSUME NEW w \in Workers PROVE Untouched(w, pc[w], batch[w], Runs(claims))'
  <2>1. Untouched(w, pc[w], batch[w], Runs(claims)) /\ w \in Processes
    BY DEF MarkInv, RunsInv, Processes
  <2>2. Untouched(w, pc'[w], batch[w], Runs(claims))
    BY <1>1, <2>1 DEF Untouched
  <2> QED  BY <1>5, <2>2 DEF Untouched
<1>7. \A c \in Callers : pc'[c] = "new" => pc[c] = "new"
  BY <1>1 DEF Processes
<1>8. ASSUME NEW w \in Workers, NEW j \in Nat, <<w, j>> \in Runs(claims)
      PROVE  j \in 1..Len(log)' /\ j \notin jobs'
  <2>1. j \in 1..Len(log) /\ j \notin jobs
    BY <1>8 DEF MarkInv, RunsInv
  <2>2. CASE jobs' \subseteq jobs /\ log' = log
    BY <2>1, <2>2
  <2>3. CASE \E job : Put(job)
    <3>1. PICK job : Put(job)
      BY <2>3
    <3>2. jobs' = jobs \cup {Len(log) + 1} /\ Len(log') = Len(log) + 1
      BY <3>1, AppendIsSeq DEF Put, QueueInv
    <3> QED  BY <1>4, <2>1, <3>2
  <2> QED  BY <2>2, <2>3
<1>9. RunsInv'
  BY <1>5, <1>6, <1>7, <1>8 DEF RunsInv, MarkInv
<1>10. \A j \in 1..Len(log') : IsSeq(log'[j].of)
  <2>1. CASE log' = log
    BY <2>1 DEF MarkInv
  <2>2. CASE \E job : Put(job) /\ IsSeq(job.of)
    <3>1. PICK job : Put(job) /\ IsSeq(job.of)
      BY <2>2
    <3>2. /\ Len(log') = Len(log) + 1
          /\ \A j \in 1..Len(log) + 1 : log'[j] = IF j = Len(log) + 1 THEN job ELSE log[j]
      BY <3>1, AppendIsSeq DEF Put, QueueInv
    <3>3. \A j \in 1..Len(log) + 1 : j = Len(log) + 1 \/ j \in 1..Len(log)
      BY <1>4
    <3> QED  BY <3>1, <3>2, <3>3 DEF MarkInv
  <2> QED  BY <2>1, <2>2
<1> QED  BY <1>3, <1>9, <1>10, <1>1 DEF MarkInv

LEMMA IngestionMarks ==
  ASSUME MarkInv, Domains, QueueInv, CompletenessInv, \A q \in Processes : IsSeq(pending[q]),
         NEW p \in Processes, Ingestion(p)
  PROVE  MarkInv'
<1>1. CASE p \in Callers /\ Ingest(p)
  BY <1>1, IngestMarks
<1>2. CASE p \in Workers /\ LoadEvidence(p)
  BY <1>2, LoadEvidenceMarks
<1>3. CASE p \in Workers /\ EndIngestion(p)
  BY <1>3, EndMarks DEF EndIngestion, store, Working
<1>4. CASE PutBlob(p) \/ PutEvidence(p)
  BY <1>4, ToExtractMarks
<1>5. CASE Extract(p)
  BY <1>5, ExtractMarks
<1>6. CASE AddDraft(p)
  BY <1>6, AddDraftMarks
<1>7. CASE StoreClaim(p)
  BY <1>7, StoreClaimMarks
<1>8. CASE NextDocument(p)
  BY <1>8, NextDocumentMarks
<1>9. CASE Enqueue(p)
  <2>1. /\ p \notin Workers /\ pc[p] = "documents" /\ Goto(p, "ok")
        /\ UNCHANGED <<claims, batch, work>>
    BY <1>9, PipelineAssumption DEF Enqueue, store
  <2>2. PICK job : Put(job) /\ job.of = <<>>
    BY <1>9 DEF Enqueue
  <2>3. \E j : Put(j) /\ IsSeq(j.of)
    BY <2>2, EmptyIsSeq
  <2>4. "ok" \notin Running \cup {"new", "delete"}
    BY DEF Running
  <2> QED  BY <2>1, <2>3, <2>4, JobsMarks
<1> QED
  BY <1>1, <1>2, <1>3, <1>4, <1>5, <1>6, <1>7, <1>8, <1>9 DEF Ingestion

LEMMA WorkerMarks ==
  ASSUME MarkInv, Domains, QueueInv, NEW w \in Workers, WorkerStep(w)
  PROVE  MarkInv'
<1>0. w \in Processes
  BY DEF Processes
<1> USE DEF Running
<1>1. CASE DrainSelect(w)
  BY <1>1, SelectMarks
<1>2. CASE DrainDelete(w)
  <2>1. /\ pc[w] = "delete" /\ Goto(w, "jobs") /\ jobs' \subseteq jobs
        /\ UNCHANGED <<claims, log, batch, work>>
    BY <1>2 DEF DrainDelete, store
  <2> QED  BY <1>0, <2>1, JobsMarks
<1>3. CASE RunIngestion(w)
  BY <1>3, RunIngestionMarks
<1>4. CASE SkipJob(w)
  BY <1>4, EndMarks DEF SkipJob, store, Working
<1>5. CASE ClearIndex(w)
  BY <1>0, <1>5, OutsideMarks DEF ClearIndex, store, queue
<1>6. CASE ReadClaims(w)
  BY <1>0, <1>6, OutsideMarks DEF ReadClaims, store, queue
<1>7. CASE DeleteRow(w)
  BY <1>0, <1>7, OutsideMarks DEF DeleteRow, store, queue
<1>8. CASE InsertRow(w)
  BY <1>0, <1>8, OutsideMarks DEF InsertRow, store, queue
<1>9. CASE InsertFails(w)
  BY <1>0, <1>9, ForgetMarks DEF InsertFails, Die, store, queue
<1>10. CASE EndRebuild(w)
  BY <1>10, EndMarks DEF EndRebuild, store, Working, RebuildPlaces
<1> QED
  BY <1>1, <1>2, <1>3, <1>4, <1>5, <1>6, <1>7, <1>8, <1>9, <1>10 DEF WorkerStep

LEMMA MarkStep ==
  MarkInv /\ ReferenceInv /\ QueueInv /\ CompletenessInv /\ [Next]_vars => MarkInv'
<1> SUFFICES ASSUME MarkInv, ReferenceInv, QueueInv, CompletenessInv, [Next]_vars PROVE MarkInv'
  OBVIOUS
<1>0. Domains /\ \A q \in Processes : IsSeq(pending[q])
  BY DEF ReferenceInv, PendingRefers
<1>1. ASSUME NEW p \in Processes, Step(p) PROVE MarkInv'
  BY <1>0, <1>1, IngestionMarks, WorkerMarks DEF Step
<1>2. ASSUME NEW p \in Processes, Fail(p) PROVE MarkInv'
  <2>1. CASE p \in Workers
    BY <1>0, <1>2, <2>1, ForgetMarks DEF Fail, Die, store, queue
  <2>2. CASE p \notin Workers
    BY <1>0, <1>2, <2>2, ForgetMarks DEF Fail, store, queue
  <2> QED  BY <2>1, <2>2
<1>3. ASSUME NEW w \in Workers, Stop(w) PROVE MarkInv'
  BY <1>0, <1>3, OutsideMarks DEF Stop, Processes, Running, store, queue
<1>4. ASSUME NEW w \in Workers, Restart(w) PROVE MarkInv'
  <2>1. /\ Goto(w, "idle") /\ pc[w] = "dead" /\ UNCHANGED <<claims, log, jobs, work>>
        /\ batch'[w] = <<>> /\ \A v \in Workers \ {w} : batch'[v] = batch[v]
    BY <1>4 DEF Restart, QueueInv, store, queue
  <2>2. Untouched(w, "idle", <<>>, Runs(claims))
    BY EmptyIsSeq DEF Untouched
  <2> QED  BY <1>0, <2>1, <2>2, BatchMarks
<1>5. CASE EnqueueByHand
  <2>1. PICK job \in OperatorJobs : Put(job)
    BY <1>5 DEF EnqueueByHand
  <2>2. IsSeq(job.of)
    BY SequenceAssumption DEF IsSeq
  <2>3. \E j : Put(j) /\ IsSeq(j.of)
    BY <2>1, <2>2
  <2> QED  BY <1>0, <1>5, <2>3, JobsMarks DEF EnqueueByHand, store
<1>6. CASE UNCHANGED vars
  BY <1>0, <1>6, JobsMarks DEF vars, queue, store
<1> QED  BY <1>1, <1>2, <1>3, <1>4, <1>5, <1>6 DEF Next

LEMMA MarkInit == Init => MarkInv
<1> SUFFICES ASSUME Init PROVE MarkInv
  OBVIOUS
<1>1. /\ DOMAIN claims = {} /\ DOMAIN existing = Processes /\ log = <<>>
      /\ \A p \in Processes : todo[p] = <<>> /\ pending[p] = <<>> /\ pc[p] \in {"new", "idle"}
      /\ \A w \in Workers : batch[w] = <<>>
  BY DEF Init
<1>2. Runs(claims) = {} /\ Marks(claims) /\ IdsAre(claims)
  BY <1>1 DEF Runs, Marks, IdsAre
<1>3. \A p \in Processes : RunInv(p)
  BY <1>1, EmptyIsSeq DEF RunInv, Running
<1>4. \A w \in Workers : Untouched(w, pc[w], batch[w], Runs(claims))
  BY <1>1, EmptyIsSeq DEF Untouched
<1>5. RunsInv
  BY <1>2, <1>4 DEF RunsInv
<1> QED  BY <1>1, <1>2, <1>3, <1>5, EmptyIsSeq DEF MarkInv

(* A claim is conflicted exactly if it contradicts one that its run stored *)
(* before it, although persistExtractedClaims lists the claims before it   *)
(* stores its own, others store theirs at the same time, and a run is cut  *)
(* short anywhere.                                                         *)
THEOREM OverlapsAlwaysMarked == Spec => []OverlapsAreMarked
<1> DEFINE Inv == MarkInv /\ ReferenceInv /\ QueueInv /\ CompletenessInv
<1>1. Init => Inv
  BY MarkInit, ReferenceInit, QueueInit, CompletenessInit
<1>2. Inv /\ [Next]_vars => Inv'
  BY MarkStep, ReferenceStep, QueueStep, CompletenessStep
<1>3. Inv => OverlapsAreMarked
  BY DEF MarkInv, Marks, Contradicts, OverlapsAreMarked
<1> QED  BY <1>1, <1>2, <1>3, PTL DEF Spec
=============================================================================
