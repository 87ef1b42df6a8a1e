-------------------------- MODULE IngestionPipeline --------------------------
(***************************************************************************)
(* From a document to a searchable claim: callers ingest documents into    *)
(* the store and enqueue a job, and workers drain the queue, rebuild the   *)
(* lexical index or extract claims again.                                  *)
(*                                                                         *)
(* Every await is a step, so the work of callers and workers interleaves,  *)
(* and each of them may throw or be cut off by a crash in between. What is *)
(* written in one transaction of the store is one step, as proved of the   *)
(* pool in StoreTransactions.                                              *)
(*                                                                         *)
(* Everything a run of the ingestion creates is new: the n-th document     *)
(* from the end of run r has the evidence <<r, n>>, its drafts the claims  *)
(* <<r, n, draft>>, and a label of the run the entity <<r, key>>.          *)
(***************************************************************************)
EXTENDS Naturals, Sequences, FiniteSets

CONSTANTS
  Callers,
  Workers,
  Requests,       \* sequences of documents [blob, mime], some without text
  OperatorJobs,   \* jobs that may be enqueued by hand, [kind, of]
  MaxByHand,      \* bound on their number
  Drafts(_, _),   \* what is extracted of a blob, of its text or of its name
  KeyOf(_),       \* a label without its case and surrounding space
  Normalized(_),  \* a predicate in lower case with underscores
  Blobs,
  MaxFaults       \* bound on failures and crashes

ASSUME PipelineAssumption ==
  /\ Callers \cap Workers = {}
  /\ MaxByHand \in Nat /\ MaxFaults \in Nat

(* The documents of a request, the drafts of a document and the evidence   *)
(* of a job are sequences.                                                 *)
ASSUME SequenceAssumption ==
  /\ \A body \in Requests :
       /\ DOMAIN body \subseteq Nat /\ IsFiniteSet(DOMAIN body)
       /\ \A n \in DOMAIN body : body[n].blob \in Blobs =>
            LET drafts == Drafts(body[n].blob, body[n].mime)
            IN  Len(drafts) \in Nat /\ DOMAIN drafts = 1..Len(drafts)
  /\ \A job \in OperatorJobs : job.of \in Seq({job.of[n] : n \in DOMAIN job.of})

VARIABLES
  request,    \* what each caller asks for
  blobs,      \* the content type stored with each blob
  evidence,   \* the document of each evidence
  entities,
  claims,     \* the content of each claim
  events,     \* the evidence and claims that have an event
  outbox,     \* and those whose event is in the outbox
  embedded,   \* claims with an embedding
  fts,        \* claims in the lexical index
  log,        \* every job ever enqueued; its index is the id of the job
  jobs,       \* ids of the jobs in the table
  ran,        \* ids of the jobs that were run
  pc,         \* what each process does next
  todo,       \* documents or evidence its run has still to go through
  existing,   \* the claims it listed
  pending,    \* the claims it will store
  batch,      \* the jobs a worker has drained and not yet run
  rows,       \* the claims a worker has still to index
  torn,       \* some rebuild of the index was cut short, none was made since
  clean,      \* workers whose rebuild began after that
  faults

store == <<evidence, entities, claims, events, outbox, embedded>>
queue == <<log, jobs, ran>>
work == <<todo, existing, pending>>
index == <<fts, rows, torn, clean>>
vars == <<request, blobs, store, queue, work, index, pc, batch, faults>>

Processes == Callers \cup Workers

Init ==
  /\ request \in [Callers -> Requests]
  /\ blobs = [b \in {} |-> "none"]
  /\ evidence = [e \in {} |-> "none"]
  /\ entities = {}
  /\ claims = [c \in {} |-> "none"]
  /\ events = {}
  /\ outbox = {}
  /\ embedded = {}
  /\ fts = {}
  /\ log = <<>>
  /\ jobs = {}
  /\ ran = {}
  /\ pc = [p \in Processes |-> IF p \in Callers THEN "new" ELSE "idle"]
  /\ todo = [p \in Processes |-> <<>>]
  /\ existing = [p \in Processes |-> {}]
  /\ pending = [p \in Processes |-> <<>>]
  /\ batch = [w \in Workers |-> <<>>]
  /\ rows = [w \in Workers |-> {}]
  /\ torn = FALSE
  /\ clean = {}
  /\ faults = 0

Extend(f, x, value) == [y \in DOMAIN f \cup {x} |-> IF y = x THEN value ELSE f[y]]

(* A set of numbers as a sequence.                                         *)
InOrder(ids) ==
  CHOOSE s \in [1..Cardinality(ids) -> ids] : \A m, n \in DOMAIN s : m < n => s[m] < s[n]

Goto(p, next) == pc' = [pc EXCEPT ![p] = next]

Job(w) == Head(batch[w])

(* The run a process is in, and the names of what it creates.              *)
Run(p) == <<p, IF p \in Callers THEN 0 ELSE Job(p)>>
EvidenceId(p) == <<Run(p), Len(todo[p])>>
ClaimId(p, n) == <<Run(p), Len(todo[p]), n>>
EntityId(p, label) == <<Run(p), KeyOf(label)>>

-----------------------------------------------------------------------------
(* ingestDocuments for a caller, re-extraction from stored evidence for a  *)
(* worker.                                                                 *)

Start(p, items, next) ==
  /\ todo' = [todo EXCEPT ![p] = items]
  /\ Goto(p, next)
  /\ UNCHANGED <<existing, pending>>

(* Of the body of a request, what has no text is left out.                 *)
Documents(body) ==
  LET kept == InOrder({n \in DOMAIN body : body[n].blob \in Blobs})
  IN  [n \in DOMAIN kept |-> body[kept[n]]]

Ingest(c) ==
  /\ pc[c] = "new"
  /\ Start(c, Documents(request[c]), "documents")
  /\ UNCHANGED <<blobs, store, queue, index, batch, faults>>

(* Mutant of PutBlob: the blob is not written.                             *)
PutNoBlob(p) ==
  /\ p \in Callers /\ pc[p] = "documents"
  /\ todo[p] # <<>>
  /\ Goto(p, "evidence")
  /\ UNCHANGED <<blobs, store, queue, work, index, batch, faults>>

PutBlob(p) ==
  /\ p \in Callers /\ pc[p] = "documents"
  /\ todo[p] # <<>>
  /\ blobs' = Extend(blobs, Head(todo[p]).blob, Head(todo[p]).mime)
  /\ Goto(p, "evidence")
  /\ UNCHANGED <<store, queue, work, index, batch, faults>>

PutEvidence(p) ==
  /\ pc[p] = "evidence"
  /\ LET id == EvidenceId(p)
     IN  /\ evidence' = Extend(evidence, id, Head(todo[p]))
         /\ events' = events \cup {id}
         /\ outbox' = outbox \cup {id}
  /\ Goto(p, "extract")
  /\ UNCHANGED <<blobs, entities, claims, embedded, queue, work, index, batch, faults>>

(* Evidence of a re-extraction that is not there, or has no blob, is       *)
(* passed over.                                                            *)
LoadEvidence(w) ==
  /\ pc[w] = "documents"
  /\ todo[w] # <<>>
  /\ LET id == Head(todo[w])
     IN  IF id \in DOMAIN evidence /\ evidence[id].blob \in DOMAIN blobs
         THEN Goto(w, "extract") /\ UNCHANGED todo
         ELSE todo' = [todo EXCEPT ![w] = Tail(@)] /\ UNCHANGED pc
  /\ UNCHANGED <<blobs, store, existing, pending, queue, index, batch, faults>>

(* The evidence a process extracts from, and what it finds there: the      *)
(* first time by the type of the document, again by that of the blob.      *)
SourceId(p) == IF p \in Workers THEN Head(todo[p]) ELSE EvidenceId(p)

Found(p) ==
  LET document == evidence[SourceId(p)]
  IN  Drafts(document.blob, IF p \in Workers THEN blobs[document.blob] ELSE document.mime)

(* Mutant of Extract: the claims are listed once, for the first document.  *)
ExtractListingOnce(p) ==
  /\ pc[p] = "extract"
  /\ existing' = [existing EXCEPT ![p] =
       IF p \in Callers /\ Len(todo[p]) < Len(Documents(request[p])) THEN @ ELSE DOMAIN claims]
  /\ Goto(p, "drafts")
  /\ UNCHANGED <<blobs, store, todo, pending, queue, index, batch, faults>>

(* The provider extracts drafts, then the claims there are are listed.     *)
Extract(p) ==
  /\ pc[p] = "extract"
  /\ existing' = [existing EXCEPT ![p] = DOMAIN claims]
  /\ Goto(p, "drafts")
  /\ UNCHANGED <<blobs, store, todo, pending, queue, index, batch, faults>>

Overlap(a, b) == a.subject = b.subject /\ a.predicate = b.predicate /\ a.object # b.object

(* The claim of a draft is conflicted if it overlaps a claim that was      *)
(* listed or is pending. An entity is created for the first label of a     *)
(* key, and found in the cache of the run after that.                      *)
AddDraft(p) ==
  /\ pc[p] = "drafts"
  /\ Len(pending[p]) < Len(Found(p))
  /\ LET draft == Found(p)[Len(pending[p]) + 1]
         claim == [subject |-> EntityId(p, draft.label), predicate |-> Normalized(draft.predicate),
                   object |-> draft.object, evidence |-> SourceId(p), status |-> "asserted"]
         others == {claims[c] : c \in existing[p]}
                     \cup {pending[p][n] : n \in DOMAIN pending[p]}
     IN  /\ entities' = entities \cup {EntityId(p, draft.label)}
         /\ pending' = [pending EXCEPT ![p] = Append(@,
              IF \E other \in others : Overlap(other, claim)
              THEN [claim EXCEPT !.status = "conflicted"] ELSE claim)]
  /\ UNCHANGED <<blobs, evidence, claims, events, outbox, embedded, queue, todo, existing, index,
                 pc, batch, faults>>

Stored(p) == Cardinality({n \in DOMAIN pending[p] : ClaimId(p, n) \in DOMAIN claims})

(* When all are embedded, one transaction per claim.                       *)
StoreClaim(p) ==
  /\ pc[p] = "drafts"
  /\ Len(pending[p]) = Len(Found(p))
  /\ Stored(p) < Len(pending[p])
  /\ LET n == Stored(p) + 1
         id == ClaimId(p, n)
     IN  /\ claims' = Extend(claims, id, pending[p][n])
         /\ events' = events \cup {id}
         /\ outbox' = outbox \cup {id}
         /\ embedded' = embedded \cup {id}
         /\ fts' = fts \cup {id}
  /\ UNCHANGED <<blobs, evidence, entities, queue, work, rows, torn, clean, pc, batch, faults>>

(* Mutant of NextDocument: the last claim is not waited for.               *)
NextDocumentOneEarly(p) ==
  /\ pc[p] = "drafts"
  /\ Len(pending[p]) = Len(Found(p))
  /\ Stored(p) >= Len(pending[p]) - 1
  /\ todo' = [todo EXCEPT ![p] = Tail(@)]
  /\ pending' = [pending EXCEPT ![p] = <<>>]
  /\ existing' = [existing EXCEPT ![p] = {}]
  /\ Goto(p, "documents")
  /\ UNCHANGED <<blobs, store, queue, index, batch, faults>>

NextDocument(p) ==
  /\ pc[p] = "drafts"
  /\ Len(pending[p]) = Len(Found(p))
  /\ Stored(p) = Len(pending[p])
  /\ todo' = [todo EXCEPT ![p] = Tail(@)]
  /\ pending' = [pending EXCEPT ![p] = <<>>]
  /\ existing' = [existing EXCEPT ![p] = {}]
  /\ Goto(p, "documents")
  /\ UNCHANGED <<blobs, store, queue, index, batch, faults>>

(* A job is over, and the next of the batch is run.                        *)
EndJob(w) ==
  /\ batch' = [batch EXCEPT ![w] = Tail(@)]
  /\ ran' = ran \cup {Job(w)}
  /\ Goto(w, IF Len(batch[w]) = 1 THEN "idle" ELSE "jobs")

Put(job) ==
  /\ log' = Append(log, job)
  /\ jobs' = jobs \cup {Len(log) + 1}

(* The ids of the evidence go into the payload of the job, which does not  *)
(* read them.                                                              *)
Enqueue(p) ==
  /\ p \in Callers /\ pc[p] = "documents"
  /\ todo[p] = <<>>
  /\ Put([kind |-> "ingest.documents", of |-> <<>>])
  /\ Goto(p, "ok")
  /\ UNCHANGED <<blobs, store, ran, work, index, batch, faults>>

EndIngestion(w) ==
  /\ pc[w] = "documents"
  /\ todo[w] = <<>>
  /\ EndJob(w)
  /\ UNCHANGED <<blobs, store, log, jobs, work, index, faults>>

Ingestion(p) ==
  \/ p \in Callers /\ Ingest(p)
  \/ p \in Workers /\ (LoadEvidence(p) \/ EndIngestion(p))
  \/ PutBlob(p)
  \/ PutEvidence(p)
  \/ Extract(p)
  \/ AddDraft(p)
  \/ StoreClaim(p)
  \/ NextDocument(p)
  \/ Enqueue(p)

-----------------------------------------------------------------------------
(* The queue and the loop of a worker.                                     *)

(* Somebody outside the program enqueues a job.                            *)
EnqueueByHand ==
  /\ Cardinality({j \in DOMAIN log : log[j] \in OperatorJobs}) < MaxByHand
  /\ \E job \in OperatorJobs : Put(job)
  /\ UNCHANGED <<blobs, store, ran, work, index, pc, batch, faults>>

(* Mutant of DrainSelect: one job alone is not drained.                    *)
DrainSelectSeveral(w) ==
  /\ pc[w] = "idle"
  /\ Cardinality(jobs) > 1
  /\ batch' = [batch EXCEPT ![w] = InOrder(jobs)]
  /\ Goto(w, "delete")
  /\ UNCHANGED <<blobs, store, queue, work, index, faults>>

(* drain reads all jobs, then deletes those it has read. The SELECT takes  *)
(* no locks, and the DELETE does not tell whether the rows were there.     *)
DrainSelect(w) ==
  /\ pc[w] = "idle"
  /\ jobs # {}
  /\ batch' = [batch EXCEPT ![w] = InOrder(jobs)]
  /\ Goto(w, "delete")
  /\ UNCHANGED <<blobs, store, queue, work, index, faults>>

Read(w) == {batch[w][n] : n \in DOMAIN batch[w]}

(* Mutant of DrainDelete: every job is deleted.                            *)
DrainDeleteAll(w) ==
  /\ pc[w] = "delete"
  /\ jobs' = {}
  /\ Goto(w, "jobs")
  /\ UNCHANGED <<blobs, store, log, ran, work, index, batch, faults>>

DrainDelete(w) ==
  /\ pc[w] = "delete"
  /\ jobs' = jobs \ Read(w)
  /\ Goto(w, "jobs")
  /\ UNCHANGED <<blobs, store, log, ran, work, index, batch, faults>>

RunIngestion(w) ==
  /\ pc[w] = "jobs"
  /\ log[Job(w)].kind = "ingest.extract"
  /\ Start(w, log[Job(w)].of, "documents")
  /\ UNCHANGED <<blobs, store, queue, index, batch, faults>>

(* A job of another kind is passed over. So is one to ingest a path: the   *)
(* app whose jobs are run has no ingestPath, only the app made from it has.*)
SkipJob(w) ==
  /\ pc[w] = "jobs"
  /\ log[Job(w)].kind \notin {"ingest.extract", "ingest.documents"}
  /\ EndJob(w)
  /\ UNCHANGED <<blobs, store, log, jobs, work, index, faults>>

(* rebuildLexicalProjection: the index is emptied, the claims are read,    *)
(* and the row of each is deleted and inserted, in no transaction.         *)
ClearIndex(w) ==
  /\ pc[w] = "jobs"
  /\ log[Job(w)].kind = "ingest.documents"
  /\ fts' = {}
  /\ clean' = clean \cup {w}
  /\ Goto(w, "readClaims")
  /\ UNCHANGED <<blobs, store, queue, work, rows, torn, batch, faults>>

(* Mutant of ReadClaims: conflicted claims are left out.                   *)
ReadAssertedClaims(w) ==
  /\ pc[w] = "readClaims"
  /\ rows' = [rows EXCEPT ![w] = {c \in DOMAIN claims : claims[c].status = "asserted"}]
  /\ Goto(w, "deleteRow")
  /\ UNCHANGED <<blobs, store, queue, work, fts, torn, clean, batch, faults>>

ReadClaims(w) ==
  /\ pc[w] = "readClaims"
  /\ rows' = [rows EXCEPT ![w] = DOMAIN claims]
  /\ Goto(w, "deleteRow")
  /\ UNCHANGED <<blobs, store, queue, work, fts, torn, clean, batch, faults>>

(* The rows come in one order for everybody.                               *)
First(ids) == CHOOSE c \in ids : TRUE

DeleteRow(w) ==
  /\ pc[w] = "deleteRow"
  /\ rows[w] # {}
  /\ fts' = fts \ {First(rows[w])}
  /\ Goto(w, "insertRow")
  /\ UNCHANGED <<blobs, store, queue, work, rows, torn, clean, batch, faults>>

InsertRow(w) ==
  /\ pc[w] = "insertRow"
  /\ First(rows[w]) \notin fts
  /\ fts' = fts \cup {First(rows[w])}
  /\ rows' = [rows EXCEPT ![w] = @ \ {First(@)}]
  /\ Goto(w, "deleteRow")
  /\ UNCHANGED <<blobs, store, queue, work, torn, clean, batch, faults>>

EndRebuild(w) ==
  /\ pc[w] = "deleteRow"
  /\ rows[w] = {}
  /\ torn' = (torn /\ w \notin clean)
  /\ clean' = clean \ {w}
  /\ EndJob(w)
  /\ UNCHANGED <<blobs, store, log, jobs, work, fts, rows, faults>>

Rebuilding == {w \in Workers : pc[w] \in {"readClaims", "deleteRow", "insertRow"}}

Forget(p) ==
  /\ todo' = [todo EXCEPT ![p] = <<>>]
  /\ existing' = [existing EXCEPT ![p] = {}]
  /\ pending' = [pending EXCEPT ![p] = <<>>]

(* A job that throws ends the loop of its worker.                          *)
Die(w) ==
  /\ Goto(w, "dead")
  /\ Forget(w)
  /\ rows' = [rows EXCEPT ![w] = {}]
  /\ IF w \in Rebuilding THEN torn' = TRUE /\ clean' = {} ELSE UNCHANGED <<torn, clean>>
  /\ UNCHANGED <<blobs, store, queue, fts, batch>>

(* The row that another rebuild has inserted is a duplicate key.           *)
InsertFails(w) ==
  /\ pc[w] = "insertRow"
  /\ First(rows[w]) \in fts
  /\ Die(w)
  /\ UNCHANGED faults

WorkerStep(w) ==
  \/ DrainSelect(w)
  \/ DrainDelete(w)
  \/ RunIngestion(w)
  \/ SkipJob(w)
  \/ ClearIndex(w)
  \/ ReadClaims(w)
  \/ DeleteRow(w)
  \/ InsertRow(w)
  \/ InsertFails(w)
  \/ EndRebuild(w)

(* The worker is told to stop: it runs what it has drained, and no more.   *)
Stop(w) ==
  /\ pc[w] = "idle"
  /\ Goto(w, "stopped")
  /\ UNCHANGED <<blobs, store, queue, work, index, batch, faults>>

(* A worker is started again, and knows nothing of its batch.              *)
Restart(w) ==
  /\ pc[w] = "dead"
  /\ Goto(w, "idle")
  /\ batch' = [batch EXCEPT ![w] = <<>>]
  /\ UNCHANGED <<blobs, store, queue, work, index, faults>>

-----------------------------------------------------------------------------
Ended == {"new", "ok", "failed", "idle", "stopped", "dead"}

(* A provider, the database or the process fails between two steps.        *)
Fail(p) ==
  /\ faults < MaxFaults
  /\ pc[p] \notin Ended
  /\ faults' = faults + 1
  /\ IF p \in Workers THEN Die(p)
     ELSE Goto(p, "failed") /\ Forget(p) /\ UNCHANGED <<blobs, store, queue, index, batch>>

Step(p) ==
  /\ Ingestion(p) \/ (p \in Workers /\ WorkerStep(p))
  /\ UNCHANGED request

Next ==
  \/ \E p \in Processes : Step(p)
  \/ /\ \/ \E p \in Processes : Fail(p)
        \/ \E w \in Workers : Stop(w) \/ Restart(w)
        \/ EnqueueByHand
     /\ UNCHANGED request

Spec == Init /\ [][Next]_vars

(* Promises settle, and the loop of a worker goes on while it is not told  *)
(* to stop.                                                                *)
FairSpec == Spec /\ \A p \in Processes : WF_vars(Step(p))
-----------------------------------------------------------------------------
(* Wherever an ingestion is cut short, what is stored is whole: evidence   *)
(* has its blob, a claim has its evidence, its subject and its embedding,  *)
(* and both have their event, in the outbox as well.                       *)
ReferencesHold ==
  /\ \A e \in DOMAIN evidence :
       e \in events \cap outbox /\ evidence[e].blob \in DOMAIN blobs
  /\ \A c \in DOMAIN claims :
       /\ c \in events \cap outbox \cap embedded
       /\ claims[c].evidence \in DOMAIN evidence
       /\ claims[c].subject \in entities

(* Of the claims of a run, exactly those are conflicted that contradict    *)
(* one stored before them, for the same document or for an earlier one.    *)
Before(c, d) == c[2] > d[2] \/ (c[2] = d[2] /\ c[3] < d[3])

OverlapsAreMarked ==
  \A d \in DOMAIN claims :
    claims[d].status = "conflicted" <=>
      \E c \in DOMAIN claims : c[1] = d[1] /\ Before(c, d) /\ Overlap(claims[c], claims[d])

(* A caller that is told ok has all its documents that have text, and all  *)
(* their claims, in the store.                                             *)
AnswersAreComplete ==
  \A c \in Callers : pc[c] = "ok" =>
    \A n \in DOMAIN Documents(request[c]) :
      LET document == Documents(request[c])[n]
          id == <<Run(c), Len(Documents(request[c])) + 1 - n>>
      IN  /\ id \in DOMAIN evidence /\ evidence[id] = document
          /\ \A k \in DOMAIN Drafts(document.blob, document.mime) :
               <<id[1], id[2], k>> \in DOMAIN claims

(* The index has every claim but while it is rebuilt, or after a rebuild   *)
(* was cut short and until the next is complete.                           *)
IndexComplete ==
  /\ fts \subseteq DOMAIN claims
  /\ Rebuilding = {} /\ ~torn => fts = DOMAIN claims

(* No job leaves the queue unless a worker takes it, and a job is lost     *)
(* only with all the workers that took it.                                 *)
StateOf(j) ==
  IF j \notin DOMAIN log THEN "new"
  ELSE IF j \in ran THEN "done"
  ELSE IF j \in jobs THEN "queued"
  ELSE IF \E w \in Workers : pc[w] # "dead" /\ j \in Read(w) THEN "taken"
  ELSE "lost"

JobIds == 1..(Cardinality(Callers) + MaxByHand)

Delivery == INSTANCE JobDelivery WITH Jobs <- JobIds, state <- [j \in JobIds |-> StateOf(j)]

ImplementsJobDelivery == Delivery!Spec

(* While one worker lives and is not told to stop, the queue does not grow *)
(* old: again and again every job has been run, or is lost with a worker   *)
(* that took it.                                                           *)
Settled(j) == StateOf(j) \in {"done", "lost"}

EveryJobIsRun ==
  []<>(\/ \A j \in DOMAIN log : Settled(j)
       \/ \A w \in Workers : pc[w] \in {"dead", "stopped"})
=============================================================================
