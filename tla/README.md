# Kotowari: specifications, model checking and proofs

Kotowari keeps *canonical* knowledge (entities, claims with two times, evidence, decisions,
policies, an append-only log of domain events) in SQLite or PostgreSQL, derives indexes from it,
and serves both over REST and MCP. This directory models the parts of it in which the order of
steps matters: several processes and requests share one database, every `await` lets others in,
and most checks are made before the transaction that relies on them.

Paths below are relative to the repository; `PROJECT.json` maps every definition to its lines.

- [1 The system](#1-the-system): inventory of components, their state and hazards
- [2 The modules](#2-the-modules): what models what, and how faithfully
- [3 The runs](#3-the-runs): what each model-checking run asks, with its bounds
- [4 Fairness](#4-fairness)
- [5 The proofs](#5-the-proofs)
- [6 What the checks found](#6-what-the-checks-found)
- [7 Not modelled](#7-not-modelled)
- [8 Plan](#8-plan)

Run a model with `tlc -workers 2 -config X_run.cfg MCX` and check a proof module with
`tlapm X_proofs.tla`.

## 1 The system

| Component | Code | State | Operations | What is hard | What makes it correct |
|---|---|---|---|---|---|
| Canonical stores | `packages/adapter-postgres/src/postgres-store.ts`, `packages/adapter-sqlite/src/sqlite-store.ts`, `packages/plugin-sdk/src/fakes/memory-store.ts` | records by collection and id, their history, event log, outbox, lexical index | put, get and list of each kind of record, as of now or of a time; append and list events; lexical search and rebuild | archive and overwrite are two statements; a read as of a time is not repeatable while transactions commit late | no version is lost; a read as of a past time has one answer |
| SQL clients | `packages/adapter-postgres/src/sql-client.ts`, `withTransaction` of the SQLite store | connections, one flag or depth per client | `query`, `withTransaction` | one connection shared by all requests of a process; failures in the middle; more calls than connections | the writes of a call are all visible or none, and the caller is told which |
| Retrieval projection | `packages/adapter-postgres/src/retrieval-projection.ts`, `apps/worker/src/projection-operations.ts` | a row per live claim under its canonical subject, a mark per processed event | `sync`, `rebuild`, `status`, the two searches; the worker's run loop | reads before the transaction; several maintainers; events that become visible out of order | what is marked processed is right; in the end nothing is pending |
| Serving gate | `apps/server/src/projection-serving.ts`, `apps/server/src/retrieval-rollout.ts` | breaker, counters, latencies | `search`, `status`, `resetRollback` | mode and readiness read before awaits and used after; concurrent results | who may be answered by the projection; when the rollback comes and that it holds |
| Entity resolution | `packages/capability-knowledge/src/entity-resolution.ts`, `entity-resolution-store.ts` | none but the event log | propose, decide, merge, revert; `canonicalEntityIdFromEvents` | four operations, each of several reads and one append; order of events by clocks | reviewed merges only, once each; merges form a forest |
| Conflicts | `packages/capability-knowledge/src/conflicts.ts` | conflicts and resolutions in the store | detect, resolve | read, compare and record while others do the same | no violation is missed, none recorded twice in turn, a resolution stands |
| Ingestion | `packages/capability-ingestion/src/ingest.ts` | a cache of entities per request | ingest documents and their claims | one transaction per document and per claim; overlap check before it | either one of two overlapping claims is active or they are marked |
| Job queue, worker | `packages/adapter-postgres/src/postgres-queue.ts`, `packages/adapter-fs/src/embedded-queue.ts`, `apps/worker/src`, `packages/application/src/create-app.ts` | queued jobs | enqueue, drain, dispatch, run loop | drain deletes before jobs run; several workers; a job that throws | every job runs, once, in the end |
| Decisions, lifecycle, policies | `packages/capability-decision/src`, `packages/capability-policy/src`, `packages/plugin-sdk/src/decision-lifecycle-store.ts` | decisions, relations, outcomes, approvals, policy versions | record, replay, relate, approve, supersede | policies and context read before the decision is written | a replay finds what the decision was made under |
| Retrieval pipeline | `packages/capability-retrieval/src/retrieve.ts` | none | plan, search, fuse, hydrate | claims change between search and hydration | only what the caller may read, in its current status |
| Authorization | `packages/kernel/src/authorization.ts` | none | one pure decision | many conditions | nobody learns of a record they may not know |
| Server and protocols | `apps/server/src/http-server.ts`, `packages/protocol-rest/src`, `packages/protocol-mcp/src` | buckets of the rate limiter, a timer and a principal per request | admit, authenticate, run, audit, answer, time out | the timer and the handler race; requests overlap; the audit sink may fail | one answer per request, in the name of its caller, audited as what it is |
| Identity provider | `packages/adapter-fs/src/oauth-introspection-identity-provider.ts` | a cache of introspections | authenticate, introspect | an answer is late, and cached | a token is accepted only if it was valid recently |
| Memory, ontology, provenance | `packages/capability-memory`, `-ontology`, `-provenance` | none | validation, conversion | - | - |
| Client, command line, web, blob stores, models | `packages/sdk`, `apps/cli`, `apps/web`, `packages/adapter-s3`, `plugins/*` | none | transport | - | - |

How they interact. Every write of a capability is `store.withTransaction(tx => put record; append
event; append outbox)`. The event log is the only input of entity resolution and, with the
claims, of the retrieval projection, which a *maintainer* (the run loop of
`createProjectionOperations`, or an operator's rebuild) brings up to date. The gate asks the
projection for its status before each search and sends the search there or to canonical storage;
the retrieval pipeline calls the gate up to three times per request. The worker drains the queue
and rebuilds the lexical index after an ingestion.

In the standalone profile (SQLite) an operation awaits only promises that are already settled, so
it ends before the next request is looked at: operations of capabilities are *serial*. On
PostgreSQL every `await` of a query interleaves with every other request and process.

The hazards that follow from this are listed, line by line, in `PROJECT.json` (`hazards`), each with
the properties that would catch it going wrong.

## 2 The modules

| Module | Models | Composition |
|---|---|---|
| `RetrievalProjection` | writers of claims and identity events, `sync`, `rebuild`, failures, lost projections | takes its resolver as a constant operator |
| `EntityRedirects` | the two resolvers of merged entities, of the projection and of the capability | used by `EntityResolution`, and given to `RetrievalProjection` by its MC module |
| `ConsistentIndex` | *abstract*: an index that may lag behind the truth but is right where it is not dirty | implemented by `RetrievalProjection`, and by the projection inside `RetrievalPipeline` |
| `ServingGate` | the gate in front of the projection | |
| `EntityResolution` | the four reviewed operations, with any number of callers | instantiates `EntityRedirects` on its log |
| `StoreTransactions` | `withTransaction` of the three SQL clients | |
| `AtomicTransactions` | *abstract*: calls whose writes appear together or never, and true answers | implemented by `StoreTransactions` with the pool |
| `ClaimConflicts` | detection and resolution of conflicts | |
| `IngestionPipeline` | ingestion, the job queue, its workers, re-extraction and the rebuild of the lexical index | |
| `JobDelivery` | *abstract*: a job stays queued until a worker takes it, and is lost only with all that took it | implemented by `IngestionPipeline` |
| `BitemporalStore` | versions of claims, their history, reads as of a time, in three stores | extended by `DecisionRecords` |
| `Policies` | which policy versions apply, and what they find wrong | instantiated by `DecisionRecords` |
| `DecisionRecords` | recording decisions, adding to them, replaying and auditing them | extends `BitemporalStore` |
| `Authorization` | the decision who may do what with a record | extended by the next two |
| `RetrievalPipeline` | the three searches from the projection, the gate's canonical source or the fallback; fusion, conflicts, authorization and limits, while claims change | extends `Authorization`, instantiates `ConsistentIndex` |
| `RequestAdmission` | rate limit, body, token, introspection cache, principal, scopes, audit, timeout and answer of a request | extends `Authorization` |
| `Serving` | the server: requests of `RequestAdmission` whose operation is a search of `RetrievalPipeline` or another | extends both |
| `MC*` | instances for TLC | |
| `*_proofs` | theorems and proofs about `RetrievalProjection`, `ServingGate`, `EntityResolution`, `StoreTransactions`, `ClaimConflicts`, `IngestionPipeline`, `DecisionRecords`, `Serving` | |

Operators named *Mutant* in a comment are variants of the definition that follows them, with a
mistake that one could make in the code; each property is known to fail under one of them.

### RetrievalProjection

| Variable | Code |
|---|---|
| `status`, `events` | claims by id and status, and the table `events` of the canonical store |
| `rows`, `processed` | tables `retrieval_projection` (the canonical subject stands for the row) and `retrieval_projection_events` |
| `pc`, `view`, `pend`, `toRead`, `live` | where a maintainer is, and the local variables `events`, `pending`/`relevant`, `claimIds` not read yet, `activeClaims` |

`SyncReadEvents` is the await of `listEvents`; `SyncNothingPending`, `SyncNeedsRebuild` and
`SyncIncrement` are the await of the processed marks with the three ways on; `ReadClaim` is one
`getClaim`; `CommitSync` and `CommitRebuild` are the transactions. `RebuildReadEvents` begins a
rebuild, called by `sync` or by an operator. `Fail` is an exception or a crash at any of these
points, `LoseProjection` a dropped projection that `initialize` creates again.

An event id is also the event's place in the order the code sorts by (time, then id); writers take
ids in any order, since clocks differ and transactions last. Claims are retracted through the
store's port (no capability calls `retractClaim` yet). Merges are any pair of distinct entities
and reverts any committed merge, because the checks of entity resolution are made before its
transaction; `EntityResolution` is the model of these checks. One transaction is one step:
`StoreTransactions` is the model that justifies this for the pool. Left out: `synced_at`, the
contents and the index of vectors, the outbox (which nothing reads).

### EntityRedirects

`canonicalEntityResolver` (projection) and `canonicalEntityIdFromEvents` (capability), both as
recursive functions over a log of identity events, of the entities visited so far and the current one:
the first ends at an entity already visited, the second throws (`Cycle`).

### ServingGate

The state of the closure in `createProjectionServingGate` and, for each search, what it awaits.
`StartDisabled` and `Start` run to the first await; `StatusReturns` runs from the status to the
next one; `CanonicalReturns/Throws` and `ProjectionReturns/Throws` are the answers, with all the
counters each path changes. A status that throws is a snapshot that is not ready, as in the code.
`After` orders searches as `retrieve` does: the graph search follows the lexical and the vector
search. `StartProbe` and `ProbeReturns` are `status()` for the endpoints, read half before and half
after its await. `results` is a history variable. Left out: `lastError` and other texts, latency
histograms, the comparison of candidates. The synchronous continuation after an await is merged
with the await's result.

### EntityResolution

Each operation is its first step (`Propose`, `Decide`, `Merge`, `RevertMerge`), then a step per
read of the log in the order of the code, and `Write`, its transaction. A check that fails throws,
and the operation ends. `assertResolutionRoots` reads the log anew for each entity; open
proposals are looked for in a log read once (`seen`) and in decisions read anew. The two entities
of `CheckRoot` and the proposals of `ProposeReadDecisions` are taken in any order, which includes
the order of the code. Positions as in `RetrievalProjection`; `MaxSkew` bounds how far a clock may
be behind. Authorization and the signals that justify a proposal are reduced to `Similar`, the
pairs that have one.

### StoreTransactions

`Client` selects the client. `pool` is `PostgresSqlClient`: a connection of its own for each
transaction, released in a `finally`. `pglite` and `sqlite` share one connection and join a
transaction in progress (`Join`); they differ in when the flag is reset (after the await, or in the
same run of code) and in the engine: PostgreSQL aborts a transaction whose statement failed.
`Statement`, `StatementFails` and `FunctionThrows` are the body, `Commit`, `Rollback` and `Close`
the end, `Crash` the loss of the process. A `COMMIT` that fails takes the path of a function that
throws after its last statement. `durable` is what readers see. Calls run once each and stop.
No code of the repository nests `withTransaction` in itself; joining happens across requests.

### ClaimConflicts

A detection reads the events (`DetectReadEvents`), the recorded conflicts
(`DetectReadConflicts`), then the claims of one namespace at a time (`DetectReadClaims`), and
records each violation that it does not know in a transaction of its own (`DetectPersist`). A
resolution reads the conflicts, then the resolutions, then writes. Claims are asserted and a pair
of entities is merged or separated at any time. `ended` is a history variable: the calls of the
same kind that had ended when a call began. One rule; the caller may read all claims; namespaces
and violations in any order, which includes the order of the code. Left out: classification,
visibility and retraction.

### IngestionPipeline

| Variable | Code |
|---|---|
| `blobs`, `evidence`, `entities`, `claims`, `events`, `outbox`, `embedded` | the blob store and the collections of the canonical store |
| `fts` | the table `claim_fts` |
| `log`, `jobs` | every job ever enqueued (its index is the id) and the table `jobs` |
| `pc`, `todo`, `existing`, `pending`, `batch`, `rows` | where a caller or a worker is, and its local variables |
| `ran`, `torn`, `clean`, `faults` | history of jobs that were run and rebuilds that were cut short; the bound on faults |

A document is `PutBlob`, `PutEvidence` (a transaction), `Extract` (the drafts and the listing of
claims), `AddDraft` per draft, which creates an entity for a new label and marks overlaps, and
`StoreClaim` per claim (a transaction each); `Enqueue` ends an ingestion. A worker does `DrainSelect` and
`DrainDelete`, two statements of one transaction at READ COMMITTED, so another worker may select
the same rows in between. It then runs one job after the other: extraction from stored evidence,
or the rebuild of the index, which is a `DELETE`, a `SELECT` and a delete and insert per claim.
`Fail` may end any of these steps; a worker whose job throws is dead until its process is started
again. Left out: the embeddings' contents. Entities are created anew in each run, as in the code.

### BitemporalStore, Policies, DecisionRecords

`rows` and `history` are the tables `records` and `record_history`; `commits` and `overrun` are
history variables: every version that became current, and the versions a writer overwrote unread.
A write builds a version (and takes its time), then reads, archives and upserts; on PostgreSQL each of these is a step
(`PutRead`, `PutArchive`, `PutUpsert`, `PutCommit`), in SQLite and in memory all are one
(`PutAtOnce`). A listing reads rows and history in two steps and takes the version that was
recorded last until `knownAt`. Of two versions of one time it takes the one archived last: the code
sorts by time only, and the table has no other order (`postgres-store.ts:405`), so the model takes the
order of insertion, the best there can be.

`Policies` has `Applicable`, `SelectApplicable` and `Violations` of `policy.ts` and of
`buildPolicyEvaluated`, with versions, effective times, purposes and classifications.

A decider is `Decide` (request and policies), `Search`, `PutReceipt`, `Capture`, `CommitDecision`; a
curator reads a decision (`GetDecision`) and adds a relation, an outcome, an exception or an
approval in a later transaction; an auditor replays (`GetAuditedDecision`, `GetReceipt`,
`LoadPolicies`) and then collects claims, events and the four lists, each read a step
(`ListEvents`, `ListLifecycle`). Left out: the events of claims and evidence in an audit, the
outbox, precedents and `whatIf`, which only read. A search is one step here;
`RetrievalPipeline` has its parts.

### Authorization, RetrievalPipeline

`Allow` is `allow` of `authorization.ts` as a set of denials, none of which may apply.

`status` and `changes` are the claims and their history, `rows` and `pending` the projection with
the changes it has not marked (`Sync` may process any of them, since maintainers and transactions
overlap), `resolutions` the resolved conflicts. `search` is what each searcher awaits: a task per
strategy, each of which reads in its own steps. A gated task is `GateEvents` and `GateMarks` (the status), then
`SearchProjection*` or, after a failure or a status that is not ready, the canonical source; the
graph search hops from the entities of what the others found, a query per entity. The fallback of
an application without a gate reads the store, in one step on SQLite and in memory. Then
`ReciprocalRankFuse` or `FallbackCandidates`, `ReadResolutions` twice as in the code, and
`AuthorizeHits`. Each claim has a number of the query's words and a similarity, 0 below the threshold of
the canonical search; claims of equal score are in the order of their ids. Left out: the reranker,
HNSW and temporal searches (`BitemporalStore` has what they read).

### RequestAdmission, Serving

`buckets`, `cache`, `timer` and `slot` are the rate limiter's map, the cache of the identity
provider, the timer of `runMcpWithTimeout` and the `AsyncLocalStorage` of the principal;
`request` is where each request stands; `response` and `audits` what was sent and audited. Time is
`now`, advanced by `Tick`. A request of the MCP route is `Arrive` (host, origin, rate limit),
`ReadBody`, introspection (from the cache, or by a call whose answer is a step of its own and may
be late), `CheckProfile`, `RunAsRequest`, the operation, `AuditTool` or `AuditFails`, and `Answer`; `TimeoutFires`
may come at any time in between. A REST request has neither limit nor timer. The authorization
server is external. Left out: a missing bearer token, the index page, health and metrics.

`Serving` interleaves the steps of both modules: `BeginSearch` starts a search with the principal
of the request, `EndSearch` and `SearchFails` end it.

## 3 The runs

All bounds are constants of the cfg files.

| Run | Instance | What it shows |
|---|---|---|
| `single` | one maintainer, 2 claims about 2 entities, 3 events, 1 fault | `CaughtUpRowsAreRight`, `MarksAreKept`: with one maintainer the marks never lie, whatever comes between its reads and its commit; `ImplementsConsistentIndex`, `EventuallyNothingPending`: it is a lagging index, and catches up |
| `ghost` | two maintainers, 2 claims | violation of `NoResurrection` (finding) |
| `gate` | 4 searches (lexical, vector, graph, another caller's), all modes, rollback at 2 errors, 1 reset | `ProjectionAnswersAreAdmitted`, `CountersAddUp`, `RollbackMatchesHistory`, `RollbackHoldsAndDrains` |
| `historical` | 3 historical searches of one retrieve, the default limit of 3 | violation of `RollbackIsAboutSupportedSearches` (finding) |
| `serial` | one caller, 3 entities in 2 pairs, 7 events | `MergesFormAForest`, `ReviewedOnce`, `StepsMoveOneCluster`, `MergesWereApproved`, `ResolversAgree`: operations that do not overlap keep entity resolution right |
| `cycle` | two callers, 1 pair, 4 events | violation of `NoMergeCycle` (finding) |
| `pooled` | 3 transactions of 2 statements and a plain call, 2 connections, 2 faults, the pool and SQLite | `OwnersAreAtomic`, `NothingLeftOpen`, `EveryCallEnds`; with the pool `ImplementsAtomicTransactions` |
| `joined` | 2 transactions on PGlite | violation of `AllOrNothing` (finding) |
| `overlapping` | 2 detectors, 2 curators, 3 claims, a merge, 2 namespaces, 3 conflicts | `NoViolationIsMissed`, `AllFoundIsRecorded`, `ResolutionsStand` |
| `pipeline` | a caller with 2 or 3 documents, 2 workers, a job by hand, 1 fault | `ReferencesHold`, `OverlapsAreMarked`, `AnswersAreComplete`, `IndexComplete`: whatever is cut short, what is stored is whole; `ImplementsJobDelivery`, `EveryJobIsRun`: what the queue promises |
| `decisions` | 2 claims, 2 policy versions and one from before versions, times 0 to 2; casts of 3 or 4 out of 3 writers, a reader, 2 deciders, a curator, an auditor, 2 managers | `VersionsAreKept`, `AnswersAreTrue`, `AnswersStand` of the store; `ReplayIsComplete`, `AuditsAreComplete` of decisions |
| `serving` | one search in each kind of store, of 4 claims with 2 changes; or up to 2 other requests with 3 tokens, times 0 to 2 | `HitsAreSound`, `NothingIsMissed`, `GraphIsNeighbourhood` of searches; `AnswersAreForTheCaller`, `RateIsKept`, `AcceptedTokensWereValid`, `AnswersAreAudited`, `OneAnswer`, `TimeoutsEndRequests` of requests |

Why the bounds are enough to be interesting:

- *projection*: three events are an assertion, a retraction and one more before, between or after
  them, or an assertion, a merge and its reversal; one fault covers a failure in any step of either
  operation or a loss at any time. The wrong order of two commits needs two maintainers and one claim.
- *gate*: two errors in a row with two concurrent searches, a third that ends between them, and
  one that starts after a reset.
- *resolution*: seven events are two full reviews (propose, approve, merge) and a reversal, so a
  chain of two merges that is reverted in the middle; two callers with one pair already overlap
  in every two of their operations.
- *transactions*: more calls than connections, transactions of more than one statement, and two
  faults (a failed statement, then a crash).
- *pipeline*: documents that contradict themselves or each other under other spellings, one that is
  not text and one without text; two workers that may take the same job, a re-extraction of a
  document that is being ingested, and one failure at any of all the steps.
- *decisions*: a cast is who is at work in a behaviour. Two writers and a reader, for the races of
  the store; three writers of one claim and a listing as of time 0, the least in which a version is archived late; a writer, a decision and its audit; two decisions, a curator and an audit; two policy
  versions added around a decision and its audit. The clock passes the end of the validity of a
  claim and of a policy version.
- *serving*: a search shares nothing with other requests but what it reads, so one search at a
  time is enough, against any two changes, syncs and a resolved conflict; its limits of 2 (and
  hits asked for, 1 or 2) cut off lists of four claims, one of which is in another namespace, one restricted, and one two hops away. Requests
  without a search overlap in pairs, with one token or two; `RateMax` 1 in a window of 2, `TTL` 2 and
  a token that expires at 2 let every boundary be passed once.
- *conflicts*: three claims that violate the rule at two times once the entities are merged, with a
  detection that overlaps another and one that follows it.

Symmetry is used where the runs check only invariants and action properties (`EntityResolution`,
`ClaimConflicts`), never with liveness. Deadlock is not checked where the system really stops: runs
of calls or requests that each end (`StoreTransactions`, `ClaimConflicts`, `DecisionRecords`,
`Serving`), `EntityResolution` when the ids are used up, and `IngestionPipeline` when the workers
are told to stop.

## 4 Fairness

- `RetrievalProjection!FairSpec`: weak fairness of each maintainer's steps. The run loop calls
  `sync` again and again, catches what it throws and sleeps in between
  (`apps/worker/src/projection-operations.ts:92-107`). Nothing is assumed of writers, of operators, or of faults,
  which are bounded.
- `StoreTransactions!FairSpec`: weak fairness of each call's steps. Promises settle, and the pool
  hands a released connection to a waiting call. A call that waits is served although weak
  fairness alone would let others overtake it, because there are finitely many calls.
- `IngestionPipeline!FairSpec`: weak fairness of the steps of each caller and worker. Promises
  settle, and `runWorkerLoop` calls `processQueuedJobs` again and again until it is told to stop
  (`apps/worker/src/process-jobs.ts:16-26`). Nothing is assumed of failures, restarts or jobs
  enqueued by hand.
- `Serving!FairSpec`: weak fairness of the timers only. Neither the authorization server nor an
  operation need ever answer, and a body need never arrive.
- The other specifications state safety only.

## 5 The proofs

Every theorem holds for every value of the constants that satisfies the module's assumption:
any number of claims, entities, events, maintainers, searches, calls, connections.

**RetrievalProjection_proofs**, from `ConstantsAssumption` and `ResolverAssumption` (a resolver
maps entities to entities; nothing else is assumed of it).
`TypeCorrect` gives `TypeOK`. `ReadsStayValid` is the invariant `MaintainerKnows`, for any number
of maintainers: a view is a prefix of the log, the plan follows from the view, and the status of a
claim that was read still holds unless the claim has an event outside the view. The last part is
what makes the late commit of an early read harmless: whatever made the read stale has an event
that the commit does not mark. `SourcesOfMarksAndRows` follows from it. For one maintainer,
`SingleMaintainer` adds that all marks are in the view of a maintainer at work and that a claim
which is caught up has the right row (`SingleMaintainerInv`, inductive relative to the two
invariants above); `CaughtUpIsRight`, `RetractedStayOut` and `MarksKept` are its consequences, and
`ImplementsIndex` maps each step to a step or stutter of `ConsistentIndex`. The part that needs a
single maintainer is `NoMarksBehindTheView`; the run `ghost` shows that it cannot be dropped.

**ServingGate_proofs**, from `GateAssumption`. `TypeCorrect`; `AdmissionHolds` with an invariant
that says of each place a search may be in what it must have passed (`AdmissionInv`);
`RollbackDrains` directly from each action; `RollbackMeansErrorRun` with `HistoryInv`: the counter
is the length of the run of errors at the end of the results, and the rollback is active exactly if
some run was long enough. `CountersTellTheStory` proves `CountersAddUp`
with `CountingInv`: each counter is the number of searches in the places behind the step that raises it. A
search changes its place one at a time, so a sum over searches changes by what one lemma about adding an
element to a finite set says.

**EntityResolution_proofs**, from `ResolutionAssumption`. `MergesReviewed`, for any number of callers:
`ReviewInv` says that a caller about to write has an event whose grounds are in the log (`CallerInv`), and
the log never loses an event. `ResolversAlwaysAgree` is a fact about redirects: both chases take the same
steps (`Chases`) until one meets an entity again. What a chase computes is shown by taking a
counterexample with the most entities visited, in place of an induction.
With one caller at a time, `SerialInv` adds what the operation under way has checked against the log as it
is (`CheckedInv`), that reviews happened once (`OnceInv`), and that the active merges form a forest
(`ForestInv`): an entity that was absorbed is absorbed by one merge, and every merge leads to an entity of lower rank, so that every
chase ends at a root (`Stands`). `SerialMergesFormAForest`, `SerialReviewsHappenOnce` and
`SerialStepsMoveOneCluster` follow; `cycle` shows that two callers are too many.

**StoreTransactions_proofs**, from `TransactionsAssumption`. `TypeCorrect` holds for every client.
For the pool `PoolInv` says that each connection is used by at most one call, that an open
transaction holds the writes of its call so far and of nobody else, and what is durable in each
place of a call. `PoolAllOrNothing`, `PoolAnswersAreTrue`, `PoolLeavesNothingOpen` follow, and
`PoolIsAtomic` proves the whole refinement of `AtomicTransactions`, crashes included. This is the
ground on which the other modules take a transaction for one step. For SQLite `SqliteInv` says that
there is at most one owner at work, that the flag is set and the connection in a transaction exactly
while there is one, that what it has written waits there, and that of a call that began its
transaction and is over nothing waits. That a joiner's writes wait in the same place, and may outlive
it, does not matter to the owner. `SqliteOwnersAreAtomic` and `SqliteLeavesNothingOpen` follow; that
no more can be promised on one connection is what `joined` shows.

**ClaimConflicts_proofs**, from `ConflictsAssumption`. `DetectionInv`: what a detector knows is on
record, and what it found is known to it unless it is at recording; `FoundIsRecorded` follows.
`ResolutionInv`: who resolved a conflict is done; and of a curator about to write, the one who
resolved its conflict since it looked had not ended when it began. `ResolvedForGood` is read off the
write. It needs that only calls that have not ended take steps (`Moves`), and that a curator at work
names a conflict that is there (`RequestInv`). `ViolationsNotMissed` is no invariant of steps but the
correctness of the detection itself: of the claims valid together at a time, the one that starts last has
its start looked at, and what is valid then includes them all. A set larger than allowed contains a
smallest one, which is found.

**IngestionPipeline_proofs**, from `PipelineAssumption`; nothing is assumed of what the provider
extracts. `ReferenceInv` adds to `ReferencesHold` that what is pending refers to stored evidence and
entities, and that in its later places a process has its blob and its evidence stored; then
`ReferencesAlwaysHold`. `IndexInv`: each claim that is not in the index is one that a rebuild under
way will still insert, if no rebuild was cut short or one has begun since; `IndexIsComplete` is the
case in which none is under way. Two rebuilds that delete each other's rows are the reason that it
speaks of the union of what all of them have left. These three need `SequenceAssumption`: documents, drafts and
the evidence of a job are sequences. `QueueDelivers` is the refinement of `JobDelivery`; `QueueInv`: what is
queued was enqueued, and the jobs a worker has drained but not begun are those of its batch (`BatchInv`).
`AnswersAreWhole`, with `CompletenessInv`: a caller between two documents has stored all of those before,
and within one the claims of its drafts are stored or pending. `OverlapsAlwaysMarked`, with `MarkInv`: a
pending draft is marked exactly if it overlaps a claim that was listed or one pending before it, what is
stored of the document is a beginning of what is pending (`FirstStored`), and what the run stored of earlier documents is
in the list (`Drafting`); what others store in between changes none of this, since a run is begun once (`RunsInv`).

**DecisionRecords_proofs**, from `BitemporalAssumption` and `DecisionAssumption` (a policy id is
stored once, and `None` is no version). `StoreInv` adds to `VersionsAreKept` the types of what a writer
holds and that a writer about to upsert has archived what it read; `NoVersionIsLost`. `ReplayInv`:
ids of policy versions stay unique, what a decider selected stays stored, a decision has its receipt
and what it says of policies it says of some that are stored; hence the versions an auditor loads by
id are those the decision was made with (`FoundAgain`), and `ReplaysAreComplete`. `StoryInv` relates three
records of the same versions: the commits in their order, the current row, which is the last of them, and
the history, which holds the others unless one was overrun (`RecordsInv`); to these it relates what a
listing has read in its two steps (`ListingInv`), what a decider searched and captured (`MadeInv`), the
log of lifecycle records and events (`LogInv`), and what an audit has collected (`AuditInv`). From it `AnswersWereTrue`,
`AnswersStayTrue` and `AuditsTellAll`. The attempt to prove the first found a case no run reached with two writers:
a version archived late (section 6). The exception `ArchivedLate` names it, and the run `decisions` has a
third writer since.

**Serving_proofs**, from `AdmissionAssumption`, `ServingAssumption` and `RetrievalAssumption`. For any
number of requests, tokens, claims and changes, and any time to live, window and expiry. `RequestInv`
joins types and places with four parts: what is cached lies before the expiry of the token, at
most `TTL` ahead, and at most `TTL` after a revocation, and an introspection under way was asked
for before (`TokenInv`); between the audit of a tool and its answer the outcome is the last one
audited (`AuditInv`); the slot and the operation of a request hold the principal of its token
(`CallerInv`). Each is inductive only with the others' places. `AcceptedWereValid`,
`AnswersAudited` and `CallersKept` are its consequences, `AnsweredOnce` follows from each action.
`IndexConsistent`, from `KnowledgeInv` (a row without a pending change shows its claim), is the safety
of `ConsistentIndex` for the projection that searches read, which ties `RetrievalPipeline` to what
`RetrievalProjection` is proved to be. `TheRateIsKept`, with `BucketInv`: the requests let in since the bucket
was opened are at most those it counts, and those let in less than a window before that are fewer than the
maximum, since they leave out the one that opened the bucket before (`RateInv`).

`SearchesInv` is about searches, with what each task of each kind has read so far (`TaskInv`) and what
is known of a search in each place (`SearchInv`): what was listed was visible when it was read (`Sound`), and
what matches and was visible all along is listed or the list is full (`Complete`). `HistoryInv` ties the
status of claims to the list of changes, so that "visible at the read" means a moment since the search
began. `HitsSound` and `NothingMissed` follow for every configuration of the stores, failures of the
projection included. The sorted list by a score is characterised, never computed: `Ranked` is the set of
lists sorted by score and id, and a member that is cut off is behind as many others as the limit.

`GraphFindsTheNeighbourhood` is about the graph search on its own. `Near` is the set of claims that a path of
at most so many hops leads to from a seed; `OneHopMore` says that one hop more adds what touches an entity of
those, and `AllNearAreReached` that the store's function of the hops computes it. The projection is asked
entity by entity, and the store may take over at any of these reads. Its invariant `NeighboursInv` says what is
known meanwhile, as long as no claim changes: while the seeds are read, every entity of a seed is gathered or
its seed is left (`Seeding`); during a hop, every entity of what was near before it is left or has been asked
about in this hop or an earlier one, and what touches it is listed (`Hopping`). That an entity is asked about
once suffices only because the entities of what was found then are either known or in the next hop. A search
that runs out of entities before the last hop has closed the neighbourhood (`NearIsClosed`). Both sides
read the same claims since an up-to-date projection has the store's rows (`RowsAreInView`), and the seeds are
in the caller's namespace (`ScopeInv`). The proof also showed that two guards of `Begin`'s choice of a
reader were both true in one configuration, of which a run of TLC takes the first; they exclude each other
now, as in the code.

`NoMarksBehindTheView`, `MaintainerKnows` and `MarksAndRowsHaveSources` of the projection, and the
types of `RetrievalProjection`, `ServingGate`, `StoreTransactions` and `Serving`, are proved and in no run.

Only model-checked: all liveness (`EventuallyNothingPending`, `EveryCallEnds`, `EveryJobIsRun`,
`TimeoutsEndRequests`), which is beyond the prover's treatment of `ENABLED`.

The prover has no induction over data with the installed backends. Where a proof needs one, it takes a least
natural number or a smallest set that is a counterexample (`LeastNatural`, `LeastCounterexample`,
`SmallestSet`), from the library's theorems about well-founded relations, and derives a lesser one.

## 6 What the checks found

Four runs end in a violation of what the repository says of itself; `PROJECT.json` (`findings`)
quotes it.

1. `ghost`: two maintainers may leave the row of a retracted claim for ever, with a status that
   says the projection is fresh. Each maintainer's reads are before its transaction and nothing
   makes them exclude each other.
2. `historical`: one retrieve with a `knownAt` counts as three consecutive projection errors and
   rolls the projection back for everybody.
3. `cycle`: two merges of one approved proposal with opposite directions both pass their checks;
   from then on both entities fail to resolve.
4. `joined`: on a client with one connection a transaction of another request is joined and
   committed half done.

Other things the models show, beside these:

- *Jobs.* `drain` has deleted all jobs before the first is run, so a crash, or one job that throws,
  loses those behind it (the step `Lose` of `JobDelivery`), although the table is described as
  durable (`packages/adapter-postgres/ARCHITECTURE.md:6`). A job of kind `ingest.path` is skipped where the application has no `ingestPath`. A job
  that throws ends the worker's loop for good. Two rebuilds of the lexical index collide on its primary key, which throws and
  ends the loop as well. `drain` ignores how many rows its `DELETE` found, so two workers run the
  same jobs.
- *Store.* A version that is built early and committed late changes what a read as of a time
  answers; when versions commit out of order, a read as of now and a read of the current state
  differ. Two concurrent writers of one claim overwrite a version that is in no history. A writer that archives what it had read
after others have archived newer versions of the same millisecond puts it behind them, and a read as of
that time finds the older version, although none was lost. Without a
  temporal request, policy versions apply that have expired or are not yet in force
  (`policy.ts:55`).
- *Search.* The projection's lexical search wants every word of the query and the store's any of
  them; its vector search has no threshold and the canonical one has. The lexical index of the
  store keeps retracted claims and is cut off before namespace and visibility are looked at. Claims
  retracted between a search and its end may be hits. A retrieve passes no delegation, so an agent that acts
  for somebody is denied every hit.
- *Serving.* REST has no rate limit and no timeout, and answers a bad token with 500; the wait for
  a body has no timer; buckets of the rate limiter are never removed; the token cache removes only
  expired entries, also above its 2048; a tool repeats the scope check of its profile; a failed
  audit turns a success into an error.

## 7 Not modelled

The command line, the web pages, stdio and the SDK's client, blob stores beyond reading and
writing, development identities and model providers are input and output without protocol state of
their own. Memory, ontology and provenance export validate or convert single documents. The port
types, the architecture checks and the compliance tests of the plugin SDK have no run-time
behaviour. Of the modelled components, what is left out is said with each module above; the S3
store's cached bucket check and the result of `execute` in `projection-operations.ts` are left out
as well, as are latency histograms, the comparison of shadow candidates, the rebuilding of vector
indexes, reranking and HNSW, which change numbers or order but no state that a property is about.

## 8 Plan

Done, in this order: the projection with its abstract index and proofs; the gate with proofs; entity
resolution; transactions with their abstract specification and proofs; conflicts; ingestion with the
job queue and its abstract specification; versions, policies, decisions and audits; the retrieval
pipeline, the admission of requests and their composition, with proofs.

Then the proofs that resolutions stand and what is found is recorded, that references hold and the
index is complete, that versions are kept and replays complete. Then those of entity resolution, of the
counters of the gate, of the queue, of complete answers and marked overlaps, of listings and audits, of the
rate, of what a search finds and of the neighbourhood a graph search finds, and that SQLite keeps the
promises made to the calls that begin a transaction.

Liveness stays with the model checker.
