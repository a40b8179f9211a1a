# TLA+ models of personal_memory

This directory holds TLA+ specifications of the concurrent and failure-prone
parts of `personal_memory`, an MCP server (Go) that stores facts and document
chunks in Qdrant. Every definition is translated from the source; `PROJECT.json`
maps each one to the lines it stands for. Paths below are relative to the
repository root.

    tlc  -workers 2 -config RecallCache.cfg MCRecallCache.tla
    tlapm RecallServing_proofs.tla

## 1. The system

One process, `cmd/server`, serves MCP tools over HTTP. Each request is a
goroutine. The shared state is in Qdrant (reached over HTTP with a 30 s client
timeout, so an error never says whether a write was applied) and in a few
in-process structures. Around it are standalone commands that work on the same
collections: `cmd/indexer`, `cmd/maintenance`, `cmd/ai-maintenance`, the `cmd/migrate-*`
tools and `cmd/context-catalog`.

| Component | State it keeps | Operations | What makes it correct |
|---|---|---|---|
| Recall cache `internal/memory/cache.go` | `recalls` map, `inflight` flights, `generation`, a mutex per entry | `AcquireRecall`, `FinishRecall`, `Invalidate` | no stale result is published or answered after a mutation was acknowledged; one leader per key and generation; no follower waits forever; `Invalidate` drains hits |
| Recall counter `recall_counter.go` | bounded channel, pending map, one worker | `enqueueBatch`, `run`/`flush`, `stop` | at-most-once increments; refused recalls not counted; the worker ends; Shutdown drains |
| Memory server `server.go`, `lifecycle_*.go` | 64 mutation stripes; the Qdrant collection | `recall_facts` and the other reading tools; `store_fact`, `import_facts`, `update_fact`, `set_fact_lifecycle`, `delete_fact`; `Start`, `Shutdown` | no lost updates, no overwritten fact, no duplicate admitted by a race, quarantined facts untouched, no lock cycle; answers show facts as they were at one moment; the tools agree |
| AI at the tools `internal/memory/ai_*.go` | runtime, shadow queue, journal of recommendations | `store_fact` with grouping, `get_write_recommendation`, ranked recall | the provider's tags are stored only under their own catalog; advice is true; ranking withholds nothing |
| Maintenance `internal/memory/maintenance` | journal, archive, manifests, Qdrant snapshots | analyze, quarantine, restore, `Purge` | what is deleted is recoverable; a retry resumes; reports are true; nothing is hidden unreviewed |
| RAG `internal/rag` | chunk points, seals of generations, folder summaries | `Indexer.Run`, `search_documents`, `reindex_documents` | a published document stays readable; answers come from the newest sealed generation; leftovers are removed; a doubtful walk deletes nothing |
| Context catalog `internal/contextcatalog` | generations on disk, intents, receipts, policy, active pointer | register, publish, restore, reconcile, list | an operation is applied once across crashes; a policy is never bypassed; versions can be restored |
| AI budget `internal/aipolicy` | ledger in memory and on disk | `Begin`, `Finish` | the daily budget is never exceeded; the file can always be loaded |
| AI maintenance worker `internal/aimaintenance` | run records, state file, receipts, projections, proposals, assessments | `RunOnce` in two scopes, recovery, reviews | calls are on record before they are sent; nothing is paid twice; proposals rest on current facts; originals survive; saved assessments are kept |
| Migrations `internal/*migration`, `cmd/migrate-*` | manifests, collections | point IDs, lifecycle, embeddings | rerun after a crash; nothing lost; what was accepted is exact |
| Grouping of facts `internal/factgrouping`, `cmd/ai-maintenance` | a manifest, journals of outcomes | apply, roll back | a success is complete; a write of unknown outcome is on record and not repeated; nothing unreviewed moves |
| Embedding identity `internal/embeddingidentity` | an identity in the metadata of each collection | bind, confirm | a collection holds vectors of its model only |
| Viz `internal/viz` | cache of the document inventory | lists, history, graph, duplicates, tag editor, assessments | what is shown was there; every request is answered |
| Integration installer `integrationbundle` | files of a client, state file, backups | install, update, verify, roll back | all or nothing; the user's words survive; the last update can be undone |
| Qdrant client, backup loop, server process | none of their own | remote calls, snapshots, start and stop | seen through the modules above |
| Retrieval, rerank, embedding backends, access, Todoist, eval, conformance | mostly none | pure ranking, HTTP, checks, measurement | see "Not modelled" |

How they interact: `recall_facts` asks the cache for an answer or a lease; a hit
(holding its entry's mutex) and a leader both call `countRecalls`, which sends on
the counter's channel; the counter's worker writes counts to Qdrant and calls
`Cache.Invalidate`; every mutating tool locks the stripes of its namespaces,
writes and calls `Invalidate` before it returns. Maintenance runs in another
process and requires the server to be stopped. The indexer runs inside the server
(one run at a time) or as a process of its own. The AI worker is a goroutine of the
server; it shares the ledger of the budget with the AI at the tools, reads the facts
like any other reader, and changes only the catalog. The dashboard is served by the
same process and reads Qdrant directly. The installer runs on a client's machine and
shares nothing with the server.

The hard behaviours are listed as hazards in `PROJECT.json`, each at its line.

## 2. Modules

| Module | Models | Abstract / composed of |
|---|---|---|
| `RecallFreshness` | what `recall_facts` promises clients about acknowledged mutations | abstract specification |
| `RecallCache` | `cache.go` with its callers in `server.go` | implements `RecallFreshness` |
| `RecallCounter` | `recall_counter.go` and the writers it races with | |
| `RecallServing` | the two wired together as `NewServer` and `Start` do | implements `RecallCache` and `RecallCounter` |
| `FactMutations` | the mutating tools on the collection | |
| `FactReads` | what the reading tools answer, with lifecycle and AI ranking | |
| `AiWrites` | `store_fact` with AI grouping, the shadow queue, recommendations | |
| `AiBudget` | the ledger of AI calls | |
| `AiRunHistory` | records of AI runs and their recovery | |
| `AiCatalogSweep`, `AiFactSweep` | the AI worker in its two scopes | |
| `ReviewAssessments` | assessments of AI proposals by people | |
| `CatalogOperations` | snapshots, policies and operation journal of the context catalog | |
| `MaintenancePurge` | `maintenance purge` with journal, archive, snapshots | |
| `FactMaintenance` | analyze, quarantine, restore; lifecycle migration and rollback | |
| `FactGrouping` | `ai-maintenance apply` and `rollback` of a reviewed grouping | |
| `PointIds` | the migration of point IDs | |
| `EmbeddingSpace` | identity of collections, migration of embeddings | |
| `IntegrationInstaller` | the installer beside a user who edits | |
| `RagPublication` | indexing, sealing, cleaning and searching a document | |
| `FolderSummaries` | the walk over the tree, stale clean-up, folder summaries | |
| `FactHistory`, `VizGraph`, `VizDocuments` | history, graph and document inventory of the dashboard | |
| `*_proofs` | theorems: `RecallServing_proofs` about `RecallCache`, `RecallCounter` and `RecallServing`; `FactMutations_proofs` about `FactMutations` and `MaintenancePurge`; `FactReads_proofs` about the parts of `MCFactReads`; `AiSweeps_proofs`, `Documents_proofs`, `OperatorTools_proofs`, `AiService_proofs` and `Catalog_proofs` about the parts of `MCAiSweeps`, `MCDocuments`, `MCOperatorTools`, `MCAiService` and `MCCatalogReviews` | TLAPS |
| `MC*` | constant definitions, symmetry, warm initial state; several bring components that share no state into one run | |

An `MC` module that holds several components (`MCFactMutations`, `MCAiService`, `MCAiSweeps`,
`MCOperatorTools`, `MCFactReads`, `MCDocuments`, `MCCatalogReviews`) chooses one of
them at the start and moves only that one: the state space is the sum and not the
product of theirs, and each property is that of the component's own module.

### RecallCache

A store state is the number of writes applied, and a result is the store state it
was searched in, so "stale" is a comparison of numbers. Entries and flights are
named by the call that created them (a call creates at most one of each).
`Cache.mu` is never held across a wait, so each of its critical sections is one
action; waiting for an entry's mutex or a flight's channel is a state of its own.
`Begin`/`Lookup`/`LockEntry`/`CheckEntry`/`HitReturn`/`HitFail`/`Wake`/`CancelWait`
are the paths through `AcquireRecall`; `Search`/`Publish`/`Abort` the leader's path
through `recallFacts` and `FinishRecall`. `CheckEntry` includes the eviction of an
expired entry; the clock is a nondeterministic choice. A mutating handler is
`Dispatch` (one or several writes, applied or not), `Invalidate` (the critical
section), `AwaitEntry` (draining) and `Return`, after which its writes are `acked`.
`floor` (the value of `acked` when a call began) and `acked` are observers.

### RecallCounter

A count is the set of calls it includes, so double counting is an element that is
both written and pending. `FlushGet`/`FlushSet`/`FlushNext` are the read, the
write and the invalidation of one point. The map iteration order of `flush` is a
choice. A call made with a cancelled context may fail or, when it was already on
the wire, be applied. `UpdateRead`/`UpdateWrite`/`Delete`/`Recreate` are the
writers that share no lock with the worker.

### RecallServing

The counter's worker is the only mutator of the cache here (`RecallCache` covers
any number). Every step is a step of `RecallCache`, of `RecallCounter`, or of both. A hit
gives up its entry's mutex, and a leader its lease, only when `countRecalls` has
returned. `WorkerSet` joins the counter's SetPayload with the
cache's `Dispatch`; `WorkerInvalidate`, `WorkerNext` are `invalidateCache`.

### FactMutations

A point ID is the pair `<<namespace, text>>` it is a hash of (`id.go`). A tool call
locks its stripes in ascending order (`Lock`), re-reads (`CheckDeterministicPoint`,
`SearchDuplicates`, `Reread`, `CheckTarget`) and writes (`Upsert`, `DeleteOld`,
`SetLifecycle`). Every write may be applied and reported, applied and reported as
an error, or not applied. `import_facts` is a `store` over a batch, one lock per
item. The model confirms two behaviours worth knowing: `update_fact` makes no
duplicate search, and after its delete failed both IDs are stored and a retry by
the old ID is refused as a collision.

### MaintenancePurge

The journal is the `Result` it holds (snapshot, archive digest, one outcome per
point); the archive file is the snapshot it is a copy of. `Checkpoint` is every
journal write: under a context that survives cancellation when the code shields
it, and with the outcome "an error was reported but the file was replaced".
`Crash`, `Interrupt`, `Rotate` and `OtherWriter` are the environment. A crash
between the archive's publication and the journal that binds it leaves a file
that the next run (with a newer snapshot) refuses to replace until the operator
names another path; the model contains this, and nothing is lost by it.
`MCFactMutations` has the purge beside the tools of the server. Each moves in behaviours
of its own, because the command requires the server to be stopped, so each has a run
(`Writers` names the one that moves); the theorems hold for both.

### RagPublication

One document, chunks `<<generation, index>>`. An indexer run is `Snapshot`, `Read`,
`WriteChunk` per chunk, `Check` (read-back), `Seal`, `Clean`; `Recheck` revalidates
an unchanged document; `RemoveEmpty`, `Missed`, `RemoveMissing` are the ways a
document disappears. A search is `Search`, `Discover`, `Validate` per sealed
generation, `Answer`. With one known document `staleCleanupDecision` would always
skip (0*2 < 1), so the document stands for one of many. A scroll is one step, which
holds for up to 100 points per document. `window`, `allowed` and `owed` are
observers: the contents an answer may be made from, and whether the document has to
be readable.

### CatalogOperations

A snapshot is named by its hash in the code and by a number here; it holds one card
per registered project, and a card stands for its description. Every writer holds the
lock file for the whole call, so one `call` is in progress at a time and what can
interrupt it are failing writes and crashes. Both are one thing in the model: after any
write the call may go on or end, the write having happened or not, and a journal record
or snapshot (which are not written by rename) may be left torn. A torn record makes
every later call fail (`Reconciled`); the model contains that. `Resolve` is one round of
`reconcileLockedExcept`; `StartPublication` to `ConfirmPublication` are
`publishLockedMetadataSkipping` for every caller (`PublishFile`, `PublishAgain`,
`EnsureProject`, `Maintain`, and the second half of a restoration); `IntendRestore`
to `ConfirmPolicy` are the first half of `Restore`, and `AdmitHold` to `ConfirmPolicy`
`SetPublicationHold`. The identity of an operation is what its ID is a hash of:
the policy's ID does not depend on the value of the hold, a restoration's is given by
the client. `parent` links snapshots, and `done` observes which operations really wrote
the pointer or a policy, which nothing in the code records. `Versions`, `Explained` and
`Restorable` are what `ListVersions` offers, checked in `VersionsAreExplained`.

### FactReads

One recall is followed from its search to its answer: `Recall` (search, filter,
presentation order, the lifecycle candidate window), `AnswerPlain`, and with AI
ranking `Dispatch`, `ProviderAnswers`, `Get`/`GetFails` (the second read by ID) and
`AnswerRanked`. Between these steps facts are superseded (`SetLifecycle`, with every
input `parseLifecycleInput` accepts), rewritten, retagged, counted, quarantined or
deleted, the catalog or the runtime is replaced and the day changes. A payload keeps
what the readers tell apart: the lifecycle keys (absent, empty, wrong), `valid_until`,
the maintenance status, the scope, permanence. The other tools (operational context,
related facts, duplicate check, statistics, export and import, the lists and the graph
filter of the dashboard) are operators over the same facts, so `ReadsAgree` compares
them in every reachable state of the store (it looks at those without a recall under way,
which are the same). `since` and `steady` are observers.

### AiWrites

A store call in mode "on" is `Classify`, `ProviderAnswers`, `Guard` (the catalog is
still the one the tags came from), `Prepare` (the journal), `Upsert`, `Complete`; in
mode "shadow" `Shadow`, `CheckQueue`, `Send`, and the worker's steps on the queued job.
`Ask` is `get_write_recommendation`. The catalog is published, the runtime's context is
cancelled and drained, saves of the journal fail, and the server restarts (a job lost
with it is answered "failed/interrupted" afterwards). The context that cancels the
runtime is the signal context of `cmd/server/main.go:93`.

### AiBudget

`Begin` reserves and writes the ledger by a rename, `Dispatch` is the provider's call,
`Finish` settles, `Restart` is a crash and `NewBudget`, `Tick` steps over midnight in
either direction. A write fails before or after the rename. The queue of the code holds
one call; a second one is refused and changes nothing, so one call in flight is all
there is. `spent`, `sent` and `overrun` observe what a day really cost.

### AiRunHistory

Every invocation of `RunOnce` takes the writer lock or records the overlap (`Lock`,
`NewRun`), recovers dead runs under their liveness lock (`Examine`, `LockUnfinished`,
`Recover`), puts each call on record before it is sent (`Event`, `Send`, `Return`) and
completes (`Finish`). Two processes may share the directory. Every file operation may
fail before or after it took effect, and `Crash` frees the locks. A reader reads the
completion first and the events afterwards.

### AiCatalogSweep and AiFactSweep

The worker's two scopes; a server runs one of them. A catalog sweep loads the catalog,
policies and its own files one after another, selects, reuses receipts, asks, keeps the
answer, projects, publishes against the generation it read and records. `texts[t]`
observes which words answer `t` was made from. People edit, restore and hold projects
and move reviewed proposals away meanwhile. A fact sweep reads one page per run, keeps
proposals, verifies that the facts are as they were sent, may publish a description, and
replaces its state file. `Fault` ends a run anywhere, a write having happened or not.
What a publication writes to the catalog's journal is in `CatalogOperations`; here it is
one step. The sweep's own publication changes the binding, so the sweep of the facts
begins again after it; with a provider that words everything anew it never comes to
rest, which `MaxPublished` bounds.

### ReviewAssessments

A page shows a draft and an assessment; `Submit`, `Check` (the draft's base and current
entry), `Lock`, `Decide`, `WriteRevision` and `Publish` are the request that saves.
Revision files are created once and `head.json` names the last; a stop between the two
leaves an orphan that the next request with the same content adopts and any other is
told of. A torn orphan revision (`review.go:112-127`) blocks every later save of that
project until somebody removes it; the model contains this.

### FactMaintenance

`Analyze` writes a manifest; `Maintain` starts quarantine or restore, which is `Look`,
`Write` and `Verify` for one point after another; `Apply`, `ApplyCrash`, `RemoveTorn` and
`Rollback` with `Entry`/`EntryFails` are the lifecycle migration; `Report` prints the
outcomes. A write may be applied or not whatever the call answers. The migration demands
stopped writers; quarantine and restore are modelled beside a server that writes, because
the code verifies for that case. The lifecycle migration also migrates quarantined facts,
whose fingerprint changes with it: a restore then reports a conflict until the migration
is rolled back.

The server stores a fact, changes it in its place or deletes it (`ServerWrite`), or moves
it: `update_fact` with another text stores all the fact's fields under the ID of that text
(`ServerMove`) and then deletes the old ID, or fails to (`ServerLeaves`); `moving` holds the
calls between the two. A call that gives a lifecycle stamps it with the time of the
transition, which the migration's target lacks; a call without one keeps the lifecycle, so
a move takes the migration's to an ID that no manifest lists. `carried` observes these
IDs. `MigrationIsOnRecord` says that nothing has the migration's lifecycle before a
complete manifest is there and that everything outside `carried` is listed in it; of the
carried facts it claims nothing, and the code's rollback does not reach them (see
Divergences).

### FactGrouping

A run (`Start`, under the directory lock) takes the changes of its manifest one after
another: it reads the fact (`Status`), has nothing to write (`Pass`) or says in the journal
that it will (`Announce`), calls SetGrouping (`Send`) and reads the fact again (`Verify`).
Every save of the journal may fail before or after the rename, a call that fails may have
been applied, and `Halt` ends a run anywhere. Writers are stopped during a run, as the
command demands, so `Edit` changes facts between two runs. The operator may roll back, or
apply again, under the same or another journal. A fact is a text (all that the fingerprint
covers) and a group; a change whose two groups are equal writes nothing and is left out.
`as`, `unknown` and `resent` observe how others left the facts and which writes are open.

### PointIds

A run scans, groups the points by their deterministic ID, blocks contested groups and
everything connected with them (`Blocked`, the least set the loop computes), and moves
one group after the other: `Group`, `Upsert`, `Delete`. `Fails` ends a run anywhere with
or without the effect of the call in progress; the server writes between runs.

### EmbeddingSpace

A process inspects its collections, binds those without an identity, confirms all of
them and serves (`Inspect`, `Inspected`, `Bind`, `AllBound`, `Confirm`, `Serve`), call by
call and with crashes. The migration is `Prepare`, `Apply` and the copy, verification and
second look at the source that end in `Accept`. Two processes with different models that
find one empty collection at the same moment would both bind it; Qdrant has no
conditional metadata write, so the initial states leave this out (see the hazards). A
model exchanged behind a running process is not noticed before its restart, and a server
started on a partly copied target passes the check of its identity; neither is a
violation of what the module states. `Prepare` reads the source, which the code scrolls
page by page, in one step, and `Accept` compares and records in one step: exact for a
collection of one page, and for more pages the interleavings of writes with the scroll are
not covered.

### IntegrationInstaller

An operation is planned against the files as they are (`Plan`, `StartRollback`), then
`Backup`, `Check`, `Write` per path, `Record`, `Stub`, `WriteState`; a failed write starts
`Recover`, `RestoreFile`, `RestoreState`; `Retain` prunes backups. A file is its managed
content and the number of the user's words around it. The user edits at any time; the
windows between a comparison and its rename, which no file system call closes, are
observed by `raced` and excepted. A rollback can bring back a state whose own backup is gone:
an update dies before it prunes, a first rollback of it fails and prunes the backup before, a
second one succeeds or dies after its state. So `undone` observes the transactions that a
rollback has brought back, and `LastUpdateCanBeUndone` is about the others.

### FactHistory, VizGraph, VizDocuments

`FactHistory`: one fact is read after another along the two mirrored lists (`Fetch`), then its
relations are added one by one (`Relate`), with bounds on facts, queue and links; a link waits
for the fact at its other end until `Resolve` settles it. That a link would close a cycle
(`PathExists`) is said of sets closed under the links: the breadth-first search of the code computes
the smallest one. `VizGraph`: the scroll with its bounds, one page per step
(`ReadPage`), then the two loops over the points, one pair per step (`Compare`), with a heap
of bounded size, compared in the property with all pairs.
`VizDocuments`: a scan that belongs to no request, shared by those that wait and cached
for a while; `Check`, `Acquire`, `Own` and `Wait` are the loop of `apiDocuments`.

### FolderSummaries

A run walks the tree, which may hide files from it, decides on stale files
(`SkipCleanup`), removes them, and reconciles the summaries of dirty folders. Indexing a
file is one step (`RagPublication` has its parts). Empty and non-text files and
overlapping runs are left out. Two things count as owed (`owed`) and are excepted from
`FoldersFollow` until they have been put right: a step about the folder that failed, and a
reconciliation while the index was behind the disk. The second matters when an edit undoes
another: the summary shows what was there in between, and no later run finds a file changed.

## 3. Runs

| Run | Instance | Shows |
|---|---|---|
| `recall_cache` | 3 calls, 1 key, 2 mutators, 2 writes, 2 generations | freshness of the cache, no lost wake-up, refinement of `RecallFreshness` |
| `recall_counter` | 2 calls, 2 facts, channel of 1, faults and rewrites | at-most-once counting, refused calls not counted, nothing sent after the stop; the worker exits |
| `recall_serving` | 3 calls, 1 key, 1 fact, warm cache, faults | the worker's writes leave no stale entry; Shutdown breaks every wait |
| `fact_mutations` | 2 calls, 2 namespaces, 2 similar texts, batches of 2, any initial collection | no lost update, no overwrite, no raced duplicate, no lock cycle, quarantine respected |
| `maintenance_purge` | 2 points in any initial state, 2 snapshots, unbounded runs | recoverability, truthful success, readable journals, evidence and binding kept |
| `fact_reads` | 3 facts (8 payloads for the first), limit 1, window 2, 1 change, 2 days; a history of 4 facts with bounds of 3; a graph of 5 facts, pages of 2, scan of 4, 3 nodes, 2 pairs | recalls are faithful, the reading tools agree, the views of the dashboard are true |
| `operator_tools` | 4 IDs and 4 facts (two compete for one ID, one has none), 2 runs; 2 facts, 1 analysis, 1 write, 3 commands; 2 interchangeable processes, 2 models, 3 starts, 1 write; 2 changes, 2 journals, 3 runs, 1 edit; 2 files, 3 sets, 4 operations, 1 edit, 1 fault | the operator's commands lose nothing, report truly, keep vectors and identity together, regroup as reviewed, and leave a bundle whole |
| `documents` | 1 indexer, 1 search, contents of 2, 1 and 0 chunks or no file, 2 generations; 2 files in a folder and a hidden one, 2 runs, 2 edits, 1 fault; 2 requests, TTL and timeout of 1 | a published document stays published and answers are fresh; folder summaries follow the tree; every request for the inventory is answered, from a fresh one |
| `catalog` | 1 project, 2 descriptions, 3 snapshots, 2 policy revisions, 1 restoration ID; 2 people, 2 revisions, 2 faults, 1 edit | the journal can be resolved and is true, a restored description has its hold, the pointer obeys the policies, saved assessments are kept |
| `ai_service` | 3 calls and 7 tokens a day, 2 days; 3 runs of 2 events; 2 stores, 2 catalogs, 2 starts, queue of 1 | the budget holds, run records are true, tags and advice are by the book |
| `ai_sweeps` | 2 projects, 2 words, 1 project per run, 6 answers, one change and one fault (with a card on hold two changes); 3 facts, pages of 2, 1 publication, one change and one fault or two changes | nothing is paid twice, nothing skipped, nothing published on stale facts, originals kept, the sweeps finish |
| `ai_catalog_restore` (violation) | `AiCatalogRestore.cfg` | `OnlyPeoplesWords` fails: after a restoration the model's words pass for an original |

A property of a run is often the conjunction of named parts
(`MutationsAreSound` = `NoWriteIsLost` and `NoDuplicateCurrent`, `PublicationIsSound` =
`StillPublished`, `AnswerFresh`, `SuccessLeavesOneGeneration`; `AdviceIsFollowed` =
`AppliedByTheBook` and `ShadowAdviceIsTrue` of `AiWrites`; `GroupingIsTrue` =
`SuccessIsTrue`, `UnknownIsOnRecord` and `OnlyReviewedMoves`), each stated with the code
behaviour it is about. `TypeOK`, where a module has one, is a theorem or was checked while
the module was written and is not repeated in every run.

Why the bounds are enough. *Cache*: a stale publication needs one leader, one
mutator and one invalidation; the revoked leader against a newer flight needs a
second leader; a follower or a hit a third call. Two mutators let one invalidate
while the other has written. Keys are independent except through `Invalidate`,
which empties all of them. *Counter*: one slot makes the channel full with the
second call; two facts make a flush of several points. *Serving*: three calls are a
holder of the mutex, the occupant of the channel and the recall being written.
*Mutations*: races are between two calls, a deadlock needs two stripes; the texts
are interchangeable. *Reads*: one fact that changes, one that can push it out or tie with
it, one it must not give way to; an answer of one fact and a window of two make both
limits bite. *History and graph*: every bound is reached by fewer facts than there are; a
cycle needs three facts. *Purge*: two points make a partially done run, a second snapshot
is the one that could replace the recovery point. *Point IDs*: two different facts with one
target contest it, a legacy point can occupy the target of another group, and two runs are
a crash and its repetition. *Maintenance commands*: analyze, quarantine and restore, or
apply, apply again and rollback, are three commands; one write of the server falls
anywhere between them. *Embeddings*: the server and the
indexer are the two processes the code binds collections for; two models are a right and
a wrong one. *Grouping*: a run that stops halfway needs two changes; apply, roll back and
apply again are three runs, and the second journal is one that knows nothing of the
first. *Installer*: an update halfway needs two files; the third set is one of the
preceding bundle; four operations are install, update, update, rollback; `Keep` of 2 makes
pruning happen. *RAG*: a published generation and the one that replaces it; two chunks make
a partial generation. *Folders*: with two files a walk that misses both is under the
threshold and one that misses one is not; two edits are a change before and one during
a run. *Inventory*: an owner and one who waits; a cache
that is fresh for one tick. *Catalog*: policies and cards are per project and a restoration
touches one card, so one project is enough; three snapshots are an original, a change and
its restoration, or two publications and a retry; two revisions are a hold and its end.
*Assessments*: two people who were shown the same revision. *Budget*: three reservations of
three exceed seven tokens, so that both limits are reached; two days are a rollover, in
both directions. *Run records*: one dead run, one that recovers it, one that overlaps.
*Writes*: a second store fills the queue of one; a second catalog invalidates tags.
*Sweeps*: with one project per run the second is starved unless the cursor moves; three
facts in pages of two leave a page that is cut; the counters of changes and faults may
start anywhere up to their bounds, so that the run can share them out, and the theorems
about the sweeps hold whatever the bounds are.

Every bound is a constant named `Max…` or `Last…` and declared as such; a call of the
memory tools is used once. `MCFactMutations`, `MCAiService`, `MCAiSweeps`,
`MCOperatorTools`, `MCCatalogReviews` and `MCFactReads` also say which initial states they take from a component; each restriction
is explained where it stands.
`CHECK_DEADLOCK FALSE` is set in every run: behaviours end when the calls are used
up and the server is stopped. Waiting for each other is checked by properties of its own
(`NoCircularWait`, `WorkerExits`, `ShutdownReleases`, `DocumentsAnswered`).

### Fairness

`RecallCounter!Fairness` and `RecallServing!Fairness`: weak fairness of the
goroutines that can run (the Go scheduler; every HTTP call is bounded by the
client's timeout), strong fairness of `NoticeCancel` and `Abandon`, because Go's
`select` picks at random among the ready cases and the deadline of the shutdown
context passes. `VizDocuments!Fairness`: weak fairness of each request and of each scan,
which has a goroutine and a timeout of its own. The sweeps: weak fairness of the sweep as
a whole, because the ticker of the worker starts the next run whatever became of the last;
no single step of a run is required to succeed, faults are only bounded in number.
Clients are never required to give up or to call, writers never required to write, the
server never required to stop.

### Findings

Where the code and what its comments, tests or docs say disagree; `PROJECT.json` quotes
the lines. The fourth column reproduces each with TLC.

| Property | Code | What happens | Reproduced by |
|---|---|---|---|
| `OnlyPeoplesWords` | `operations.go:910` | a restoration over an entry that people rewrote copies the model's words under the provenance `client_declared`; the next sweep sends them to the model as source | run `ai_catalog_restore` |
| `StopDrains` | `recall_counter.go:153-164` | `flush` drops a delta whatever `SetPayload` reports, also when `stop` cancelled it: Shutdown does not drain | `RecallCounterShutdown.cfg` with `RecallCounter` |
| `InvalidateReturns` | `cache.go:199`, `recall_counter.go:68` | the worker's `Invalidate` waits for the mutex of an entry whose hit waits for room in the channel that only the worker empties; a cancellation or Shutdown ends it | `RecallBackpressure.cfg` with `RecallServing` |
| `EvidenceKept` | `purge.go:175` | in a retry, "failed" is written over the evidence of a dispatched delete; the next retry reports `not_found` | `MaintenancePurgeRetry.cfg` with `MaintenancePurge` |
| `StillPublished` | `indexer.go:327` | two indexers at once: each deletes what its snapshot lists except its own generation | `Documents.cfg` with `MCDocuments`, `Indexers = {i1, i2}`, `Searches = {}`, `FileStates = {v}` and `MaxGenerations = 3`, where `PublicationIsSound` fails |
| `DeniedNeverHappened` | `operations.go:208` | a publication that died between intent and pointer, made again with the same file, first records "not_applied" for itself, then moves the pointer and fails on its receipt "applied". Such a version has the origin "legacy_unknown" in `ListVersions`, and `VerdictsAreTrue` covers only restorations and their holds in its second part | `CatalogRetry.cfg` with `CatalogOperations` |
| `RefreshBypassesCache` | `viz/handler.go:1109` | a forced refresh joins a refresh whose owner finds the cache fresh, and is answered from it | `VizDocumentsForced.cfg` with `VizDocuments` |
| `ReceiptIsFound` | `catalog_worker.go:185` | the cursor moves over a passed card that was blocked and is saved before the request; after a crash the next run selects other projects, does not find the receipt by its key and pays again. `PaidOnce` is therefore stated under `SameQuestion` | `AiSweeps.cfg` with `MCAiSweeps`, `NumProjects = 4`, `MaxPerRun = 2`, two changes and one fault from the start, and the property `ReceiptIsFound` |
| `SummariesCatchUp` | `indexer.go:134` | a folder whose summary failed is not dirty in the next run, so the old summary stays although every run is healthy | `Documents.cfg` with the invariant `CatchUp == Tree!SummariesCatchUp` added to `MCDocuments` |

### Divergences

Smaller differences met on the way, which no property is about.

* `docs/superpowers/plans/2026-09-05-context-correctness-remediation.md:9,57` promises that
  every dispatched visible mutation invalidates cached reads. The tag editor of the
  dashboard (`viz/handler.go:916`) neither invalidates nor takes the mutation stripes: the
  recall cache shows the old tags until its entries expire, and an `update_fact` in
  progress can undo the edit. No property covers this.
* `lifecyclemigration/migrate.go:183` rolls back the IDs of the manifest. A migrated fact
  that `update_fact` has since stored under the ID of another text keeps the migration's
  lifecycle: the rollback reports a conflict for the old ID and does not know the new one.
* An installer rollback that fails restores the files it had taken back without comparing
  them first (`installer.go:690-705`), which `integration-bundle/guide.md:370` rules out;
  and when the record of a committed write fails (`installer.go:468-476`) that one file is
  not restored.
* `factgrouping/grouping.go:150` says that a write of unknown outcome is "never automatic
  success or retry". A later run that finds the fact in neither group overwrites
  "ambiguous" by "conflict" or "not_found" (`grouping.go:211-236`); once the fact is back as
  it was reviewed, a run under the same journal sends the write again, and so does a run
  under another journal. `UnknownIsOnRecord` states what holds: not before the fact was
  seen in another state.
* `fact-lifecycle-contract.md` lists six lifecycle keys; the code writes seven
  (`payloadFields`).
* `forgetOld` only analyses; it never deletes.

## 4. Proofs

### Cache

`RecallServing_proofs` proves of the cache, for any sets of calls, keys and mutators and any
bounds:

| Theorem | States |
|---|---|
| `TypeCorrect` | `Spec => []TypeOK` |
| `CacheNeverStale` | `Spec => []NeverStaleCache` |
| `AnswersFresh` | `Spec => []AnswersReflectAcknowledged` |
| `SingleFlightPerGeneration` | `Spec => []SingleFlight` |
| `NoLostWakeUp` | `Spec => []NoOrphanWaiter` |
| `DrainedOnReturn` | `Spec => RemovedEntriesDrained` |
| `RefinesFreshness` | `Spec => ImplementsFreshness` |

Assumptions: `NoneAssumption` (nil is not a call) and `BoundsAssumption` (the bounds
are naturals).

The inductive invariant `IInv` adds to the properties what they rest on.
`NeverStaleCache` is not inductive: that a leader may publish in the generation of
its lease is safe only because no invalidation happened since its search, which
`CoverInv` states for the results about to be published as well as for the published
ones (`Covers`: at least every write whose handler has passed the critical section
of `Invalidate`, and the whole store when no handler is between its write and its
invalidation). `LeaseInv` ties a flight in the map to the generation that granted it;
with it `SingleFlight` and `NoOrphanWaiter` follow. `PtrInv` says that the entries
pointed at belong to finished leaders, so their results no longer change.
`FloorInv` carries freshness to the answers: a hit checks the map again under the
entry's mutex, so at that moment the entry covers every acknowledged write.
`DrainInv` says that a hit holds its entry's mutex and that a removed entry is never
published again. There is one lemma per action. The refinement maps the calls'
places to idle / open / answered / failed; `HitReturn` and `Publish` are answers,
`Return` is the acknowledgement, and everything else stutters.

### Purge

`FactMutations_proofs` proves for any selection of points and any number of
snapshots, runs, crashes and rotations (`Purge` is the instance of `MaintenancePurge` in
`MCFactMutations`, whose behaviours are behaviours of it by `PurgeRuns`):

| Theorem | States |
|---|---|
| `PurgeTypeCorrect` | `MCSpec => []Purge!TypeOK` |
| `DeletedIsRecoverable` | `MCSpec => []Recoverable` |
| `DispatchIsJournalled` | `MCSpec => []Purge!DispatchIsDurable` |
| `SuccessIsTrue` | `MCSpec => []SuccessMeansGone` |
| `JournalReadable` | `MCSpec => []JournalStaysReadable` |
| `EvidenceSurvivesPreflight` | `MCSpec => Purge!PreflightKeepsEvidence` |
| `RecoveryPointIsFinal` | `MCSpec => Purge!BindingIsPermanent` |
| `RecordIsKept` | `MCSpec => JournalKeepsRecord` (the two above, as the run checks them) |

Assumption: `PurgeAssumption` (`MaxSnapshots` is a natural, no snapshot is not a snapshot
and no journal is not a journal).

`Recoverable` is not inductive. What it rests on: a snapshot, once taken, holds
every point that still carries the manifest's fingerprint, because no one can
give a point that fingerprint back (`SnapshotsHold`); an archive is bound together
with the snapshot it is a copy of (`BoundInv`); before a run has bound its
recovery point it resumes exactly what the journal holds, or there is nothing to
resume, so nothing was purged under an older binding (`PreflightInv`, lemma
`NothingPurged`); in the loop the journal equals the run's result but for the point
being recorded (`LoopInv`), which is what makes a delete's dispatch durable; the
successes the run has passed are gone (`VisitedInv`). The lemmas
`RefusedStep` and `LoopCheckpoint` are the two kinds of journal write, each used by
several actions. The two action properties follow from one lemma, `JournalStep`:
every step keeps the journal's binding, and before the loop its evidence.

### Counter, and cache and counter together

`RecallServing_proofs` proves of the counter, for any calls, facts, queue size and either
setting of the faults and rewrites: `CounterTypeCorrect` and `CountsStayTrue` (`Counter!Spec
=> []Counter!CountsAreTrue`), and `CountedAlone` (`CounterSpec => []CountsAreTrue`) as the
run `recall_counter` starts it.
Assumptions: `QueueSizeAssumption`, `SwitchAssumption`. "Counted once" is not inductive: a
recall is at any time in at most one of the channel, the pending map, the worker's hands
and the stored counts, including the copies that a concurrent rewrite holds
(`AcceptedInv`, `OnceInv`); `PhaseInv` ties the stop's phases to the empty channel.

It then shows that the server as wired implements both parts:
`ServesAsCache` (`ServingSpec => Spec`) and `ServesAsCounter` (`ServingSpec => Counter!Spec`), one
lemma per action (`CacheSteps`, `CounterSteps`). The theorems of the parts then hold of the
server by instantiation: `ServedCountsAreTrue`, and `CacheShowsCounts` (`ServingSpec =>
[]CacheShowsPersistedCounts`) from `NeverStaleCache` with the invariant that the worker
between a write and its invalidation is a mutator of the cache in the same window.
Assumptions: `NoneAssumption` and `SizeAssumption`.

### Reads

`FactReads_proofs` proves for any facts, payloads, limit, window, scores and order of ties,
and any number of changes and days:

| Theorem | States |
|---|---|
| `ToolsAgree` | `Spec => []ReadsAgree` |
| `RecallIsTrue` | `Spec => []RecallIsFaithful` |
| `HistoryShowsTheTruth` | `History!Spec => []History!HistoryIsTrue` |
| `GraphShowsTheTruth` | `Viewer!Spec => []Viewer!GraphIsTrue` |
| `ViewsShowTheTruth` | `MCSpec => []ViewsAreTrue` |

Assumptions: `ReadsAssumption` (payloads are of the kinds `FactReads` lists, bounds are
naturals, nil is no payload and no answer), `HistoryBounds` (IDs are numbers in their
order, what facts say names IDs) and `ViewerBounds` (finitely many points, similarities are
naturals).

`ToolsAgree` needs one fact about the store only: whatever the tools write as a lifecycle is
valid (`FactsOK`). With it the classes the tools sort facts into are disjoint and
complete (`Disjoint`), so the statistics add up (`CountedOnce`).

`RecallIsTrue` follows one recall from its search to its answer. That an order exists at all
is `CanBeSorted`: the place of an element is the number of elements before it, so that no
induction is needed. `Presentation` says what the presentation order guarantees of a set of
facts, and `RankedByScores` what the provider's order may change of it: nothing across
tiers. The invariant (`RecallInv`) relates the recall to a world that moves under it: what
was found was presented so when it was found (`Presented`), was held by the store at some
moment since the call began (`NowHeld`), is unchanged if nothing moved (`SteadyOK`), was
reread after the provider answered (`FreshOK`), and what is answered was drawn from these
alone (`AnswerOK`). `WorldMoves` is the one lemma about every step that is not the recall's.

`HistoryShowsTheTruth` rests on `HistoryInv`. `QueueOK`: what is queued is what was discovered and not
read, and it fits into the budget of reads that is left, so the loop never ends with a
queue. `LinksOK`: a link that waits has one end that was read and one that is queued, and
unless the answer is cut every relation of a fact that was read is in it or still to be added.
`CyclesOK`: a link is marked exactly if the others lead from its end back to its start. It survives
the adding of a link because a new path must use the new link, and then the link
itself would have closed a cycle (`NoCycleAdded`). Paths are closed sets, so that this needs no
induction over their length.

`GraphShowsTheTruth` rests on `GraphInv`. `NodesOK`: the points are in the order of their IDs, below the
offset, and every fact below it that was left alone is among them. `HeapOK`: the heap holds
the strongest of the pairs compared so far; `KeepsStrongest` shows that one comparison with the
weakest keeps that so. It needs the weakest to exist (`RootIsWeakest`) and strength to be a linear
order on pairs (`StrongerLinear`), which the IDs provide where similarities are equal. TLC
checked both invariants on the instance of the run.

### Mutations

`FactMutations_proofs` proves for any calls, namespaces, texts, assignment of namespaces to
stripes, similarity, batch bound and initial collection:

| Theorem | States |
|---|---|
| `TypeCorrect` | `Spec => []TypeOK` |
| `MutationsSound` | `Spec => []MutationsAreSound` |
| `QuarantineKept` | `Spec => QuarantineUntouched` |
| `NoDeadlock` | `Spec => []NoCircularWait` |

They speak of `FactMutations` alone; by `ServerRuns` they hold of what the run checks.
Assumptions: `NoneAssumption`, `PayloadAssumption` (nil is neither a call nor a payload),
`StripeAssumption` (stripes are numbers below `NumStripes`), `SimilarAssumption` (similarity is symmetric),
`LifeAssumption`. None of the properties is inductive alone. `LockInv` says that a call
holds the stripe of everything it touches from its last `Lock` to its `Unlock`, and that it
took the stripes it holds in ascending order; from it, `OthersKeep` (whoever writes under its own locks leaves
every other call's knowledge alone) is proved once and used by every write. `ShapeInv`
relates a call's place to its tool and arguments, `SnapInv`, `FreeInv`, `MoveInv` and
`VetInv` say what a call knows in each place: the fact as read and active, the target
free, the copy stored, no active duplicate but superseded ones. `UnvettedWrite` and
`VettedWrite` are the two ways a write keeps `NoDuplicateCurrent`.
Freedom from lock cycles uses the order in `LockInv`: a call that waits for a stripe waits
for one that works or that waits for a higher stripe (`WaitsGoUp`); of the calls that wait,
however many, the one whose stripe is highest therefore waits for a call that can go on.
That a bounded set of stripes has a highest one comes from the well-foundedness of the
naturals, so no induction over the holders is needed.

### Budget

`AiService_proofs` proves for any limits, reservation and number of days: `TypeCorrect`,
`BudgetIsKept` (`Spec => []BudgetHolds`) and `ClosedDayStaysClosed` (`Spec =>
OverrunClosesDay`; no run lists this property, TLC checked it once with three days).
Assumption: `LimitsAssumption`. Memory and disk are two ledgers that differ after a failed
write; `Charged` says of each that it accounts for what its day has cost and for what the
call in flight still may, `DiskInv` that nothing is dispatched on a day the disk does not
know, `CallInv` that a call in flight is pending on disk, `Sane` that a ledger can be loaded.

### Run records

`AiService_proofs` proves for any runs, kinds of events, crashes and failing writes:
`RunHistorySound` (`MCSpec => []RunHistoryIsTrue`). Assumption: `HistoryAssumption` (nil is
no run, the bound is a natural). The properties compare what was sent with what is on disk
and never mention locks; the proof is about locks. `OwnInv` says that a run that runs holds
its own liveness lock and has no completion; `TargetInv` that a recovery completes only a run
whose lock it took after it had listed it; so the run completed is dead, and stays dead,
because a run takes its lock before its first record and only once (`LiveRunsAreLeftAlone` is
part of the invariant). `DeadInv` follows each run that was dead at the start of a recovery
through the loop: complete, still to be looked at with its lock free, or being looked at.
`CountInv` orders the four counts: sent, in memory, on disk as events, in the completion.
Attempts are a cardinality and not a fold, so that `OneEvent` (an event adds at most
one attempt) needs no induction.

### AI of the writes

`AiService_proofs` also proves, for any calls, catalogs, restarts, queue bound and failing
saves: `AdviceSound` (`MCSpec => []AdviceIsFollowed`). Assumption: `WritesAssumption` (nil is
no call, entry or job; the bounds are naturals). `WInv` follows one call: its tags are those of its
decision (`TagsInv`); between guard and completion it is in `guard` under the catalog of the
decision, so that no publication comes between, and its journal is prepared before the fact
is there (`WriteInv`); a shadow call is pending before it is queued and has one job
(`ShadowInv`, `QueueInv`); `EntryInv` and `BookInv` say what a journal entry tells about the
fact; `AskInv` that an answer under way is still what the journal says. `PendingHasAJob`
speaks of references that a client holds; it is inductive only together with the calls
that are about to hand out theirs.

### Documents

`Documents_proofs` proves, for any contents, numbers of chunks, searches and runs,
`TypeCorrect` and `PublicationSound` (`Spec => []PublicationIsSound`) under the hypothesis
`OneIndexer`: the indexers are one process. That is what `reindexMu` gives in the server, and what
an operator gives who runs the command while the server does not index; with two the property
fails (see Findings). `RunInv` says what a run knows: until it removes something, what it saw in its
snapshot is still there, and all else is of its own generation; `StoreInv` that sealed
generations are complete and were sealed at different times; `PublishedInv` and `SearchInv` that
the newest sealed generation was made from a content that the observers allow. A search
is safe because the newest of those it found is at least as new as what was newest when it began.

`FoldersSound` (`MCSpec => []FoldersFollow`), for any files, folders, runs, faults and edits:
`Steady` says which folders have the summary of what the index holds, `NoGhost` which have
none, `Seen` what the walk has brought up to date, `AllMet` that a run knows of whatever the
index holds, `Cautious` that only a walk above the threshold removes. A run's health is a
conclusion from all of them, and not of any step.

`InventorySound` (`MCSpec => []InventoryIsSound`), for any requests, pages, time limits and
writes: `FlightInv` (the scan that runs is that of the refresh in flight, and whoever owns it
has not begun it twice), `PastInv` (pages only change forward), and one fact about each
place an inventory passes through: the scan, the cache, the answer (`ScanInv`, `CacheInv`,
`GivenInv`), each as old as the sum of the limits before it allows.

### Point IDs

`OperatorTools_proofs` proves for any IDs, facts, assignment of facts to IDs and number of
runs: `TypeCorrect`, `FactsAreNeverLost` (`Spec => []NoFactIsLost`) and `RunsSettle` (`Spec =>
[]CompleteRunsSettle`). Assumption: `TargetAssumption`. `PlannedIsUniform` is the heart: a
group that is planned has one fact, because a contested one blocks its own members; `ScanInv`
says that the scan is still true except for points that the run removed, and `MoveInv` that a
deletion happens only while the target has the fact. The definition of `Blocked` as the least
set lets this be proved without an induction. For `RunsSettle`, `RunInv` keeps while nobody else writes
that the groups passed are as moved (`AsMoved`) and the others as scanned; a collection in which
every planned group is moved has no plan (`SettledHasNoPlan`), because a
move joins no two groups.

### Grouping

`OperatorTools_proofs` proves for any manifest, journals, runs, crashes and changes between
runs: `GroupingSound` (`MCSpec => []GroupingIsTrue`). Assumption: `GroupingAssumption` (there
is a change; nil is no operation, fact or journal). `SuccessIsTrue` needs `Progress`: the
changes a run has passed and settled are in place, which stays so because no one else
writes during the run. That nothing open is sent again needs `InMemory` (the run knows
what its journal knows of open writes, and the journal is what the run announced) and
`MaySend`. `ErrorIsSafe` and `RecordIsTrue` are the two ways in which a step saves the
journal, each used by several actions.

### Embedding

`OperatorTools_proofs` proves for any processes, models, points, starts, crashes and writes:
`IdentityIsTrue` (`MCSpec => []VectorsMatchIdentity`) and `AcceptedIsExact` (`MCSpec =>
AcceptedCopyIsExact`, an action property). Assumption: `LegacyAssumption` (source and target
are two collections; nil is no model, vector or manifest; the legacy model is a model). The initial states leave
out two processes that find one empty collection (see `EmbeddingSpace`). `SourceInv` and
`TargetInv` say of each collection whose vectors it may hold before and after it has an
identity, `ProcInv` that whoever serves has confirmed the identity of what it writes to, `JobInv` what the
migration has copied and compared; a write that comes between comparison and acceptance
changes what the second look at the source sees.

### Maintenance commands

`OperatorTools_proofs` proves for any facts, analyses, commands, interruptions, crashes,
failing calls and writes of the server: `CommandsSound` (`MCSpec => []CommandsAreTrue`, the
conjunction of `ReportIsTrue`, `HiddenWasReviewed` and `MigrationIsOnRecord`). Assumption:
`MaintenanceAssumption` (bounds are naturals; an absent or "active" status is no batch, nil no
payload and no file). `ReportIsTrue` speaks of the end of a command; `ToldInv` says of every point in every
state that what is reported of it so far is so, and of the point between write and
verification that it is as the command wrote it unless the server wrote it too.
`HiddenInv` adds to `HiddenWasReviewed` that the batch of a hidden fact is on disk.
`CommandInv` says that the points still to visit are "pending", that only eligible facts are
written, and that a migration never converts a point its manifest does not list.
`MigrationIsOnRecord` is inductive with it (`RecordKept`): a command converts listed points
only, and the server takes the migration's lifecycle only from a fact that has it, so the
manifest is there, to an ID that is then in `carried`. The theorem claims nothing of the
IDs in `carried`.

### Installer

`OperatorTools_proofs` proves for any artifacts, sets, operations, edits, failing steps and
crashes: `BundleSound` (`MCSpec => []BundleIsWhole`, the conjunction of `AllOrNothing`,
`UserWordsKept` and `LastUpdateCanBeUndone`). Assumption: `InstallerAssumption` (there is an
artifact, each is of one of the two kinds; sets are positive numbers). The operation rests on
one fact about its own backup: `PlanInv` orders plan, backup and file by what the user may
have made of each (`Later`), so a file that is found as planned is in the backup as planned;
an install that reaches its state has therefore a backup of an installation (`BackupFits`).
`StateInv` carries the way back through pruning: `state.tx`, and what it would fall back to,
is loadable or was brought back by a rollback. `RaceInv` compares the words of file, backup
and what was written last; `CleanInv` says which files already belong to which set. All of
them need `PlaceInv`, the operation's place.

### Catalog

`Catalog_proofs` proves for any projects, contents, reasons, operation IDs and snapshots,
with a crash or a failing or half-done write at every step:

| Theorem | States |
|---|---|
| `CatalogTyped` | `MCSpec => []TypeOK` |
| `ReceiptsSound` | `MCSpec => []ReceiptsAreTrue` |
| `RestoreSound` | `MCSpec => []RestoreIsProtected` |
| `PointerSound` | `MCSpec => PointerObeysRules` (an action property) |

Assumptions: `BoundsAssumption` (the bounds are naturals) and `NoneAssumption` (nil is no
description, project or reason). What became of an operation is told from the pointer and
the policy files alone, so the invariant says that they tell it: `PastInv`, the snapshots
above the active one are exactly those whose publication was carried out, a policy has reached
the revision of every change that was, and for an operation without a receipt "it happened" and "it was
carried out" are the same. That this stays so when the pointer moves needs `OpsInv` (an operation
on the tree is known by its target, and starts at the parent of it) and `TreeInv` (snapshots are made on
what is there). `OpenInv` says how little a call may leave without a receipt when it goes on,
which is why nothing that was told can be untold by the next step; `TargetInv`, `CallInv` and
`PolicyInv` say what a call carries in each place, and of a restoration that its hold is
applied before its publication begins. Ancestry is the least set that is closed under
parents, so that what a new snapshot changes about it (`AncPart`, `AncSame`, `AncChild`) needs no
induction. `VersionsExplained` draws from all this that every version on offer can be
restored and explained, the exception in the findings aside. The invariant was checked with
TLC on the instance of the run before it was proved.

### Assessments

`Catalog_proofs` also proves, for any people, verdicts, entries, revisions, stops of the
server, failing writes and changes of the catalog: `AssessmentsSound` (`MCSpec =>
[]AssessmentsAreKept`). Assumption: `ReviewsAssumption` (the bound is a natural; nil and a torn file
are no request and differ; nil is no client and no page). `FileInv` says that there is at most one file beyond
the head, and that it follows the head if it can be read; `LockInv` ties the lock to who is between reading
the head and the answer, and says whose file that is; `SeenInv` that nobody expects a
revision that does not exist yet, so that a conflict always has something to show.
`HolderStep` is the one way in which a save touches the disk.

### Sweeps

`AiSweeps_proofs` proves for any facts, projects, words, page and run sizes, and any number
of changes, faults and publications (the catalog and the facts are the parts of
`MCAiSweeps`):

| Theorem | States |
|---|---|
| `SeenIsProposed` | `MCSpec => []SeenWasProposed` |
| `FactsArePublishedCurrent` | `MCSpec => PublishedOnCurrentFacts` |
| `CatalogStaysKept` | `MCSpec => []CatalogIsKept` |
| `AnswersArePaidOnce` | `MCSpec => PaidOnce` |

Assumptions: `SweepAssumption`, `FactsAssumption`.

A fact the state file marks as seen was told to the provider in the version it is marked
with (`SeenIsTold`), and this must hold already of what a run in progress is about to
record (`RecordIsTold`): the proposals are written before the state file, so a crash in
between repeats work and never skips it. A fact that is reported gone was missed by a whole
sweep that found it deleted (`MissesAreDeleted`); `SweepGoesOn` and `RunGoesOn` say that
the cursor belongs to the sweep whose facts are counted. A publication is checked against the facts
as they were sent (`SentIsKnown`), in the step that publishes.

For the catalog the invariant is that whatever is kept rests on words it can name
(`KeptOK`: every text, receipt, projection and imported card), and that every place of a
run prepares the next (`RunOK`: the selection, the answer in hand, the projection to publish).
A card whose words are the model's has the owner's card remembered behind it, in its projection, which
is what lets the sweep return to it and a restoration be held.

`PaidOnce` relates runs that never meet: one that died with its answer kept, and the next, which
asks. The invariant therefore speaks of what a run that began *now* would find: the owner's card
behind each live one (`Owner`), which cards are of unknown origin, which are stale, which would be
chosen, and the question (`Question`). `RunIsCurrent` says that a run under which nothing was changed knows
just that; `AnswersAreFound` that a project whose answer is kept is either processed or
among the next to be asked about, and then a receipt for the question is found. The work is to show
that no step of a run changes what the next would find: not the import of receipts (`SelectOwners`), a new
receipt (`KeepOwners`), what is remembered before a publication (`ProjectPaid`), nor the publication itself,
which names the same owners' cards under other descriptions (`PublishOwners`); and that the
cursor saved before the request moves at most over cards that are passed again
(`DispatchRepeats`, from `Rotation`: in the cyclic order of the keys, cards that follow the new
cursor follow each other as before). That is where the condition `SameQuestion` is needed, and the
finding `ReceiptIsFound` is what happens without it. TLC checked the invariant
on the instance of the run, and with three projects and two per run, before it was proved.

### Only model-checked

* Liveness (`WorkerExits`, `ShutdownReleases`, `DocumentsAnswered`, `SweepsFinish`), which
  this prover cannot do, and the property of the violation run, which does not hold.

Every invariant that a run checks is also a theorem.

## 5. Not modelled

* Applying a timed-out write *later*: a write of unknown outcome takes effect at once
  or never. The client cannot exclude the third case, and the code does not try.
* Writers in other processes during `purge` and the migrations: excluded by
  `--confirm-server-stopped` and its like. Quarantine, restore and the embedding migration,
  which check for such writers, are modelled with them.
* Scores: embeddings, lexical search, the fusion of lists and reranking by a model
  (`internal/retrieval`, `internal/rerank`) are pure arithmetic on floating-point numbers,
  and no tool of the server calls them: `blendedSearch` is called by tests, `Rank` and
  `FuseRankedLists` otherwise by the evaluation tools.
  The order that presentation imposes on the result is in `FactReads`.
* HTTP clients of embedding backends and of Qdrant: their calls are steps that may fail.
* Access (`internal/accessauth`, `internal/oauth`, `internal/middleware`): per-request checks.
* `aiShadowRead`, prompts, decoding of the provider's answers and the content rules for
  proposals, which appear as accepted or not; the shadow shapes of runs.
* `internal/rag/migration.go`, legacy chunks and hierarchical retrieval.
* Loading, rendering and validating an integration bundle, and the inventory of
  predecessors; the Todoist bridge; the tools for evaluation and conformance; the pages of
  the dashboard that list runs and drafts, with their pagination.
* In the context catalog: update proposals and the binding of legacy cards in
  `EnsureProject`; `SetProjectPolicy` and `HistoricalOnly`, which only tests use;
  `CurrentEntryHash` of a policy, which nothing reads (so that the second policy write
  of `Restore` changes nothing the model has); the shared lock of readers; a loss of
  power that undoes a completed rename. Maintenance of scope `facts_and_catalog`
  publishes with `Publish` and no policy guard (`worker.go:922`); the review page offers
  holds only in scope `catalog_only`.

## 6. Plan

Done, in this order: cache and its abstract specification, counter, serving,
mutations, purge, RAG publication, catalog; then the AI service, the operator's tools, the
reading tools and the dashboard, folder summaries, reviews; proofs of cache, counter,
serving, mutations with their freedom from deadlock, purge, budget, run records, AI of the
writes, documents, folders, inventory, point IDs, grouping, embedding, maintenance commands,
installer, catalog, assessments, the sweeps, the reading tools and the views of the dashboard.

Next:

1. An abstract specification of the catalog, "an operation happens at most once, and
   under the policy it was admitted with", implemented by `CatalogOperations`.
2. `rag/migration.go` and legacy chunks; rank fusion over bounded integers against a
   reference definition.
3. `AiWrites` and `FactMutations` in one instance, for the stripes that a guarded store
   holds while the catalog is read.
