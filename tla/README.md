# kremory in TLA+

Specifications, model checks and proofs for kremory's core: the embedded,
bi-temporal knowledge graph in `src/crates/kremory`. Paths below are relative to
`src/crates/kremory/src/` unless they start with `src/`.

## 1. The system

A caller *remembers* text (an episode is stored, entities and facts are extracted
by NER and LLMs), the graph *dreams* (merges duplicate entities, retypes them, finds
communities, supersedes and archives facts), and the caller *recalls* by search.
Everything is in one libSQL database, reached by every task of the process through
one connection. Destructive mutations of the graph write a snapshot to
`graph_mutation_log` and can be undone by id.

### Inventory

| Component | State | Operations | What is hard | What makes it correct |
|---|---|---|---|---|
| Write serialiser, `core/schema.rs` | `write_lock`, `transaction_owner`, `has_outer_transaction`, the engine's transaction | `begin_immediate_if_needed`, `BeginGuard::{commit, rollback, drop}`, nesting by the owner | tasks sharing a connection, cancelled futures, COMMIT that fails, statements with no guard, crash | a transaction is one writer's; acknowledged is durable; aborted never is; nobody waits for ever |
| Merge executor, `core/canonicalization/mod.rs` | `entities`, `facts`, `episodic_edges` | `apply_merge_with_audit`, `snapshot_merge_pre_state` | merges that share an entity, collapsed facts, colliding edges | no dangling id, no live self-loop, a snapshot that is enough |
| Provenance, `core/dream/provenance` | `graph_mutation_log`, `facts_archive`, `merge_nogood`, all of the graph | `unmerge`, `edit_entity`, `delete_entity`, `delete_fact` and their undos; `undo_fact_archive`, `undo_fact_supersede` | reversals in any order, after anything | undo gives the graph back; no fact is lost |
| Fact store, `core/graph` | `facts` and its partial unique index | `insert_fact_with_group`, `invalidate_fact*` | read, await, write by id; stale hashes | an invalidation stays |
| Communities, `core/dream/consolidation/communities.rs` | `entity_communities` | full recompute | un-guarded statements | reversals restore memberships |
| Supersession and archive, `core/dream/consolidation`, `facade/supersede.rs` | `valid_to`, `expired_at`, `facts_archive`, the log | `supersede`, window close-out with the bulk-invalidation interlock, archive sweep, undo by the log and by the fact | read outside the transaction, select outside the transaction, undo in three or four statements, crash between them | what is archived had lapsed and can be found in the log; a bound can be undone; a closed window is expired |
| Background ingestor, `core/background` | work channel, depth counter, deferred queue, batch tracker, stop flag | `send`, `send_batched`, `worker_loop`, `IngestGuard::drop` | senders racing the worker, two ways to shut down, a failing phase | counter never wraps, one report per outcome, shutting down ends, no batch hangs |
| Verify stage and checkpoints, `core/background/verify_stage.rs`, `core/dream/consistency_check/verify.rs`, `core/dream/idempotency.rs` | `episode_processing_status`, `dream_idempotency_keys`, `op_checkpoints`, the entity rows | extract, ask the LLM, write each entity (row, full text, edge, key), facts, start after a stop | every statement durable by itself, any of them failing, crash between two, row ids used again, edits by callers during an LLM call | an episode told ready is ready; what is skipped had been written; a status never goes back; every queued episode ends |
| Engine graph handle, `memory/engine_handle.rs`, `memory/background_ingestor_handle.rs` | `ingest_runs`, `ingest_claim`, `ingest_abort`, `batch_status` | ingest in a task or inline, `graph_cancel`, `get_ingest_status`, `graph_batch_status` | a task racing its own cancel, two maps written one after the other | the end of a run is counted once and stands; a batch reads as done after its runs do |
| Migrations, `core/migrations` | the tables themselves: there is no schema version | the whole list at every open, each gated by the shape of the tables | crash between any two statements of a rebuild | no row lost; opening again gets there; an applied list is a no-op |
| Ingest pipeline, `core/ingest/pipeline` | the graph | ingest, deferred ingest, contradiction check | LLM calls between a read and a write, an episode stored long before what is derived from it | what was read as unexpired may not be; nothing is written for an episode that is gone |
| Dream scheduler, `memory/scheduler.rs`, `memory/dream_phase.rs` | next due time, stop signal | one loop that awaits each pass | stop between passes | passes do not overlap |
| Namespace policy and forget, `core/graph/namespace.rs`, `facade/namespaces.rs`, `facade/forget.rs` | `namespaces`, the policy cache, all tables | ensure, register, upgrade, cached read, forget by source or of a namespace | a cache filled in two steps, candidates read outside the transaction that deletes, ingests under way, tables that refer to each other | a promised policy stands; forgetting a source leaves what others mention; what is erased stays so |
| Extraction, providers, recall, scoring, bindings | none that matters here | | | |

The components meet in four places. Every write goes through the serialiser
(the transaction of a mutation is a single step of the graph module because of
what is proved about the serialiser), or past it, as a statement that is durable by
itself: the verify stage, the migrations and the undo by the log are such, and are
modelled statement by statement. The gate and the candidates of a forget, and the
episode of an ingest, are such too. Every pass that changes the graph does so
through the merge executor, the provenance operations or the fact store. The
background ingestor decides when ingest runs, and reports to a sink. The routed handle
reads the ingestor's batches and falls back on the engine handle's.

## 2. Modules

| Module | What it is |
|---|---|
| `SerialStore` | what the write path promises: batches of statements become durable whole, one at a time |
| `TxnGuard`, `TxnGuardProofs` | the write serialiser in detail, which implements `SerialStore` |
| `GraphOps` | the graph as a record, and each mutation, its snapshot and its reversal as operators |
| `GraphMutations`, `GraphMutationsProofs` | the transitions: mutations, reversals in any order, and what reads in one transaction and writes in another |
| `BackgroundIngest`, `BackgroundIngestProofs` | senders, worker, batch tracker and shutdown |
| `Enrichment`, `EnrichmentProofs` | what becomes of an episode after it is queued: Phase 1, verify stage, facts, statement by statement |
| `FactLifecycle`, `FactLifecycleProofs` | how a fact is bounded, expired, archived and brought back |
| `EngineHandle`, `EngineHandleProofs` | runs, cancels and batches of the in-process handle |
| `Namespaces`, `NamespacesProofs` | policies and their cache, and forget beside ingest |
| `Migrations`, `MigrationsProofs` | opening a store of any earlier release, statement by statement |
| `MCTxnGuard`, `MCGraphMutations`, `MCBackgroundIngest`, `MCEnrichment`, `MCFactLifecycle`, `MCEngineHandle`, `MCMigrations`, `MCNamespaces` | instances for TLC |

Operators whose comment begins with "Mutation:" are deliberately wrong variants of the
definition that follows them. No specification uses them; putting one in place of the
right definition shows that a property would notice.

### TxnGuard

Variables: `pc`, `depth`, `queue` and `lock` are the callers and the tokio mutex
`write_lock` (first in, first out, as tokio documents); `owner` and `outer` are
`transaction_owner` and `has_outer_transaction`; `sqlTxn`, `pending`, `durable` are the
engine; `batch`, `issued`, `acked`, `aborted` say which statement was issued by whom and
what its caller was told. A statement is just its issuer and its number.

| Action | Code |
|---|---|
| `Request`, `Acquire`, `AcquireBeginFails`, `CancelWaiting` | `begin_immediate_if_needed` past the owner check: wait for the lock, BEGIN, return by `?` when BEGIN fails, or be dropped in the queue |
| `Nest`, `EndNested` | the owner begins again; its guard does nothing at its end |
| `Join`, `JoinedCommit`, `JoinedRollback` | a sibling future of the owner's task (`join!`), taken for the owner |
| `Write`, `BareWrite` | a statement inside a guard, and one without |
| `CommitOk`, `CommitFails`, `Rollback` | `BeginGuard::commit`, `::rollback`; `dispatched` is set before COMMIT is awaited, so a failed COMMIT is followed by no ROLLBACK |
| `DropGuard`, `DeferredRollback`, `DropGuardNoRuntime` | `Drop`: the lock moves into a spawned task that issues ROLLBACK; without a runtime nothing is issued |
| `Crash` | the process ends; SQLite rolls back |

The owner is recorded by `WriterId`, the tokio task (or thread). BEGIN follows the
lock in one step: between the two awaits there is no other await in the function.
The FTS dirty flag (`flush_if_dirty`) is left out: it is a cache that commit rebuilds
and no property is about search.

### GraphOps and GraphMutations

A graph has `ent`, `live` (facts), `arch` (facts_archive), `edges` (episodic_edges),
`comm` (entity_communities) and `nogood` (merge_nogood). A row has the columns some
mutation reads or writes: endpoints, `content_hash` (computed at insertion from the
endpoints, and never again), `expired_at` with who stamped it, `corroboration_inert`,
the type and the access count; the rest is `props`. One namespace is modelled: every
statement involved is scoped by `group_id`, except the duplicate check.

Each mutation is three operators: its snapshot (`MergeSnapshot`), its graph (`MergeOf`)
and its guard (`Mergeable`), and so is each reversal. `GraphMutations` composes them
with a log: `Merge`, `Rename`, `Retype`, `DeleteEntity`, `DeleteFact`, and `Unmerge`,
`UndoRename`, `UndoRetype`, `UndoDeleteEntity`, `UndoDeleteFact` of any entry that is not
undone, in any order. A step is one committed transaction. An error return rolls the
transaction back and is no step. `ReadUnexpired` and `InvalidateFact` are the two halves
of the contradiction check and of the alias resolver, which have no guard around them.
`base` is history: the graph that the entities and facts ingest adds would have made
alone, without any mutation.
`StartPass` is `load_merge_nogoods`. `DetectCommunities` may leave any part of a new
partition, since its statements are not in one transaction; how the partition is found
is not modelled.

Mutations, reversals and passes take foreign keys as not enforced (`edit.rs:25-34` says
the runtime does not turn them on): enforcing them would only refuse more. Ingest does not
depend on it: `AddFact` has both endpoints among the entities, as ingest stores them
before the fact. `Namespaces` takes the keys as enforced,
which is what `facade/forget.rs:271-283` has seen, and the harder case there. Which pair a
pass merges, and which fact it finds contradicted, is arbitrary.

### BackgroundIngest

`sender` is where each request is inside `enqueue_req` (registered under the tracker's
mutex, counted, accepted or refused), `chan` the bounded channel, `queued` the depth
counter, `tracker` the map from batch to `BatchProgress`; `mode`, `at`, `cur` and
`deferred` are the program counter and the locals of `worker_loop`; `handles` and `stop`
are the two ways of shutting down. Actions are the atomic steps of the code: `Register`,
`Count`, `Accept`/`Refuse` (try_send), `CheckStop`, `Take`, `Subtract`, `Phase1Ok`,
`Phase1Fails`, `Idle`, `TakeDeferred`, `Phase2`, `Disconnected`, `Interrupt`, `Closed`,
`Exit`. A caller outside any batch whose text is done with or was refused sends another,
for ever (`SendAgain`). `Phase2` and the count of its outcome are one step: the tracker entry is only
changed elsewhere by `Register`, under the same mutex. What a phase writes is left out;
it succeeds or fails. `DeferredEnabled = FALSE` skips Phase 2; the runs have it on.
Checkpoint rows, the rate limit and the error channel change nothing here.

### Enrichment

The database is `status` (`episode_processing_status`), `ent` (a row id, a type and its
source for each entity), `keys` (`dream_idempotency_keys`: row id, name and type, which
is what is hashed), `edges` and `cursor` (`op_checkpoints`). The worker is `at` and the
locals of `process_deferred` and `stage3_write`. What an observer has seen is history:
`told` (the sink's events), `announced` and `repeats` (`on_entity_extracted`), `indexed`,
`skipped`, `removed`. The row of a name counts as indexed once it has been through
`Link`, which is the full-text row and the edge.

| Action | Code |
|---|---|
| `Phase1` | store the episode, `Pending`, tell the sink, queue it |
| `Begin`, `MarkExtracting`, `Fail` | `process_deferred` takes it; the status column, then the sink; a failed stage |
| `Extract`, `Verify` | candidates; their row ids, `-1` for one without; the LLM's answers matched back by row id, corrections written by row id, without a look at who set the type |
| `InsertEntity`, `CheckKey`, `Link`, `RecordKey` | `stage3_write` for one candidate: upsert, Guard #1, full text and edge, key; a failed edge is passed over and the key is recorded |
| `MarkVerified`, `Facts` | the column, then the sink; fact extraction, which runs after a failed stage too; the checkpoint row at every `CHECKPOINT_INTERVAL` |
| `End`, `Restart` | the process ends, in the middle (a crash) or at rest; `worker_loop` reports the last cursor and queues nothing |
| `Pin`, `Remove` | a caller's retype, which drops the keys of the row; `batch_forget` of an entity, which keeps them |

No transaction spans the stage: each statement is an action, and each may fail (`Faults`).
What extraction finds (`Mentions`) is a parameter and the LLM's answers are arbitrary.
One namespace, one spelling per name; the rate limit is left out.

### FactLifecycle

`facts` and `archived` are the two tables, `log` the supersede and archive rows of
`graph_mutation_log`, `call` what each caller is in the middle of, `sweep` the candidates
of the archive pass and the one it let through, `doubted` what ingest has read and is
asking its detector about, `now` a clock. History: `overlapped`, the facts on which two
calls overlapped or one was cut off, and `rewritten`, those whose expiry was written while
a sweep had them selected. The code keeps neither apart, so the properties exempt them.

| Action | Code |
|---|---|
| `ReadFact`, `Supersede` | `supersede`: reads the prior bound, then bounds and logs in a transaction |
| `WindowCloseout` | expires what has lapsed, unless the interlock (`Allowed`, floor and quarter) refuses |
| `SelectCandidates`, `CheckCandidate`, `MoveFact` | the archive sweep: select past the grace period, skip what would strand an entity, move and log in a transaction |
| `ReadEntry`, `CheckLatest`, `WriteBack`, `RestoreEntry`, `Stamp` | `undo_fact_supersede` and `undo_fact_archive`, statement by statement; the stamp of `undone_at` comes last and alone |
| `RestoreArchived`, `Unsupersede` | undo by the fact, in one transaction |
| `InsertFact`, `Doubt`, `Contradict` | ingest, and the detector's read, await, write |
| `Tick`, `Crash` | time; the end of the process |

### EngineHandle

`caller`, `task`, `canceller` are where `graph_ingest_episode`, the spawned task and
`graph_cancel` are for each run; `ingest_runs`, `ingest_claim`, `ingest_abort` and
`batch_status` are the maps. `Register` is one step, though it writes three maps: nobody
can name the run before it is spawned, and there is no await in between. `Spawn` and
`KeepAbortHandle` are two: the handle is stored when the task may be anywhere. The task is
`Start`, `IngestReturns`, `Claim`, `Record`, `Count`, `Cleanup`; the cancel is `Cancel`
(taking the claim), `CancelAborts`, `CancelRecords`, `CancelCounts`. `Dropped` is an abort
taking effect: before the first poll or at the await, nowhere after it. An inline call is
`InlineIngests`, `InlineCounts`, `InlineReturns`: it counts before it writes the status
column. `column` is that status column, which `get_ingest_status` falls back on; no property
is about it alone. What ingest does is left out: it returns Ok or Err.

### Namespaces

`db` is what a statement sees (the policies `row`, `eps`, `ents`, `edges`, `facts`),
`durable` what a rollback goes back to, `txn` the call whose transaction is open. `cache`
is `NamespacePolicyCache`; `read`, `cand` and `doomed` are the locals of a forget. History:
`promised`, `early`, `late` and `overtaken` for policies (`promised` is what the last Ok of
a registration, of a new row or of one that has the policy already, or of an upgrade has
answered), `kept` and `erased` for rows.

| Action | Code |
|---|---|
| `Ensure` | `ensure_namespace_policy_row`, with which ingest and forget begin |
| `Hit`, `Miss`, `Put` | `get_namespace_policy_cached`: peek; read the row; put what was read, after an await |
| `ListSource`, `ListNamespace`, `Count` | the candidates of a forget and, for one source, what pins each: a statement each, outside the transaction |
| `Delete` | BEGIN, `batch_forget`, then facts, edges and episodes by episode |
| `Insert`, `Persist` | the episode, stored by a statement of its own; after the extraction, stubs, entities, edges and facts in one transaction |
| `Register`, `RegisterRefused`, `Upgrade`, `Invalidate` | `register_namespace`, `upgrade_namespace_policy`; the cache entry goes after COMMIT |
| `Commit`, `Rollback` | the end of a transaction; a statement that fails is a `Rollback` |
| `Evict`, `Crash` | the cache at its limit; the end of the process |

Transactions are exclusive (`TxnGuard`), and only what is outside one can fall between the
statements of another: the reads of another forget, and `Insert`. They see and join the
open transaction. The model lets them do so before the transaction or when all its
statements are executed: of each name, a reader in the middle sees the edges of before or
of after, and an episode stored in the middle goes with the cascade or with its rollback.
A COMMIT that fails with the transaction left open is in `TxnGuard`. The row id of a
rolled-back episode is not given to another. `forget` of one entity, registration with a
type seed and full-text shadow rows are left out, and so is the same gate in front of
`dream` and `supersede`. Of a policy only its immutability is ever enforced, and
`OtherPolicies` stand for the rest.

### Migrations

`db` has every table as its rows and the features of its shape that some gate or statement
depends on; `filled` the columns whose backfill has run; `objects` the vector indexes and
the trigger; `at` the next statement. History: `start`, `settled`, and `gaps`, the
places from which no later open recovers and in which the process did end. A rebuild
(004, 006, 013, 023) is one set of actions, `Backup`, `CreateScratch`, `CopyRows`,
`CheckScratch`, `ClearScratch`, `Recopy`, `DropLive`, `RenameScratch`, with the tables
each migration uses given by `Live`, `Scratch`, `Bak`, and its gate by an action of its
own (`Gate004`, `Gate006`, `Gate013`, `Gate023`); `GateColumn`, `AddColumn`,
`Backfill` are 008, 011, 012 and 015a; `GateFts`, `DropFts`, `CreateFts`, `FillFts` are
027; `LegacyRename`, `PrefixDrop`, `RenameFts`, `BaseDdl`, `UniqueEdges`, `DropLabel` and
`CheckIntegrity` the rest. `Stop` may come before any statement; an error of a statement
ends the open as a stop before it would. A store that is opened first is one that a release
left whose own list had run to its end: `Released` says what all such stores have in
common, and `InitialDbs` is any set of them. A store whose last open, by an earlier release,
was cut off is not among them; the ends of the process here are all of this release's opens.
The late snapshot of 023 (`defs_j.rs:411-425`) is left out: in these stores its scratch table
is never without the snapshot, which is made before it.

## 3. Runs

| Run | Instance | Question |
|---|---|---|
| `TxnGuard.cfg` | three writers in tasks of their own, two statements each, nesting once, COMMIT may fail, guards may be dropped anywhere, one restart | `WritesIsolated`, `AckedDurable`, `AbortedNeverDurable`, and that `SerialStore` is implemented |
| `TxnGuardLive.cfg` | three writers, two of them in one task, an un-guarded actor, COMMIT that succeeds | `ConnectionUsable`, and `WaitersServed` under fairness |
| `GraphMerges.cfg` | three entities, two facts, two episodes, three starting graphs, three mutations, facts and entities added between | merges alone: `AllUndoneRestores`, `EndpointsSound` |
| `GraphEdits.cfg` | a chain of three entities, two types, two mutations of any kind with expiries and community passes between | `MergeUndoExact`, `EditUndoExact`, `DeleteUndoExact`, `OneHome`, `FactsNeverLost` |
| `BackgroundIngest.cfg` | four senders (two of one batch, one of another, one of none that sends for ever), a channel of two, both ways of shutting down, Phase 1 and 2 may fail | `DepthNeverWraps`, `NeverEarly`, `OutcomesAccounted`, `GracefulExit`, `JoinReturns`, `AcceptedServed` |
| `Enrichment.cfg` | two episodes that share an entity, the LLM in the loop, every step may fail, one end of the process, one pin or removal by a caller | `ReadyMeansIndexed`, `SkippedWasIndexed`, `StatusForward` |
| `EnrichmentLive.cfg` | three episodes, one that mentions an entity twice; extraction, edges and facts may fail; one end of the process | `AnnouncedOnce`, `Reported`, `Settles` |
| `FactLifecycle.cfg` | a fact that may be stated again by the dream pass, a caller who goes by the log, others who go by the fact, two bounds, a clock of three, one crash | `ArchivedIsListed`, `ArchivedLapsed`, `BoundIsListed`, `WindowsClose` |
| `EngineHandle.cfg` | two runs in tasks, cancels anywhere, an inline call and one that skips, in one batch | `CountedOnce`, `DoneMeansEnded`, `VerdictStands`, `BatchesEnd` |
| `Namespaces.cfg` | two namespaces, an ingest in each that share a name and a fact, one without a source; a forget by source and one of the namespace, a registration, an upgrade, one crash | `AppendOnlyStands`, `SharedKept`, `ErasureStands` |
| `Migrations.cfg` | a fresh store and six that earlier releases left, two ends of the process anywhere | `Recoverable`, `Kept`, `NoOp`, `Opens` |
| `MigrationsFacts.cfg` | the same stores, one end of the process | violated: `FactsKept` |

Type invariants (`TypeOK`) are proved, in a module of their own for each component
(`IInv` of `Enrichment` has the types it needs), and in no run. `MutualExclusion` and `Atomicity` of `TxnGuard` are proved and in no
run: `WritesIsolated` and `Implements` fail where they would.

**Bounds.** `MaxStmts`, `MaxDepth`, `MaxCrashes` (TxnGuard): three writers with two
statements each are enough for one's statement to be in the middle of the other's
transaction while a third waits; one level of nesting is as good as more, since a nested
guard does nothing. `MaxLog` (GraphMutations) counts mutations; reversals are not bounded,
as a mutation is undone once. Three merges are the shortest chain with one merge that
shares no entity with the first, and three entities leave one that is in neither side of a
merge. In `GraphEdits` the exactness properties apply one more mutation and its reversal
to every graph reached, so two logged mutations stand for three. `Capacity` 2 with four
senders fills the channel. `MaxStops` and `MaxEdits` (Enrichment): one of each, so that an
edit can fall before a crash or after it; two episodes with a common name are what Guard
#1 is about. `MaxTime` 2 with `Grace` 1 is the shortest clock on which a fact can be
expired, past its grace and re-opened after; `MaxLog` 2 (FactLifecycle) lets one supersede
be undone under another, and an archive entry be followed by a second for the same fact;
`Worked` keeps callers and ingest to one of the two facts, the other one being there for
the unique index to refuse. Instances checked besides, with the same result: two callers
without a crash (4.5 million states), and `MaxLog` 3 with `MaxTime` 1 (9.4 million); for
`GraphMerges`, four entities, so that two merges can be disjoint (165 045 states). Two
forgets of different scope, with an ingest in the namespace and one outside (Namespaces),
are the fewest calls with which one forget runs between the listing and the deletion of
another while an ingest of what is erased is under way; a third name or source adds no way
for two calls to meet. `MaxStops` 2 (Migrations): the second end may fall into what the
open after the first finds. No run uses symmetry: the starting states are not symmetric,
and the liveness runs forbid it.

**Deadlock.** `Migrations.cfg` and `MigrationsFacts.cfg` check it. The others do not: with
their bounds every system there comes to a legitimate stop (statements, log, calls or
requests are used up, every call has returned). Getting stuck is what `WaitersServed`,
`JoinReturns`, `AcceptedServed`, `Reported`, `Settles` and `BatchesEnd` are about.

**Fairness.** `TxnGuard`: a waiter at the head of a free lock is woken (tokio's mutex
is fair), a guard's holder finishes or is dropped, and the spawned ROLLBACK is run by
the runtime. `BackgroundIngest` and `Enrichment`: the worker is a thread that keeps
running, and its phases return because their LLM calls time out. `EngineHandle`: the
runtime polls every task, ingest returns, and neither a submission that has begun nor a
cancel that has the claim awaits anything. `Migrations`: an open that has begun goes on, and
the owner of the store opens it again. `FactLifecycle`: the consolidation runs again and
again. Senders, callers, cancels, shutdowns and crashes are never assumed to happen.

**What is exempted, and why.** `ReadyMeansIndexed` and `SkippedWasIndexed` exempt names a
caller has removed; `AnnouncedOnce` is about faults other than of entity and key
statements; `BoundIsListed` exempts facts on which two calls overlapped or one was cut
off, `ArchivedLapsed` those re-written under a sweep; `AllUndoneRestores` the flag
`corroboration_inert` of facts that two merges without a common entity have both
re-pointed (`Crossed`); `WindowsClose` the passes the
interlock refuses; `AcceptedServed` and `JoinReturns` traffic that never pauses (`Overrun`:
the worker takes texts from the channel for ever and never again finds it empty for
100 ms); `AppendOnlyStands` the namespaces in which an upgrade came between a
reader's look at the row and its write to the cache, and forgets that begin after a
registration was answered for by the row of an upgrade that has committed, and before
that upgrade drops the cache entry; `SharedKept` is about mentions that
are there when a forget lists its candidates, and facts whose subject their own episode
mentions; `Kept` and `Opens` the ends in `GapSteps`, and
`Recoverable` the one of them between DROP and RENAME of 013. In each case the code does not do
better, and the last list of this section says what it does.

**What the violated run shows.** `MigrationsFacts`: `migrate_006` takes any `facts_new` for
a complete one (`core/migrations/defs_h.rs:173-178`). A process that ends between its CREATE
and its INSERT leaves it empty, and the next open drops `facts` and puts it in its place; the
facts are left in `facts_bak_006` only. `defs_h.rs:19-23` says that each resume compares
the scratch table with that snapshot and repopulates it before the swap.

**Seen while modelling.** Behaviours of the code that the modules have, or that follow
from the lines named, and that no run is about:

- `commit()` sets `dispatched` before it awaits COMMIT (`core/schema.rs:297`). If COMMIT
  fails and the engine keeps the transaction, nothing rolls it back and every later BEGIN
  fails, against `schema.rs:514`. `ConnectionUsable` is checked where COMMIT succeeds.
- The statements of `undo_fact_archive` and `undo_fact_supersede` that no guard covers
  (`reversal.rs:618`) are executed inside whatever transaction is open and rolled back with
  it; `schema.rs:413` says "Acquired first on every write path".
- A rename onto an id that an archived or expired fact still names, undone, moves that
  endpoint too (`edit.rs:930`; `edit.rs:33`: "reverses precisely").
- An unmerge revives a fact that was read as unexpired, collapsed by the merge and then
  stamped as contradicted (`reversal.rs:339`; `:331-333` relies on a filter).
- A Phase 1 failure is counted nowhere and a worker that leaves because the channel is
  closed makes no interrupted report (`deferred_pipeline.rs:141`): such a batch is never
  reported, though `ingestor.rs:237` says the terminal event always fires. A refused
  request stays in its batch's total. The queue of deferred work is in memory, and after a
  crash nobody queues it again; `op_checkpoints` rows are never deleted, so that a start
  after a clean stop reports a crash too (`:718`).
- Deferred work is popped only when `recv_timeout` has waited 100 ms for nothing
  (`deferred_pipeline.rs:832`, `:854`): traffic with shorter gaps starves what has been
  accepted for ever, and the deferred queue, which has no bound, grows. Nor does the drain
  after the stop flag end (`:806`) while handles that are left keep the channel filled, so
  that dropping the guard does not return. Without `Overrun` TLC finds both in the instance
  of the run: there the traffic that does not end is of one caller whose texts fail in
  Phase 1. A stop abandons what is deferred (`:805`), where `ingestor.rs:335-337` says that
  after the join "all outstanding work has been processed".
- All candidates without a row have the row id -1, and the LLM's answers are matched by
  row id: the last of them gets each answer (`verify.rs:118`, `:428-429`). A correction
  overwrites a type a caller has pinned (`consistency_check/audit.rs:200`). A failed edge
  is passed over and the key recorded (`verify_stage.rs:379`, `:405`). `batch_forget`
  keeps the keys of what it removes, and SQLite may give the row id to another entity,
  which Guard #1 then skips (`queries.rs:514-600`, `verify_stage.rs:290`).
- Two supersessions of one fact that overlap log the same prior bound
  (`facade/supersede.rs:160`); `undo_fact_supersede` decides by value whether it is the
  latest (`reversal.rs:814`) and writes the prior `expired_at` over a later contradiction
  (`:826`). A superseded fact that a dream pass derived is never closed out, and a
  supersede that finds no row logs one all the same.
- The archive sweep moves a fact that was re-opened after it was selected
  (`archive.rs:117`). Once more than a quarter of the live facts have lapsed, the
  interlock refuses every sweep from then on.
- Two merges that share no entity do not chain (`reversal.rs:512-526`), and yet may both
  re-point one fact, one at each end. Each has noted the fact's `corroboration_inert` as it
  found it; undone in the order they were made, the second gives back what the first had
  set, and the flag is wrong for good. `reversal.rs:263-265` and
  `core/canonicalization/mod.rs:221-223` speak of a byte-identical restore.
- The gaps of the migrations: after the rename of 004 or 006 and before what belongs
  to it, between an ALTER and its backfill (008, 011, 015a; also the group columns of 004,
  `defs_a.rs:373-414`, where 006 takes 'default' for an edge's that was not filled, `defs_h.rs:437-442`, and
  the fact's own group for a fact's; their values are not modelled), between the CREATE and the
  fill of a full-text table, and between DROP and RENAME of 013. 023 drops the audit
  cascade trigger until the next open (`defs_j.rs:540`) and renumbers the row ids that
  idempotency keys refer to.
- On a multi-threaded runtime a task may remove its abort handle before the submitter has
  stored it (`engine_handle.rs:404`, `:412`; the comment at `:407` says this is
  eliminated). The handle is kept for ever, harmlessly: a cancel goes by the claim. An
  inline call counts for its batch before it writes the status column. A run id from
  before a restart reads as Complete (`:592`), and a panic inside ingest leaves its run
  Extracting with the claim in place.
- The last outcome of a batch is counted and the batch taken out of the tracker under one
  lock (`deferred_pipeline.rs:1091-1118`), so no poll sees a finished batch there;
  `background_ingestor_handle.rs:380` falls back on the engine handle's map, which answers
  zero of zero: done, whatever failed. `memory/mod.rs:205-207` says that `await_batch`
  "Returns the final `BatchStatus`".
- A forget that has read Mutable puts it into the cache after an upgrade has dropped the
  entry (`core/graph/namespace.rs:150-152`), and until eviction or a restart every forget is
  let through; `:159` says "subsequent reads reflect the new AppendOnly policy", and
  `core/schema.rs:98` places the drop inside the transaction. Conversely, a row read inside an
  upgrade that is then rolled back leaves AppendOnly in the cache.
- Between an upgrade's COMMIT and its drop of the cache entry (`facade/namespaces.rs:306-308`)
  a registration with AppendOnly finds the row and answers Ok (`:75`); a forget that begins
  after that answer hits the old entry and is let through.
- `batch_forget` deletes by name in every namespace (`queries.rs:541-580`): forgetting a
  namespace takes the entities, facts and edges of the same name elsewhere, where
  `forget.rs:444` speaks of "an entity pinned by another namespace". Only a forget by source
  counts what pins a name.
- A subject that is only a forward reference gets a stub and no edge
  (`ingest_with.rs:1348-1354`), so nothing pins it: forgetting another source that mentions
  the name takes the stub and its facts, against `forget.rs:289` ("facts from OTHER sources
  about the same subject are untouched"). A fact that two sources state is stored once, with
  the first, and goes with it. Mentions added between the count and the deletion are lost.
- An ingest under way when its episode is erased leaves the entities it extracted; its edges
  and facts fail their foreign keys. An episode stored inside another call's transaction is
  rolled back with it.
- Nogood pairs are kept by names, and read once per pass: a rename evades one, and an
  unmerge during a pass is not seen. The loser's `entity_communities` row outlives a
  merge. `content_hash` is never computed again after a merge or rename.

## 4. Proofs

`TxnGuardProofs` proves, for all writers, tasks and bounds: `TypeCorrect`; and
`MutualExclusion` with un-guarded statements and shared tasks allowed. Under
`SeparateTasks` (no un-guarded statement, no two writers in one task) it proves
`Isolation`, `Durability`, `NoStowaway`,
`Atomicity` and `Refinement`. The argument is the inductive invariant `IInv`. `Exclusion`
alone does not give `WritesIsolated`: it has to be known also that a writer outside has
no statements under way and that an engine without a transaction has none pending
(`NothingLeftBehind`), that an owner is recorded only while that task is inside
(`OwnerIsInside`, or a writer could join), and for the durable and aborted sets to stay
apart, that statement numbers are fresh (`Numbered`) and that what is under way was not
answered for (`UnderWay`). The refinement maps the variables of `SerialStore` to the
variables of the same name; each step that makes statements durable is a `SerialStore`
commit of one batch, all others stutter or abort. `EngineNeverStuck` proves
`ConnectionUsable` where COMMIT succeeds and a guard is dropped inside a runtime, with
un-guarded statements and shared tasks.

`BackgroundIngestProofs` proves `TypeCorrect` and `DepthSound`: the depth counter never
goes below zero. `DepthNeverWraps` is not inductive, since `Accept` puts a request on the
channel and leaves the counter alone; the invariant `DepthAccounted` adds the senders that
have counted and not yet sent. It holds for any finite set of requests, any capacity and
both ways of shutting down. So do the other three. `ClosingDrainCompletes` rests on
`Located`: a request under way is in exactly one place, on the channel, deferred or with
the worker, and once the handles are gone nobody is inside `enqueue_req`, so a worker that
finds both queues empty has nothing left to do. `NeverReportedEarly` and `NoOutcomeLost`
need each other: that the entry of a batch is still in the tracker when a Phase 2 of it
ends is `NeverEarly`, without which the outcome would be counted nowhere, and that an entry
waits for as many requests as are under way for its batch is what `NeverEarly` needs.
`Accounts` is the two together. All five hold with callers that send for ever.

`GraphMutationsProofs` proves, for all ids, facts, episodes, types and starting graphs,
with every operation and reversal in any order: `TypeCorrect`, `OneHomeAlways`,
`NothingLost`, and the three round trips `MergeRoundTrips`, `EditRoundTrips` and
`DeleteRoundTrips`. The inductive invariant is `IndInv`, `TypeOK` with `OneHome`. It has
to carry the unique index (`HashUnique`, a part of `TypeOK`), because a reversal is only
certain to be accepted if the graph it gives back satisfies the index, and the shape of
every log row, because reversals take their rows from the log. There is one lemma for each
operation: the graph it produces is a graph, keeps or weakens the index (`Weaker`), and
loses no fact (`Kept`). The round trips are lemmas about `GraphOps` alone, field by field
(`MergeRoundTrip`: endpoints, flags and expiry of each fact; edges that collided and edges
that moved; the two entity rows), applied to the reachable graphs through the invariant.
They need no bound on the history: `IndInv` is all that is known of the graph.

Two theorems there are about histories of merges, undone in any order that the LIFO guard
admits. `EndpointsHold` proves `EndpointsSound` where no rename and no deletion is among the
mutations. That nothing dangles now does not say what an unmerge will bring back: it
re-points the facts its snapshot lists, wherever they are by then. `Threads` says that, for
each fact and each column, the standing merges that list it lead from the entity of the
unmerged graph to the one it names now, each from its loser to its keeper and the next
from there; the LIFO guard makes sure that an unmerge cuts a thread only at its end.
`LoopsAtOneEnd` is needed because the unmerge also revives what the merge made a self-loop.
`UndoneRestores` proves `AllUndoneRestores` where merges are the only mutations. `History`
adds to the threads what each column of a row needs to come back: a fact's expiry and its
flag are those of the unmerged graph but for the merges that list it (`Expired`; `Flagged`:
the first standing reader of the flag holds the original), and each entity, whether it is
there or in the snapshot of the merge that took it away, has what it began with and what
the standing merges into it have brought (`Gathered`: the first reader of the access count
holds the original, and what they moved is disjoint). Once a loser's name has been taken by
ingest, or merged away a second time, the first merge is refused its reversal, so that the
log is never all undone: that is `Stuck`, and the other disjunct of the invariant.

`EnrichmentProofs` proves `ReadyMeansIndexedAlways`, `SkipsAreSafe` and
`StatusMovesForward` for any episodes, mentions, faults, crashes and edits. That an episode
told ready has its entities indexed is known at the last candidate only if all before it
were dealt with, and one that was skipped was dealt with only if every key in the table is
of a name that was: `Written` says how far `stage3_write` has got at each of its steps, and
that of the keys, which outlive the process, and `Lined` that what waits in the queue has
neither been told ready nor left `Pending`. The invariant is `IInv`. `AnnouncedOnceACrash`
proves `AnnouncedOnce` with `OnceInv`: what a crash costs is counted before it is paid, as
announcements whose key is not recorded yet (`Lost`), at most one for each crash.

`FactLifecycleProofs` proves `TypeCorrect`, `ArchiveListed` and `OnlyLapsedArchived` for
any facts, callers, bounds and times. `ArchivedIsListed` is not inductive because the undo
stamps its entry after the restore, and in between a sweep may have moved the fact again:
`StampsLeaveOne` says that whoever is about to stamp leaves a later entry standing,
`InFlight` that the entry it has read is about its fact, and `CandidatesLapsed` carries what
the sweep saw when it selected. `BoundListed` proves `BoundIsListed`, which is not inductive
either: undoing the last supersede brings back a bound that was set earlier, and whose own
entry may have been undone for another of the same value. `Accounted` counts instead: of the
standing entries of a fact, those that set a bound are at least those that set it aside and
the row that has it now. `Alone` and `Undisturbed` say that, for a fact on which no calls
overlapped, what a call has read still holds when it writes.

`EngineHandleProofs` proves `EndsCountedOnce`, `DoneIsFinal`, `EndStands` and
`TypeCorrect` for any finite set of background calls. `CountedOnce` is an equation between
a counter and the cardinality of the runs still to be counted; it is inductive with
`RunInv`, one statement for each run: the claim is in the map until one of task and cancel
takes it (`Unclaimed`), at most one of them has it (`OneRecorder`), and who has it writes
the status before the counter, after which nobody writes it (`StatusFirst`). There is one
lemma for the types, one for the runs, and one for the equation, which adds or takes one
run from the set.

`NamespacesProofs` proves `TypeCorrect`, `PromisesStand`, `OthersKept` and `ErasedForGood`
for any namespaces, names, facts, sources and calls. The inductive invariant is `IInv`.
`Serial` ties the open transaction to its owner, and says that the rows differ from the
durable ones only while there is one. `PoliciesHold` follows a policy from the statement
that writes it (`Written`) through the table (`RowKept`), the promise (`Promised`) and the
cache (`Observed`) to the gate (`Gated`): a promise of AppendOnly is only worth something
if no cached or read policy is older. Where one is, an upgrade has still to drop it
(`Closing`) or has overtaken a reader, which is what the property exempts. A registration
whose row is there already is answered for like the first, so that `RowKept` has to say
which upgrade wrote a row that is not durable yet. `Sound` is that no row refers to one that is gone
(`Referential`), in both copies, and that a fact is of an episode that states it.
`Erasing` says what a forget with an open transaction has left out. `Planned`, with
`Outside`, is the heart of `SharedKept`: a name that is doomed has, of what was there at
the listing, nothing left that another episode mentions, although ingests and other
forgets run in between.

`MigrationsProofs` proves `MigrationTypes`, `NothingLost`, `AppliedIsNoOp` and `OpenKeeps`
for any rows, any released stores and any number of ends of the process. There is one lemma
for the effect of each action, and four invariants, each on top of the one before.
`Sound` and `Shaped` are about the tables: which stand at which statement (`Standing`,
`ScratchThere`, `FtsThere`), and that each table has the shape of the last migration that
has passed it (`ScratchShapes`, `EntityShapes`, `OtherShapes`). `Recoverable` is not
inductive. A DROP loses nothing only if the scratch table or the snapshot has the rows, and
at a resumed rebuild that depends on which migration made the scratch table, and on how far
an open before it had come. `RecInv` says where the entities can be (`EntitiesSafe`): under
their old name (`OldHome`), in the table itself (`Home`), in a snapshot that the resumed
004 or 023 will fill the scratch table from (`Kept004`, `Resumed004`, `In023`), or, between
DROP and RENAME of 013, in its scratch table alone (`Only013`), which the next open's 004
finds under its own scratch table's name and completes if it has a snapshot to go by; and
the same for facts, edges and labels. `NoOp` rests on `SettledInv`: after a successful open
the tables are `Final`, and every gate finds what it looks for. `Kept` needs all that was
stored and nothing besides, in the table itself. While no gap has been hit, `KeptInv` lists
the forms in which the entities can be at each statement (`KeptOld`, `KeptNow`, `KeptBy004`,
`KeptBy013`, `KeptBy023`) with equality of rows in place of inclusion; so also for facts and
edges (`FactsBy006`, `EdgesBy006`), for the full-text tables (`FtsKept`) and the columns
(`ColumnsKept`). The indexes are a separate part (`IndexKept`), since 023 makes them anew
whether or not a gap was hit. Each was checked with TLC for three ends before it was proved.

Assumptions are those the modules name: `TxnAssumption`, `IngestAssumption`,
`GraphAssumption`, `MutationAssumption` (what an earlier ingest may have left: typed rows,
the unique index, and no fact both live and archived), `EnrichmentAssumption`,
`LifecycleAssumption`, `HandleAssumption`, `NamespaceAssumption` (the namespace, source
and scope of a call are fixed, and calls of different kinds are different),
`MigrationAssumption` (finitely many rows, in stores that are `Released`), and, where
stated, `SeparateTasks`, `KeysStay` (no rename, no deletion), `OnlyMerges`, and
`AnchoredStart` (no starting graph has a dangling id or a live self-loop).

**Model-checked only.** Liveness under fairness and ENABLED are out of the prover's reach:
`WaitersServed`, `JoinReturns`, `AcceptedServed`, `Reported`, `Settles`, `WindowsClose`,
`BatchesEnd`, `Opens`. So is that `FactsKept` of `Migrations` fails. Every safety property
that a passing run checks is proved.

## 5. Not modelled

Left out for good: extraction, prompts and parsing, providers, embeddings, recall and
scoring (floating point heuristics that only read), label propagation, how pairs of
duplicates are found and adjudicated (any pair may be chosen), the bindings,
`speculative_cache.rs` (nothing outside its tests calls it), `submit_dream` and the
consolidation calls of the engine handle (not implemented in the code). Metrics, tracing
and the full-text dirty flag are left out of every module.

Of the migrations, those that only add a table or a column (005, 007, 010, 014, 016, 018
to 022, 024 to 026), the entity-type seeds, the emergency downgrades (012b, 014c, 015b)
and `MigrationRunner`, which nothing calls; also errors of CREATE INDEX. The facts half of
023 and its branches that ensure an index never fire on the way forward.

The dream scheduler is one loop that awaits each pass and is stopped between passes: it
has no state that passes could overlap on. What a pass writes is in `GraphMutations`
and `FactLifecycle`.

Next, if the project is carried on:

1. The supersession pass and cross-episode consolidation, as callers of `FactLifecycle`
   that read, ask an LLM and write.
2. The type registry, with retypes and seeds.
3. Stores whose last open by an earlier release was cut off, as starts of `Migrations`.

Known hazards and the properties that cover them are in `PROJECT.json` under `hazards`.
