# MerkurDB in TLA+

MerkurDB is a memory server for LLM agents: an axum HTTP server over SQLite (or
LanceDB) with a vector index, a background *consolidation* tick that lets an LLM
summarise, link and adjudicate new memories, and a background *forgetting* tick
that demotes, archives and finally deletes them. This directory holds TLA+
specifications of its logic, TLC configurations that check them on small
instances, and TLAPS proofs of the properties that matter most.

    tlc  -workers 2 -config MCGovernanceAlone.cfg MCGovernance.tla    # a run
    tlapm GovernanceProofs.tla                                        # proofs

`PROJECT.json` lists the components, the runs, the lines every definition is
translated from, the mutants that show each property can fail, the hazards and the
theorems.

## 1. The system

Paths are relative to `src/crates/`.

| Component | State | Operations | Talks to | Hard because |
|---|---|---|---|---|
| Consolidation tick (`server/src/scheduler.rs`) | none of its own; a snapshot of a batch, the LLM's report, the verdicts, all local to a tick | `run_consolidation_once`: list pending, LLM, persist abstracts / importance / edges, mark, fetch embeddings, gather verdicts (4 at a time), execute | storage, LLM consolidator; run by the scheduler **and** by `POST /v1/consolidate` with no lock | every call awaits and may fail; everything it knows is stale when it writes; two ticks overlap; a client hang-up cuts one off |
| Forgetting tick (same file, `forgetters/src/ebbinghaus.rs`) | none; decisions on a batch | list by `accessed_at`, decide by decayed weight, write levels, delete archived, purge invalidated | storage; `POST /v1/forget` | two windows over different timestamps of one row, each refreshed by other writers; hysteresis; a LIMIT |
| SQLite storage (`storage/src/sqlite.rs`, `sqlite_helpers.rs`) | tables memories, tags, edges, FTS; the vector index in memory | insert, insert with dedup, update, invalidate, delete, purge, searches, listings, expansion | blocking thread pool, connection pool, index | a commit and its index correction are two steps with an await between; a search reads the index, then the rows |
| Vector index (`storage/src/vector_index.rs`) | parallel arrays of ids, vectors, norms and a map of positions, under an RwLock | upsert, swap-removal, rebuild, bounded-heap search | – | arrays and map re-pointed together; cached norms; ties and limits |
| Connection pool (`sqlite_helpers.rs`) | ten connections, each with its pragmas | taken by every storage call, a second one by reads with tags | SQLite, blocking threads | readers hold one connection while they wait for another; row and tags are read at two instants |
| LanceDB storage (`storage/src/lancedb.rs`) | a Lance table of vectors beside SQLite, a flag for one index builder | the same trait: insert with rollback, dedup, update, delete, purge, search, `spawn_index_builder` | both stores | no common transaction; a rollback may fail; ids are quoted into filters; an index makes a probe partial |
| Migration (`storage/src/migration.rs`) | schema version, tables, columns, triggers | versioned steps at start, each one transaction | SQLite; a second process (`mcp/src/main.rs`) | half-migrated databases of earlier releases; the version is read outside the steps' transactions |
| Handlers (`server/src/handlers/*`) | none | write, batch write, PUT, DELETE, search, context, graph, relate, listing, triggers | storage, embedder | check-then-act over awaits; futures dropped when a client leaves |
| Fusion (`core/src/search_fusion.rs`) | none | reciprocal rank fusion, composite scores, MMR dedup, greedy packing, hydration | storage | numeric edges; hydration by id, without the search's filters |
| Graph (`sqlite_helpers.rs`, `handlers/trigger.rs`) | edges | `bfs_expand`, relate, relate_batch | storage | LIMIT before duplicates are dropped; check-then-insert |
| LLM consolidator (`consolidators/src/llm.rs`) | none | `consolidate`, `adjudicate` | an LLM over HTTP | answers are arbitrary; ids not of the batch are filtered |
| Evaluation harness (`eval/src/runner.rs`, `main.rs`, `recall.rs`) | checkpoints, results | ingest, recall, qa, pm-run with checkpoints and drains | the server over HTTP | contexts replayed side by side against a server that consolidates late; what a question may see |
| Embedders, config, auth, rate limit, client SDK, CLI, MCP tools | – | – | – | pure I/O, parsing and wiring |

What makes the parts correct, in the order of weight:

* **Governance.** The LLM may only propose. No memory leaves the pending queue
  without an abstract; no memory is hidden without two signals; a memory that
  is given up has its content in the one that absorbs it; buckets (namespaces)
  never mix; an invalidation or a deletion is never undone by stale work.
* **Retention.** What is archived or invalidated stays for its window and goes
  after it; levels do not oscillate; all that is not used is forgotten.
* **Storage.** The index holds the vectors of the rows; a search of a small
  bucket is exact though the index is global; a read never shows half a memory;
  every call returns.
* **Index.** It is a map, and its search finds the top k.
* **Two stores.** What was acknowledged with an embedding can be found; what is
  there without having been acknowledged is accounted for.
* **Retrieval.** What is served was live and of the caller's bucket; a page is
  full when the table can fill it; only what is served counts as demand; a digest
  loses a memory only to its budget or to a near duplicate.
* **Migration.** The recorded version is never ahead of the schema; every
  database boots at last.
* **Evaluation.** No question is answered from its future; no message is written
  twice; the totals add up.

## 2. Modules

| Module | Models | Proved in |
|---|---|---|
| `Embeddings` | ids and vectors, the constants `VectorIndex` and `VectorStore` share | |
| `TopK` | the best n of a set by score: "ORDER BY score LIMIT n" with ties open | |
| `Lifecycle` | abstract: what may become of a memory, statement by statement; `Governance` and `Retention` refine it | `GovernanceProofs`, `RetentionProofs` |
| `VectorMap` | abstract index: a map from ids to vectors with Put and Drop | |
| `VectorIndex` | `Inner` of `vector_index.rs`: arrays, swap-removal, heap search; refines `VectorMap` | `VectorStoreProofs` |
| `VectorStore` | `SqliteStorage`: the memories table beside the index, request by request, await by await | `VectorStoreProofs` |
| `DualStore` | `LanceDbStorage`: SQLite beside the Lance table, and the index builder | `DualStoreProofs` |
| `Pool` | the connection pool, the statements of a call on it, the listing and its pager | `PoolProofs` |
| `Migration` | the opening of a database by several processes | `MigrationProofs` |
| `Governance` | `run_consolidation_once` beside clients, archiving and a second tick | `GovernanceProofs` |
| `Retention` | `run_forgetting_once` and `EbbinghausForgetter::decide` beside clients, a second tick and time | `RetentionProofs` |
| `Fusion` | the arithmetic of `search_fusion.rs` as operators | `RetrievalProofs` |
| `Expansion` | `bfs_expand` as operators | `RetrievalProofs` |
| `Retrieval` | search in its three modes, context, graph, relate and relate_batch; composes `Fusion` and `Expansion` | `RetrievalProofs` |
| `Replay` | the four evaluation commands against a server | `ReplayProofs` |
| `MC*` | constants for TLC: cosines, buckets, curves, requests, symmetry | |

The layers compose by interface. `VectorStore` uses the index as the map that
`VectorIndex` is shown to implement, and its probe answers what the search of the
arrays answers (`ProbeIsIndexSearch`); `Retrieval` uses the exact vector search that
`VectorStore` checks; `Governance` and `Retention` both implement
`Lifecycle`, and `Retrieval` assumes it, and no more, of the writers beside it
(`SetStatus` takes any change of `Lifecycle!After`). All three use a storage call
as one atomic statement, and `VectorStore`, `DualStore` and `Pool` are where a call
is taken apart: into commit, await and correction of the index, into two stores,
and into the connections it holds.

### Governance

A tick `t` is a program counter `pc[t]` and the locals of the Rust function,
indexed by `t`; the tables are `rows` and `edges`. **An action is one awaited
call with the bookkeeping up to the next await**: that is where tokio may run
somebody else.

| Actions | Code (`scheduler.rs`) |
|---|---|
| `ListPending`, `ReadPending` | `list_pending`: ids by one SELECT, then the rows one by one, without the filter |
| `Consolidate` | the LLM's report: any abstracts, importance and edges over ids of the batch (`llm.rs` drops the others) |
| `UpdateAbstract`, `UpdateImportance`, `InsertEdge` | 107–143; each may fail; importance only for what was persisted. The two maps and the edge list are taken in any order |
| `MarkConsolidated` | 145–150, by id |
| `GetEmbeddings` | 163–173; a failure ends the tick's adjudication |
| `Gather` | one search and one LLM answer, up to `Concurrency` in flight, in any order |
| `Skip`, `Absorb`, `InvalidateAbsorbed`, `InvalidateLoser` | 232–344, in pending order; UPDATE is two statements |
| `Return`, `Abort` | the end; the process killed or the HTTP future dropped at any await |
| `Insert`, `Put`, `Delete`, `SetLevel` | a client, the forgetting tick: it archives, or raises what another one archived |

`ok` is the storage call's result. A content stands for a text; the embedding of
a row is the content it was computed from, and so is an abstract. Statement
helpers (`WithContent`, `WithInvalid`, `WithMarked`, …) carry the WHERE clauses,
which is where the properties live.

### VectorStore

Callers are requests in flight. `Insert`, `Update`, `Delete` and the purge commit
on the blocking pool (`Committed`), then `Correct` or `Unindex` fixes the index.
`dropped` says that the client hung up while the statement ran: the statement
commits, the rest never runs. `Search` and `InsertDedup` loop `Probe`, `Fetch`,
`Deepen` as `vector_search_ns` does and end in `Return`, `Noop` or an insert.
`Encode` is the handler's embedding, before the store is touched. `GiveUp` is a
future dropped between two calls, `Restart` a new process that rebuilds the index
from the embedding column. Hiding (archiving, invalidation, the age a purge needs)
is `Retire`, a promotion that lands on a row another tick has archived `Raise`. Two history variables serve the properties: `raced`, ids whose index
entry two operations contended for, and `undisturbed`, callers that saw no change
since their probe.

### Retention

Timestamps are ages that `Pass` increases up to `MaxAge`; `idle`, `still` and
`invalid` are the ages of `accessed_at`, `updated_at` and `invalid_at`. A listed
row is judged by its age at the tick's `now`, or as new when it was accessed since
(the code clamps a negative difference at 0). `List` takes the longest idle first,
up to the LIMIT, ties open; `Read` is `get_memory` followed by `decide`; `Apply` is
`update_level`, by id; then the two deletes. The weight is a table over ages and
access counts, scaled to whole numbers: the properties need only that it decays
and where the thresholds lie. `archived_for` and `fallen` are history.

### VectorIndex

Arrays are functions on `1..size` (the code counts from 0), `index_of` is the
map. Its operations have names of their own (`IndexInit`, `IndexNext`, `IndexSpec`,
`SearchIndex`), so that one module can extend it beside `VectorStore`. `Rebuilt` loads them at start. `Heap` is the bounded min-heap as a set; the
order of its ties is the code's: score, then position. Vectors have whole-number
norms and cosines are scaled, so that `cosine_similarity` is exact enough for the
comparison; NaN is out of the model.

### DualStore

One caller is a request or a tick: `at` is the await it stands at, `job` the
operation, the other functions its locals. `Insert` and `InsertDedup` draw the id,
`CommitRow` is the SQLite transaction, `OpenTable` is `get_table`, `AddVector` the
append to Lance, `Rollback` the compensating DELETE after a failed append.
`Update`, `Delete` and `Purge` commit in SQLite and then `Unlink` by a filter on the
quoted ids; `QuoteAccepts` is `quote_id_strict`, over the characters an id has.
`Search` loops `Candidates`, `FetchRows` as `vector_search_ns` does. The builder is a
task of its own: `Count`, `CreateIndex`, `BuildFails`, under the flag `building`.
`SetStatus` is what ticks do to a row, in SQLite alone.
`CallFails`, `HangUp`, `HangUpCommitting` and `Restart` are the failures. What Lance
answers is external: exact without an index, a part of the table with one.
History: `fate`, how the insert of each id ended, and `undisturbed`.

### Pool

`held` has the connections of each caller in the order it took them. A call goes
`TakeFirst`, its statements, `TakeSecond`, `ReadTags`, and `TimeOut` is r2d2's
`connection_timeout`, which can only strike while no connection is free. A
transaction is `InsertRow` (the write lock) and `CommitRow`; `Busy` is SQLite's own
timeout. The browser's `walk` is the pager of `server/ui/app.js`: it asks for a page,
shows it and moves on while there is more. History in `walk`: `gained`, `lost` and
`split` say what others did to the listing meanwhile. Ten connections are two here:
what matters is that readers can hold them all.

### Migration

`Init` is every database the program meets: new, of any old version, or left by the
migrator of earlier releases with the first k statements of a step (`Partial`).
`CreateBase`, `ReadVersion` and `MigrateStep` are the start of a process; a step and
its version are one transaction, so `Stop` strikes between steps. A ready process
writes (`Insert`, `UpdateContent`, `Delete`) through whatever triggers the schema has,
while another may still be migrating. `unhealed` remembers rows of a database that
was left between the column `valid_at` and its backfill.

### Retrieval, Fusion, Expansion

One request runs await by await (`VectorSearch`, `TextSearch`, `Fuse`, `Hydrate`,
`Expand`, `Serve` or `Assemble`, `RecordAccess`, `Edges`; `Validate`, `Exists`,
`InsertEdge` for relations), while `SetStatus`, `Delete` and `Link` are the writes of
others between any two of its calls. Scores are whole numbers over one denominator,
chosen so that every fraction of the code is exact: ranks divide `Unit`, edge weights
are in halves. Where the code leaves ties open, or SQL does, the model takes every
order. `graph` says how often an edge is served: `include_graph` lists it under both of
its ends (`search.rs:203–218`), `get_graph` once. History: `down` (channels that failed), `shown` (what was retrievable at some
moment of the request), `quiet` (nobody wrote).

### Replay

A unit is a conversation or a context; `phase` is where `pm_run_context` (or the
loop of another command) stands, `asked` where each question is. `WriteChunk` is a
`write_batch`: the server may refuse any item without failing the request.
`DrainEnds`, `Poll` and `GiveUpDrain` are `drain_consolidation`. `stored` has the rows of
each bucket that are valid, with the message each was written for (`id`), the message
its content is now (`text`), whether it has an abstract, and its pending flag. The
server's tick, which may also never come, is `Consolidate` (it lists rows, saves some
abstracts, and marks what it saved or fails to), then for each memory it listed `Keep`,
`Absorb` or `Invalidate`, in any order and beside all that the harness does. `Absorb` is
the pair of `scheduler.rs:262–268`: `update_memory` gives the target the content of the
listing and makes it pending again (`sqlite.rs:316`), and the invalidation after it may
fail. Which verdict is given is left open; `Governance` has the rules for it. A tick is
posted by nobody here, so there is one at a time. `Ask`, `Succeeds` and `Fails` run up to `Jobs`
questions, with the retries of `search_with_retry` and `chat_with_retry`; `Collect`
awaits them all. `Report` is what `main` prints. `BucketsDiffer` is an assumption on
the data: `main.rs:408` names a bucket after 16 characters of a context's id, and two
contexts that agree in them would share one.

## 3. Runs

Bounds named in the configurations: `MaxWrites` (calls by others), `MaxTicks`
(ticks begun), `MaxAbstracts` and `MaxProposals` (size of an LLM report), `MaxOps`
and `MaxCalls` (operations begun), `MaxFaults`, `MaxFailures`, `MaxStops`, `MaxAge`,
`MaxCount`, `MaxTime` (distinct creation times), `MaxSize` (entries loaded when the
index is built), `Budget` and `Attempts` (polls and tries, both of the code). All
configurations have CHECK_DEADLOCK FALSE: the bounds end every behaviour, and a
server with no caller has nothing to do.

| Run | Instance | What it shows |
|---|---|---|
| `vector_index` | 4 ids, 4 vectors (unit, 3-4-5, zero, opposite) | the operations are the map's (`ImplementsMap`), the heap returns the top k for every limit up to size + 1 (`SearchIsTopK`). Four ids make first, middle, last and only position different |
| `tick_alone` | 3 memories in two buckets, chunks of one, batch of 2, one proposed edge, one tick, every call failing, cut off anywhere | `AbsorbedAfterCopied`: no call order or failure gives up a memory before its content stands in the target; `AbsorptionStaysInBucket`; `ConsolidatedHasAbstract`; `CallsRunOut`: a tick has a number of calls left that only shrinks; `TickReturns`. Nobody else writes here: a client may legitimately rewrite the target between the two statements |
| `two_ticks` | 3 memories in two buckets, 2 contents below the floor of each other, 2 ticks of one memory each, 2 client calls | `KeepsLifecycle` (the refinement) and `InvalidationHasEvidence` with both ticks holding old snapshots of the same rows. A PUT may move a candidate across the floor after the search. Each part of the evidence can fail here: the floor (`ClearsBelow`, a score taken for a distance), the bucket (`SearchableAnywhere`) and the other row (`IsAnyHit`) each end in a counterexample |
| `store` | 3 ids in two buckets, 2 vectors, 2 callers, 2 operations of any kind, hang-ups, restarts, hiding and raising at any time | `IndexAgrees`: index and column part only for an id two operations contended for or a dropped request left behind; `SearchIsExact`: a bucket of one row behind the other bucket's vectors is still searched whole. One operation against one other is where an interleaving of commits and corrections differs |
| `search_returns` | same rows, one vector, search, dedup and PUT | `SearchReturns`: the deepening loop ends though the index changes under it; `DeepeningIsBounded`: it goes on only from a depth the memories can fill, and twice as deep |
| `forgetting` | 2 ids, LIMIT 1, ages 0..3, one tick again and again, 2 calls by others, 1 failure | `KeepsLifecycle` (the refinement): a level decided on an old listing revives nothing; `ArchiveIsGranted`: never archived and deleted by one tick, however old the row was; `RisesOnlyOnDemand`: hysteresis; `EventuallyForgotten`: the LIMIT hides no row for ever |
| `lance` | 3 ids in two buckets, 2 callers, 2 operations, 1 failure, hang-up or restart | `AcknowledgedHasVector` and `RowsAccountedFor`: what the two stores owe an insert, whatever fails; `SearchIsExact` behind the vectors that stay for good; `FlagReleased`: the one builder's flag, on every path |
| `retrieval` | 5 ids, one of a foreign bucket, one without an embedding, an archived or invalid one; 23 requests; 1 write of others, 1 failure | `ServedWasRetrievable`, `PageFull`, `DemandIsServed`, `DualChannelWins`, `DigestSound`, `ExpansionIsReach` (against reachability by sets instead of paths), `RelateAccounts`. One write is enough to make any one read stale |
| `startup` | 2 processes, 3 stops, 3 writes, databases of every version and every half step | `VersionIsEarned` although a second process writes a lower version over a higher one; `IndexedOnce` although backfills meet triggers; `BootsAtLast` |
| `pool` | 2 connections, a browser and 2 other callers, 3 ids, pages of 1, 4 calls | `TagsAreWhole` and `NoOrphans`; `WalkIsExact`: which changes may make a walk over the pages skip or repeat a row, and that nothing else does; `CallsReturn`, by way of the timeout, when readers hold every connection |
| `replay` | 3 units, one not in the file, started in a fixed order, 4 questions, chunks of 1, 2 contexts and 2 questions at a time, ticks that list one row each | `NoFutureLeakage`, although the server copies content between rows; `WrittenOnce`; `AbstractedOrLate`: with a drain that ended on an empty queue no question meets a memory that was never consolidated, whatever other contexts write and the server absorbs meanwhile; `AccountsAddUp`, `RunEnds`. A tick that lists one row still overlaps everything else, for its verdict may come at any later time |

Three memories, two of them in one bucket, and two calls by others are enough for the
tick's races because every property relates one row, its target and at most two other
writers, and batches of two run in `tick_alone`; the theorems of section 4 lift the
bounds for those that matter most. What the three runs of `Governance` leave out is an
older abstract on newer content: no property forbids it, for the code does not.

That every call on the two stores returns, the deepening search among them, is checked
on a smaller instance, `tlc -config MCDualStoreReturns.cfg MCDualStore.tla`
(`CallsReturn`).

One run expects a violation, of what the code's comments say:

| Run | Says | Does |
|---|---|---|
| `lance_quote` (`VectorsFollowRows`) | `lancedb.rs:278–280`: ids that do not match the generated `mem_<uuid>` shape are refused; `:748–750`: the Lance side keeps a vector until the retention purge removes it | the rule looks at the prefix too, whose `m` is no hex digit: every generated id is refused, a delete or purge answers BadRequest after its rows are gone, and their vectors stay |

Further disagreements between the code and what the repository says of it, each
stated in its module, with a configuration that ends in its counterexample:

| Command | Says | Does |
|---|---|---|
| `tlc -config MCGovernanceSerial.cfg MCGovernance.tla` (`AbsorbsIntoLiveRow`) | `scheduler.rs:160–162`, `:232`: execution is serial, "exactly as a serial loop would", so verdicts cannot race on a target | verdicts are gathered from one state: two pending near duplicates are absorbed into each other, the second into a row the first invalidated, and both leave retrieval |
| `tlc -config MCGovernanceDrain.cfg MCGovernance.tla` (`DrainedMeansSettled`) | `eval/src/runner.rs:491–492`: the pending count clears only after adjudication ran | it clears before adjudication starts |
| `tlc -config MCReplaySettled.cfg MCReplay.tla` (`SettledOrLate`) | the same comment: when the count is 0, extraction and adjudication have settled, so a checkpoint's answers see the fully processed state | the drain ends in the middle of a tick, whose absorption then makes a row of the same bucket pending while its questions are asked; what the drain does give is `AbstractedOrLate` |
| `tlc -config MCVectorStoreNoop.cfg MCVectorStore.tla` (`NoopHoldsDuplicate`) | `sqlite_helpers.rs:853`: governance must never lose a write | two PUTs correct the index in the other order than they committed; a later write is NOOPed onto the stale vector and not stored |
| `tlc -config MCRetentionAudit.cfg MCRetention.tla` (`AuditWindow`) | `README.md:55`: invalidated memories stay until `purge_invalidated_days` | `delete_archived_older_than` ignores `invalid_at`: with `archive_days` below the audit window an archived row goes early |
| `tlc -config MCRetentionRises.cfg MCRetention.tla` (`ArchivedNeverRises`) | `CHANGELOG.md:35`: archived rows never auto-promote | a promotion decided by one tick lands on a row the other tick archived in between |

### Fairness

`Governance!FairSpec` has weak fairness of each tick's own steps: a tokio task that
is runnable is polled and storage and LLM calls return (the HTTP client has a
timeout). Nothing is assumed of ticks starting, clients or failures.
`VectorStore!FairSpec` is the same for a request in flight. `Retention!FairSpec`
adds that time passes and that the scheduler's interval starts a tick again and
again, which is its loop; its calls may still fail as often as `MaxFaults` says.
`DualStore!FairSpec` drives each operation that was begun and the builder's two steps,
which are a spawned task; `Pool!FairSpec` each blocking thread that was started, whose
waiting for a connection is bounded by the timeout. `Migration!FairSpec` starts a
stopped process again, which is the operator's part, as often as `MaxStops` lets it
stop. `Replay!FairSpec` is one weak fairness of the harness as a whole, a single
runtime that polls whatever can go on; of the server it assumes nothing, so that a
drain ends by its budget. `Retrieval` states no fairness: its properties are safety.
Liveness runs use no symmetry.

## 4. Proofs

The theorems hold for every value of the constants under the assumption named in
their module (`GovernanceAssumption`, `VectorStoreAssumption`, …), which TLC evaluates
in every run. The assumptions are types and finiteness, for retention what
`Config::validate` enforces, for a retrieval that requests and rankings are well
formed (a ranking names no id twice; a limit, an offset and a budget are natural
numbers; the table of edges is finite) and for the evaluation that buckets differ. Two theorems take a hypothesis
more, both because the property is promised to no more than that:
`AbsorptionLosesNothing` (one tick and no client call) and `FallingNeedsDemand` (one
tick, beside any clients).

**Index** (`VectorStoreProofs`, last part). `IndexInv == IndexTypeOK /\ Consistent` is
inductive. The step that carries the weight is removal: the last entry moves into
the gap, and `Reindexed` re-points exactly the id that moved; the cases `id` last or
not, and the moved id or another, are the proof. From it `IndexImplementsMap`
(refinement, with `Held` as the mapping) and `OperationsCorrect` follow.
`SearchIndexCorrect` is an induction along the scan: after n entries the heap holds
the best of the first n (`Best`), since the least of the heap is below all others in
it and replacing it by a better entry keeps that so; the cached norms are those of
the entries by `Consistent`.

**Store** (`VectorStoreProofs`). `IndexAgrees` needs to know what a caller in flight
still owes the index. `OwesTheRow`: outside `raced`, what it is about to write is
what the row says, and a purge that has yet to delete finds row and entry as it
selected them; `OneOwes`: nobody else owes the same entry; `Purging`: only a purge has
victims. `CommitSafe` is the step that makes a debt, `CorrectSafe` and `UnindexSafe`
the ones that settle it, `GiveUpSafe` the one that drops it: a purge may be dropped
before its DELETE precisely because the entry still agrees then.

`SearchCorrect` rests on `Exact`: a caller undisturbed since its probe holds the best
`fetch` of the index (`Probed`), and after the rows the best of its bucket (`Covered`).
The lemma behind it, `FilteredCovers`, is about sets: the part of a best-n set that a
filter lets through covers the filtered candidates whenever it has k members or the
set was not full, which are the two ends of the deepening loop. The same argument
proves `SearchCorrect` of the two stores.

`DeepeningCorrect` is the safety half of `SearchReturns`. A probe which was not
exhausted returned `fetch` different ids, all of them of memories. `Depths` keeps that
for a caller in the loop, as a bound on `fetch`: the loop goes on only from a depth of
at most `Cardinality(Ids)`, whatever was written since, and each round doubles it. A row that is raised while a purge holds its
id (`RaiseSafe`) stays in the table and loses its entry: it is one of the races `raced`
names.

**Consolidation** (`GovernanceProofs`). `TypeOK` alone is not
inductive: a verdict is looked up through `cursor` in `pending`. The invariant is
`IInv == TypeOK /\ \A t : TickInv(t)` with

* `Bounded` – what was listed and read fits the batch;
* `Empty` – an idle tick has no locals;
* `AboutBatch` – the LLM's abstracts are about memories of the batch;
* `Ungathered` – no verdict before gathering;
* `Grounded` – a verdict that writes is about a memory whose embedding was
  fetched, its candidates are others of the same bucket;
* `Halfway` – between the two statements of an absorption the cursor is at an
  UPDATE with evidence.

None of the parts mentions the tables, so only the tick's own steps can disturb
them (`Bystander`, `OwnStep`). The second half describes each statement's
effect on one row (`Kept`, `Steady`) and derives, for any number of memories, ticks
and clients: `OnlyPersistedIsConsolidated`, `OnlyPersistedIsAssessed` (by `RowsInv`,
which ties what a tick has persisted to the rows), `InvalidationIsIdempotent`,
`DeletionIsFinal`, `DualSignal`, `BucketsStayApart` and `NoDanglingEdge`.
`AbsorptionLosesNothing` adds `Single` (a memory is listed once, hence has one
snapshot) and `Copied` (between the two statements of an UPDATE the target holds the
snapshot's content); `Copied` is what a client or a second tick may break.

`TickRunsOut` is the safety half of `TickReturns`, for any number of ticks, clients and
failures. `CallsLeft(t)` adds up what is still to be read, persisted, gathered and
executed; `Measured` says that the sizes are numbers (the LLM's lists are
finite, the cursor stays inside the batch).
Each action of the tick then leaves fewer calls, one lemma for each, and nobody else
changes the sum. Fairness turns that into `TickReturns`, which is TLC's part.

**Lifecycle** (last parts of `GovernanceProofs` and `RetentionProofs`). `Stage` maps a
row to one of five stages: unborn, live, archived, invalid, deleted. Both
components implement `Lifecycle` under it: a step changes the stage of one memory
along `After`, or removes stored ones, or changes no stage. Each statement is looked at
once, by its effect on one row; what a tick knew when it decided does not matter, which
is the point: every UPDATE names its columns and none of them writes a row back.
The invariant it takes is `Issued`, that a stored memory's id is drawn, so that an
insert is the birth of an unborn one and a deleted id has no second life. Archived is
not final (a promotion by id lands on a row another tick archived, as
`MCRetentionRises.cfg` shows), invalid is. `Retrieval` is proved for any writers that
keep to `After`, so its theorems hold beside these ticks.

**Retention** (`RetentionProofs`). `ArchivingIsNoDeletion` needs `ArchivedIsFresh`:
for a row of level -1 the age of `updated_at` is at most the time since it was
archived. Archiving resets both, time advances both, every other writer only
resets the former. Only `DeleteArchived` takes a tick from "archived" to
"invalid", and its WHERE clause gives the rest.
`FallingNeedsDemand` needs `Falling`: a memory that was demoted and not accessed
since is `Sunk`, that is, of an age and count at which the rules never promote it,
and stays so as it ages (`Retained` decays); the listing that a decision was taken
from is no older than the row. A second tick breaks this, with a decision from a
listing before the demotion, as `MCRetentionRises.cfg` shows.

**Two stores** (`DualStoreProofs`). The invariant is `Places` (only an insert commits,
adds and rolls back), `Drawn` (a row, a vector or an outcome stands under a drawn id),
`Own` (the id of a pending insert has no vector, no outcome and no other insert) and
the three properties `AcknowledgedHasVector`, `RowsAccountedFor`, `OneVectorPerId`. A
frame lemma covers every step that leaves vectors alone and makes no row; `DrawSafe`,
`CommitSafe` and `AddSafe` are the three steps that make a memory. That no vector is
ever replaced or removed rests on `Refused`, the quoting rule: with the rule
repaired, `OneVectorPerId` fails and the proof with it (as under the mutant `QuoteAcceptsBody`).

**Pool** (`PoolProofs`). A row and its tags read at two instants fit together since
`Together` (rows and tags are committed and deleted at once), `Known` (what has a row
or is read was drawn, and no id is drawn twice), `Own` (the id of an
insert under way is its own, that no reader knows yet) and `Writers` (only an insert
commits a row). `NoOrphans` needs that every connection enforces foreign keys.

`ListingIsExact` counts: `Ahead(id)` is the number of listed memories before `id`, and
ORDER BY puts it at place `Ahead(id) + 1` (`PlaceIs`), so that a page is the memories
with `offset <= Ahead(id) < offset + PageSize` (`PageIs`). The invariant `WalkInv` says
of a walk nobody left that each memory with `Ahead(id) < offset` has been shown
(`Covers`), of one nobody left or joined that what has been shown has
`Ahead(id) < offset` (`Once`), and of a page that is read and not shown yet that it
continues both (`PageRight`). A memory that joins only makes `Ahead` larger, which
`Covers` survives and `Once` does not: that is why the two halves of `WalkIsExact` have
different conditions. `Covers` also has the COUNT equal the table until the page is
read, which a memory that joins in between breaks (`split`).

**Migration** (`MigrationProofs`). `Relied`: the version each process works from is one
whose objects are there, and the schema only grows; so a lower version written over
a higher one is earned as well, and `ReadyCanServe` follows. `Contents`: an entry stands
for a row and none stands twice, since a row is either indexed by a trigger or found
by the backfill, never both; `IndexedOnce` and `StampedFromFive` are its parts.

**Retrieval** (`RetrievalProofs`). The first part proves what the operators yield: a
set with a strict total order is enumerated by `Sorted` (each place is taken once,
by the number of elements below), so `Only`, `RrfFuse` and `ByComposite` return
rankings with the members and the order their names say; `MmrDedup` and `GreedyPack`
are recursive functions over a list, whose result after n items is described by
`Deduped` and `Packed`. Then the invariant

* `Placed` – where a request of each kind may stand;
* `Typed` – the tables and the rankings a request holds;
* `Ranked` – what is being hydrated comes from the fused ranking;
* `Witnessed` – all that a request has found was retrievable at some moment since
  it began, kept up by the history `shown`, which every write of others extends;
* `Counted` – no access is counted before the page is served;
* `Accounted` – the edges answered and those still to relate are together the
  request's, in order, and each answer is true of the tables

gives `ServedCorrect`, `DemandCorrect` and `RelateCorrect`. `DigestCorrect` adds that
`Assemble` makes a `Sound` digest and nobody touches it afterwards.
`DualChannelCorrect` is arithmetic: with equal weights w, two shares from ranks up to
K + 1 are each at least w/(2K + 1), and one share at the very top is at most w/(K + 1),
which the two together exceed; the fractions are exact in `Unit`. `PageCorrect` adds `Recalled`: while nobody
writes, `vhits` and `bhits` are the whole answers of the channels that are up, up to
`Oversample` each, all that was fused is hydrated, and so the page is the part of the
fused ranking from `offset` on; that `Oversample` leaves room for `offset + limit` of
the union is the counting step.

`ExpansionCorrect` compares two definitions of nearness. `PathsAre` says that the rows of
the recursive query are the paths without repetition over passable edges up to the
depth; `PathsInBalls` and `BallsByPaths`, inductions over the number of hops, say that a
ball of radius n holds an id exactly when such a path of at most n hops ends there (a
shortest walk repeats nothing). The LIMIT cuts the rows in the order of distance, hence
what is kept is either every ball whole or cut inside one (`NeighborhoodReaches`).
`Expanded` carries the result from the query to the response, for as long as nobody
writes. `TypeCorrect` of this module needs `Sized`: a page is no longer than its
limit, what is hydrated and what is still missing together fit the pool, and every edge
of a subgraph was there at the start or is one that somebody inserts.

**Evaluation** (`ReplayProofs`). `Script(u)`, what a unit has sent followed by its queue,
names no message twice and is all it may see (`Seen`) up to the checkpoint it has
`Reached`: `Checkpoint` extends it by the messages past the last checkpoint, a write moves
items from queue to sent, and the checkpoints ascend (`Path`, from `Ascending`).
`Holding`: the bucket has nothing past that checkpoint, for which buckets must differ.
`Timely`: a question is under way only at its own checkpoint, hence `LeaksNothing`.
`AbstractsOrIsLate` needs that a row which is not pending has its abstract, which
every statement of a tick keeps (`ConsolidateIs`, `VerdictIs`): then an empty queue is a
bucket with abstracts, and until the unit's next checkpoint nothing is written into its
bucket but by a tick, which adds no row and takes no abstract away. `EveryQuestionCounted` needs that the counters
of a unit are as many as the questions of the checkpoints it has `Passed`, and that the
sum over the units that came back, a fold, is the cardinality of their questions.

**Induction over data.** The library's induction theorems take an operator as a
parameter. The proofs use the fact behind them instead: a subset of `Nat` that has 0
and is closed under successor is `Nat` (`SetInduction`, from the well-foundedness of
`<`), applied to the set of n for which the statement holds. A recursive function on
`0..n` satisfies its equation (`RecursiveOn`) since the approximations that do, for all
smaller arguments, agree; a fold is unwound the same way.

Theorems about formulas no run checks state what the others rest on: the type
invariants, `Consistent` and `OperationsAreTheMaps` of the index, `ImportanceFollowsAbstract`,
`FirstInvalidationWins`, `DeletedStaysDeleted`, `EdgesHaveEndpoints` of the tick,
`OneVectorPerId` of the Lance table, `ReadyCanServe` and `StampedFromFive` of a database.

Only model-checked: liveness (`TickReturns`, `SearchReturns`, `EventuallyForgotten`,
`CallsReturn`, `FlagReleased`, `BootsAtLast`, `RunEnds`), which with ENABLED is beyond the
prover. Of the first two the part that needs no fairness is proved: `CallsRunOut` and
`DeepeningIsBounded`. No proof rests on an assumption about steps.

## 5. Not modelled, and why

* Request validation, serialisation, prompts, logging, metrics, configuration, the
  client SDK, the CLI and the drawing in the UI: I/O and wording, with no state that
  several actors share.
* The embedders: a text and its embedding are one value wherever they meet. The
  handler's own step (`Encode`) is in `VectorStore`.
* The ranking of FTS5 and Lance's approximate search: external, any answer their
  contract allows.
* Floating-point rounding and NaN: scores are exact whole numbers.
* The MCP server's separate vector index: nothing keeps the two together and no
  document promises it. Its opening of the database is in `Migration`.
* The audit log, statistics by level and `search_by_context`: reads of one statement.
* LanceDB's `get_embeddings` (`lancedb.rs:612`) selects a column that this backend never
  creates, so a consolidation tick ends there; `Governance` has that ending, as the
  failure of `GetEmbeddings`.
* Best effort without a promise: `list_pending` has a LIMIT and no ORDER BY; two writes
  of near duplicates both probe before either inserts, and both are stored.
* Dataset parsing and the chat client of the evaluation: data and one HTTP call.
* SQLite's crash safety is trusted, and a transaction is atomic.

## 6. Plan

Done: the modules of section 2 and the proofs of section 4; every safety property and
every refinement a passing run checks is a theorem, the one of `AbsorbedAfterCopied` and
`RisesOnlyOnDemand` under the hypotheses named in section 4.

Left, in order of weight:

1. The harness of `Replay` against `Retrieval`: a question's memories as the page of a
   search, so that `LeaksNothing` follows from `ServedCorrect`.
2. `SchedulerLoop`: intervals, missed ticks and shutdown.
3. Batch write as one more caller of `VectorStore`; so far `Replay` has it from the
   client's side.
4. `DualStore` beside `Governance`: the tick's statements on a store where they may be
   refused.
