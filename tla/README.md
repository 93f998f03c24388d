# TLA+ models of the IOx ingest, persist and query path

This directory holds TLA+ specifications of the stateful parts of this
repository (IOx, a time-series database split into router, ingester,
querier and compactor services), the TLC configurations that check them, and
`PROJECT.json`, which maps every modelled definition to the source lines it
translates and lists the hazards of the code.

## 1. The system

| Part | Source | State | Operations |
|---|---|---|---|
| Lifecycle manager | `src/ingester/src/lifecycle.rs` | `total_bytes`, per-partition `PartitionLifecycleStats` (first/last write time, bytes, first sequence number) behind one mutex | `log_write` (returns "pause ingest" when `total_bytes > pause_ingest_size`), `can_resume_ingest` (`total_bytes < pause_ingest_size`), `maybe_persist` (select partitions by age, cold, size, then by memory pressure; remove their stats; spawn a persist task each; join; update each sequencer's `min_unpersisted_sequence_number`), `run_lifecycle_manager` (calls `maybe_persist` every check interval) |
| Ingester buffer and persister | not in this repository (spec.md 4.1) | per partition: buffer, persisting batch, parquet files; per sequencer: min unpersisted sequence number in the catalog | apply a WAL operation (buffer, then `log_write`, per partition), persist a partition (buffer to persisting batch, write and commit the file, drop the batch) |
| Ingester query handler | `src/ingester/src/querier_handler.rs` | read-only | snapshot of the unpersisted batches with `parquet_max_sequence_number` and `tombstone_max_sequence_number` per partition |
| Querier reconciler | `src/querier/src/table/state_reconciler.rs` | read-only | `filter_parquet_files` (drop files the ingester still has; `CompactorConflict` when a file newer than the ingester's max was compacted), `tombstone_exclude_list`, attaching tombstones to file chunks |
| Compactor | `src/compactor/src/query.rs`, `src/iox_query/src/frontend/reorg.rs`, `src/iox_query/src/exec.rs` | catalog files, processed tombstones | chunks with unmaterialised tombstones as delete predicates, dedup order (L0 = `max_sequence_number`, L1 = 0, then object-store id), compact and split plans, `StreamSplit` routing, catalog commit |
| Cache driver | `src/cache_system/src/cache/driver.rs` | cached entries, running queries with tag and shared receiver | `get_with_status`, `peek`, `set` (side-load), the loader task and its `ResultSubmitter` |
| Backoff | `src/backoff/src/lib.rs` | next backoff, RNG | `next`, `retry_with_backoff` |
| Write buffer | `src/write_buffer/src/core.rs` (traits and generic tests; the implementations are not in this repository) | per sequencer an ordered log with a retention head; per writer pending `store_operation` calls; per stream handler its position and an optional stream with prefetched entries | `store_operation` (batched until linger or `flush`), `flush`, `stream_handler`, `stream` / `next`, `seek`, `reset_to_earliest`, `fetch_high_watermark`; the codec (`codec.rs`): `IoxHeaders::headers` / `from_headers`, `encode_operation`, `decode` |
| Read buffer table | `src/read_buffer/src/table.rs` | row groups and table meta-data behind an `RwLock` | `add_row_group`, `drop_row_group`, reads under a cloned snapshot |

How they interact: the ingest loop of each sequencer reads the WAL in
sequence-number order and applies each operation to one or more partitions,
calling `log_write` after each partition; when `log_write` says so the loop
pauses and polls `can_resume_ingest`. The lifecycle manager, on its own task,
persists partitions; each persist writes a parquet file and commits it to the
catalog, and after a round the sequencer's `min_unpersisted_sequence_number`
— where WAL replay starts after a restart — is moved forward. A querier asks
the ingester for unpersisted data and reads the catalog's files, and the
reconciler combines both so that each row is seen exactly once, while the
compactor concurrently rewrites L0 files into L1 files.

The hard behaviours: three tasks (ingest loops, the manager, persist tasks)
share the lifecycle state with the lock released between snapshot, remove and
release; the `rest` snapshot is used after an await; one WAL operation is
spread over several partitions; replay after a crash; backpressure that must
end; the querier's two reads racing a persist and a compaction; a side-load
racing a loader task; numeric edges of `usize` counters and random ranges.

What makes each part correct: `total_bytes` equals the bytes tracked plus the
bytes of running persists; `min_unpersisted_sequence_number` never exceeds an
operation that is not fully persisted and never decreases; a paused ingest
loop resumes; a query sees every row that was written exactly once; a cache
never returns a value older than one set after the query started; backoff
never panics for a valid config.

## 2. Modules

### `Lifecycle` (modelled) — `Lifecycle.tla`, `MC_Lifecycle.tla`

CONSTANTS: `Sequencers`, `Partitions` (ids), `SeqOf` (partition to
sequencer), `MaxSeq` (operations per sequencer), `WriteSizes` (bytes a
`log_write` may report), `MaxTime` (clock bound) and the five thresholds of
`LifecycleConfig`, and `MaxCrashes` (restarts in one behaviour). The
configurations must satisfy `ValidLifecycleConfig`, the assert of
`LifecycleConfig::new` (pause size above the memory threshold), which the
module ASSUMEs.

State and correspondence:

- `totalBytes`, `stats` — `LifecycleState` (the mutex-protected part).
- `mgr` — the locals of a running `maybe_persist`: phase (`idle`,
  `spawning`, `joining`), the `to_persist` queue still to spawn, the `rest`
  snapshot (first sequence number per partition) and `sequencer_maxes`.
- `task[p]`, `usage[p]` — the spawned persist task of partition `p` and the
  `partition_memory_usage` it captured.
- `wal`, `nextSeq`, `ingest` — WAL contents and each sequencer's ingest loop
  (idle, applying an operation to a set of partitions, paused).
- `buffer`, `persisting`, `persisted`, `minUnpersisted` — the ingester data
  and the catalog's per-sequencer min unpersisted sequence number, as sets of
  sequence numbers per partition.
- `now` — the time provider.
- `crashes` — restarts so far (bounded by `MaxCrashes`).

Actions: `ReceiveOp`, `BufferWrite`, `FinishOp` (spec-modelled from
spec.md 4.1/4.2, since `IngesterData` is not in this repository);
`LogWrite`, `Resume` (the `LifecycleHandle` methods); `MaybePersistBegin`
(lines 270–353: snapshot, trigger filter, memory loop, maxes — everything up
to the first `remove`, which touches only locals), `SpawnPersist` (one
`remove` (`RemoveStats`) + `tokio::spawn` per partition, each taking the
lock on its own),
`MaybePersistFinish` (join and the min update); `PersistStart`,
`PersistCommit` (spec-modelled persist) and `ReleaseMemory` (the task's
`total_bytes -=`); `Tick`.

Failures:
- `PersistPanic`: a spawned task panics before it releases its memory.
  Once every task has finished or panicked, `MaybePersistPanic` is the
  `res.expect` after `join_all` (lines 382–387). It takes the manager to
  `dead`: nothing is persisted any more.
- `Crash` (spec.md 4.1 failure semantics and section 6): the ingester
  restarts. Buffers, persist tasks, lifecycle stats and every sequencer's
  ingest loop are lost. The WAL, the parquet files and the catalog's
  `min_unpersisted_sequence_number` survive. Each sequencer resumes at its
  recorded minimum, or at 1 when none is recorded.
- The replay re-delivers each operation unchanged (`ReceiveOp`). The
  ingester skips a sequence number that a partition already holds in a
  parquet file (`BufferWrite`).

Fairness: `run_lifecycle_manager` calls `maybe_persist` forever every
`CHECK_INTERVAL`, so the manager's steps are weakly fair; spawned tokio tasks
run to completion, and an ingest loop that has started an operation finishes
it and keeps polling `can_resume_ingest` while paused. New WAL operations and
the clock are not assumed to progress.

Runs:

| Run | Cfg | Bounds | Checks |
|---|---|---|---|
| `lifecycle_safety` | `MC_Lifecycle_safety.cfg` | 2 sequencers, 3 partitions (two on one sequencer), 2 operations per sequencer, writes of 1 byte, clock 0..1, size threshold 1, memory threshold 2, pause 3 | `TypeOK`, `NoRowPersistedTwice`, `NoLostWrites`, `BytesAccounted`, `MinUnpersistedSafe`, `MinUnpersistedMonotonic` |
| `lifecycle_backpressure` | `MC_Lifecycle_live.cfg` | 1 sequencer, 2 partitions, 3 operations, writes of 2 bytes, no clock, size trigger out of reach, pause 3, no crash | `PausedIngestResumes` |

The safety bounds are the smallest where a multi-partition operation is
split across a persist, where a partition gets written again between the
snapshot and its `remove`, where the memory loop fires next to the size
trigger, and where two sequencers' rounds interleave (a two-sequencer state
is needed to tell the per-sequencer filter of `rest` apart). One crash
(`MaxCrashes = 1`), which may follow a panicking task, can happen at any
point: mid-operation, mid-persist, or after a persist that left the
recorded minimum at the last persisted number. About 2 240 000 states in
95 s. The liveness run fixes `log_write` to 2 bytes so that the
second write pauses ingest and only the memory-pressure loop can release it.
It allows no crash or panic (`MaxCrashes = 0`). A panicked manager never
releases paused ingest, and what the ingester does when the lifecycle task
dies is not in this repository.

The two crash properties:
- `NoLostWrites`: after any crash and replay, every operation below
  `nextSeq` is buffered, being persisted, persisted, or still being applied.
- `NoRowPersistedTwice`: no sequence number of a partition is both in a
  parquet file and in memory. After a persist with nothing left buffered,
  the recorded minimum is the largest persisted `first_sequence_number`
  (line 391), not one past it. So replay re-delivers an operation whose rows
  are already in a file, and only the skip keeps them out of a second file.

What the runs show: all six safety properties and the liveness property
hold for the code. The mutants in `PROJECT.json` each break one:
- no `remove` at spawn;
- `max + 1`;
- no sequencer filter on `rest`;
- no memory loop;
- replay without the skip;
- restart one past the minimum.

Not modelled yet: tombstones in the buffer.

### `QueryPath` (partly modelled) — `QueryPath.tla`, `MC_QueryPath.tla`

One table of one sequencer, end to end. CONSTANTS: `Partitions`, `MaxSeq`
(WAL operations), `MaxDeletes`, `MaxCompactions` and `CatalogFirst` (the
order of the querier's two reads). A row is the sequence number of the write
that made it; a delete with sequence number t removes every row of the table
written before it. So what is checked is which sources return a row, not
which rows a predicate selects.

State:

- Ingester (spec-modelled): `ops` (the WAL so far), and per partition
  `buf`, `persisting`, `pRows` (rows of the persisting batch when it was
  snapshotted), `committed` and `parquetMax`; `ingTombs`, the tombstones
  the ingester has applied (it keeps them after the catalog drops one).
- Catalog: `tombs` (tombstones) and `files`. A file is a record of its
  partition, sequence-number span, rows, level, and processed tombstones.
- `compactions`: how many compactor runs have happened.
- `q`: the query, holding its phase, the sequence numbers at start, at the
  ingester read and at the answer, what it read, and how often each row was
  returned.

Actions:

- Ingester: `ApplyWrite` and `ApplyDelete`. A persist is split at its lock
  and commit points into `PersistStart`, `PersistCommit` (the L0 file enters
  the catalog) and `MarkPersisted` (the batch is dropped and
  `max_persisted_sequence_number` advances).
- Compactor: `Compact`, an atomic swap of files of one partition for an L1
  file. It materialises each input's newer tombstones, as
  `QueryableParquetChunk::new` gets them.
- Querier: `QueryStart`, `ReadIngester` (`prepare_data_to_querier`,
  with `PartitionData` for `prepare_data_to_querier_for_partition` and
  `ScanRows` for `query`, the scan that applies the batch's delete
  predicates), `ReadCatalog`, and `Reconcile`. `EnvelopeRec` and `FileRec`
  are what the reconciler reads of an ingester partition and a parquet
  file (`IngesterPartitionInfo`, `ParquetFileInfo`).
- Catalog, outside `Spec`: `RemoveTombstone`, the tombstone garbage
  collection of spec.md 4.1 (spec-modelled). `SpecWithGc` adds it.

`Reconcile` applies operators translated from `state_reconciler.rs`:
`FileDisposition`/`FilterParquetFiles` (`filter_parquet_files`),
`TombstoneExcludeList` (`tombstone_exclude_list`), `DeletePredicates` and
`ChunkRows` (the tombstone loop of `build_chunks_from_parquet`), and
`ResultCount` (`reconcile` with `build_ingester_chunks`). `Finished` is the
stutter of the bounded run once every operation is applied and the query
answered.

| Run | Cfg | Bounds | Checks | Result |
|---|---|---|---|---|
| `query_reconcile` | `MC_QueryPath.cfg` | 2 partitions, 3 operations, at most 1 delete, 1 compaction, ingester read first | `TypeOK`, `NoDuplicateRows`, `NoLostRows`, `NoResurrectedRows` | pass, ~230 000 states |
| `query_catalog_first` | `MC_QueryPath_catalog_first.cfg` | same, catalog read first | `NoLostRows` | violated |
| `query_compaction_tombstone` | `MC_QueryPath_compaction.cfg` | 1 partition, 1 delete, 1 compaction | `SnapshotConsistent` | violated |

Three operations are enough to reach every case:

- the commit/mark window of a persist;
- a file persisted before and after each read;
- a tombstone older and newer than the ingester's answer;
- a compaction of files on both sides of the answer (CompactorConflict);
- a partition created between the reads.

What the runs show:

- With the ingester asked first (the order the code's doc comment at
  `state_reconciler.rs:316-319` assumes), the reconciler never duplicates
  a row, never loses an undeleted row and never resurrects a deleted one.
  This holds whatever persists, deletes and compactions interleave with
  the query.
- With the catalog read first, which spec.md 4.4 calls preferred, a
  persist between the reads loses a row.
- The result is not always a snapshot of the table at one sequence number,
  although spec.md 5 promises a consistent slice. This happens in two ways:
  - a partition first written after the ingester answered has its files
    kept whole;
  - a compaction materialises a delete that the reconciler's tombstone
    exclusion means to hold back.

  The second is the finding of the `query_compaction_tombstone` run in
  `PROJECT.json`. The first is shown by `MC_QueryPath_new_partition.cfg`
  (2 partitions, no delete, no compaction), which TLC violates in a few
  seconds; it is kept as a cfg but no longer as a listed run, because the
  run budget went to the write buffer. It is the stale-state hazard at
  `state_reconciler.rs:383`: filter_parquet_files keeps every file of a
  partition the ingester did not report (spec.md 4.4), and a partition
  first written after the ingester answered is such a partition.

Tombstone garbage collection. spec.md 4.1 allows a tombstone to be
removed once every file of its shard with `max_seq` <= its sequence number
has been compacted. `MC_QueryPath_gc.cfg` (1 partition, 1 delete,
1 compaction, `SpecWithGc`) shows that this rule, read over the catalog,
resurrects a deleted row: TLC violates `NoResurrectedRows` in a few
seconds. The trace: a persist snapshots row 1, a delete 2 arrives, no
catalog file is older than 2, so the tombstone is removed, and the persist
then commits a file with row 1 that nothing deletes any more. The rule
would also have to wait for persists in flight. The garbage collector is
not in this repository, so the cfg is kept beside the module but not
listed as a run (the run budget is full), and `Spec` leaves the removal
out.

Not modelled here: sort keys (`sync_partition_sort_keys` changes no rows);
the processed-tombstone cache, which is read as the catalog (a file's
processed set never changes after it is created); ingester restarts; and
several sequencers (tombstones are per sequencer, and one sequencer shows
the per-partition logic).

### `CacheDriver` (partly modelled) — `CacheDriver.tla`, `MC_CacheDriver.tla`

Models `src/cache_system/src/cache/driver.rs` for a single key. Callers and
spawned loader tasks interleave freely.

State:
- `cache`: the backend entry, or `None`.
- `rq`: `running_queries[k]`, the tag of the registered query, or `None`.
- `tagCounter`: the `tag_counter`.
- `tasks`: a record per spawned loader, with its phase, the value it loaded
  `lv`, the side-loaded value `side`, and the result broadcast to its
  receivers, `out`.
- `clients`: the phase of each caller and the task it waits on.
- `src`: the current value of the loader's source.
- `lastSet`: the last value passed to `set`, kept for the properties.

Actions:
- `Get`: `get_with_status`. It is a cache hit, joins a running query, or
  registers a new tag and spawns a task.
- `Peek`: `peek_with_status`. It never spawns a task.
- `Receive`: `retrieve_from_shared`, whose `expect` turns a dropped sender
  into `Panic`.
- `Set`, then `SetJoin`: `set`. It sends the side-load value, removes the
  query, stores the value, and awaits the join handle.
- The task body is split at its await points into three actions:
  - `PollLoading`: the `select_biased!` that prefers `rx_set`.
  - `Submit`: `submit`, followed by the `was_running` branch.
  - `PollSpinning`: the `yield_now` spin.
- `Finalize`: `ResultSubmitter::finalize`, including the tag check.
- `LoaderPanic`: a panicking loader. Its `ResultSubmitter` finalizes on
  drop and broadcasts nothing. It is enabled also after a set: a set can
  land after `select_biased!` polled `rx_set` and before the loader future
  panics in the same poll. The value is then in the backend, but every
  waiter gets `Panic`. The task records `panicked`.
- `Update` and `Evict`: the environment (the source changes, the policy
  evicts).

Fairness: weak fairness on every spawned task's step (tokio polls a ready
task) and on each waiting caller's `Receive` (a broadcast wakes its
receivers). Callers are not required to call anything.

| Run | Cfg | Checks | Result |
|---|---|---|---|
| cache_driver | `MC_CacheDriver.cfg` | TypeOK, GetNotStale, SideLoadWins, NoSpuriousPanic, RunningQueryIsLive, WaitersReturn | pass (about 600,000 states, 2 min) |

What the properties say:
- `GetNotStale`: a value returned by get or peek is never older than the
  source at the last set. The tag check in `finalize` is what keeps a late
  loader out after set, evict and a fresh get. The mutant that drops the
  check needs three callers to break it, which is why the run uses three
  clients. No symmetry reduction is used, because the run also checks a
  liveness property.
- `SideLoadWins`: callers waiting on a side-loaded query whose loader
  did not panic receive the side-loaded value. This relies on the spin
  after a failed submit.
- `NoSpuriousPanic`: a caller only panics if its loader panicked. Neither
  `set` nor `finalize` may drop the side-load sender unused.
- `RunningQueryIsLive`: `running_queries` only names tasks that have not
  finished.
- `WaitersReturn`: every waiting get eventually returns.

Bounds: `MaxVersion=1` (one source update), `MaxLoads=2` (two tags, enough
for a stale loader and a fresh one), and `MaxEvictions=1`.

Not modelled:
- Several keys. Keys are independent apart from the shared lock, which the
  atomic actions already model.
- `Drop` of the driver, which aborts tasks.
- The `CacheGetStatus` metrics.

### `Backoff` (modelled) — `Backoff.tla`, `MC_Backoff.tla`

Models `src/backoff/src/lib.rs`: one `Backoff` driven by
`retry_all_errors`.

State:
- `cfg`: the `BackoffConfig`. `Init` chooses it from `Configs`, so one run
  covers every configuration in the set.
- `nextB`: `next_backoff_secs`.
- `slept`: the interval `next()` last returned.
- `phase`: call, sleep, done or panicked.

Actions:
- `Attempt`: one call of the operation. An `Ok` ends the loop. An `Err`
  runs `NextBackoff`, which is `next()`:
  - `gen_range` over `init..next*base`, half-open;
  - a panic when that range is empty;
  - the cap at `max`;
  - and it returns the previous `next_backoff_secs`.
- `Sleep`: the `tokio::time::sleep`.

Durations are whole time units and `base` is an integer. The half-open f64
range becomes the integer interval `init .. next*base - 1`.

Fairness: weak fairness on `Attempt` and `Sleep`. The task is polled and
its timer fires. The environment may make every attempt fail.

| Run | Cfg | Checks | Result |
|---|---|---|---|
| backoff | `MC_Backoff.cfg` | TypeOK, NeverPanics, BackoffBounded | pass |

`Configs` holds every combination of `init` in 0..3, `max` in 1..6 and
`base` in 2..3 (48 configurations).
- Invalid configurations (`init = 0`, or `max*base <= init`) reach the
  panic. Nothing in the code rejects them.
- For valid ones, `NeverPanics` and `BackoffBounded` hold.

The state space is finite without a bound on the number of retries, because
`nextB` never exceeds `max`. spec.md promises a maximum elapsed time for
retries. The code has none: `BackoffError = Infallible`, and the TODO at
lib.rs:43 acknowledges it. An operation that always fails retries forever.
That divergence is listed as a hazard. It has no run, because the code
already acknowledges it.

### `FixedNull` (modelled) — `FixedNull.tla`, `MC_FixedNull.tla`

Models the nullable fixed-width scalar encoding,
`src/read_buffer/src/column/encoding/scalar/fixed_null.rs`.

The Arrow array is a function from row ids `0..n-1` to a value or `Null`.
Each method is an operator that follows the code's loop:
- `CollectRuns`: the found/count run collection shared by `row_ids_equal`,
  `row_ids_cmp_order`, `row_ids_cmp_range_order` and
  `all_non_null_row_ids`;
- `RowIdsFilter`: includes the shortcut for values that do not encode;
- `SumNoNulls`: adds chunks of four, last row id first, and then the
  remainder;
- `MinValue` and `MaxValue`: compare `Option`s, where None is below every
  Some.

The state machine picks any array in `Init` and then calls any method with
any accepted arguments. `call` and `out` hold the last call and its result.
The invariants compare `out` with reference definitions.

The transcoders are not in this repository. `Decode` keeps the value, as
the byte-trimming transcoders' widening casts do. A comparison value is
encodable when it lies in the physical range `0..3`.

| Run | Cfg | Checks | Result |
|---|---|---|---|
| fixed_null | `MC_FixedNull.cfg` | TypeOK, ScansMatchReference, AggregatesMatchReference, MaxIsMaximumNonNull | pass (28,085 states, 45 s) |
| fixed_null_min | `MC_FixedNull_min.cfg` | MinIsMinimumNonNull | violation (finding) |

Bounds:
- every array of up to four rows over {1, 2, NULL}: 121 arrays;
- comparison values `-1..4`, one beyond the physical range on each side;
- every sorted row-id list.

Four rows reach the chunk of four in `sum`, as well as runs that open and
close at either end of the array.

The finding: `min` seeds its running minimum with the first row id's
`Option`. When that row is NULL, the minimum is None, and no `Some` is ever
less than None. So `min` of `[NULL, 1]` is None. `max` does not have this
problem, because every `Some` is greater than None.

Not modelled:
- `size`, `size_raw` and `Display` (memory layout and formatting).
- Calls with an empty row-id list to `min` and `max` (which panic), and to
  `sum` and `has_non_null_value` (whose answer then depends on whether the
  column has any NULL). These are listed as hazards.

### `ReadBufferTable` (partly modelled) — `ReadBufferTable.tla`, `MC_ReadBufferTable.tla`

Models `src/read_buffer/src/table.rs`: the row groups of a table and its
`MetaData`.

State:
- `data`: the row groups.
- `meta`: the `MetaData`, holding size, rows, the time column range and its
  distinct count.
- `last`: the result of the last call.

Actions:
- `AddRowGroup`: appends the row group and merges it with `update_with`.
- `DropRowGroup`: EmptyTable when one row group is left, a panic for a
  position past the end, and otherwise a removal and a rebuild with `From`.

Reads, each a whole call under the read lock; the result is kept in `read`
until the next add or drop:
- `ReadFilter`: `read_filter` with `validate_exprs` of the predicate and of
  every delete predicate, `filter_row_groups` (range pruning) and the
  `ReadFilterResults` iterator, which skips empty batches.
- `CouldPassPredicate` and `SatisfiesPredicate`.
- `ColumnNames`: `column_names`, with its shortcut when every column is
  already in `dst`.
- `ReadAggregate`: `read_aggregate`, which validates the predicate, drops
  aggregates on unknown columns (`schema_for_aggregate_column_names`),
  fails unless every known group column is a tag (`Selection::All` takes
  the time column too), prunes, and merges with `next_merged_result`
  (no batch without row groups; the first result merged with each later
  non-empty one, counts and sums added). It takes no deletes.
- `ColumnValues`: `column_values`, which fails on a known non-tag column
  before it validates the predicate.
- `TableSummary`: `table_summary`, which returns `MetaData::to_summary`
  (`ToSummary`): per column its range, the row count, no nulls and the
  distinct count. A Binary column panics; the model's one column is an
  integer.
- `ValidatePredicate`: `validate_predicate`, the predicate back or the
  error of `validate_exprs`; `Counts`: `rows` and `row_groups`.

What a read needs of a row group (its rows, range pruning, `read_filter`
with deletes, an ungrouped count or sum) is stated from its contract, because `row_group.rs` is not in
this repository.

| Run | Cfg | Checks | Result |
|---|---|---|---|
| read_buffer_table | `MC_ReadBufferTable.cfg` | TypeOK, MetaSummarisesRowGroups, ReadsMatchReference | pass |

The bounds are four row groups and up to three of them in the table. The
row groups are chosen so that one widens the time range on each side, one
lies inside another's range, and the distinct counts differ.
- `MetaSummarisesRowGroups` says the meta-data sums the row groups' rows
  and sizes, spans exactly their time ranges, and has a distinct count only
  for a single row group. The rebuild in `drop_row_group` is what makes it
  hold: `update_with` can only widen a range.
- `ReadsMatchReference` says every read returns what the rows say, for five
  predicates and three delete predicates. The predicates include an unknown
  column and a literal of the wrong type, which must produce an error.
  `read_aggregate` is asked with no group column, the time column, an
  unknown column and `Selection::All`, and with aggregates on time and on
  an unknown column; it must count and sum every matching row of every row
  group once. The mutant `MergedResult_skipFirst` (the merge loop without
  its seed) breaks it, as does `ReadFilter_skipNegValidation`.

Not modelled: grouping by tag values and the values `column_values`
collects (the model's rows carry only a timestamp, and the table has no
tag column); `aggregate_window`, `first` and `last`, which are `todo!()`.
The schema assert of `update_with` is also
left out, because the write path guarantees one schema per table.

### `Compactor` (partly modelled) — `Compactor.tla`, `MC_Compactor.tla`

Models a compaction of one partition. The sources are:
- `src/compactor/src/query.rs` (`QueryableParquetChunk`);
- `ReorgPlanner::compact_plan` and `split_plan` in
  `src/iox_query/src/frontend/reorg.rs`;
- `make_stream_split` in `src/iox_query/src/exec.rs`.

A row is a key and the sequence number of its write. The key fixes the
row's time.

State:
- `buffer`: the ingester's buffer.
- `files`: the catalog's L0 and L1 files, each with an id, its rows and its
  `max_seq`.
- `tombs`: the catalog tombstones.
- `processed`: the processed-tombstone rows.
- `written`: a history of every write, used only by the properties.

Actions:
- `Write`, `Delete` and `Persist` feed the compactor. They are
  spec-modelled from spec.md 4.1. A delete creates a tombstone and is
  applied to the buffer. A persist writes one deduplicated L0 file.
- `Compact(S, st)`:
  - `NewChunk` wraps each input with the tombstones newer than the file and
    not processed for it, as its delete predicates.
  - `ReadFilter` is the chunk's `read_filter`: the file's rows, read with
    the empty predicate; `ChunkRows` then drops what a delete predicate
    removes.
  - `Scan` keeps, per key, the row of the chunk ranked last by
    `(order(), id())`. `Order` is L0 = `max_seq` and L1 = 0.
  - `Streams` takes `compact_plan` for `st = <<>>`. Otherwise it takes
    `split_plan`: the predicates `SplitExprs` (with its panics) routed by
    `StreamSplit` to the first predicate a row satisfies.
  - It commits one L1 file per non-empty stream, removes the inputs, and
    records every tombstone it handed to a chunk as processed for the new
    files.

spec.md says "N+1 new file rows". The model writes no file for an empty
stream: a file without rows has no time range, and `QueryableParquetChunk`
requires one.

Assumption: the file selection code is not in this repository.
`Candidate` takes the oldest L0 files, and every L1 file overlapping the
time range of everything taken. This is what `order()` needs: an L1 row
ranks below every L0 row.

| Run | Cfg | Checks | Result |
|---|---|---|---|
| compactor | `MC_Compactor.cfg` | TypeOK, LatestRowSurvives, L1DedupedAndDisjoint, ProcessedTombstonesApplied | pass |

Bounds:
- three keys at times 1, 2 and 3;
- four WAL operations (writes or deletes);
- two compactions;
- split choices `<<>>`, `<<1>>` and `<<1,2>>`, plus the descending
  `<<2,1>>`, which `split_plan` rejects.

These bounds reach a second compaction that mixes an L1 file with a newer
L0 file, a split that puts a row exactly on a split time, and a delete
materialised into an L1 file. The run covers 195,216 distinct states in
about 30 seconds.

What the properties say:
- `LatestRowSurvives`: the newest live write of every key stays in the
  buffer or in some file.
- `L1DedupedAndDisjoint`: each L1 file holds one row per key, and no two L1
  files overlap in time (spec.md invariant 6).
- `ProcessedTombstonesApplied`: a tombstone recorded as processed for a
  file was applied to it.

Each property is broken by a mutant of the code it depends on:
- `Order_swapped` (L1 ranked above L0) breaks `LatestRowSurvives`;
- `SplitExprs_lt` (`time < st[0]`) breaks `L1DedupedAndDisjoint`;
- `NewChunk_noDeletes` (tombstones not turned into predicates) breaks
  `ProcessedTombstonesApplied`.

### `WriteBuffer` (partly modelled) — `WriteBuffer.tla`, `WriteBufferLog.tla`, `Codec.tla`, `MC_WriteBuffer.tla`

`src/write_buffer/src/core.rs` holds the write buffer traits and the
generic tests (`test_utils`) that every implementation must pass; the
implementations (Kafka, file, mock) are not in this repository. The module
models the contract the trait docs and the tests state.

`WriteBufferLog` is the abstract promise: per sequencer a log of operation
ids, entry `i` having sequence number `i - 1`, and a retention head
`earliest`; per handler a `cursor`, an `ended` flag and `out`, what it
yielded since the cursor was last moved. `Advance` yields the entry at the
cursor, `Fail` ends the handler when the cursor is outside the retained
range, `Move` (seek, reset) sets the cursor anywhere and revives it,
`AppendBatch` extends a log, `Retain` advances the head. Its actions are
written relationally (`IsStrictPrefix`, `DOMAIN cursor'`) so that TLC can
check the detailed spec against it.

`WriteBuffer` is the detailed contract:
- Writers: `Store` makes a call pending with the time it was made;
  `Submit(w, s)` writes the writer's pending calls for sequencer `s` as one
  batch, in order, each with its own timestamp (test_timestamp_batching,
  conductor#1000); `FlushBegin` / `FlushEnd` are `flush`, which returns
  once none of the calls outstanding when it was called is pending.
  `Tick` advances the mock time provider.
- Readers: `OpenStream` starts a stream at the handler's position `next`;
  `Fetch` buffers up to `MaxPrefetch` retained entries ahead;
  `Yield` hands out the oldest fetched entry and moves `next` past it;
  `YieldError` is UnknownSequenceNumber when the stream's position is
  below `earliest` or beyond the high watermark, after which the handler's
  streams end; `DropStream` loses what was fetched and not yielded; `Seek`
  and `ResetToEarliest` need no open stream (`&mut self`) and revive the
  handler.
- `CreateSequencers` is auto-creation by `writing(true)` / `reading(true)`;
  `Retain` is retention.
- Messages: each writer stores one kind of operation (`WriterOps`). A
  written entry carries that operation as the producer sends it
  (`Message`: `Headers` of `ProducerHeaders` and `EncodeOperation`), and
  `Yield` decodes it into `received` with `FromHeaders` and `Decode`
  under the handler's `Collector` flag.

`Codec` translates `codec.rs` as operators. Byte strings are abstracted
to what the codec distinguishes:
- valid UTF-8 text;
- text with a control character (valid UTF-8, but `HeaderValue` rejects it);
- bytes that are not UTF-8;
- a formatted Jaeger context with its id and sampled flag.

Header names are folded to lower case through `CaseFold`. The operators:
- `HeaderStep` is one iteration of `from_headers`' loop, with its early
  error returns.
- `FromHeaders` folds it with `FoldLeft`, stops at the first error, and
  ends with the "no content type" check and the empty-namespace default.
- `Headers` is the producer side.
- `EncodeOperation` writes a missing partition key or table as `""`.
- `Decode` takes namespace and span from the headers and reads `""` back
  as none.

The table batches, predicates and the Jaeger parser belong to other crates
and are opaque values or their contract.

The refinement maps each log to its ids, `cursor` to `next` and `out` to
`got`; `LogSpec == Log!Spec` is checked as a property.
`DecodedAsStored` says that every operation a handler decoded is the
operation the writer of that entry stored. That holds through batching,
prefetch, dropped streams and seeks. The span context is the one
exception: it is kept only if it is sampled and the reader collects traces
(`test_span_context`, `test_multi_namespaces`).

No fairness is assumed and no liveness is checked. Nothing in this
repository implements the writer side, so a property about batching,
producer timestamps or flush would only check the contract model against
itself. The writer actions are there to produce the log that the readers
and the codec are checked against.

| Run | Cfg | Checks | Result |
|---|---|---|---|
| `write_buffer` | `MC_WriteBuffer.cfg` | `TypeOK`, `DecodedAsStored`, `LogSpec` | pass, ~380 000 states, ~2 min |

Bounds: two sequencers, two writers, one handler per sequencer, two
operations, clock 0..1, prefetch 2, seek targets 0, 1 and 4 (4 lies beyond
any watermark of two operations). Two operations are enough for several
cases: a batch of two stores, or two stores split into one batch per
sequencer (`For` / `NotFor`); a flush racing a second store; retention
removing one of two entries; a seek into the middle of the log; and a
stream that prefetched the whole log. Handlers share no state
(`stream_handler` docs), so one handler per sequencer shows every case of
a handler against the writers and retention. The two writers' operations
cover the codec's edge cases:
- `w1` writes in namespace `ns1` with no partition key and a sampled span.
- `w2` deletes in the empty namespace with no table name and an unsampled
  span.

The reader of `h1` collects traces and the reader of `h2` does not, so
both branches of `from_headers`' span filter are checked.

Mutants: `Fetch_advancesHandler` (the handler remembers the last fetched, not the
last yielded, entry, so a dropped stream skips its prefetch) breaks
`LogSpec`; `Retain_unguarded` (retention past the head) breaks `TypeOK`;
`Decode_keepEmptyKey` (the empty partition key read back as a key)
breaks `DecodedAsStored`.

Not modelled:
- The table batches and predicates inside an operation: they are opaque
  values.
- Holes in the sequence numbers (seek's "at least the given sequence
  number"): no generic test produces them.
- A partition key of `Some("")`: it decodes as none, and is documented as
  a hazard.
- Header lists from producers other than `IoxHeaders::headers`: repeated,
  mis-cased or malformed headers. `HeaderStep` models how they are read,
  but no run enumerates them.

## 3. Plan for the remaining modules

Done so far: `Lifecycle` with crash, replay and persist panics, `QueryPath`, `CacheDriver`, `Backoff`,
`FixedNull`, `ReadBufferTable` (add, drop and the reads), `Compactor` and
`WriteBuffer` with its abstract `WriteBufferLog` and the `Codec`.

Next, in order of value:
1. `WriteBuffer`: compose it with the ingester's replay (reset to
   earliest on UnknownSequenceNumber, spec.md 212).
2. `CacheDriver`: an abstract `Cache` specification (a map written by `set`
   and by load results), refined by the driver via `INSTANCE ... WITH`.
   The `Cache` trait and its generic tests (`cache/mod.rs`,
   `cache/test_util.rs`) are not in this repository, so the abstract
   specification would have no source to be translated from.
3. `Compactor`:
   - a selection that is not oldest-first, to show when `order()`'s
     L1 = 0 ranking loses the newest write (a spec gap: spec.md 4.3 does
     not fix the selection);
   - an abstract last-write-wins table refined by the compactor.
4. `ReadBufferTable`: tag columns, so that grouped aggregates and
   `column_values` have data to return.
5. `TracedBody` in `src/trace_http/src/tower.rs`: the classification of a
   response body stream. A stream that ends without `is_end_stream` never
   classifies.

The run budget is full at twelve runs. A new question replaces a weaker
run.

Not modelled, and why:
- CLI commands, server wiring and tracing export: no state machine.
- DataFusion plan execution, statistics and encodings: data processing.
- The router namespace cache: single locked map operations.
- The remaining unmapped lines are, for the most part, unit tests of the
  modelled files, test fixtures (`iox_tests`, `query_tests`), CLI
  commands, tracing and DataFusion planning. `compute_sort_key` in
  `src/iox_query/src/lib.rs` is used by no modelled path, and
  `src/iox_query/src/statistics.rs` is a type conversion.
- Test fixtures and benches. The scenario generator of
  `src/query_tests/src/scenarios/util.rs` (its delete and persist
  orderings) and `TracedBody` in `src/trace_http/src/tower.rs` could each
  be a module, but each needs a run of its own, and the run budget is full.
