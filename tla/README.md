# A verification model of simple_olap

simple_olap is a column store with an embedded SQL engine. This directory holds
TLA+ modules that model its core, the TLC configurations that check them on
small instances, and theorems about them that TLAPS proves for every size.

Paths below are relative to the repository's `src/` directory.

## 1. The system

### Components

| component | state | operations | talks to |
|---|---|---|---|
| **Table storage**, `storage/table/` | `metadata_.segment_ids`, the active segment, sealed segments, segments pending visibility, two indexes, a cache of open readers; on disk one file per segment and `table.meta` | `Create`, `Open` (rebuilds the indexes), `Append`, `Flush`, `~TableStorage`, `Scan`, `ScanParallel`, `Lookup`, `ReadRows` | segment files, indexes; called by the command executor, the scan operators and `StorageManager` |
| **Key indexes**, `storage/index/` | primary: key -> one location; secondary: key -> locations; each with a visible flag | `ValidatePrimaryKey`, `OnAppend`, `RebuildFromBatch`, `MarkSegmentsVisible`, `Lookup` | table storage |
| **Segments**, `storage/segment/`, `storage/file/` | per column a contiguous block with min/max statistics | `SegmentBuilder::Append`/`Flush`, `SegmentReader::Open`, `EvaluatePredicates`, `GetVectorBatch`, `GatherRows` | table storage, the file system, mmap |
| **Parallel scan state**, `storage/scan/parallel_scan_state.h` | snapshot of segment ids, an atomic counter, an atomic cancel flag | `ClaimSegment`, `Cancel` | workers of one query |
| **Parallel executor**, `execution/parallel/` | on the stack of the caller: result queue, worker count, futures, plan and builder | `ExecuteQuery`, `ExecuteAggregate` | thread pool, table storage, result queue, consumer callback |
| **Result queue**, `parallel/queue/` | queue, mutex, two condition variables, three flags, an exception | `Push`, `Pop`, `Close`, `Abort`, `Cancel`, `Error` | workers and the calling thread |
| **Thread pool**, `parallel/thread_pool/` | task queue, mutex, condition variable, `stopped_` | `Submit`, `WorkerLoop`, `Shutdown` | every parallel query of the database |
| **Database, catalog, storage manager**, `main/database.cpp`, `catalog/`, `storage/storage_manager.cpp` | tables by name and id, `catalog.meta`, open tables by id, table directories | `CreateTable`, `DropTable`, `LoadMeta`, `SaveMeta`, `GetTable`, `Flush` | table storage |
| **Connection**, `main/connection.cpp` | none; prepared plans | `Query`, `Execute`, `Prepare` | planner, execution engine |
| **Execution engine, commands, operators**, `execution/` | one pipeline of operators per query or worker | choice of the serial or parallel path, INSERT, scan, filter, projection | table storage, expressions |
| **Aggregation and expressions**, `execution/aggregate/`, `execution/expression/` | hash tables of partial aggregates | `Consume`, `Merge`, `NextResult`, `Eval` | operators |
| **Row filter and selection masks**, `storage/scan/`, `simd/` | prepared predicates, bitmaps | `Build`, `Apply`, kernels | table storage |
| **Memory**, `memory/` | arenas, block pool, buffer pool and their limits | `Allocate`, `Acquire`, `Release` | every query |
| **SQL front end, binder, planner, optimizer**, `sql/`, `planner/` | none between statements | parse, bind, plan, push predicates down, pick an index | catalog |

### How they interact

`Connection` plans a statement and runs it through the `ExecutionEngine`. An
INSERT becomes one `TableStorage::Append` of a whole batch. Rows stay in memory
until `Flush`; only flushed segments are scanned. A query runs serially, pulling
batches through `Scan`, or in parallel: the executor submits one pipeline task
per worker to the pool, the workers claim segments of a snapshot with an atomic
counter, and either push result batches into a bounded queue that the calling
thread drains into the consumer, or fold them into partial aggregates that the
calling thread merges.

### What is hard here

* *Crashes and I/O errors.* A flush writes segment files, then rewrites
  `table.meta` in place. Each file can fail on its own, and the process can die
  between any two steps.
* *State kept twice.* The same rows are described by segment contents, by two
  indexes with their visibility flags, by `segment_ids`, by the pending list and
  by `table.meta`; most operations change some of these and may fail halfway.
* *Shutting a query down.* Workers, calling thread, consumer and `Submit` may all
  throw; the others may be blocked on a full or an empty queue; the data they
  share lives on the caller's stack.
* *Condition variables.* Notifications are sent outside the mutex.
* *Stale reads.* The serial cursor compares itself with a live list.

`PROJECT.json` lists these as hazards with the line where each bites and the
properties that watch it.

### What makes each component correct

* Table storage: what `Flush` acknowledged survives; the table can be reopened;
  published segments never change; the index and the rows agree; primary keys
  are unique over everything the table holds; lookups see what scans see.
* Serial scan: exactly the matching rows, in order, whatever pruning does.
* Parallel query: each batch once; whole result or an exception; nothing on the
  caller's stack is used after the call; no hang.
* Parallel aggregation: a result is computed from all of the snapshot.
* Queue: FIFO, bounded, drained after the end, nobody forgotten.
* Pool: each accepted task runs once; shutdown returns.
* DDL: catalog, open tables and directories agree; a table that was created is
  not lost and a table that was dropped does not come back.
* Statements: a text is read whole and as documented; a query answers what its
  tree says of the flushed rows, whatever plan runs it; an INSERT is all or nothing.
* Memory: no buffer, block or range has two owners, and nothing borrowed outlives
  what it borrows from.

## 2. Modules

| module | models |
|---|---|
| `TableStorage` | the write path and the life of one table: `Create`, `Append`, `Flush`, `SaveMeta`, the destructor, `Open`, `RebuildIndexes`, both indexes, the disk |
| `TableScan` | `TableStorage::Scan` and `ScanSegment` |
| `ScanWorkers` | what all parallel queries share: `ResolveWorkerCount`, task submission, `ClaimSegment`, `ScanParallel`, cancellation |
| `ParallelQuery` | `ParallelExecutor::ExecuteQuery`; extends `ScanWorkers` |
| `ParallelAggregate` | `ParallelExecutor::ExecuteAggregate`; extends `ScanWorkers` |
| `QueryDelivery` | abstract: what the caller of a query sees |
| `SharedPool` | two instances of `ParallelQuery` on the threads and the task queue of one pool |
| `BlockingQueue` | `BoundedBlockingQueue` with its mutex and condition variables |
| `BoundedChannel` | abstract: the atomic queue |
| `ThreadPool` | `ThreadPool` |
| `Database` | `Catalog`, `StorageManager` and `Database`: all tables, `catalog.meta`, the directories |
| `Values` | types, casts, rounding and comparison of values |
| `Sql` | lexer, parser and the printing of expressions; extends `Values` |
| `Planning` | binder, planner, optimizer, physical planner; extends `Sql` |
| `Predicates` | pushed predicates: segment statistics, rewriting for a column's type; extends `Values` |
| `Execution` | expressions, filters, scans, projection, aggregation, INSERT values; extends `Planning` and `Predicates` |
| `Statement` | a connection: statements from text to answer, over `Execution` |
| `BatchBuffers` | vectors, batches and the `BufferPool` while a SELECT runs |
| `Arenas` | `Arena`, `QueryMemoryContext` and the `BlockPool` |
| `QueryMemory` | one query that works on buffers or on arenas; composes the two |
| `TableStorageProofs`, `TableScanProofs`, `DatabaseProofs`, `ScanWorkersProofs`, `ParallelQueryProofs`, `ParallelAggregateProofs`, `QueryMemoryProofs` | theorems about the module they are named for |
| `MonitorProofs` | theorems about the two monitors, `BlockingQueue` and `ThreadPool` |
| `MC...` | constants and symmetry for TLC |

Definitions whose comment begins with "Mutant" are deliberately wrong variants
of the definition below them. No specification uses them; each documents a
plausible mistake that one of the properties catches.

### TableStorage

The variables are the members of the class, the disk, and the locals of the
operation that holds `index_mutex_`. That mutex is held by `Append`, `Flush` and
`Lookup` from start to end, so one program counter `pc` is enough; the
destructor and `Open` run before and after all sharing.

| code | model |
|---|---|
| `Append`: duplicate key exception | `AppendRejected` |
| `Append`: start, one iteration that splits, the last iteration and `OnAppend` | `AppendBegin`, `AppendSplit`, `AppendFit` |
| `DataChunk::Slice` | `SliceHead`, `SliceRest` |
| `Flush`: sealing; one sealed segment; `SaveMeta`; the tail | `FlushBegin`; `SegmentOpened` then `SegmentWritten` or `SegmentWriteFails`, or `SegmentOpenFails`; `MetaOpened` then `MetaWritten`, `MetaWriteFails` or `MetaCloseFails`, or `MetaOpenFails`; `FlushReturns` |
| `~TableStorage` | `Close` and the steps of `Flush` with `closing` |
| `Open`, `RebuildIndexes` | `Open`, `RebuildSegment`, `RebuildDone`, `RebuildFails` |
| process death | `Crash` |

A file that has been truncated and not yet completely written is *torn*. A
torn `table.meta` does not deserialize; a torn segment makes `Open` fail. The order in
which the unordered map of sealed segments is visited is any order. `acked` and
`skipped` are history variables. A `Flush` that returns true answers for every row
that was appended before it (`acked`), those of a sealed segment it could not write
included; the latter are `skipped` as long as the process lives that has forgotten
them. When it ends they are written off from both.

Files once closed are taken to survive a crash: the code calls no fsync and
claims nothing about power failures, so a crash is the death of the process.

### TableScan

The initial states are all contents of the segments, not one. Between two calls
of `Scan` a `Publish` step adds a segment, as a flush from the consumer or from
another session does; inside a call it does not (see section 6). Segment
statistics may give any answer that is true of the segment, which includes a
segment without statistics. That the arithmetic of `EvaluateByStats` gives true
answers, and when, is proved about `Predicates` (section 4).

A batch that `Scan` returned is the segment it comes from and the set of its rows,
which its selection lists upwards. `ScanIsExact` compares places of rows, not
sequences: batches hold matching rows, every row of a batch lies before every row of a
later one, and no matching row before a returned one was left out.

### ScanWorkers, ParallelQuery, ParallelAggregate

`at[w]` is where worker `w` is in `Build; while (Next) ...`, at the granularity
of its shared accesses: the cancel flag, the counter, the queue, the atomic
count of active workers. `coord` is where the calling thread is. The pool is
reduced to `FreeThreads`, the threads other queries leave; `ThreadPool` justifies
that a submitted task is taken as soon as a thread is free. The queue is the
atomic one, which `BlockingQueue` justifies. An aggregation state is the sequence of
batches it consumed.

Faults: `"worker"` (building the pipeline, opening a segment or evaluating a
batch throws), `"submit"` (`Submit` throws, between any two tasks), `"consumer"`
(the callback throws). Running out of memory in the calling thread between two
statements is not considered.

### BlockingQueue, ThreadPool

A step is a critical section, a notification or a wakeup. `NotifyOne` wakes any
one waiting thread or nobody; `WakeUp`, in `ThreadPool` `WorkerWakes`, is a spurious
wakeup. In `BlockingQueue`
an element is named by its producer, and `call` and `ret` say which call a
thread is in and what it returned, so that `BoundedChannel` can be the
specification it refines with the identity mapping.

### SharedPool

Two complete queries, each an `INSTANCE` of `ParallelQuery` with variables of its
own, and the pool they have in common: a task waits in `tasks` until a thread is
free, in the order of submission. `nested` says whether the second query is begun
by the consumer of the first, inside its pop loop, or by another session. A
nested query is considered when the pool has more threads than the outer query
has workers: with as many it may wait for ever (section 6).

### Database

`CREATE` and `DROP` change the catalog and a directory one after the other, each
by several file operations. The model has one action for each of them and each
may be answered by an error or be the last thing the process does.

| code | model |
|---|---|
| `Database::Open`, `Catalog::LoadMeta`, a new catalog | `LoadMeta`, `CreateCatalog` |
| `Catalog::SaveMeta` | `OpenCatalogFile`, `WriteCatalogFile` |
| `CreateTable`, its roll-back | `CreateTable`, the save, `MakeDirectory`, `WriteTableMeta`, `RollBack` |
| `DropTable` | `DropTable`, the save, `CloseTable`, `ClearMark`, `Rename` |
| `GetTable` and an append; `Flush` of all open tables | `Insert`, `Flush` |
| end of the process | `CloseDatabase`, `Crash` |

The program identifies a table by its id, and an id is handed out again. To say
that *this* table is still there, each accepted CREATE makes a new incarnation, a
number no code reads. `created`, `asked`, `gone` and `stored` are history: the
incarnations whose CREATE returned true, for which a DROP began, whose DROP
returned true, and whose rows a `table.meta` has listed. `GetTable` looks at the id
alone and opens whatever the directory of that id holds, so the storage that
`Insert` opens carries the incarnation of the directory, not that of the catalog
entry. What is inside a table is the business of `TableStorage`; here a table has
rows or has none.

### Values, Sql, Planning, Predicates, Execution, Statement

The path of a statement, each module a layer of operators over the one before;
`Statement` has the state.

* `Values`. A number is counted in halves, so that 0.5 and 1.5 exist and ties
  have to be rounded; a string is its place in the order of strings. Integers have
  a few bits and floating point numbers a few bits of mantissa, in the order of
  the program's types: every INT32 is a DOUBLE, an INT64 need not be.
* `Sql`. A text is a sequence of lexemes. The parser is the recursive descent of
  `parser.cpp`, an operator per function; `ToText` is `ToString` of expressions.
* `Planning`. `BindStatement` resolves names and types and refuses what the
  binder refuses. `Optimize` splits the condition into predicates for storage and
  a remainder, and prunes columns. `CreatePhysicalPlan` chooses an index when a
  key is covered by equalities with literals the key can hold.
* `Predicates`. `EvaluateByStats` on the bounds of a column, which are doubles;
  `PreparePredicate`, which clamps a literal to an integer column's range, replaces
  a fraction by the next integer, and rounds a literal for a FLOAT column. Nothing
  here is recursive, so it can be proved about.
* `Execution`. Expressions are evaluated for a row and, as in `exec_expression.cpp`,
  by vector kernels over a batch; storage predicates by statistics of a segment
  first and by row then; aggregates by one hash table per worker, merged in the
  order of workers.
* `Statement`. `Submit`, `Parse`, `Bind`, `Plan`, then one of `ExecuteQuery`,
  `ExecuteAggregate`, `ExecuteInsert` and `ExecuteCreateTable`; `Flush` between
  statements. In `ExecuteAggregate` any worker may claim any segment.

The reference is in `Statement`: `Means` is the value of a syntax tree for a row,
`MeansAggregate` that of an aggregate for some rows, `Meaning` the answer of a
query to all flushed rows. None uses the binder, the plan or an operator of
`Execution` but the arithmetic. `AnswerIsExact` compares bags of rows and demands
an answer wherever the reference has one; where it has none, the tree combines
types that do not go together and a plan may throw or, having pushed a predicate
down, may not come to it.

### BatchBuffers, Arenas, QueryMemory

Memory that is borrowed carries no owner in the code, so the model gives one to
it. Every batch has a number, each buffer remembers the number of the batch it was filled
for, and a reader looks for the number of its batch: when it meets another one it has read
memory that was given back (`ResultsKeep`). The pool locks a free list for one call of
`Acquire` or `Release`, so a step fills or gives back one column (`Fill`, `GiveBack`), and
other threads run in between. `at` tells where a thread is: at the start of a scan, reading
rows, in a dense or a sparse projection (before and after `BuildGatheredInput`), showing a
batch, copying it, or leaving; `hand` holds what it works on there: `input_`,
`gathered_input_`, its batch and the chunk under copy. `Clear` gives back, in the order of
the code, what the station of the thread lets go. A thread may leave at any point, and then
clears everything; the queue goes with the call (`Drain`). Which address the system hands
out is a parameter (`Allocator`).

In `Arenas` a block is an address with a capacity and an allocation a range of
its bytes. `Allocate` bumps the offset after aligning it, `Grow` takes a block of
the pool or of the system, `Reset` keeps the blocks, `Release` and `ReleaseBlock` give
them back one by one, other arenas running in between.

`QueryMemory` composes the two: both pools belong to the database, share nothing, and a query
is followed in the one it works on.

## 3. Runs

"Violation" runs check a statement that a comment of the repository makes and
the code does not keep; the trace is TLC's.

| run | question | outcome |
|---|---|---|
| `table_faults` | all of table storage with every fault, crash and reopening | holds |
| `table_wide_batch` | is a batch wider than two segments stored whole? | no: `Slice` of a slice |
| `database_faults` | catalog, open tables and directories through CREATE, DROP, INSERT, restarts and every fault | holds |
| `scan` | exactly the matching rows, in order; the scan ends | holds |
| `statement` | statements from text to answer against their meaning | holds |
| `query_faults` | a parallel query with failing workers, submissions and consumer | holds |
| `query_consumer_throws` | are workers joined when the consumer throws? | no |
| `aggregate_faults` | an aggregation with all three faults | holds |
| `shared_pool` | do two queries on one pool both return? | yes, within the condition on threads |
| `queue` | does the queue implement the channel? | yes |
| `pool` | tasks, sleeping threads and shutdown | holds |
| `query_memory` | owners of buffers, blocks and ranges | holds |

What the properties say:

* `table_faults`: every index entry names the row that has its key
  (`IndexedRowsMatch`), every row has its entries (`EveryRowIndexed`), a primary key
  occurs once in everything the table holds (`UniquePrimaryKeys`), lookups and scans
  see the same rows unless a `SaveMeta` failed (`LookupsFollowScans`), `table.meta` lists
  only whole segments (`MetaNamesWholeSegments`), a row `Flush` answered for is lost
  only because its own segment could not be written or the process ended with
  `table.meta` torn (`LostOnlyByFailedWrites`), published segments never change
  (`PublishedIsStable`).
* `database_faults`: names and entries agree (`CatalogAgrees`), a storage made for
  another table is served only to a table whose CREATE never returned true, and only
  one that an unfinished DROP left (`ForeignFilesAreLeftovers`), a
  created table stays listed under the id of its own directory
  (`CreatedStayListed`), its rows stay there (`StoredRowsStay`), a dropped table
  comes back nowhere (`DroppedStayGone`).
* `statement`: the parser groups as documented (`GroupsAsDocumented`), no
  word of a query is dropped (`ReadsWhole`), answers are
  exact (`AnswerIsExact`), created schemas are well formed (`SchemasAreSound`), an
  INSERT stores what it says or nothing (`InsertIsExact`).
* `query_faults`: no worker touches the frame of a call that returned, unless the
  consumer threw (`WorkersInsideFrame`); no batch twice, none missing when the call
  returns (`EachBatchOnce`); a failure reaches the caller (`ErrorsReachCaller`); the
  queue is closed after the last push (`CloseIsLast`); the call ends and the workers
  leave (`Termination`, `WorkersLeave`); it implements `QueryDelivery` (`Delivers`).
* `aggregate_faults`: `WorkersInsideFrame`, and no result from part of the table
  (`ResultIsWhole`), `Termination`.
* `queue`, `pool`: nobody sleeps while there is work or an end to see
  (`NoLostWakeup`, `NoTaskForgotten`); `ImplementsChannel`; an accepted task is in one place only and
  runs once (`EachTaskOnce`), accepted tasks run and `Shutdown` returns
  (`AcceptedRuns`, `ShutdownEnds`).
* `query_memory`: a buffer or block has one owner (`OneOwner`, `BlocksAccounted`),
  live ranges do not overlap (`RangesApart`), results read what was written for
  them (`ResultsKeep`).

Type invariants are proved (section 4) and are not spent a run on.

### Bounds, and why they are enough

* `table_faults`: three primary and two secondary keys, segments of two rows,
  batches of at most two rows, four segment ids. Three rows of which one segment
  holds two: an append can fill a segment, spill into the next one and leave it
  half full; four ids allow two flushes, a crash and appends after reopening. A
  batch of at most `SegCap` rows is sliced at most once, and within that
  bound index and rows agree; `table_wide_batch` shows what lies beyond it. In
  the code a segment holds 65536 rows.
* `database_faults`: two names, three incarnations, all eleven kinds of fault. An
  id is reused as soon as a table was dropped, so three incarnations under two
  names meet each other's directories; a third name would only repeat this.
* `scan`: two predicates, up to two segments of up to three rows, batches of two:
  a full batch, a partial one, a batch without a match, a pruned segment.
* `statement`: INT32 of 4 bits, INT64 of 6, mantissas of 2 and 4 bits; one table
  with a column of each type, three keys and two segments, and an empty one; two
  workers. The texts are generated: every comparison of two operands, pairs and
  triples of conditions joined both ways with and without parentheses, projections,
  aggregates with and without groups, and scripts of CREATE, INSERT and SELECT, well
  formed and not: 480 starts. Left out are the inputs of section 6 on which the
  code is known to differ.
* `query_faults`: three segments, one of which is filtered away, three workers
  on two free threads, one queue slot: more segments than workers that can run,
  more batches than slots, a worker that finds no segment left.
* `aggregate_faults`: four segments for three workers on two threads.
* `shared_pool`: two workers per query; two threads for two sessions and three
  threads for a nested query; two segments of two batches, one queue slot, so that
  workers of either query block on a full queue while holding a thread.
* `queue`: two producers, two consumers, capacity 2: `notify_one` has a choice on
  both sides, and a notification can be lost to a thread that does not need it.
* `pool`: two threads, two clients, four tasks.
* `query_memory`: two workers with two batches between them, projections that copy, repeat
  and compute columns, one queue slot, one size class and one cached buffer, and
  a system that hands out the lowest free address, so that a buffer is recycled at once by
  whoever asks; 15 addresses, more than a query of two batches ever holds; two arenas over three blocks of six bytes,
  requests that fit, need alignment, or need a block of their own.

Deadlock is checked in `query_faults`, `aggregate_faults`, `shared_pool`, `queue`, `pool` and
`scan`. `Finished` and `Stopped` steps mark the states in which the other components
are done. It is not checked where the system really stops: a table or a database
whose meta file was torn can never be opened again, a connection is done after
its script, a query after its answer.

### Fairness

* Parallel queries, shared pool, pool and queue: weak fairness of every step a
  thread can take on its own. It says the operating system schedules every
  runnable thread and mutexes are not starved; a thread in `Push`, `Pop` or
  `future.get()` takes its step only while the condition holds. No fairness for
  faults, for beginning a call, for `Submit`, for `Stop` or for spurious wakeups.
* `scan`: weak fairness of the scan's own steps, since the operators pull until
  `Scan` returns false. Publication is bounded.
* Table storage, database, statements and memory have safety properties only.

## 4. Proofs

Each theorem holds for every value of the constants that the assumption of its
module allows (positive capacities, finite sets of threads, known faults). The
safety properties are not inductive; each proof has an inductive invariant, a
conjunction of named parts.

| theorem | statement |
|---|---|
| `TableStorageProofs`: `TypeCorrect`, `Reopenable`, `Durable`, `Stable` | `TypeOK`, `MetaNamesWholeSegments`, `LostOnlyByFailedWrites`, `PublishedIsStable` |
| `TableStorageProofs`: `IndexesMatch`, `IndexesComplete`, `KeysStayUnique`, `LookupsExact` | if `MaxBatch <= SegCap`: `IndexedRowsMatch`, `EveryRowIndexed`, `UniquePrimaryKeys`, `LookupsFollowScans` |
| `DatabaseProofs`: `DatabaseTypes`, `Agreement`, `LeftoversOnly`, `CreatedTablesStay`, `RowsStay`, `DroppedTablesStayGone` | `TypeOK` and the five properties of `database_faults` |
| `TableScanProofs`: `ScanTypes`, `ScanKeepsPlace`, `SerialScanIsExact` | `TypeOK`, `ScanInv`, `ScanIsExact` |
| `TableScanProofs`: `PushedPredicateIsExact`, `StatisticsAreVerdicts` | of `Predicates`: a row is kept exactly when the predicate holds of it; the statistics answer what `TableScan` lets them |
| `MonitorProofs`: `QueueTypes`, `NobodyForgotten`, `QueueIsChannel` | `TypeOK`, `NoLostWakeup`, the safety part of the refinement of `BoundedChannel` |
| `MonitorProofs`: `PoolTypes`, `TasksOnce`, `PoolForgetsNobody` | `PoolTypeOK`, `EachTaskOnce`, `NoTaskForgotten` |
| `ParallelQueryProofs`: `QueryTypes`, `NobodyOnDeadFrame`, `BatchesOnce`, `FailuresAreReported`, `EndIsLast`, `QueryIsDelivery` | `TypeOK`, `WorkersInsideFrame`, `EachBatchOnce`, `ErrorsReachCaller`, `CloseIsLast`, the refinement `Delivers` |
| `ParallelAggregateProofs`: `AggregateTypes`, `NobodyOnDeadStack`, `WholeOrNothing` | `TypeOK`, `WorkersInsideFrame`, `ResultIsWhole` |
| `QueryMemoryProofs`: `ArenasStayConsistent`, `RangesStayApart`, `BlocksStayAccounted` | `ArenaInv`, `RangesApart`, `BlocksAccounted` |
| `QueryMemoryProofs`: `BatchesStayConsistent`, `BuffersHaveOneOwner`, `ResultsStayRight` | `BatchInv`, `OneOwner`, `ResultsKeep` |

### Table storage

`TypeInv` adds to `TypeOK` what types depend on: the part of a batch still to be
stored lies inside the batch (`ChunkInBatch`), the segment being written is a
sealed one (`FlushLoop`), and every listed segment has a file (`FilesExist`).
`NextTypeInv` has one step per action.

`IdInv` is about segment ids, the thread that holds crash safety together.
`IdsBelowNext`: every id in use is below `next_segment_id_`, which `Open` sets
above everything `table.meta` lists. `UnwrittenIsNew`: an id still to be
written, of the active or a sealed segment, is listed nowhere, so truncating its
file harms nobody. `MetaBehindMemory`: while the table is up, a whole `table.meta`
lists a part of what memory lists, so rewriting it loses nothing.
`AckedIsPublished` and `AckedIsListed`: the rows a `Flush` answered for and did not
skip are in segments that memory lists while the table is up, and that a whole
`table.meta` lists; `WrittenAsSealed`: a sealed segment that was written is on disk as
it was sealed, so a row answered for is in the file or its segment was skipped.
`MemoryNamesWholeSegments` and `DownIsEmpty` close the induction. With these a
flush can only write new files and extend the list, a crash leaves either the old
list, the new one or a torn file, and reopening restores the same invariant.
`Stable` follows from the same invariant, step by step (`StepKeepsPublished`).

`IndexInv` is about the indexes and needs a hypothesis, `MaxBatch <= SegCap`: a
batch is no wider than a segment. Without it the properties are false, which is
what `table_wide_batch` shows. With it a batch is split at most once, and at a
slice that starts where its buffer does (`OneSplit`). `RowsIndexed`: each row the
table holds has its entries, or is one the batch under way has just stored; such a
row is in no index yet, and the keys of the batch were checked against the index
beforehand, so keys stay unique while it is stored. `RebuiltSoFar` follows the
loop of `RebuildIndexes`; its inserts overwrite nothing because the segments a
whole `table.meta` lists have no key twice (`DiskKeysOnce`), and that holds because
what memory lists has none (`RecordedKeysOnce`). `VisibleIsRecorded` is what `LookupsExact` adds:
an entry is visible only in a recorded segment and hidden only in a pending one.

### Database

`TypeInv` ties the call under way to its kind and place (`CallFits`). `IndexInv`
proves `Agreement`: names in `catalog.meta` are distinct, and the entry a call works
on is the one its roll-back would remove.

The next three are about what the past promised. A *claim* on an incarnation is
an entry of the catalog, of a whole `catalog.meta`, or a directory. `OnePlace`: all
claims on an incarnation are under one id. `BelowNext`: claims are older than the
next incarnation, so only CREATE makes a new one. `SavedCatalog`,
`CreateUnderWay` and `DropUnderWay` say, for each place a call can be at, what
memory, `catalog.meta` and the directory hold; between calls they hold the same.
`RowsListed` follows the rows. Losing a created table would take a step that
removes a claim without a DROP; the only such step is a roll-back, whose
incarnation has not been created yet.

`FilesInv` is about whose files a storage writes. `OpenServesDirectory`: an open
storage has the files of its directory. `FilesWereCreated`: a `table.meta` that can be
opened belongs to a table whose CREATE returned true, since CREATE truncates before
it writes. `ListedLivesIn`: a created table in the catalog has the directory of its
own id. `LeftoversOnly` follows: a storage that is not the entry's own belongs to
another created table; if nobody had asked to drop that one, `CreatedStayListed`
would have it in the catalog under the same id; it is not gone, for what is gone is
claimed nowhere; and had the entry's own CREATE returned, the directory would be its
own.

### Serial scan

`ScanInv`, for any predicates and any numbers of rows and segments. `CursorOK`: the
cursor is on a segment whenever a step reads one, also after a segment was published
between two calls. `DecisionOK`: while a decision is kept, the predicates left out of the
row filter hold of every row of *this* segment; it holds because `Advance` drops
the decision, and is what makes a row that passes the filter a match
(`PassingIsMatching`). `BatchesMatch` and `BatchesOrdered` speak of what was returned,
`NothingMissed` of every matching row the cursor has passed, batches without a match
and pruned segments included (`DecideKeeps`). When `Scan` returns false the
cursor has passed everything, so `ScanIsExact` follows.

### Pushed predicates

The scan's model supposes that statistics tell the truth and that the row filter
evaluates the predicate. `PushedPredicateIsExact` proves both of the code's
arithmetic, for integers of any width and mantissas of any length: a row of a
segment that is not skipped, and that the statistics or the prepared filter accept,
is one the predicate as written holds of, and every such row is accepted.
`StatsAreBounds` says what the minimum and maximum of a column are (they exist because
a segment has a row: the least prefix without one would be a counterexample),
`AnswersAreTrue` goes through the six operators, `ConstantIsExact` and `FractionIsExact` cover
literals outside the range and between two integers. The hypotheses are the
condition under which the code is right: column values and literal are exact
doubles, and the literal is a number of a floating column's type. They exclude what
section 6 lists (INT64 beyond 2^53, FLOAT literals a float cannot hold). That the bounds
of an integer type are integers is a hypothesis too (`HasRange`), because the provers
have no facts about powers. `StatisticsAreVerdicts` ties the answer to `Verdicts` in
`TableScan`.

### Queue and pool

`NoLostWakeup` counts threads: as long as a producer sleeps, the free slots are at
most as many as the threads that are in `Push` or about to notify. The proof
splits it in a half per condition variable and follows each step by what it adds
to and takes from these counts (`Moves`, `Wakes`); the lemmas about counting prove
that a step of one thread changes a count by at most one. Capacity and threads are
arbitrary. For the refinement, a call is opened with its section and settled
when it leaves it (`CallsOpen`), so each step of the queue is a step of the
channel or none. `TasksOnce` follows the places of a task: queued, in the hands of
one worker, done.

### Parallel queries

`ScanWorkersProofs` is about the part both executors extend. `ScanInv`: tasks are
submitted in order (`SubmittedFirst`), cursors lie in their segments (`Cursors`), each
claimed segment is below the counter and has one worker (`ClaimedOnce`), and a
worker leaves because there is nothing left or somebody cancelled
(`LeavesForAReason`). `Passed` is the set of batches that workers have let go, a
function of these variables: a scan step leaves it alone, handing a batch over
adds just this one, and when all workers are done and nobody cancelled it is
everything (`AllPassed`).

`QueryInv` for `ParallelQuery` adds: the batches passed are those delivered or
queued, each once, unless the queue was aborted or cancelled (`Sent`); those
of one segment come in storage order (`Ordered`); `active` is the number of workers
still inside and the last one closes the queue (`Leaving`); whoever
failed has put an error in the queue or is about to (`Errors`); where the calling thread is tells what it has
seen (`Calling`). `QueryIsDelivery` maps every step to one of `QueryDelivery` or to a
stutter. `AggregateInv` for `ParallelAggregate` adds: the states of the workers
hold what they passed (`Folded`), the merged result what the joined workers folded
(`Merged`), and `Failing` and `Calling` as above.

### Memory

`ArenaInv` is about `Arenas` inside `QueryMemory`, for any number of arenas, block
size, alignments and cache limit. `Homes`: every block the system has handed out is in
one place, the free list or one arena, once, and nowhere else. `WithinBlocks`: no arena has
bumped past the capacity of a block. `Carved`: an allocation lies below the offset of a
block its arena has, and two allocations of an arena do not overlap. `CallsOK`: what a call
in the middle of `Grow` has asked for. `Counted`: the balance of the byte counters is
the number of blocks. `RangesApart` follows because two arenas share no block;
`BlocksAccounted` from `Homes` and `Counted`. The proof reduces the steps to three
changes of an arena, `Given` (a block comes), `Cut` (an allocation is bumped off) and
`Without` (the first block leaves), and two of the heap, each with lemmas of its own;
alignment is arithmetic of remainders (`AlignUpFits`).

`BatchInv` is about `BatchBuffers`, for any threads, projections, size classes, limits and
allocator. Neither property is inductive alone: that a borrowed column still holds its data
follows from who owns the buffer, and that a buffer is not handed out while somebody reads
it follows from where the owner stands. `BatchInv` has three layers. `PoolOK`, `QueryOK`,
`BatchesOK`: types, and that a parallel query scans (`parallel => source = "seq"`).
`OneOwner` and `FilledFor`: a buffer has one keeper, and one that is owned was filled for the
batch that owns it. `ThreadOK`, `CopyOK`, `QueueOK`, `ChunksOK`: who borrows from whom at
each station; a scan borrows from segments, a dense projection also from the thread's own
`input_`, a sparse one owns what it has, `gathered_input_` borrows from the thread's own batch
once the direct columns are gathered, what is queued borrows from segments alone (the
`input_` of a parallel query owns nothing), a copy borrows nothing. The third layer is about one
thread at a time (`ThreadStep`: a step concerns the batches of its thread), so nothing
has to be known of interleavings but the second one. `ResultsKeep` follows: a column that
owns its buffer, or borrows from one that does and has the same number, finds its data
(`OwnedHolds`, `LentHolds`). The proof reduces the steps to seven changes of the keepers:
a column is filled (`FillKeeps`) or cleared (`ClearKeeps`, `DrainKeeps`), a batch moves into the
queue, the result or a hand (`QueuedKeeps`, `ChunkKeeps`, `PopKeeps`), or one that owns nothing
replaces another (`BlankKeeps`). The assumption on the plans says what `Init` and
`TryCompileVectorExpression` build: a direct column has one slot, a vector expression reads one
at least; without the latter `gathered_input_` could be of an earlier batch.

## 5. What is only model-checked

* Liveness (`Termination`, `WorkersLeave`, `ScanEnds`, `AcceptedRuns`, `ShutdownEnds`,
  `BothReturn`, and the liveness part of `ImplementsChannel`): the proof system has
  no rule for fairness.
* `statement`: `Sql`, `Planning` and `Execution` are recursive over trees. The
  provers cannot use recursive operators, nor induction over data. Of the path of
  a pushed predicate, the part for one predicate and one column is proved.
* Table storage where a batch is wider than a segment: there the index properties
  do not hold, and the theorems about them exclude it.

## 6. Known divergences

Places where the code does not do what it, its comments or its callers expect.
Those that name a run are shown by it; the others were met while translating and
are either part of the models as they are or, where said so, kept out of the inputs.

Storage:

* A batch that spans more than two segments is stored wrongly: `Slice` of a slice
  starts from the buffer and not from the slice (`table_wide_batch`).
* A consumer that throws leaves workers running on the stack of the call
  (`query_consumer_throws`).
* `Flush` returns true although a segment could not be written, and has dropped its
  rows (`src/storage/table/table_storage.cpp:186`, against `table_storage.h:60`).
  Their keys stay in the index and are refused until the table is opened again.
* `SaveMeta` answers true when only the close fails (`table_storage.cpp:219`), and a
  table created that way is lost. `table.meta` is rewritten in place: if the process
  ends while it is torn, by a crash inside a save or after a failed one, every row
  flushed earlier is out of reach. These two faults are the exceptions that
  `LostOnlyByFailedWrites` names; no other event takes a row `Flush` answered for.
* After a failed `SaveMeta` lookups miss rows that scans return
  (`table_storage.cpp:186` against `table_storage.h:97`).
* The serial scan takes in segments that are flushed meanwhile
  (`table_storage.cpp:277`), which the comment at line 451 denies; a segment that
  cannot be opened is a null pointer there, not passed over (line 402 against 410).
* `DropTable` frees the schema to which the open storage still points
  (`src/main/database.cpp:50`, `table_storage.cpp:264`).

Catalog:

* A `CREATE` whose save fails leaves `catalog.meta` torn, where
  `src/catalog/catalog.h:35` promises no side effect.
* A `DROP` whose save is refused leaves the storage open under an id that is
  handed out again: creating a table under it fails until the restart.
* A `DROP` interrupted before the rename leaves the directory to whoever gets the
  id next. The next CREATE truncates its `table.meta`, where the comment at
  `src/storage/storage_manager.cpp:62` says the data is only marked and not lost.
  If that CREATE is interrupted too, before it truncates, the new table is served the
  old one's storage and its rows go there (against `storage_manager.h:38`);
  `ForeignFilesAreLeftovers` says that nothing else leads to this. `StoredRowsStay`
  and `CreatedStayListed` speak of tables nobody began to drop, `DroppedStayGone` of
  those whose DROP returned true.

Statements (`statement` has no such inputs where the answer would differ):

* A lone `!` ends the text unseen and unknown characters are dropped
  (`src/sql/lexer/lexer.cpp:93`), while `parser.cpp:65` means to refuse what it does
  not read; INSERT and CREATE accept trailing tokens; `--` recurses without end
  (`lexer.cpp:68`).
* INSERT of an arithmetic expression with a column inside uses a null context
  (`src/planner/binder.cpp:196`). No INSERT can give an INT64 or a FLOAT column a
  value.
* An integer literal on an indexed FLOAT column is accepted as a key
  (`src/planner/physical_plan/physical_planner.cpp:30`) and refused by the encoder
  when the scan opens. -0.0 and 0.0 are different keys.
* Statistics compare as doubles (`src/storage/segment/segment.cpp:111`): a FLOAT
  literal that a float cannot hold, or integers beyond 2^53, may prune what the
  row filter keeps.
* MIN and MAX over no row of a VARCHAR column throw.

Threads:

* A consumer that runs another query on the same database can wait for ever, if
  the workers of the outer query fill the pool
  (`src/execution/parallel/parallel_executor.cpp:370`); `SharedPool` with as many
  threads as workers deadlocks.

## 7. What is not modelled

* The race between `Flush`, which appends to `metadata_.segment_ids`, and scans,
  which read it without the mutex. Steps of a scan and of a flush are atomic
  with respect to each other here.
* Bytes: file layout, mmap, serialization, older catalog formats, encodings, the
  characters of a lexeme.
* SIMD instructions: a kernel is what it computes for a batch.
* Calls the repository never makes: `Scan` after it returned false, which reads past
  the list of segments (`src/storage/table/table_storage.cpp:390`), `Submit` after
  `Shutdown`, whose task may never run, and `Abort` without an exception.
* NULL and division, which the dialect does not have; the rounding of real
  floating point sums, and with it their dependence on the order of workers.
* Prepared queries and plan digests; a `PreparedQuery` keeps a table id that DROP and CREATE may
  hand to another table.
* Tests, benchmarks, tools and the shell.

## 8. Plan

1. `SharedPool` as a refinement of two `ParallelQuery` specifications at once.
2. `segment_ids` as a vector whose `push_back` may move it while a scan reads.
3. Prepared queries over `Database` and `Statement` together.
