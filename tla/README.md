# Formal models of dumpling

Dumpling dumps a MySQL-compatible server to files. This directory holds TLA+
models of the parts of it that decide whether a dump is complete and consistent,
TLC runs over small instances, and TLAPS proofs for arbitrary ones. Paths below
are relative to `v4/export/` in the source tree.

Reading order: the inventory, the modules, the runs, the proofs, what is left.
`PROJECT.json` holds the same information per definition: which lines each one
models, which mutation each property detects, and the hazards at their lines.

## 1. Inventory

| Component | State | Operations | What must hold |
|---|---|---|---|
| Task pipeline (`dump.go`, `writer.go`) | task channel, errgroup, contexts, writer connections, result of `Dump` | `startWriters`, `dumpDatabases`, `dumpSQL`, `sendTaskToChan`, `Writer.run`, `Close` | nil means that everything is written; an error is reported; `Dump` returns; metadata comes last |
| Consistency (`consistency.go`, `metadata.go`, `dump.go`) | lock connection, writer transactions, snapshot, two metadata buffers | `Setup`, `TearDown`, `PingContext`, `recordGlobalMetaData`, `rebuildConn` | the data is the server's state at the recorded position; locks are released |
| Integer split (`concurrentDumpTable`) | bounds, estimate, step, cutoff | min/max query, estimate, loop | every row is in one chunk; the loop ends |
| TiDB split (`concurrentDumpTiDBTables`) | bounds per partition, clauses | sample or region query, clause construction | every selected row is in one task, no other row is; tasks are numbered without gaps |
| File writing (`writer_util.go`) | buffer, pipe channels, lazily created file | `WriteInsert`, `WriteInsertInCsv`, `writerPipe.Run` | rows in order, complete statements, no lost error, no deadlock |
| Chunk files (`writer.go`, `retry.go`) | attempts, file names, iterator | `WriteTableData`, `tryToWriteTableData`, `NextBackoff` | after retries every row is in one file, once |
| Concatenated chunks (`buildConcatTask`) | subtask channel, error channel, `conf.Rows` | split, collect, concatenate | no subtask is lost; `conf.Rows` is restored; the call returns |
| Regions on TiDB 3.x (`renewSelectTableRegionFuncForLowerTiDB`) | map from tables to row ids | match histograms, look up regions, decode keys | wrong guesses cost parallelism, not rows |
| Table list (`prepare.go`, `block_allow_list.go`) | list of tables | three queries, merge, filter | what exists throughout is listed |
| Lock list (`ConsistencyLockDumpingTables`, `retry.go`) | block list, attempts | LOCK TABLES, retry | what exists throughout is locked |
| Start-up and GC safepoint (`NewDumper`, `updateServiceSafePoint`) | snapshot, lease at the PD, ticker | start-up steps, renew, retry, stop | the lease does not lapse during a dump; `Close` ends it |
| Value encoding (`sql_type.go`) | text of a file | escape, quote, separate | a file reads back as its rows |
| Configuration, status, metrics, HTTP, logging | flags, counters | parse, report | steer nothing at run time |

How they interact: `NewDumper` fixes the snapshot and session variables and, for
TiDB, starts the goroutine that keeps the snapshot from being collected. `Dump`
lists the tables, takes the locks, records the position, starts the writers (each
with a snapshot transaction), may drop the locks, and then splits tables into
tasks. With `--consistency lock` the list comes before the locks, otherwise after
them. A writer turns a data task into files, one `WriteInsert` call per file, and
asks the closure `rebuildConn` for a new connection before a retry. That closure
is the point where writers touch the consistency controller and the metadata
buffer again. `conf.Rows` is the other point: splitting a TiDB table changes it
while writers read it.

What makes this hard to test: the errgroup cancels the producer's context and
the producer swallows `context.Canceled`; three error paths leave `Dump` without
joining the writers; locks are dropped before the data is read; connections
break at any time; retries meet files of earlier attempts; two goroutines per
file end in five different ways; chunk bounds are computed in unsigned integers;
tables come and go while they are listed and locked; a lease is renewed by calls
that may fail for longer than it lasts.

## 2. Modules

| Module | Models | Main abstraction |
|---|---|---|
| `DumpPipeline` | `Dump`, the writers, the channel | a task is its place in the plan |
| `Consistency` | modes flush, lock, snapshot, none | the server is its binlog, a position is a length of it |
| `LockTables` | the table list, LOCK TABLES with its retry, the walk over the list | a name is a model value with a database; the filter is the set it accepts |
| `SafePoint` | start-up steps, `updateServiceSafePoint`, PD, TiDB's garbage collection | a timestamp is the second it was given out |
| `TableChunks` | `concurrentDumpTable` | a row is its key, a query is the set of rows it selects |
| `TiDBChunks` | `concurrentDumpTiDBTables`, clause builders | a condition is the sequence of its top-level disjuncts |
| `RegionMap` | where the bounds come from on TiDB 3.x | a histogram is its (UPDATE_TIME, DISTINCT_COUNT) |
| `ConcatTask` | `dumpTableData` for TiDB: `TiDBChunks` in a goroutine of `buildConcatTask` | its two channels and `conf.Rows` |
| `WriterPipe` | one `WriteInsert` or `WriteInsertInCsv` call | a row has a number, a size, and what is written around it |
| `RowSink` | what `tryToWriteTableData` expects of that call | rows are appended, the call returns once |
| `ChunkFiles` | `WriteTableData` with retries | a file is the sequence of its rows; one call of `WriteInsert` is one step as in `RowSink` |
| `RowText` | the receivers, both escapes, the text around the rows, a reader of it | characters that are treated alike are one |
| `*Proofs` | proofs about the module of that name | |
| `MC*` | values of constants for TLC | |

`ConcatTask` extends `TiDBChunks`, which extends `RegionMap`: one run composes the
three. `WriterPipe` implements `RowSink`, and `ChunkFiles` builds on `RowSink`.

A configuration that several runs would differ in is a variable, chosen in `Init`
from the constant `Configs` and never changed: `conf` in `Consistency`,
`LockTables`, `SafePoint`, `WriterPipe`, `ChunkFiles`, `TiDBChunks` and `RowText`,
`sql` in `DumpPipeline`. One run then covers all configurations, and a theorem covers every one of them.

Definitions named as faulty variants serve the mutation runs only: each replaces
one definition the way a slip in the code would, and the property it belongs to
must then fail.

**DumpPipeline.** `pc` is the position of the goroutine that called `Dump`;
`wstate` is that of each writer. `WriterCtxDone` is the context that `errgroup`
derives. A failing `Fetch` is the early return at `dump.go:236`, which neither
closes the channel nor waits. `StartWriterFails` is the return at `dump.go:260`
with an empty tear-down function. `Close` can happen at any time, as it can for a
program that embeds the package.

**Consistency.** `Commit` and `LockConnBreaks` are the environment: clients that
the locks do not block, and the broken lock connection, which frees the locks at
once although the controller finds out later. `cut` and `dumped` are observed and
influence nothing. `Same(t, p, q)` says that positions `p` and `q` show the same
table `t`. `AfterTearDown` keeps the case in which UNLOCK TABLES cannot run on a
cancelled context and a locked connection returns to the pool. Setup is one step
here; `LockTables` has its retry. A `--snapshot` given by the user is in
`SafePoint`; the GTID columns and the slave sections of the metadata are left out.
`HasTiKV` is the answer to the query of `CheckTiDBWithTiKV`: without TiKV
`setSessionParam` leaves `tidb_snapshot` alone, and so does a rebuilt connection.

**LockTables.** `Drop`, `Create`, `DropDatabase` and `CreateDatabase` are other
clients, at any time that the locks leave them. `missed` observes what was gone at
some time: the properties speak of what was not. Each of the three queries of
`prepareTableListToDump` is a step; the last one does the merge and the filter
too. `NoSuchTable` is the server's error 1146 with the whole of `NextBackoff`:
a name with a dot cannot be told from the message (`retry.go:105`). `LockFails` is
any other error, which is not retried. With `--transactional-consistency` the
locks go when the writers have started, as in `Consistency`.

**SafePoint.** One action per step of `NewDumper` from `resolveAutoConsistency`
on, then the goroutine: `call`, `sleep` between two calls, `tick` between two
rounds. A failed call may have reached PD all the same. The ticker has a channel
of one: a tick that falls into a round waits in it. `CollectGarbage` moves TiDB's
safe point to the end of its life time or to the snapshot while PD keeps it.

**TableChunks.** Arithmetic is modulo `2^Width` exactly where the code converts
to uint64, and `ToInt` is the conversion of the total to an int. The estimate is any
number, as an optimizer's guess may be. `where` is the user's condition: the rows
that the alternatives before its last top-level OR select, which no bracket keeps
within the range of a chunk, since `buildWhereCondition` writes none.

**TiDBChunks.** `And` joins two condition texts without brackets, the way
`buildWhereCondition` does, so that precedence is visible. `Weight` is the
server's collation; `getCommonLength` compares texts, the server weights. A bound
is any row key after the one before it, which is all that TABLESAMPLE and the list
of regions promise; on TiDB 3.x the bounds are what `RegionMap` computes.

**RegionMap.** Pure operators over what the server answers. `SavedPartition` and
`PartitionIDs` keep the last of several rows, as the maps of the code do, so that
equal stamps confuse partitions, also those of different tables. `TableInfos` is the
set of the row ids in ascending order, which `sort.Slice` may reach in several ways when
two are equal. `own` says how things are and is used by properties and
assumptions only: `Answer` is what every server's answer keeps (finite lists, no
partition made up, a region that starts with a record holds rows of its table),
`Accurate` what the comment at `sql.go:1059` expects on top of it.

**ConcatTask.** The caller's goroutine (`caller`) and the one of `buildConcatTask`
(`splitter`) interleave at every channel operation and at every change of
`conf.Rows`. The steps of the split are those of `TiDBChunks`; `Send` adds the wait
for room in `tableChan`. With `--rows` the same steps run without the goroutine.

**WriterPipe.** The two goroutines interleave at channel operations. `AddRow`
follows the SQL variant, in which the iterator moves before the separator is
written, or the CSV variant, in which it moves after the select.

**ChunkFiles.** An attempt makes a new namer from the current `conf.Rows`;
`AdjustRows` and `RestoreRows` are `buildConcatTask` of another table. `result` is what
the query of the current attempt returns. A new attempt of a plain chunk repeats the
query over a rebuilt connection: without `Repeatable` (consistency none, where it reads
newer data, or no ORDER BY) it may return other rows, more or fewer, in another order. A
concatenated chunk goes on with the iterator it has.

**RowText.** The escapes and receivers are operators on sequences of characters;
the actions write the header and the rows. The reader `Read` is external: it does
what mysql and a CSV loader do when told the same options. In a quoted field it
undoes escapes and doubled quotes, an unquoted field may be the null value, and a
text that goes on after a closed field is in error.

## 3. Runs

Passing runs, with their distinct states:

| Run | Question |
|---|---|
| `pipeline` (30,071) | two writers, two databases with seven tasks or one query, channel of two: nothing lost, nothing twice, errors reported, metadata last; `Dump` returns and `Close` ends stranded writers |
| `consistency` (1,025,619) | all four modes, TiDB with and without TiKV and with a PD client, two writers, a transactional table and a MyISAM table, breaking connections: the data is that of the recorded position or snapshot, and in no mode older than it, locks outlive the reads or the cut, locks released on each path and in the end |
| `lock_tables` (197,775) | four tables, a view, two databases, six configurations, four statements of other clients: the list, the lock, the retry, the outcome |
| `safe_point` (365,561) | a TTL of 6 s, two calls per round of up to 1 s, seven servers and configurations: the lease, the snapshot, the end of the goroutine |
| `table_chunks` (365,736) | all tables over six signed keys that reach from one end of the integer type to the other, all estimates up to 12, every `--where` with or without a top-level OR: rows in chunks, indexes, the end of the loop |
| `pipe` (315,766) | six rows of two sizes, buffers for about two rows, a channel for two buffers, five kinds of files: errors, statements, sizes; `WriterPipe` implements `RowSink`; the call returns |
| `chunk_files` (252,194) | files after retries, for concurrent chunks, single chunks and concatenated chunks, with queries that can be repeated and others: no row lost, none twice; retries end |
| `tidb` (216,174) | clauses over three columns; partitions, with `--where` or a collation that ignores case; the regions of TiDB 3.x with 54 kinds of histograms over two lists of regions; each with `--rows` or through `buildConcatTask` with a channel of two |
| `values` (64,482) | all texts of up to two to four special characters, alone, in pairs and beside numbers and bytes, in both formats, with and without backslashes, with long, short and no delimiters: they read back |

Runs that end in a counterexample, because a comment or the user guide says
something the code does not keep:

| Run | The code | The statement |
|---|---|---|
| `after_pos_race` | two reconnecting writers race on the metadata buffer | `dump.go:169` |
| `chunks_where` | `--where` loses rows with NULL in the split column | user guide, `--where` |
| `tidb_where` | `--where` restricts only the first alternative of a clause | user guide, `--where` |

Each of these is a statement about the code as modelled; `PROJECT.json` quotes
the lines. `OnlyWanted` also has a passing run, which shows that it holds for a
row key of one column.

**Conditions of the passing properties.** Some properties have an antecedent that
the code does not establish, or a run leaves a configuration out in which they
fail. A reader should know them:

- `LockedUntilTheEnd` assumes that the lock connection has not broken. Without
  `--transactional-consistency` the only `TearDown` is the deferred one, and its
  error is only logged (`dump.go:122`), so a dump whose locks were lost succeeds.
- `SnapshotIsExact` assumes that a snapshot was obtained and that there is a TiKV.
  `tidbGetSnapshot` turns a failure into a warning (`dump.go:1079`), and without TiKV the
  sessions are not set to the snapshot (`dump.go:1158-1164`) although `metadata.go:104`
  records it. The dump then reads current data, at several times.
- `TransactionalCut` and `LockedUntilTheEnd` exclude a TiDB with a PD client. Its
  snapshot is taken before `LOCK TABLES` and recorded as the position
  (`metadata.go:104`), while the data is read under the locks: changes between the two
  are in the dump and after its position.
- In all these cases `PositionIsEarly`, which has no antecedent, is what remains: nothing
  in the dump is older than the recorded position, so that a replica started there
  misses no change. It may meet changes that the dump already has.
- `RowsDumpedOnce` assumes that files could be closed (`unclosed` is false). The
  tear-down function only logs an error of `Close` (`writer_util.go:458`). Its first half
  then holds everywhere: every row that the last attempt's query returned is in a file. Its second
  half, once and with no other row of the chunk, has two more conditions:
  - `Repeatable`. Under consistency none a retry reads a newer snapshot
    (`dump.go:156-177`), and without ORDER BY rows come in any order. The retry may fill
    fewer files than the attempt that failed, and the files it does not replace stay.
  - `NamesSettled`. For a plain table of one chunk whose files are limited in size while
    other tables are split by `buildConcatTask`, a retry may meet another `conf.Rows`
    (`dump.go:358`, `writer.go:195`), name its files differently and leave those of the
    attempt before beside its own.

  The run has both kinds of configuration, and without either condition TLC finds the
  remains of the first attempt.
- `EachKeyInOneChunk` counts a row once or more if an alternative before the last
  top-level OR of `--where` selects it: `a OR b AND (chunk)` has it in every chunk.
- `EachRowInOneTask` is checked with equal weights for a key of one column only.
  With more columns `getCommonLength` compares texts (`sql.go:730`) and the server
  compares weights, and bounds such as (a, 2) and (A, 1) give wrong intervals.
- `SplitEnds` has `StepOverflows` as its exception: when the column spans all of uint64
  and one chunk is estimated, `dump.go:496` wraps to 0, the cutoff stays where it is and
  empty chunks are sent forever. The run has such tables. `IndexBelowTotal` leaves out
  ranges whose size overflows an int.
- `SnapshotReadable` and `LeaseUnbroken` assume that no round of calls fails to its
  last retry, which the code only logs, and that a round is over within the
  TTL minus the interval: 10 s of sleep and 11 calls within 150 s, so that a call
  may take 12 s. A `--snapshot` of the user must be young enough at the start; PD's
  answer, which would tell (`dump.go:1124`), is dropped.
- `ServiceEnds` is about a closed `Dumper`. If `setSessionParam` fails, `NewDumper`
  returns an error and the service runs on (`dump.go:77-80`) until the caller
  closes the `Dumper` that came with it.
- `SuccessIsWhole` includes tables that LOCK TABLES left out and that somebody
  created again: they are dumped, but were read without a lock.
- `RowsRestored` assumes that no average row is longer than 128 MiB (`sql.go:292`);
  a longer one gives 0 rows, and on a TiDB too old for samples and regions a division
  by zero at `dump.go:495`. TiDB's limit on an entry is lower.
- `TasksWithinRegions` assumes stamps that tell the partitions apart, as the
  comment at `sql.go:1059` does; `EachRowInOneTask` needs no such thing.
- `RowsReadBack` assumes the options of `TextAssumption`. Without a delimiter there
  must be backslash escapes and a null value that starts with a backslash, or a value
  can contain the separator or spell the null value. A delimiter that overlaps with
  itself is ambiguous without backslashes. Numbers are written as they are, so the
  separator must not occur in one. `config.go:399` refuses an empty separator only.

**What no property rules out.** The conditions above are cases in which the code does
not give what one would want, and a passing run says nothing against them: a dump that
succeeds after its locks were lost; data newer than the recorded position, on a TiDB with
a PD client under lock and on one without TiKV; the endless split of a column over all
of uint64; wrong intervals for a key of several columns under a collation that
identifies texts; rows repeated in every chunk by an OR in `--where`; remains of a failed attempt beside the files of the next; a
file that could not be closed; a `--snapshot` that PD no longer protects; 0 rows per
chunk for rows above 128 MiB.

**Bounds.** Two writers are enough for every race found, as each involves one
writer and the producer, or two writers. Channels of one or two fill up with the
tasks given. One transaction of another client falls before, between or after the
start of the writers, which is enough to tell a read from the recorded position.
`consistency` has one chunk per table; the proofs of the cut are for any number.
Two attempts in `Consistency` reach a reconnection; two in `ChunkFiles`
reach a retry over the files of a failed attempt, with results that fill two files or
only one. Three attempts in `LockTables` and four statements of other
clients let the attempts run out, with one statement to spare. A TTL of 6 in
`SafePoint` leaves a round with one retry, which can take 3 seconds, exactly the time
between the interval and the TTL; the clock of 11 covers three rounds. Six rows
in `WriterPipe` fill the channel while a buffer is written. Six key values in
a type of sixteen, both ends included, with estimates up to 12 give steps of one and of more, steps that
wrap, and chunks without rows. Three
columns reach an equal prefix of one and of two columns. `MaxPos`, `MaxCount` and
`MaxBounds` (the field `bounds` of a TiDB configuration), `MaxDDL`, `MaxTime` and the
fields `length` and `rows` of `RowText` are the bounds of the state spaces;
everything else is configuration. Only the run `after_pos_race` uses symmetry, of
the writers; no liveness run does.

**Fairness.** Weak fairness for each goroutine: the Go scheduler runs every
goroutine that can proceed, and queries and storage calls end. Nothing is assumed
of clients, failures, or the decision to call `Close`. `DumpDatabasesFails` is
outside the fairness of `Main` in `Consistency`, because a query need not fail.
Weak fairness of a goroutine lets it choose among the outcomes of its step. In
`ConcatTask` the caller and the goroutine it starts are fair separately, since each
waits for the other. `SafePoint` adds strong fairness of `Stop`: a select in which
the ended context and a timer are both ready picks either, again and again, and
must take the context in the end. Deadlock is checked in every run; `Terminated`,
`Done` and `Returned` mark the states in which the modelled code has returned.

## 4. Proofs

All constants are arbitrary under the named assumptions: writers are not empty,
the channel has room for one task, the number of attempts is positive, and so on.

`DumpPipelineProofs`
- `TypeCorrect`, from `TypeInv`: types, and that `next` is a task while it is sent.
- `ErrorsAreReported` and `MetadataComesLast`, from `Joined`: a nil result implies
  that every writer is done and the group holds no error. `Wait` establishes it,
  and nothing can start or fail afterwards.
- `SuccessIsComplete`, from `NothingLost`: unless the context is done, every task
  that the producer has passed is in the channel, with a writer, or written, and
  a writer that is done has found the channel closed and empty. The property
  alone is not inductive: it says nothing before the end.
- `NoTaskTwice` (`TaskHandledOnce`), from `OnlySent`: what is in the channel, with a
  writer or written comes before the producer's task in the plan. Without it the
  task being sent could be one that a writer already has.
- `DumpNeverStuck`, from `WritersAlive`: until `Dump` has returned, its goroutine or a
  writer can take a step. All writers run when the producer starts, and one ends only
  after the channel was closed or the context was done, and then the producer does not
  wait for room any more.

`ConsistencyProofs`
- `TypeCorrect`.
- `TransactionalCutHolds` and `FlushIsExactHolds`, from `CutInv`: while the locks
  are held, the recorded position and every transaction agree with `cut` on the
  dumped tables; a lost lock connection stays lost, so a TearDown that succeeds
  certifies the whole interval; from then on, no transaction is replaced, because
  `canRebuildConn` is false. `SameTransitive`, `SameStable` and `SameExtended`
  carry agreement over later commits.
- `LockedUntilTheEndHolds`, from `HeldInv`: without `--transactional-consistency` and
  as long as the lock connection lives, every position that can be read, by a rebuilt
  connection too, shows what the locks found, and a nil result comes when no writer
  reads any more.
- `LockIsReleased`, from `LockInv`: a lock still held is one that the deferred TearDown
  will meet, and a locked connection is in the pool only while `Close` is under way.
- `SnapshotIsExactHolds`, from `SnapshotInv`: nothing is read before the sessions have
  the snapshot, and when that step fails `Dump` does not run. With TiKV and a snapshot
  only, as in section 3.
- `PositionIsEarlyHolds`, in every mode and configuration, from `SessionInv` (the sessions
  have the snapshot or read current data, and which of the two is settled before `Dump`)
  and `EarlyInv`: the position is recorded before the first transaction starts, and the
  binlog only grows, so that a rebuilt connection sees as much or more.

`TableChunksProofs`
- `TypeCorrect`.
- `KeysPartitioned` and `NullsDumpedOnce`, from `SplitInv`: keys below the cutoff
  are in one chunk, keys from the cutoff on are in none, except for what an alternative
  of `--where` selects outside the range. This holds with wrap-around too: a wrapped step
  makes the split long, not wrong.
- `IndexStaysBelowTotal`, from `IndexInv`: cutoff = min + index * step, and
  total * step > max - min, and `FitsInt` shows that `ToInt` keeps the total.
- `RoundsAreUsedUp`, an action property from the same invariant: a round of the loop
  leaves `max + 1 - cutoff` less than it was, and it was positive. This is the variant
  on which `SplitEnds` rests, with the same exception `StepOverflows`.

`LockTablesProofs`, for any databases, tables, filters and number of attempts, and
any number of statements of other clients up to the bound `MaxDDL`, which is
arbitrary too
- All four rest on `ServerInv`: what the server lacks has been missing at some time.
- `ListIsComplete`, from `ListInv`: after each query the list lacks only what was
  missing or is yet to be asked for, and `FilterComplete` carries that over the
  filter. The property alone says nothing before the list is complete.
- `StableTablesAreLocked` and `SetupSurvives`, from `LockInv`: the block list holds
  only listed tables that were missing, one for each attempt spent, and what is locked
  in the end is the rest of the list.
- `SuccessIsTheWholeList`, from `WalkInv`: every listed object is with a database
  not yet reached, left in the current one, waiting for a writer, or dumped.

`SafePointProofs`, for any TTL, retries, duration of a call and life time under
`ServiceAssumption` and `LifeAssumption`
- `LeaseNeverLapses` and `SnapshotStaysReadable`. `Left(k)` is the longest time from
  call `k` of a round to the round's last answer, `Deadline` the end of the lease or,
  before the first renewal, `StartTime + Round`, at which the life time that TiDB
  grants is not over. The invariant says that
  what is left of the round, or the wait for the tick and the round after it, ends
  before the deadline. That is linear in the clock but has the product
  of retries and call time in it, which the lemmas on `Left` isolate.

`WriterPipeProofs`, for any number and size of rows, limits and channel capacity
- `CallInvariant` is `Inv`: where the goroutines can be (`CtrlInv`), that an error
  waits in `errCh` or is returned (`ErrInv`), how far the iterator is (`IterInv`),
  and `PiecesInv`: as long as no write failed, the file, the buffer being written,
  the buffers in the channel and the one being filled are consecutive parts of one
  sequence of pieces, whose rows are 1, 2, ... and whose statements begin where the
  one before ends. `SizesInv` is the same for the byte counts.
- `FailedWritesAreReported`, `FilesHoldStatements` and `SizesAgree` follow from it.
- `CallImplementsRowSink`: under `Inv` every step is a step of `RowSink` or leaves
  its variables alone, so that both goroutines with their channels implement the
  abstract call. `ChunkFiles` relies on nothing else.
- `CallNeverStuck`, from `Inv` and `WaitInv`: until the call has returned, it or the pipe
  can take a step, and the pipe does not outlive it. A full channel has a reader that is
  not waiting, `errCh` has room for the one error that is ever sent, and the
  call waits for the end of the pipe only after it closed the channel or cancelled.

`ChunkFilesProofs`, for any number of chunks and attempts, any results of the queries, and
any number of rows per file
- `RowsAreDumpedOnce`. Its first half is from `ChunkInv`, which holds in every configuration:
  the rows that the iterator has given are in the files that this attempt wrote, at the
  places that follow from the limit, if these were closed (`ProgressInv`); no other chunk
  has the names of these files (`TableFormat`); a concatenated chunk reads once only, so
  that a whole iterator means that nothing was written before (`FreshInv`). The second
  half is from `FilesInv`, under `Exact`, that is `Repeatable` and `NamesSettled`: every file in the
  storage is the k-th of some chunk and holds that chunk's rows from k times the limit
  on, whichever attempt left it. The property alone is not inductive, as a retry writes
  over what earlier attempts left.
- `FinishedChunksAreFinal`, an action property in every configuration, from `OwnInv`: once
  `WriteTableData` has returned nil, no step of another chunk, retries included, changes
  a file with rows of this chunk or puts one of them elsewhere. A file that a step
  replaces has a name of the chunk at hand, and rows of no other.

`ConcatTaskProofs`, for any columns of the row key, weights of their texts, partitions
and bounds, and any capacity of `tableChan`
- The lemma `ConcatSplits` carries what is shown of the split alone over to the split within
  `buildConcatTask`.
- The lemmas up to `KeyInOneClause` say what the clauses select. `LexLess` is the
  lexicographic order of keys by the weights of their texts. `LessMeans`,
  `GreaterMeans` and `BetweenMeans` show that the text that `buildCompareClause` and
  `buildBetweenClause` make selects the keys below a bound, from it on, and between two,
  with a common prefix or without. For bounds in order, one clause then has each key.
  `Smallest`, the least-number principle, takes the place of an induction over columns.
- `SplitIndexesAreDense`, `SplitIsPartition` (`EachRowInOneTask`) and `SplitKeepsWhere`
  (`OnlyWanted`), from `SplitInv`: bounds are in order; with `b[p]` for the index of the
  first task of partition `p`, the tasks sent are those of the partitions done and
  of the clauses done in this one, under the indexes from `b[p]` on, and the announced
  total is the last `b`. The code keeps no such `b`, so the invariant says that one exists.
- `SplitIsPartition` needs `Comparable`: `getCommonLength` compares texts and the server
  weights, so with several columns two texts must not have the same weight. It also needs
  a `--where` with no `or` at its top level. `SplitKeepsWhere` needs `NoBracketsNeeded`: no
  `--where`, or one without `or` and a key of one column, whose clauses have no `or`
  either. The run `tidb_where` shows what happens otherwise.
- `RowsAreRestored`, from `RowsInv`: who runs, and what `conf.Rows` is then.
- `ConcatTypesHold` and `ConcatHasAllTasks` (`ConcatIsWhole`), from `QueueInv`: the tasks
  collected, followed by those in `tableChan`, are numbered 0, 1, ... and as many as
  were sent; the caller drains the channel only after the split is done, and leaves it
  only when it is empty.
- All of these hold for the regions of TiDB 3.x too, for every answer that `Answer`
  allows. `LoadRegionsStep` shows that the bounds made of row ids are in order,
  whichever regions the code took for those of the table: `HandlesMean` and
  `TableInfoMeans` say that `TableInfos` lists row ids of these regions, all of them and
  ascending. `ConfigsAssumption` says what the code relies on there: one
  integer column, no partitions in the query, and a server that orders integers as
  numbers.
- `SplitKeepsRegions` (`TasksWithinRegions`), from `RegionsInv`: the bounds are those of an
  answer. If its stamps tell partitions apart, `TableIDs` has every identifier of the
  table, so that every start of a region inside the table is a bound. It needs a `--where` without `or` at its top level, like `SplitIsPartition`.
- `ConcatNeverStuck`, from `RowsInv`, `SplitInv` and `WaitInv`: until the caller has returned
  and the goroutine has ended, one of them can take a step even if no query fails.
  A goroutine that waits for room in `tableChan` has a caller that collects, and one that
  has ended has closed or filled `errCh`.

The three theorems on being stuck are the part of liveness that is a safety property.
Their predicates `MainReady`, `ProducerReady`, `CallerReady` and so on are the guards of the
actions, written out, because the prover does not evaluate ENABLED; that no step
is blocked in fact is what TLC's deadlock check shows on the instances.

Model-checked only: the liveness properties themselves, as fairness is out of the
prover's reach, and `RowText`, whose reader is recursive: that a file reads back as
its rows is an induction over the text.

## 5. Not modelled

- Flags, their parsing and defaults (`config.go`, `cmd/dumpling`): a sequential pass
  before anything else. Values that steer the dump are constants or `conf`.
- The patterns of the table filter, TLS, the storage backends and their
  compression: libraries. The filter is the set of names it accepts, a storage is
  what it does to a file.
- The text of SHOW CREATE statements and the statements around them: passed on as
  the server gives them. `wrapBackTicks` (`writer_util.go:529`) leaves a table name
  that begins or ends with a backtick without quotes; names are model values here.
- The sections of the metadata file other than the positions.
- Status, metrics, the HTTP handler, logging: they read and steer nothing.
- Interfaces, wrappers and build support.
- A composition of `DumpPipeline` with `ChunkFiles`: they share the channel's task and
  the returned error only, and both are in the interface of `HandleTask`.
