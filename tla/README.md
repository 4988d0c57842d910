# gomigrate in TLA+

A formal model of `gomigrate`, a tool that migrates a database table to another
database with a concurrent pipeline and a checkpoint file, and that backs tables
up to storage and restores them. The modules are translated from the Go source
under `src/`; line numbers below refer to it.

* `tlasany M.tla` parses a module,
* `tlc -config X.cfg M` runs a configuration (two workers are enough for all),
* `tlapm M.tla` checks the proofs of a module.

## 1. The system

### Parts and how they interact

| part | source | state it keeps | operations |
|---|---|---|---|
| Migration pipeline | `internal/pipeline/orchestrator.go` | two channels, one goroutine per partition, `NumTransformers` and `NumWriters` goroutines with their batches, an errgroup and its context, counters | `Migrate`, `startReaders`/`runReader`, `startTransformers`/`runTransformer`, `startWriters`/`runWriter`, `handleWriteFailure`, `saveCheckpoints` |
| Source adapters | `internal/adapter/{postgres,cassandra,mongo,iceberg}` | a connection | `Schema`, `Partitions`, `ReadPartition` (sends to a channel it closes when it returns) |
| Target adapters | same directories | a connection; the rows written | `ApplySchema`, `WriteBatch` |
| Checkpoint store | `internal/checkpoint` | a bbolt file: metadata per operation, a checkpoint per (operation, partition) | `SavePartition`, `GetPartition`, `ListPartitions`, `SaveStatus`, `SaveMeta`, `GetMeta`, `DeleteOperation`, `RunGC` |
| Dead-letter queue | `internal/errs/dlq.go` | a JSON-lines file | `Write`; read by the `replay` command |
| Circuit breaker, retry | `internal/errs` | breaker: state, failures, last failure, trial flag | `Execute`, `CurrentState`; `RetryPolicy.Do` |
| Backup engine | `internal/backup/engine.go` and serializers | chunk manager: open chunk, list of chunks, rows; the objects in storage | `Backup` = open, add record, rotate, flush the last chunk, save the manifest |
| Restore, verify | `internal/backup/restore.go`, `cli/root.go` | none; the rows written | `Restore`, `restoreChunk`; `runVerify` |
| Storage backends | `internal/storage` | objects | `Put`, `Get`, `List`, `Delete`, `Exists` |
| Schema mapping, masking | `internal/migration` | none | `MapRecord`, `MapSchema`, `ApplyTransform` |
| Command line, configuration, secrets | `internal/cli`, `config`, `secrets` | none | `migrate`, `backup`, `restore`, `verify`, `replay`, `status` |
| Telemetry, metrics | `internal/telemetry`, `metrics` | write-only counters and logs; the audit log, one file for all processes | `AuditLog.Write` |

`migrate` opens the adapters and the store, gives the operation an ID made of the
process ID (`cli/root.go:314`) and calls `Migrate` once for the first table. In
`Migrate`, each partition has a goroutine for `ReadPartition`, which fills a
channel of its own (`partCh`), and one for `runReader`, which moves records from
there to the shared `recordCh`; transformers collect records into batches on
`batchCh`; writers write them to the target, fall back to single records and the
dead-letter queue when a batch fails, and save checkpoints in the store. Two more
goroutines close `recordCh` and `batchCh` when the stage before them is done. All
report their errors to one errgroup, whose context cancels the others.

### What is hard, and what makes each part correct

* **Pipeline.** Concurrency over bounded channels; cancellation while a goroutine
  is blocked; closing channels after the last send; failure of half a batch; the
  order in which a goroutine's end and its error become known. *Correct:* no
  record is lost or sent twice; `nil` means that everything was settled; a channel
  is closed after its last sender; the error returned is the cause; the call ends.
* **Checkpoint and resume.** A checkpoint is taken for one batch while others are
  in flight; it is read and written in two transactions; listing it may fail; a
  crash falls between any two steps. *Correct:* nothing at or below a checkpoint
  is lost; checkpoints advance; an operation that ends well has moved all rows.
* **Source adapters.** Order of rows, partition arithmetic at the limits of
  `int64`, boundaries that differ when an operation is resumed. *Correct:*
  partitions cover the table, without overlap; the channel is closed in the end.
* **Circuit breaker, retry.** The protected call runs outside the lock, so a
  report may come late, or never. *Correct:* a trial at a time; open means rejected
  until the timeout; half-open is decided; a retry loop makes the attempts it
  promises, waits no longer than it promises, and returns.
* **Targets.** Each takes a failed batch apart in its own way, and tells rows
  apart by a key of its own; batches come again after a failure, a crash or from
  the dead-letter file. *Correct:* what was acknowledged stays; success means
  delivered; a row comes twice only where nothing could prevent it.
* **Commands.** Processes share the checkpoint file, under names made of process
  IDs, and the audit log; they die anywhere. *Correct:* one process has the file;
  a migration finds its own checkpoints; the audit log tells what happened.
* **Backup and restore.** Rotation at a size limit, a manifest written last over
  chunks with fixed names, a source left sending when an upload fails. *Correct:* a
  manifest lists exactly the rows read; what it lists is there and unchanged;
  restore writes every row once or fails.

`PROJECT.json` lists these hazards one by one, at the lines where they bite, with
the property that guards each.

## 2. The modules

| module | role |
|---|---|
| `Transfer` | abstract specification: records settle, never to be unsettled; a call ends `"ok"` only with all of them settled; it may be made again |
| `Pipeline` | one call of `Migrate`, every goroutine of it |
| `Resume` | extends `Pipeline`: the call made again on the same store, after it returned or was killed anywhere |
| `Backup` | the `backup` and `restore` commands over one storage location |
| `CircuitBreaker`, `Retry` | callers that share one breaker; the same callers inside `RetryPolicy.Do` |
| `Partitioning` | the ranges of the four sources and the rows their queries return, as operators |
| `Sources` | `Partitions` and `ReadPartition` over several calls for one operation |
| `Schemas` | column types, kinds of values and keys of the four databases, the encoders of Arrow columns |
| `DataPath` | migrate, replay, backup and restore as the four targets take them |
| `CheckpointStore` | the transactions of the checkpoint file, as operators on its contents |
| `Commands` | processes around the checkpoint file and the audit log, `GC` |
| `MCPipeline`, `MCResume`, `MCBackup`, `MCRetry`, `MCSources`, `MCDataPath`, `MCCommands` | the instances TLC checks; each `.cfg` is one of them |
| `PipelineProofs` | the types of `Pipeline`, its inductive invariant, the safety theorems, the refinement of `Transfer`; that no record is in two places, and that a checkpoint does not count more rows than there are |
| `ResumeProofs` | what survives any number of calls and crashes |
| `BackupProofs` | manifests, chunks and restores of `Backup` |
| `CircuitBreakerProofs` | the breaker's invariants for any number of callers; that `Retry` implements it; how often `Do` calls, how long it waits |
| `CommandsProofs` | who has the checkpoint file, what the audit log and a success mean, what `GC` deletes |
| `SourcesProofs` | the ranges of every source, in integers of any width; that a first call reads no row twice and that lost rows have their causes |
| `DataPathProofs` | what each target makes of a batch of any length; what is acknowledged, doubled, delivered |
| `DataLemmas` | facts about sequences without repetitions, and induction over sets of numbers, for the others |

The modules cut the program along the questions that can be asked of it.
`Pipeline` has every goroutine and a target that may do anything; `DataPath` has
one writer and exactly what each target does; `Sources` has no pipeline at all, but
real ranges; `Commands` has one row after another, but several processes.

### Pipeline

A record is `<<partition, offset>>`. Offsets stand for the values of the
partitioning column; the source yields a partition's in order
(`OrderedSource`) or in any order, as a query without `ORDER BY` may
(`adapter/postgres/reader.go:86`).

| variable | code |
|---|---|
| `unread`, `source` | what `ReadPartition` has still to send, and its result in `readErrCh` |
| `partCh`, `reader`, `held` | the channel, position and current record of `runReader` |
| `recordCh`, `recClosed`, `batchCh`, `batClosed` | the two channels of `Migrate` |
| `tf`, `batch` | position and batch of each `runTransformer` |
| `wr`, `work`, `count`, `todo`, `seen` | position, batch, `batchCount` (modulo `FlushEvery`), the rest of `saveCheckpoints`' loop and what its `GetPartition` returned |
| `ctx`, `failure` | the errgroup: whether its context is cancelled and by whom; its first error |
| `target`, `dlq`, `failed`, `cp` | rows in the target, records in the dead-letter file, records the failure counter counted, checkpoints in the store |

Each action is one step between two points where another goroutine can run: a
channel operation, a database or store call, a goroutine's end. Three places need
the finer grain:

* `ReaderReports` is apart from the reader's end, because `wg.Done` runs in a
  deferred call inside the errgroup's function: `recordCh` may be closed before the
  group knows of the error (`orchestrator.go:124-139`).
* `TransformerFlushes` is a plain send (`orchestrator.go:209`): in `"flush"` a
  transformer does not look at the context.
* `WriterGets` and `WriterPuts` are two transactions of `saveCheckpoints`
  (`orchestrator.go:306-334`), between which another writer may save.

`WriterFails` writes any part of its batch: an adapter may report an error after
some rows have landed. `WriterRetries` is one record of `handleWriteFailure`.
`CallerCancels` is the caller's context; the constants `SourceMayFail`,
`TargetMayFail`, `DLQMayFail`, `StoreMayFail` and `MayCancel` switch the faults on.
While the context is cancelled a write may fail whatever `TargetMayFail` says,
since it is given that context.

### Resume

`Restart` may happen in any state: after the call returned, or in the middle of it,
which is a crash. Target, dead-letter file and store survive; channels,
goroutines, context and counters start afresh. The new call's query begins at
`LastCommitted`, inclusive, for each partition whose checkpoint it sees
(`orchestrator.go:73-95`). Since the error of `ListPartitions` is ignored
(`orchestrator.go:76`) it may see none: `Listings`.

The command line never calls `Migrate` twice with one ID; the tests and the
documentation do, so this is the behaviour of the package, not of the command.

### Backup

A backup reads the table as it is then: a row of the `e`-th backup carries `e`. A
chunk's content is the sequence of its rows and stands for its SHA-256.

| variable | code |
|---|---|
| `edition`, `at`, `result` | backup commands begun; where the last one is, and how it ended |
| `part`, `source`, `sent`, `partCh` | the partition `backupPartition` reads, and its `ReadPartition` goroutine |
| `chunk`, `chunkRows`, `chunks`, `totalRows` | the chunk manager |
| `files`, `manifest` | the objects in storage: missing, torn or whole |
| `rst`, `plan`, `next`, `data`, `got`, `restores` | the restore command: position, manifest, chunk, rows of it left, rows written |

`AddRecord` chooses whether the chunk is full, since compressed bytes reach the
counter when the serializer and the compressor let them. `FlushChunk` is
`flushChunk` with the `openChunk` that follows; a `Put` that fails, or a crash in
one, may leave the file torn on a local file system (`storage/local.go:59`), and
unchanged on an object store (`AtomicPut`). `CommandEnds` is `runBackup`'s deferred
`src.Close`, which for PostgreSQL waits for the query still running (`CloseWaits`;
`pgxpool` is external). The commands' context is `context.Background()`
(`cli/root.go:97`), so nothing cancels. The restore is another process, and runs
beside the backups.

The restore's target takes what it is given; what the real ones make of it is
`DataPath`'s subject.

### CircuitBreaker and Retry

`call[c]` is how `c`'s call was admitted, if it is between `allow` and its report.
`age` is the time since the last failure; the code compares it with the timeout
only, so that it is counted up to the first tick past it, and `failures` up to the
threshold. `stale` and `lost` are histories, of a call admitted by the closed
circuit that reported to another, and of a trial that panicked: the two ways in
which the code's promises fail, which the properties name. `Retry` adds the loop of
`Do`: a caller is `"ready"` to call, `"running"` or in the `select` (`"wait"`).
`Interval` is a recursive function, `Jittered` the set of waits the random factor
can give after the conversion to a `Duration`. Nothing in the repository uses
either; the callers are any goroutines that use them together.

### Partitioning and Sources

Keys are the integers from `-Half` to `Half - 1` (`Half` is 2^63 in the code), and
`Wrap` is the code's `int64` arithmetic, used where the code uses `int64` (PostgreSQL)
and not where it uses `big.Int` (Cassandra). What Mongo's server answers to
`splitVector` and `$sample` is any set of keys, or any sample. In `Sources` a call of
`Migrate` takes the ranges, starts each at the checkpoint with its ID, and reads; a call that failed may be followed by another,
with another number of readers and a row more or less. `ckpt` and `copied`
survive. Whatever the pipeline can do to a checkpoint is `Resume`'s subject: here
one is saved with its row or not at all. `causes` is a history of the things that
can make rows be missed: an overflow, a range that ends earlier than one its
checkpoint was taken with, rows out of order, an offset that came back as text, an
Iceberg listing that looked elsewhere.

### Schemas and DataPath

A job is a pair of databases, the shape of the table's key, one column besides it,
and what is masked. A column is its canonical type and the Go kind of its values,
which is what the encoders look at; columns the encoders treat alike are
represented by one. An entry is a row as it can be in the target's table: a record
under its own key or, where the masks redact the key, under the redacted one;
`rows[e]` counts the rows that are entry `e`, up to two.
`Taken` is what each target makes of a batch, record after record: `Running` is the
recursive function for that; `Leftovers` is what one that fails may
leave: all or nothing for `COPY` and for Iceberg's commit (whose answer may be
lost), any part for Mongo and Cassandra. A record of a failed batch is written
alone and then dead-lettered (`WritesAlone`, `DeadLetters`). The replay keeps the
table its writer is bound to (`bound`); the file may begin with a record of another
table (`"other"`) and may have a line a crash cut off (`"torn"`). `causes` again names
what goes wrong without an error.

A restore, like a migration, first applies the schema (`Starts`), here the one in the
manifest, which binds the target's writer to the table; then it writes the records
in batches of `RestoreSize` (1000 in the code) and ends at the first error. Its
records were never masked, and they name no table and have no ID. PostgreSQL's,
Cassandra's and Iceberg's adapters keep the bound writer and need neither; Mongo's
asks the record for both, so that `Prepared` is false of a restore into Mongo.
`ParquetReads` is the kind a value has after the way through a Parquet chunk: what is
not a number, a truth value or a time comes back as a string. An ndjson backup can be
stored but not restored, since every chunk is read as Parquet. A restore writes over
what migrations and replays have written: a row whose key was redacted is there
beside the restored one, under another key, and a row that was appended is there again.
Whether PostgreSQL or Cassandra likes a value, as opposed to its key, is open: a write
may always fail.

### CheckpointStore and Commands

Keys of the file are sequences of tokens, so that one may be the prefix of
another. Each transaction of the store is one operator, as bbolt makes it atomic
and durable. In `Commands` a process is started with any ID that is free, opens the
file if its command does (or gives up after bbolt's timeout), appends its entries to
the audit log, works, and exits; it may be killed anywhere. `misled` marks a
migration that found a checkpoint that was not its own. No command calls `SaveMeta`,
`SaveStatus` or `GC`: to model them as they are documented, a `"host"` is a
program that uses the packages, names its operations itself, marks finished
partitions and collects old operations in another goroutine.

## 3. What TLC checks

| run | question | outcome |
|---|---|---|
| `pipeline_workers` | two of every goroutine, two partitions of two rows, failing writes, dead-letter file and store: is a record lost or doubled, a channel closed early, success claimed early, `RowsWritten` overstated by two writers that save one partition's checkpoint? | passes |
| `pipeline_flow` | three rows in any order through channels of one record and two batches, so that all of them fill, a failing source, target and cancellation: does a call that nothing cancels end; are readers freed by cancellation; is a channel closed early, the wrong error returned; is each behaviour a `Transfer`? | passes |
| `resume` | one transformer, one writer, three rows in batches of at most two, two restarts anywhere, failing writes and store: is a checkpoint ever ahead of a lost row, does it go back, is a success complete, is the whole a `Transfer` over the durable state? | passes |
| `backup` | two backups to one place and a restore beside them, two partitions of two rows, every fault and crash: does a manifest list the whole table, once; do its chunks stay until the next backup; does a restore that succeeds write one backup's rows, once; does the engine return? | passes |
| `resilience` | two goroutines retry through one breaker, with failures, late reports, panics and cancellation: is there ever a second trial, an early one, a half-open circuit nobody tries; do the loops keep to their attempts and waits, and end? | passes |
| `sources` | all sources, up to two rows on a ring of eight keys, none to four readers, two calls, the table changed between them: do ranges overlap; are rows missed for any other than five causes; does a call end? | passes |
| `data_path` | all pairs of databases, two records, three commands in any order, a restore of what was backed up among them, failing writes and crashes: does an acknowledged row vanish, a success not deliver, a row come twice under one key? | passes |
| `commands` | two process IDs, one the beginning of the other, a host, two processes' lifetimes: who has the file; does success mean delivered; does the audit log tell the truth; does `GC` take a live operation? | passes |
| `pipeline_cancel` | does a cancelled call end? | violated |
| `resume_two_writers` | does an interrupted migration with two transformers and two writers, the setting of `TestCrashAndResume`, come out complete? | violated |
| `backup_again` | with no backup in progress, can the manifest there be restored from, after a second backup that failed? | violated |
| `backup_close` | does the backup command end when an upload fails? | violated |

### The violations

* `CancelEnds` (`orchestrator.go:209`). After cancellation writers return through
  their `select`; a transformer that is in `flush` when `batchCh` is full waits for
  room that nobody makes. `wg.Wait` and `g.Wait` never return. It takes a
  cancellation while batches are pending and more of them than the channel has
  room for, which a slow target provides.
* `ResumeLosesNothing` with two writers (`orchestrator.go:326`). One writer
  writes the later batch of a partition and saves its last offset; the earlier
  batch is still in flight; the process dies; the resumed query starts after it.
  Rows out of order, even with one writer, have the same effect, as the property
  relies on `OrderedSource`.
* `ManifestIntact` (`backup/engine.go:164`). Chunk names repeat and the location
  is the same for every backup, while the manifest is replaced last. What does
  hold is checked next to it: the chunks stay until the next backup, and the
  checksum keeps a restore from mixing two backups (`RestoreExact`).
* `BackupCommandEnds` (`backup/engine.go:119`). The engine leaves its loop over
  `partCh` without draining it, as `runReader` does; nothing cancels the source.

### Exceptions the properties name

A property with an exception says both things: that the case in the exception goes
wrong in the code, and that nothing else does.

* `OneTrialAtATime`, `OpenHolds`: a call admitted by the closed circuit that reports
  after it opened. `HalfOpenIsTried`, `TrialDecides`: a trial that panicked.
* `FirstCallReadsOnce`: PostgreSQL's ranges when there are more readers than ids and
  `min + n - 1` is past the greatest `int64`: the last range begins below the
  others and reads their rows again. (The proof asked for it: with three readers and
  `Half` 4 TLC meets no such rows, with four it does.)
* `LossHasCause`: the causes above, and the row with Cassandra's greatest token.
* `CallReturns`: Iceberg's reader and the fault-injecting source, which leave their
  channel open.
* `AckedStays`: keys that a mask made equal (Cassandra), records without an ID
  (Iceberg to Mongo), an ID that is one column of a composite key (PostgreSQL to Mongo).
* `SuccessDelivers`: two rows that became one, a record the dead-letter file did not
  take, a batch of a replay that failed and was logged, a replay of two tables.
* `OnceUnlessAppended`: Iceberg, and a PostgreSQL table without a key, where a restore
  that is started again, or into a table that was migrated, doubles the rows, too. It is
  about rows under one key: where the masks redact the key, a restore brings the
  record under its own key beside the one the migration wrote.
* `SuccessIsDelivered`: a process ID that was used before, an offset that
  `SaveStatus` rounded.
* `TrailTells`: entries that could not be written, and commands that returned early.

`PROJECT.json` lists the findings that need no run of their own, with the lines of
code and documentation that disagree. Those with the largest effect: no backup can be
restored into Mongo (its `WriteBatch` takes the collection from the record,
`mongo/writer.go:23`, and restored records name none), and no NDJSON backup into anything,
as it is read as Parquet (`restore.go:127`); with
`num_transformers` left at 0, as in the README's first example, `Migrate` returns
`nil` for a table that fits `recordCh` without having moved a row
(`orchestrator.go:185`; it is why two theorems of `PipelineProofs` assume a transformer);
`status` never shows anything; no command resumes a migration. `PLAN.md:566` says that a
checkpoint is written after every committed batch; the code writes one after every
`flush_every_n_batches`-th, ten by default (`orchestrator.go:278`), which is
`FlushEvery`.

### Bounds

`NumRows`, `Partitions`, `Transformers`, `Writers`, `NumReaders`, `BatchSize`,
`FlushEvery` are the code's own parameters at small values; so are `PartCap` and `RestoreBatch`,
which the code fixes at 1000, as `RestoreSize`. `MaxRestarts`, `MaxBackups` and `MaxRestores` are the
only bounds of the models' own. They make these cases happen: two senders and two
receivers on each channel, a batch that mixes two partitions, and two writers that
hold batches of one partition and read and save its checkpoint at the same time
(`pipeline_workers`: `BatchSize` 2, two partitions of two rows, `FlushEvery` 1; the source
does not fail and nobody cancels there, which at this size is beyond TLC and is what
`pipeline_flow` is for); channels full and
everybody blocked (`pipeline_flow`: capacity 1 and 2 for three rows and as many
hands); a full, a partial, a ticker-flushed and a last batch, a checkpoint after
each, and a crash during the call that recovers from a crash (`resume`). A
checkpoint of every second batch occurs in `pipeline_flow` (`FlushEvery` 2). In
`backup` a chunk may end after any row, within a partition or across two, `partCh`
holds one row so that the source blocks, and a restore may span both backups.
In `resilience` one caller can be in the call while the other opens the circuit,
waits out the timeout and tries again; the second interval is capped, and the jitter
brings the wait a whole tick above the cap, or below. In `sources` a
ring of eight keys (`Half` 4) is the least for which ranges of three
readers differ in their steps and an overflow of `max - min` and one of `max + 1` can
be told apart, and four readers are the least with which a range that runs past the
greatest key reads rows again; the theorems say that the width makes no difference. `MaxRows`, `MaxReaders`, `MaxCalls`
bound it. In `data_path` two records suffice for a batch whose rows
collide, and three commands for a migration, one after its crash, and a replay, or for
a backup, a migration and a restore, or a restore that is started again;
`MaxLines` bounds the dead-letter file. In `commands` `MaxRuns` is two, so that an ID
is used again or two processes meet; with three the invariants were found to hold as
well, in four million states. `MaxTime` lets an operation grow stale or stay young.
Every run ends with `CHECK_DEADLOCK FALSE`, as a call that is over does nothing
more; that a call cannot stop before it is over is `CleanRunEnds`.

`data_path` takes its two records as symmetric, and `pipeline_workers` its partitions
and the goroutines of one kind; both check invariants only. No
other run declares a symmetry: it is unsound for liveness, and the rest are small
enough without.

### Fairness

`Fairness` is weak fairness of each goroutine's step: the Go scheduler runs a
goroutine that can run, and database and store calls come back. A `select` with
several ready cases is one step with several outcomes, and nothing is assumed
about which is taken: in particular a cancelled transformer need not ever choose
`ctx.Done()`, so weak fairness per goroutine, not per case, is what the code
justifies. Nobody has to cancel. No source has to fail either: its fairness is that
of its steps other than a failure, for a source that is blocked in its send cannot
fail, and a model that made it do so in the end would hide every deadlock behind
the cancellation that follows. `Backup` is fair to the source and the engine in the
same way. `Retry` is fair to the clock and to each caller inside `Do`: `f` returns.
Nothing makes it fail, panic or be cancelled. `Sources` is fair to the call's own
steps. `Commands` and `DataPath` state no liveness and no fairness: whether a command
ends is decided in `Pipeline` and `Backup`, which show where it does not.

## 4. What is proved

For every value of the constants that satisfies their assumptions
(`NumReaders`, `BatchSize`, `FlushEvery` at least 1, any number of partitions,
rows, transformers, writers, callers, processes, targets; integers of any width):

| theorem | module | statement |
|---|---|---|
| `TypeCorrect` | `PipelineProofs` | `Spec => []TypeOK` |
| `Invariance` | `PipelineProofs` | `Spec => []IInv` |
| `NothingIsLost` | `PipelineProofs` | `Spec => []NothingLost` |
| `SuccessMeansComplete` | `PipelineProofs` | `Spec => []SuccessIsComplete`, if there is a transformer |
| `ClosedAfterLast` | `PipelineProofs` | `Spec => []ClosedAfterLastSend` |
| `RootCause` | `PipelineProofs` | `Spec => []RootCauseReported` |
| `Implementation` | `PipelineProofs` | `Spec => ImplementsTransfer`, if there is a transformer |
| `CountsInvariance` | `PipelineProofs` | `Spec => []CountsInv` |
| `NoRecordTravelsTwice` | `PipelineProofs` | `Spec => []NoRecordTwice` |
| `RowsAreNotOverstated` | `PipelineProofs` | `Spec => []RowsNotOverstated` |
| `EveryCallIsOrderly` | `ResumeProofs` | `ResumeSpec => [](TypeOK /\ ClosedAfterLastSend /\ RootCauseReported)` |
| `ResumeInvariance` | `ResumeProofs` | `ResumeSpec => []ResumeInv`, if `Sequential` |
| `CheckpointsCover` | `ResumeProofs` | `ResumeSpec => []CheckpointCovers`, if `Sequential` |
| `ResumesComplete` | `ResumeProofs` | `ResumeSpec => []ResumeLosesNothing`, if `Sequential` |
| `CheckpointsAdvance` | `ResumeProofs` | `ResumeSpec => CheckpointAdvances`, if `Sequential` |
| `ResumeImplements` | `ResumeProofs` | `ResumeSpec => ImplementsDurableTransfer`, if `Sequential` |
| `BackupInvariance`, `BackupTypeCorrect` | `BackupProofs` | `Spec => []IInv` of the module, `Spec => []TypeOK` |
| `ManifestsAreComplete` | `BackupProofs` | `Spec => []ManifestComplete` |
| `BackupStaysIntact` | `BackupProofs` | `Spec => []IntactUntilNextBackup` |
| `RestoresAreExact` | `BackupProofs` | `Spec => []RestoreExact` |
| `TrialsAreSingle` | `CircuitBreakerProofs` | `CBSpec => []OneTrialAtATime` |
| `HalfOpenHasItsTrial` | `CircuitBreakerProofs` | `CBSpec => []HalfOpenIsTried` |
| `OpenCircuitHolds` | `CircuitBreakerProofs` | `CBSpec => OpenHolds` |
| `RetryingIsCalling` | `CircuitBreakerProofs` | `Spec => CBSpec` of `Retry`, so that the three hold there too |
| `RetriesAreCounted` | `CircuitBreakerProofs` | `Spec => []TriedInFull` of `Retry` |
| `RetryTypeCorrect`, `WaitsAreBounded` | `CircuitBreakerProofs` | `Spec => []TypeOK`, `Spec => []WaitBounded` of `Retry` |
| `CommandsInvariance`, `CommandsTypeCorrect` | `CommandsProofs` | `Spec => []TInv`, `Spec => []TypeOK` |
| `TrailIsTrue` | `CommandsProofs` | `Spec => TrailTells` |
| `DeliveryInvariance` | `CommandsProofs` | `Spec => []DInv`, if `PlainNames` |
| `SuccessDelivered` | `CommandsProofs` | `Spec => []SuccessIsDelivered`, if `PlainNames` |
| `OnlyStaleIsCollected` | `CommandsProofs` | `Spec => CollectsOnlyStale`, if `PlainNames` |
| `SourcesInvariance`, `SourcesTypeCorrect` | `SourcesProofs` | `Spec => []SourcesInv`, `Spec => []TypeOK` |
| `RangesDoNotOverlap` | `SourcesProofs` | `Spec => []FirstCallReadsOnce` |
| `LossHasItsCause` | `SourcesProofs` | `Spec => []LossHasCause` |
| `DataPathInvariance`, `DataPathTypeCorrect` | `DataPathProofs` | `Spec => []DInv` of the module, `Spec => []TypeOK` |
| `AckedRowsStay` | `DataPathProofs` | `Spec => []AckedStays` |
| `NothingIsDoubled` | `DataPathProofs` | `Spec => []OnceUnlessAppended` |
| `SuccessHasDelivered` | `DataPathProofs` | `Spec => []SuccessDelivers` |

With these, every invariant and every action property of a passing run is a theorem,
and so are the three refinements.

### The hypotheses

Three hypotheses are not assumptions of the modules; without each of them its
theorems are false, and TLC shows how.

* *There is a transformer.* Without one, `batchCh` is closed at once and a call whose
  rows fit `recordCh` succeeds.
* `Sequential`: the source yields a partition in order, the dead-letter file takes
  what it is given, there are one transformer and one writer. Two writers lose
  rows (run `resume_two_writers`), and so do two transformers: the later batch is
  saved first. Rows out of order lose those that come after the offset that was
  saved. A record that the dead-letter file refuses is logged and passed over
  by the next checkpoint.
* `PlainNames`: no host names an operation as a migrate command would (`mig-` and
  a process ID) or puts a `:` into a name. A host's operation `mig-1`, having found the
  checkpoint of a command for another target, would mark it done for a command
  that comes back to it; and where there are operations `job` and `job:x`, collecting
  the first takes the second's checkpoints along, as its keys begin with `job:`
  (`checkpoint/store.go:181`). The store checks neither.

### Pipeline

**`TypeOK`** is inductive as it stands, since it carries the bounds of the channels
and ties `work`, `todo` and `seen` to the writer's position.

**Safety.** None of `NothingLost`, `SuccessIsComplete`, `ClosedAfterLastSend` and
`RootCauseReported` is inductive.
`SuccessIsComplete` speaks of the end of a call, and has to know why the records are
no longer in flight. `IInv` is `Orderly`, that is `TypeOK` with
  * `CauseOK`: what `ctx`, `failure` and the results of sources and readers say of
    each other; without an error on its way, nobody has left through the context;
  * `ClosedOK`: a closed channel has only senders that are past their last send;
  * `DrainedOK`: a stage that ended in order has left nothing in the channel before
    it or in its hands;
  * `SavedOK`: a writer in `saveCheckpoints` has written its whole batch;

and `LosslessOK`: until the context is cancelled, every record is unread, in
flight, in the target, or counted.

When the call ends without an error the context was never cancelled by one; by
`DrainedOK` nothing is in flight, by `LosslessOK` everything is settled. One lemma
per action shows that it preserves each part; those that only move records use the
lemmas of `DataLemmas` on what a sequence holds after `Append`, `Head` and `Tail`.

**Refinement.** With `settled <- target \union failed` and `outcome <- Outcome`,
each step of `Pipeline` adds to `settled`, ends the call or changes neither; that an
end with `"ok"` finds all records settled is `SuccessIsComplete` of the next state.

**Counting.** `NoRecordTwice` is a sum of copies over every place a record can be in;
a step moves a record from one place to the next, which the lemmas state for
sequences and for functions of sequences, and so leaves the sum. `RowsNotOverstated`
is not inductive: a writer that has read a checkpoint and not yet saved it holds a
number that will be in the checkpoint, whatever other writers save meanwhile.
`CountsInv` therefore bounds every number that is *claimed* of a partition, by
the checkpoint or by such a writer, by the records in the target that no writer
has still to count, and says (`FreshOK`) that a record in the target is no longer on
its way to the writers, so that no batch is counted twice.

### Resume

`EveryCallIsOrderly` needs no more than that `Restart` starts `Orderly` anew.
The others rest on *turns*. One transformer and one writer make the pipeline, of any
one partition, a queue: the reader's hand, `recordCh`, the batch being filled,
`batchCh`, the writer's batch. It is a record's *turn* when all earlier rows of its
partition are ahead of it in that queue or kept (in the target or the dead-letter
file), those ahead are earlier, and it is not below the *floor*, the partition's
`LastCommitted`. `TurnsOK` says so of every record in the pipeline, wherever it is.
When the writer saves the offset of its last record, the rows before it were
ahead or kept, those ahead were in its batch, and its batch is settled: so
`CheckpointCovers`. A step of a stage shifts records from behind to ahead, and the
lemmas `TurnShifts`, `InTurnShifts` and `AllInTurnShifts` say that everything behind
stays in turn. A restart begins at the floor, and the records before it are kept.

### Backup

`TypeOK` is not inductive: that the next chunk has an index within the rows there
are needs that no chunk is empty and no row in two of them. So the invariant is
`TypeOK` together with `CommandOK` (what a fresh process holds), `AccountOK` (every row
sent is in exactly one of: a chunk that was uploaded, the open chunk, the channel;
and `totalRows` is their number), `ProgressOK` (a partition left behind was read
to its end), `StorageOK` (chunks that were confirmed are in storage while no other
backup begins; a readable manifest is complete) and `RestoreOK` (a restore has
written the chunks before its place). That a restore does not mix two backups follows
from the checksum: `Whole(chunks[i].sum)` is the file with that content, and no other.

### Circuit breaker and retry

None of the breaker's properties is inductive. The invariant `BreakerInv` adds that
`trialInFlight` is set exactly while the circuit is half-open, and that, until a late
call has reported, a caller whose call was admitted as a trial is the only one and the
circuit is half-open. Each of `allow`, the two reports, a panic and the clock preserves
it. `RetriesAreCounted` uses an invariant of its own (`DoInv`): a caller that is ready or
waiting has called `attempt` times, one that is in the call once more. `WaitsAreBounded`
needs the intervals to be natural numbers up to `MaxInterval`, by induction over
the attempts (`SetInduction`: the library's induction takes an operator, this one a set).

### Commands

`TInv` is the inductive invariant of types: a process is where its command can be
(`StageOK`), its entries are those it should have written by now or it knows of one that
is missing (`TrailOK`), the lock's owner is exactly the one process that is past opening
the file (`LockOK`), and the file's keys are those of operations (`FileOK`). It gives
`TypeOK` and `TrailTells` with no hypothesis. `SuccessIsDelivered` needs, besides, that a
checkpoint that is not wrong counts only rows its target has (`CkptOK`), that a
copy that was not misled has left none out (`CopyOK`), and that what a copy found
under its name is still not done and still wrong while it works (`FoundOK`), which holds
since no other process can have the file. `CollectsOnlyStale` needs that the time `GC`
goes by is past and that an operation it found old has not gone before it deletes
it (`GInv`). Both come down to keys: `PrefixFree` shows that the prefix of one operation
begins no key of another, even where one name is the beginning of the other. That is
what the separator is for, and leaving it out is the mutant of the run.

### Sources

**Ranges.** The solver is left with linear arithmetic: products and quotients are
lemmas (`Products`, `QuotientIs`), and a wrapped integer is one that differs by a
multiple of `2 * Half` (`WrapIs`), two of which in `Keys` are equal (`NoMultiple`).
`PostgresStepIs`: when `max - min` does not overflow, the ranges go forward and
start at `int64`s, unless `PostgresOvershoots`; when it does, the step is
negative and they go backward, over less than the ring. Either way the starts are
distinct and a row is in one range at most (`PostgresApart`). `RangesAre` says of every source
that its ranges are linked, each beginning where the one before it ends, and apart, from
which `FirstCallReadsOnce` follows for a first call; `Shape` is the inductive invariant
of types.

**Losses.** `LossHasCause` is not inductive. `LossInv` says that, as long as no cause
has occurred, each row of the first call that is below the checkpoint of partition `i`
is *explained* (`Saved`): it was copied, or it comes before an end that a partition
with a smaller ID had at some call. While a call reads, a row below the place a partition
has reached is explained or still in its query (`Reading`). At the end, take the first
partition that ends after a row: since ends have not moved back (cause `"moved"`),
no earlier partition explains it, so it was copied (`Ended`).

### DataPath

`Taken` is a recursive function along the batch, so that its run exists is shown
first (`RunsExist`, `RunningIs`, by induction over its length), and then, for each
target and the first `n` entries of a batch, that rows that were there stay, that
those entries are there (where records do not share rows), and that none is there
twice, where the target replaces or refuses what clashes (`AddingIs`, `ReplacingIs`,
`UpsertingIs`, `CopyingIs`). A batch that failed has left a run over a part of
it (`LeftoversAre`), which those lemmas cover too. `AckedStays` and
`OnceUnlessAppended` follow step by step. `SuccessDelivers` needs what a command in
progress has still to do (`Delivering`): every record of the table is in the target, in
the dead-letter file, or in `todo` or `alone`; every record among the lines a replay
has read is in the target or in its batch; every record a restore has taken out of
`todo` is in the target under its own key; unless `causes` says otherwise. A restore
into a table with redacted keys is why entries, and not records, are the rows the lemmas
speak of. The proof
asks for `MaxLines` of at least one, since the file may begin with a line of
another table.

### Only model-checked

* Liveness (`CleanRunEnds`, `CancelFreesReaders`, `BackupReturns`, `TrialDecides`, `DoEnds`,
  `CallReturns`): out of the proof system's reach, as is `ENABLED`.
* The invariants were checked with TLC before they were proved, with the bounds of the
  runs and, for `Commands`, three processes.

## 5. What is left out, and the plan

Not modelled, and why:

* spans, metrics, the logger (nothing reads them back), configuration parsing and
  validation, secrets (look-ups with no state), the text of queries and the wire
  protocols of the drivers, flags and output of the commands;
* `verify`, which reads a backup and changes nothing;
* `MapSchema` and `ApplyTransform`, which only tests call: the commands neither map a
  schema nor apply a transformation;
* `src.Partitions` failing in `Migrate` (`orchestrator.go:66-71`), which returns before
  anything was started: `Pipeline` and `Resume` begin after it;
* what can come between the `GetPartition` and the `SavePartition` of one save in
  `Commands` (`Saves` is both): the file's lock leaves only one process there, and it
  has one writer; between writers of one process it is `Pipeline`'s `WriterGets` and
  `WriterPuts`;
* the contents of records beyond key and one column, and so the loss of precision
  in values that pass through JSON (the dead-letter file) or a `float64` column;
* the fault-injecting target, whose failures every target of `Pipeline` and
  `DataPath` may show;
* `storage.List`, `Delete` and `Exists`: the first appears as what an Iceberg listing
  finds, the others have no caller in the commands.

A worker count of 0 for readers, and a batch size of 0, would make a channel
unbuffered and is outside `SizesAssumption` of `Pipeline`.

Open: the targets of `DataPath` behind the writers of `Pipeline`, which would be one more
product of two state spaces and is beyond TLC at these bounds.
