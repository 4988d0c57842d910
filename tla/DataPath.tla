------------------------------ MODULE DataPath ------------------------------
(***************************************************************************)
(* A table on its way into a target: the schema applied, batches mapped    *)
(* and written by one writer of the pipeline, records that fail written    *)
(* again one by one and then to the dead-letter file, that file replayed,  *)
(* a backup of the table taken and restored into the target; in any order, *)
(* with failing writes and with crashes. It is about what the four targets *)
(* make of a batch, which Pipeline leaves to chance; which batch comes     *)
(* when, and after which checkpoint, is Pipeline's subject and is any here.*)
(***************************************************************************)
EXTENDS Schemas, Sequences, FiniteSets, SequencesExt

CONSTANTS
  Records,     \* rows of the source table; their keys differ
  BatchSize,   \* records per batch, of the migration and of the replay
  RestoreSize, \* records per batch of a restore, 1000 in the code
  MaxCommands, \* bound: commands started
  MaxLines     \* bound: lines of the dead-letter file

ASSUME DataPathAssumption ==
  /\ IsFiniteSet(Records)
  /\ {BatchSize, RestoreSize, MaxLines} \subseteq Nat \ {0}
  /\ MaxCommands \in Nat
  /\ {"other", "torn"} \cap Records = {}

Lines == Records \cup {"other", "torn"} \* of the dead-letter file; see dlq

Engines == {"postgres", "mongo", "cassandra", "iceberg"}

\* What is migrated, where to: the key, a column besides it, and whether that is masked.
\* A key of one column may be redacted. (The sha256 of a key is as good a key.)
AllJobs ==
  {j \in [source : Engines, target : Engines, key : KeyShapes \cup {"redacted"},
          column : UNION {Columns(e) : e \in Engines}, masked : BOOLEAN] :
     /\ j.column \in Columns(j.source)
     /\ (IF j.key = "redacted" THEN "single" ELSE j.key) \in KeysOf(j.source)}

\* Two columns are alike if the encoders treat them alike, masked or not: one of each
\* sort will do. Only Iceberg's writer encodes a column itself.
Sort(target, c) ==
  <<target = "iceberg" => IcebergAppends(c.type, c.kind),
    target = "iceberg" => IcebergAppends(c.type, "string"), ParquetTakes(c.type, c.kind), IsJSON(c.kind)>>
Sample(e, t) ==
  {CHOOSE c \in Columns(e) : Sort(t, c) = k : k \in {Sort(t, c) : c \in Columns(e)}}
MaskMatters(j) ==
  \/ ~IsJSON(j.column.kind)
  \/ j.target = "iceberg" /\ IcebergAppends(j.column.type, j.column.kind) # IcebergAppends(j.column.type, "string")
Jobs == {j \in AllJobs : j.column \in Sample(j.source, j.target) /\ (j.masked => MaskMatters(j))}

VARIABLES
  job,
  cmd,      \* the command that runs: "none", "migrate", "replay" or "restore"
  commands, \* how many were started
  stored,   \* the formats in which there is a backup
  result,   \* how the last one ended: "none", "ok", "failed" or "crashed"
  ended,    \* which one that was
  todo,     \* records the migration or the restore has still to write
  alone,    \* records of a failed batch, to be written one by one
  line,     \* lines the replay has read
  batch,    \* and the batch it fills with them
  bound,    \* the table that the replay's writer is bound to since its first batch
  rows,     \* rows[e]: how often entry e is in the target's table, counted up to 2
  dlq,      \* the dead-letter file's Lines: records, "other" for one of another table that was
            \* migrated with the same checkpoint file, and "torn" for a line a crash cut off
  acked,    \* history: entries some WriteBatch has acknowledged
  causes    \* history: what has kept a record from where it was to go

cmdVars == <<cmd, todo, alone, line, batch, bound>>
vars == <<job, cmdVars, commands, stored, result, ended, rows, dlq, acked, causes>>

\* Rows the target's table may have: a record under its own key, or under the redacted one
\* if a migration wrote it; a restore, which Mongo takes none of, writes the record's own.
Entries ==
  Records \X (IF job.key # "redacted" THEN {"own"}
              ELSE IF job.target = "mongo" THEN {"redacted"} ELSE {"own", "redacted"})

Init ==
  /\ job \in Jobs
  /\ cmd = "none" /\ commands = 0 /\ stored = {} /\ result = "none" /\ ended = "none"
  /\ todo = {} /\ alone = {} /\ line = 0 /\ batch = <<>> /\ bound = "none"
  /\ rows = [e \in Entries |-> 0]
  /\ dlq \in {<<>>, <<"other">>} /\ acked = {} /\ causes = {}

-----------------------------------------------------------------------------
(* MapRecord and the schema.                                               *)

\* A masked value is a string, whatever the column's type: the schema is not mapped. A
\* backup, and so a restore, has the values as they were.
MapRecord(kind) == IF job.masked THEN "string" ELSE kind
Mapped(r) == <<r, IF job.key = "redacted" THEN "redacted" ELSE "own">>
Restored(r) == <<r, "own">>

\* The key a row has in the table: that of another, too, if redacted.
KeyOf(e) == IF e[2] = "redacted" THEN "[REDACTED]" ELSE e[1]

IdOf_Unset(e) == "" \* mutant

\* rec.ID is set before the masks are applied, by PostgreSQL's reader from the column "id"
\* even when the key has another column. Iceberg's reader does not set it, nor does a
\* restore, but that never writes where it is looked at.
IdOf(e) ==
  IF job.source = "iceberg" THEN ""
  ELSE IF job.source = "postgres" /\ job.key = "shared" THEN "id"
  ELSE e[1]

\* ApplySchema of the four targets. PostgreSQL's marks every key column PRIMARY KEY, of
\* which a table may have one; Cassandra's wants at least one; the others take any key.
PostgresApplies == job.key \notin {"pair", "shared"}
CassandraApplies == job.key # "none"
SchemaApplies ==
  /\ job.target = "postgres" => PostgresApplies
  /\ job.target = "cassandra" => CassandraApplies

-----------------------------------------------------------------------------
(* WriteBatch of the four targets, for a sequence of entries.              *)

Adds(held, e) == [held EXCEPT ![e] = IF @ = 0 THEN 1 ELSE 2]

\* Mongo replaces by _id, Cassandra by key; the others add.
Upserts == job.target \in {"mongo", "cassandra"}
SameRow(q, e) == IF job.target = "mongo" THEN IdOf(q) = IdOf(e) ELSE KeyOf(q) = KeyOf(e)
Replaces_Adds(held, e) == Adds(held, e) \* mutant
Replaces(held, e) == [q \in Entries |-> IF q = e THEN 1 ELSE IF SameRow(q, e) THEN 0 ELSE held[q]]

\* A row with another's unique key: the primary key ApplySchema gave PostgreSQL's table,
\* or one of the unique indexes it made in Mongo, one for each key column but _id.
PostgresClashes(held, e) == job.key # "none" /\ \E q \in Entries : held[q] > 0 /\ KeyOf(q) = KeyOf(e)
MongoClashes(held, e) ==
  /\ job.source # "mongo"
  /\ \E q \in Entries : held[q] > 0 /\ ~SameRow(q, e) /\ (KeyOf(q) = KeyOf(e) \/ job.key = "shared")

\* h[n] is what is there after the first n of s are added to start, each as step says.
Running(step, start, s) ==
  LET h[n \in 0..Len(s)] == IF n = 0 THEN start ELSE step[h[n - 1]][s[n]]
  IN h

Holdings == [Entries -> 0..2]
Adding(held, s) == Running([h \in Holdings |-> [e \in Entries |-> Adds(h, e)]], held, s)
Replacing(held, s) == Running([h \in Holdings |-> [e \in Entries |-> Replaces(h, e)]], held, s)
Upserting(held, s) ==
  Running([h \in Holdings |-> [e \in Entries |-> IF MongoClashes(h, e) THEN h ELSE Replaces(h, e)]], held, s)

AnyClash(held, s) ==
  \E i \in DOMAIN s :
    \/ job.target = "postgres" /\ PostgresClashes(Adding(held, s)[i - 1], s[i])
    \/ job.target = "mongo" /\ MongoClashes(Upserting(held, s)[i - 1], s[i])

\* COPY takes all or nothing; an unordered bulk write takes what it can; an unlogged batch
\* of inserts replaces; a data file is appended.
PostgresCopies(held, s) == IF AnyClash(held, s) THEN held ELSE Adding(held, s)[Len(s)]
MongoUpserts(held, s) == Upserting(held, s)[Len(s)]
CassandraInserts(held, s) == Replacing(held, s)[Len(s)]
IcebergCommits(held, s) == Adding(held, s)[Len(s)]

\* The rows after the target has taken all it would.
Taken(held, s) ==
  CASE job.target = "postgres" -> PostgresCopies(held, s)
    [] job.target = "mongo" -> MongoUpserts(held, s)
    [] job.target = "cassandra" -> CassandraInserts(held, s)
    [] job.target = "iceberg" -> IcebergCommits(held, s)

\* A replay does not call ApplySchema, and Iceberg's writer needs it; a restored record
\* names no table, and Mongo's WriteBatch asks the record, not the writer ApplySchema made.
Prepared ==
  /\ cmd = "replay" => job.target # "iceberg"
  /\ cmd = "restore" => job.target # "mongo"

\* The kind of the column's values in the batch: mapped, or read back from Parquet.
Kind == IF cmd = "restore" THEN ParquetReads(job.column.type, job.column.kind) ELSE MapRecord(job.column.kind)
Encodes == job.target = "iceberg" => IcebergAppends(job.column.type, Kind)

Accepts(held, s) == Prepared /\ Encodes /\ ~AnyClash(held, s)

\* Any of the entries of s, in their order.
Parts(s) ==
  {[i \in DOMAIN f |-> s[f[i]]] : f \in {g \in SeqOf(DOMAIN s, Len(s)) : \A i \in 2..Len(g) : g[i - 1] < g[i]}}

\* What a WriteBatch that fails may have done: an atomic one everything (its answer, or
\* that of the catalog's commit, was lost) or nothing; the others any part of it.
Leftovers(held, s) ==
  IF ~Prepared \/ ~Encodes THEN {held}
  ELSE IF Upserts THEN {Taken(held, part) : part \in Parts(s)}
  ELSE {held, Taken(held, s)}

Overwritten(before, after) == {c \in {"overwritten"} : \E e \in Entries : before[e] > 0 /\ after[e] = 0}
OverwrittenInBatch(s, after) == {c \in {"overwritten"} : \E i \in DOMAIN s : after[s[i]] = 0}

WriteSucceeds(s, others) ==
  /\ Accepts(rows, s)
  /\ rows' = Taken(rows, s)
  /\ acked' = acked \cup Range(s)
  /\ causes' = causes \cup others \cup Overwritten(rows, rows') \cup OverwrittenInBatch(s, rows')

WriteFails(s) ==
  /\ rows' \in Leftovers(rows, s)
  /\ UNCHANGED acked

-----------------------------------------------------------------------------
(* migrate.                                                                *)

\* A command that applies the schema before it writes the table.
Starts(command) ==
  /\ cmd = "none" /\ commands < MaxCommands
  /\ commands' = commands + 1
  /\ IF SchemaApplies
     THEN cmd' = command /\ todo' = Records /\ UNCHANGED <<result, ended>>
     ELSE result' = "failed" /\ ended' = command /\ UNCHANGED <<cmd, todo>>
  /\ UNCHANGED <<job, stored, alone, line, batch, bound, rows, dlq, acked, causes>>

MigrateStarts == Starts("migrate")

\* Up to size of the records still to be written, in any order.
Batches(size) == {s \in UNION {[1..n -> todo] : n \in 1..size} : IsInjective(s)}
AllMapped(s) == [i \in DOMAIN s |-> Mapped(s[i])]

WritesBatch_Again == \* mutant: the batch is not taken from what is left
  /\ cmd = "migrate" /\ alone = {}
  /\ \E s \in Batches(BatchSize) :
       \/ WriteSucceeds(AllMapped(s), {}) /\ UNCHANGED alone
       \/ WriteFails(AllMapped(s)) /\ alone' = Range(s) /\ causes' = causes \cup Overwritten(rows, rows')
  /\ UNCHANGED <<job, stored, cmd, todo, commands, result, ended, line, batch, bound, dlq>>

WritesBatch ==
  /\ cmd = "migrate" /\ alone = {}
  /\ \E s \in Batches(BatchSize) :
       /\ todo' = todo \ Range(s)
       /\ \/ WriteSucceeds(AllMapped(s), {}) /\ UNCHANGED alone
          \/ WriteFails(AllMapped(s)) /\ alone' = Range(s) /\ causes' = causes \cup Overwritten(rows, rows')
  /\ UNCHANGED <<job, stored, cmd, commands, result, ended, line, batch, bound, dlq>>

WritesAlone ==
  /\ cmd = "migrate"
  /\ \E r \in alone : alone' = alone \ {r} /\ WriteSucceeds(<<Mapped(r)>>, {})
  /\ UNCHANGED <<job, stored, cmd, todo, commands, result, ended, line, batch, bound, dlq>>

\* The record goes into the dead-letter file, if JSON can express it and the disk takes it.
DeadLetters ==
  /\ cmd = "migrate"
  /\ \E r \in alone :
       /\ alone' = alone \ {r}
       /\ WriteFails(<<Mapped(r)>>)
       /\ \/ /\ IsJSON(MapRecord(job.column.kind)) /\ Len(dlq) < MaxLines
             /\ dlq' = Append(dlq, r)
             /\ causes' = causes \cup Overwritten(rows, rows')
          \/ /\ UNCHANGED dlq
             /\ causes' = causes \cup {"unsaved"} \cup Overwritten(rows, rows')
  /\ UNCHANGED <<job, stored, cmd, todo, commands, result, ended, line, batch, bound>>

MigrateEnds ==
  /\ cmd = "migrate" /\ todo = {} /\ alone = {}
  /\ cmd' = "none" /\ result' = "ok" /\ ended' = "migrate"
  /\ UNCHANGED <<job, stored, todo, alone, line, batch, bound, commands, rows, dlq, acked, causes>>

-----------------------------------------------------------------------------
(* dlq replay. The file is read from its first line every time.            *)

ReplayStarts ==
  /\ cmd = "none" /\ commands < MaxCommands /\ dlq # <<>>
  /\ commands' = commands + 1
  /\ cmd' = "replay" /\ line' = 0 /\ batch' = <<>> /\ bound' = "none"
  /\ UNCHANGED <<job, stored, todo, alone, result, ended, rows, dlq, acked, causes>>

ReplayReads ==
  /\ cmd = "replay" /\ line < Len(dlq) /\ Len(batch) < BatchSize
  /\ dlq[line + 1] # "torn"
  /\ line' = line + 1
  /\ batch' = Append(batch, dlq[line + 1])
  /\ UNCHANGED <<job, stored, cmd, todo, alone, bound, commands, result, ended, rows, dlq, acked, causes>>

\* The batch in hand is not written.
ReplayFails ==
  /\ cmd = "replay" /\ line < Len(dlq) /\ Len(batch) < BatchSize
  /\ dlq[line + 1] = "torn"
  /\ cmd' = "none" /\ result' = "failed" /\ ended' = "replay"
  /\ line' = 0 /\ batch' = <<>> /\ bound' = "none"
  /\ UNCHANGED <<job, stored, todo, alone, commands, rows, dlq, acked, causes>>

\* The table a batch goes to: that of its first record; but only Mongo's adapter looks at
\* every batch, the others keep the writer they made for the first.
TableOf(x) == IF x = "other" THEN "other" ELSE "ours"
WritesTo(s) == IF job.target = "mongo" \/ bound = "none" THEN TableOf(s[1]) ELSE bound

\* The records of our table among the lines s; they were mapped when they were saved.
Ours(s) ==
  Running([t \in Seq(Entries) |-> [x \in Lines |-> IF x \in Records THEN Append(t, Mapped(x)) ELSE t]],
          <<>>, s)[Len(s)]

\* A full batch, or the last; that it fails is logged.
ReplayWrites ==
  /\ cmd = "replay" /\ batch # <<>>
  /\ Len(batch) = BatchSize \/ line = Len(dlq)
  /\ batch' = <<>>
  /\ bound' = WritesTo(batch)
  /\ LET ours == Ours(batch)
         elsewhere == {c \in {"misdirected"} : \E i \in DOMAIN batch : TableOf(batch[i]) # bound'}
     IN IF bound' = "other"
        THEN causes' = causes \cup elsewhere /\ UNCHANGED <<rows, acked>>
        ELSE \/ WriteSucceeds(ours, elsewhere)
             \/ WriteFails(ours) /\ causes' = causes \cup {"logged"} \cup elsewhere \cup Overwritten(rows, rows')
  /\ UNCHANGED <<job, stored, cmd, todo, alone, line, commands, result, ended, dlq>>

ReplayEnds ==
  /\ cmd = "replay" /\ line = Len(dlq) /\ batch = <<>>
  /\ cmd' = "none" /\ result' = "ok" /\ ended' = "replay"
  /\ line' = 0 /\ bound' = "none"
  /\ UNCHANGED <<job, stored, todo, alone, batch, commands, rows, dlq, acked, causes>>

-----------------------------------------------------------------------------
(* backup and restore.                                                     *)

BackupTakes(format) ==
  IF format = "parquet" THEN ParquetTakes(job.column.type, job.column.kind) ELSE IsJSON(job.column.kind)

\* One that fails does so before its first upload, and leaves those there are.
Backs ==
  /\ cmd = "none" /\ commands < MaxCommands
  /\ commands' = commands + 1
  /\ \E format \in {"parquet", "ndjson"} :
       IF BackupTakes(format) THEN stored' = stored \cup {format} /\ result' = "ok"
       ELSE result' = "failed" /\ UNCHANGED stored
  /\ ended' = "backup"
  /\ UNCHANGED <<job, cmdVars, rows, dlq, acked, causes>>

\* ApplySchema binds the target's writer to the table.
RestoreStarts == stored # {} /\ Starts("restore")

AllRestored(s) == [i \in DOMAIN s |-> Restored(s[i])]

\* The batches of a chunk. Every chunk is read as Parquet: see Backup's FetchChunk.
RestoreWrites ==
  /\ cmd = "restore" /\ "parquet" \in stored
  /\ \E s \in Batches(RestoreSize) : todo' = todo \ Range(s) /\ WriteSucceeds(AllRestored(s), {})
  /\ UNCHANGED <<job, stored, cmd, commands, result, ended, alone, line, batch, bound, dlq>>

\* A chunk that cannot be had or read, or a batch that is not written: the first ends it.
RestoreFails ==
  /\ cmd = "restore"
  /\ \/ UNCHANGED <<rows, acked>>
     \/ "parquet" \in stored /\ \E s \in Batches(RestoreSize) : WriteFails(AllRestored(s))
  /\ causes' = causes \cup Overwritten(rows, rows')
  /\ cmd' = "none" /\ result' = "failed" /\ ended' = "restore" /\ todo' = {}
  /\ UNCHANGED <<job, stored, commands, alone, line, batch, bound, dlq>>

RestoreEnds_Early == \* mutant: an error of WriteBatch is taken for the end of the chunks
  /\ cmd = "restore"
  /\ cmd' = "none" /\ result' = "ok" /\ ended' = "restore" /\ todo' = {}
  /\ UNCHANGED <<job, stored, commands, alone, line, batch, bound, rows, dlq, acked, causes>>

RestoreEnds ==
  /\ cmd = "restore" /\ todo = {}
  /\ cmd' = "none" /\ result' = "ok" /\ ended' = "restore"
  /\ UNCHANGED <<job, stored, commands, todo, alone, line, batch, bound, rows, dlq, acked, causes>>

-----------------------------------------------------------------------------
\* The process dies, perhaps with half a line in the file. The migration that is started
\* next may read all the rows again.
Crash ==
  /\ cmd # "none"
  /\ cmd' = "none" /\ result' = "crashed" /\ ended' = cmd
  /\ todo' = {} /\ alone' = {} /\ line' = 0 /\ batch' = <<>> /\ bound' = "none"
  /\ \/ UNCHANGED dlq
     \/ alone # {} /\ Len(dlq) < MaxLines /\ dlq' = Append(dlq, "torn")
  /\ UNCHANGED <<job, stored, commands, rows, acked, causes>>

Next ==
  \/ MigrateStarts \/ WritesBatch \/ WritesAlone \/ DeadLetters \/ MigrateEnds
  \/ ReplayStarts \/ ReplayReads \/ ReplayFails \/ ReplayWrites \/ ReplayEnds
  \/ Backs \/ RestoreStarts \/ RestoreWrites \/ RestoreFails \/ RestoreEnds \/ Crash

Spec == Init /\ [][Next]_vars

-----------------------------------------------------------------------------
\* The variables have their types.
TypeOK ==
  /\ job \in Jobs
  /\ cmd \in {"none", "migrate", "replay", "restore"}
  /\ stored \subseteq {"parquet", "ndjson"} /\ result \in {"none", "ok", "failed", "crashed"}
  /\ todo \subseteq Records /\ alone \subseteq Records \ todo
  /\ line \in 0..Len(dlq) /\ Len(dlq) <= MaxLines
  /\ bound \in {"none", "ours", "other"}
  /\ dlq \in Seq(Lines) /\ batch \in Seq(Lines \ {"torn"}) /\ Len(batch) <= BatchSize
  /\ rows \in Holdings
  /\ acked \subseteq Entries

\* A row that a WriteBatch acknowledged is still there, whatever is written after it, but
\* for the ways in which records share a row: Cassandra replaces by a key the masks made
\* equal, and Mongo by the ID, which records read from Iceberg do not have and which is
\* one column of a key of two when they were read from PostgreSQL.
AckedStays ==
  \/ job.target = "cassandra" /\ job.key = "redacted"
  \/ job.target = "mongo" /\ job.source = "iceberg"
  \/ job.target = "mongo" /\ job.source = "postgres" /\ job.key = "shared"
  \/ \A e \in acked : rows[e] > 0

\* A command that reports success has delivered what it took (migrate: the mapped records
\* to the target or to the dead-letter file; replay: every record of that file; restore:
\* every record, as it was backed up), unless something that is at most logged has
\* happened on the way: two rows became one, a record could not be saved, a batch of a
\* replay failed or had records of two tables.
SuccessDelivers ==
  result = "ok" /\ cmd = "none" /\ causes = {} =>
    /\ ended = "migrate" => \A r \in Records : rows[Mapped(r)] > 0 \/ r \in Range(dlq)
    /\ ended = "replay" => \A r \in Range(dlq) \cap Records : rows[Mapped(r)] > 0
    /\ ended = "restore" => \A r \in Records : rows[Restored(r)] > 0

\* However often the records are sent (failed batches one by one, migrations again after
\* a crash, a dead-letter file over and over, a restore after one that failed halfway, or
\* into a table that was migrated), none is in the target twice under one key, and only
\* where the masks redact the key can it be there under two. But a target without keys,
\* or Iceberg, which has none, adds it every time.
OnceUnlessAppended ==
  job.target # "iceberg" /\ (job.target = "postgres" => job.key # "none") =>
    \A e \in Entries : rows[e] <= 1
=============================================================================
