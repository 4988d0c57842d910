------------------------------- MODULE Backup -------------------------------
(***************************************************************************)
(* The backup and restore commands over one storage location.              *)
(*                                                                         *)
(*   ReadPartition -> partCh -> addRecord -> chunk files, manifest         *)
(*   manifest, chunk files -> restoreChunk -> target                       *)
(*                                                                         *)
(* Each backup command reads the table as it then is: a row of the e-th    *)
(* backup is <<partition, place in the query's result, e>>. A chunk's      *)
(* content is the sequence of its rows, and stands for its SHA-256, too:   *)
(* contents that differ have hashes that differ.                           *)
(***************************************************************************)
EXTENDS Integers, Sequences, FiniteSets, Functions

CONSTANTS
  NumPartitions,  \* how many partitions src.Partitions returns: 1..NumPartitions
  NumRows,        \* rows of each partition
  PartCap,        \* capacity of partCh (1000 in the code)
  RestoreBatch,   \* rows per WriteBatch of a restore (1000 in the code)
  Format,         \* config: "parquet" or "ndjson"
  AtomicPut,      \* TRUE for object stores, FALSE for LocalStorage
  CloseWaits,     \* TRUE if src.Close waits for the queries that still run
  SourceMayFail,  \* TRUE if Schema, Partitions or ReadPartition may fail
  SerializerMayFail, \* TRUE if Serialize, or closing a chunk, may fail
  StorageMayFail, \* TRUE if Put or Get may fail
  TargetMayFail,  \* TRUE if ApplySchema or WriteBatch may fail
  MayCrash,       \* TRUE if the backup process may die
  MaxBackups,     \* bound: backup commands, one after the other
  MaxRestores     \* bound: restore commands, beside them

ASSUME SizesAssumption ==
  /\ NumPartitions \in Nat /\ NumRows \in Nat
  /\ PartCap \in Nat \ {0} /\ RestoreBatch \in Nat \ {0}
  /\ MaxBackups \in Nat /\ MaxRestores \in Nat

ASSUME FormatAssumption == Format \in {"parquet", "ndjson"}

ASSUME FaultsAssumption ==
  {AtomicPut, CloseWaits, SourceMayFail, SerializerMayFail, StorageMayFail,
   TargetMayFail, MayCrash} \subseteq BOOLEAN

VARIABLES
  edition,  \* backup commands begun so far; the last one's rows carry this number
  at,       \* where the backup command is
  part,     \* the partition it reads
  source,   \* ReadPartition of it: "none", "reading", or its result
  sent,     \* rows it has sent
  partCh,   \* the channel between ReadPartition and the engine
  chunk,    \* rows serialised into the open chunk
  chunkRows,\* the chunk manager's count of them
  chunks,   \* the chunks it has uploaded, as the manifest will list them
  totalRows,\* the chunk manager's count of all rows
  result,   \* how the last backup command ended
  files,    \* files[i]: the content of chunk file i in storage
  manifest, \* what manifest.json holds
  rst,      \* where the restore command is
  plan,     \* the manifest it works from
  next,     \* the chunk it is at
  data,     \* rows of that chunk it has still to write
  got,      \* rows it has written, in order
  restores  \* restore commands begun so far

sourceVars == <<part, source, sent, partCh>>
chunkVars == <<chunk, chunkRows, chunks, totalRows>>
storage == <<files, manifest>>
backupVars == <<edition, at, sourceVars, chunkVars, result>>
restoreVars == <<rst, plan, next, data, got, restores>>
vars == <<backupVars, storage, restoreVars>>

Table(e) == (1..NumPartitions) \X (1..NumRows) \X {e}

\* What storage may hold under a name: nothing, the start of a file, all of it.
Missing == [is |-> "missing"]
Torn == [is |-> "torn"]
Whole(rows) == [is |-> "whole", rows |-> rows]

\* At most one chunk a row: a chunk is uploaded only with a row in it.
Indices == 0..(NumPartitions * NumRows)

Init ==
  /\ edition = 0 /\ at = "idle" /\ result = "none"
  /\ part = 0 /\ source = "none" /\ sent = 0 /\ partCh = <<>>
  /\ chunk = <<>> /\ chunkRows = 0 /\ chunks = <<>> /\ totalRows = 0
  /\ files = [i \in Indices |-> Missing] /\ manifest = Missing
  /\ rst = "idle" /\ plan = Missing /\ next = 0 /\ data = <<>> /\ got = <<>> /\ restores = 0

-----------------------------------------------------------------------------
(* ReadPartition, in a goroutine of its own. Nothing ever cancels the      *)
(* command's context: the source ends by itself or not at all.             *)

SourceSends ==
  /\ source = "reading"
  /\ Len(partCh) < PartCap
  /\ sent < NumRows
  /\ sent' = sent + 1
  /\ partCh' = Append(partCh, <<part, sent', edition>>)
  /\ UNCHANGED <<edition, at, part, source, chunkVars, result, storage, restoreVars>>

SourceReturns ==
  /\ source = "reading"
  /\ \/ sent = NumRows /\ source' = "ok"
     \/ SourceMayFail /\ source' = "error"
  /\ UNCHANGED <<edition, at, part, sent, partCh, chunkVars, result, storage, restoreVars>>

-----------------------------------------------------------------------------
(* Engine.Backup and its chunk manager, and the command around them, which *)
(* closes the source whatever the engine returns.                          *)

BackupStarts ==
  /\ at = "idle"
  /\ edition < MaxBackups
  /\ edition' = edition + 1
  /\ UNCHANGED <<sourceVars, chunkVars>>
  /\ \/ at' = "next" /\ result' = "running"
     \/ SourceMayFail /\ at' = "closing" /\ result' = "error"
  /\ UNCHANGED <<storage, restoreVars>>

\* The engine returns an error. It does not drain partCh.
Abort == at' = "closing" /\ result' = "error"

NextPartition ==
  /\ at = "next"
  /\ IF part < NumPartitions
     THEN /\ part' = part + 1
          /\ source' = "reading" /\ sent' = 0 /\ partCh' = <<>>
          /\ at' = "read"
     ELSE at' = "final" /\ UNCHANGED sourceVars
  /\ UNCHANGED <<edition, chunkVars, result, storage, restoreVars>>

\* The engine's loop over partCh.
Receives_AfterResult == partCh # <<>> /\ source # "reading" \* mutant: waits for readErrCh first
Receives == partCh # <<>>

\* addRecord. Whether the compressed bytes written so far have reached the chunk size
\* is not told from the rows.
AddRecord ==
  /\ at = "read"
  /\ Receives
  /\ partCh' = Tail(partCh)
  /\ \/ /\ chunk' = Append(chunk, Head(partCh))
        /\ chunkRows' = chunkRows + 1
        /\ totalRows' = totalRows + 1
        /\ at' \in {"read", "rotate"}
        /\ UNCHANGED result
     \/ SerializerMayFail /\ Abort /\ UNCHANGED <<chunk, chunkRows, totalRows>>
  /\ UNCHANGED <<edition, part, source, sent, chunks, storage, restoreVars>>

PartitionEnds ==
  /\ at = "read"
  /\ partCh = <<>> /\ source # "reading"
  /\ IF source = "ok" THEN at' = "next" /\ UNCHANGED result ELSE Abort
  /\ UNCHANGED <<edition, sourceVars, chunkVars, storage, restoreVars>>

FlushFinalChunk_Skips == \* mutant: the last chunk is forgotten
  /\ at = "final"
  /\ at' = "manifest"
  /\ UNCHANGED <<edition, sourceVars, chunkVars, result, storage, restoreVars>>

FlushFinalChunk ==
  /\ at = "final"
  /\ at' = IF chunkRows > 0 THEN "last" ELSE "manifest"
  /\ UNCHANGED <<edition, sourceVars, chunkVars, result, storage, restoreVars>>

ChunkRowsAfter_Keeps == chunkRows \* mutant: no reset after a rotation
ChunkRowsAfter == IF at = "rotate" THEN 0 ELSE chunkRows

\* flushChunk, and in "rotate" openChunk for the rows to come, which may fail.
FlushChunk ==
  /\ at \in {"rotate", "last"}
  /\ files' = [files EXCEPT ![Len(chunks)] = Whole(chunk)]
  /\ chunks' = Append(chunks, [index |-> Len(chunks), rows |-> chunkRows, sum |-> chunk])
  /\ chunk' = <<>>
  /\ chunkRows' = ChunkRowsAfter
  /\ \/ at' = (IF at = "rotate" THEN "read" ELSE "manifest") /\ UNCHANGED result
     \/ at = "rotate" /\ SerializerMayFail /\ Abort
  /\ UNCHANGED <<edition, sourceVars, totalRows, manifest, restoreVars>>

\* What a Put that was not finished leaves of the file.
Leavings(old) == {old} \union (IF AtomicPut THEN {} ELSE {Torn})

FlushChunkFails_Ignored == \* mutant: the error of Put is dropped
  /\ at \in {"rotate", "last"}
  /\ StorageMayFail
  /\ \E left \in Leavings(files[Len(chunks)]) : files' = [files EXCEPT ![Len(chunks)] = left]
  /\ chunks' = Append(chunks, [index |-> Len(chunks), rows |-> chunkRows, sum |-> chunk])
  /\ chunk' = <<>>
  /\ chunkRows' = ChunkRowsAfter
  /\ at' = IF at = "rotate" THEN "read" ELSE "manifest"
  /\ UNCHANGED <<edition, sourceVars, totalRows, result, manifest, restoreVars>>

FlushChunkFails ==
  /\ at \in {"rotate", "last"}
  /\ \/ SerializerMayFail /\ UNCHANGED files
     \/ /\ StorageMayFail
        /\ \E left \in Leavings(files[Len(chunks)]) :
             files' = [files EXCEPT ![Len(chunks)] = left]
  /\ Abort
  /\ UNCHANGED <<edition, sourceVars, chunkVars, manifest, restoreVars>>

SaveManifest ==
  /\ at = "manifest"
  /\ manifest' = [is |-> "whole", edition |-> edition, chunks |-> chunks, rowCount |-> totalRows]
  /\ at' = "closing" /\ result' = "ok"
  /\ UNCHANGED <<edition, sourceVars, chunkVars, files, restoreVars>>

SaveManifestFails ==
  /\ at = "manifest"
  /\ StorageMayFail
  /\ manifest' \in Leavings(manifest)
  /\ Abort
  /\ UNCHANGED <<edition, sourceVars, chunkVars, files, restoreVars>>

\* The process is gone, and with it all but what is in storage.
Exit ==
  /\ at' = "idle"
  /\ part' = 0 /\ source' = "none" /\ sent' = 0 /\ partCh' = <<>>
  /\ chunk' = <<>> /\ chunkRows' = 0 /\ chunks' = <<>> /\ totalRows' = 0

\* runBackup's deferred src.Close, and the end of the process.
CommandEnds ==
  /\ at = "closing"
  /\ CloseWaits => source # "reading"
  /\ Exit
  /\ UNCHANGED <<edition, result, storage, restoreVars>>

\* The process dies, perhaps in the middle of a Put.
Crash ==
  /\ MayCrash
  /\ at # "idle"
  /\ files' \in IF at \in {"rotate", "last"}
               THEN {[files EXCEPT ![Len(chunks)] = left] : left \in Leavings(files[Len(chunks)])}
               ELSE {files}
  /\ manifest' \in IF at = "manifest" THEN Leavings(manifest) ELSE {manifest}
  /\ Exit
  /\ result' = "crash"
  /\ UNCHANGED <<edition, restoreVars>>

-----------------------------------------------------------------------------
(* RestoreEngine.Restore, in a process of its own: a backup may replace    *)
(* files under it at any time.                                             *)

Readable == manifest.is = "whole"

RestoreStarts ==
  /\ rst \in {"idle", "ok", "failed"}
  /\ restores < MaxRestores
  /\ restores' = restores + 1
  /\ next' = 1 /\ data' = <<>> /\ got' = <<>>
  /\ \/ Readable /\ plan' = manifest /\ rst' = "chunk"
     \/ /\ Readable => StorageMayFail \/ TargetMayFail
        /\ rst' = "failed" /\ UNCHANGED plan
  /\ UNCHANGED <<backupVars, storage>>

\* restoreChunk. It verifies the checksum, then reads the content as Parquet: it tells
\* the format from the file's name, which is chunk-NNNN.parquet.zst for every format.
ChecksOut_Exists(c) == files[c.index].is = "whole" \* mutant
ChecksOut(c) == files[c.index] = Whole(c.sum)

FetchChunk ==
  /\ rst = "chunk"
  /\ next <= Len(plan.chunks)
  /\ LET c == plan.chunks[next]
     IN IF ChecksOut(c) /\ Format = "parquet"
        THEN data' = files[c.index].rows /\ rst' = "write"
        ELSE rst' = "failed" /\ UNCHANGED data
  /\ UNCHANGED <<plan, next, got, restores, backupVars, storage>>

\* One WriteBatch of it.
BatchLen == IF Len(data) < RestoreBatch THEN Len(data) ELSE RestoreBatch

RestoreWrites ==
  /\ rst = "write"
  /\ got' = got \o SubSeq(data, 1, BatchLen)
  /\ data' = SubSeq(data, BatchLen + 1, Len(data))
  /\ IF data' = <<>> THEN next' = next + 1 /\ rst' = "chunk" ELSE UNCHANGED <<next, rst>>
  /\ UNCHANGED <<plan, restores, backupVars, storage>>

RestoreFails ==
  /\ \/ rst = "chunk" /\ next <= Len(plan.chunks) /\ StorageMayFail
     \/ rst = "write" /\ TargetMayFail
  /\ rst' = "failed"
  /\ UNCHANGED <<plan, next, data, got, restores, backupVars, storage>>

RestoreEnds ==
  /\ rst = "chunk"
  /\ next > Len(plan.chunks)
  /\ rst' = "ok"
  /\ UNCHANGED <<plan, next, data, got, restores, backupVars, storage>>

-----------------------------------------------------------------------------
SourceStep == SourceSends \/ SourceReturns

EngineStep ==
  \/ NextPartition \/ AddRecord \/ PartitionEnds
  \/ FlushFinalChunk \/ FlushChunk \/ FlushChunkFails
  \/ SaveManifest \/ SaveManifestFails \/ CommandEnds

RestoreStep == FetchChunk \/ RestoreWrites \/ RestoreFails \/ RestoreEnds

Next ==
  \/ SourceStep
  \/ BackupStarts \/ EngineStep \/ Crash
  \/ RestoreStarts \/ RestoreStep

Spec == Init /\ [][Next]_vars

\* The scheduler runs the source's goroutine and the engine's, and calls of databases
\* and storage come back. A source need not fail, and nobody has to start a command.
FairSpec == Spec /\ WF_vars(SourceStep /\ source' # "error") /\ WF_vars(EngineStep)

-----------------------------------------------------------------------------
(* Properties.                                                             *)

Rows == UNION {Table(e) : e \in 1..MaxBackups}
Chunks == [index : Nat, rows : Nat, sum : Seq(Rows)]
Files == [is : {"whole"}, rows : Seq(Rows)]
Manifests == [is : {"whole"}, edition : 1..MaxBackups, chunks : Seq(Chunks), rowCount : Nat]

\* The state has the shape the code gives it: channel and counters within bounds, an
\* open chunk counted right, nothing uploaded empty, no index past the last.
TypeOK ==
  /\ edition \in 0..MaxBackups
  /\ at \in {"idle", "next", "read", "rotate", "final", "last", "manifest", "closing"}
  /\ part \in 0..NumPartitions
  /\ source \in {"none", "reading", "ok", "error"}
  /\ sent \in 0..NumRows
  /\ partCh \in Seq(Rows) /\ Len(partCh) <= PartCap
  /\ chunk \in Seq(Rows)
  /\ chunkRows \in Nat /\ totalRows \in Nat
  /\ at \in {"next", "read", "rotate", "final", "last"} => chunkRows = Len(chunk)
  /\ at \in {"rotate", "last"} => chunk # <<>>
  /\ chunks \in Seq(Chunks) /\ Len(chunks) \in Indices
  /\ result \in {"none", "running", "ok", "error", "crash"}
  /\ files \in [Indices -> {Missing, Torn} \union Files]
  /\ manifest \in {Missing, Torn} \union Manifests
  /\ rst \in {"idle", "chunk", "write", "ok", "failed"}
  /\ plan \in {Missing} \union Manifests
  /\ next \in Nat /\ restores \in 0..MaxRestores
  /\ data \in Seq(Rows) /\ got \in Seq(Rows)

\* A manifest lists the whole table as one backup read it (manifest.go:9-11:
\* "documenting exactly what data was backed up and how it is organized"): every row in
\* one chunk, once, and every count right, wherever the chunks were cut.
ManifestComplete ==
  Readable =>
    LET cs == manifest.chunks
        rowsIn(i) == cs[i].sum
    IN /\ UNION {Range(rowsIn(i)) : i \in DOMAIN cs} = Table(manifest.edition)
       /\ \A i \in DOMAIN cs : /\ cs[i].index = i - 1
                              /\ cs[i].rows = Len(rowsIn(i))
                              /\ IsInjective(rowsIn(i))
       /\ \A i, j \in DOMAIN cs : i # j => Range(rowsIn(i)) \intersect Range(rowsIn(j)) = {}
       /\ manifest.rowCount = Cardinality(Table(manifest.edition))

Intact(m) == \A i \in DOMAIN m.chunks : ChecksOut(m.chunks[i])

\* Until the next backup begins, what the manifest lists is in storage, as it was
\* listed: crashes and failed uploads included.
IntactUntilNextBackup == Readable /\ manifest.edition = edition => Intact(manifest)

\* PLAN.md:622 and 658: "Each backup is a directory", its manifest written "atomically
\* after all chunks are confirmed"; so whatever manifest there is when no backup is in
\* progress can be restored from.
ManifestIntact == at = "idle" /\ Readable => Intact(manifest)

\* A restore that reports success has written every row of the backup it started from,
\* once, and no row of another, although a backup may have been replacing the files.
RestoreExact ==
  rst = "ok" => /\ Range(got) = Table(plan.edition)
                /\ Len(got) = Cardinality(Table(plan.edition))

\* The engine returns, however the source and the storage fail.
BackupReturns == at = "next" ~> at \in {"closing", "idle"}

\* So does the command, once the source is closed (adapter.go: Close "gracefully
\* terminates all database connections and releases resources").
BackupCommandEnds == at = "closing" ~> at = "idle"
=============================================================================
