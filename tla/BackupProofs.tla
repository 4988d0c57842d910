---------------------------- MODULE BackupProofs ----------------------------
(***************************************************************************)
(* Proofs about Backup, for any partitions, rows, sizes and faults: what   *)
(* a manifest lists is the whole table and is in storage until the next    *)
(* backup, and a restore that succeeds has written just that.              *)
(***************************************************************************)
EXTENDS Backup, DataLemmas

\* The engine is at work: it holds an account of every row it was sent.
Working == at \in {"next", "read", "rotate", "final", "last", "manifest"}

\* The command's process: a new one has nothing in its hands, reads a partition that
\* is there, and numbers its rows by a backup that has begun.
CommandOK ==
  /\ at = "idle" => /\ part = 0 /\ source = "none" /\ sent = 0 /\ partCh = <<>>
                    /\ chunk = <<>> /\ chunkRows = 0 /\ chunks = <<>> /\ totalRows = 0
  /\ source # "none" => part \in 1..NumPartitions
  /\ at # "idle" => edition \in 1..MaxBackups

\* What ReadPartition has sent, in this backup.
Sent == {r \in Table(edition) : r[1] < part \/ (r[1] = part /\ r[2] <= sent)}

\* The rows of the first n chunks of a list of chunks.
RowsOf(cs, n) == UNION {Range(cs[i].sum) : i \in 1..n}

\* Chunks that are numbered and counted right, none of them empty, no row twice.
Exact(cs) ==
  /\ \A i \in DOMAIN cs : /\ cs[i].index = i - 1
                          /\ cs[i].rows = Len(cs[i].sum)
                          /\ cs[i].sum # <<>>
                          /\ IsInjective(cs[i].sum)
  /\ \A i, j \in DOMAIN cs : i # j => Range(cs[i].sum) \intersect Range(cs[j].sum) = {}

\* What the chunk manager has taken: the rows it has uploaded and the open chunk's.
Uploaded == RowsOf(chunks, Len(chunks))
Taken == Uploaded \union Range(chunk)

\* Every row that was sent is in one place only: an uploaded chunk, the open chunk or
\* the channel; and the total is the number of rows taken.
AccountOK ==
  Working =>
    /\ Exact(chunks)
    /\ IsInjective(chunk) /\ Uploaded \intersect Range(chunk) = {}
    /\ IsInjective(partCh) /\ Taken \intersect Range(partCh) = {}
    /\ Taken \union Range(partCh) = Sent
    /\ IsFiniteSet(Taken) /\ totalRows = Cardinality(Taken)

\* Where the engine is between partitions, the one before has been read to its end.
ProgressOK ==
  /\ source = "ok" => sent = NumRows
  /\ at \in {"next", "final", "last", "manifest"} =>
       /\ partCh = <<>> /\ source # "reading"
       /\ part = 0 \/ sent = NumRows
  /\ at \in {"final", "last", "manifest"} => part = NumPartitions
  /\ at = "manifest" => chunk = <<>>

\* A manifest that lists the whole table as one backup read it.
Complete(m) ==
  /\ m \in Manifests
  /\ Exact(m.chunks)
  /\ RowsOf(m.chunks, Len(m.chunks)) = Table(m.edition)
  /\ m.rowCount = Cardinality(Table(m.edition))

\* What storage holds: chunks that were confirmed are there for as long as no other
\* backup has begun, and the manifest is an earlier one until they all are.
StorageOK ==
  /\ Readable => /\ Complete(manifest)
                 /\ manifest.edition <= edition
                 /\ manifest.edition = edition => ~Working /\ Intact(manifest)
  /\ Working => \A i \in DOMAIN chunks : files[i - 1] = Whole(chunks[i].sum)

\* A restore has written the chunks before the one it is at, and of that one what it
\* has no longer to write.
RestoreOK ==
  /\ rst \in {"chunk", "write", "ok"} => Complete(plan) /\ IsInjective(got)
  /\ rst \in {"chunk", "write"} => next \in 1..(Len(plan.chunks) + 1)
  /\ rst = "chunk" => Range(got) = RowsOf(plan.chunks, next - 1)
  /\ rst = "write" => /\ next <= Len(plan.chunks)
                      /\ IsInjective(got \o data)
                      /\ Range(got \o data) = RowsOf(plan.chunks, next)
  /\ rst = "ok" => Range(got) = Table(plan.edition)

IInv == TypeOK /\ CommandOK /\ AccountOK /\ ProgressOK /\ StorageOK /\ RestoreOK
USE SizesAssumption

-----------------------------------------------------------------------------
(* Types.                                                                  *)

\* TypeOK in the parts that the actions change together.
CommandTypes ==
  /\ edition \in 0..MaxBackups
  /\ at \in {"idle", "next", "read", "rotate", "final", "last", "manifest", "closing"}
  /\ result \in {"none", "running", "ok", "error", "crash"}
SourceTypes ==
  /\ part \in 0..NumPartitions
  /\ source \in {"none", "reading", "ok", "error"}
  /\ sent \in 0..NumRows
  /\ partCh \in Seq(Rows) /\ Len(partCh) <= PartCap
ChunkTypes ==
  /\ chunk \in Seq(Rows)
  /\ chunkRows \in Nat /\ totalRows \in Nat
  /\ chunks \in Seq(Chunks) /\ Len(chunks) \in Indices
OpenChunkOK ==
  /\ at \in {"next", "read", "rotate", "final", "last"} => chunkRows = Len(chunk)
  /\ at \in {"rotate", "last"} => chunk # <<>>
StorageTypes ==
  /\ files \in [Indices -> {Missing, Torn} \union Files]
  /\ manifest \in {Missing, Torn} \union Manifests
RestoreTypes ==
  /\ rst \in {"idle", "chunk", "write", "ok", "failed"}
  /\ plan \in {Missing} \union Manifests
  /\ next \in Nat /\ restores \in 0..MaxRestores
  /\ data \in Seq(Rows) /\ got \in Seq(Rows)

\* The type invariant is the conjunction of its parts, now and after a step.
LEMMA TypeParts ==
  /\ TypeOK <=> /\ CommandTypes /\ SourceTypes /\ ChunkTypes /\ OpenChunkOK
                /\ StorageTypes /\ RestoreTypes
  /\ TypeOK' <=> /\ CommandTypes' /\ SourceTypes' /\ ChunkTypes' /\ OpenChunkOK'
                 /\ StorageTypes' /\ RestoreTypes'
BY DEF TypeOK, CommandTypes, SourceTypes, ChunkTypes, OpenChunkOK, StorageTypes, RestoreTypes

\* A part is kept by a step that changes none of its variables.
LEMMA Frame ==
  /\ CommandTypes /\ UNCHANGED <<edition, at, result>> => CommandTypes'
  /\ SourceTypes /\ UNCHANGED sourceVars => SourceTypes'
  /\ ChunkTypes /\ UNCHANGED chunkVars => ChunkTypes'
  /\ OpenChunkOK /\ UNCHANGED <<at, chunk, chunkRows>> => OpenChunkOK'
  /\ StorageTypes /\ UNCHANGED storage => StorageTypes'
  /\ RestoreTypes /\ UNCHANGED restoreVars => RestoreTypes'
<1>1. CommandTypes /\ UNCHANGED <<edition, at, result>> => CommandTypes'
  BY DEF CommandTypes
<1>2. SourceTypes /\ UNCHANGED sourceVars => SourceTypes'
  BY DEF SourceTypes, sourceVars
<1>3. ChunkTypes /\ UNCHANGED chunkVars => ChunkTypes'
  BY DEF ChunkTypes, chunkVars
<1>4. OpenChunkOK /\ UNCHANGED <<at, chunk, chunkRows>> => OpenChunkOK'
  BY DEF OpenChunkOK
<1>5. StorageTypes /\ UNCHANGED storage => StorageTypes'
  BY DEF StorageTypes, storage
<1>6. RestoreTypes /\ UNCHANGED restoreVars => RestoreTypes'
  BY DEF RestoreTypes, restoreVars
<1> QED BY <1>1, <1>2, <1>3, <1>4, <1>5, <1>6

\* A row of a backup that has begun is a row.
LEMMA RowType ==
  ASSUME NEW p \in 1..NumPartitions, NEW i \in 1..NumRows, NEW e \in 1..MaxBackups
  PROVE  <<p, i, e>> \in Rows
BY DEF Rows, Table

\* There is one more index than there are rows.
LEMMA IndicesType ==
  /\ NumPartitions * NumRows \in Nat
  /\ 0 \in Indices
  /\ \A n \in Nat : n \in Indices <=> n <= NumPartitions * NumRows
<1>1. NumPartitions * NumRows \in Nat
  OBVIOUS
<1> QED BY <1>1 DEF Indices

\* The initial state has the types of TypeOK.
LEMMA TypeInit == Init => TypeOK
<1> SUFFICES ASSUME Init PROVE TypeOK
  OBVIOUS
<1> USE DEF Init
<1>1. CommandTypes
  BY DEF CommandTypes
<1>2. SourceTypes
  BY DEF SourceTypes
<1>3. ChunkTypes
  BY IndicesType DEF ChunkTypes
<1>4. OpenChunkOK
  BY DEF OpenChunkOK
<1>5. StorageTypes
  BY DEF StorageTypes
<1>6. RestoreTypes
  BY DEF RestoreTypes
<1> QED BY <1>1, <1>2, <1>3, <1>4, <1>5, <1>6, TypeParts

\* The source's goroutine keeps the types.
LEMMA SourceKeepsTypes == ASSUME TypeOK, CommandOK, SourceStep PROVE TypeOK'
<1>0. CommandTypes' /\ ChunkTypes' /\ OpenChunkOK' /\ StorageTypes' /\ RestoreTypes'
  BY Frame, TypeParts DEF SourceStep, SourceSends, SourceReturns, chunkVars, storage, restoreVars
<1>1. CASE SourceSends
  <2>1. source = "reading" /\ source # "none"
    BY <1>1 DEF SourceSends
  <2>2. part \in 1..NumPartitions /\ edition \in 1..MaxBackups
    BY <2>1 DEF CommandOK
  <2>3. sent + 1 \in 1..NumRows
    BY <1>1, TypeParts DEF SourceSends, SourceTypes
  <2>4. <<part, sent', edition>> \in Rows /\ sent' \in 1..NumRows
    BY <1>1, <2>2, <2>3, RowType DEF SourceSends
  <2>5. partCh \in Seq(Rows) /\ Len(partCh) < PartCap
    BY <1>1, TypeParts DEF SourceSends, SourceTypes
  <2>6. partCh' \in Seq(Rows) /\ Len(partCh') <= PartCap
    <3>1. partCh' = Append(partCh, <<part, sent', edition>>)
      BY <1>1 DEF SourceSends
    <3>2. Len(partCh) \in Nat /\ Len(partCh) + 1 <= PartCap
      BY <2>5, LenProperties
    <3> QED BY <3>1, <3>2, <2>4, <2>5, AppendProperties
  <2>7. SourceTypes'
    BY <1>1, <2>4, <2>6, TypeParts DEF SourceSends, SourceTypes
  <2> QED BY <1>0, <2>7, TypeParts
<1>2. CASE SourceReturns
  <2>1. SourceTypes'
    BY <1>2, TypeParts DEF SourceReturns, SourceTypes
  <2> QED BY <1>0, <2>1, TypeParts
<1> QED BY <1>1, <1>2 DEF SourceStep

\* So do the steps of the command that only move it on.
LEMMA CommandKeepsTypes ==
  ASSUME TypeOK, CommandOK,
         BackupStarts \/ NextPartition \/ PartitionEnds \/ FlushFinalChunk \/ CommandEnds
  PROVE  TypeOK'
<1> USE TypeParts
<1>0. StorageTypes' /\ RestoreTypes'
  BY Frame DEF BackupStarts, NextPartition, PartitionEnds, FlushFinalChunk, CommandEnds
<1>1. CASE BackupStarts
  <2>1. SourceTypes' /\ ChunkTypes'
    BY <1>1, Frame DEF BackupStarts
  <2>2. CommandTypes'
    BY <1>1 DEF BackupStarts, CommandTypes
  <2>3. chunkRows' = Len(chunk') /\ at' \in {"next", "closing"}
    <3>1. chunkRows = 0 /\ chunk = <<>> /\ Len(<<>>) = 0
      BY <1>1 DEF BackupStarts, CommandOK
    <3> QED BY <1>1, <3>1 DEF BackupStarts, chunkVars
  <2>4. OpenChunkOK'
    BY <2>3 DEF OpenChunkOK
  <2> QED BY <1>0, <2>1, <2>2, <2>4
<1>2. CASE NextPartition
  <2>1. ChunkTypes'
    BY <1>2, Frame DEF NextPartition
  <2>2. CommandTypes'
    BY <1>2 DEF NextPartition, CommandTypes
  <2>4. SourceTypes'
    <3>1. CASE part < NumPartitions
      <4>1. part + 1 \in 0..NumPartitions /\ <<>> \in Seq(Rows) /\ Len(<<>>) <= PartCap
        BY <3>1 DEF SourceTypes
      <4>2. /\ part' = part + 1 /\ source' = "reading" /\ sent' = 0 /\ partCh' = <<>>
        BY <1>2, <3>1 DEF NextPartition
      <4> QED BY <4>1, <4>2 DEF SourceTypes
    <3>2. CASE ~(part < NumPartitions)
      BY <1>2, <3>2, Frame DEF NextPartition
    <3> QED BY <3>1, <3>2
  <2>3. OpenChunkOK'
    BY <1>2 DEF NextPartition, OpenChunkOK, chunkVars
  <2> QED BY <1>0, <2>1, <2>2, <2>3, <2>4
<1>3. CASE PartitionEnds
  <2>1. SourceTypes' /\ ChunkTypes'
    BY <1>3, Frame DEF PartitionEnds
  <2>2. CommandTypes' /\ OpenChunkOK'
    BY <1>3 DEF PartitionEnds, Abort, CommandTypes, OpenChunkOK, chunkVars
  <2> QED BY <1>0, <2>1, <2>2
<1>4. CASE FlushFinalChunk
  <2>1. SourceTypes' /\ ChunkTypes'
    BY <1>4, Frame DEF FlushFinalChunk
  <2>2. CommandTypes'
    BY <1>4 DEF FlushFinalChunk, CommandTypes
  <2>3. chunkRows > 0 => chunk # <<>>
    BY <1>4 DEF FlushFinalChunk, OpenChunkOK
  <2>4. OpenChunkOK'
    BY <1>4, <2>3 DEF FlushFinalChunk, OpenChunkOK, chunkVars
  <2> QED BY <1>0, <2>1, <2>2, <2>4
<1>5. CASE CommandEnds
  <2>1. CommandTypes' /\ SourceTypes' /\ OpenChunkOK'
    BY <1>5 DEF CommandEnds, Exit, CommandTypes, SourceTypes, OpenChunkOK
  <2>2. ChunkTypes'
    BY <1>5, IndicesType DEF CommandEnds, Exit, ChunkTypes
  <2> QED BY <1>0, <2>1, <2>2
<1> QED BY <1>1, <1>2, <1>3, <1>4, <1>5

\* So does the chunk manager as it takes a row.
LEMMA AddRecordKeepsTypes == ASSUME TypeOK, AddRecord PROVE TypeOK'
<1> USE TypeParts
<1>0. StorageTypes' /\ RestoreTypes'
  BY Frame DEF AddRecord
<1>1. CommandTypes'
  BY DEF AddRecord, Abort, CommandTypes
<1>2. partCh \in Seq(Rows) /\ partCh # <<>> /\ partCh' = Tail(partCh)
  BY DEF AddRecord, Receives, SourceTypes
<1>3. Head(partCh) \in Rows /\ Tail(partCh) \in Seq(Rows) /\ Len(Tail(partCh)) <= PartCap
  <2>1. Len(partCh) \in Nat /\ Len(partCh) <= PartCap /\ Len(Tail(partCh)) = Len(partCh) - 1
    BY <1>2, HeadTailProperties, LenProperties DEF SourceTypes
  <2> QED BY <2>1, <1>2, HeadTailProperties
<1>4. SourceTypes'
  BY <1>2, <1>3 DEF AddRecord, SourceTypes
<1>5. CASE UNCHANGED <<chunk, chunkRows, totalRows>>
  <2>1. at' = "closing" \/ chunk' = Append(chunk, Head(partCh))
    BY DEF AddRecord, Abort
  <2>2. chunk \in Seq(Rows) /\ Len(Append(chunk, Head(partCh))) # Len(chunk)
    BY <1>3, AppendProperties, LenProperties DEF ChunkTypes
  <2>3. at' = "closing"
    BY <2>1, <2>2, <1>5
  <2> QED BY <1>0, <1>1, <1>4, <1>5, <2>3 DEF AddRecord, ChunkTypes, OpenChunkOK
<1>6. CASE /\ chunk' = Append(chunk, Head(partCh))
           /\ chunkRows' = chunkRows + 1 /\ totalRows' = totalRows + 1
           /\ at' \in {"read", "rotate"}
  <2>1. chunk' \in Seq(Rows) /\ chunk' # <<>> /\ Len(chunk') = Len(chunk) + 1
    BY <1>3, <1>6, AppendProperties DEF ChunkTypes
  <2>2. chunkRows = Len(chunk)
    BY DEF AddRecord, OpenChunkOK
  <2>3. ChunkTypes'
    BY <1>6, <2>1 DEF AddRecord, ChunkTypes
  <2>4. OpenChunkOK'
    BY <1>6, <2>1, <2>2 DEF OpenChunkOK
  <2> QED BY <1>0, <1>1, <1>4, <2>3, <2>4
<1> QED BY <1>5, <1>6 DEF AddRecord

\* A backup of the table has NumPartitions * NumRows rows.
LEMMA TableSize ==
  ASSUME NEW e
  PROVE  IsFiniteSet(Table(e)) /\ Cardinality(Table(e)) = NumPartitions * NumRows
<1> DEFINE Places == (1..NumPartitions) \X (1..NumRows)
           row == [q \in Places |-> <<q[1], q[2], e>>]
<1>1. IsFiniteSet(Places) /\ Cardinality(Places) = NumPartitions * NumRows
  <2>1. /\ IsFiniteSet(1..NumPartitions) /\ Cardinality(1..NumPartitions) = NumPartitions
        /\ IsFiniteSet(1..NumRows) /\ Cardinality(1..NumRows) = NumRows
    BY FS_Interval
  <2> QED BY <2>1, FS_Product
<1>2. row \in Bijection(Places, Table(e))
  <2>1. row \in [Places -> Table(e)]
    BY DEF Table
  <2>2. ASSUME NEW a \in Places, NEW b \in Places, row[a] = row[b] PROVE a = b
    BY <2>2
  <2>3. ASSUME NEW r \in Table(e) PROVE \E q \in Places : row[q] = r
    <3>1. PICK p \in 1..NumPartitions, i \in 1..NumRows : r = <<p, i, e>>
      BY DEF Table
    <3>2. <<p, i>> \in Places /\ <<p, i>>[1] = p /\ <<p, i>>[2] = i
      OBVIOUS
    <3>3. row[<<p, i>>] = <<<<p, i>>[1], <<p, i>>[2], e>>
      BY <3>2
    <3> QED BY <3>1, <3>2, <3>3
  <2> HIDE DEF row, Places
  <2>4. row \in Surjection(Places, Table(e))
    BY <2>1, <2>3, Fun_IsSurj
  <2> QED BY <2>1, <2>2, <2>4, Fun_IsBij
<1> HIDE DEF row, Places
<1>3. ExistsBijection(Places, Table(e))
  BY <1>2 DEF ExistsBijection
<1> QED BY <1>1, <1>3, FS_Bijection

\* A list of chunks without a row twice is no longer than the table: each chunk has a
\* row of its own, and so has the open one.
LEMMA ChunksAreFew ==
  ASSUME NEW cs \in Seq(Chunks), Exact(cs), NEW b \in Seq(Rows), b # <<>>, NEW e,
         RowsOf(cs, Len(cs)) \intersect Range(b) = {},
         RowsOf(cs, Len(cs)) \union Range(b) \subseteq Table(e)
  PROVE  Len(cs) < NumPartitions * NumRows
<1> DEFINE n == Len(cs)
           first == [i \in 1..(n + 1) |-> IF i <= n THEN cs[i].sum[1] ELSE b[1]]
<1>1. n \in Nat /\ DOMAIN cs = 1..n /\ NumPartitions * NumRows \in Nat
  BY LenProperties, IndicesType
<1> HIDE DEF n
<1>2. b[1] \in Range(b)
  BY EmptySeq, RangeMember, 1 \in 1..Len(b)
<1>3. ASSUME NEW i \in 1..n
      PROVE  cs[i].sum[1] \in Range(cs[i].sum) /\ Range(cs[i].sum) \subseteq RowsOf(cs, n)
  <2>1. cs[i].sum \in Seq(Rows) /\ cs[i].sum # <<>>
    <3>1. cs[i] \in Chunks /\ i \in DOMAIN cs
      BY <1>1, ElementOfSeq DEF n
    <3> QED BY <3>1 DEF Chunks, Exact
  <2>2. 1 \in 1..Len(cs[i].sum)
    BY <2>1, EmptySeq
  <2> QED BY <2>1, <2>2, RangeMember DEF RowsOf
<1>4. first \in [1..(n + 1) -> Table(e)]
  <2>1. ASSUME NEW i \in 1..(n + 1) PROVE first[i] \in Table(e)
    <3>1. CASE i <= n
      BY <3>1, <1>1, <1>3 DEF n
    <3>2. CASE ~(i <= n)
      BY <3>2, <1>2 DEF n
    <3> QED BY <3>1, <3>2
  <2> QED BY <2>1
<1>5. ASSUME NEW i \in 1..(n + 1), NEW j \in 1..(n + 1), first[i] = first[j] PROVE i = j
  <2>1. CASE i <= n /\ j <= n
    <3>1. i \in 1..n /\ j \in 1..n /\ cs[i].sum[1] = cs[j].sum[1]
      BY <1>1, <1>5, <2>1
    <3>2. Range(cs[i].sum) \intersect Range(cs[j].sum) # {}
      BY <3>1, <1>3
    <3> QED BY <3>1, <3>2, <1>1 DEF Exact
  <2>2. CASE i <= n /\ ~(j <= n)
    <3>1. i \in 1..n /\ cs[i].sum[1] = b[1]
      BY <1>1, <1>5, <2>2
    <3> QED BY <3>1, <1>2, <1>3 DEF n
  <2>3. CASE ~(i <= n) /\ j <= n
    <3>1. j \in 1..n /\ cs[j].sum[1] = b[1]
      BY <1>1, <1>5, <2>3
    <3> QED BY <3>1, <1>2, <1>3 DEF n
  <2>4. CASE ~(i <= n) /\ ~(j <= n)
    BY <2>4, <1>1
  <2> QED BY <2>1, <2>2, <2>3, <2>4
<1> HIDE DEF first
<1>6. first \in Injection(1..(n + 1), Table(e))
  BY <1>4, <1>5, Fun_IsInj
<1>7. Cardinality(1..(n + 1)) = n + 1
  BY <1>1, FS_Interval
<1>8. Cardinality(1..(n + 1)) <= NumPartitions * NumRows
  BY <1>6, TableSize, FS_Injection
<1> QED BY <1>1, <1>7, <1>8 DEF n

\* While there is a row to upload, there is an index left for its chunk.
LEMMA IndexLeft ==
  ASSUME TypeOK, AccountOK, at \in {"rotate", "last"}
  PROVE  Len(chunks) \in Indices /\ Len(chunks) + 1 \in Indices
<1>1. /\ Exact(chunks) /\ Uploaded \intersect Range(chunk) = {}
      /\ Uploaded \union Range(chunk) \subseteq Table(edition)
  BY DEF AccountOK, Working, Taken, Sent
<1>2. chunks \in Seq(Chunks) /\ chunk \in Seq(Rows) /\ chunk # <<>>
  BY DEF TypeOK
<1>3. Len(chunks) < NumPartitions * NumRows
  BY <1>1, <1>2, ChunksAreFew DEF Uploaded
<1>4. Len(chunks) \in Nat /\ Len(chunks) + 1 \in Nat /\ NumPartitions * NumRows \in Nat
  BY <1>2, LenProperties, IndicesType
<1>5. Len(chunks) <= NumPartitions * NumRows /\ Len(chunks) + 1 <= NumPartitions * NumRows
  BY <1>3, <1>4
<1> QED BY <1>4, <1>5, IndicesType

\* What an unfinished Put leaves is still something a file can be.
LEMMA LeavingsType ==
  ASSUME NEW old, NEW left \in Leavings(old)
  PROVE  left = old \/ left = Torn
BY DEF Leavings

\* Uploading a chunk, or failing to, keeps the types.
LEMMA FlushKeepsTypes ==
  ASSUME TypeOK, AccountOK, FlushChunk \/ FlushChunkFails
  PROVE  TypeOK'
<1> USE TypeParts
<1>0. /\ SourceTypes' /\ RestoreTypes' /\ CommandTypes'
      /\ Len(chunks) \in Indices /\ Len(chunks) + 1 \in Indices
      /\ files \in [Indices -> {Missing, Torn} \union Files]
  <2>1. at \in {"rotate", "last"}
    BY DEF FlushChunk, FlushChunkFails
  <2>2. SourceTypes' /\ RestoreTypes'
    BY Frame DEF FlushChunk, FlushChunkFails
  <2>3. CommandTypes'
    BY DEF FlushChunk, FlushChunkFails, Abort, CommandTypes
  <2> QED BY <2>1, <2>2, <2>3, IndexLeft DEF StorageTypes
<1>1. CASE FlushChunk
  <2>1. Whole(chunk) \in Files
    BY DEF Whole, Files, ChunkTypes
  <2>2. StorageTypes'
    BY <1>0, <1>1, <2>1 DEF FlushChunk, StorageTypes
  <2>3. [index |-> Len(chunks), rows |-> chunkRows, sum |-> chunk] \in Chunks
    BY LenProperties DEF Chunks, ChunkTypes
  <2>4. chunks' \in Seq(Chunks) /\ Len(chunks') = Len(chunks) + 1
    BY <1>1, <2>3, AppendProperties DEF FlushChunk, ChunkTypes
  <2>5. chunk' = <<>> /\ chunkRows' = ChunkRowsAfter /\ totalRows' = totalRows
    BY <1>1 DEF FlushChunk
  <2>6. ChunkRowsAfter \in Nat
    BY DEF ChunkRowsAfter, ChunkTypes
  <2>7. ChunkTypes'
    BY <1>0, <2>4, <2>5, <2>6 DEF ChunkTypes
  <2>8. \/ at' \in {"manifest", "closing"}
        \/ at = "rotate" /\ at' = "read"
    BY <1>1 DEF FlushChunk, Abort
  <2>9. at = "rotate" => chunkRows' = Len(chunk')
    BY <2>5 DEF ChunkRowsAfter
  <2>10. OpenChunkOK'
    BY <2>8, <2>9 DEF OpenChunkOK
  <2> QED BY <1>0, <2>2, <2>7, <2>10
<1>2. CASE FlushChunkFails
  <2>1. ChunkTypes'
    BY <1>2, Frame DEF FlushChunkFails
  <2>2. OpenChunkOK'
    BY <1>2 DEF FlushChunkFails, Abort, OpenChunkOK
  <2>3. \/ UNCHANGED files
        \/ \E left \in Leavings(files[Len(chunks)]) :
             files' = [files EXCEPT ![Len(chunks)] = left]
    BY <1>2 DEF FlushChunkFails
  <2>4. StorageTypes'
    BY <1>0, <1>2, <2>3, LeavingsType DEF FlushChunkFails, StorageTypes
  <2> QED BY <1>0, <2>1, <2>2, <2>4
<1> QED BY <1>1, <1>2

\* So does saving the manifest, or failing to.
LEMMA SaveKeepsTypes ==
  ASSUME TypeOK, CommandOK, SaveManifest \/ SaveManifestFails
  PROVE  TypeOK'
<1> USE TypeParts
<1>1. SourceTypes' /\ ChunkTypes' /\ RestoreTypes'
  BY Frame DEF SaveManifest, SaveManifestFails
<1>2. CommandTypes' /\ OpenChunkOK'
  BY DEF SaveManifest, SaveManifestFails, Abort, CommandTypes, OpenChunkOK
<1>3. CASE SaveManifest
  <2>1. edition \in 1..MaxBackups
    BY <1>3 DEF SaveManifest, CommandOK
  <2>2. [is |-> "whole", edition |-> edition, chunks |-> chunks, rowCount |-> totalRows]
          \in Manifests
    BY <2>1 DEF Manifests, ChunkTypes
  <2>3. StorageTypes'
    BY <1>3, <2>2 DEF SaveManifest, StorageTypes
  <2> QED BY <1>1, <1>2, <2>3
<1>4. CASE SaveManifestFails
  <2>1. StorageTypes'
    BY <1>4, LeavingsType DEF SaveManifestFails, StorageTypes
  <2> QED BY <1>1, <1>2, <2>1
<1> QED BY <1>3, <1>4

\* So does a crash.
LEMMA CrashKeepsTypes ==
  ASSUME TypeOK, AccountOK, Crash
  PROVE  TypeOK'
<1> USE TypeParts
<1>1. RestoreTypes'
  BY Frame DEF Crash
<1>2. CommandTypes' /\ OpenChunkOK'
  BY DEF Crash, Exit, CommandTypes, OpenChunkOK
<1>3. SourceTypes'
  BY DEF Crash, Exit, SourceTypes
<1>4. ChunkTypes'
  BY IndicesType DEF Crash, Exit, ChunkTypes
<1>5. files' \in [Indices -> {Missing, Torn} \union Files]
  <2>1. CASE at \in {"rotate", "last"}
    <3>1. PICK left \in Leavings(files[Len(chunks)]) :
                 files' = [files EXCEPT ![Len(chunks)] = left]
      BY <2>1 DEF Crash
    <3> QED BY <2>1, <3>1, IndexLeft, LeavingsType DEF StorageTypes
  <2>2. CASE at \notin {"rotate", "last"}
    BY <2>2 DEF Crash, StorageTypes
  <2> QED BY <2>1, <2>2
<1>6. manifest' \in {Missing, Torn} \union Manifests
  <2>1. manifest' = manifest \/ manifest' = Torn
    BY LeavingsType DEF Crash
  <2> QED BY <2>1 DEF StorageTypes
<1>7. StorageTypes'
  BY <1>5, <1>6 DEF StorageTypes
<1> QED BY <1>1, <1>2, <1>3, <1>4, <1>7

\* One WriteBatch divides what was to be written in two.
LEMMA BatchDivides ==
  ASSUME NEW S, data \in Seq(S)
  PROVE  /\ SubSeq(data, 1, BatchLen) \in Seq(S)
         /\ SubSeq(data, BatchLen + 1, Len(data)) \in Seq(S)
         /\ SubSeq(data, 1, BatchLen) \o SubSeq(data, BatchLen + 1, Len(data)) = data
<1>1. BatchLen \in 0..Len(data)
  BY LenProperties DEF BatchLen
<1> QED BY <1>1, Splitting

\* So do the steps of a restore.
LEMMA RestoreKeepsTypes ==
  ASSUME TypeOK, RestoreOK, RestoreStarts \/ RestoreStep
  PROVE  TypeOK'
<1> USE TypeParts
<1>0. CommandTypes' /\ SourceTypes' /\ ChunkTypes' /\ OpenChunkOK' /\ StorageTypes'
  BY Frame DEF RestoreStarts, RestoreStep, FetchChunk, RestoreWrites, RestoreFails,
               RestoreEnds, backupVars, chunkVars
<1>1. CASE RestoreStarts
  <2>1. plan' \in {Missing} \union Manifests
    BY <1>1 DEF RestoreStarts, Readable, StorageTypes, RestoreTypes, Missing, Torn
  <2>2. RestoreTypes'
    BY <1>1, <2>1 DEF RestoreStarts, RestoreTypes
  <2> QED BY <1>0, <2>2
<1>2. CASE FetchChunk
  <2>1. data' \in Seq(Rows)
    <3>1. CASE data' = data
      BY <3>1 DEF RestoreTypes
    <3>2. CASE data' # data
      <4>1. /\ rst = "chunk" /\ next <= Len(plan.chunks)
            /\ ChecksOut(plan.chunks[next])
            /\ data' = files[plan.chunks[next].index].rows
        BY <1>2, <3>2 DEF FetchChunk
      <4>2. plan \in Manifests /\ next \in 1..Len(plan.chunks)
        BY <4>1 DEF RestoreOK, Complete
      <4>3. plan.chunks[next] \in Chunks
        BY <4>2, ElementOfSeq DEF Manifests
      <4> QED BY <4>1, <4>3 DEF ChecksOut, Whole, Chunks
    <3> QED BY <3>1, <3>2
  <2>2. RestoreTypes'
    BY <1>2, <2>1 DEF FetchChunk, RestoreTypes
  <2> QED BY <1>0, <2>2
<1>3. CASE RestoreWrites
  <2>1. data \in Seq(Rows) /\ got \in Seq(Rows)
    BY DEF RestoreTypes
  <2>2. data' \in Seq(Rows) /\ got' \in Seq(Rows)
    BY <1>3, <2>1, BatchDivides, ConcatProperties DEF RestoreWrites
  <2>3. next' \in Nat /\ rst' \in {"idle", "chunk", "write", "ok", "failed"}
    BY <1>3 DEF RestoreWrites, RestoreTypes
  <2>4. RestoreTypes'
    BY <1>3, <2>2, <2>3 DEF RestoreWrites, RestoreTypes
  <2> QED BY <1>0, <2>4
<1>4. CASE RestoreFails \/ RestoreEnds
  <2>1. RestoreTypes'
    BY <1>4 DEF RestoreFails, RestoreEnds, RestoreTypes
  <2> QED BY <1>0, <2>1
<1> QED BY <1>1, <1>2, <1>3, <1>4 DEF RestoreStep

\* Every step keeps the types, given the account of where the rows are.
LEMMA TypeStep ==
  ASSUME TypeOK, CommandOK, AccountOK, RestoreOK, [Next]_vars
  PROVE  TypeOK'
<1>1. CASE UNCHANGED vars
  <2>1. UNCHANGED <<backupVars, storage, restoreVars>>
    BY <1>1 DEF vars
  <2>2. UNCHANGED <<edition, at, result>> /\ UNCHANGED sourceVars /\ UNCHANGED chunkVars
    BY <2>1 DEF backupVars
  <2>3. UNCHANGED <<at, chunk, chunkRows>>
    BY <2>2 DEF chunkVars
  <2> QED BY <2>1, <2>2, <2>3, Frame, TypeParts
<1> QED
  BY <1>1, SourceKeepsTypes, CommandKeepsTypes, AddRecordKeepsTypes, FlushKeepsTypes,
     SaveKeepsTypes, CrashKeepsTypes, RestoreKeepsTypes DEF Next, EngineStep

-----------------------------------------------------------------------------
(* The command and its progress.                                           *)

\* A command begins with nothing and reads partitions that are there.
LEMMA CommandStep == ASSUME TypeOK, CommandOK, [Next]_vars PROVE CommandOK'
<1> USE DEF CommandOK
<1>1. CASE SourceStep
  BY <1>1 DEF SourceStep, SourceSends, SourceReturns, chunkVars, TypeOK
<1>2. CASE BackupStarts
  <2>1. edition + 1 \in 1..MaxBackups
    BY <1>2 DEF BackupStarts, TypeOK
  <2> QED BY <1>2, <2>1 DEF BackupStarts, sourceVars
<1>3. CASE NextPartition
  <2>1. part < NumPartitions => part + 1 \in 1..NumPartitions
    BY DEF TypeOK
  <2> QED BY <1>3, <2>1 DEF NextPartition, sourceVars
<1>4. CASE AddRecord \/ PartitionEnds \/ FlushFinalChunk
  BY <1>4 DEF AddRecord, PartitionEnds, FlushFinalChunk, Abort, sourceVars
<1>5. CASE FlushChunk \/ FlushChunkFails \/ SaveManifest \/ SaveManifestFails
  BY <1>5 DEF FlushChunk, FlushChunkFails, SaveManifest, SaveManifestFails, Abort, sourceVars
<1>6. CASE CommandEnds \/ Crash
  BY <1>6 DEF CommandEnds, Crash, Exit
<1>7. CASE RestoreStarts \/ RestoreStep
  BY <1>7 DEF RestoreStarts, RestoreStep, FetchChunk, RestoreWrites, RestoreFails,
              RestoreEnds, backupVars, sourceVars, chunkVars
<1>8. CASE UNCHANGED vars
  BY <1>8 DEF vars, backupVars, sourceVars, chunkVars
<1> QED
  BY <1>1, <1>2, <1>3, <1>4, <1>5, <1>6, <1>7, <1>8 DEF Next, EngineStep

\* The engine goes on to the next partition, and at last to the manifest, only after the
\* source of the one before has returned, and partCh is empty.
LEMMA ProgressStep ==
  ASSUME TypeOK, CommandOK, ProgressOK, [Next]_vars
  PROVE  ProgressOK'
<1> USE DEF ProgressOK
<1>1. CASE SourceStep
  BY <1>1 DEF SourceStep, SourceSends, SourceReturns, chunkVars, TypeOK
<1>2. CASE BackupStarts
  BY <1>2 DEF BackupStarts, CommandOK, sourceVars
<1>3. CASE NextPartition
  <2>1. ~(part < NumPartitions) => part = NumPartitions
    BY DEF TypeOK
  <2> QED BY <1>3, <2>1 DEF NextPartition, sourceVars
<1>4. CASE AddRecord
  BY <1>4 DEF AddRecord, Abort
<1>5. CASE PartitionEnds
  BY <1>5 DEF PartitionEnds, Abort, sourceVars
<1>6. CASE FlushFinalChunk
  <2>1. ~(chunkRows > 0) => chunk = <<>>
    <3>1. chunkRows = Len(chunk) /\ chunk \in Seq(Rows)
      BY <1>6 DEF FlushFinalChunk, TypeOK
    <3> QED BY <3>1, EmptySeq
  <2> QED BY <1>6, <2>1 DEF FlushFinalChunk, sourceVars, chunkVars
<1>7. CASE FlushChunk
  BY <1>7 DEF FlushChunk, Abort, sourceVars
<1>8. CASE FlushChunkFails \/ SaveManifest \/ SaveManifestFails
  BY <1>8 DEF FlushChunkFails, SaveManifest, SaveManifestFails, Abort, sourceVars
<1>9. CASE CommandEnds \/ Crash
  BY <1>9 DEF CommandEnds, Crash, Exit
<1>10. CASE RestoreStarts \/ RestoreStep
  BY <1>10 DEF RestoreStarts, RestoreStep, FetchChunk, RestoreWrites, RestoreFails,
               RestoreEnds, backupVars, sourceVars, chunkVars
<1>11. CASE UNCHANGED vars
  BY <1>11 DEF vars, backupVars, sourceVars, chunkVars
<1> QED
  BY <1>1, <1>2, <1>3, <1>4, <1>5, <1>6, <1>7, <1>8, <1>9, <1>10, <1>11 DEF Next, EngineStep

-----------------------------------------------------------------------------
(* The account of the rows.                                                *)

\* A list of chunks with one more holds the rows of that one besides.
LEMMA RowsOfOneMore ==
  ASSUME NEW cs \in Seq(Chunks), NEW c \in Chunks
  PROVE  RowsOf(Append(cs, c), Len(Append(cs, c))) = RowsOf(cs, Len(cs)) \union Range(c.sum)
<1> DEFINE ds == Append(cs, c)
<1>1. /\ ds \in Seq(Chunks) /\ Len(ds) = Len(cs) + 1 /\ Len(cs) \in Nat
      /\ DOMAIN cs = 1..Len(cs) /\ DOMAIN ds = 1..(Len(cs) + 1)
      /\ \A i \in 1..Len(cs) : ds[i] = cs[i]
      /\ ds[Len(cs) + 1] = c
  BY AppendProperties, LenProperties
<1> HIDE DEF ds
<1>2. 1..(Len(cs) + 1) = 1..Len(cs) \union {Len(cs) + 1}
  BY <1>1
<1>3. RowsOf(ds, Len(ds)) = RowsOf(cs, Len(cs)) \union Range(c.sum)
  <2>1. ASSUME NEW r \in RowsOf(ds, Len(ds)) PROVE r \in RowsOf(cs, Len(cs)) \union Range(c.sum)
    <3>1. PICK i \in 1..(Len(cs) + 1) : r \in Range(ds[i].sum)
      BY <1>1 DEF RowsOf
    <3> QED BY <1>1, <1>2, <3>1 DEF RowsOf
  <2>2. ASSUME NEW r \in RowsOf(cs, Len(cs)) PROVE r \in RowsOf(ds, Len(ds))
    <3>1. PICK i \in 1..Len(cs) : r \in Range(cs[i].sum)
      BY DEF RowsOf
    <3> QED BY <1>1, <1>2, <3>1 DEF RowsOf
  <2>3. ASSUME NEW r \in Range(c.sum) PROVE r \in RowsOf(ds, Len(ds))
    BY <1>1, <1>2 DEF RowsOf
  <2> QED BY <2>1, <2>2, <2>3
<1> QED BY <1>3 DEF ds

\* Uploading the open chunk keeps the list exact.
LEMMA ExactWithOneMore ==
  ASSUME NEW cs \in Seq(Chunks), NEW b \in Seq(Rows), NEW ds,
         Exact(cs), IsInjective(b), b # <<>>, RowsOf(cs, Len(cs)) \intersect Range(b) = {},
         ds = Append(cs, [index |-> Len(cs), rows |-> Len(b), sum |-> b])
  PROVE  Exact(ds) /\ RowsOf(ds, Len(ds)) = RowsOf(cs, Len(cs)) \union Range(b)
<1> DEFINE c == [index |-> Len(cs), rows |-> Len(b), sum |-> b]
<1>1. c \in Chunks /\ c.index = Len(cs) /\ c.rows = Len(b) /\ c.sum = b
  BY LenProperties DEF Chunks
<1> HIDE DEF c
<1>2. ds = Append(cs, c)
  BY DEF c
<1>3. /\ Len(cs) \in Nat /\ DOMAIN cs = 1..Len(cs) /\ DOMAIN ds = 1..(Len(cs) + 1)
      /\ \A i \in 1..Len(cs) : ds[i] = cs[i]
      /\ ds[Len(cs) + 1] = c
      /\ RowsOf(ds, Len(ds)) = RowsOf(cs, Len(cs)) \union Range(c.sum)
  <2>1. c \in Chunks
    BY <1>1
  <2>2. /\ Len(cs) \in Nat /\ DOMAIN cs = 1..Len(cs) /\ DOMAIN ds = 1..(Len(cs) + 1)
        /\ \A i \in 1..Len(cs) : ds[i] = cs[i]
        /\ ds[Len(cs) + 1] = c
    BY <2>1, <1>2, AppendProperties, LenProperties
  <2>3. RowsOf(ds, Len(ds)) = RowsOf(cs, Len(cs)) \union Range(c.sum)
    BY <2>1, <1>2, RowsOfOneMore
  <2> QED BY <2>2, <2>3
<1>4. ASSUME NEW i \in 1..Len(cs) PROVE Range(cs[i].sum) \intersect Range(b) = {}
  BY <1>4 DEF RowsOf
<1>0. ASSUME NEW i \in 1..(Len(cs) + 1) PROVE i \in 1..Len(cs) \/ i = Len(cs) + 1
  BY <1>3
<1>5. ASSUME NEW i \in 1..(Len(cs) + 1)
      PROVE  /\ ds[i].index = i - 1 /\ ds[i].rows = Len(ds[i].sum)
             /\ ds[i].sum # <<>> /\ IsInjective(ds[i].sum)
  <2>1. CASE i \in 1..Len(cs)
    BY <1>3, <2>1 DEF Exact
  <2>2. CASE i = Len(cs) + 1
    BY <1>1, <1>3, <2>2
  <2> QED BY <2>1, <2>2, <1>0
<1>6. ASSUME NEW i \in 1..(Len(cs) + 1), NEW j \in 1..(Len(cs) + 1), i # j
      PROVE  Range(ds[i].sum) \intersect Range(ds[j].sum) = {}
  <2>1. CASE i \in 1..Len(cs) /\ j \in 1..Len(cs)
    BY <1>3, <1>6, <2>1 DEF Exact
  <2>2. CASE i \in 1..Len(cs) /\ j = Len(cs) + 1
    BY <1>1, <1>3, <1>4, <2>2
  <2>3. CASE i = Len(cs) + 1 /\ j \in 1..Len(cs)
    BY <1>1, <1>3, <1>4, <2>3
  <2> QED BY <2>1, <2>2, <2>3, <1>0, <1>6
<1>7. Exact(ds)
  BY <1>3, <1>5, <1>6 DEF Exact
<1> QED BY <1>1, <1>3, <1>7

\* Nothing is uploaded before the first chunk.
LEMMA NoChunkYet == Exact(<<>>) /\ RowsOf(<<>>, Len(<<>>)) = {}
<1>1. Len(<<>>) = 0 /\ DOMAIN <<>> = {} /\ 1..0 = {}
  OBVIOUS
<1> QED BY <1>1 DEF Exact, RowsOf

\* A step that moves no row keeps the account.
LEMMA AccountFrame ==
  ASSUME AccountOK, Working' => Working,
         UNCHANGED <<edition, part, sent, partCh, chunk, chunks, totalRows>>
  PROVE  AccountOK'
BY DEF AccountOK, Taken, Uploaded, Sent

\* A row that is sent is new, and is in the channel.
LEMMA AccountOfSend ==
  ASSUME TypeOK, CommandOK, AccountOK, SourceSends
  PROVE  AccountOK'
<1> SUFFICES ASSUME Working' PROVE AccountOK'
  BY DEF AccountOK
<1> DEFINE r == <<part, sent', edition>>
<1>1. /\ sent' = sent + 1 /\ partCh' = Append(partCh, r)
      /\ UNCHANGED <<edition, part, chunk, chunks, totalRows>>
      /\ Working
  BY DEF SourceSends, Working, chunkVars
<1>2. /\ part \in 1..NumPartitions /\ edition \in 1..MaxBackups
      /\ sent \in Nat /\ sent + 1 \in 1..NumRows /\ partCh \in Seq(Rows)
  BY DEF SourceSends, CommandOK, TypeOK
<1>3. r \in Rows /\ r \in Table(edition) /\ r[1] = part /\ r[2] = sent + 1
  BY <1>1, <1>2, RowType DEF Table
<1>4. Sent' = Sent \union {r}
  <2>1. ASSUME NEW x \in Table(edition)
        PROVE  (x[1] = part /\ x[2] <= sent + 1) <=> x = r \/ (x[1] = part /\ x[2] <= sent)
    <3>1. PICK p \in 1..NumPartitions, i \in 1..NumRows : x = <<p, i, edition>>
      BY DEF Table
    <3>2. x[1] = p /\ x[2] = i
      BY <3>1
    <3>3. x = r <=> p = part /\ i = sent + 1
      BY <1>1, <3>1
    <3>4. i <= sent + 1 <=> i <= sent \/ i = sent + 1
      BY <1>2
    <3> QED BY <3>2, <3>3, <3>4
  <2>2. Sent' = {x \in Table(edition) : x[1] < part \/ (x[1] = part /\ x[2] <= sent + 1)}
    BY <1>1 DEF Sent
  <2> HIDE DEF r
  <2> QED BY <1>3, <2>1, <2>2 DEF Sent
<1>5. r \notin Sent
  BY <1>2, <1>3 DEF Sent
<1> HIDE DEF r
<1>6. UNCHANGED <<Uploaded, Taken>>
  BY <1>1 DEF Uploaded, Taken
<1>7. /\ Range(partCh') = Range(partCh) \union {r}
      /\ IsInjective(partCh') <=> IsInjective(partCh) /\ r \notin Range(partCh)
  BY <1>1, <1>2, <1>3, Appending
<1>8. /\ Exact(chunks) /\ IsInjective(chunk) /\ Uploaded \intersect Range(chunk) = {}
      /\ IsInjective(partCh) /\ Taken \intersect Range(partCh) = {}
      /\ Taken \union Range(partCh) = Sent
      /\ IsFiniteSet(Taken) /\ totalRows = Cardinality(Taken)
  BY <1>1 DEF AccountOK
<1>9. r \notin Taken /\ r \notin Range(partCh)
  BY <1>5, <1>8
<1>10. /\ IsInjective(partCh') /\ Taken \intersect Range(partCh') = {}
       /\ Taken \union Range(partCh') = Sent'
  BY <1>4, <1>7, <1>8, <1>9
<1>11. IsInjective(chunk') /\ Uploaded' \intersect Range(chunk') = {} /\ Exact(chunks')
  BY <1>1, <1>6, <1>8
<1>12. IsFiniteSet(Taken') /\ totalRows' = Cardinality(Taken')
  BY <1>1, <1>6, <1>8
<1> QED BY <1>6, <1>10, <1>11, <1>12 DEF AccountOK

\* A backup begins with no row, and a partition with those of the ones before it.
LEMMA AccountOfBeginning ==
  ASSUME TypeOK, CommandOK, ProgressOK, AccountOK, BackupStarts \/ NextPartition
  PROVE  AccountOK'
<1> SUFFICES ASSUME Working' PROVE AccountOK'
  BY DEF AccountOK
<1>1. CASE BackupStarts
  <2>1. /\ part' = 0 /\ partCh' = <<>> /\ chunk' = <<>> /\ chunks' = <<>> /\ totalRows' = 0
    BY <1>1 DEF BackupStarts, CommandOK, sourceVars, chunkVars
  <2>2. Sent' = {}
    BY <2>1 DEF Sent, Table
  <2>3. Uploaded' = {} /\ Exact(chunks')
    BY <2>1, NoChunkYet DEF Uploaded
  <2>4. Range(chunk') = {} /\ Range(partCh') = {} /\ IsInjective(chunk') /\ IsInjective(partCh')
    BY <2>1, RangeEmpty
  <2>5. Taken' = {}
    BY <2>3, <2>4 DEF Taken
  <2>6. IsFiniteSet(Taken') /\ totalRows' = Cardinality(Taken')
    BY <2>1, <2>5, FS_EmptySet
  <2> QED BY <2>2, <2>3, <2>4, <2>5, <2>6 DEF AccountOK
<1>2. CASE NextPartition
  <2>1. Working /\ partCh = <<>> /\ (part = 0 \/ sent = NumRows)
    BY <1>2 DEF NextPartition, Working, ProgressOK
  <2>2. CASE part < NumPartitions
    <3>1. /\ part' = part + 1 /\ sent' = 0 /\ partCh' = <<>>
          /\ UNCHANGED <<edition, chunk, chunks, totalRows>>
      BY <1>2, <2>2 DEF NextPartition, chunkVars
    <3>2. Sent' = Sent
      <4>1. ASSUME NEW x \in Table(edition)
            PROVE  (x[1] < part + 1 \/ (x[1] = part + 1 /\ x[2] <= 0))
                     <=> (x[1] < part \/ (x[1] = part /\ x[2] <= sent))
        <5>1. PICK p \in 1..NumPartitions, i \in 1..NumRows : x = <<p, i, edition>>
          BY DEF Table
        <5>2. x[1] = p /\ x[2] = i
          BY <5>1
        <5>3. part \in Nat
          BY DEF TypeOK
        <5> QED BY <2>1, <5>2, <5>3
      <4> QED BY <3>1, <4>1 DEF Sent
    <3>3. Uploaded' = Uploaded /\ Taken' = Taken
      BY <3>1 DEF Uploaded, Taken
    <3> QED BY <2>1, <3>1, <3>2, <3>3 DEF AccountOK
  <2>3. CASE ~(part < NumPartitions)
    BY <1>2, <2>1, <2>3, AccountFrame DEF NextPartition, sourceVars, chunkVars
  <2> QED BY <2>2, <2>3
<1> QED BY <1>1, <1>2

\* A row that is taken goes from the channel to the open chunk.
LEMMA AccountOfTaking ==
  ASSUME TypeOK, AccountOK, AddRecord
  PROVE  AccountOK'
<1> SUFFICES ASSUME Working' PROVE AccountOK'
  BY DEF AccountOK
<1> DEFINE r == Head(partCh)
<1>1. /\ chunk' = Append(chunk, r) /\ totalRows' = totalRows + 1
      /\ partCh # <<>> /\ partCh' = Tail(partCh)
      /\ UNCHANGED <<edition, part, sent, chunks>>
      /\ Working
  BY DEF AddRecord, Receives, Abort, Working
<1>2. chunk \in Seq(Rows) /\ partCh \in Seq(Rows) /\ totalRows \in Nat
  BY DEF TypeOK
<1>3. /\ r \in Rows
      /\ Range(partCh) = {r} \union Range(partCh')
      /\ IsInjective(partCh) <=> IsInjective(partCh') /\ r \notin Range(partCh')
  BY <1>1, <1>2, Receiving
<1> HIDE DEF r
<1>4. /\ Range(chunk') = Range(chunk) \union {r}
      /\ IsInjective(chunk') <=> IsInjective(chunk) /\ r \notin Range(chunk)
  BY <1>1, <1>2, <1>3, Appending
<1>5. /\ Exact(chunks) /\ IsInjective(chunk) /\ Uploaded \intersect Range(chunk) = {}
      /\ IsInjective(partCh) /\ Taken \intersect Range(partCh) = {}
      /\ Taken \union Range(partCh) = Sent
      /\ IsFiniteSet(Taken) /\ totalRows = Cardinality(Taken)
  BY <1>1 DEF AccountOK
<1>6. Uploaded' = Uploaded /\ Sent' = Sent
  BY <1>1 DEF Uploaded, Sent
<1>7. Taken' = Taken \union {r} /\ r \notin Taken /\ r \notin Uploaded /\ r \notin Range(chunk)
  BY <1>3, <1>4, <1>5, <1>6 DEF Taken
<1>8. /\ IsInjective(chunk') /\ Uploaded' \intersect Range(chunk') = {}
  BY <1>4, <1>5, <1>6, <1>7
<1>9. /\ IsInjective(partCh') /\ Taken' \intersect Range(partCh') = {}
      /\ Taken' \union Range(partCh') = Sent'
  BY <1>3, <1>5, <1>6, <1>7
<1>10. IsFiniteSet(Taken') /\ totalRows' = Cardinality(Taken')
  <2>1. IsFiniteSet(Taken \union {r}) /\ Cardinality(Taken \union {r}) = Cardinality(Taken) + 1
    BY <1>5, <1>7, FS_AddElement
  <2> QED BY <2>1, <1>1, <1>5, <1>7
<1> QED BY <1>1, <1>5, <1>8, <1>9, <1>10 DEF AccountOK

\* The rows of the open chunk become those of the last chunk uploaded.
LEMMA AccountOfUpload ==
  ASSUME TypeOK, AccountOK, FlushChunk
  PROVE  AccountOK'
<1> SUFFICES ASSUME Working' PROVE AccountOK'
  BY DEF AccountOK
<1>1. /\ chunks' = Append(chunks, [index |-> Len(chunks), rows |-> Len(chunk), sum |-> chunk])
      /\ chunk' = <<>> /\ UNCHANGED <<edition, part, sent, partCh, totalRows>>
      /\ chunk # <<>> /\ chunk \in Seq(Rows) /\ chunks \in Seq(Chunks)
      /\ Working
  BY DEF FlushChunk, Working, TypeOK, sourceVars
<1>2. /\ Exact(chunks) /\ IsInjective(chunk) /\ Uploaded \intersect Range(chunk) = {}
      /\ IsInjective(partCh) /\ Taken \intersect Range(partCh) = {}
      /\ Taken \union Range(partCh) = Sent
      /\ IsFiniteSet(Taken) /\ totalRows = Cardinality(Taken)
  BY <1>1 DEF AccountOK
<1>3. Exact(chunks') /\ Uploaded' = Uploaded \union Range(chunk)
  BY <1>1, <1>2, ExactWithOneMore DEF Uploaded
<1>4. Range(chunk') = {} /\ IsInjective(chunk')
  BY <1>1, RangeEmpty
<1>5. Taken' = Taken /\ Sent' = Sent
  BY <1>1, <1>3, <1>4 DEF Taken, Sent
<1> QED BY <1>1, <1>2, <1>3, <1>4, <1>5 DEF AccountOK

\* Every step keeps the account.
LEMMA AccountStep ==
  ASSUME TypeOK, CommandOK, ProgressOK, AccountOK, [Next]_vars
  PROVE  AccountOK'
<1> DEFINE Same == UNCHANGED <<edition, part, sent, partCh, chunk, chunks, totalRows>>
<1>1. CASE SourceReturns \/ RestoreStarts \/ RestoreStep \/ UNCHANGED vars
  <2>1. Same /\ at' = at
    BY <1>1 DEF SourceReturns, RestoreStarts, RestoreStep, FetchChunk, RestoreWrites,
                RestoreFails, RestoreEnds, vars, backupVars, sourceVars, chunkVars
  <2> QED BY <2>1, AccountFrame DEF Working
<1>2. CASE PartitionEnds \/ FlushFinalChunk
  <2>1. Same /\ Working
    BY <1>2 DEF PartitionEnds, FlushFinalChunk, Working, sourceVars, chunkVars
  <2> QED BY <2>1, AccountFrame
<1>3. CASE FlushChunkFails \/ SaveManifest \/ SaveManifestFails \/ CommandEnds \/ Crash
  <2>1. ~Working'
    BY <1>3 DEF FlushChunkFails, SaveManifest, SaveManifestFails, CommandEnds, Crash, Exit,
                Abort, Working
  <2> QED BY <2>1 DEF AccountOK
<1> QED
  BY <1>1, <1>2, <1>3, AccountOfSend, AccountOfBeginning, AccountOfTaking, AccountOfUpload
  DEF Next, SourceStep, EngineStep

-----------------------------------------------------------------------------
(* Storage, and what a restore makes of it.                                *)

\* The manifest that SaveManifest writes lists the whole table.
LEMMA ManifestIsComplete ==
  ASSUME TypeOK, CommandOK, ProgressOK, AccountOK, SaveManifest
  PROVE  Complete(manifest')
<1>1. /\ manifest' = [is |-> "whole", edition |-> edition, chunks |-> chunks, rowCount |-> totalRows]
      /\ at = "manifest" /\ Working
  BY DEF SaveManifest, Working
<1>2. manifest' \in Manifests
  BY <1>1 DEF Manifests, TypeOK, CommandOK
<1>3. /\ Exact(chunks) /\ Taken \union Range(partCh) = Sent /\ totalRows = Cardinality(Taken)
      /\ chunk = <<>> /\ partCh = <<>> /\ part = NumPartitions /\ (part = 0 \/ sent = NumRows)
  BY <1>1 DEF AccountOK, ProgressOK
<1>4. Taken = Uploaded /\ Taken = Sent
  BY <1>3, RangeEmpty DEF Taken
<1>5. Sent = Table(edition)
  <2>1. ASSUME NEW x \in Table(edition) PROVE x[1] < part \/ (x[1] = part /\ x[2] <= sent)
    <3>1. PICK p \in 1..NumPartitions, i \in 1..NumRows : x = <<p, i, edition>>
      BY DEF Table
    <3>2. x[1] = p /\ x[2] = i
      BY <3>1
    <3> QED BY <1>3, <3>2
  <2> QED BY <2>1 DEF Sent
<1>6. RowsOf(chunks, Len(chunks)) = Table(edition) /\ totalRows = Cardinality(Table(edition))
  BY <1>3, <1>4, <1>5 DEF Uploaded
<1> QED BY <1>1, <1>2, <1>3, <1>6 DEF Complete

\* Storage keeps what it holds in a step that changes neither it nor what it is compared
\* with.
LEMMA StorageFrame ==
  ASSUME StorageOK, UNCHANGED <<storage, edition>>,
         Working' => Working /\ UNCHANGED chunks
  PROVE  StorageOK'
BY DEF StorageOK, storage, Readable, Intact, ChecksOut

\* A manifest that is not of this backup stays complete while the engine works.
LEMMA OlderManifest ==
  ASSUME StorageOK, edition' = edition, manifest' = manifest \/ manifest' = Torn,
         Readable => manifest.edition # edition
  PROVE  Readable' => /\ Complete(manifest')
                      /\ manifest'.edition <= edition'
                      /\ manifest'.edition # edition'
<1> SUFFICES ASSUME Readable' PROVE Complete(manifest') /\ manifest'.edition <= edition'
                                    /\ manifest'.edition # edition'
  OBVIOUS
<1>1. manifest' = manifest /\ Readable
  BY DEF Readable, Torn
<1> QED BY <1>1 DEF StorageOK

\* Every step keeps confirmed chunks in storage, until the next backup begins.
LEMMA StorageStep ==
  ASSUME TypeOK, CommandOK, ProgressOK, AccountOK, StorageOK, [Next]_vars
  PROVE  StorageOK'
<1>1. CASE SourceStep \/ NextPartition \/ AddRecord \/ PartitionEnds \/ FlushFinalChunk \/ CommandEnds
  <2>1. UNCHANGED <<storage, edition>> /\ (Working' => Working /\ UNCHANGED chunks)
    BY <1>1 DEF SourceStep, SourceSends, SourceReturns, NextPartition, AddRecord, PartitionEnds,
                FlushFinalChunk, CommandEnds, Exit, Working, chunkVars
  <2> QED BY <2>1, StorageFrame
<1>2. CASE RestoreStarts \/ RestoreStep \/ UNCHANGED vars
  <2>1. UNCHANGED <<storage, edition, chunks>> /\ at' = at
    BY <1>2 DEF RestoreStarts, RestoreStep, FetchChunk, RestoreWrites, RestoreFails,
                RestoreEnds, vars, backupVars, chunkVars
  <2> QED BY <2>1, StorageFrame DEF Working
<1>3. CASE BackupStarts
  <2>1. edition' = edition + 1 /\ UNCHANGED storage /\ chunks' = <<>> /\ edition \in Nat
    BY <1>3 DEF BackupStarts, CommandOK, chunkVars, TypeOK
  <2>2. Readable' => Complete(manifest') /\ manifest'.edition <= edition
    BY <2>1 DEF StorageOK, storage, Readable
  <2>3. Readable' => manifest'.edition <= edition' /\ manifest'.edition # edition'
    <3>1. Readable' => manifest'.edition \in 1..MaxBackups
      BY <2>2 DEF Complete, Manifests
    <3> QED BY <2>1, <2>2, <3>1
  <2>4. DOMAIN chunks' = {}
    BY <2>1
  <2> QED BY <2>2, <2>3, <2>4 DEF StorageOK
<1>4. CASE FlushChunk
  <2>1. /\ files' = [files EXCEPT ![Len(chunks)] = Whole(chunk)]
        /\ chunks' = Append(chunks, [index |-> Len(chunks), rows |-> chunkRows, sum |-> chunk])
        /\ edition' = edition /\ manifest' = manifest /\ Working
        /\ chunks \in Seq(Chunks)
        /\ files \in [Indices -> {Missing, Torn} \union Files]
    BY <1>4 DEF FlushChunk, Working, TypeOK
  <2>2. Readable' => /\ Complete(manifest')
                     /\ manifest'.edition <= edition'
                     /\ manifest'.edition # edition'
    BY <2>1, OlderManifest DEF StorageOK
  <2>3. Len(chunks) \in Indices /\ Len(chunks) \in Nat
    BY <1>4, IndexLeft, LenProperties DEF FlushChunk, TypeOK
  <2>4. ASSUME NEW i \in DOMAIN chunks' PROVE files'[i - 1] = Whole(chunks'[i].sum)
    <3>1. [index |-> Len(chunks), rows |-> chunkRows, sum |-> chunk] \in Chunks
      BY <2>3 DEF TypeOK, Chunks
    <3>2. /\ DOMAIN chunks = 1..Len(chunks) /\ DOMAIN chunks' = 1..(Len(chunks) + 1)
          /\ \A j \in 1..Len(chunks) : chunks'[j] = chunks[j]
          /\ chunks'[Len(chunks) + 1] = [index |-> Len(chunks), rows |-> chunkRows, sum |-> chunk]
      BY <2>1, <3>1, AppendProperties, LenProperties
    <3>3. CASE i = Len(chunks) + 1
      BY <2>1, <2>3, <3>2, <3>3
    <3>4. CASE i \in 1..Len(chunks)
      <4>1. i - 1 \in Indices /\ i - 1 # Len(chunks)
        BY <2>3, <3>4, IndicesType
      <4>2. files[i - 1] = Whole(chunks[i].sum)
        BY <2>1, <3>2, <3>4 DEF StorageOK
      <4> QED BY <2>1, <3>2, <3>4, <4>1, <4>2
    <3> QED BY <2>3, <3>2, <3>3, <3>4
  <2> QED BY <2>2, <2>4 DEF StorageOK
<1>5. CASE SaveManifest
  <2>1. /\ manifest' = [is |-> "whole", edition |-> edition, chunks |-> chunks, rowCount |-> totalRows]
        /\ UNCHANGED <<edition, files>> /\ Working /\ ~Working'
    BY <1>5 DEF SaveManifest, Working
  <2>2. Complete(manifest')
    BY <1>5, ManifestIsComplete
  <2>3. \A i \in DOMAIN chunks : files[chunks[i].index] = Whole(chunks[i].sum)
    BY <2>1 DEF StorageOK, AccountOK, Exact
  <2>4. manifest'.chunks = chunks /\ manifest'.edition = edition
    BY <2>1
  <2>5. Intact(manifest)'
    BY <2>1, <2>3, <2>4 DEF Intact, ChecksOut
  <2>6. edition' <= edition'
    <3>1. edition \in Nat
      BY DEF TypeOK
    <3> QED BY <2>1, <3>1
  <2> QED BY <2>1, <2>2, <2>4, <2>5, <2>6 DEF StorageOK
<1>6. CASE FlushChunkFails \/ SaveManifestFails \/ (Crash /\ Working)
  <2>1. /\ ~Working' /\ Working /\ edition' = edition
        /\ manifest' = manifest \/ manifest' = Torn
    BY <1>6, LeavingsType DEF FlushChunkFails, SaveManifestFails, Crash, Exit, Abort, Working
  <2>2. Readable => manifest.edition # edition
    BY <2>1 DEF StorageOK
  <2>3. Readable' => /\ Complete(manifest')
                     /\ manifest'.edition <= edition'
                     /\ manifest'.edition # edition'
    BY <2>1, <2>2, OlderManifest
  <2> QED BY <2>1, <2>3 DEF StorageOK
<1>7. CASE Crash /\ ~Working
  <2>1. UNCHANGED <<files, manifest, edition>> /\ ~Working'
    BY <1>7 DEF Crash, Exit, Working, TypeOK
  <2> QED BY <1>7, <2>1 DEF StorageOK, Readable, Intact, ChecksOut
<1> QED
  BY <1>1, <1>2, <1>3, <1>4, <1>5, <1>6, <1>7 DEF Next, EngineStep

\* The first n chunks hold the rows of the first n - 1, and other rows: those of the n-th.
LEMMA NextChunkIsNew ==
  ASSUME NEW cs \in Seq(Chunks), Exact(cs), NEW n \in 1..Len(cs)
  PROVE  /\ cs[n].sum \in Seq(Rows) /\ IsInjective(cs[n].sum)
         /\ RowsOf(cs, n) = RowsOf(cs, n - 1) \union Range(cs[n].sum)
         /\ RowsOf(cs, n - 1) \intersect Range(cs[n].sum) = {}
<1>1. Len(cs) \in Nat /\ DOMAIN cs = 1..Len(cs) /\ cs[n] \in Chunks
  BY LenProperties, ElementOfSeq
<1>2. 1..n = 1..(n - 1) \union {n} /\ \A i \in 1..(n - 1) : i \in 1..Len(cs) /\ i # n
  BY <1>1
<1>3. cs[n].sum \in Seq(Rows) /\ IsInjective(cs[n].sum)
  BY <1>1 DEF Chunks, Exact
<1>4. RowsOf(cs, n) = RowsOf(cs, n - 1) \union Range(cs[n].sum)
  BY <1>2 DEF RowsOf
<1>5. \A i \in 1..(n - 1) : Range(cs[i].sum) \intersect Range(cs[n].sum) = {}
  BY <1>1, <1>2 DEF Exact
<1>6. RowsOf(cs, n - 1) \intersect Range(cs[n].sum) = {}
  BY <1>5 DEF RowsOf
<1> QED BY <1>3, <1>4, <1>6

\* A restore writes the chunk it has verified, and goes on to the next one.
LEMMA RestoreStepKept ==
  ASSUME TypeOK, StorageOK, RestoreOK, [Next]_vars
  PROVE  RestoreOK'
<1>1. CASE RestoreStarts
  <2>1. CASE Readable /\ plan' = manifest /\ rst' = "chunk"
    <3>1. Complete(plan') /\ next' = 1 /\ got' = <<>>
      BY <1>1, <2>1 DEF RestoreStarts, StorageOK
    <3>2. Len(plan'.chunks) \in Nat
      BY <3>1, LenProperties DEF Complete, Manifests
    <3>3. next' \in 1..(Len(plan'.chunks) + 1)
      BY <3>1, <3>2
    <3>4. RowsOf(plan'.chunks, next' - 1) = {}
      BY <3>1 DEF RowsOf
    <3> QED BY <2>1, <3>1, <3>3, <3>4, RangeEmpty DEF RestoreOK
  <2>2. CASE rst' = "failed"
    BY <2>2 DEF RestoreOK
  <2> QED BY <1>1, <2>1, <2>2 DEF RestoreStarts
<1>2. CASE FetchChunk
  <2>1. CASE rst' = "failed"
    BY <2>1 DEF RestoreOK
  <2>2. CASE rst' # "failed"
    <3>1. /\ rst = "chunk" /\ next <= Len(plan.chunks) /\ rst' = "write"
          /\ files[plan.chunks[next].index] = Whole(plan.chunks[next].sum)
          /\ data' = files[plan.chunks[next].index].rows
          /\ UNCHANGED <<plan, next, got>>
      BY <1>2, <2>2 DEF FetchChunk, ChecksOut
    <3>2. data' = plan.chunks[next].sum
      BY <3>1 DEF Whole
    <3>3. /\ Complete(plan) /\ IsInjective(got) /\ next \in 1..Len(plan.chunks)
          /\ Range(got) = RowsOf(plan.chunks, next - 1)
          /\ plan.chunks \in Seq(Chunks) /\ Exact(plan.chunks)
      BY <3>1 DEF RestoreOK, Complete, Manifests
    <3>4. /\ data' \in Seq(Rows) /\ IsInjective(data')
          /\ RowsOf(plan.chunks, next) = Range(got) \union Range(data')
          /\ Range(got) \intersect Range(data') = {}
      BY <3>2, <3>3, NextChunkIsNew
    <3>5. got \in Seq(Rows)
      BY DEF TypeOK
    <3>6. IsInjective(got \o data') /\ Range(got \o data') = RowsOf(plan.chunks, next)
      BY <3>3, <3>4, <3>5, Concatenation
    <3> QED BY <3>1, <3>3, <3>6 DEF RestoreOK
  <2> QED BY <2>1, <2>2
<1>3. CASE RestoreWrites
  <2>1. /\ rst = "write" /\ plan' = plan
        /\ got' = got \o SubSeq(data, 1, BatchLen)
        /\ data' = SubSeq(data, BatchLen + 1, Len(data))
        /\ IF data' = <<>> THEN next' = next + 1 /\ rst' = "chunk" ELSE UNCHANGED <<next, rst>>
    BY <1>3 DEF RestoreWrites
  <2>2. /\ Complete(plan) /\ next \in 1..Len(plan.chunks)
        /\ IsInjective(got \o data)
        /\ Range(got \o data) = RowsOf(plan.chunks, next)
    BY <2>1 DEF RestoreOK
  <2>3. got \in Seq(Rows) /\ data \in Seq(Rows)
    BY DEF TypeOK
  <2>4. /\ SubSeq(data, 1, BatchLen) \in Seq(Rows) /\ data' \in Seq(Rows)
        /\ SubSeq(data, 1, BatchLen) \o data' = data
    BY <2>1, <2>3, BatchDivides
  <2>5. got' \in Seq(Rows) /\ got' \o data' = got \o data
    <3> DEFINE batch == SubSeq(data, 1, BatchLen)
    <3>1. batch \in Seq(Rows) /\ got' = got \o batch /\ batch \o data' = data
      BY <2>1, <2>4
    <3> HIDE DEF batch
    <3>2. got' \in Seq(Rows)
      BY <2>3, <3>1, ConcatProperties
    <3>3. (got \o batch) \o data' = got \o (batch \o data')
      <4>1. data' \in Seq(Rows)
        BY <2>4
      <4>2. batch \in Seq(Rows) /\ got \in Seq(Rows)
        BY <2>3, <3>1
      <4> QED BY <4>1, <4>2, ConcatAssociative
    <3> QED BY <3>1, <3>2, <3>3
  <2>6. IsInjective(got' \o data') /\ Range(got' \o data') = RowsOf(plan.chunks, next)
    BY <2>2, <2>5
  <2>7. IsInjective(got')
    BY <2>4, <2>5, <2>6, Concatenation
  <2>8. CASE data' = <<>>
    <3>1. Range(got') = RowsOf(plan.chunks, next)
      BY <2>5, <2>6, <2>8, ConcatEmptySeq
    <3>2. next' = next + 1 /\ rst' = "chunk"
      BY <2>1, <2>8
    <3>3. next' \in 1..(Len(plan.chunks) + 1) /\ next' - 1 = next
      <4>1. Len(plan.chunks) \in Nat
        BY <2>2, LenProperties DEF Complete, Manifests
      <4> QED BY <2>2, <3>2, <4>1
    <3> QED BY <2>1, <2>2, <2>7, <3>1, <3>2, <3>3 DEF RestoreOK
  <2>9. CASE data' # <<>>
    BY <2>1, <2>2, <2>6, <2>7, <2>9 DEF RestoreOK
  <2> QED BY <2>8, <2>9
<1>4. CASE RestoreFails
  BY <1>4 DEF RestoreFails, RestoreOK
<1>5. CASE RestoreEnds
  <2>1. /\ rst = "chunk" /\ next > Len(plan.chunks) /\ rst' = "ok"
        /\ UNCHANGED <<plan, got>>
    BY <1>5 DEF RestoreEnds
  <2>2. /\ Complete(plan) /\ IsInjective(got) /\ next \in 1..(Len(plan.chunks) + 1)
        /\ Range(got) = RowsOf(plan.chunks, next - 1)
    BY <2>1 DEF RestoreOK
  <2>3. next - 1 = Len(plan.chunks)
    <3>1. Len(plan.chunks) \in Nat
      BY <2>2, LenProperties DEF Complete, Manifests
    <3> QED BY <2>1, <2>2, <3>1
  <2>4. Range(got) = Table(plan.edition)
    BY <2>2, <2>3 DEF Complete
  <2> QED BY <2>1, <2>2, <2>4 DEF RestoreOK
<1>6. CASE UNCHANGED restoreVars
  BY <1>6 DEF restoreVars, RestoreOK
<1>7. SourceStep \/ BackupStarts \/ EngineStep \/ Crash \/ UNCHANGED vars => UNCHANGED restoreVars
  BY DEF SourceStep, SourceSends, SourceReturns, BackupStarts, EngineStep, NextPartition, AddRecord,
         PartitionEnds, FlushFinalChunk, FlushChunk, FlushChunkFails, SaveManifest,
         SaveManifestFails, CommandEnds, Crash, vars
<1> QED
  BY <1>1, <1>2, <1>3, <1>4, <1>5, <1>6, <1>7 DEF Next, RestoreStep

-----------------------------------------------------------------------------
\* The initial state satisfies the inductive invariant.
LEMMA InvInit == Init => IInv
<1> SUFFICES ASSUME Init PROVE IInv
  OBVIOUS
<1>1. TypeOK
  BY TypeInit
<1>2. ~Working /\ ~Readable
  BY DEF Init, Working, Readable, Missing
<1>3. CommandOK /\ ProgressOK
  BY DEF Init, CommandOK, ProgressOK
<1>4. AccountOK /\ StorageOK
  BY <1>2 DEF AccountOK, StorageOK
<1>5. RestoreOK
  BY DEF Init, RestoreOK
<1> QED BY <1>1, <1>3, <1>4, <1>5 DEF IInv

\* Every step of backups, restores and crashes preserves it.
LEMMA InvStep == IInv /\ [Next]_vars => IInv'
BY TypeStep, CommandStep, ProgressStep, AccountStep, StorageStep, RestoreStepKept DEF IInv

\* The invariant is inductive, so it holds throughout.
THEOREM BackupInvariance == Spec => []IInv
BY InvInit, InvStep, PTL DEF Spec

\* Engine, source, storage and restore keep the shape TypeOK gives them; so there is
\* always an index left for a chunk that has a row in it.
THEOREM BackupTypeCorrect == Spec => []TypeOK
<1>1. IInv => TypeOK
  BY DEF IInv
<1> QED BY <1>1, BackupInvariance, PTL

\* Every manifest that Engine.Backup has saved lists the whole table as that backup read
\* it, each row once, wherever the chunks were cut and whatever failed before.
THEOREM ManifestsAreComplete == Spec => []ManifestComplete
<1>1. IInv => ManifestComplete
  <2> SUFFICES ASSUME IInv, Readable PROVE ManifestComplete
    BY DEF ManifestComplete
  <2>1. Complete(manifest)
    BY DEF IInv, StorageOK
  <2>2. DOMAIN manifest.chunks = 1..Len(manifest.chunks)
    BY <2>1, LenProperties DEF Complete, Manifests
  <2>3. UNION {Range(manifest.chunks[i].sum) : i \in DOMAIN manifest.chunks} = Table(manifest.edition)
    BY <2>1, <2>2 DEF Complete, RowsOf
  <2> QED BY <2>1, <2>3 DEF ManifestComplete, Complete, Exact
<1> QED BY <1>1, BackupInvariance, PTL

\* What the manifest of the last backup lists is in storage as it was uploaded, until
\* another backup begins: a crash, a failed Put or a failed source takes nothing away.
THEOREM BackupStaysIntact == Spec => []IntactUntilNextBackup
<1>1. IInv => IntactUntilNextBackup
  BY DEF IInv, StorageOK, IntactUntilNextBackup
<1> QED BY <1>1, BackupInvariance, PTL

\* A restore that succeeds has written every row of the backup whose manifest it read,
\* once, though a later backup may have been replacing the chunk files meanwhile.
THEOREM RestoresAreExact == Spec => []RestoreExact
<1>1. IInv => RestoreExact
  <2> SUFFICES ASSUME IInv, rst = "ok"
               PROVE  /\ Range(got) = Table(plan.edition)
                      /\ Len(got) = Cardinality(Table(plan.edition))
    BY DEF RestoreExact
  <2>1. Range(got) = Table(plan.edition) /\ IsInjective(got) /\ got \in Seq(Rows)
    BY DEF IInv, RestoreOK, TypeOK
  <2> QED BY <2>1, CountOfStream
<1> QED BY <1>1, BackupInvariance, PTL
=============================================================================
