-------------------------- MODULE CheckpointStore ---------------------------
(***************************************************************************)
(* The transactions of the checkpoint file, each a function from the file  *)
(* (two buckets, "meta" and "partitions") to what it answers or to the     *)
(* file after it. bbolt makes each of them atomic. Keys are sequences of   *)
(* tokens, so that prefixes are what they are in bytes.                    *)
(***************************************************************************)
EXTENDS Integers, Sequences, SequencesExt, Functions

NewStore == [meta |-> <<>>, partitions |-> <<>>]

partitionKey(op, id) == op \o <<":", id>>
partitionKeyPrefix_Bare(op) == op \* mutant
partitionKeyPrefix(op) == op \o <<":">>

\* Bucket.Put adds an entry, or replaces the one that has its key.
Put(bucket, key, value) ==
  [k \in DOMAIN bucket \cup {key} |-> IF k = key THEN value ELSE bucket[k]]

\* Where a cursor goes that seeks the prefix of op and stops at the first key without it.
KeysUnder(db, op) == {k \in DOMAIN db.partitions : IsPrefix(partitionKeyPrefix(op), k)}

SaveMeta(db, op, start) == [db EXCEPT !.meta = Put(@, op, start)]
ListAllMetaIDs(db) == DOMAIN db.meta

\* A missing entry is ErrCheckpointNotFound.
HasPartition(db, op, id) == partitionKey(op, id) \in DOMAIN db.partitions
GetPartition(db, op, id) == db.partitions[partitionKey(op, id)]
SavePartition(db, op, cp) == [db EXCEPT !.partitions = Put(@, partitionKey(op, cp.id), cp)]
ListPartitions(db, op) == {db.partitions[k] : k \in KeysUnder(db, op)}

\* The checkpoint is decoded without UseNumber: its offset goes through a float64.
SaveStatus(db, op, id, status, asFloat) ==
  IF ~HasPartition(db, op, id) THEN db
  ELSE LET cp == GetPartition(db, op, id)
       IN SavePartition(db, op, [cp EXCEPT !.status = status, !.last = asFloat[@]])

\* The metadata and every checkpoint of the operation.
DeleteOperation(db, op) ==
  [meta |-> Restrict(db.meta, DOMAIN db.meta \ {op}),
   partitions |-> Restrict(db.partitions, DOMAIN db.partitions \ KeysUnder(db, op))]
=============================================================================
