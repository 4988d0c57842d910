------------------------------ MODULE Sources -------------------------------
(***************************************************************************)
(* Partitions and ReadPartition of the source adapters, over the calls of  *)
(* Migrate for one operation: a call asks for the ranges, moves the start  *)
(* of each to where its checkpoint is, and reads them in parallel; when it *)
(* failed another asks again, of the table and with the configuration of   *)
(* that moment. What the pipeline does between reading a row and saving    *)
(* its offset is the subject of Pipeline and Resume: here a row is read,   *)
(* written and, every now and then, checkpointed in one step. A table      *)
(* changes only between calls.                                             *)
(***************************************************************************)
EXTENDS Partitioning, FiniteSets

CONSTANTS
  MaxRows,    \* bound: rows of the table
  MaxReaders, \* bound: NumReaders, 0 included
  MaxCalls,   \* bound: calls of Migrate
  FailAfter   \* FaultConfig.FailAfterRecords

ASSUME SourcesAssumption == {MaxRows, MaxReaders, MaxCalls, FailAfter} \subseteq Nat

\* What adapter is used; whether FaultSourceAdapter wraps it (only tests do that, and one
\* kind of source inside it is enough here); whether the offsets read from a checkpoint
\* still compare with the table's keys (an ObjectID is stored as its text); whether a
\* listing finds an Iceberg table's files.
Adapters ==
  {a \in [engine : {"postgres", "cassandra", "mongo", "iceberg"},
          faulty : BOOLEAN, textOffsets : BOOLEAN, listed : BOOLEAN] :
     /\ a.faulty => a.engine = "cassandra"
     /\ a.textOffsets => a.engine = "mongo"
     /\ ~a.listed => a.engine = "iceberg"}

VARIABLES
  src,     \* the adapter
  rows,    \* the keys of the table (of an Iceberg table, its data files)
  first,   \* history: the rows the first call found
  phase,   \* "idle", "running", "failed" or "done"
  calls,   \* calls of Migrate so far
  parts,   \* the partitions of this call
  query,   \* query[i]: rows ReadPartition of partition i has still to send
  broken,  \* a ReadPartition returned an error: the context is cancelled
  count,   \* FaultSourceAdapter.recordsCount, which wraps all partitions
  ckpt,    \* ckpt[i]: LastCommitted of the partition with the i-th ID, or Nil
  ends,    \* history: ends[i] has every end that partition had
  copied,  \* rows written to the target
  causes   \* history: what can make an operation lose rows

callVars == <<parts, query, broken, count>>
vars == <<src, rows, first, phase, calls, callVars, ckpt, ends, copied, causes>>

IDs == 1..(1 + IF MaxRows > MaxReaders THEN MaxRows ELSE MaxReaders)

\* Whether ReadPartition closes its channel when it returns. runReader ranges over the
\* channel, even when the context is cancelled, and waits until it is closed.
Closes_Never == FALSE \* mutant
Closes == src.engine # "iceberg" /\ ~src.faulty

Init ==
  /\ src \in Adapters
  /\ rows \in {S \in SUBSET Keys : Cardinality(S) <= MaxRows}
  /\ first = {}
  /\ phase = "idle" /\ calls = 0
  /\ parts = <<>> /\ query = <<>> /\ broken = FALSE /\ count = 0
  /\ ckpt = [i \in IDs |-> Nil]
  /\ ends = [i \in IDs |-> {}]
  /\ copied = {} /\ causes = {}

-----------------------------------------------------------------------------
(* Migrate asks for the partitions.                                        *)

\* iceberg.Reader.Partitions: one partition for each data file in the order listed; the
\* number asked for is ignored.
Files == {[i \in DOMAIN s |-> Bounds(s[i], Nil)] : s \in Ascending(IF src.listed THEN rows ELSE {})}

Ranges(n) ==
  CASE src.engine = "postgres" -> {PostgresRanges(rows, n)}
    [] src.engine = "cassandra" -> {CassandraRanges(n)}
    [] src.engine = "mongo" -> MongoRanges(rows, n)
    [] src.engine = "iceberg" -> Files

\* The checkpoint, if there is one, replaces the start of the range.
Resumed(ranges) ==
  [i \in DOMAIN ranges |-> IF ckpt[i] = Nil THEN ranges[i] ELSE [ranges[i] EXCEPT !.start = ckpt[i]]]

\* What ReadPartition's query for the i-th partition p returns. In Mongo an offset that
\* came back as text compares with no key; a data file is read whole.
PostgresSelects(p) == Holds(p, rows)
CassandraSelects(p) == Holds(p, rows)
MongoSelects(i, p) == IF src.textOffsets /\ ckpt[i] # Nil THEN {} ELSE Holds(p, rows)
IcebergSelects(p) == {p.start}

Selects(i, p) ==
  CASE src.engine = "postgres" -> PostgresSelects(p)
    [] src.engine = "cassandra" -> CassandraSelects(p)
    [] src.engine = "mongo" -> MongoSelects(i, p)
    [] src.engine = "iceberg" -> IcebergSelects(p)

Causes(ranges) ==
  {c \in {"overflow", "moved", "text", "unlisted"} :
     \/ c = "overflow" /\ src.engine = "postgres" /\ PostgresOverflows(rows)
     \/ c = "moved" /\ \E i \in DOMAIN ranges : \E e \in ends[i] : ~EndsNoEarlier(ranges[i].end, e)
     \/ c = "text" /\ src.textOffsets /\ \E i \in DOMAIN ranges : ckpt[i] # Nil
     \/ c = "unlisted" /\ ~src.listed}

Begin ==
  /\ phase \in {"idle", "failed"}
  /\ calls < MaxCalls
  /\ calls' = calls + 1
  /\ first' = IF calls = 0 THEN rows ELSE first
  /\ \E n \in 0..MaxReaders : \E ranges \in Ranges(n) :
       /\ parts' = Resumed(ranges)
       /\ query' = [i \in DOMAIN ranges |-> Selects(i, parts'[i])]
       /\ causes' = causes \cup Causes(ranges)
       /\ ends' = [i \in IDs |-> IF i \in DOMAIN ranges THEN ends[i] \cup {ranges[i].end} ELSE ends[i]]
       /\ phase' = IF ranges = <<>> THEN "done" ELSE "running"
  /\ UNCHANGED <<src, rows, broken, count, ckpt, copied>>

-----------------------------------------------------------------------------
(* ReadPartition, with the reader, transformer and writer behind it.       *)

\* The offset is saved under the partition's ID, which an Iceberg record does not have.
Saves(i, r) ==
  \/ UNCHANGED ckpt
  \/ src.engine # "iceberg" /\ ckpt' = [ckpt EXCEPT ![i] = r]

\* Only PostgreSQL's query leaves the order to the server.
Yields(i) == IF src.engine = "postgres" THEN query[i] ELSE {Min(query[i])}

FaultIsDue == src.faulty /\ FailAfter > 0 /\ count + 1 >= FailAfter

Reads(i) ==
  /\ ~broken
  /\ query[i] # {} /\ ~FaultIsDue
  /\ \E r \in Yields(i) :
       /\ query' = [query EXCEPT ![i] = @ \ {r}]
       /\ copied' = copied \cup {r}
       /\ Saves(i, r)
       /\ causes' = causes \cup {c \in {"order"} : r # Min(query[i])}
  /\ count' = IF src.faulty THEN count + 1 ELSE count
  /\ UNCHANGED <<src, rows, first, phase, calls, parts, broken, ends>>

\* The query breaks, or the fault is due and the record in hand is not sent. The other
\* sources see the cancelled context, or send to a runReader that only drains.
Fails ==
  /\ phase = "running"
  /\ broken' = TRUE
  /\ UNCHANGED <<src, rows, first, phase, calls, parts, query, count, ckpt, ends, copied, causes>>

Forgets == \* the goroutines are gone
  /\ parts' = <<>> /\ query' = <<>> /\ broken' = FALSE /\ count' = 0
  /\ UNCHANGED <<src, rows, first, calls, ckpt, ends, copied, causes>>

CallEnds ==
  /\ phase = "running"
  /\ Closes
  /\ broken \/ \A i \in DOMAIN parts : query[i] = {}
  /\ phase' = IF broken THEN "failed" ELSE "done"
  /\ Forgets

Crash ==
  /\ phase = "running"
  /\ phase' = "failed"
  /\ Forgets

\* Between two calls a row may be inserted or deleted (one row: the bound).
TableChanges ==
  /\ phase = "failed"
  /\ phase' = "idle"
  /\ \E k \in Keys :
       IF k \in rows THEN rows' = rows \ {k} /\ first' = first \ {k}
       ELSE Cardinality(rows) < MaxRows /\ rows' = rows \cup {k} /\ UNCHANGED first
  /\ UNCHANGED <<src, calls, callVars, ckpt, ends, copied, causes>>

Goes == CallEnds \/ \E i \in DOMAIN parts : Reads(i)

Next == Begin \/ Goes \/ Fails \/ Crash \/ TableChanges

\* The call goes on; nothing has to fail, and nobody has to start it.
Spec == Init /\ [][Next]_vars /\ WF_vars(Goes)

-----------------------------------------------------------------------------
\* The variables have their types: bounds are int64 or nil, and a query yields rows of
\* the table.
TypeOK ==
  /\ src \in Adapters /\ rows \subseteq Keys /\ first \subseteq rows /\ copied \subseteq Keys
  /\ phase \in {"idle", "running", "failed", "done"}
  /\ calls \in 0..MaxCalls /\ count \in Nat /\ broken \in BOOLEAN
  /\ DOMAIN parts \subseteq IDs
  /\ \A i \in DOMAIN parts :
       /\ {parts[i].start, parts[i].end} \subseteq Keys \cup {Nil}
       /\ query[i] \subseteq rows
  /\ ckpt \in [IDs -> Keys \cup {Nil}]

\* The partitions of a first call are disjoint ("non-overlapping", postgres/reader.go:28
\* and cassandra/reader.go:30), overflow or not: no row is read twice. But for a few rows
\* right below the greatest int64, and more readers.
FirstCallReadsOnce ==
  calls = 1 /\ ~(src.engine = "postgres" /\ PostgresOvershoots(rows, Len(parts))) =>
    \A i, j \in DOMAIN parts : i # j => query[i] \cap query[j] = {}

\* An operation that reports success has copied every row its first call found, however
\* often it was started again, with however many readers and whatever was inserted in
\* between, unless one of five things happened: a bound of PostgreSQL's overflowed; a
\* later call gave a partition an earlier end than a checkpoint of its ID was taken with;
\* a checkpoint was taken of rows that came out of order; an ObjectID came back as text;
\* the listing of an Iceberg table missed its files. The greatest token of Cassandra's
\* ring is in no range.
LossHasCause ==
  phase = "done" /\ causes = {} =>
    first \ copied \subseteq (IF src.engine = "cassandra" THEN {Greatest} ELSE {})

\* A call comes to its end (ReadPartition "is responsible for closing the channel",
\* adapter.go:45), but not with the two sources that leave their channels open.
CallReturns == phase = "running" /\ src.engine # "iceberg" /\ ~src.faulty ~> phase # "running"
=============================================================================
