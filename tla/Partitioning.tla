---------------------------- MODULE Partitioning ----------------------------
(***************************************************************************)
(* How each source splits a table for the readers, and which rows the      *)
(* query of a partition returns. A row is its key: the id, the token or    *)
(* the _id that the ranges are over, one of 2 * Half integers.             *)
(***************************************************************************)
EXTENDS Integers, Sequences, SequencesExt, FiniteSetsExt

CONSTANTS
  Half, \* 2^63 in the code
  Nil   \* Go's nil: no bound

ASSUME PartitioningAssumption == Half \in Nat \ {0} /\ Nil \notin Int

Least == -Half
Greatest == Half - 1
Keys == Least..Greatest

\* int64 arithmetic: the result modulo 2^64.
Wrap(x) == ((x - Least) % (2 * Half)) + Least

\* Go's division of integers cuts the fraction off.
Quotient(x, d) == IF x < 0 THEN -((-x) \div d) ELSE x \div d

Bounds(start, end) == [start |-> start, end |-> end]
Whole == <<Bounds(Nil, Nil)>>

AtLeastOne(n) == IF n <= 0 THEN 1 ELSE n

-----------------------------------------------------------------------------
(* postgres.Reader.Partitions. The step between the ranges is computed in  *)
(* int64, as is the end of the last one.                                   *)

PostgresStep(least, greatest, k) ==
  LET q == Quotient(Wrap(greatest - least), k)
  IN IF q = 0 THEN 1 ELSE q

PostgresRanges_Exact(rows, n) == \* mutant
  IF rows = {} THEN <<>>
  ELSE LET k == AtLeastOne(n)
           step == PostgresStep(Min(rows), Max(rows), k)
       IN [i \in 1..k |-> Bounds(Min(rows) + (i - 1) * step, IF i = k THEN Max(rows) + 1 ELSE Min(rows) + i * step)]
PostgresRanges(rows, n) ==
  IF rows = {} THEN <<>>
  ELSE IF Max(rows) <= Min(rows) THEN <<Bounds(Min(rows), Wrap(Max(rows) + 1))>>
  ELSE LET k == AtLeastOne(n)
           step == PostgresStep(Min(rows), Max(rows), k)
           StartOf(i) == Wrap(Min(rows) + (i - 1) * step)
       IN [i \in 1..k |-> Bounds(StartOf(i), IF i = k THEN Wrap(Max(rows) + 1) ELSE Wrap(StartOf(i) + step))]

\* max-min or max+1 is not an int64.
PostgresOverflows(rows) ==
  rows # {} /\ (Max(rows) - Min(rows) > Greatest \/ Max(rows) = Greatest)

\* Fewer ids than readers, and so few below the greatest int64 that the ranges of the last
\* readers, which are of one id each, wrap around.
PostgresOvershoots(rows, k) == rows # {} /\ Max(rows) - Min(rows) < k /\ Min(rows) + k - 1 > Greatest

-----------------------------------------------------------------------------
(* cassandra.Reader.Partitions: big integers, over the whole token ring    *)
(* whatever the table holds.                                               *)

CassandraRanges(n) ==
  LET k == AtLeastOne(n)
      step == (Greatest - Least) \div k
      StartOf(i) == Least + (i - 1) * step
  IN [i \in 1..k |-> Bounds(StartOf(i), IF i = k THEN Greatest ELSE StartOf(i + 1))]

-----------------------------------------------------------------------------
(* MongoAdapter.Partitions and fallbackPartitions: the keys between the    *)
(* ranges come from the server, which may refuse to give any.              *)

Between(bounds) ==
  [i \in 1..(Len(bounds) + 1) |->
     Bounds(IF i = 1 THEN Nil ELSE bounds[i - 1],
            IF i = Len(bounds) + 1 THEN Nil ELSE bounds[i])]

\* The keys of S one after the other.
Ascending(S) ==
  {s \in [1..Cardinality(S) -> S] : Range(s) = S /\ \A i, j \in DOMAIN s : i < j => s[i] < s[j]}

\* splitVector: keys of the collection, ascending, as many as the server sees fit.
SplitKeys(rows) == UNION {Ascending(S) : S \in SUBSET rows}

\* $sample, sorted: at most n - 1 documents, and the same one may be drawn twice.
Samples(rows, n) == {s \in SeqOf(rows, n - 1) : \A i, j \in DOMAIN s : i < j => s[i] <= s[j]}

MongoRanges(rows, n) ==
  IF n <= 1 \/ rows = {} THEN {Whole}
  ELSE {Between(b) : b \in SplitKeys(rows) \cup Samples(rows, n)}

-----------------------------------------------------------------------------
(* ReadPartition's queries.                                                *)

\* The key is >= start and < end; a bound that is nil is left out of the query.
InRange_Closed(key, p) == (p.start = Nil \/ key >= p.start) /\ (p.end = Nil \/ key <= p.end) \* mutant
InRange_Open(key, p) == (p.start = Nil \/ key > p.start) /\ (p.end = Nil \/ key < p.end) \* mutant
InRange(key, p) ==
  /\ p.start = Nil \/ key >= p.start
  /\ p.end = Nil \/ key < p.end

Holds(p, rows) == {key \in rows : InRange(key, p)}

\* a is an end at least as great as b; no end is the greatest.
EndsNoEarlier(a, b) == a = Nil \/ (b # Nil /\ a >= b)
=============================================================================
