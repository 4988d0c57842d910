------------------------------ MODULE Pipeline ------------------------------
(***************************************************************************)
(* One call of Orchestrator.Migrate: the goroutines that read, transform   *)
(* and write the rows of one table, the channels between them, the         *)
(* errgroup that ties their lives together, and the checkpoint they keep.  *)
(*                                                                         *)
(*   ReadPartition -> partCh -> runReader -> recordCh -> runTransformer    *)
(*                 -> batchCh -> runWriter -> target, DLQ, checkpoint      *)
(*                                                                         *)
(* A record is the pair <<partition, offset>>: what it holds, and what the *)
(* schema mapper makes of it, does not matter to where it goes.            *)
(***************************************************************************)
EXTENDS Integers, Sequences, FiniteSets, Functions

CONSTANTS
  Partitions,       \* what src.Partitions returned, by ID
  NumRows,          \* rows of each partition: their offsets are 1..NumRows
  Transformers,     \* the NumTransformers goroutines
  Writers,          \* the NumWriters goroutines
  NumReaders,       \* config: scales the capacity of recordCh
  BatchSize,        \* config: records per batch, and the capacity of a partCh
  FlushEvery,       \* config: a writer checkpoints every FlushEvery-th batch
  OrderedSource,    \* TRUE if ReadPartition yields rows in offset order
  SourceMayFail,    \* TRUE if a query may break before its last row
  TargetMayFail,    \* TRUE if WriteBatch may fail while the context is live
  DLQMayFail,       \* TRUE if dlq is nil or dlq.Write may fail
  StoreMayFail,     \* TRUE if a bbolt transaction may fail
  MayCancel         \* TRUE if the caller's context may be cancelled

\* With 0 readers or batches of 0 records the channels would be unbuffered, which
\* this model does not cover.
ASSUME SizesAssumption ==
  /\ NumRows \in Nat
  /\ NumReaders \in Nat \ {0}
  /\ BatchSize \in Nat \ {0}
  /\ FlushEvery \in Nat \ {0}

\* Migrate returns at once when there is no partition. It does start with no
\* transformer or no writer: nothing checks the counts the config gives.
ASSUME WorkersAssumption ==
  /\ IsFiniteSet(Partitions) /\ Partitions # {}
  /\ IsFiniteSet(Transformers)
  /\ IsFiniteSet(Writers)

ASSUME FaultsAssumption ==
  {OrderedSource, SourceMayFail, TargetMayFail, DLQMayFail, StoreMayFail, MayCancel}
    \subseteq BOOLEAN

Offsets == 1..NumRows
Records == Partitions \X Offsets

RecordCap == NumReaders * BatchSize
BatchCap == Cardinality(Writers) * 2

VARIABLES
  unread,   \* unread[p]: offsets p's query has not yielded yet
  source,   \* source[p]: how ReadPartition(p) stands, "reading" or its result
  partCh,   \* partCh[p]: the channel between ReadPartition(p) and its reader
  reader,   \* reader[p]: where runReader(p) is
  held,     \* held[p]: the record runReader(p) has in hand, as a sequence
  recordCh, \* the channel to the transformers
  recClosed,\* recordCh is closed
  tf,       \* tf[t]: where runTransformer is
  batch,    \* batch[t]: the batch it is filling
  batchCh,  \* the channel to the writers
  batClosed,\* batchCh is closed
  wr,       \* wr[w]: where runWriter is
  work,     \* work[w]: the batch it has in hand (what is left of it in "retry")
  count,    \* count[w]: batchCount modulo FlushEvery
  todo,     \* todo[w]: partitions saveCheckpoints still has to save
  seen,     \* seen[w]: the partition and checkpoint GetPartition returned
  ctx,      \* the errgroup's context: "live", or what cancelled it first
  failure,  \* the error g.Wait will return
  target,   \* records in the target database
  dlq,      \* records in the dead-letter file
  failed,   \* records counted by the RecordsFailed metric
  cp        \* cp[p]: the partition's checkpoint in the bbolt store

readVars == <<unread, source, partCh, reader, held>>
tfVars == <<tf, batch>>
wrVars == <<wr, work, count, todo, seen>>
chanVars == <<recordCh, recClosed, batchCh, batClosed>>
groupVars == <<ctx, failure>>
durable == <<target, dlq, cp>>
vars == <<readVars, chanVars, tfVars, wrVars, groupVars, durable, failed>>

-----------------------------------------------------------------------------
(* The checkpoint store, as far as Migrate uses it.                        *)

Absent == [status |-> "Absent", last |-> 0, rows |-> 0]
Fresh  == [status |-> "InProgress", last |-> 0, rows |-> 0]

\* How a partition with checkpoint c starts: not at all if it is Done; else its query
\* asks for the rows from LastCommitted on, inclusive.
SourceStart(c) == IF c.status = "Done" THEN "ok" ELSE "reading"
ReaderStart(c) == IF c.status = "Done" THEN "done" ELSE "range"
Remaining_All(c) == Offsets \* mutant
Remaining(c) == IF c.status = "Done" THEN {} ELSE {o \in Offsets : o >= c.last}

-----------------------------------------------------------------------------
(* Migrate lists the partitions' checkpoints and starts the goroutines; the *)
(* channels are empty.                                                     *)

Boot(known) ==
  /\ unread = [p \in Partitions |-> Remaining(known[p])]
  /\ source = [p \in Partitions |-> SourceStart(known[p])]
  /\ partCh = [p \in Partitions |-> <<>>]
  /\ reader = [p \in Partitions |-> ReaderStart(known[p])]
  /\ held = [p \in Partitions |-> <<>>]
  /\ recordCh = <<>> /\ recClosed = FALSE
  /\ batchCh = <<>> /\ batClosed = FALSE
  /\ tf = [t \in Transformers |-> "select"]
  /\ batch = [t \in Transformers |-> <<>>]
  /\ wr = [w \in Writers |-> "select"]
  /\ work = [w \in Writers |-> <<>>]
  /\ count = [w \in Writers |-> 0]
  /\ todo = [w \in Writers |-> {}]
  /\ seen = [w \in Writers |-> <<>>]
  /\ ctx = "live" /\ failure = "none"
  /\ failed = {}

Init ==
  /\ cp = [p \in Partitions |-> Absent]
  /\ target = {} /\ dlq = {}
  /\ Boot(cp)

\* What the operation's errgroup does with the error a goroutine returns: it keeps
\* the first one, and the first one cancels the context.
FirstError(old, err) == IF old = "none" THEN err ELSE old
Fail(err) ==
  /\ failure' = FirstError(failure, err)
  /\ ctx' = IF ctx = "live" THEN "error" ELSE ctx

Cancelled == ctx # "live"

\* The caller's deadline passes or the caller cancels.
CallerCancels ==
  /\ MayCancel
  /\ ctx = "live"
  /\ ctx' = "caller"
  /\ UNCHANGED <<readVars, chanVars, tfVars, wrVars, failure, durable, failed>>

-----------------------------------------------------------------------------
(* src.ReadPartition, in a goroutine of its own. It closes its channel as  *)
(* it returns, and its result goes to a channel with room for it, so the   *)
(* return is one step: "ok", "source" (the query broke) or "ctx".          *)

Yields(p) == IF OrderedSource
            THEN {o \in unread[p] : \A x \in unread[p] : o <= x}
            ELSE unread[p]

SourceSends(p) ==
  /\ source[p] = "reading"
  /\ Len(partCh[p]) < BatchSize
  /\ \E o \in Yields(p) :
       /\ unread' = [unread EXCEPT ![p] = @ \ {o}]
       /\ partCh' = [partCh EXCEPT ![p] = Append(@, <<p, o>>)]
  /\ UNCHANGED <<source, reader, held, chanVars, tfVars, wrVars, groupVars, durable, failed>>

SourceReturns(p) ==
  /\ source[p] = "reading"
  /\ \E result \in {"ok", "source", "ctx"} :
       /\ result = "ok" => unread[p] = {}
       /\ result = "source" => SourceMayFail
       /\ result = "ctx" => Cancelled
       /\ source' = [source EXCEPT ![p] = result]
  /\ UNCHANGED <<unread, partCh, reader, held, chanVars, tfVars, wrVars, groupVars, durable, failed>>

PartClosed(p) == source[p] # "reading"

-----------------------------------------------------------------------------
(* runReader. It returns through "source" or "ctx": the error is on its    *)
(* way, the wait group already counts it as done, the errgroup has not     *)
(* seen it yet.                                                            *)

ReaderTakes(p) ==
  /\ reader[p] = "range"
  /\ partCh[p] # <<>>
  /\ held' = [held EXCEPT ![p] = <<Head(partCh[p])>>]
  /\ partCh' = [partCh EXCEPT ![p] = Tail(@)]
  /\ reader' = [reader EXCEPT ![p] = "send"]
  /\ UNCHANGED <<unread, source, chanVars, tfVars, wrVars, groupVars, durable, failed>>

HasRoom == Len(recordCh) < RecordCap

ReaderSends(p) ==
  /\ reader[p] = "send"
  /\ HasRoom
  /\ recordCh' = recordCh \o held[p]
  /\ held' = [held EXCEPT ![p] = <<>>]
  /\ reader' = [reader EXCEPT ![p] = "range"]
  /\ UNCHANGED <<unread, source, partCh, recClosed, batchCh, batClosed,
                 tfVars, wrVars, groupVars, durable, failed>>

ReaderCancelled_PlainSend(p) == reader[p] = "send" /\ FALSE /\ UNCHANGED vars \* mutant
ReaderCancelled(p) ==
  /\ reader[p] = "send"
  /\ Cancelled
  /\ held' = [held EXCEPT ![p] = <<>>]
  /\ reader' = [reader EXCEPT ![p] = "drain"]
  /\ UNCHANGED <<unread, source, partCh, chanVars, tfVars, wrVars, groupVars, durable, failed>>

ReaderDrains(p) ==
  /\ reader[p] = "drain"
  /\ \/ /\ partCh[p] # <<>>
        /\ partCh' = [partCh EXCEPT ![p] = Tail(@)]
        /\ UNCHANGED reader
     \/ /\ partCh[p] = <<>> /\ PartClosed(p)
        /\ reader' = [reader EXCEPT ![p] = "ctx"]
        /\ UNCHANGED partCh
  /\ UNCHANGED <<unread, source, held, chanVars, tfVars, wrVars, groupVars, durable, failed>>

\* partCh is closed and empty: the reader returns what ReadPartition returned.
ReaderResult_Masked(result) == IF result = "ok" THEN "done" ELSE "ctx" \* mutant
ReaderResult_Ignored(result) == "done" \* mutant
ReaderResult(result) == IF result = "ok" THEN "done" ELSE result

ReaderFinishes(p) ==
  /\ reader[p] = "range"
  /\ partCh[p] = <<>> /\ PartClosed(p)
  /\ reader' = [reader EXCEPT ![p] = ReaderResult(source[p])]
  /\ UNCHANGED <<unread, source, partCh, held, chanVars, tfVars, wrVars, groupVars, durable, failed>>

ReaderReports(p) ==
  /\ reader[p] \in {"source", "ctx"}
  /\ Fail(reader[p])
  /\ reader' = [reader EXCEPT ![p] = "done"]
  /\ UNCHANGED <<unread, source, partCh, held, chanVars, tfVars, wrVars, durable, failed>>

Returned(p) == reader[p] \in {"source", "ctx", "done"}

\* The goroutine that waits for the readers and closes recordCh.
AllReadersReturned_First == \E p \in Partitions : Returned(p) \* mutant
AllReadersReturned == \A p \in Partitions : Returned(p)

CloseRecordCh ==
  /\ ~recClosed
  /\ AllReadersReturned
  /\ recClosed' = TRUE
  /\ UNCHANGED <<recordCh, batchCh, batClosed, readVars, tfVars, wrVars, groupVars, durable, failed>>

-----------------------------------------------------------------------------
(* runTransformer. In "flush" and "lastFlush" it is inside flush(), at the *)
(* send to batchCh: a plain send, which waits for room and for nothing     *)
(* else.                                                                   *)

TransformerTakes(t) ==
  /\ tf[t] = "select"
  /\ recordCh # <<>>
  /\ LET filled == Append(batch[t], Head(recordCh))
     IN /\ batch' = [batch EXCEPT ![t] = filled]
        /\ tf' = [tf EXCEPT ![t] = IF Len(filled) >= BatchSize THEN "flush" ELSE "select"]
  /\ recordCh' = Tail(recordCh)
  /\ UNCHANGED <<recClosed, batchCh, batClosed, readVars, wrVars, groupVars, durable, failed>>

TickerFires(t) ==
  /\ tf[t] = "select"
  /\ batch[t] # <<>>
  /\ tf' = [tf EXCEPT ![t] = "flush"]
  /\ UNCHANGED <<batch, chanVars, readVars, wrVars, groupVars, durable, failed>>

TransformerFinishes_SendsEmpty(t) == \* mutant: flush without its check for no records
  /\ tf[t] = "select"
  /\ recordCh = <<>> /\ recClosed
  /\ tf' = [tf EXCEPT ![t] = "lastFlush"]
  /\ UNCHANGED <<batch, chanVars, readVars, wrVars, groupVars, durable, failed>>

TransformerFinishes_Leaves(t) == \* mutant: no flush of what is left in the batch
  /\ tf[t] = "select"
  /\ recordCh = <<>> /\ recClosed
  /\ tf' = [tf EXCEPT ![t] = "done"]
  /\ UNCHANGED <<batch, chanVars, readVars, wrVars, groupVars, durable, failed>>

TransformerFinishes(t) ==
  /\ tf[t] = "select"
  /\ recordCh = <<>> /\ recClosed
  /\ tf' = [tf EXCEPT ![t] = IF batch[t] = <<>> THEN "done" ELSE "lastFlush"]
  /\ UNCHANGED <<batch, chanVars, readVars, wrVars, groupVars, durable, failed>>

TransformerFlushes_KeepsBatch(t) == \* mutant: flush without "batch = nil"
  /\ tf[t] \in {"flush", "lastFlush"}
  /\ Len(batchCh) < BatchCap
  /\ batchCh' = Append(batchCh, batch[t])
  /\ tf' = [tf EXCEPT ![t] = IF @ = "flush" THEN "select" ELSE "done"]
  /\ UNCHANGED <<batch, recordCh, recClosed, batClosed, readVars, wrVars, groupVars, durable, failed>>

TransformerFlushes(t) ==
  /\ tf[t] \in {"flush", "lastFlush"}
  /\ Len(batchCh) < BatchCap
  /\ batchCh' = Append(batchCh, batch[t])
  /\ batch' = [batch EXCEPT ![t] = <<>>]
  /\ tf' = [tf EXCEPT ![t] = IF @ = "flush" THEN "select" ELSE "done"]
  /\ UNCHANGED <<recordCh, recClosed, batClosed, readVars, wrVars, groupVars, durable, failed>>

TransformerCancelled(t) ==
  /\ tf[t] = "select"
  /\ Cancelled
  /\ batch' = [batch EXCEPT ![t] = <<>>]
  /\ tf' = [tf EXCEPT ![t] = "done"]
  /\ Fail("ctx")
  /\ UNCHANGED <<chanVars, readVars, wrVars, durable, failed>>

\* The goroutine that waits for the transformers and closes batchCh.
AllTransformersDone_Writers == \A w \in Writers : wr[w] = "done" \* mutant
AllTransformersDone == \A t \in Transformers : tf[t] = "done"

CloseBatchCh ==
  /\ ~batClosed
  /\ AllTransformersDone
  /\ batClosed' = TRUE
  /\ UNCHANGED <<recordCh, recClosed, batchCh, readVars, tfVars, wrVars, groupVars, durable, failed>>

-----------------------------------------------------------------------------
(* runWriter, with handleWriteFailure ("retry") and saveCheckpoints        *)
(* ("save" before GetPartition, "put" before SavePartition).               *)

WriterTakes(w) ==
  /\ wr[w] = "select"
  /\ batchCh # <<>>
  /\ work' = [work EXCEPT ![w] = Head(batchCh)]
  /\ batchCh' = Tail(batchCh)
  /\ wr' = [wr EXCEPT ![w] = "write"]
  /\ UNCHANGED <<count, todo, seen, recordCh, recClosed, batClosed,
                 readVars, tfVars, groupVars, durable, failed>>

WriterFinishes(w) ==
  /\ wr[w] = "select"
  /\ batchCh = <<>> /\ batClosed
  /\ wr' = [wr EXCEPT ![w] = "done"]
  /\ UNCHANGED <<work, count, todo, seen, chanVars, readVars, tfVars, groupVars, durable, failed>>

WriterCancelled(w) ==
  /\ wr[w] = "select"
  /\ Cancelled
  /\ wr' = [wr EXCEPT ![w] = "done"]
  /\ Fail("ctx")
  /\ UNCHANGED <<work, count, todo, seen, chanVars, readVars, tfVars, durable, failed>>

\* A write may fail for the target's reasons, or because it is given the
\* cancelled context.
WriteMayFail == TargetMayFail \/ Cancelled

PartitionsOf(b) == {b[i][1] : i \in DOMAIN b}

WriterWrites(w) ==
  /\ wr[w] = "write"
  /\ target' = target \union Range(work[w])
  /\ LET n == (count[w] + 1) % FlushEvery
     IN /\ count' = [count EXCEPT ![w] = n]
        /\ IF n = 0
           THEN /\ wr' = [wr EXCEPT ![w] = "save"]
                /\ todo' = [todo EXCEPT ![w] = PartitionsOf(work[w])]
                /\ UNCHANGED work
           ELSE /\ wr' = [wr EXCEPT ![w] = "select"]
                /\ work' = [work EXCEPT ![w] = <<>>]
                /\ UNCHANGED todo
  /\ UNCHANGED <<seen, chanVars, readVars, tfVars, groupVars, dlq, cp, failed>>

WriterFails_GivesUp(w) == \* mutant: no handleWriteFailure
  /\ wr[w] = "write"
  /\ WriteMayFail
  /\ work' = [work EXCEPT ![w] = <<>>]
  /\ wr' = [wr EXCEPT ![w] = "select"]
  /\ UNCHANGED <<target, count, todo, seen, chanVars, readVars, tfVars, groupVars, dlq, cp, failed>>

\* WriteBatch reports an error; part of the batch may have landed all the same.
WriterFails(w) ==
  /\ wr[w] = "write"
  /\ WriteMayFail
  /\ \E landed \in SUBSET Range(work[w]) : target' = target \union landed
  /\ wr' = [wr EXCEPT ![w] = "retry"]
  /\ UNCHANGED <<work, count, todo, seen, chanVars, readVars, tfVars, groupVars, dlq, cp, failed>>

\* Each record of the failed batch alone, in order: into the target, or counted
\* as failed and put in the dead-letter file if there is one that takes it.
WriterRetries(w) ==
  /\ wr[w] = "retry"
  /\ LET rec == Head(work[w])
     IN \/ /\ target' = target \union {rec}
           /\ UNCHANGED <<dlq, failed>>
        \/ /\ WriteMayFail
           /\ failed' = failed \union {rec}
           /\ \/ dlq' = dlq \union {rec}
              \/ DLQMayFail /\ UNCHANGED dlq
           /\ UNCHANGED target
  /\ work' = [work EXCEPT ![w] = Tail(@)]
  /\ wr' = [wr EXCEPT ![w] = IF Len(work[w]) = 1 THEN "select" ELSE "retry"]
  /\ UNCHANGED <<count, todo, seen, chanVars, readVars, tfVars, groupVars, cp>>

\* The maps saveCheckpoints builds from a batch, as functions of a partition in it.
LastOffset_Next(b, p) == \* mutant
  LET i == CHOOSE i \in DOMAIN b : /\ b[i][1] = p
                                   /\ \A j \in DOMAIN b : b[j][1] = p => j <= i
  IN b[i][2] + 1
LastOffset(b, p) ==
  LET i == CHOOSE i \in DOMAIN b : /\ b[i][1] = p
                                   /\ \A j \in DOMAIN b : b[j][1] = p => j <= i
  IN b[i][2]
CountOf_WholeBatch(b, p) == Len(b) \* mutant
CountOf(b, p) == Cardinality({i \in DOMAIN b : b[i][1] = p})

WriterGets(w) ==
  /\ wr[w] = "save"
  /\ \E p \in todo[w] :
       \E c \in {cp[p]} \union (IF StoreMayFail THEN {Absent} ELSE {}) :
         seen' = [seen EXCEPT ![w] = <<p, IF c = Absent THEN Fresh ELSE c>>]
  /\ wr' = [wr EXCEPT ![w] = "put"]
  /\ UNCHANGED <<work, count, todo, chanVars, readVars, tfVars, groupVars, durable, failed>>

WriterPuts(w) ==
  /\ wr[w] = "put"
  /\ LET p == seen[w][1]
         left == todo[w] \ {p}
     IN /\ \/ cp' = [cp EXCEPT ![p] =
                       [status |-> seen[w][2].status,
                        last |-> LastOffset(work[w], p),
                        rows |-> seen[w][2].rows + CountOf(work[w], p)]]
           \/ StoreMayFail /\ UNCHANGED cp
        /\ todo' = [todo EXCEPT ![w] = left]
        /\ wr' = [wr EXCEPT ![w] = IF left = {} THEN "select" ELSE "save"]
        /\ work' = [work EXCEPT ![w] = IF left = {} THEN <<>> ELSE @]
  /\ seen' = [seen EXCEPT ![w] = <<>>]
  /\ UNCHANGED <<count, chanVars, readVars, tfVars, groupVars, target, dlq, failed>>

-----------------------------------------------------------------------------
SourceStep(p) == SourceSends(p) \/ SourceReturns(p)

ReaderStep(p) ==
  \/ ReaderTakes(p) \/ ReaderSends(p) \/ ReaderCancelled(p)
  \/ ReaderDrains(p) \/ ReaderFinishes(p) \/ ReaderReports(p)

TransformerStep(t) ==
  \/ TransformerTakes(t) \/ TickerFires(t) \/ TransformerFinishes(t)
  \/ TransformerFlushes(t) \/ TransformerCancelled(t)

WriterStep(w) ==
  \/ WriterTakes(w) \/ WriterFinishes(w) \/ WriterCancelled(w)
  \/ WriterWrites(w) \/ WriterFails(w) \/ WriterRetries(w)
  \/ WriterGets(w) \/ WriterPuts(w)

Next ==
  \/ CallerCancels
  \/ CloseRecordCh
  \/ CloseBatchCh
  \/ \E p \in Partitions : SourceStep(p) \/ ReaderStep(p)
  \/ \E t \in Transformers : TransformerStep(t)
  \/ \E w \in Writers : WriterStep(w)

Spec == Init /\ [][Next]_vars

\* The Go scheduler runs every goroutine that can run, and a database answers
\* every call; nobody has to cancel. A source need not fail.
Fairness ==
  /\ WF_vars(CloseRecordCh) /\ WF_vars(CloseBatchCh)
  /\ \A p \in Partitions : /\ WF_vars(SourceStep(p) /\ source'[p] # "source")
                            /\ WF_vars(ReaderStep(p))
  /\ \A t \in Transformers : WF_vars(TransformerStep(t))
  /\ \A w \in Writers : WF_vars(WriterStep(w))

FairSpec == Spec /\ Fairness

-----------------------------------------------------------------------------
(* What g.Wait waits for, and what Migrate returns.                        *)

Ended == /\ \A p \in Partitions : reader[p] = "done"
         /\ \A t \in Transformers : tf[t] = "done"
         /\ \A w \in Writers : wr[w] = "done"
Outcome == IF ~Ended THEN "running" ELSE IF failure = "none" THEN "ok" ELSE "error"

-----------------------------------------------------------------------------
(* Properties.                                                             *)

Stream == Seq(Records)
Batches == Stream \ {<<>>}
Checkpoints == [status : {"Absent", "InProgress"}, last : Nat, rows : Nat]

ReadersOK ==
  /\ unread \in [Partitions -> SUBSET Offsets]
  /\ source \in [Partitions -> {"reading", "ok", "source", "ctx"}]
  /\ partCh \in [Partitions -> Stream]
  /\ reader \in [Partitions -> {"range", "send", "drain", "source", "ctx", "done"}]
  /\ held \in [Partitions -> Stream]
  /\ \A p \in Partitions :
       /\ Len(partCh[p]) <= BatchSize
       /\ Len(held[p]) = IF reader[p] = "send" THEN 1 ELSE 0

ChannelsOK ==
  /\ recordCh \in Stream /\ Len(recordCh) <= RecordCap
  /\ batchCh \in Seq(Batches) /\ Len(batchCh) <= BatchCap
  /\ recClosed \in BOOLEAN /\ batClosed \in BOOLEAN

TransformersOK ==
  /\ tf \in [Transformers -> {"select", "flush", "lastFlush", "done"}]
  /\ batch \in [Transformers -> Stream]
  /\ \A t \in Transformers :
       /\ Len(batch[t]) <= BatchSize
       /\ tf[t] = "select" => Len(batch[t]) < BatchSize
       /\ tf[t] \in {"flush", "lastFlush"} => batch[t] # <<>>

WritersOK ==
  /\ wr \in [Writers -> {"select", "write", "retry", "save", "put", "done"}]
  /\ work \in [Writers -> Stream]
  /\ count \in [Writers -> 0..(FlushEvery - 1)]
  /\ todo \in [Writers -> SUBSET Partitions]
  /\ seen \in [Writers -> {<<>>} \union (Partitions \X Checkpoints)]
  /\ \A w \in Writers :
       /\ work[w] = <<>> <=> wr[w] \in {"select", "done"}
       /\ IF wr[w] \in {"save", "put"} THEN todo[w] \subseteq PartitionsOf(work[w]) ELSE todo[w] = {}
       /\ wr[w] = "put" => seen[w] # <<>> /\ seen[w][1] \in todo[w]

GroupOK ==
  /\ ctx \in {"live", "caller", "error"}
  /\ failure \in {"none", "source", "ctx"}

OutcomeOK ==
  /\ target \subseteq Records /\ dlq \subseteq Records /\ failed \subseteq Records
  /\ cp \in [Partitions -> Checkpoints]

\* The state has the shape the code gives it; in particular no channel is filled past
\* its capacity, no goroutine sends or writes an empty batch, and a writer saves only
\* partitions that occur in the batch it wrote.
TypeOK ==
  ReadersOK /\ ChannelsOK /\ TransformersOK /\ WritersOK /\ GroupOK /\ OutcomeOK

\* Where a record can be between the source and a writer's outcome.
Unread == {r \in Records : r[2] \in unread[r[1]]}
AtReaders == UNION {Range(partCh[p]) \union Range(held[p]) : p \in Partitions}
Batched == UNION ({Range(batch[t]) : t \in Transformers} \union {Range(b) : b \in Range(batchCh)})
AtWriters == UNION {Range(work[w]) : w \in Writers}
InFlight == AtReaders \union Range(recordCh) \union Batched \union AtWriters

\* Until the context is cancelled nothing drops a record: each one is still to be
\* read, in a channel or in some goroutine's hands, in the target, or counted as
\* failed.
NothingLost == ~Cancelled => Records = Unread \union InFlight \union target \union failed

\* migrate completes only when the whole table went through: Migrate returns nil
\* (root.go logs "migration completed successfully") only if every record is in the
\* target or was counted as failed, and then no goroutine dropped any.
SuccessIsComplete == Outcome = "ok" => Records = target \union failed

\* A channel is closed once every goroutine that sends to it is past its last send:
\* a send to a closed channel panics, and a receiver that sees it closed and empty
\* has seen everything.
ClosedAfterLastSend ==
  /\ recClosed => \A p \in Partitions : Returned(p) /\ held[p] = <<>>
  /\ batClosed => \A t \in Transformers : tf[t] = "done" /\ batch[t] = <<>>

\* The error Migrate returns is the one that stopped it: the context's own error
\* surfaces only when the caller cancelled, never in place of a source's error.
RootCauseReported == failure = "ctx" => ctx = "caller"

\* No record travels twice in one call: over all channels and hands a record is in
\* one place, and in none while the source still has it.
PlacesIn(f, r) == {e \in (DOMAIN f) \X (1..BatchSize) : e[2] \in DOMAIN f[e[1]] /\ f[e[1]][e[2]] = r}
Places(r) ==
    Cardinality(PlacesIn(partCh, r)) + Cardinality(PlacesIn(held, r))
  + Cardinality({i \in DOMAIN recordCh : recordCh[i] = r})
  + Cardinality(PlacesIn(batch, r)) + Cardinality(PlacesIn(batchCh, r))
  + Cardinality(PlacesIn(work, r))
NoRecordTwice ==
  \A r \in Records : Places(r) <= IF r \in Unread THEN 0 ELSE 1

\* RowsWritten never claims more rows of a partition than the target holds, although
\* writers update it without excluding each other.
RowsNotOverstated ==
  \A p \in Partitions : cp[p].rows <= Cardinality({r \in target : r[1] = p})

\* A migration nothing cancels ends: no set of goroutines waits on each other.
CleanRunEnds == <>(Ended \/ Cancelled)

\* Cancellation unblocks every reader: none stays at its send to recordCh, and each
\* drains its source's channel so that the source can return.
CancelFreesReaders == Cancelled ~> \A p \in Partitions : reader[p] = "done"

\* Migrate's documentation (orchestrator.go:50-52): it "blocks until all data is
\* processed or a fatal error occurs"; once the context is cancelled every goroutine
\* of the group, and so the call, comes to its end.
CancelEnds == Cancelled ~> Ended

\* Seen from outside, a call of Migrate is a transfer that settles records and ends
\* "ok" only with every record settled: in the target, or counted as failed.
T == INSTANCE Transfer WITH settled <- target \union failed, outcome <- Outcome
ImplementsTransfer == T!Spec

=============================================================================
