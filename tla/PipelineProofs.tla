--------------------------- MODULE PipelineProofs ---------------------------
(***************************************************************************)
(* Proofs about Pipeline, for any partitions, workers, sizes and faults.   *)
(* In three parts: its variables have their types; the inductive invariant *)
(* and what follows from it (no record is lost, success means complete,    *)
(* the first error is the one reported, channels close after the last      *)
(* send, Pipeline implements Transfer); how often a record is in it and    *)
(* how many rows its checkpoints claim.                                    *)
(***************************************************************************)
EXTENDS Pipeline, DataLemmas

USE SizesAssumption

-----------------------------------------------------------------------------
(* Lemmas about the operators.                                             *)

\* A non-empty set of positions in a sequence has a greatest one.
LEMMA GreatestPosition ==
  ASSUME NEW n \in Nat, NEW I \in SUBSET (1..n), I # {}
  PROVE  \E i \in I : \A j \in I : j <= i
<1> DEFINE Back == {n - i : i \in I}
<1>1. Back \subseteq Nat /\ Back # {}
  <2>1. ASSUME NEW i \in I PROVE n - i \in Nat
    BY <2>1, i \in 1..n
  <2>2. Back # {}
    OBVIOUS
  <2> QED
    BY <2>1, <2>2
<1> DEFINE Less == {ss \in Nat \X Nat : ss[1] < ss[2]}
<1>0. IsWellFoundedOn(Less, Nat)
  BY NatLessThanWellFounded, Zenon DEF OpToRel
<1>2. PICK x \in Back : \A y \in Back : ~ (<<y, x>> \in Less)
  BY <1>0, <1>1, WFMin
<1>3. \A y \in Back : x <= y
  <2> HIDE DEF Back
  <2>1. ASSUME NEW y \in Back PROVE x <= y
    <3>1. x \in Nat /\ y \in Nat /\ <<y, x>> \notin Less
      BY <1>1, <1>2
    <3> QED
      BY <3>1
  <2> QED
    BY <2>1
<1>4. PICK i \in I : x = n - i
  OBVIOUS
<1>5. ASSUME NEW j \in I PROVE j <= i
  <2>1. i \in Nat /\ j \in Nat
    OBVIOUS
  <2>2. n - i <= n - j
    BY <1>3, <1>4
  <2> QED
    BY <2>1, <2>2
<1> QED
  BY <1>5

\* What saveCheckpoints stores as LastCommitted is an offset of the batch's own rows.
LEMMA LastOffsetType ==
  ASSUME NEW b \in Stream, NEW p \in PartitionsOf(b)
  PROVE  LastOffset(b, p) \in Offsets
<1> DEFINE I == {i \in DOMAIN b : b[i][1] = p}
<1>1. DOMAIN b = 1..Len(b) /\ Len(b) \in Nat /\ \A i \in DOMAIN b : b[i] \in Records
  BY LenProperties, ElementOfSeq DEF Stream
<1>2. I # {} /\ I \in SUBSET (1..Len(b))
  BY <1>1 DEF PartitionsOf
<1>3. \E i \in I : \A j \in I : j <= i
  BY <1>1, <1>2, GreatestPosition
<1> DEFINE last == CHOOSE i \in DOMAIN b : /\ b[i][1] = p
                                           /\ \A j \in DOMAIN b : b[j][1] = p => j <= i
<1>4. last \in DOMAIN b
  BY <1>3
<1>5. b[last] \in Partitions \X Offsets
  BY <1>1, <1>4 DEF Records
<1> QED
  BY <1>5 DEF LastOffset

\* What it adds to RowsWritten is a number.
LEMMA CountOfType ==
  ASSUME NEW b \in Stream, NEW p
  PROVE  CountOf(b, p) \in Nat
<1>1. DOMAIN b = 1..Len(b) /\ Len(b) \in Nat
  BY LenProperties DEF Stream
<1>2. IsFiniteSet(DOMAIN b)
  BY <1>1, FS_Interval
<1>3. IsFiniteSet({i \in DOMAIN b : b[i][1] = p})
  BY <1>2, FS_Subset
<1> QED
  BY <1>3, FS_CardinalityType DEF CountOf

\* The capacities Migrate gives its channels are numbers, that of recordCh at least 1.
LEMMA CapsType == RecordCap \in Nat \ {0} /\ BatchCap \in Nat
<1>1. Cardinality(Writers) \in Nat
  BY WorkersAssumption, FS_CardinalityType
<1> QED
  BY <1>1, SizesAssumption DEF RecordCap, BatchCap

-----------------------------------------------------------------------------
(* Type correctness, one part of TypeOK at a time.                         *)

\* The state in which Migrate starts its goroutines is well shaped.
LEMMA TypeInit == Init => TypeOK
<1> SUFFICES ASSUME Init PROVE TypeOK
  OBVIOUS
<1> USE DEF Init, Boot
<1>1. \A p \in Partitions : cp[p] = Absent
  OBVIOUS
<1>2. <<>> \in Stream /\ Len(<<>>) = 0
  BY EmptySeq DEF Stream
<1>3. ReadersOK
  BY <1>1, <1>2 DEF ReadersOK, Remaining, SourceStart, ReaderStart, Absent
<1>4. ChannelsOK
  <2>1. <<>> \in Seq(Batches)
    BY EmptySeq
  <2>2. 0 <= RecordCap /\ 0 <= BatchCap
    BY CapsType
  <2> QED
    BY <1>2, <2>1, <2>2 DEF ChannelsOK
<1>5. TransformersOK
  BY <1>2 DEF TransformersOK
<1>6. WritersOK
  BY <1>2 DEF WritersOK, PartitionsOf
<1>7. GroupOK
  BY DEF GroupOK
<1>8. OutcomeOK
  BY DEF OutcomeOK, Absent, Checkpoints
<1> QED
  BY <1>3, <1>4, <1>5, <1>6, <1>7, <1>8 DEF TypeOK

\* A part of TypeOK says nothing of the other parts' variables.
LEMMA Frame ==
  /\ ReadersOK /\ UNCHANGED readVars => ReadersOK'
  /\ ChannelsOK /\ UNCHANGED chanVars => ChannelsOK'
  /\ TransformersOK /\ UNCHANGED tfVars => TransformersOK'
  /\ WritersOK /\ UNCHANGED wrVars => WritersOK'
  /\ GroupOK /\ UNCHANGED groupVars => GroupOK'
  /\ OutcomeOK /\ UNCHANGED <<durable, failed>> => OutcomeOK'
<1>1. ReadersOK /\ UNCHANGED readVars => ReadersOK'
  BY DEF ReadersOK, readVars
<1>2. ChannelsOK /\ UNCHANGED chanVars => ChannelsOK'
  BY DEF ChannelsOK, chanVars
<1>3. TransformersOK /\ UNCHANGED tfVars => TransformersOK'
  BY DEF TransformersOK, tfVars
<1>4. WritersOK /\ UNCHANGED wrVars => WritersOK'
  BY DEF WritersOK, wrVars
<1>5. GroupOK /\ UNCHANGED groupVars => GroupOK'
  BY DEF GroupOK, groupVars
<1>6. OutcomeOK /\ UNCHANGED <<durable, failed>> => OutcomeOK'
  BY DEF OutcomeOK, durable
<1> QED
  BY <1>1, <1>2, <1>3, <1>4, <1>5, <1>6

\* An error a reader, a transformer or a writer returns leaves the errgroup well shaped.
LEMMA FailType ==
  ASSUME GroupOK, NEW err \in {"source", "ctx"}, Fail(err)
  PROVE  GroupOK'
BY DEF GroupOK, Fail, FirstError

\* No step of ReadPartition or of runReader spoils the state's shape, or overfills
\* recordCh or a partition's channel.
LEMMA ReaderTypes ==
  ASSUME TypeOK, NEW p \in Partitions, SourceStep(p) \/ ReaderStep(p)
  PROVE  TypeOK'
<1> USE DEF TypeOK
<1>1. CASE SourceSends(p)
  <2>1. ReadersOK'
    <3>1. PICK o \in Yields(p) : /\ unread' = [unread EXCEPT ![p] = @ \ {o}]
                                 /\ partCh' = [partCh EXCEPT ![p] = Append(@, <<p, o>>)]
      BY <1>1 DEF SourceSends
    <3>2. <<p, o>> \in Records
      BY DEF ReadersOK, Yields, Records
    <3>3. /\ Append(partCh[p], <<p, o>>) \in Stream
          /\ Len(Append(partCh[p], <<p, o>>)) = Len(partCh[p]) + 1
      BY <3>2, AppendProperties DEF ReadersOK, Stream
    <3>4. Len(partCh[p]) + 1 <= BatchSize
      BY <1>1, LenProperties DEF SourceSends, ReadersOK, Stream
    <3> QED
      BY <1>1, <3>1, <3>3, <3>4 DEF SourceSends, ReadersOK
  <2> QED
    BY <1>1, <2>1, Frame DEF SourceSends
<1>2. CASE SourceReturns(p)
  BY <1>2, Frame DEF SourceReturns, ReadersOK
<1>3. CASE ReaderTakes(p)
  <2>1. ReadersOK'
    <3>1. /\ Head(partCh[p]) \in Records /\ Tail(partCh[p]) \in Stream
          /\ Len(Tail(partCh[p])) = Len(partCh[p]) - 1 /\ Len(partCh[p]) \in Nat
      BY <1>3, HeadTailProperties, LenProperties DEF ReadersOK, ReaderTakes, Stream
    <3>2. <<Head(partCh[p])>> \in Stream /\ Len(<<Head(partCh[p])>>) = 1
      BY <3>1 DEF Stream
    <3>3. /\ partCh' = [partCh EXCEPT ![p] = Tail(partCh[p])]
          /\ held' = [held EXCEPT ![p] = <<Head(partCh[p])>>]
          /\ reader' = [reader EXCEPT ![p] = "send"]
          /\ UNCHANGED <<unread, source>>
      BY <1>3 DEF ReaderTakes
    <3>4. Len(Tail(partCh[p])) <= BatchSize
      BY <3>1 DEF ReadersOK
    <3> QED
      BY <3>1, <3>2, <3>3, <3>4 DEF ReadersOK
  <2> QED
    BY <1>3, <2>1, Frame DEF ReaderTakes
<1>4. CASE ReaderSends(p)
  <2>1. ReadersOK'
    BY <1>4, EmptySeq DEF ReaderSends, ReadersOK, Stream
  <2>2. ChannelsOK'
    <3>1. recordCh \in Seq(Records) /\ held[p] \in Seq(Records) /\ Len(held[p]) = 1
      BY <1>4 DEF ReadersOK, ChannelsOK, ReaderSends, Stream
    <3>2. recordCh \o held[p] \in Seq(Records) /\ Len(recordCh \o held[p]) = Len(recordCh) + 1
      <4>1. Len(recordCh \o held[p]) = Len(recordCh) + Len(held[p])
        BY <3>1, ConcatProperties
      <4>2. recordCh \o held[p] \in Seq(Records)
        BY <3>1, ConcatProperties
      <4> QED
        BY <3>1, <4>1, <4>2
    <3>3. Len(recordCh) + 1 <= RecordCap
      BY <1>4, <3>1, LenProperties, CapsType DEF ReaderSends, HasRoom
    <3> QED
      BY <1>4, <3>2, <3>3 DEF ReaderSends, ChannelsOK, Stream
  <2> QED
    BY <1>4, <2>1, <2>2, Frame DEF ReaderSends
<1>5. CASE ReaderCancelled(p)
  <2>1. ReadersOK'
    BY <1>5, EmptySeq DEF ReaderCancelled, ReadersOK, Stream
  <2> QED
    BY <1>5, <2>1, Frame DEF ReaderCancelled
<1>6. CASE ReaderDrains(p)
  <2>1. CASE partCh[p] # <<>> /\ partCh' = [partCh EXCEPT ![p] = Tail(@)] /\ UNCHANGED reader
    <3>1. /\ Tail(partCh[p]) \in Stream
          /\ Len(Tail(partCh[p])) = Len(partCh[p]) - 1 /\ Len(partCh[p]) \in Nat
      BY <2>1, HeadTailProperties, LenProperties DEF ReadersOK, Stream
    <3>2. ReadersOK'
      BY <1>6, <2>1, <3>1 DEF ReaderDrains, ReadersOK
    <3> QED
      BY <1>6, <3>2, Frame DEF ReaderDrains
  <2>2. CASE reader' = [reader EXCEPT ![p] = "ctx"] /\ UNCHANGED partCh
    <3>1. ReadersOK'
      BY <1>6, <2>2 DEF ReaderDrains, ReadersOK
    <3> QED
      BY <1>6, <3>1, Frame DEF ReaderDrains
  <2> QED
    BY <1>6, <2>1, <2>2 DEF ReaderDrains
<1>7. CASE ReaderFinishes(p)
  <2>1. ReadersOK'
    BY <1>7 DEF ReaderFinishes, ReadersOK, ReaderResult, PartClosed
  <2> QED
    BY <1>7, <2>1, Frame DEF ReaderFinishes
<1>8. CASE ReaderReports(p)
  <2>1. ReadersOK'
    BY <1>8 DEF ReaderReports, ReadersOK
  <2> QED
    BY <1>8, <2>1, Frame, FailType DEF ReaderReports
<1> QED
  BY <1>1, <1>2, <1>3, <1>4, <1>5, <1>6, <1>7, <1>8 DEF SourceStep, ReaderStep

\* No step of runTransformer does, or overfills batchCh, or sends an empty batch.
LEMMA TransformerTypes ==
  ASSUME TypeOK, NEW t \in Transformers, TransformerStep(t)
  PROVE  TypeOK'
<1> USE DEF TypeOK
<1>1. CASE TransformerTakes(t)
  <2> DEFINE filled == Append(batch[t], Head(recordCh))
  <2>1. /\ Head(recordCh) \in Records /\ Tail(recordCh) \in Stream
        /\ Len(Tail(recordCh)) = Len(recordCh) - 1 /\ Len(recordCh) \in Nat
    BY <1>1, HeadTailProperties, LenProperties DEF ChannelsOK, TransformerTakes, Stream
  <2>2. /\ filled \in Stream /\ filled # <<>>
        /\ Len(filled) = Len(batch[t]) + 1 /\ Len(batch[t]) \in Nat
    BY <2>1, AppendProperties, LenProperties DEF TransformersOK, Stream
  <2>3. /\ tf[t] = "select"
        /\ batch' = [batch EXCEPT ![t] = filled]
        /\ tf' = [tf EXCEPT ![t] = IF Len(filled) >= BatchSize THEN "flush" ELSE "select"]
        /\ recordCh' = Tail(recordCh)
        /\ UNCHANGED <<recClosed, batchCh, batClosed, readVars, wrVars, groupVars, durable, failed>>
    BY <1>1 DEF TransformerTakes
  <2> HIDE DEF filled
  <2>4. TransformersOK'
    <3>1. Len(batch[t]) < BatchSize
      BY <2>3 DEF TransformersOK
    <3> QED
      BY <2>2, <2>3, <3>1 DEF TransformersOK
  <2>5. ChannelsOK'
    <3>1. Len(Tail(recordCh)) <= RecordCap
      BY <2>1, CapsType DEF ChannelsOK
    <3> QED
      BY <2>1, <2>3, <3>1 DEF ChannelsOK
  <2> QED
    BY <2>3, <2>4, <2>5, Frame
<1>2. CASE TickerFires(t)
  <2>1. TransformersOK'
    BY <1>2 DEF TickerFires, TransformersOK
  <2> QED
    BY <1>2, <2>1, Frame DEF TickerFires
<1>3. CASE TransformerFinishes(t)
  <2>1. TransformersOK'
    BY <1>3 DEF TransformerFinishes, TransformersOK
  <2> QED
    BY <1>3, <2>1, Frame DEF TransformerFinishes
<1>4. CASE TransformerFlushes(t)
  <2>1. TransformersOK'
    BY <1>4, EmptySeq DEF TransformerFlushes, TransformersOK, Stream
  <2>2. ChannelsOK'
    <3>1. batch[t] \in Batches
      BY <1>4 DEF TransformerFlushes, TransformersOK, Batches
    <3>2. /\ Append(batchCh, batch[t]) \in Seq(Batches)
          /\ Len(Append(batchCh, batch[t])) = Len(batchCh) + 1 /\ Len(batchCh) \in Nat
      BY <3>1, AppendProperties, LenProperties DEF ChannelsOK
    <3>3. Len(batchCh) + 1 <= BatchCap
      BY <1>4, <3>2, CapsType DEF TransformerFlushes
    <3> QED
      BY <1>4, <3>2, <3>3 DEF TransformerFlushes, ChannelsOK
  <2> QED
    BY <1>4, <2>1, <2>2, Frame DEF TransformerFlushes
<1>5. CASE TransformerCancelled(t)
  <2>1. TransformersOK'
    BY <1>5, EmptySeq DEF TransformerCancelled, TransformersOK, Stream
  <2> QED
    BY <1>5, <2>1, Frame, FailType DEF TransformerCancelled
<1> QED
  BY <1>1, <1>2, <1>3, <1>4, <1>5 DEF TransformerStep

\* No step of runWriter does, or of the functions it calls: a writer has a batch in hand
\* as long as it writes, retries and saves, and saves only partitions of that batch.
LEMMA WriterTypes ==
  ASSUME TypeOK, NEW w \in Writers, WriterStep(w)
  PROVE  TypeOK'
<1> USE DEF TypeOK
<1>0. PartitionsOf(<<>>) = {} /\ <<>> \in Stream
  BY EmptySeq DEF PartitionsOf, Stream
<1>1. CASE WriterTakes(w)
  <2>1. /\ Head(batchCh) \in Batches /\ Tail(batchCh) \in Seq(Batches)
        /\ Len(Tail(batchCh)) = Len(batchCh) - 1 /\ Len(batchCh) \in Nat
    BY <1>1, HeadTailProperties, LenProperties DEF ChannelsOK, WriterTakes
  <2>2. todo[w] = {}
    BY <1>0, <1>1 DEF WriterTakes, WritersOK
  <2>3. WritersOK'
    BY <1>1, <2>1, <2>2 DEF WriterTakes, WritersOK, Batches
  <2>4. ChannelsOK'
    <3>1. Len(Tail(batchCh)) <= BatchCap
      BY <2>1, CapsType DEF ChannelsOK
    <3> QED
      BY <1>1, <2>1, <3>1 DEF WriterTakes, ChannelsOK
  <2> QED
    BY <1>1, <2>3, <2>4, Frame DEF WriterTakes
<1>2. CASE WriterFinishes(w)
  <2>1. WritersOK'
    BY <1>2 DEF WriterFinishes, WritersOK
  <2> QED
    BY <1>2, <2>1, Frame DEF WriterFinishes
<1>3. CASE WriterCancelled(w)
  <2>1. WritersOK'
    BY <1>3 DEF WriterCancelled, WritersOK
  <2> QED
    BY <1>3, <2>1, Frame, FailType DEF WriterCancelled
<1>4. CASE WriterWrites(w)
  <2> DEFINE n == (count[w] + 1) % FlushEvery
  <2>1. n \in 0..(FlushEvery - 1)
    BY DEF WritersOK
  <2>2. Range(work[w]) \subseteq Records
    BY RangeOfSeq DEF WritersOK, Stream
  <2>3. PartitionsOf(work[w]) \subseteq Partitions
    <3>1. \A i \in DOMAIN work[w] : work[w][i] \in Records
      BY LenProperties, ElementOfSeq DEF WritersOK, Stream
    <3> QED
      BY <3>1 DEF PartitionsOf, Records
  <2>4. /\ wr[w] = "write"
        /\ target' = target \union Range(work[w])
        /\ count' = [count EXCEPT ![w] = n]
        /\ \/ /\ wr' = [wr EXCEPT ![w] = "save"]
              /\ todo' = [todo EXCEPT ![w] = PartitionsOf(work[w])]
              /\ UNCHANGED work
           \/ /\ wr' = [wr EXCEPT ![w] = "select"]
              /\ work' = [work EXCEPT ![w] = <<>>]
              /\ UNCHANGED todo
        /\ UNCHANGED <<seen, chanVars, readVars, tfVars, groupVars, dlq, cp, failed>>
    BY <1>4 DEF WriterWrites
  <2> HIDE DEF n
  <2>5. OutcomeOK'
    BY <2>2, <2>4 DEF OutcomeOK
  <2>6. WritersOK'
    <3>1. work[w] # <<>> /\ todo[w] = {}
      BY <2>4 DEF WritersOK
    <3>2. CASE /\ wr' = [wr EXCEPT ![w] = "save"]
               /\ todo' = [todo EXCEPT ![w] = PartitionsOf(work[w])]
               /\ UNCHANGED work
      <4>1. /\ wr' \in [Writers -> {"select", "write", "retry", "save", "put", "done"}]
            /\ work' \in [Writers -> Stream]
            /\ count' \in [Writers -> 0..(FlushEvery - 1)]
            /\ todo' \in [Writers -> SUBSET Partitions]
            /\ seen' \in [Writers -> {<<>>} \union (Partitions \X Checkpoints)]
        BY <2>1, <2>3, <2>4, <3>2 DEF WritersOK
      <4>2. wr'[w] = "save" /\ work'[w] = work[w] /\ todo'[w] = PartitionsOf(work[w])
        BY <3>2 DEF WritersOK
      <4>3. \A x \in Writers \ {w} : /\ wr'[x] = wr[x] /\ work'[x] = work[x]
                                    /\ todo'[x] = todo[x] /\ seen'[x] = seen[x]
        BY <2>4, <3>2 DEF WritersOK
      <4>4. ASSUME NEW x \in Writers
            PROVE  /\ work'[x] = <<>> <=> wr'[x] \in {"select", "done"}
                   /\ IF wr'[x] \in {"save", "put"} THEN todo'[x] \subseteq PartitionsOf(work'[x]) ELSE todo'[x] = {}
                   /\ wr'[x] = "put" => seen'[x] # <<>> /\ seen'[x][1] \in todo'[x]
        <5>1. CASE x = w
          BY <3>1, <4>2, <5>1
        <5>2. CASE x # w
          BY <4>3, <5>2 DEF WritersOK
        <5> QED
          BY <5>1, <5>2
      <4> QED
        BY <4>1, <4>4 DEF WritersOK
    <3>3. CASE /\ wr' = [wr EXCEPT ![w] = "select"]
               /\ work' = [work EXCEPT ![w] = <<>>]
               /\ UNCHANGED todo
      <4>1. /\ wr' \in [Writers -> {"select", "write", "retry", "save", "put", "done"}]
            /\ work' \in [Writers -> Stream]
            /\ count' \in [Writers -> 0..(FlushEvery - 1)]
            /\ todo' \in [Writers -> SUBSET Partitions]
            /\ seen' \in [Writers -> {<<>>} \union (Partitions \X Checkpoints)]
        BY <1>0, <2>1, <2>4, <3>3 DEF WritersOK
      <4>2. wr'[w] = "select" /\ work'[w] = <<>> /\ todo'[w] = {}
        BY <3>1, <3>3 DEF WritersOK
      <4>3. \A x \in Writers \ {w} : /\ wr'[x] = wr[x] /\ work'[x] = work[x]
                                    /\ todo'[x] = todo[x] /\ seen'[x] = seen[x]
        BY <2>4, <3>3 DEF WritersOK
      <4>4. ASSUME NEW x \in Writers
            PROVE  /\ work'[x] = <<>> <=> wr'[x] \in {"select", "done"}
                   /\ IF wr'[x] \in {"save", "put"} THEN todo'[x] \subseteq PartitionsOf(work'[x]) ELSE todo'[x] = {}
                   /\ wr'[x] = "put" => seen'[x] # <<>> /\ seen'[x][1] \in todo'[x]
        <5>1. CASE x = w
          BY <4>2, <5>1
        <5>2. CASE x # w
          BY <4>3, <5>2 DEF WritersOK
        <5> QED
          BY <5>1, <5>2
      <4> QED
        BY <4>1, <4>4 DEF WritersOK
    <3> QED
      BY <2>4, <3>2, <3>3
  <2> QED
    BY <2>4, <2>5, <2>6, Frame
<1>5. CASE WriterFails(w)
  <2>1. Range(work[w]) \subseteq Records
    BY RangeOfSeq DEF WritersOK, Stream
  <2>2. OutcomeOK'
    BY <1>5, <2>1 DEF WriterFails, OutcomeOK
  <2>3. WritersOK'
    BY <1>5 DEF WriterFails, WritersOK
  <2> QED
    BY <1>5, <2>2, <2>3, Frame DEF WriterFails
<1>6. CASE WriterRetries(w)
  <2>1. /\ Head(work[w]) \in Records /\ Tail(work[w]) \in Stream
        /\ Len(Tail(work[w])) = Len(work[w]) - 1 /\ Len(work[w]) \in Nat \ {0}
    BY <1>6, HeadTailProperties, EmptySeq DEF WritersOK, WriterRetries, Stream
  <2>2. Tail(work[w]) = <<>> <=> Len(work[w]) = 1
    <3>1. Tail(work[w]) = <<>> <=> Len(Tail(work[w])) = 0
      BY <2>1, EmptySeq DEF Stream
    <3> QED
      BY <2>1, <3>1
  <2>3. OutcomeOK'
    BY <1>6, <2>1 DEF WriterRetries, OutcomeOK
  <2>4. WritersOK'
    <3>1. /\ wr[w] = "retry"
          /\ work' = [work EXCEPT ![w] = Tail(work[w])]
          /\ wr' = [wr EXCEPT ![w] = IF Len(work[w]) = 1 THEN "select" ELSE "retry"]
          /\ UNCHANGED <<count, todo, seen>>
      BY <1>6 DEF WriterRetries
    <3> QED
      BY <2>1, <2>2, <3>1 DEF WritersOK
  <2> QED
    BY <1>6, <2>3, <2>4, Frame DEF WriterRetries
<1>7. CASE WriterGets(w)
  <2>1. Absent \in Checkpoints /\ Fresh \in Checkpoints
    BY DEF Absent, Fresh, Checkpoints
  <2>2. PICK p \in todo[w] :
          \E c \in {cp[p]} \union (IF StoreMayFail THEN {Absent} ELSE {}) :
            seen' = [seen EXCEPT ![w] = <<p, IF c = Absent THEN Fresh ELSE c>>]
    BY <1>7 DEF WriterGets
  <2>3. p \in Partitions /\ cp[p] \in Checkpoints
    BY DEF WritersOK, OutcomeOK
  <2>4. PICK c \in Checkpoints : seen' = [seen EXCEPT ![w] = <<p, c>>]
    BY <2>1, <2>2, <2>3
  <2>5. WritersOK'
    <3>1. wr[w] = "save" /\ wr' = [wr EXCEPT ![w] = "put"] /\ UNCHANGED <<work, count, todo>>
      BY <1>7 DEF WriterGets
    <3> QED
      BY <2>3, <2>4, <3>1 DEF WritersOK
  <2> QED
    BY <1>7, <2>5, Frame DEF WriterGets
<1>8. CASE WriterPuts(w)
  <2> DEFINE p == seen[w][1]
             left == todo[w] \ {p}
             saved == [status |-> seen[w][2].status,
                       last |-> LastOffset(work[w], p),
                       rows |-> seen[w][2].rows + CountOf(work[w], p)]
  <2>1. p \in todo[w] /\ p \in PartitionsOf(work[w]) /\ p \in Partitions /\ seen[w][2] \in Checkpoints
    BY <1>8 DEF WriterPuts, WritersOK
  <2>2. LastOffset(work[w], p) \in Nat /\ CountOf(work[w], p) \in Nat
    BY <2>1, LastOffsetType, CountOfType DEF WritersOK, Offsets
  <2>3. saved \in Checkpoints
    BY <2>1, <2>2 DEF Checkpoints
  <2>4. /\ cp' = [cp EXCEPT ![p] = saved] \/ UNCHANGED cp
        /\ todo' = [todo EXCEPT ![w] = left]
        /\ wr' = [wr EXCEPT ![w] = IF left = {} THEN "select" ELSE "save"]
        /\ work' = [work EXCEPT ![w] = IF left = {} THEN <<>> ELSE @]
        /\ seen' = [seen EXCEPT ![w] = <<>>]
        /\ UNCHANGED <<count, chanVars, readVars, tfVars, groupVars, target, dlq, failed>>
    BY <1>8 DEF WriterPuts
  <2>5. wr[w] = "put"
    BY <1>8 DEF WriterPuts
  <2> HIDE DEF saved
  <2>6. OutcomeOK'
    BY <2>1, <2>3, <2>4 DEF OutcomeOK
  <2>7. WritersOK'
    BY <1>0, <2>1, <2>4, <2>5 DEF WritersOK
  <2> QED
    BY <2>4, <2>6, <2>7, Frame
<1> QED
  BY <1>1, <1>2, <1>3, <1>4, <1>5, <1>6, <1>7, <1>8 DEF WriterStep

\* TypeOK is inductive: every step of Migrate keeps it.
LEMMA TypeStep == TypeOK /\ [Next]_vars => TypeOK'
<1> SUFFICES ASSUME TypeOK, [Next]_vars PROVE TypeOK'
  OBVIOUS
<1>1. CASE CallerCancels
  <2>1. GroupOK'
    BY <1>1 DEF CallerCancels, GroupOK, TypeOK
  <2> QED
    BY <1>1, <2>1, Frame DEF CallerCancels, TypeOK
<1>2. CASE CloseRecordCh
  <2>1. ChannelsOK'
    BY <1>2 DEF CloseRecordCh, ChannelsOK, TypeOK
  <2> QED
    BY <1>2, <2>1, Frame DEF CloseRecordCh, TypeOK
<1>3. CASE CloseBatchCh
  <2>1. ChannelsOK'
    BY <1>3 DEF CloseBatchCh, ChannelsOK, TypeOK
  <2> QED
    BY <1>3, <2>1, Frame DEF CloseBatchCh, TypeOK
<1>4. CASE UNCHANGED vars
  BY <1>4, Frame DEF vars, TypeOK
<1> QED
  BY <1>1, <1>2, <1>3, <1>4, ReaderTypes, TransformerTypes, WriterTypes DEF Next

\* The state always has the shape TypeOK gives it: channels within their capacity,
\* no empty batch sent or written, checkpoints saved only for partitions of the batch.
THEOREM TypeCorrect == Spec => []TypeOK
<1>1. Init => TypeOK
  BY TypeInit
<1>2. TypeOK /\ [Next]_vars => TypeOK'
  BY TypeStep
<1> QED
  BY <1>1, <1>2, PTL DEF Spec

HIDE SizesAssumption

-----------------------------------------------------------------------------
(* The inductive invariant.                                                *)

\* A reader gives up, and a source stops with the context's error, only once the
\* context is cancelled; an error cancels it, and the first one is kept.
CauseOK ==
  /\ \A p \in Partitions : reader[p] \in {"drain", "ctx"} \/ source[p] = "ctx" => Cancelled
  /\ failure # "none" => Cancelled
  /\ ctx = "error" => failure = "source"

\* Nobody sends on a closed channel, and the channel behind a reader that is done is
\* closed and empty.
ClosedOK ==
  /\ \A p \in Partitions : Returned(p) => PartClosed(p) /\ partCh[p] = <<>>
  /\ \A t \in Transformers : tf[t] = "done" => batch[t] = <<>>
  /\ recClosed => AllReadersReturned
  /\ batClosed => AllTransformersDone

\* A goroutine that came to its regular end had come to the end of its channel.
DrainedOK ==
  /\ \A p \in Partitions : source[p] = "ok" => unread[p] = {}
  /\ failure = "none" =>
       /\ \A p \in Partitions : reader[p] = "done" => source[p] = "ok"
       /\ \A t \in Transformers : tf[t] \in {"lastFlush", "done"} => recClosed /\ recordCh = <<>>
       /\ \A w \in Writers : wr[w] = "done" => batClosed /\ batchCh = <<>>

\* Records leave the pipeline unsettled only on the way to an error.
Giving == failure # "none" \/ \E p \in Partitions : reader[p] \in {"drain", "ctx"}
Whereabouts == Unread \union InFlight \union target \union failed
LosslessOK == ~Giving => Records \subseteq Whereabouts

\* A writer that saves checkpoints has written its whole batch.
SavedOK == \A w \in Writers : wr[w] \in {"save", "put"} => Range(work[w]) \subseteq target

\* What does not depend on how the call began, and what does.
Orderly == TypeOK /\ CauseOK /\ ClosedOK /\ DrainedOK /\ SavedOK
IInv == Orderly /\ LosslessOK

-----------------------------------------------------------------------------
\* Every step of Migrate keeps the account of who cancelled, and of the error kept.
LEMMA CauseStep ==
  ASSUME TypeOK, CauseOK, [Next]_vars
  PROVE  CauseOK'
<1> USE DEF CauseOK, Cancelled
<1>1. CASE CallerCancels
  BY <1>1 DEF CallerCancels, readVars
<1>2. CASE CloseRecordCh \/ CloseBatchCh \/ UNCHANGED vars
  BY <1>2 DEF CloseRecordCh, CloseBatchCh, vars, readVars, groupVars
<1>3. ASSUME NEW p \in Partitions, SourceStep(p) PROVE CauseOK'
  <2>1. CASE SourceSends(p)
    BY <2>1 DEF SourceSends, groupVars
  <2>2. CASE SourceReturns(p)
    BY <2>2 DEF SourceReturns, groupVars, TypeOK, ReadersOK
  <2> QED
    BY <1>3, <2>1, <2>2 DEF SourceStep
<1>4. ASSUME NEW p \in Partitions, ReaderStep(p) PROVE CauseOK'
  <2>1. CASE ReaderTakes(p) \/ ReaderSends(p)
    BY <2>1 DEF ReaderTakes, ReaderSends, groupVars, TypeOK, ReadersOK
  <2>2. CASE ReaderCancelled(p)
    BY <2>2 DEF ReaderCancelled, groupVars, TypeOK, ReadersOK
  <2>3. CASE ReaderDrains(p)
    BY <2>3 DEF ReaderDrains, groupVars, TypeOK, ReadersOK
  <2>4. CASE ReaderFinishes(p)
    BY <2>4 DEF ReaderFinishes, ReaderResult, groupVars, TypeOK, ReadersOK
  <2>5. CASE ReaderReports(p)
    BY <2>5 DEF ReaderReports, Fail, FirstError, TypeOK, ReadersOK, GroupOK
  <2> QED
    BY <1>4, <2>1, <2>2, <2>3, <2>4, <2>5 DEF ReaderStep
<1>5. ASSUME NEW t \in Transformers, TransformerStep(t) PROVE CauseOK'
  <2>1. CASE TransformerCancelled(t)
    BY <2>1 DEF TransformerCancelled, Fail, FirstError, readVars, TypeOK, GroupOK
  <2>2. CASE UNCHANGED <<readVars, groupVars>>
    BY <2>2 DEF readVars, groupVars
  <2> QED
    BY <1>5, <2>1, <2>2 DEF TransformerStep, TransformerTakes, TickerFires,
                            TransformerFinishes, TransformerFlushes
<1>6. ASSUME NEW w \in Writers, WriterStep(w) PROVE CauseOK'
  <2>1. CASE WriterCancelled(w)
    BY <2>1 DEF WriterCancelled, Fail, FirstError, readVars, TypeOK, GroupOK
  <2>2. CASE UNCHANGED <<readVars, groupVars>>
    BY <2>2 DEF readVars, groupVars
  <2> QED
    BY <1>6, <2>1, <2>2 DEF WriterStep, WriterTakes, WriterFinishes, WriterWrites,
                            WriterFails, WriterRetries, WriterGets, WriterPuts
<1> QED
  BY <1>1, <1>2, <1>3, <1>4, <1>5, <1>6 DEF Next

\* Every step of Migrate keeps closed channels closed to their senders.
LEMMA ClosedStep ==
  ASSUME TypeOK, ClosedOK, [Next]_vars
  PROVE  ClosedOK'
<1> USE DEF ClosedOK, Returned, PartClosed, AllReadersReturned, AllTransformersDone
<1>1. CASE CloseRecordCh \/ CloseBatchCh
  BY <1>1 DEF CloseRecordCh, CloseBatchCh, readVars, tfVars
<1>2. CASE CallerCancels \/ UNCHANGED vars
  BY <1>2 DEF CallerCancels, vars, readVars, tfVars, chanVars
<1>3. ASSUME NEW p \in Partitions, SourceStep(p) \/ ReaderStep(p) PROVE ClosedOK'
  <2>0. UNCHANGED <<tfVars, recClosed, batClosed>>
    BY <1>3 DEF SourceStep, ReaderStep, SourceSends, SourceReturns, ReaderTakes, ReaderSends,
                ReaderCancelled, ReaderDrains, ReaderFinishes, ReaderReports, chanVars
  <2>1. ASSUME NEW q \in Partitions, Returned(q)
        PROVE  Returned(q)' /\ UNCHANGED <<source[q], partCh[q]>>
    BY <1>3, <2>1 DEF SourceStep, ReaderStep, SourceSends, SourceReturns, ReaderTakes, ReaderSends,
                ReaderCancelled, ReaderDrains, ReaderFinishes, ReaderReports, TypeOK, ReadersOK
  <2>2. ASSUME NEW q \in Partitions, ~Returned(q), Returned(q)'
        PROVE  PartClosed(q)' /\ partCh'[q] = <<>>
    BY <1>3, <2>2 DEF SourceStep, ReaderStep, SourceSends, SourceReturns, ReaderTakes, ReaderSends,
                ReaderCancelled, ReaderDrains, ReaderFinishes, ReaderReports, TypeOK, ReadersOK
  <2> QED
    BY <2>0, <2>1, <2>2 DEF tfVars
<1>4. ASSUME NEW t \in Transformers, TransformerStep(t) PROVE ClosedOK'
  <2>0. UNCHANGED <<readVars, recClosed, batClosed>>
    BY <1>4 DEF TransformerStep, TransformerTakes, TickerFires, TransformerFinishes,
                TransformerFlushes, TransformerCancelled, chanVars
  <2>1. ASSUME NEW s \in Transformers, tf[s] = "done"
        PROVE  tf'[s] = "done" /\ batch'[s] = batch[s]
    BY <1>4, <2>1 DEF TransformerStep, TransformerTakes, TickerFires, TransformerFinishes,
                TransformerFlushes, TransformerCancelled, TypeOK, TransformersOK
  <2>2. ASSUME NEW s \in Transformers, tf[s] # "done", tf'[s] = "done"
        PROVE  batch'[s] = <<>>
    BY <1>4, <2>2 DEF TransformerStep, TransformerTakes, TickerFires, TransformerFinishes,
                TransformerFlushes, TransformerCancelled, TypeOK, TransformersOK
  <2> QED
    BY <2>0, <2>1, <2>2 DEF readVars
<1>5. ASSUME NEW w \in Writers, WriterStep(w) PROVE ClosedOK'
  <2>1. UNCHANGED <<readVars, tfVars, recClosed, batClosed>>
    BY <1>5 DEF WriterStep, WriterTakes, WriterFinishes, WriterCancelled, WriterWrites,
                WriterFails, WriterRetries, WriterGets, WriterPuts, chanVars
  <2> QED
    BY <2>1 DEF readVars, tfVars
<1> QED
  BY <1>1, <1>2, <1>3, <1>4, <1>5 DEF Next

\* Every step of Migrate keeps it that a stage ends in order only on an empty channel.
LEMMA DrainedStep ==
  ASSUME TypeOK, CauseOK, ClosedOK, DrainedOK, [Next]_vars
  PROVE  DrainedOK'
<1> USE DEF DrainedOK
<1>1. CASE CloseRecordCh \/ CloseBatchCh
  BY <1>1 DEF CloseRecordCh, CloseBatchCh, readVars, tfVars, wrVars, groupVars
<1>2. CASE CallerCancels \/ UNCHANGED vars
  BY <1>2 DEF CallerCancels, vars, readVars, tfVars, wrVars, chanVars, groupVars
<1>3. ASSUME NEW p \in Partitions, SourceStep(p) PROVE DrainedOK'
  <2>1. CASE SourceSends(p)
    BY <2>1 DEF SourceSends, chanVars, tfVars, wrVars, groupVars, TypeOK, ReadersOK
  <2>2. CASE SourceReturns(p)
    BY <2>2 DEF SourceReturns, chanVars, tfVars, wrVars, groupVars, TypeOK, ReadersOK,
                ClosedOK, Returned, PartClosed
  <2> QED
    BY <1>3, <2>1, <2>2 DEF SourceStep
<1>4. ASSUME NEW p \in Partitions, ReaderStep(p) PROVE DrainedOK'
  <2>1. CASE ReaderTakes(p)
    BY <2>1 DEF ReaderTakes, chanVars, tfVars, wrVars, groupVars, TypeOK, ReadersOK
  <2>2. CASE ReaderSends(p)
    <3>1. ~recClosed
      BY <2>2 DEF ReaderSends, ClosedOK, AllReadersReturned, Returned
    <3> QED
      BY <2>2, <3>1 DEF ReaderSends, tfVars, wrVars, groupVars, TypeOK, ReadersOK
  <2>3. CASE ReaderCancelled(p)
    BY <2>3 DEF ReaderCancelled, chanVars, tfVars, wrVars, groupVars, TypeOK, ReadersOK
  <2>4. CASE ReaderDrains(p)
    BY <2>4 DEF ReaderDrains, chanVars, tfVars, wrVars, groupVars, TypeOK, ReadersOK
  <2>5. CASE ReaderFinishes(p)
    <3>1. source[p] \in {"ok", "source", "ctx"}
      BY <2>5 DEF ReaderFinishes, PartClosed, TypeOK, ReadersOK
    <3> QED
      BY <2>5, <3>1 DEF ReaderFinishes, ReaderResult, chanVars, tfVars, wrVars, groupVars,
                        TypeOK, ReadersOK
  <2>6. CASE ReaderReports(p)
    <3>1. failure' # "none"
      BY <2>6 DEF ReaderReports, Fail, FirstError
    <3> QED
      BY <2>6, <3>1 DEF ReaderReports
  <2> QED
    BY <1>4, <2>1, <2>2, <2>3, <2>4, <2>5, <2>6 DEF ReaderStep
<1>5. ASSUME NEW t \in Transformers, TransformerStep(t) PROVE DrainedOK'
  <2>1. CASE TransformerTakes(t)
    BY <2>1 DEF TransformerTakes, readVars, wrVars, groupVars, TypeOK, TransformersOK
  <2>2. CASE TickerFires(t)
    BY <2>2 DEF TickerFires, readVars, chanVars, wrVars, groupVars, TypeOK, TransformersOK
  <2>3. CASE TransformerFinishes(t)
    BY <2>3 DEF TransformerFinishes, readVars, chanVars, wrVars, groupVars, TypeOK, TransformersOK
  <2>4. CASE TransformerFlushes(t)
    <3>1. ~batClosed
      BY <2>4 DEF TransformerFlushes, ClosedOK, AllTransformersDone
    <3> QED
      BY <2>4, <3>1 DEF TransformerFlushes, readVars, wrVars, groupVars, TypeOK, TransformersOK
  <2>5. CASE TransformerCancelled(t)
    <3>1. failure' # "none"
      BY <2>5 DEF TransformerCancelled, Fail, FirstError
    <3> QED
      BY <2>5, <3>1 DEF TransformerCancelled, readVars
  <2> QED
    BY <1>5, <2>1, <2>2, <2>3, <2>4, <2>5 DEF TransformerStep
<1>6. ASSUME NEW w \in Writers, WriterStep(w) PROVE DrainedOK'
  <2>0. UNCHANGED <<readVars, tfVars, recordCh, recClosed, batClosed>>
    BY <1>6 DEF WriterStep, WriterTakes, WriterFinishes, WriterCancelled, WriterWrites,
                WriterFails, WriterRetries, WriterGets, WriterPuts, chanVars
  <2>1. CASE WriterTakes(w)
    BY <2>0, <2>1 DEF WriterTakes, readVars, tfVars, groupVars, TypeOK, WritersOK
  <2>2. CASE WriterFinishes(w)
    BY <2>0, <2>2 DEF WriterFinishes, readVars, tfVars, chanVars, groupVars, TypeOK, WritersOK
  <2>3. CASE WriterCancelled(w)
    <3>1. failure' # "none"
      BY <2>3 DEF WriterCancelled, Fail, FirstError
    <3> QED
      BY <2>0, <3>1 DEF readVars
  <2>4. CASE WriterWrites(w) \/ WriterFails(w) \/ WriterRetries(w) \/ WriterGets(w) \/ WriterPuts(w)
    <3>1. UNCHANGED <<batchCh, failure>> /\ wr[w] # "done"
      BY <2>4 DEF WriterWrites, WriterFails, WriterRetries, WriterGets, WriterPuts, chanVars, groupVars
    <3>2. \A x \in Writers : wr'[x] = "done" => wr[x] = "done"
      BY <2>4 DEF WriterWrites, WriterFails, WriterRetries, WriterGets, WriterPuts, TypeOK, WritersOK
    <3> QED
      BY <2>0, <3>1, <3>2 DEF readVars, tfVars
  <2> QED
    BY <1>6, <2>1, <2>2, <2>3, <2>4 DEF WriterStep
<1> QED
  BY <1>1, <1>2, <1>3, <1>4, <1>5, <1>6 DEF Next

-----------------------------------------------------------------------------
(* Where records are.                                                      *)

\* The place of a record, spelt out.
Placed(r) ==
  \/ r \in Records /\ r[2] \in unread[r[1]]
  \/ \E p \in Partitions : r \in Range(partCh[p]) \/ r \in Range(held[p])
  \/ r \in Range(recordCh)
  \/ \E t \in Transformers : r \in Range(batch[t])
  \/ \E b \in Range(batchCh) : r \in Range(b)
  \/ \E w \in Writers : r \in Range(work[w])
  \/ r \in target \union failed

\* A record is somewhere in the pipeline exactly if one of the places that can hold it
\* does.
LEMMA PlaceOf == ASSUME NEW CONSTANT r PROVE r \in Whereabouts <=> Placed(r)
<1>1. r \in AtReaders <=> \E p \in Partitions : r \in Range(partCh[p]) \/ r \in Range(held[p])
  BY DEF AtReaders
<1>2. r \in AtWriters <=> \E w \in Writers : r \in Range(work[w])
  BY DEF AtWriters
<1>3. r \in Unread <=> r \in Records /\ r[2] \in unread[r[1]]
  BY DEF Unread
<1>4. r \in Batched <=> \/ \E t \in Transformers : r \in Range(batch[t])
                        \/ \E b \in Range(batchCh) : r \in Range(b)
  BY DEF Batched
<1>5. r \in Whereabouts <=> \/ r \in Unread \/ r \in AtReaders \/ r \in Range(recordCh)
                            \/ r \in Batched \/ r \in AtWriters \/ r \in target \union failed
  BY DEF Whereabouts, InFlight
<1> QED
  BY <1>1, <1>2, <1>3, <1>4, <1>5, Zenon DEF Placed

\* The same, of the state after a step.
LEMMA PlaceOfNext == ASSUME NEW CONSTANT r PROVE (r \in Whereabouts <=> Placed(r))'
BY PlaceOf, PTL

\* saveCheckpoints comes after a successful WriteBatch only.
LEMMA SavedStep ==
  ASSUME TypeOK, SavedOK, [Next]_vars
  PROVE  SavedOK'
<1> USE DEF SavedOK
<1>1. CASE UNCHANGED <<wr, work, target>>
  BY <1>1
<1>2. ASSUME NEW w \in Writers, WriterStep(w)
      PROVE  \A x \in Writers : wr'[x] \in {"save", "put"} => Range(work'[x]) \subseteq target'
  <2>1. \A x \in Writers \ {w} : wr'[x] = wr[x] /\ work'[x] = work[x]
    BY <1>2 DEF WriterStep, WriterTakes, WriterFinishes, WriterCancelled, WriterWrites,
                WriterFails, WriterRetries, WriterGets, WriterPuts, TypeOK, WritersOK
  <2>2. target \subseteq target'
    BY <1>2 DEF WriterStep, WriterTakes, WriterFinishes, WriterCancelled, WriterWrites,
                WriterFails, WriterRetries, WriterGets, WriterPuts, durable
  <2>3. wr'[w] \in {"save", "put"} => Range(work'[w]) \subseteq target'
    <3>1. CASE WriterWrites(w)
      BY <3>1 DEF WriterWrites, TypeOK, WritersOK
    <3>2. CASE WriterGets(w)
      BY <3>2 DEF WriterGets, durable, TypeOK, WritersOK
    <3>3. CASE WriterPuts(w)
      BY <3>3 DEF WriterPuts, TypeOK, WritersOK
    <3>4. CASE WriterTakes(w) \/ WriterFinishes(w) \/ WriterCancelled(w) \/ WriterFails(w) \/ WriterRetries(w)
      BY <3>4 DEF WriterTakes, WriterFinishes, WriterCancelled, WriterFails, WriterRetries, TypeOK, WritersOK
    <3> QED
      BY <1>2, <3>1, <3>2, <3>3, <3>4 DEF WriterStep
  <2> QED
    BY <2>1, <2>2, <2>3
<1>3. CASE CallerCancels \/ CloseRecordCh \/ CloseBatchCh
  BY <1>1, <1>3 DEF CallerCancels, CloseRecordCh, CloseBatchCh, wrVars, durable
<1>4. ASSUME NEW p \in Partitions, SourceStep(p) \/ ReaderStep(p) PROVE UNCHANGED <<wr, work, target>>
  BY <1>4 DEF SourceStep, SourceSends, SourceReturns, ReaderStep, ReaderTakes, ReaderSends,
              ReaderCancelled, ReaderDrains, ReaderFinishes, ReaderReports, wrVars, durable
<1>5. ASSUME NEW t \in Transformers, TransformerStep(t) PROVE UNCHANGED <<wr, work, target>>
  BY <1>5 DEF TransformerStep, TransformerTakes, TickerFires, TransformerFinishes,
              TransformerFlushes, TransformerCancelled, wrVars, durable
<1>6. CASE UNCHANGED vars
  BY <1>1, <1>6 DEF vars, wrVars, durable
<1> QED
  BY <1>1, <1>2, <1>3, <1>4, <1>5, <1>6 DEF Next

\* A record given up on stays so, until the call has failed for good.
LEMMA GivingStays == ASSUME TypeOK, [Next]_vars, Giving PROVE Giving'
<1> USE DEF Giving
<1>1. failure # "none" => failure' # "none"
  BY DEF Next, CallerCancels, CloseRecordCh, CloseBatchCh, SourceStep, SourceSends,
         SourceReturns, ReaderStep, ReaderTakes, ReaderSends,
         ReaderCancelled, ReaderDrains, ReaderFinishes, ReaderReports,
         TransformerStep, TransformerTakes, TickerFires, TransformerFinishes,
         TransformerFlushes, TransformerCancelled, WriterStep, WriterTakes, WriterFinishes,
         WriterCancelled, WriterWrites, WriterFails, WriterRetries, WriterGets, WriterPuts,
         Fail, FirstError, groupVars, vars
<1>2. ASSUME NEW p \in Partitions, reader[p] \in {"drain", "ctx"}, ~(reader'[p] \in {"drain", "ctx"})
      PROVE  failure' # "none"
  <2>1. reader' # reader
    BY <1>2
  <2>2. PICK q \in Partitions : ReaderStep(q)
    BY <2>1 DEF Next, CallerCancels, CloseRecordCh, CloseBatchCh, SourceStep, SourceSends, SourceReturns,
           TransformerStep, TransformerTakes, TickerFires, TransformerFinishes,
           TransformerFlushes, TransformerCancelled, WriterStep, WriterTakes, WriterFinishes,
           WriterCancelled, WriterWrites, WriterFails, WriterRetries, WriterGets, WriterPuts,
           readVars, vars
  <2>3. ReaderReports(p)
    BY <1>2, <2>2 DEF ReaderStep, ReaderTakes, ReaderSends, ReaderCancelled, ReaderDrains,
                      ReaderFinishes, ReaderReports, TypeOK, ReadersOK
  <2> QED
    BY <2>3 DEF ReaderReports, Fail, FirstError
<1> QED
  BY <1>1, <1>2

\* While nobody gives up, a record that has a place keeps one: reading side,
LEMMA PlacedByReaders ==
  ASSUME TypeOK, NEW p \in Partitions, SourceStep(p) \/ ReaderStep(p), ~Giving',
         NEW r \in Records, Placed(r)
  PROVE  Placed(r)'
<1> USE DEF Placed
<1>1. CASE SourceSends(p)
  <2>1. PICK o \in Yields(p) : /\ unread' = [unread EXCEPT ![p] = @ \ {o}]
                               /\ partCh' = [partCh EXCEPT ![p] = Append(@, <<p, o>>)]
    BY <1>1 DEF SourceSends
  <2>2. <<p, o>> \in Records
    BY DEF TypeOK, ReadersOK, Yields, Records
  <2>3. Range(Append(partCh[p], <<p, o>>)) = Range(partCh[p]) \union {<<p, o>>}
    BY <2>2, Appending DEF TypeOK, ReadersOK, Stream
  <2>4. UNCHANGED <<held, recordCh, batch, batchCh, work, target, failed>>
    BY <1>1 DEF SourceSends, chanVars, tfVars, wrVars, durable
  <2>5. \A q \in Partitions : Range(partCh[q]) \subseteq Range(partCh'[q])
    BY <2>1, <2>3 DEF TypeOK, ReadersOK
  <2>6. CASE r[2] \in unread[r[1]]
    <3>1. r[1] \in Partitions /\ r = <<r[1], r[2]>>
      BY DEF Records
    <3>2. CASE r[1] = p /\ r[2] = o
      <4>1. r \in Range(partCh'[p])
        BY <2>1, <2>3, <3>1, <3>2 DEF TypeOK, ReadersOK
      <4> QED
        BY <4>1
    <3>3. CASE ~(r[1] = p /\ r[2] = o)
      <4>1. r[2] \in unread'[r[1]]
        BY <2>1, <2>6, <3>1, <3>3 DEF TypeOK, ReadersOK
      <4> QED
        BY <4>1
    <3> QED
      BY <3>2, <3>3
  <2>7. CASE ~(r[2] \in unread[r[1]])
    BY <2>4, <2>5, <2>7
  <2> QED
    BY <2>6, <2>7
<1>2. CASE SourceReturns(p) \/ ReaderFinishes(p) \/ ReaderReports(p)
  <2>1. UNCHANGED <<unread, partCh, held, recordCh, batch, batchCh, work, target, failed>>
    BY <1>2 DEF SourceReturns, ReaderFinishes, ReaderReports, chanVars, tfVars, wrVars, durable
  <2> QED
    BY <2>1
<1>3. CASE ReaderTakes(p)
  <2>1. UNCHANGED <<unread, recordCh, batch, batchCh, work, target, failed>>
    BY <1>3 DEF ReaderTakes, chanVars, tfVars, wrVars, durable
  <2>2. /\ partCh' = [partCh EXCEPT ![p] = Tail(partCh[p])]
        /\ held' = [held EXCEPT ![p] = <<Head(partCh[p])>>]
        /\ partCh[p] # <<>> /\ reader[p] = "range"
    BY <1>3 DEF ReaderTakes
  <2>3. Range(partCh[p]) = {Head(partCh[p])} \union Range(Tail(partCh[p]))
    BY <2>2, Receiving DEF TypeOK, ReadersOK, Stream
  <2>4. Range(held[p]) = {}
    <3>1. held[p] = <<>>
      BY <2>2, EmptySeq DEF TypeOK, ReadersOK, Stream
    <3> QED
      BY <3>1, RangeEmpty
  <2>5. Head(partCh[p]) \in Range(held'[p])
    <3>1. held'[p] = <<Head(partCh[p])>>
      BY <2>2 DEF TypeOK, ReadersOK
    <3> QED
      BY <3>1 DEF Range
  <2>6. ASSUME NEW q \in Partitions, r \in Range(partCh[q]) \/ r \in Range(held[q])
        PROVE  r \in Range(partCh'[q]) \/ r \in Range(held'[q])
    <3>1. CASE q = p
      BY <2>2, <2>3, <2>4, <2>5, <2>6, <3>1 DEF TypeOK, ReadersOK
    <3>2. CASE q # p
      BY <2>2, <2>6, <3>2 DEF TypeOK, ReadersOK
    <3> QED
      BY <3>1, <3>2
  <2> QED
    BY <2>1, <2>6
<1>4. CASE ReaderSends(p)
  <2>1. UNCHANGED <<unread, partCh, batch, batchCh, work, target, failed>>
    BY <1>4 DEF ReaderSends, tfVars, wrVars, durable
  <2>2. recordCh' = recordCh \o held[p] /\ held' = [held EXCEPT ![p] = <<>>]
    BY <1>4 DEF ReaderSends
  <2>3. Range(recordCh') = Range(recordCh) \union Range(held[p])
    <3>1. recordCh \in Seq(Records) /\ held[p] \in Seq(Records)
      BY DEF TypeOK, ReadersOK, ChannelsOK, Stream
    <3> QED
      BY <2>2, <3>1, RangeConcatenation, Zenon
  <2>4. \A q \in Partitions \ {p} : held'[q] = held[q]
    BY <2>2 DEF TypeOK, ReadersOK
  <2> QED
    BY <2>1, <2>3, <2>4
<1>5. CASE ReaderCancelled(p) \/ ReaderDrains(p)
  <2>1. reader'[p] \in {"drain", "ctx"}
    BY <1>5 DEF ReaderCancelled, ReaderDrains, TypeOK, ReadersOK
  <2> QED
    BY <2>1 DEF Giving
<1> QED
  BY <1>1, <1>2, <1>3, <1>4, <1>5 DEF SourceStep, ReaderStep

\* the transformers,
LEMMA PlacedByTransformers ==
  ASSUME TypeOK, NEW t \in Transformers, TransformerStep(t), ~Giving',
         NEW r \in Records, Placed(r)
  PROVE  Placed(r)'
<1> USE DEF Placed
<1>1. CASE TransformerTakes(t)
  <2>1. UNCHANGED <<unread, partCh, held, batchCh, work, target, failed>>
    BY <1>1 DEF TransformerTakes, readVars, wrVars, durable
  <2>2. /\ recordCh # <<>> /\ recordCh' = Tail(recordCh)
        /\ batch' = [batch EXCEPT ![t] = Append(batch[t], Head(recordCh))]
    BY <1>1 DEF TransformerTakes
  <2>3. Range(recordCh) = {Head(recordCh)} \union Range(recordCh')
    BY <2>2, Receiving DEF TypeOK, ChannelsOK, Stream
  <2>4. Head(recordCh) \in Records
    BY <2>2, HeadTailProperties DEF TypeOK, ChannelsOK, Stream
  <2>5. Range(batch'[t]) = Range(batch[t]) \union {Head(recordCh)}
    <3>1. batch'[t] = Append(batch[t], Head(recordCh)) /\ batch[t] \in Seq(Records)
      BY <2>2 DEF TypeOK, TransformersOK, Stream
    <3> QED
      BY <2>4, <3>1, Appending
  <2>6. \A s \in Transformers \ {t} : batch'[s] = batch[s]
    BY <2>2 DEF TypeOK, TransformersOK
  <2> QED
    BY <2>1, <2>3, <2>5, <2>6
<1>2. CASE TickerFires(t) \/ TransformerFinishes(t)
  <2>1. UNCHANGED <<unread, partCh, held, recordCh, batch, batchCh, work, target, failed>>
    BY <1>2 DEF TickerFires, TransformerFinishes, readVars, chanVars, wrVars, durable
  <2> QED
    BY <2>1
<1>3. CASE TransformerFlushes(t)
  <2>1. UNCHANGED <<unread, partCh, held, recordCh, work, target, failed>>
    BY <1>3 DEF TransformerFlushes, readVars, wrVars, durable
  <2>2. /\ batchCh' = Append(batchCh, batch[t])
        /\ batch' = [batch EXCEPT ![t] = <<>>]
        /\ tf[t] \in {"flush", "lastFlush"}
    BY <1>3 DEF TransformerFlushes
  <2>3. Range(batchCh') = Range(batchCh) \union {batch[t]}
    <3>1. batch[t] \in Batches /\ batchCh \in Seq(Batches)
      BY <2>2 DEF TypeOK, TransformersOK, ChannelsOK, Batches
    <3> QED
      BY <2>2, <3>1, Appending
  <2>4. \A s \in Transformers \ {t} : batch'[s] = batch[s]
    BY <2>2 DEF TypeOK, TransformersOK
  <2> QED
    BY <2>1, <2>3, <2>4
<1>4. CASE TransformerCancelled(t)
  BY <1>4 DEF TransformerCancelled, Fail, FirstError, Giving
<1> QED
  BY <1>1, <1>2, <1>3, <1>4 DEF TransformerStep

\* the writers.
LEMMA PlacedByWriters ==
  ASSUME TypeOK, SavedOK, NEW w \in Writers, WriterStep(w), NEW r \in Records, Placed(r)
  PROVE  Placed(r)'
<1> USE DEF Placed
<1>0. UNCHANGED <<unread, partCh, held, recordCh, batch>>
  BY DEF WriterStep, WriterTakes, WriterFinishes, WriterCancelled, WriterWrites,
         WriterFails, WriterRetries, WriterGets, WriterPuts, readVars, chanVars, tfVars
<1>1. target \union failed \subseteq target' \union failed'
  BY DEF WriterStep, WriterTakes, WriterFinishes, WriterCancelled, WriterWrites,
         WriterFails, WriterRetries, WriterGets, WriterPuts, durable
<1>2. \A x \in Writers \ {w} : work'[x] = work[x]
  BY DEF WriterStep, WriterTakes, WriterFinishes, WriterCancelled, WriterWrites,
         WriterFails, WriterRetries, WriterGets, WriterPuts, TypeOK, WritersOK
<1>3. CASE WriterTakes(w)
  <2>1. /\ batchCh # <<>> /\ batchCh' = Tail(batchCh) /\ wr[w] = "select"
        /\ work' = [work EXCEPT ![w] = Head(batchCh)]
    BY <1>3 DEF WriterTakes
  <2>2. Range(batchCh) = {Head(batchCh)} \union Range(batchCh')
    BY <2>1, Receiving DEF TypeOK, ChannelsOK
  <2>3. Range(work[w]) = {}
    BY <2>1, RangeEmpty DEF TypeOK, WritersOK
  <2>4. work'[w] = Head(batchCh)
    BY <2>1 DEF TypeOK, WritersOK
  <2>5. (\E b \in Range(batchCh) : r \in Range(b)) => Placed(r)'
    BY <2>2, <2>4
  <2>6. (\E x \in Writers : r \in Range(work[x])) => Placed(r)'
    BY <1>2, <2>3
  <2> QED
    BY <1>0, <1>1, <2>5, <2>6
<1>4. CASE ~WriterTakes(w)
  <2>1. UNCHANGED batchCh
    BY <1>4 DEF WriterStep, WriterFinishes, WriterCancelled, WriterWrites,
           WriterFails, WriterRetries, WriterGets, WriterPuts, chanVars
  <2>2. ASSUME r \in Range(work[w]) PROVE r \in Range(work'[w]) \/ r \in target' \union failed'
    <3>1. CASE WriterWrites(w)
      BY <2>2, <3>1 DEF WriterWrites
    <3>2. CASE WriterRetries(w)
      <4>1. work[w] \in Seq(Records) /\ work[w] # <<>> /\ work'[w] = Tail(work[w])
        BY <3>2 DEF WriterRetries, TypeOK, WritersOK, Stream
      <4>2. Range(work[w]) = {Head(work[w])} \union Range(work'[w])
        BY <4>1, Receiving
      <4>3. Head(work[w]) \in target' \union failed'
        BY <3>2 DEF WriterRetries
      <4> QED
        BY <2>2, <4>2, <4>3
    <3>3. CASE WriterPuts(w)
      <4>1. r \in target
        BY <2>2, <3>3 DEF WriterPuts, SavedOK
      <4> QED
        BY <1>1, <4>1
    <3>4. CASE WriterFinishes(w) \/ WriterCancelled(w) \/ WriterFails(w) \/ WriterGets(w)
      BY <2>2, <3>4 DEF WriterFinishes, WriterCancelled, WriterFails, WriterGets
    <3> QED
      BY <1>4, <3>1, <3>2, <3>3, <3>4 DEF WriterStep
  <2> QED
    BY <1>0, <1>1, <1>2, <2>1, <2>2
<1> QED
  BY <1>3, <1>4

\* Every step of Migrate moves records without losing one, but on the way to an error.
LEMMA PlacedStep ==
  ASSUME TypeOK, SavedOK, [Next]_vars, ~Giving', NEW r \in Records, Placed(r)
  PROVE  Placed(r)'
<1>1. CASE \/ CallerCancels \/ CloseRecordCh \/ CloseBatchCh \/ UNCHANGED vars
  <2>1. UNCHANGED <<unread, partCh, held, recordCh, batch, batchCh, work, target, failed>>
    BY <1>1 DEF CallerCancels, CloseRecordCh, CloseBatchCh, vars, readVars, chanVars,
                tfVars, wrVars, durable
  <2> QED
    BY <2>1 DEF Placed
<1> QED
  BY <1>1, PlacedByReaders, PlacedByTransformers, PlacedByWriters DEF Next

\* So none is lost that was there as the call began.
LEMMA LosslessStep ==
  ASSUME TypeOK, SavedOK, LosslessOK, [Next]_vars
  PROVE  LosslessOK'
<1>1. ASSUME ~Giving', NEW r \in Records PROVE r \in Whereabouts'
  <2>1. Placed(r)
    BY <1>1, GivingStays, PlaceOf DEF LosslessOK
  <2>2. Placed(r)'
    BY <1>1, <2>1, PlacedStep
  <2> QED
    BY <2>2, PlaceOfNext
<1> QED
  BY <1>1 DEF LosslessOK

-----------------------------------------------------------------------------
\* The invariant holds as Migrate starts.
LEMMA InvInit == Init => IInv
<1> SUFFICES ASSUME Init PROVE IInv
  OBVIOUS
<1> USE DEF Init, Boot, SourceStart, ReaderStart, Remaining, Absent
<1>1. TypeOK
  BY TypeInit
<1>2. CauseOK
  BY DEF CauseOK
<1>3. ClosedOK
  BY DEF ClosedOK, Returned
<1>4. DrainedOK
  BY DEF DrainedOK
<1>5. LosslessOK
  <2>1. ASSUME NEW r \in Records PROVE r \in Whereabouts
    <3>1. r[1] \in Partitions /\ r[2] \in Offsets
      BY DEF Records
    <3>2. r[2] >= 0
      BY <3>1 DEF Offsets
    <3>3. unread[r[1]] = {o \in Offsets : o >= 0}
      BY <3>1
    <3>4. r[2] \in unread[r[1]]
      BY <3>1, <3>2, <3>3
    <3> QED
      BY <3>4, PlaceOf DEF Placed
  <2> QED
    BY <2>1 DEF LosslessOK
<1>6. SavedOK
  BY DEF SavedOK
<1> QED
  BY <1>1, <1>2, <1>3, <1>4, <1>5, <1>6 DEF IInv, Orderly

\* Every step of Migrate keeps order,
LEMMA OrderlyStep == Orderly /\ [Next]_vars => Orderly'
BY TypeStep, CauseStep, ClosedStep, DrainedStep, SavedStep DEF Orderly

\* and the invariant.
LEMMA InvStep == IInv /\ [Next]_vars => IInv'
BY OrderlyStep, LosslessStep DEF IInv, Orderly

\* The invariant is inductive, so it holds throughout.
THEOREM Invariance == Spec => []IInv
BY InvInit, InvStep, PTL DEF Spec

\* Until the context is cancelled no record is lost.
THEOREM NothingIsLost == Spec => []NothingLost
<1>1. IInv => NothingLost
  <2> SUFFICES ASSUME IInv, ~Cancelled PROVE Records = Whereabouts
    BY DEF NothingLost, Whereabouts
  <2>1. Records \subseteq Whereabouts
    BY DEF IInv, Orderly, CauseOK, LosslessOK, Giving
  <2>2. ASSUME NEW r \in Whereabouts PROVE r \in Records
    <3>1. /\ \A p \in Partitions : Range(partCh[p]) \subseteq Records /\ Range(held[p]) \subseteq Records
          /\ Range(recordCh) \subseteq Records
          /\ \A t \in Transformers : Range(batch[t]) \subseteq Records
          /\ \A w \in Writers : Range(work[w]) \subseteq Records
          /\ target \union failed \subseteq Records
      BY RangeOfSeq DEF IInv, Orderly, TypeOK, ReadersOK, ChannelsOK, TransformersOK, WritersOK, OutcomeOK, Stream
    <3>2. ASSUME NEW b \in Range(batchCh) PROVE Range(b) \subseteq Records
      <4>1. batchCh \in Seq(Batches)
        BY DEF IInv, Orderly, TypeOK, ChannelsOK
      <4>2. b \in Batches
        BY <4>1, RangeOfSeq
      <4> QED
        BY <4>2, RangeOfSeq DEF Batches, Stream
    <3> QED
      BY <2>2, <3>1, <3>2, PlaceOf DEF Placed
  <2> QED
    BY <2>1, <2>2
<1> QED
  BY <1>1, Invariance, PTL

\* If Migrate has a transformer at all, the pipeline is empty when it returns nil.
LEMMA EmptyAtSuccess ==
  ASSUME Orderly, Transformers # {}, Outcome = "ok"
  PROVE  ~Giving /\ \A r \in Records : Placed(r) => r \in target \union failed
<1> USE DEF Orderly
<1>1. failure = "none" /\ Ended
  BY DEF Outcome
<1>2. \A p \in Partitions : unread[p] = {} /\ partCh[p] = <<>> /\ held[p] = <<>>
  <2> SUFFICES ASSUME NEW p \in Partitions PROVE unread[p] = {} /\ partCh[p] = <<>> /\ held[p] = <<>>
    OBVIOUS
  <2>1. reader[p] = "done"
    BY <1>1 DEF Ended
  <2>2. unread[p] = {} /\ partCh[p] = <<>>
    BY <1>1, <2>1 DEF DrainedOK, ClosedOK, Returned
  <2>3. held[p] \in Seq(Records) /\ Len(held[p]) = 0
    BY <2>1 DEF TypeOK, ReadersOK, Stream
  <2> QED
    BY <2>2, <2>3, EmptySeq
<1>3. recordCh = <<>> /\ \A t \in Transformers : batch[t] = <<>>
  BY <1>1 DEF Ended, DrainedOK, ClosedOK
<1>4. \A w \in Writers : work[w] = <<>>
  BY <1>1 DEF Ended, TypeOK, WritersOK
<1>5. batchCh = <<>>
  <2>1. CASE Writers # {}
    BY <1>1, <2>1 DEF Ended, DrainedOK
  <2>2. CASE Writers = {}
    <3>1. batchCh \in Seq(Batches) /\ Len(batchCh) \in Nat /\ Len(batchCh) <= 0
      BY <2>2, FS_EmptySet, LenProperties DEF TypeOK, ChannelsOK, BatchCap
    <3>2. Len(batchCh) = 0
      BY <3>1
    <3> QED
      BY <3>1, <3>2, EmptySeq
  <2> QED
    BY <2>1, <2>2
<1>6. ~Giving
  BY <1>1 DEF Giving, Ended
<1>7. ASSUME NEW r \in Records, Placed(r) PROVE r \in target \union failed
  <2>1. r[1] \in Partitions
    BY DEF Records
  <2> QED
    BY <1>2, <1>3, <1>4, <1>5, <1>7, <2>1, RangeEmpty DEF Placed
<1> QED
  BY <1>6, <1>7

\* So every record has an outcome then.
LEMMA CompleteAtSuccess == ASSUME IInv, Transformers # {}, Outcome = "ok" PROVE Records = target \union failed
<1>1. ASSUME NEW r \in Records PROVE r \in target \union failed
  BY EmptyAtSuccess, PlaceOf DEF IInv, LosslessOK
<1>2. target \union failed \subseteq Records
  BY DEF IInv, Orderly, TypeOK, OutcomeOK
<1> QED
  BY <1>1, <1>2

\* With at least one transformer, Migrate returns nil only when every record is in the
\* target or was counted as failed.
THEOREM SuccessMeansComplete ==
  ASSUME Transformers # {}
  PROVE  Spec => []SuccessIsComplete
<1>1. IInv => SuccessIsComplete
  BY CompleteAtSuccess DEF SuccessIsComplete
<1> QED
  BY <1>1, Invariance, PTL

\* A channel is closed after the last send.
LEMMA OrderlyCloses == Orderly => ClosedAfterLastSend
<1> SUFFICES ASSUME Orderly PROVE ClosedAfterLastSend
  OBVIOUS
<1>1. ASSUME NEW p \in Partitions, Returned(p) PROVE held[p] = <<>>
  <2>1. held[p] \in Seq(Records) /\ Len(held[p]) = 0
    BY <1>1 DEF Orderly, TypeOK, ReadersOK, Returned, Stream
  <2> QED
    BY <2>1, EmptySeq
<1> QED
  BY <1>1 DEF Orderly, ClosedOK, AllReadersReturned, AllTransformersDone, ClosedAfterLastSend

\* The context's own error is returned only when the caller cancelled.
LEMMA OrderlyReports == Orderly => RootCauseReported
BY DEF Orderly, TypeOK, GroupOK, CauseOK, Cancelled, RootCauseReported

\* No channel is closed before the last send to it, however the goroutines interleave.
THEOREM ClosedAfterLast == Spec => []ClosedAfterLastSend
<1>1. IInv => ClosedAfterLastSend
  BY OrderlyCloses DEF IInv
<1> QED
  BY <1>1, Invariance, PTL

\* Migrate reports the error that stopped it, never the cancellation that followed.
THEOREM RootCause == Spec => []RootCauseReported
<1>1. IInv => RootCauseReported
  BY OrderlyReports DEF IInv
<1> QED
  BY <1>1, Invariance, PTL

-----------------------------------------------------------------------------
(* Pipeline implements Transfer.                                           *)

Settled == target \union failed

\* What each step does to the settled records and to the group, as Transfer sees it.
LEMMA SettledStep ==
  ASSUME TypeOK, [Next]_vars
  PROVE  /\ Settled \subseteq Settled'
         /\ Settled' # Settled =>
              \E w \in Writers : wr[w] # "done" /\ wr'[w] # "done"
<1> USE DEF Settled
<1>1. CASE UNCHANGED <<target, failed>>
  BY <1>1
<1>2. ASSUME NEW w \in Writers, WriterWrites(w) \/ WriterFails(w) \/ WriterRetries(w)
      PROVE  /\ target \subseteq target' /\ failed \subseteq failed'
             /\ wr[w] # "done" /\ wr'[w] # "done"
  BY <1>2 DEF WriterWrites, WriterFails, WriterRetries, TypeOK, WritersOK
<1>3. ASSUME NEW w \in Writers, WriterTakes(w) \/ WriterFinishes(w) \/ WriterCancelled(w)
                                \/ WriterGets(w) \/ WriterPuts(w)
      PROVE  UNCHANGED <<target, failed>>
  BY <1>3 DEF WriterTakes, WriterFinishes, WriterCancelled, WriterGets, WriterPuts, durable
<1>4. ASSUME NEW p \in Partitions, SourceStep(p) \/ ReaderStep(p) PROVE UNCHANGED <<target, failed>>
  BY <1>4 DEF SourceStep, SourceSends, SourceReturns, ReaderStep, ReaderTakes, ReaderSends,
              ReaderCancelled, ReaderDrains, ReaderFinishes, ReaderReports, durable
<1>5. ASSUME NEW t \in Transformers, TransformerStep(t) PROVE UNCHANGED <<target, failed>>
  BY <1>5 DEF TransformerStep, TransformerTakes, TickerFires, TransformerFinishes,
              TransformerFlushes, TransformerCancelled, durable
<1>6. CASE CallerCancels \/ CloseRecordCh \/ CloseBatchCh \/ UNCHANGED vars
  <2>1. UNCHANGED <<target, failed>>
    BY <1>6 DEF CallerCancels, CloseRecordCh, CloseBatchCh, vars, durable
  <2> QED
    BY <2>1
<1> QED
  BY <1>1, <1>2, <1>3, <1>4, <1>5, <1>6 DEF Next, WriterStep

\* Once every goroutine of the group has returned, nothing changes what Migrate returned.
LEMMA EndedStays ==
  ASSUME TypeOK, [Next]_vars, Ended
  PROVE  Ended' /\ UNCHANGED <<failure, target, dlq, failed>>
<1> USE DEF Ended, TypeOK
<1>1. CASE CallerCancels \/ CloseRecordCh \/ CloseBatchCh \/ UNCHANGED vars
  BY <1>1 DEF CallerCancels, CloseRecordCh, CloseBatchCh, vars, readVars, tfVars, wrVars, groupVars, durable
<1>2. ASSUME NEW p \in Partitions, SourceStep(p) PROVE UNCHANGED <<reader, tf, wr, failure, target, dlq, failed>>
  BY <1>2 DEF SourceStep, SourceSends, SourceReturns, tfVars, wrVars, groupVars, durable
<1>3. ASSUME NEW p \in Partitions PROVE ~ReaderStep(p)
  BY DEF ReaderStep, ReaderTakes, ReaderSends, ReaderCancelled, ReaderDrains, ReaderFinishes, ReaderReports
<1>4. ASSUME NEW t \in Transformers PROVE ~TransformerStep(t)
  BY DEF TransformerStep, TransformerTakes, TickerFires, TransformerFinishes,
         TransformerFlushes, TransformerCancelled
<1>5. ASSUME NEW w \in Writers PROVE ~WriterStep(w)
  BY DEF WriterStep, WriterTakes, WriterFinishes, WriterCancelled, WriterWrites,
         WriterFails, WriterRetries, WriterGets, WriterPuts
<1> QED
  BY <1>1, <1>2, <1>3, <1>4, <1>5 DEF Next

\* With at least one transformer, Migrate implements Transfer: records settle one way
\* only, and "ok" comes after the last of them.
THEOREM Implementation ==
  ASSUME Transformers # {}
  PROVE  Spec => ImplementsTransfer
<1>1. Init => T!Init
  <2> SUFFICES ASSUME Init PROVE T!Init
    OBVIOUS
  <2>1. target \union failed = {}
    BY DEF Init, Boot
  <2>2. PICK p \in Partitions : TRUE
    BY WorkersAssumption
  <2>3. reader[p] = "range"
    BY DEF Init, Boot, ReaderStart, Absent
  <2> QED
    BY <2>1, <2>3 DEF T!Init, Outcome, Ended
<1>2. IInv => SuccessIsComplete
  BY CompleteAtSuccess DEF SuccessIsComplete
<1>3. IInv' => SuccessIsComplete'
  BY <1>2, PTL
<1>4. IInv /\ IInv' /\ [Next]_vars => [T!Next]_T!vars
  <2> SUFFICES ASSUME IInv, IInv', [Next]_vars PROVE [T!Next]_T!vars
    OBVIOUS
  <2>1. CASE Ended
    <3>1. UNCHANGED <<target, failed>> /\ Outcome' = Outcome
      BY <2>1, EndedStays DEF Outcome, IInv, Orderly
    <3> QED
      BY <3>1 DEF T!vars
  <2>2. CASE ~Ended /\ ~Ended'
    <3>1. Settled \subseteq Settled' /\ Settled' \subseteq Records
      BY SettledStep DEF IInv, Orderly, TypeOK, OutcomeOK, Settled
    <3>2. Outcome = "running" /\ Outcome' = "running"
      BY <2>2 DEF Outcome
    <3>3. Settled' = Settled \union (Settled' \ Settled) /\ (Settled' \ Settled) \in SUBSET Records
      BY <3>1
    <3>4. T!Settle
      BY <3>2, <3>3 DEF T!Settle, Settled
    <3> QED
      BY <3>4 DEF T!Next
  <2>3. CASE ~Ended /\ Ended'
    <3>1. Settled' = Settled
      BY <2>3, SettledStep DEF Ended, IInv, Orderly
    <3>2. Outcome = "running" /\ Outcome' \in {"ok", "error"}
      BY <2>3 DEF Outcome
    <3>3. Outcome' = "ok" => Settled' = Records
      BY <1>3 DEF SuccessIsComplete, Settled
    <3>4. T!End
      BY <3>1, <3>2, <3>3 DEF T!End, Settled
    <3> QED
      BY <3>4 DEF T!Next
  <2> QED
    BY <2>1, <2>2, <2>3
<1> QED
  BY <1>1, <1>4, Invariance, PTL DEF Spec, ImplementsTransfer, T!Spec

-----------------------------------------------------------------------------
(* Counting. A record's copies in one sequence, and in a family of them.   *)

CopyAt(s, r) == {i \in DOMAIN s : s[i] = r}
Copies(s, r) == Cardinality(CopyAt(s, r))
One(e, r) == IF e = r THEN 1 ELSE 0

\* A sequence has finitely many copies of a record, and some if it holds the record.
LEMMA CopiesType ==
  ASSUME NEW s \in Stream, NEW r
  PROVE  /\ IsFiniteSet(CopyAt(s, r)) /\ Copies(s, r) \in Nat
         /\ r \in Range(s) <=> Copies(s, r) >= 1
         /\ s = <<>> => Copies(s, r) = 0
<1>1. DOMAIN s = 1..Len(s) /\ Len(s) \in Nat
  BY LenProperties DEF Stream
<1>2. IsFiniteSet(CopyAt(s, r))
  <2>1. IsFiniteSet(1..Len(s)) /\ CopyAt(s, r) \in SUBSET (1..Len(s))
    BY <1>1, FS_Interval DEF CopyAt
  <2> QED BY <2>1, FS_Subset
<1>3. Copies(s, r) \in Nat /\ (Copies(s, r) = 0 <=> CopyAt(s, r) = {})
  BY <1>2, FS_CardinalityType, FS_EmptySet DEF Copies
<1>4. r \in Range(s) <=> CopyAt(s, r) # {}
  BY DEF Range, CopyAt
<1>5. s = <<>> => CopyAt(s, r) = {}
  BY DEF CopyAt
<1> QED BY <1>2, <1>3, <1>4, <1>5

\* A send adds one copy of the record sent.
LEMMA CopiesAppend ==
  ASSUME NEW s \in Stream, NEW e \in Records, NEW r
  PROVE  Copies(Append(s, e), r) = Copies(s, r) + One(e, r)
<1>1. /\ DOMAIN s = 1..Len(s) /\ Len(s) \in Nat
      /\ DOMAIN Append(s, e) = 1..(Len(s) + 1)
      /\ \A i \in 1..Len(s) : Append(s, e)[i] = s[i]
      /\ Append(s, e)[Len(s) + 1] = e
  BY LenProperties, AppendProperties DEF Stream
<1>2. IsFiniteSet(CopyAt(s, r)) /\ Copies(s, r) \in Nat
  BY CopiesType
<1>3. CASE e = r
  <2>1. CopyAt(Append(s, e), r) = CopyAt(s, r) \union {Len(s) + 1} /\ Len(s) + 1 \notin CopyAt(s, r)
    BY <1>1, <1>3 DEF CopyAt
  <2> QED BY <1>2, <1>3, <2>1, FS_AddElement DEF Copies, One
<1>4. CASE e # r
  <2>1. CopyAt(Append(s, e), r) = CopyAt(s, r)
    BY <1>1, <1>4 DEF CopyAt
  <2> QED BY <1>2, <1>4, <2>1 DEF Copies, One
<1> QED BY <1>3, <1>4

\* A receive takes one away.
LEMMA CopiesTail ==
  ASSUME NEW s \in Stream, s # <<>>, NEW r
  PROVE  Copies(s, r) = Copies(Tail(s), r) + One(Head(s), r)
<1>1. /\ DOMAIN s = 1..Len(s) /\ Len(s) \in Nat \ {0} /\ Head(s) = s[1]
      /\ DOMAIN Tail(s) = 1..(Len(s) - 1) /\ Tail(s) \in Stream
      /\ \A i \in 1..(Len(s) - 1) : Tail(s)[i] = s[i + 1]
  BY LenProperties, HeadTailProperties, EmptySeq DEF Stream
<1> DEFINE Later == CopyAt(Tail(s), r)
           U == CopyAt(s, r) \ {1}
           f == [i \in Later |-> i + 1]
<1>2. IsFiniteSet(CopyAt(s, r)) /\ IsFiniteSet(Later) /\ Copies(s, r) \in Nat
  BY <1>1, CopiesType
<1>3. Later \subseteq Nat /\ U = {i + 1 : i \in Later}
  <2>1. ASSUME NEW i \in Later PROVE i \in Nat /\ i + 1 \in U
    BY <1>1 DEF CopyAt
  <2>2. ASSUME NEW j \in U PROVE j - 1 \in Later /\ j = (j - 1) + 1
    <3>1. j \in 1..Len(s) /\ j # 1 /\ s[j] = r
      BY <1>1 DEF CopyAt
    <3>2. j - 1 \in 1..(Len(s) - 1) /\ (j - 1) + 1 = j
      BY <1>1, <3>1
    <3> QED BY <1>1, <3>1, <3>2 DEF CopyAt
  <2> QED BY <2>1, <2>2
<1>4. f \in Bijection(Later, U)
  <2>1. f \in [Later -> U]
    BY <1>3
  <2>2. \A a, b \in Later : f[a] = f[b] => a = b
    BY <1>3
  <2>3. \A u \in U : \E a \in Later : f[a] = u
    BY <1>3
  <2> QED BY <2>1, <2>2, <2>3, Fun_IsBij
<1>5. Cardinality(U) = Cardinality(Later)
  BY <1>2, <1>4, FS_Bijection DEF ExistsBijection
<1>6. Cardinality(U) = IF 1 \in CopyAt(s, r) THEN Copies(s, r) - 1 ELSE Copies(s, r)
  BY <1>2, FS_RemoveElement DEF Copies
<1>7. 1 \in CopyAt(s, r) <=> Head(s) = r
  BY <1>1 DEF CopyAt
<1>8. Copies(Tail(s), r) = Cardinality(U)
  BY <1>5 DEF Copies
<1> HIDE DEF U
<1> QED BY <1>2, <1>6, <1>7, <1>8 DEF One

\* At most one copy of each record makes a sequence without repetition.
LEMMA CopiesInjective ==
  ASSUME NEW s \in Stream, \A r \in Records : Copies(s, r) <= 1
  PROVE  IsInjective(s)
<1> SUFFICES ASSUME NEW i \in 1..Len(s), NEW j \in 1..Len(s), s[i] = s[j], i # j PROVE FALSE
  BY InjectiveMeans DEF Stream
<1> DEFINE r == s[i]
<1>1. r \in Records /\ DOMAIN s = 1..Len(s)
  BY ElementOfSeq, LenProperties DEF Stream
<1>2. i \in CopyAt(s, r) /\ j \in CopyAt(s, r) /\ IsFiniteSet(CopyAt(s, r)) /\ Copies(s, r) \in Nat
  BY <1>1, CopiesType DEF CopyAt
<1>3. {i, j} \in SUBSET CopyAt(s, r)
  BY <1>2
<1>4. Cardinality({i, j}) = 2
  <2>1. IsFiniteSet({i}) /\ Cardinality({i}) = 1 /\ j \notin {i}
    BY FS_Singleton
  <2>2. Cardinality({i} \union {j}) = Cardinality({i}) + 1
    BY <2>1, FS_AddElement, Zenon
  <2>3. {i, j} = {i} \union {j}
    OBVIOUS
  <2> QED BY <2>1, <2>2, <2>3
<1>5. 2 <= Copies(s, r)
  BY <1>2, <1>3, <1>4, FS_Subset DEF Copies
<1> QED BY <1>1, <1>2, <1>5

-----------------------------------------------------------------------------
\* A family of sequences, none longer than a batch.
Families(D) == {f \in [D -> Stream] : \A c \in D : Len(f[c]) <= BatchSize}
Elsewhere(f, c, r) == {e \in PlacesIn(f, r) : e[1] # c}

\* The copies in a family are those in one of its sequences and those in the others.
LEMMA PlacesSplit ==
  ASSUME NEW D, IsFiniteSet(D), NEW f \in Families(D), NEW c \in D, NEW r
  PROVE  /\ IsFiniteSet(Elsewhere(f, c, r)) /\ Cardinality(Elsewhere(f, c, r)) \in Nat
         /\ IsFiniteSet(PlacesIn(f, r)) /\ Cardinality(PlacesIn(f, r)) \in Nat
         /\ Cardinality(PlacesIn(f, r)) = Copies(f[c], r) + Cardinality(Elsewhere(f, c, r))
<1>1. DOMAIN f = D /\ \A d \in D : /\ f[d] \in Stream /\ DOMAIN f[d] = 1..Len(f[d])
                                   /\ Len(f[d]) \in Nat /\ Len(f[d]) <= BatchSize
  BY LenProperties DEF Families, Stream
<1>2. IsFiniteSet(PlacesIn(f, r))
  <2>1. IsFiniteSet(1..BatchSize)
    BY FS_Interval, SizesAssumption
  <2>2. IsFiniteSet(D \X (1..BatchSize))
    BY <2>1, FS_Product
  <2>3. PlacesIn(f, r) \in SUBSET (D \X (1..BatchSize))
    BY <1>1 DEF PlacesIn
  <2> QED BY <2>2, <2>3, FS_Subset
<1> DEFINE H == {e \in PlacesIn(f, r) : e[1] = c}
           g == [i \in CopyAt(f[c], r) |-> <<c, i>>]
<1>3. IsFiniteSet(Elsewhere(f, c, r)) /\ IsFiniteSet(H)
  BY <1>2, FS_Subset DEF Elsewhere
<1>4. PlacesIn(f, r) = Elsewhere(f, c, r) \union H /\ Elsewhere(f, c, r) \intersect H = {}
  BY DEF Elsewhere
<1>5. g \in Bijection(CopyAt(f[c], r), H)
  <2>1. ASSUME NEW i \in CopyAt(f[c], r) PROVE <<c, i>> \in H
    BY <1>1, SizesAssumption DEF CopyAt, PlacesIn
  <2>2. ASSUME NEW e \in H PROVE e[2] \in CopyAt(f[c], r) /\ e = <<c, e[2]>>
    BY <1>1 DEF CopyAt, PlacesIn
  <2>3. g \in [CopyAt(f[c], r) -> H]
    BY <2>1
  <2>4. \A a, b \in CopyAt(f[c], r) : g[a] = g[b] => a = b
    OBVIOUS
  <2>5. \A e \in H : \E a \in CopyAt(f[c], r) : g[a] = e
    BY <2>2
  <2> QED BY <2>3, <2>4, <2>5, Fun_IsBij
<1>6. Cardinality(H) = Copies(f[c], r)
  BY <1>1, <1>5, CopiesType, FS_Bijection DEF ExistsBijection, Copies
<1>7. Cardinality(PlacesIn(f, r)) = Cardinality(Elsewhere(f, c, r)) + Cardinality(H) - Cardinality(Elsewhere(f, c, r) \intersect H)
  BY <1>3, <1>4, FS_Union
<1>8. Cardinality(Elsewhere(f, c, r) \intersect H) = 0
  BY <1>4, FS_EmptySet
<1>9. /\ Cardinality(Elsewhere(f, c, r)) \in Nat /\ Cardinality(H) \in Nat
      /\ Cardinality(PlacesIn(f, r)) \in Nat
  BY <1>2, <1>3, FS_CardinalityType
<1> HIDE DEF H
<1> QED BY <1>2, <1>3, <1>6, <1>7, <1>8, <1>9

\* g is the family f with a new sequence at c.
Moved(D, f, g, c, v) ==
  /\ IsFiniteSet(D) /\ f \in Families(D) /\ g \in Families(D) /\ c \in D
  /\ g = [f EXCEPT ![c] = v]

\* Changing one sequence of a family changes the count by what that one has.
LEMMA PlacesMove ==
  ASSUME NEW D, NEW f, NEW g, NEW c, NEW v, Moved(D, f, g, c, v), NEW r
  PROVE  /\ v \in Stream /\ Copies(f[c], r) \in Nat /\ Copies(v, r) \in Nat
         /\ Cardinality(PlacesIn(f, r)) \in Nat /\ Cardinality(PlacesIn(g, r)) \in Nat
         /\ Cardinality(PlacesIn(g, r)) + Copies(f[c], r) = Cardinality(PlacesIn(f, r)) + Copies(v, r)
<1>0. /\ IsFiniteSet(D) /\ f \in Families(D) /\ g \in Families(D) /\ c \in D
      /\ DOMAIN f = D /\ DOMAIN g = D /\ \A d \in D \ {c} : g[d] = f[d]
      /\ g[c] = v /\ g[c] \in Stream /\ f[c] \in Stream
  BY DEF Moved, Families
<1>1. Elsewhere(g, c, r) = Elsewhere(f, c, r)
  BY <1>0 DEF Elsewhere, PlacesIn
<1>2. /\ Cardinality(PlacesIn(f, r)) = Copies(f[c], r) + Cardinality(Elsewhere(f, c, r))
      /\ Cardinality(PlacesIn(f, r)) \in Nat /\ Cardinality(Elsewhere(f, c, r)) \in Nat
  BY <1>0, PlacesSplit
<1>3. /\ Cardinality(PlacesIn(g, r)) = Copies(g[c], r) + Cardinality(Elsewhere(g, c, r))
      /\ Cardinality(PlacesIn(g, r)) \in Nat
  BY <1>0, PlacesSplit
<1>4. Copies(f[c], r) \in Nat /\ Copies(g[c], r) \in Nat
  BY <1>0, CopiesType
<1> QED BY <1>0, <1>1, <1>2, <1>3, <1>4

\* A record in one of the sequences is counted.
LEMMA PlacesHave ==
  ASSUME NEW D, IsFiniteSet(D), NEW f \in Families(D), NEW c \in D, NEW r, r \in Range(f[c])
  PROVE  Cardinality(PlacesIn(f, r)) >= 1
<1>1. Copies(f[c], r) >= 1 /\ Copies(f[c], r) \in Nat
  BY CopiesType DEF Families
<1> QED BY <1>1, PlacesSplit

\* The queue of batches: a send adds the batch's records,
LEMMA PlacesAppend ==
  ASSUME NEW f \in Seq(Stream), NEW b \in Stream, NEW r,
         \A i \in 1..Len(f) : Len(f[i]) <= BatchSize, Len(b) <= BatchSize
  PROVE  /\ Cardinality(PlacesIn(f, r)) \in Nat /\ Cardinality(PlacesIn(Append(f, b), r)) \in Nat
         /\ Cardinality(PlacesIn(Append(f, b), r)) = Cardinality(PlacesIn(f, r)) + Copies(b, r)
<1> DEFINE g == Append(f, b)
           n == Len(f) + 1
<1>1. /\ n \in Nat /\ n \in 1..n /\ DOMAIN f = 1..Len(f) /\ DOMAIN g = 1..n
      /\ \A i \in 1..Len(f) : g[i] = f[i] /\ f[i] \in Stream
      /\ g[n] = b /\ Len(f) \in Nat
  BY LenProperties, AppendProperties, ElementOfSeq
<1>2. g \in Families(1..n)
  <2>1. g \in Seq(Stream) /\ Len(g) = n
    BY AppendProperties
  <2>2. g \in [1..n -> Stream]
    BY <2>1, LenProperties
  <2>3. \A i \in 1..n : i = n \/ i \in 1..Len(f)
    BY <1>1
  <2> HIDE DEF g, n
  <2> QED BY <1>1, <2>2, <2>3 DEF Families
<1>3. IsFiniteSet(1..n)
  BY <1>1, FS_Interval
<1>4. Elsewhere(g, n, r) = PlacesIn(f, r)
  <2> HIDE DEF g
  <2>1. \A i \in 1..n : i # n <=> i \in 1..Len(f)
    BY <1>1
  <2> HIDE DEF n
  <2>2. n \notin 1..Len(f) /\ 1..Len(f) \subseteq 1..n
    BY <1>1, <2>1
  <2> QED BY <1>1, <2>1, <2>2 DEF Elsewhere, PlacesIn
<1> HIDE DEF g, n
<1>5. /\ Cardinality(PlacesIn(g, r)) = Copies(g[n], r) + Cardinality(Elsewhere(g, n, r))
      /\ Cardinality(PlacesIn(g, r)) \in Nat /\ Cardinality(Elsewhere(g, n, r)) \in Nat
  BY <1>1, <1>2, <1>3, PlacesSplit
<1>6. Copies(b, r) \in Nat
  BY CopiesType
<1> QED BY <1>1, <1>4, <1>5, <1>6 DEF g

\* and a receive takes the first batch's away.
LEMMA PlacesTail ==
  ASSUME NEW f \in Seq(Stream), f # <<>>, NEW r,
         \A i \in 1..Len(f) : Len(f[i]) <= BatchSize
  PROVE  /\ Cardinality(PlacesIn(f, r)) \in Nat /\ Cardinality(PlacesIn(Tail(f), r)) \in Nat
         /\ Cardinality(PlacesIn(f, r)) = Cardinality(PlacesIn(Tail(f), r)) + Copies(Head(f), r)
<1> DEFINE g == Tail(f)
           n == Len(f)
<1>1. /\ n \in Nat \ {0} /\ DOMAIN f = 1..n /\ DOMAIN g = 1..(n - 1) /\ Head(f) = f[1]
      /\ \A i \in 1..(n - 1) : g[i] = f[i + 1]
      /\ \A i \in 1..n : f[i] \in Stream
  BY LenProperties, HeadTailProperties, EmptySeq, ElementOfSeq
<1>2. f \in Families(1..n) /\ IsFiniteSet(1..n) /\ 1 \in 1..n
  <2>1. f \in [1..n -> Stream]
    BY LenProperties
  <2>2. IsFiniteSet(1..n) /\ 1 \in 1..n
    BY <1>1, FS_Interval
  <2> QED BY <2>1, <2>2 DEF Families
<1>3. /\ Cardinality(PlacesIn(f, r)) = Copies(f[1], r) + Cardinality(Elsewhere(f, 1, r))
      /\ Cardinality(PlacesIn(f, r)) \in Nat
      /\ IsFiniteSet(Elsewhere(f, 1, r)) /\ Cardinality(Elsewhere(f, 1, r)) \in Nat
  BY <1>2, PlacesSplit
<1> DEFINE E == Elsewhere(f, 1, r)
           P == PlacesIn(g, r)
           h == [e \in E |-> <<e[1] - 1, e[2]>>]
<1> HIDE DEF g, n
<1>4. h \in Bijection(E, P)
  <2>1. ASSUME NEW e \in E PROVE e[1] \in Nat /\ <<e[1] - 1, e[2]>> \in P /\ e = <<e[1], e[2]>>
    <3>1. e = <<e[1], e[2]>> /\ e[1] \in 1..n /\ e[1] # 1 /\ e[2] \in 1..BatchSize /\ e[2] \in DOMAIN f[e[1]] /\ f[e[1]][e[2]] = r
      BY <1>1 DEF Elsewhere, PlacesIn
    <3>2. e[1] - 1 \in 1..(n - 1) /\ (e[1] - 1) + 1 = e[1]
      BY <1>1, <3>1
    <3>3. g[e[1] - 1] = f[e[1]]
      BY <1>1, <3>2
    <3> QED BY <1>1, <3>1, <3>2, <3>3 DEF PlacesIn
  <2>2. ASSUME NEW x \in P PROVE \E e \in E : h[e] = x
    <3>1. x = <<x[1], x[2]>> /\ x[1] \in 1..(n - 1) /\ x[2] \in 1..BatchSize /\ x[2] \in DOMAIN g[x[1]] /\ g[x[1]][x[2]] = r
      BY <1>1 DEF PlacesIn
    <3>2. x[1] + 1 \in 1..n /\ x[1] + 1 # 1 /\ (x[1] + 1) - 1 = x[1] /\ g[x[1]] = f[x[1] + 1]
      BY <1>1, <3>1
    <3>3. <<x[1] + 1, x[2]>> \in E
      BY <1>1, <3>1, <3>2 DEF Elsewhere, PlacesIn
    <3> QED BY <3>1, <3>2, <3>3
  <2>3. h \in [E -> P]
    BY <2>1
  <2>4. \A a, b \in E : h[a] = h[b] => a = b
    <3> SUFFICES ASSUME NEW a \in E, NEW b \in E, h[a] = h[b] PROVE a = b
      OBVIOUS
    <3>1. a[1] - 1 = b[1] - 1 /\ a[2] = b[2]
      OBVIOUS
    <3>2. a[1] = b[1]
      BY <2>1, <3>1
    <3> QED BY <2>1, <3>1, <3>2
  <2> QED BY <2>2, <2>3, <2>4, Fun_IsBij
<1>5. Cardinality(P) = Cardinality(E)
  BY <1>3, <1>4, FS_Bijection DEF ExistsBijection
<1>6. Copies(f[1], r) \in Nat
  BY <1>1, <1>2, CopiesType
<1> HIDE DEF E, P
<1> QED BY <1>1, <1>3, <1>5, <1>6 DEF E, P, g

-----------------------------------------------------------------------------
(* No record travels twice.                                                *)

\* No batch is longer than the configured size.
SizesOK ==
  /\ \A i \in 1..Len(batchCh) : Len(batchCh[i]) <= BatchSize
  /\ \A w \in Writers : Len(work[w]) <= BatchSize

\* How many copies are where.
InPart(r) == Cardinality(PlacesIn(partCh, r))
InHeld(r) == Cardinality(PlacesIn(held, r))
InRecords(r) == Copies(recordCh, r)
InBatch(r) == Cardinality(PlacesIn(batch, r))
InBatches(r) == Cardinality(PlacesIn(batchCh, r))
InWork(r) == Cardinality(PlacesIn(work, r))

\* The channels and hands of one kind are families of sequences.
LEMMA FamiliesOK ==
  ASSUME TypeOK, SizesOK
  PROVE  /\ partCh \in Families(Partitions) /\ held \in Families(Partitions)
         /\ batch \in Families(Transformers) /\ work \in Families(Writers)
         /\ IsFiniteSet(Partitions) /\ IsFiniteSet(Transformers) /\ IsFiniteSet(Writers)
         /\ recordCh \in Stream /\ batchCh \in Seq(Stream)
<1>1. /\ partCh \in [Partitions -> Stream] /\ held \in [Partitions -> Stream]
      /\ batch \in [Transformers -> Stream] /\ work \in [Writers -> Stream]
      /\ recordCh \in Stream
  BY DEF TypeOK, ReadersOK, TransformersOK, WritersOK, ChannelsOK
<1>2. BatchSize \in Nat /\ 0 <= BatchSize /\ 1 <= BatchSize
  BY SizesAssumption
<1>3. \A p \in Partitions : Len(partCh[p]) <= BatchSize /\ (Len(held[p]) = 0 \/ Len(held[p]) = 1)
  BY DEF TypeOK, ReadersOK
<1>4. \A p \in Partitions : Len(held[p]) <= BatchSize
  <2> SUFFICES ASSUME NEW p \in Partitions PROVE Len(held[p]) <= BatchSize
    OBVIOUS
  <2>1. CASE Len(held[p]) = 0
    BY <2>1, <1>2
  <2>2. CASE Len(held[p]) = 1
    BY <2>2, <1>2
  <2> QED BY <1>3, <2>1, <2>2
<1>5. \A t \in Transformers : Len(batch[t]) <= BatchSize
  BY DEF TypeOK, TransformersOK
<1>6. \A w \in Writers : Len(work[w]) <= BatchSize
  BY DEF SizesOK
<1>7. batchCh \in Seq(Stream)
  <2>1. batchCh \in Seq(Batches) /\ Batches \subseteq Stream
    BY DEF TypeOK, ChannelsOK, Batches
  <2>2. batchCh \in [1..Len(batchCh) -> Batches] /\ Len(batchCh) \in Nat
    BY <2>1, LenProperties
  <2>3. \A i \in 1..Len(batchCh) : batchCh[i] \in Stream
    BY <2>1, <2>2
  <2> QED BY <2>1, <2>2, <2>3, IsASeq
<1> QED BY <1>1, <1>3, <1>4, <1>5, <1>6, <1>7, WorkersAssumption DEF Families

\* The same, of the state after a step.
LEMMA FamiliesNext ==
  (TypeOK /\ SizesOK =>
     /\ partCh \in Families(Partitions) /\ held \in Families(Partitions)
     /\ batch \in Families(Transformers) /\ work \in Families(Writers)
     /\ recordCh \in Stream /\ batchCh \in Seq(Stream))'
<1>1. TypeOK /\ SizesOK =>
         /\ partCh \in Families(Partitions) /\ held \in Families(Partitions)
         /\ batch \in Families(Transformers) /\ work \in Families(Writers)
         /\ recordCh \in Stream /\ batchCh \in Seq(Stream)
  BY FamiliesOK
<1> QED BY <1>1, PTL

\* All counts are numbers.
LEMMA CountsType ==
  ASSUME TypeOK, SizesOK, NEW r
  PROVE  /\ InPart(r) \in Nat /\ InHeld(r) \in Nat /\ InRecords(r) \in Nat
         /\ InBatch(r) \in Nat /\ InBatches(r) \in Nat /\ InWork(r) \in Nat
         /\ Places(r) = InPart(r) + InHeld(r) + InRecords(r) + InBatch(r) + InBatches(r) + InWork(r)
<1>1. ASSUME NEW D, IsFiniteSet(D), NEW f \in Families(D) PROVE Cardinality(PlacesIn(f, r)) \in Nat
  <2>1. CASE D = {}
    <3>1. PlacesIn(f, r) = {}
      BY <2>1 DEF PlacesIn, Families
    <3> QED BY <3>1, FS_EmptySet
  <2>2. CASE D # {}
    <3>1. PICK c \in D : TRUE
      BY <2>2
    <3> QED BY <1>1, PlacesSplit
  <2> QED BY <2>1, <2>2
<1>2. InPart(r) \in Nat /\ InHeld(r) \in Nat
  BY <1>1, FamiliesOK DEF InPart, InHeld
<1>3. InBatch(r) \in Nat /\ InWork(r) \in Nat
  BY <1>1, FamiliesOK DEF InBatch, InWork
<1>4. InRecords(r) \in Nat
  BY FamiliesOK, CopiesType DEF InRecords
<1>5. InBatches(r) \in Nat
  <2>1. CASE batchCh = <<>>
    <3>1. PlacesIn(batchCh, r) = {}
      BY <2>1 DEF PlacesIn
    <3> QED BY <3>1, FS_EmptySet DEF InBatches
  <2>2. CASE batchCh # <<>>
    BY <2>2, FamiliesOK, PlacesTail DEF SizesOK, InBatches
  <2> QED BY <2>1, <2>2
<1>6. Places(r) = InPart(r) + InHeld(r) + InRecords(r) + InBatch(r) + InBatches(r) + InWork(r)
  BY DEF Places, InPart, InHeld, InRecords, InBatch, InBatches, InWork, Copies, CopyAt
<1> QED BY <1>2, <1>3, <1>4, <1>5, <1>6

\* The same, of the state after a step.
LEMMA CountsTypeNext ==
  ASSUME NEW CONSTANT r
  PROVE  (TypeOK /\ SizesOK =>
            /\ InPart(r) \in Nat /\ InHeld(r) \in Nat /\ InRecords(r) \in Nat
            /\ InBatch(r) \in Nat /\ InBatches(r) \in Nat /\ InWork(r) \in Nat
            /\ Places(r) = InPart(r) + InHeld(r) + InRecords(r) + InBatch(r) + InBatches(r) + InWork(r))'
<1>1. TypeOK /\ SizesOK =>
        /\ InPart(r) \in Nat /\ InHeld(r) \in Nat /\ InRecords(r) \in Nat
        /\ InBatch(r) \in Nat /\ InBatches(r) \in Nat /\ InWork(r) \in Nat
        /\ Places(r) = InPart(r) + InHeld(r) + InRecords(r) + InBatch(r) + InBatches(r) + InWork(r)
  BY CountsType
<1> QED BY <1>1, PTL
\* A transformer hands on at most BatchSize records at a time, and a writer takes them
\* as they are.
LEMMA SizesStep ==
  ASSUME TypeOK, SizesOK, [Next]_vars
  PROVE  SizesOK'
<1>1. CASE UNCHANGED <<batchCh, work>>
  BY <1>1 DEF SizesOK
<1>2. CASE CallerCancels \/ CloseRecordCh \/ CloseBatchCh \/ UNCHANGED vars
  BY <1>1, <1>2 DEF CallerCancels, CloseRecordCh, CloseBatchCh, vars, chanVars, wrVars
<1>3. ASSUME NEW p \in Partitions, SourceStep(p) \/ ReaderStep(p) PROVE UNCHANGED <<batchCh, work>>
  BY <1>3 DEF SourceStep, SourceSends, SourceReturns, ReaderStep, ReaderTakes, ReaderSends,
              ReaderCancelled, ReaderDrains, ReaderFinishes, ReaderReports, chanVars, wrVars
<1>4. ASSUME NEW t \in Transformers, TransformerStep(t) PROVE SizesOK'
  <2>1. CASE TransformerFlushes(t)
    <3>1. /\ batchCh \in Seq(Batches) /\ Len(batch[t]) <= BatchSize
          /\ batch[t] \in Batches
      BY <2>1 DEF TransformerFlushes, TypeOK, ChannelsOK, TransformersOK, Batches
    <3>2. batchCh' = Append(batchCh, batch[t]) /\ UNCHANGED work
      BY <2>1 DEF TransformerFlushes, wrVars
    <3>3. /\ Len(batchCh') = Len(batchCh) + 1 /\ Len(batchCh) \in Nat
          /\ \A i \in 1..Len(batchCh) : batchCh'[i] = batchCh[i]
          /\ batchCh'[Len(batchCh) + 1] = batch[t]
      BY <3>1, <3>2, AppendProperties, LenProperties
    <3> QED BY <3>1, <3>2, <3>3 DEF SizesOK
  <2>2. CASE UNCHANGED <<batchCh, work>>
    BY <1>1, <2>2
  <2> QED BY <1>4, <2>1, <2>2 DEF TransformerStep, TransformerTakes, TickerFires, TransformerFinishes,
                                  TransformerCancelled, chanVars, wrVars
<1>5. ASSUME NEW w \in Writers, WriterStep(w) PROVE SizesOK'
  <2>0. work \in [Writers -> Stream] /\ batchCh \in Seq(Batches) /\ 0 <= BatchSize
    BY SizesAssumption DEF TypeOK, WritersOK, ChannelsOK
  <2>1. CASE WriterTakes(w)
    <3>1. batchCh # <<>> /\ batchCh' = Tail(batchCh) /\ work' = [work EXCEPT ![w] = Head(batchCh)]
      BY <2>1 DEF WriterTakes
    <3>2. /\ Len(batchCh) \in Nat \ {0} /\ Len(batchCh') = Len(batchCh) - 1 /\ Head(batchCh) = batchCh[1]
          /\ \A i \in 1..(Len(batchCh) - 1) : batchCh'[i] = batchCh[i + 1]
      BY <2>0, <3>1, HeadTailProperties, LenProperties, EmptySeq
    <3>3. \A i \in 1..Len(batchCh') : i + 1 \in 1..Len(batchCh) /\ batchCh'[i] = batchCh[i + 1]
      BY <3>2
    <3>4. 1 \in 1..Len(batchCh)
      BY <3>2
    <3> QED BY <2>0, <3>1, <3>2, <3>3, <3>4 DEF SizesOK
  <2>2. CASE WriterRetries(w)
    <3>1. work' = [work EXCEPT ![w] = Tail(work[w])] /\ UNCHANGED batchCh /\ work[w] # <<>> /\ work[w] \in Stream
      BY <2>0, <2>2 DEF WriterRetries, chanVars, TypeOK, WritersOK
    <3>2. Len(Tail(work[w])) = Len(work[w]) - 1 /\ Len(work[w]) \in Nat
      BY <3>1, HeadTailProperties, LenProperties DEF Stream
    <3>3. BatchSize \in Nat
      BY SizesAssumption
    <3> QED BY <2>0, <3>1, <3>2, <3>3 DEF SizesOK
  <2>3. CASE UNCHANGED batchCh /\ (work' = [work EXCEPT ![w] = <<>>] \/ UNCHANGED work)
    BY <2>0, <2>3 DEF SizesOK
  <2>4. CASE WriterPuts(w)
    <3>1. work' = [work EXCEPT ![w] = <<>>] \/ work' = [work EXCEPT ![w] = @]
      BY <2>4 DEF WriterPuts
    <3> QED BY <2>0, <2>3, <2>4, <3>1 DEF WriterPuts, chanVars
  <2> QED BY <1>5, <2>1, <2>2, <2>3, <2>4 DEF WriterStep, WriterFinishes, WriterCancelled, WriterWrites,
                                              WriterFails, WriterGets, chanVars
<1> QED BY <1>1, <1>2, <1>3, <1>4, <1>5 DEF Next

\* Nothing but a send of the source takes a record from those still to be read.
LEMMA UnreadStays ==
  ASSUME [Next]_vars
  PROVE  UNCHANGED unread \/ \E p \in Partitions : SourceSends(p)
BY DEF Next, CallerCancels, CloseRecordCh, CloseBatchCh, SourceStep,
       SourceReturns, ReaderStep, ReaderTakes, ReaderSends,
       ReaderCancelled, ReaderDrains, ReaderFinishes, ReaderReports,
       TransformerStep, TransformerTakes, TickerFires, TransformerFinishes,
       TransformerFlushes, TransformerCancelled, WriterStep, WriterTakes, WriterFinishes,
       WriterCancelled, WriterWrites, WriterFails, WriterRetries, WriterGets, WriterPuts,
       readVars, vars
-----------------------------------------------------------------------------
\* Where a record is counted, a step of a source adds the record it sends.
LEMMA SourceSendsCounts ==
  ASSUME TypeOK, TypeOK', SizesOK, SizesOK', NEW p \in Partitions, SourceSends(p)
  PROVE  \E o \in unread[p] :
           /\ unread' = [unread EXCEPT ![p] = @ \ {o}]
           /\ <<p, o>> \in Records
           /\ \A r \in Records : Places(r)' = Places(r) + One(<<p, o>>, r)
<1>1. PICK o \in unread[p] : /\ unread' = [unread EXCEPT ![p] = @ \ {o}]
                             /\ partCh' = [partCh EXCEPT ![p] = Append(partCh[p], <<p, o>>)]
  BY DEF SourceSends, Yields
<1>2. <<p, o>> \in Records
  BY DEF TypeOK, ReadersOK, Records
<1>3. UNCHANGED <<held, recordCh, batch, batchCh, work>>
  BY DEF SourceSends, chanVars, tfVars, wrVars
<1>4. partCh \in Families(Partitions) /\ partCh' \in Families(Partitions) /\ IsFiniteSet(Partitions)
  BY FamiliesOK, FamiliesNext
<1>5. ASSUME NEW r \in Records PROVE Places(r)' = Places(r) + One(<<p, o>>, r)
  <2>1. InPart(r)' + Copies(partCh[p], r) = InPart(r) + Copies(Append(partCh[p], <<p, o>>), r)
    <3>1. Cardinality(PlacesIn(partCh', r)) + Copies(partCh[p], r)
            = Cardinality(PlacesIn(partCh, r)) + Copies(Append(partCh[p], <<p, o>>), r)
      <4>1. Moved(Partitions, partCh, partCh', p, Append(partCh[p], <<p, o>>))
        BY <1>1, <1>4 DEF Moved
      <4> QED BY <4>1, PlacesMove
    <3> QED BY <3>1 DEF InPart
  <2>2. partCh[p] \in Stream
    BY DEF TypeOK, ReadersOK
  <2>3. Copies(Append(partCh[p], <<p, o>>), r) = Copies(partCh[p], r) + One(<<p, o>>, r)
    BY <1>2, <2>2, CopiesAppend
  <2>4. Copies(partCh[p], r) \in Nat /\ One(<<p, o>>, r) \in Nat
    BY <2>2, CopiesType DEF One
  <2>5. /\ InHeld(r)' = InHeld(r) /\ InRecords(r)' = InRecords(r) /\ InBatch(r)' = InBatch(r)
        /\ InBatches(r)' = InBatches(r) /\ InWork(r)' = InWork(r)
    BY <1>3 DEF InHeld, InRecords, InBatch, InBatches, InWork
  <2>6. /\ InPart(r) \in Nat /\ InHeld(r) \in Nat /\ InRecords(r) \in Nat
        /\ InBatch(r) \in Nat /\ InBatches(r) \in Nat /\ InWork(r) \in Nat
        /\ Places(r) = InPart(r) + InHeld(r) + InRecords(r) + InBatch(r) + InBatches(r) + InWork(r)
    BY CountsType
  <2>7. /\ InPart(r)' \in Nat
        /\ Places(r)' = InPart(r)' + InHeld(r)' + InRecords(r)' + InBatch(r)' + InBatches(r)' + InWork(r)'
    BY CountsTypeNext
  <2> QED BY <2>1, <2>3, <2>4, <2>5, <2>6, <2>7
<1> QED BY <1>1, <1>2, <1>5

\* A step of a reader only moves records, or drops them.
LEMMA ReaderCounts ==
  ASSUME TypeOK, TypeOK', SizesOK, SizesOK', NEW p \in Partitions, ReaderStep(p), NEW r \in Records
  PROVE  Places(r)' <= Places(r)
<1>1. /\ InPart(r) \in Nat /\ InHeld(r) \in Nat /\ InRecords(r) \in Nat
      /\ InBatch(r) \in Nat /\ InBatches(r) \in Nat /\ InWork(r) \in Nat
      /\ Places(r) = InPart(r) + InHeld(r) + InRecords(r) + InBatch(r) + InBatches(r) + InWork(r)
  BY CountsType
<1>2. /\ InPart(r)' \in Nat /\ InHeld(r)' \in Nat /\ InRecords(r)' \in Nat
      /\ Places(r)' = InPart(r)' + InHeld(r)' + InRecords(r)' + InBatch(r)' + InBatches(r)' + InWork(r)'
  BY CountsTypeNext
<1>3. InBatch(r)' = InBatch(r) /\ InBatches(r)' = InBatches(r) /\ InWork(r)' = InWork(r)
  BY DEF ReaderStep, ReaderTakes, ReaderSends, ReaderCancelled, ReaderDrains, ReaderFinishes,
         ReaderReports, chanVars, tfVars, wrVars, InBatch, InBatches, InWork
<1> SUFFICES InPart(r)' + InHeld(r)' + InRecords(r)' <= InPart(r) + InHeld(r) + InRecords(r)
  BY <1>1, <1>2, <1>3
<1>4. /\ partCh \in Families(Partitions) /\ partCh' \in Families(Partitions)
      /\ held \in Families(Partitions) /\ held' \in Families(Partitions)
      /\ IsFiniteSet(Partitions) /\ recordCh \in Stream
      /\ partCh[p] \in Stream /\ held[p] \in Stream
  BY FamiliesOK, FamiliesNext DEF TypeOK, ReadersOK
<1>5. Copies(partCh[p], r) \in Nat /\ Copies(held[p], r) \in Nat /\ Copies(<<>>, r) = 0
  <2>1. <<>> \in Stream
    BY EmptySeq DEF Stream
  <2> QED BY <1>4, <2>1, CopiesType
<1>6. ASSUME partCh[p] # <<>>, partCh' = [partCh EXCEPT ![p] = Tail(partCh[p])]
      PROVE  InPart(r)' + One(Head(partCh[p]), r) = InPart(r)
  <2>1. Cardinality(PlacesIn(partCh', r)) + Copies(partCh[p], r)
            = Cardinality(PlacesIn(partCh, r)) + Copies(Tail(partCh[p]), r)
    <3>1. Moved(Partitions, partCh, partCh', p, Tail(partCh[p]))
      BY <1>4, <1>6 DEF Moved
    <3> QED BY <3>1, PlacesMove
  <2>2. Copies(partCh[p], r) = Copies(Tail(partCh[p]), r) + One(Head(partCh[p]), r)
    BY <1>4, <1>6, CopiesTail
  <2>3. Copies(Tail(partCh[p]), r) \in Nat /\ One(Head(partCh[p]), r) \in Nat
    <3>1. Tail(partCh[p]) \in Stream
      BY <1>4, <1>6, HeadTailProperties DEF Stream
    <3> QED BY <3>1, CopiesType DEF One
  <2>4. InPart(r)' + Copies(partCh[p], r) = InPart(r) + Copies(Tail(partCh[p]), r)
    BY <2>1 DEF InPart
  <2>5. InPart(r)' \in Nat /\ InPart(r) \in Nat /\ Copies(partCh[p], r) \in Nat
    BY <1>1, <1>2, <1>5
  <2> QED BY <2>2, <2>3, <2>4, <2>5
<1>7. ASSUME NEW v, held' = [held EXCEPT ![p] = v]
      PROVE  InHeld(r)' + Copies(held[p], r) = InHeld(r) + Copies(v, r)
  <2>1. Cardinality(PlacesIn(held', r)) + Copies(held[p], r)
            = Cardinality(PlacesIn(held, r)) + Copies(v, r)
    <3>1. Moved(Partitions, held, held', p, v)
      BY <1>4, <1>7 DEF Moved
    <3> QED BY <3>1, PlacesMove
  <2> QED BY <2>1 DEF InHeld
<1>8. CASE ReaderTakes(p)
  <2>1. /\ partCh[p] # <<>> /\ partCh' = [partCh EXCEPT ![p] = Tail(partCh[p])]
        /\ held' = [held EXCEPT ![p] = <<Head(partCh[p])>>] /\ UNCHANGED recordCh /\ held[p] = <<>>
    BY <1>8, <1>4, EmptySeq DEF ReaderTakes, chanVars, TypeOK, ReadersOK, Stream
  <2>2. Head(partCh[p]) \in Records
    BY <1>4, <2>1, HeadTailProperties DEF Stream
  <2>3. Copies(<<Head(partCh[p])>>, r) = One(Head(partCh[p]), r) /\ One(Head(partCh[p]), r) \in Nat
    <3>1. Append(<<>>, Head(partCh[p])) = <<Head(partCh[p])>> /\ <<>> \in Stream
      BY EmptySeq DEF Stream
    <3>2. Copies(Append(<<>>, Head(partCh[p])), r) = Copies(<<>>, r) + One(Head(partCh[p]), r)
      BY <2>2, <3>1, CopiesAppend
    <3>3. One(Head(partCh[p]), r) \in Nat
      BY DEF One
    <3> QED BY <1>5, <3>1, <3>2, <3>3
  <2>4. InPart(r)' + One(Head(partCh[p]), r) = InPart(r)
    BY <1>6, <2>1
  <2>5. InHeld(r)' + Copies(held[p], r) = InHeld(r) + Copies(<<Head(partCh[p])>>, r)
    BY <1>7, <2>1
  <2>6. InRecords(r)' = InRecords(r) /\ Copies(held[p], r) = 0
    BY <1>5, <2>1 DEF InRecords
  <2> QED BY <1>1, <1>2, <2>3, <2>4, <2>5, <2>6
<1>9. CASE ReaderSends(p)
  <2>1. /\ held' = [held EXCEPT ![p] = <<>>] /\ UNCHANGED partCh /\ Len(held[p]) = 1
        /\ recordCh' = recordCh \o held[p]
    BY <1>9 DEF ReaderSends, TypeOK, ReadersOK
  <2>2. /\ held[p] = <<Head(held[p])>> /\ Head(held[p]) \in Records
        /\ recordCh' = Append(recordCh, Head(held[p]))
    <3>0. held[p] # <<>>
      <4>1. ASSUME held[p] = <<>> PROVE Len(held[p]) = 0
        BY <4>1
      <4> QED BY <2>1, <4>1
    <3>1. Head(held[p]) \in Records /\ Head(held[p]) = held[p][1]
      BY <1>4, <2>1, <3>0, HeadTailProperties DEF Stream
    <3>2. held[p] = <<held[p][1]>>
      BY <1>4, <2>1 DEF Stream
    <3>3. Append(recordCh, Head(held[p])) = recordCh \o <<Head(held[p])>>
      BY <1>4, <3>1, AppendIsConcat DEF Stream
    <3> QED BY <2>1, <3>0, <3>1, <3>2, <3>3
  <2>3. Copies(held[p], r) = One(Head(held[p]), r) /\ One(Head(held[p]), r) \in Nat
    <3>1. Append(<<>>, Head(held[p])) = <<Head(held[p])>> /\ <<>> \in Stream
      BY EmptySeq DEF Stream
    <3>2. Copies(Append(<<>>, Head(held[p])), r) = Copies(<<>>, r) + One(Head(held[p]), r)
      BY <2>2, <3>1, CopiesAppend
    <3>3. One(Head(held[p]), r) \in Nat
      BY DEF One
    <3>4. Copies(held[p], r) = Copies(<<Head(held[p])>>, r)
      BY <2>2
    <3> QED BY <1>5, <3>1, <3>2, <3>3, <3>4
  <2>4. InRecords(r)' = InRecords(r) + One(Head(held[p]), r)
    <3>1. Copies(recordCh', r) = Copies(recordCh, r) + One(Head(held[p]), r)
      BY <1>4, <2>2, CopiesAppend
    <3> QED BY <3>1 DEF InRecords
  <2>5. InHeld(r)' + Copies(held[p], r) = InHeld(r) + Copies(<<>>, r)
    BY <1>7, <2>1
  <2>6. InPart(r)' = InPart(r)
    BY <2>1 DEF InPart
  <2> QED BY <1>1, <1>2, <1>5, <2>3, <2>4, <2>5, <2>6
<1>10. CASE ReaderCancelled(p)
  <2>1. held' = [held EXCEPT ![p] = <<>>] /\ UNCHANGED <<partCh, recordCh>>
    BY <1>10 DEF ReaderCancelled, chanVars
  <2>2. InHeld(r)' + Copies(held[p], r) = InHeld(r) + Copies(<<>>, r)
    BY <1>7, <2>1
  <2>3. InPart(r)' = InPart(r) /\ InRecords(r)' = InRecords(r)
    BY <2>1 DEF InPart, InRecords
  <2> QED BY <1>1, <1>2, <1>5, <2>2, <2>3
<1>11. CASE ReaderDrains(p) \/ ReaderFinishes(p) \/ ReaderReports(p)
  <2>1. /\ UNCHANGED <<held, recordCh>>
        /\ \/ UNCHANGED partCh
           \/ partCh[p] # <<>> /\ partCh' = [partCh EXCEPT ![p] = Tail(partCh[p])]
    BY <1>11 DEF ReaderDrains, ReaderFinishes, ReaderReports, chanVars
  <2>2. InHeld(r)' = InHeld(r) /\ InRecords(r)' = InRecords(r)
    BY <2>1 DEF InHeld, InRecords
  <2>3. InPart(r)' <= InPart(r)
    <3>1. CASE UNCHANGED partCh
      BY <1>1, <3>1 DEF InPart
    <3>2. CASE partCh[p] # <<>> /\ partCh' = [partCh EXCEPT ![p] = Tail(partCh[p])]
      <4>1. InPart(r)' + One(Head(partCh[p]), r) = InPart(r)
        BY <3>2, <1>6
      <4>2. One(Head(partCh[p]), r) \in {0, 1}
        BY DEF One
      <4> QED BY <1>1, <1>2, <4>1, <4>2
    <3> QED BY <2>1, <3>1, <3>2
  <2> QED BY <1>1, <1>2, <2>2, <2>3
<1> QED BY <1>8, <1>9, <1>10, <1>11 DEF ReaderStep
\* A step of a transformer only moves records, or drops them.
LEMMA TransformerCounts ==
  ASSUME TypeOK, TypeOK', SizesOK, SizesOK', NEW t \in Transformers, TransformerStep(t), NEW r \in Records
  PROVE  Places(r)' <= Places(r)
<1>1. /\ InPart(r) \in Nat /\ InHeld(r) \in Nat /\ InRecords(r) \in Nat
      /\ InBatch(r) \in Nat /\ InBatches(r) \in Nat /\ InWork(r) \in Nat
      /\ Places(r) = InPart(r) + InHeld(r) + InRecords(r) + InBatch(r) + InBatches(r) + InWork(r)
  BY CountsType
<1>2. /\ InRecords(r)' \in Nat /\ InBatch(r)' \in Nat /\ InBatches(r)' \in Nat
      /\ Places(r)' = InPart(r)' + InHeld(r)' + InRecords(r)' + InBatch(r)' + InBatches(r)' + InWork(r)'
  BY CountsTypeNext
<1>3. InPart(r)' = InPart(r) /\ InHeld(r)' = InHeld(r) /\ InWork(r)' = InWork(r)
  BY DEF TransformerStep, TransformerTakes, TickerFires, TransformerFinishes, TransformerFlushes,
         TransformerCancelled, chanVars, readVars, wrVars, InPart, InHeld, InWork
<1> SUFFICES InRecords(r)' + InBatch(r)' + InBatches(r)' <= InRecords(r) + InBatch(r) + InBatches(r)
  BY <1>1, <1>2, <1>3
<1>4. /\ batch \in Families(Transformers) /\ batch' \in Families(Transformers)
      /\ IsFiniteSet(Transformers) /\ recordCh \in Stream /\ batchCh \in Seq(Stream)
      /\ batch[t] \in Stream /\ Len(batch[t]) <= BatchSize
  BY FamiliesOK, FamiliesNext DEF TypeOK, TransformersOK
<1>5. Copies(batch[t], r) \in Nat /\ Copies(<<>>, r) = 0
  <2>1. <<>> \in Stream
    BY EmptySeq DEF Stream
  <2> QED BY <1>4, <2>1, CopiesType
<1>6. ASSUME NEW v, batch' = [batch EXCEPT ![t] = v]
      PROVE  InBatch(r)' + Copies(batch[t], r) = InBatch(r) + Copies(v, r)
  <2>1. Cardinality(PlacesIn(batch', r)) + Copies(batch[t], r)
            = Cardinality(PlacesIn(batch, r)) + Copies(v, r)
    <3>1. Moved(Transformers, batch, batch', t, v)
      BY <1>4, <1>6 DEF Moved
    <3> QED BY <3>1, PlacesMove
  <2> QED BY <2>1 DEF InBatch
<1>7. CASE TransformerTakes(t)
  <2> DEFINE e == Head(recordCh)
  <2>1. /\ recordCh # <<>> /\ recordCh' = Tail(recordCh) /\ UNCHANGED batchCh
        /\ batch' = [batch EXCEPT ![t] = Append(batch[t], e)]
    BY <1>7 DEF TransformerTakes
  <2>2. e \in Records
    BY <1>4, <2>1, HeadTailProperties DEF Stream
  <2>3. Copies(recordCh, r) = Copies(Tail(recordCh), r) + One(e, r)
    BY <1>4, <2>1, CopiesTail
  <2> HIDE DEF e
  <2>4. Copies(Append(batch[t], e), r) = Copies(batch[t], r) + One(e, r)
    BY <1>4, <2>2, CopiesAppend
  <2>5. InBatch(r)' + Copies(batch[t], r) = InBatch(r) + Copies(Append(batch[t], e), r)
    BY <1>6, <2>1
  <2>6. InRecords(r) = InRecords(r)' + One(e, r) /\ InBatches(r)' = InBatches(r)
    BY <2>1, <2>3 DEF InRecords, InBatches
  <2>7. One(e, r) \in Nat
    BY DEF One
  <2>8. InBatch(r)' = InBatch(r) + One(e, r)
    <3>1. InBatch(r) \in Nat /\ InBatch(r)' \in Nat
      BY <1>1, <1>2
    <3> QED BY <1>5, <2>4, <2>5, <2>7, <3>1
  <2> QED BY <1>1, <1>2, <2>6, <2>7, <2>8
<1>8. CASE TransformerFlushes(t)
  <2>1. /\ batchCh' = Append(batchCh, batch[t]) /\ UNCHANGED recordCh
        /\ batch' = [batch EXCEPT ![t] = <<>>]
    BY <1>8 DEF TransformerFlushes
  <2>2. InBatches(r)' = InBatches(r) + Copies(batch[t], r)
    <3>1. \A i \in 1..Len(batchCh) : Len(batchCh[i]) <= BatchSize
      BY DEF SizesOK
    <3>2. Cardinality(PlacesIn(Append(batchCh, batch[t]), r))
            = Cardinality(PlacesIn(batchCh, r)) + Copies(batch[t], r)
      BY <1>4, <3>1, PlacesAppend
    <3> QED BY <2>1, <3>2 DEF InBatches
  <2>3. InBatch(r)' + Copies(batch[t], r) = InBatch(r) + Copies(<<>>, r)
    BY <1>6, <2>1
  <2>4. InRecords(r)' = InRecords(r)
    BY <2>1 DEF InRecords
  <2> QED BY <1>1, <1>2, <1>5, <2>2, <2>3, <2>4
<1>9. CASE TransformerCancelled(t)
  <2>1. batch' = [batch EXCEPT ![t] = <<>>] /\ UNCHANGED <<recordCh, batchCh>>
    BY <1>9 DEF TransformerCancelled, chanVars
  <2>2. InBatch(r)' + Copies(batch[t], r) = InBatch(r) + Copies(<<>>, r)
    BY <1>6, <2>1
  <2>3. InRecords(r)' = InRecords(r) /\ InBatches(r)' = InBatches(r)
    BY <2>1 DEF InRecords, InBatches
  <2> QED BY <1>1, <1>2, <1>5, <2>2, <2>3
<1>10. CASE TickerFires(t) \/ TransformerFinishes(t)
  <2>1. InRecords(r)' = InRecords(r) /\ InBatches(r)' = InBatches(r) /\ InBatch(r)' = InBatch(r)
    BY <1>10 DEF TickerFires, TransformerFinishes, chanVars, InRecords, InBatches, InBatch
  <2> QED BY <1>1, <2>1
<1> QED BY <1>7, <1>8, <1>9, <1>10 DEF TransformerStep

\* A step of a writer only moves records, or is done with them.
LEMMA WriterCounts ==
  ASSUME TypeOK, TypeOK', SizesOK, SizesOK', NEW w \in Writers, WriterStep(w), NEW r \in Records
  PROVE  Places(r)' <= Places(r)
<1>1. /\ InPart(r) \in Nat /\ InHeld(r) \in Nat /\ InRecords(r) \in Nat
      /\ InBatch(r) \in Nat /\ InBatches(r) \in Nat /\ InWork(r) \in Nat
      /\ Places(r) = InPart(r) + InHeld(r) + InRecords(r) + InBatch(r) + InBatches(r) + InWork(r)
  BY CountsType
<1>2. /\ InBatches(r)' \in Nat /\ InWork(r)' \in Nat
      /\ Places(r)' = InPart(r)' + InHeld(r)' + InRecords(r)' + InBatch(r)' + InBatches(r)' + InWork(r)'
  BY CountsTypeNext
<1>3. /\ InPart(r)' = InPart(r) /\ InHeld(r)' = InHeld(r) /\ InRecords(r)' = InRecords(r)
      /\ InBatch(r)' = InBatch(r)
  BY DEF WriterStep, WriterTakes, WriterFinishes, WriterCancelled, WriterWrites, WriterFails,
         WriterRetries, WriterGets, WriterPuts, chanVars, readVars, tfVars,
         InPart, InHeld, InRecords, InBatch
<1> SUFFICES InBatches(r)' + InWork(r)' <= InBatches(r) + InWork(r)
  BY <1>1, <1>2, <1>3
<1>4. /\ work \in Families(Writers) /\ work' \in Families(Writers) /\ IsFiniteSet(Writers)
      /\ batchCh \in Seq(Stream) /\ work[w] \in Stream
  BY FamiliesOK, FamiliesNext DEF TypeOK, WritersOK
<1>5. Copies(work[w], r) \in Nat /\ Copies(<<>>, r) = 0
  <2>1. <<>> \in Stream
    BY EmptySeq DEF Stream
  <2> QED BY <1>4, <2>1, CopiesType
<1>6. ASSUME NEW v, work' = [work EXCEPT ![w] = v]
      PROVE  InWork(r)' + Copies(work[w], r) = InWork(r) + Copies(v, r)
  <2>1. Cardinality(PlacesIn(work', r)) + Copies(work[w], r)
            = Cardinality(PlacesIn(work, r)) + Copies(v, r)
    <3>1. Moved(Writers, work, work', w, v)
      BY <1>4, <1>6 DEF Moved
    <3> QED BY <3>1, PlacesMove
  <2> QED BY <2>1 DEF InWork
<1>7. CASE WriterTakes(w)
  <2> DEFINE b == Head(batchCh)
  <2>1. /\ batchCh # <<>> /\ batchCh' = Tail(batchCh)
        /\ work' = [work EXCEPT ![w] = b] /\ work[w] = <<>>
    BY <1>7 DEF WriterTakes, TypeOK, WritersOK
  <2>2. \A i \in 1..Len(batchCh) : Len(batchCh[i]) <= BatchSize
    BY DEF SizesOK
  <2>3. Cardinality(PlacesIn(batchCh, r)) = Cardinality(PlacesIn(Tail(batchCh), r)) + Copies(b, r)
    BY <1>4, <2>1, <2>2, PlacesTail
  <2>4. b \in Stream
    BY <1>4, <2>1, HeadTailProperties
  <2> HIDE DEF b
  <2>5. InBatches(r) = InBatches(r)' + Copies(b, r)
    BY <2>1, <2>3 DEF InBatches
  <2>6. InWork(r)' + Copies(work[w], r) = InWork(r) + Copies(b, r)
    BY <1>6, <2>1
  <2>7. Copies(b, r) \in Nat /\ Copies(work[w], r) = 0
    BY <1>5, <2>1, <2>4, CopiesType
  <2> QED BY <1>1, <1>2, <2>5, <2>6, <2>7
<1>8. CASE WriterRetries(w)
  <2> DEFINE e == Head(work[w])
             rest == Tail(work[w])
  <2>1. /\ UNCHANGED batchCh /\ work' = [work EXCEPT ![w] = rest] /\ work[w] # <<>>
    BY <1>8 DEF WriterRetries, chanVars, TypeOK, WritersOK
  <2>2. Copies(work[w], r) = Copies(rest, r) + One(e, r)
    BY <1>4, <2>1, CopiesTail
  <2>3. rest \in Stream
    BY <1>4, <2>1, HeadTailProperties DEF Stream
  <2> HIDE DEF e, rest
  <2>4. InWork(r)' + Copies(work[w], r) = InWork(r) + Copies(rest, r)
    BY <1>6, <2>1
  <2>5. Copies(rest, r) \in Nat /\ One(e, r) \in Nat
    BY <2>3, CopiesType DEF One
  <2>6. InBatches(r)' = InBatches(r)
    BY <2>1 DEF InBatches
  <2> QED BY <1>1, <1>2, <2>2, <2>4, <2>5, <2>6
<1>9. CASE UNCHANGED batchCh /\ (work' = [work EXCEPT ![w] = <<>>] \/ UNCHANGED work)
  <2>1. InBatches(r)' = InBatches(r)
    BY <1>9 DEF InBatches
  <2>2. InWork(r)' <= InWork(r)
    <3>1. CASE UNCHANGED work
      BY <1>1, <3>1 DEF InWork
    <3>2. CASE work' = [work EXCEPT ![w] = <<>>]
      <4>1. InWork(r)' + Copies(work[w], r) = InWork(r) + Copies(<<>>, r)
        BY <1>6, <3>2
      <4> QED BY <1>1, <1>2, <1>5, <4>1
    <3> QED BY <1>9, <3>1, <3>2
  <2> QED BY <1>1, <1>2, <2>1, <2>2
<1>10. CASE WriterPuts(w)
  <2>1. work' = [work EXCEPT ![w] = <<>>] \/ work' = [work EXCEPT ![w] = work[w]]
    BY <1>10 DEF WriterPuts
  <2>2. work' = [work EXCEPT ![w] = <<>>] \/ UNCHANGED work
    BY <1>4, <2>1 DEF Families
  <2> QED BY <1>9, <1>10, <2>2 DEF WriterPuts, chanVars
<1>11. CASE WriterFinishes(w) \/ WriterCancelled(w) \/ WriterWrites(w) \/ WriterFails(w) \/ WriterGets(w)
  BY <1>9, <1>11 DEF WriterFinishes, WriterCancelled, WriterWrites, WriterFails, WriterGets, chanVars
<1> QED BY <1>7, <1>8, <1>10, <1>11 DEF WriterStep
\* At most one copy of a record at a time, and none while its source still has it.
LEMMA OnceStep ==
  ASSUME TypeOK, TypeOK', SizesOK, SizesOK', NoRecordTwice, [Next]_vars
  PROVE  NoRecordTwice'
<1>1. ASSUME UNCHANGED unread, \A r \in Records : Places(r)' <= Places(r)
      PROVE  NoRecordTwice'
  <2> SUFFICES ASSUME NEW r \in Records PROVE Places(r)' <= IF r \in Unread' THEN 0 ELSE 1
    BY DEF NoRecordTwice
  <2>1. Unread' = Unread
    BY <1>1 DEF Unread
  <2>2. Places(r) <= IF r \in Unread THEN 0 ELSE 1
    BY DEF NoRecordTwice
  <2>3. Places(r)' \in Nat /\ Places(r) \in Nat /\ Places(r)' <= Places(r)
    <3>1. Places(r) \in Nat
      BY CountsType
    <3>2. Places(r)' \in Nat
      BY CountsTypeNext
    <3> QED BY <1>1, <3>1, <3>2
  <2> QED BY <2>1, <2>2, <2>3
<1>3. CASE CallerCancels \/ CloseRecordCh \/ CloseBatchCh \/ UNCHANGED vars
  <2>1. ASSUME NEW r \in Records PROVE Places(r)' = Places(r) /\ (r \in Unread' <=> r \in Unread)
    BY <1>3 DEF CallerCancels, CloseRecordCh, CloseBatchCh, vars, Places, Unread, readVars, chanVars, tfVars, wrVars
  <2> QED BY <2>1, Zenon DEF NoRecordTwice
<1>4. ASSUME NEW p \in Partitions, SourceSends(p) PROVE NoRecordTwice'
  <2>1. PICK o \in unread[p] :
           /\ unread' = [unread EXCEPT ![p] = @ \ {o}]
           /\ <<p, o>> \in Records
           /\ \A r \in Records : Places(r)' = Places(r) + One(<<p, o>>, r)
    BY <1>4, SourceSendsCounts
  <2> SUFFICES ASSUME NEW r \in Records PROVE Places(r)' <= IF r \in Unread' THEN 0 ELSE 1
    BY DEF NoRecordTwice
  <2>2. Places(r) <= (IF r \in Unread THEN 0 ELSE 1) /\ Places(r) \in Nat
    BY CountsType DEF NoRecordTwice
  <2>3. unread \in [Partitions -> SUBSET Offsets]
    BY DEF TypeOK, ReadersOK
  <2>4. CASE r = <<p, o>>
    <3>1. r \in Unread
      BY <2>1, <2>4 DEF Unread
    <3>2. r \notin Unread'
      BY <2>1, <2>3, <2>4 DEF Unread
    <3>3. Places(r)' = Places(r) + 1
      BY <2>1, <2>4 DEF One
    <3> QED BY <2>2, <3>1, <3>2, <3>3
  <2>5. CASE r # <<p, o>>
    <3>1. r \in Unread' <=> r \in Unread
      <4>1. r = <<r[1], r[2]>> /\ r[1] \in Partitions
        BY DEF Records
      <4>2. r[2] \in unread'[r[1]] <=> r[2] \in unread[r[1]]
        BY <2>1, <2>3, <2>5, <4>1
      <4> QED BY <4>2 DEF Unread
    <3>2. Places(r)' = Places(r)
      BY <2>1, <2>2, <2>5 DEF One
    <3> QED BY <2>2, <3>1, <3>2
  <2> QED BY <2>4, <2>5
<1>5. ASSUME NEW p \in Partitions, SourceReturns(p) PROVE NoRecordTwice'
  <2>1. ASSUME NEW r \in Records PROVE Places(r)' = Places(r) /\ (r \in Unread' <=> r \in Unread)
    BY <1>5 DEF SourceReturns, Places, Unread, chanVars, tfVars, wrVars
  <2> QED BY <2>1, Zenon DEF NoRecordTwice
<1>6. ASSUME NEW p \in Partitions, ReaderStep(p) PROVE NoRecordTwice'
  <2>1. UNCHANGED unread
    BY <1>6 DEF ReaderStep, ReaderTakes, ReaderSends, ReaderCancelled, ReaderDrains, ReaderFinishes, ReaderReports
  <2> QED BY <1>1, <1>6, <2>1, ReaderCounts
<1>7. ASSUME NEW t \in Transformers, TransformerStep(t) PROVE NoRecordTwice'
  <2>1. UNCHANGED unread
    BY <1>7 DEF TransformerStep, TransformerTakes, TickerFires, TransformerFinishes, TransformerFlushes,
                TransformerCancelled, readVars
  <2> QED BY <1>1, <1>7, <2>1, TransformerCounts
<1>8. ASSUME NEW w \in Writers, WriterStep(w) PROVE NoRecordTwice'
  <2>1. UNCHANGED unread
    BY <1>8 DEF WriterStep, WriterTakes, WriterFinishes, WriterCancelled, WriterWrites, WriterFails,
                WriterRetries, WriterGets, WriterPuts, readVars
  <2> QED BY <1>1, <1>8, <2>1, WriterCounts
<1> QED BY <1>3, <1>4, <1>5, <1>6, <1>7, <1>8 DEF Next, SourceStep
\* A record a writer holds is nowhere else, and its batch has it once.
LEMMA OnlyThere ==
  ASSUME TypeOK, SizesOK, NoRecordTwice, NEW w \in Writers, NEW r \in Range(work[w])
  PROVE  /\ r \in Records /\ r \notin Unread
         /\ \A p \in Partitions : r \notin Range(partCh[p]) /\ r \notin Range(held[p])
         /\ r \notin Range(recordCh)
         /\ \A t \in Transformers : r \notin Range(batch[t])
         /\ \A b \in Range(batchCh) : r \notin Range(b)
         /\ \A x \in Writers \ {w} : r \notin Range(work[x])
<1>1. /\ partCh \in Families(Partitions) /\ held \in Families(Partitions)
      /\ batch \in Families(Transformers) /\ work \in Families(Writers)
      /\ IsFiniteSet(Partitions) /\ IsFiniteSet(Transformers) /\ IsFiniteSet(Writers)
      /\ recordCh \in Stream /\ batchCh \in Seq(Stream) /\ work[w] \in Stream
  BY FamiliesOK DEF Families
<1>2. r \in Records
  BY <1>1, RangeMember DEF Stream
<1>3. /\ InPart(r) \in Nat /\ InHeld(r) \in Nat /\ InRecords(r) \in Nat
      /\ InBatch(r) \in Nat /\ InBatches(r) \in Nat /\ InWork(r) \in Nat
      /\ Places(r) = InPart(r) + InHeld(r) + InRecords(r) + InBatch(r) + InBatches(r) + InWork(r)
  BY CountsType
<1>4. /\ IsFiniteSet(Elsewhere(work, w, r)) /\ Cardinality(Elsewhere(work, w, r)) \in Nat
      /\ InWork(r) = Copies(work[w], r) + Cardinality(Elsewhere(work, w, r))
  BY <1>1, PlacesSplit DEF InWork
<1>5. Copies(work[w], r) \in Nat /\ Copies(work[w], r) >= 1
  BY <1>1, CopiesType
<1>6. Places(r) <= IF r \in Unread THEN 0 ELSE 1
  BY <1>2 DEF NoRecordTwice
<1>7. /\ r \notin Unread /\ InPart(r) = 0 /\ InHeld(r) = 0 /\ InRecords(r) = 0
      /\ InBatch(r) = 0 /\ InBatches(r) = 0 /\ Cardinality(Elsewhere(work, w, r)) = 0
  <2>1. r \notin Unread
    <3>1. ASSUME Places(r) <= 0 PROVE FALSE
      BY <1>3, <1>4, <1>5, <3>1
    <3> QED BY <1>6, <3>1
  <2>2. Places(r) <= 1
    BY <1>6, <2>1
  <2>3. /\ InPart(r) <= 0 /\ InHeld(r) <= 0 /\ InRecords(r) <= 0 /\ InBatch(r) <= 0
        /\ InBatches(r) <= 0 /\ InWork(r) <= 1
    <3>1. InWork(r) >= 1
      BY <1>3, <1>4, <1>5
    <3> QED BY <1>3, <2>2, <3>1
  <2>4. Cardinality(Elsewhere(work, w, r)) <= 0
    BY <1>3, <1>4, <1>5, <2>3
  <2> QED BY <1>3, <1>4, <2>1, <2>3, <2>4
<1>8. ASSUME NEW p \in Partitions PROVE r \notin Range(partCh[p]) /\ r \notin Range(held[p])
  <2>1. ASSUME r \in Range(partCh[p]) PROVE FALSE
    <3>1. Cardinality(PlacesIn(partCh, r)) >= 1
      BY <1>1, <2>1, PlacesHave
    <3> QED BY <1>7, <3>1 DEF InPart
  <2>2. ASSUME r \in Range(held[p]) PROVE FALSE
    <3>1. Cardinality(PlacesIn(held, r)) >= 1
      BY <1>1, <2>2, PlacesHave
    <3> QED BY <1>7, <3>1 DEF InHeld
  <2> QED BY <2>1, <2>2
<1>9. r \notin Range(recordCh)
  BY <1>1, <1>7, CopiesType DEF InRecords
<1>10. ASSUME NEW t \in Transformers, r \in Range(batch[t]) PROVE FALSE
  <2>1. Cardinality(PlacesIn(batch, r)) >= 1
    BY <1>1, <1>10, PlacesHave
  <2> QED BY <1>7, <2>1 DEF InBatch
<1>11. ASSUME NEW b \in Range(batchCh), r \in Range(b) PROVE FALSE
  <2>1. PICK i \in 1..Len(batchCh) : batchCh[i] = b
    BY <1>1, RangeMember
  <2>2. batchCh \in Families(1..Len(batchCh)) /\ IsFiniteSet(1..Len(batchCh))
    <3>1. batchCh \in [1..Len(batchCh) -> Stream] /\ Len(batchCh) \in Nat
      BY <1>1, LenProperties
    <3>2. IsFiniteSet(1..Len(batchCh))
      BY <3>1, FS_Interval
    <3> QED BY <3>1, <3>2 DEF Families, SizesOK
  <2>3. Cardinality(PlacesIn(batchCh, r)) >= 1
    BY <1>11, <2>1, <2>2, PlacesHave
  <2> QED BY <1>7, <2>3 DEF InBatches
<1>12. ASSUME NEW x \in Writers, x # w, r \in Range(work[x]) PROVE FALSE
  <2>1. Elsewhere(work, w, r) = {}
    BY <1>4, <1>7, FS_EmptySet
  <2>2. PICK i \in DOMAIN work[x] : work[x][i] = r
    BY <1>12 DEF Range
  <2>3. i \in 1..BatchSize
    <3>1. work[x] \in Stream /\ Len(work[x]) <= BatchSize
      BY <1>1 DEF Families
    <3>2. DOMAIN work[x] = 1..Len(work[x]) /\ Len(work[x]) \in Nat
      BY <3>1, LenProperties DEF Stream
    <3> QED BY <2>2, <3>1, <3>2, SizesAssumption
  <2>4. <<x, i>> \in Elsewhere(work, w, r)
    BY <1>1, <1>12, <2>2, <2>3 DEF Elsewhere, PlacesIn, Families
  <2> QED BY <2>1, <2>4
<1> QED BY <1>2, <1>7, <1>8, <1>9, <1>10, <1>11, <1>12

\* No batch has a record twice.
LEMMA BatchesInjective ==
  ASSUME TypeOK, SizesOK, NoRecordTwice, NEW w \in Writers
  PROVE  work[w] \in Stream /\ IsInjective(work[w])
<1>1. work \in Families(Writers) /\ IsFiniteSet(Writers) /\ work[w] \in Stream
  BY FamiliesOK DEF Families
<1>2. ASSUME NEW r \in Records PROVE Copies(work[w], r) <= 1
  <2>1. /\ InPart(r) \in Nat /\ InHeld(r) \in Nat /\ InRecords(r) \in Nat
        /\ InBatch(r) \in Nat /\ InBatches(r) \in Nat /\ InWork(r) \in Nat
        /\ Places(r) = InPart(r) + InHeld(r) + InRecords(r) + InBatch(r) + InBatches(r) + InWork(r)
    BY CountsType
  <2>2. /\ Cardinality(Elsewhere(work, w, r)) \in Nat
        /\ InWork(r) = Copies(work[w], r) + Cardinality(Elsewhere(work, w, r))
    BY <1>1, PlacesSplit DEF InWork
  <2>3. Places(r) <= 0 \/ Places(r) <= 1
    BY DEF NoRecordTwice
  <2>4. Copies(work[w], r) \in Nat
    BY <1>1, CopiesType
  <2> QED BY <2>1, <2>2, <2>3, <2>4
<1> QED BY <1>1, <1>2, CopiesInjective

-----------------------------------------------------------------------------
(* RowsWritten.                                                            *)

\* A record no writer has tried to write yet.
Ahead(r) ==
  \/ r \in Unread
  \/ \E p \in Partitions : r \in Range(partCh[p]) \/ r \in Range(held[p])
  \/ r \in Range(recordCh)
  \/ \E t \in Transformers : r \in Range(batch[t])
  \/ \E b \in Range(batchCh) : r \in Range(b)
  \/ \E w \in Writers : wr[w] = "write" /\ r \in Range(work[w])

\* A record that comes to a writer is not in the target yet: every row a batch counts
\* is a new one.
FreshOK == \A r \in target : ~Ahead(r)

\* The records of p that a writer has written and may have counted: all in the target
\* but those whose writer still has to save p's checkpoint.
Uncounted(p, w) == IF wr[w] \in {"save", "put"} /\ p \in todo[w] THEN Range(work[w]) ELSE {}
Counted(p) == {r \in target : r[1] = p /\ \A w \in Writers : r \notin Uncounted(p, w)}

\* What is said to be written of a partition: in the store, and by writers between
\* GetPartition and SavePartition.
Claimed(p) == {cp[p].rows}
              \union {seen[w][2].rows : w \in {x \in Writers : wr[x] = "put" /\ seen[x][1] = p}}
ClaimsOK == \A p \in Partitions : \A n \in Claimed(p) : n <= Cardinality(Counted(p))

\* A record a writer has tried is not ahead of the writers again.
LEMMA AheadShrinks ==
  ASSUME TypeOK, [Next]_vars, NEW r \in Records, Ahead(r)'
  PROVE  Ahead(r)
<1> USE DEF Ahead
<1>1. CASE CallerCancels \/ CloseRecordCh \/ CloseBatchCh \/ UNCHANGED vars
  <2>1. UNCHANGED <<unread, partCh, held, recordCh, batch, batchCh, wr, work>>
    BY <1>1 DEF CallerCancels, CloseRecordCh, CloseBatchCh, vars, readVars, chanVars, tfVars, wrVars
  <2> QED BY <2>1 DEF Unread
<1>2. ASSUME NEW p \in Partitions, SourceSends(p) PROVE Ahead(r)
  <2>1. PICK o \in Yields(p) : /\ unread' = [unread EXCEPT ![p] = @ \ {o}]
                               /\ partCh' = [partCh EXCEPT ![p] = Append(@, <<p, o>>)]
    BY <1>2 DEF SourceSends
  <2>2. <<p, o>> \in Records /\ o \in unread[p]
    BY DEF TypeOK, ReadersOK, Yields, Records
  <2>3. Range(Append(partCh[p], <<p, o>>)) = Range(partCh[p]) \union {<<p, o>>}
    <3>1. partCh[p] \in Seq(Records)
      BY DEF TypeOK, ReadersOK, Stream
    <3> QED BY <2>2, <3>1, Appending
  <2>4. UNCHANGED <<held, recordCh, batch, batchCh, wr, work>>
    BY <1>2 DEF SourceSends, chanVars, tfVars, wrVars
  <2>5. Unread' \subseteq Unread
    BY <2>1 DEF Unread, TypeOK, ReadersOK, Records
  <2>6. <<p, o>> \in Unread
    BY <2>2 DEF Unread
  <2>7. ASSUME NEW q \in Partitions, r \in Range(partCh'[q]) PROVE Ahead(r)
    <3>1. CASE q = p
      <4>1. partCh'[p] = Append(partCh[p], <<p, o>>)
        BY <2>1 DEF TypeOK, ReadersOK
      <4>2. r \in Range(partCh[p]) \/ r = <<p, o>>
        BY <2>3, <2>7, <3>1, <4>1
      <4> QED BY <2>6, <4>2
    <3>2. CASE q # p
      BY <2>1, <2>7, <3>2 DEF TypeOK, ReadersOK
    <3> QED BY <3>1, <3>2
  <2> QED BY <2>4, <2>5, <2>7
<1>3. ASSUME NEW p \in Partitions, SourceReturns(p) \/ ReaderFinishes(p) \/ ReaderReports(p) PROVE Ahead(r)
  <2>1. UNCHANGED <<unread, partCh, held, recordCh, batch, batchCh, wr, work>>
    BY <1>3 DEF SourceReturns, ReaderFinishes, ReaderReports, chanVars, tfVars, wrVars
  <2> QED BY <2>1 DEF Unread
<1>4. ASSUME NEW p \in Partitions, ReaderTakes(p) PROVE Ahead(r)
  <2>1. UNCHANGED <<unread, recordCh, batch, batchCh, wr, work>>
    BY <1>4 DEF ReaderTakes, chanVars, tfVars, wrVars
  <2>2. /\ partCh' = [partCh EXCEPT ![p] = Tail(partCh[p])]
        /\ held' = [held EXCEPT ![p] = <<Head(partCh[p])>>] /\ partCh[p] # <<>>
    BY <1>4 DEF ReaderTakes
  <2>3. Range(partCh[p]) = {Head(partCh[p])} \union Range(Tail(partCh[p])) /\ Head(partCh[p]) \in Records
    BY <2>2, Receiving DEF TypeOK, ReadersOK, Stream
  <2>4. Range(<<Head(partCh[p])>>) = {Head(partCh[p])}
    BY <2>3, Singleton
  <2>5. ASSUME NEW q \in Partitions, r \in Range(partCh'[q]) \/ r \in Range(held'[q])
        PROVE  r \in Range(partCh[q]) \/ r \in Range(held[q])
    <3>1. CASE q = p
      BY <2>2, <2>3, <2>4, <2>5, <3>1 DEF TypeOK, ReadersOK
    <3>2. CASE q # p
      BY <2>2, <2>5, <3>2 DEF TypeOK, ReadersOK
    <3> QED BY <3>1, <3>2
  <2> QED BY <2>1, <2>5 DEF Unread
<1>5. ASSUME NEW p \in Partitions, ReaderSends(p) PROVE Ahead(r)
  <2>1. UNCHANGED <<unread, partCh, batch, batchCh, wr, work>>
    BY <1>5 DEF ReaderSends, tfVars, wrVars
  <2>2. recordCh' = recordCh \o held[p] /\ held' = [held EXCEPT ![p] = <<>>]
    BY <1>5 DEF ReaderSends
  <2>3. Range(recordCh') = Range(recordCh) \union Range(held[p])
    BY <2>2, Concatenation DEF TypeOK, ReadersOK, ChannelsOK, Stream
  <2>4. \A q \in Partitions : Range(held'[q]) \subseteq Range(held[q])
    BY <2>2, RangeEmpty DEF TypeOK, ReadersOK
  <2> QED BY <2>1, <2>3, <2>4 DEF Unread
<1>6. ASSUME NEW p \in Partitions, ReaderCancelled(p) \/ ReaderDrains(p) PROVE Ahead(r)
  <2>1. UNCHANGED <<unread, recordCh, batch, batchCh, wr, work>>
    BY <1>6 DEF ReaderCancelled, ReaderDrains, chanVars, tfVars, wrVars
  <2>2. \A q \in Partitions : Range(held'[q]) \subseteq Range(held[q])
    BY <1>6, RangeEmpty DEF ReaderCancelled, ReaderDrains, TypeOK, ReadersOK
  <2>3. partCh[p] # <<>> => Range(Tail(partCh[p])) \subseteq Range(partCh[p])
    BY Receiving DEF TypeOK, ReadersOK, Stream
  <2>4. \A q \in Partitions : Range(partCh'[q]) \subseteq Range(partCh[q])
    BY <1>6, <2>3 DEF ReaderCancelled, ReaderDrains, TypeOK, ReadersOK
  <2> QED BY <2>1, <2>2, <2>4 DEF Unread
<1>7. ASSUME NEW t \in Transformers, TransformerTakes(t) PROVE Ahead(r)
  <2>1. UNCHANGED <<unread, partCh, held, batchCh, wr, work>>
    BY <1>7 DEF TransformerTakes, readVars, wrVars
  <2>2. /\ recordCh # <<>> /\ recordCh' = Tail(recordCh)
        /\ batch' = [batch EXCEPT ![t] = Append(batch[t], Head(recordCh))]
    BY <1>7 DEF TransformerTakes
  <2>3. Range(recordCh) = {Head(recordCh)} \union Range(Tail(recordCh)) /\ Head(recordCh) \in Records
    BY <2>2, Receiving DEF TypeOK, ChannelsOK, Stream
  <2>4. Range(Append(batch[t], Head(recordCh))) = Range(batch[t]) \union {Head(recordCh)}
    BY <2>3, Appending DEF TypeOK, TransformersOK, Stream
  <2>5. ASSUME NEW s \in Transformers, r \in Range(batch'[s]) PROVE r \in Range(batch[s]) \/ r \in Range(recordCh)
    <3>1. CASE s = t
      <4>1. batch'[t] = Append(batch[t], Head(recordCh))
        BY <2>2 DEF TypeOK, TransformersOK
      <4> QED BY <2>3, <2>4, <2>5, <3>1, <4>1
    <3>2. CASE s # t
      BY <2>2, <2>5, <3>2 DEF TypeOK, TransformersOK
    <3> QED BY <3>1, <3>2
  <2> QED BY <2>1, <2>2, <2>3, <2>5 DEF Unread
<1>8. ASSUME NEW t \in Transformers, TransformerFlushes(t) PROVE Ahead(r)
  <2>1. UNCHANGED <<unread, partCh, held, recordCh, wr, work>>
    BY <1>8 DEF TransformerFlushes, readVars, wrVars
  <2>2. batchCh' = Append(batchCh, batch[t]) /\ batch' = [batch EXCEPT ![t] = <<>>]
    BY <1>8 DEF TransformerFlushes
  <2>3. Range(batchCh') = Range(batchCh) \union {batch[t]}
    BY <1>8, <2>2, Appending DEF TransformerFlushes, TypeOK, ChannelsOK, TransformersOK, Batches
  <2>4. \A s \in Transformers : Range(batch'[s]) \subseteq Range(batch[s])
    BY <2>2, RangeEmpty DEF TypeOK, TransformersOK
  <2> QED BY <2>1, <2>3, <2>4 DEF Unread
<1>9. ASSUME NEW t \in Transformers, TransformerCancelled(t) \/ TickerFires(t) \/ TransformerFinishes(t) PROVE Ahead(r)
  <2>1. UNCHANGED <<unread, partCh, held, recordCh, batchCh, wr, work>>
    BY <1>9 DEF TransformerCancelled, TickerFires, TransformerFinishes, readVars, wrVars, chanVars
  <2>2. \A s \in Transformers : Range(batch'[s]) \subseteq Range(batch[s])
    BY <1>9, RangeEmpty DEF TransformerCancelled, TickerFires, TransformerFinishes, TypeOK, TransformersOK
  <2> QED BY <2>1, <2>2 DEF Unread
<1>10. ASSUME NEW w \in Writers, WriterTakes(w) PROVE Ahead(r)
  <2>1. UNCHANGED <<unread, partCh, held, recordCh, batch>>
    BY <1>10 DEF WriterTakes, readVars, tfVars
  <2>2. /\ batchCh # <<>> /\ batchCh' = Tail(batchCh) /\ work' = [work EXCEPT ![w] = Head(batchCh)]
        /\ wr' = [wr EXCEPT ![w] = "write"]
    BY <1>10 DEF WriterTakes
  <2>3. Range(batchCh) = {Head(batchCh)} \union Range(Tail(batchCh))
    BY <2>2, Receiving DEF TypeOK, ChannelsOK
  <2>4. ASSUME NEW x \in Writers, wr'[x] = "write", r \in Range(work'[x])
        PROVE  (wr[x] = "write" /\ r \in Range(work[x])) \/ r \in Range(Head(batchCh))
    BY <2>2, <2>4 DEF TypeOK, WritersOK
  <2> QED BY <2>1, <2>2, <2>3, <2>4 DEF Unread
<1>11. ASSUME NEW w \in Writers, WriterStep(w), ~WriterTakes(w) PROVE Ahead(r)
  <2>1. UNCHANGED <<unread, partCh, held, recordCh, batch, batchCh>>
    BY <1>11 DEF WriterStep, WriterFinishes, WriterCancelled, WriterWrites, WriterFails, WriterRetries,
                 WriterGets, WriterPuts, readVars, tfVars, chanVars
  <2>2. wr'[w] # "write" /\ \A x \in Writers \ {w} : wr'[x] = wr[x] /\ work'[x] = work[x]
    BY <1>11 DEF WriterStep, WriterFinishes, WriterCancelled, WriterWrites, WriterFails, WriterRetries,
                 WriterGets, WriterPuts, TypeOK, WritersOK
  <2>3. ASSUME NEW x \in Writers, wr'[x] = "write", r \in Range(work'[x])
        PROVE  wr[x] = "write" /\ r \in Range(work[x])
    BY <2>2, <2>3
  <2> QED BY <2>1, <2>3 DEF Unread
<1> QED BY <1>1, <1>2, <1>3, <1>4, <1>5, <1>6, <1>7, <1>8, <1>9, <1>10, <1>11
       DEF Next, SourceStep, ReaderStep, TransformerStep

\* What a step adds to the target is in the hands of a writer who is past its write.
LEMMA LandsFromWork ==
  ASSUME TypeOK, [Next]_vars, NEW r, r \in target', r \notin target
  PROVE  \E w \in Writers : /\ r \in Range(work[w]) /\ wr'[w] # "write"
                            /\ \A x \in Writers \ {w} : work'[x] = work[x]
                            /\ UNCHANGED <<unread, partCh, held, recordCh, batch, batchCh>>
<1>1. PICK w \in Writers : WriterWrites(w) \/ WriterFails(w) \/ WriterRetries(w)
  <2>1. target' # target
    OBVIOUS
  <2> QED
  BY <2>1 DEF Next, CallerCancels, CloseRecordCh, CloseBatchCh, SourceStep, SourceSends, SourceReturns,
         ReaderStep, ReaderTakes, ReaderSends, ReaderCancelled, ReaderDrains, ReaderFinishes, ReaderReports,
         TransformerStep, TransformerTakes, TickerFires, TransformerFinishes,
         TransformerFlushes, TransformerCancelled, WriterStep, WriterTakes, WriterFinishes,
         WriterCancelled, WriterGets, WriterPuts, durable, vars
<1>2. r \in Range(work[w])
  <2>1. CASE WriterWrites(w)
    BY <2>1 DEF WriterWrites
  <2>2. CASE WriterFails(w)
    BY <2>2 DEF WriterFails
  <2>3. CASE WriterRetries(w)
    <3>1. work[w] # <<>> /\ r = Head(work[w])
      BY <2>3 DEF WriterRetries, TypeOK, WritersOK
    <3>2. work[w] \in Seq(Records)
      BY DEF TypeOK, WritersOK, Stream
    <3>3. Range(work[w]) = {Head(work[w])} \union Range(Tail(work[w]))
      BY <3>1, <3>2, Receiving
    <3> QED BY <3>1, <3>3
  <2> QED BY <1>1, <2>1, <2>2, <2>3
<1>3. wr'[w] # "write" /\ \A x \in Writers \ {w} : work'[x] = work[x]
  BY <1>1 DEF WriterWrites, WriterFails, WriterRetries, TypeOK, WritersOK
<1>4. UNCHANGED <<unread, partCh, held, recordCh, batch, batchCh>>
  BY <1>1 DEF WriterWrites, WriterFails, WriterRetries, readVars, tfVars, chanVars
<1> QED BY <1>2, <1>3, <1>4

\* No record that has landed comes to a writer again.
LEMMA FreshStep ==
  ASSUME TypeOK, SizesOK, NoRecordTwice, FreshOK, TypeOK', [Next]_vars
  PROVE  FreshOK'
<1> SUFFICES ASSUME NEW r \in target', Ahead(r)' PROVE FALSE
  BY DEF FreshOK
<1>1. r \in Records
  BY DEF TypeOK, OutcomeOK
<1>2. Ahead(r)
  BY <1>1, AheadShrinks
<1>3. r \notin target
  BY <1>2 DEF FreshOK
<1>4. PICK w \in Writers : /\ r \in Range(work[w]) /\ wr'[w] # "write"
                           /\ \A x \in Writers \ {w} : work'[x] = work[x]
                           /\ UNCHANGED <<unread, partCh, held, recordCh, batch, batchCh>>
  BY <1>3, LandsFromWork
<1>5. /\ r \notin Unread
      /\ \A p \in Partitions : r \notin Range(partCh[p]) /\ r \notin Range(held[p])
      /\ r \notin Range(recordCh)
      /\ \A t \in Transformers : r \notin Range(batch[t])
      /\ \A b \in Range(batchCh) : r \notin Range(b)
      /\ \A x \in Writers \ {w} : r \notin Range(work[x])
  BY <1>4, OnlyThere
<1>6. Unread' = Unread
  BY <1>4 DEF Unread
<1> QED BY <1>4, <1>5, <1>6 DEF Ahead
\* What a writer adds to RowsWritten is the number of records its batch has of p.
LEMMA CountOfBatch ==
  ASSUME NEW b \in Stream, IsInjective(b), NEW p
  PROVE  /\ IsFiniteSet({r \in Range(b) : r[1] = p}) /\ CountOf(b, p) \in Nat
         /\ CountOf(b, p) = Cardinality({r \in Range(b) : r[1] = p})
<1> DEFINE I == {i \in DOMAIN b : b[i][1] = p}
           R == {r \in Range(b) : r[1] = p}
           f == [i \in I |-> b[i]]
<1>1. DOMAIN b = 1..Len(b) /\ Len(b) \in Nat
  BY LenProperties DEF Stream
<1>2. IsFiniteSet(I)
  <2>1. IsFiniteSet(1..Len(b)) /\ I \in SUBSET (1..Len(b))
    BY <1>1, FS_Interval
  <2> QED BY <2>1, FS_Subset
<1>3. f \in Bijection(I, R)
  <2>1. f \in [I -> R]
    BY DEF Range
  <2>2. \A i, j \in I : f[i] = f[j] => i = j
    BY InjectiveMeans, <1>1 DEF Stream
  <2>3. \A r \in R : \E i \in I : f[i] = r
    BY DEF Range
  <2> QED BY <2>1, <2>2, <2>3, Fun_IsBij
<1>4. IsFiniteSet(R) /\ Cardinality(R) = Cardinality(I)
  BY <1>2, <1>3, FS_Bijection DEF ExistsBijection
<1>5. Cardinality(I) \in Nat
  BY <1>2, FS_CardinalityType
<1> QED BY <1>4, <1>5 DEF CountOf

\* The records counted are finitely many.
LEMMA CountedFinite == ASSUME TypeOK, NEW CONSTANT p PROVE IsFiniteSet(Counted(p)) /\ Cardinality(Counted(p)) \in Nat
<1>1. IsFiniteSet(Records)
  <2>1. IsFiniteSet(Offsets)
    BY FS_Interval, SizesAssumption DEF Offsets
  <2> QED BY <2>1, WorkersAssumption, FS_Product DEF Records
<1>2. Counted(p) \in SUBSET Records
  BY DEF Counted, TypeOK, OutcomeOK
<1> QED BY <1>1, <1>2, FS_Subset, FS_CardinalityType

\* The same, of the state after a step.
LEMMA CountedFiniteNext ==
  ASSUME NEW CONSTANT p
  PROVE  (TypeOK => IsFiniteSet(Counted(p)) /\ Cardinality(Counted(p)) \in Nat)'
<1>1. TypeOK => IsFiniteSet(Counted(p)) /\ Cardinality(Counted(p)) \in Nat
  BY CountedFinite
<1> QED BY <1>1, PTL

\* A record that may be counted stays so.
LEMMA CountedStays ==
  ASSUME TypeOK, FreshOK, [Next]_vars, NEW p \in Partitions
  PROVE  Counted(p) \subseteq Counted(p)'
<1> SUFFICES ASSUME NEW r \in Counted(p) PROVE r \in target' /\ \A x \in Writers : r \notin Uncounted(p, x)'
  BY DEF Counted
<1>1. r \in target /\ \A x \in Writers : r \notin Uncounted(p, x)
  BY DEF Counted
<1>2. r \in target'
  BY <1>1 DEF Next, CallerCancels, CloseRecordCh, CloseBatchCh, SourceStep, SourceSends, SourceReturns,
         ReaderStep, ReaderTakes, ReaderSends, ReaderCancelled, ReaderDrains, ReaderFinishes, ReaderReports,
         TransformerStep, TransformerTakes, TickerFires, TransformerFinishes,
         TransformerFlushes, TransformerCancelled, WriterStep, WriterTakes, WriterFinishes,
         WriterCancelled, WriterWrites, WriterFails, WriterRetries, WriterGets, WriterPuts, durable, vars
<1>3. CASE UNCHANGED wrVars
  BY <1>1, <1>2, <1>3 DEF wrVars, Uncounted
<1>4. ASSUME NEW w \in Writers, WriterStep(w), NEW x \in Writers PROVE r \notin Uncounted(p, x)'
  <2>1. CASE x # w
    <3>1. wr'[x] = wr[x] /\ work'[x] = work[x] /\ todo'[x] = todo[x]
      BY <1>4, <2>1 DEF WriterStep, WriterTakes, WriterFinishes, WriterCancelled, WriterWrites,
                  WriterFails, WriterRetries, WriterGets, WriterPuts, TypeOK, WritersOK
    <3> QED BY <1>1, <3>1 DEF Uncounted
  <2>2. CASE x = w /\ WriterWrites(w)
    <3>1. r \notin Range(work[w])
      BY <1>1, <2>2 DEF WriterWrites, FreshOK, Ahead
    <3>2. wr'[w] \in {"save", "put"} => work'[w] = work[w]
      BY <2>2 DEF WriterWrites, TypeOK, WritersOK
    <3> QED BY <2>2, <3>1, <3>2 DEF Uncounted
  <2>3. CASE x = w /\ WriterGets(w)
    BY <1>1, <2>3 DEF WriterGets, Uncounted, TypeOK, WritersOK
  <2>4. CASE x = w /\ WriterPuts(w)
    <3>1. /\ wr[w] = "put"
          /\ wr'[w] \in {"save", "put"} => todo'[w] \subseteq todo[w] /\ work'[w] = work[w]
      BY <2>4 DEF WriterPuts, TypeOK, WritersOK
    <3> QED BY <1>1, <2>4, <3>1 DEF Uncounted
  <2>5. CASE x = w /\ (WriterTakes(w) \/ WriterFinishes(w) \/ WriterCancelled(w) \/ WriterFails(w) \/ WriterRetries(w))
    <3>1. ~(wr'[w] \in {"save", "put"})
      BY <2>5 DEF WriterTakes, WriterFinishes, WriterCancelled, WriterFails, WriterRetries, TypeOK, WritersOK
    <3> QED BY <2>5, <3>1 DEF Uncounted
  <2> QED BY <1>4, <2>1, <2>2, <2>3, <2>4, <2>5 DEF WriterStep
<1>5. CASE CallerCancels \/ CloseRecordCh \/ CloseBatchCh \/ UNCHANGED vars
  BY <1>3, <1>5 DEF CallerCancels, CloseRecordCh, CloseBatchCh, vars
<1>6. ASSUME NEW q \in Partitions, SourceStep(q) \/ ReaderStep(q) PROVE UNCHANGED wrVars
  BY <1>6 DEF SourceStep, SourceSends, SourceReturns, ReaderStep, ReaderTakes, ReaderSends,
              ReaderCancelled, ReaderDrains, ReaderFinishes, ReaderReports
<1>7. ASSUME NEW t \in Transformers, TransformerStep(t) PROVE UNCHANGED wrVars
  BY <1>7 DEF TransformerStep, TransformerTakes, TickerFires, TransformerFinishes,
              TransformerFlushes, TransformerCancelled
<1> QED BY <1>2, <1>3, <1>4, <1>5, <1>6, <1>7 DEF Next

\* A writer that saves a checkpoint lets the records of its batch be counted.
LEMMA PutsCounts ==
  ASSUME TypeOK, SizesOK, NoRecordTwice, FreshOK, SavedOK, [Next]_vars,
         NEW w \in Writers, WriterPuts(w), NEW p \in Partitions, p = seen[w][1]
  PROVE  LET B == {r \in Range(work[w]) : r[1] = p}
         IN  Counted(p) \union B \subseteq Counted(p)' /\ Counted(p) \intersect B = {}
<1>1. wr[w] = "put" /\ p \in todo[w] /\ target' = target /\ p \notin todo'[w]
  BY DEF WriterPuts, TypeOK, WritersOK
<1>2. Uncounted(p, w) = Range(work[w]) /\ Uncounted(p, w)' = {}
  BY <1>1 DEF Uncounted
<1>3. ASSUME NEW r \in Range(work[w]), r[1] = p PROVE r \in Counted(p)' /\ r \notin Counted(p)
  <2>1. r \in target'
    BY <1>1 DEF SavedOK
  <2>2. \A x \in Writers \ {w} : r \notin Range(work[x])
    BY OnlyThere
  <2>3. \A x \in Writers \ {w} : Uncounted(p, x)' \subseteq Range(work[x])
    <3>1. \A x \in Writers \ {w} : work'[x] = work[x]
      BY DEF WriterPuts, TypeOK, WritersOK
    <3> QED BY <3>1 DEF Uncounted
  <2>4. \A x \in Writers : r \notin Uncounted(p, x)'
    BY <1>2, <2>2, <2>3
  <2> QED BY <1>2, <1>3, <2>1, <2>4 DEF Counted
<1>4. Counted(p) \subseteq Counted(p)'
  BY CountedStays
<1> QED BY <1>3, <1>4

\* A claim is an old one, or none, or what a writer read and the records of its batch.
LEMMA ClaimedStep ==
  ASSUME TypeOK, [Next]_vars, NEW p \in Partitions, NEW n \in Claimed(p)'
  PROVE  \/ n \in Claimed(p) \/ n = 0
         \/ \E w \in Writers : /\ WriterPuts(w) /\ p = seen[w][1]
                               /\ \E m \in Claimed(p) : n = m + CountOf(work[w], p)
<1>1. ASSUME UNCHANGED cp, \A x \in Writers : wr'[x] = "put" => wr[x] = "put" /\ seen'[x] = seen[x]
      PROVE  n \in Claimed(p)
  BY <1>1 DEF Claimed
<1>2. CASE CallerCancels \/ CloseRecordCh \/ CloseBatchCh \/ UNCHANGED vars
  BY <1>1, <1>2 DEF CallerCancels, CloseRecordCh, CloseBatchCh, vars, wrVars, durable
<1>3. ASSUME NEW q \in Partitions, SourceStep(q) \/ ReaderStep(q) PROVE n \in Claimed(p)
  BY <1>1, <1>3 DEF SourceStep, SourceSends, SourceReturns, ReaderStep, ReaderTakes, ReaderSends,
              ReaderCancelled, ReaderDrains, ReaderFinishes, ReaderReports, wrVars, durable
<1>4. ASSUME NEW t \in Transformers, TransformerStep(t) PROVE n \in Claimed(p)
  BY <1>1, <1>4 DEF TransformerStep, TransformerTakes, TickerFires, TransformerFinishes,
              TransformerFlushes, TransformerCancelled, wrVars, durable
<1>5. ASSUME NEW w \in Writers, WriterGets(w) PROVE n \in Claimed(p) \/ n = 0
  <2>1. PICK q \in todo[w] : \E c \in {cp[q], Absent} :
          seen' = [seen EXCEPT ![w] = <<q, IF c = Absent THEN Fresh ELSE c>>]
    BY <1>5 DEF WriterGets
  <2>2. PICK c \in {cp[q], Absent} : seen' = [seen EXCEPT ![w] = <<q, IF c = Absent THEN Fresh ELSE c>>]
    BY <2>1
  <2>3. UNCHANGED cp /\ \A x \in Writers \ {w} : wr'[x] = wr[x] /\ seen'[x] = seen[x]
    BY <1>5, <2>2 DEF WriterGets, durable, TypeOK, WritersOK
  <2>4. seen'[w] = <<q, IF c = Absent THEN Fresh ELSE c>>
    BY <2>2 DEF TypeOK, WritersOK
  <2>5. seen'[w][1] = q /\ (seen'[w][2].rows = cp[q].rows \/ seen'[w][2].rows = 0)
    BY <2>2, <2>4 DEF Absent, Fresh
  <2> QED BY <2>3, <2>5 DEF Claimed
<1>6. ASSUME NEW w \in Writers, WriterPuts(w)
      PROVE  n \in Claimed(p) \/ (p = seen[w][1] /\ \E m \in Claimed(p) : n = m + CountOf(work[w], p))
  <2> DEFINE q == seen[w][1]
             added == seen[w][2].rows + CountOf(work[w], q)
  <2>1. wr[w] = "put" /\ wr'[w] # "put" /\ \A x \in Writers \ {w} : wr'[x] = wr[x] /\ seen'[x] = seen[x]
    BY <1>6 DEF WriterPuts, TypeOK, WritersOK
  <2>2. cp'[p].rows = cp[p].rows \/ (p = q /\ cp'[p].rows = added)
    <3>1. cp \in [Partitions -> Checkpoints]
      BY DEF TypeOK, OutcomeOK
    <3>2. CASE UNCHANGED cp
      BY <3>2
    <3>3. CASE cp' = [cp EXCEPT ![q] = [status |-> seen[w][2].status,
                        last |-> LastOffset(work[w], q),
                        rows |-> seen[w][2].rows + CountOf(work[w], q)]]
      BY <3>1, <3>3
    <3> QED BY <1>6, <3>2, <3>3 DEF WriterPuts
  <2>3. CASE n = cp'[p].rows /\ p = q /\ cp'[p].rows = added
    BY <2>1, <2>3 DEF Claimed
  <2>4. CASE n = cp'[p].rows /\ cp'[p].rows = cp[p].rows
    BY <2>4 DEF Claimed
  <2>5. CASE n # cp'[p].rows
    BY <2>1, <2>5 DEF Claimed
  <2> QED BY <2>2, <2>3, <2>4, <2>5
<1>7. ASSUME NEW w \in Writers, WriterStep(w), ~WriterGets(w), ~WriterPuts(w) PROVE n \in Claimed(p)
  <2>1. UNCHANGED <<cp, seen>> /\ \A x \in Writers : wr'[x] = "put" => wr[x] = "put"
    BY <1>7 DEF WriterStep, WriterTakes, WriterFinishes, WriterCancelled, WriterWrites,
                WriterFails, WriterRetries, durable, TypeOK, WritersOK
  <2> QED BY <1>1, <2>1
<1> QED BY <1>2, <1>3, <1>4, <1>5, <1>6, <1>7 DEF Next

\* So what is claimed stays within what was written and may be counted.
LEMMA ClaimsStep ==
  ASSUME TypeOK, TypeOK', SizesOK, NoRecordTwice, FreshOK, SavedOK, ClaimsOK, [Next]_vars
  PROVE  ClaimsOK'
<1> SUFFICES ASSUME NEW p \in Partitions, NEW n \in Claimed(p)' PROVE n <= Cardinality(Counted(p)')
  BY DEF ClaimsOK
<1>1. /\ IsFiniteSet(Counted(p)) /\ Cardinality(Counted(p)) \in Nat
      /\ IsFiniteSet(Counted(p)') /\ Cardinality(Counted(p)') \in Nat
  BY CountedFinite, CountedFiniteNext
<1>2. Cardinality(Counted(p)) <= Cardinality(Counted(p)')
  BY <1>1, CountedStays, FS_Subset
<1>3. ASSUME NEW m \in Claimed(p) PROVE m \in Nat /\ m <= Cardinality(Counted(p))
  <2>1. cp[p].rows \in Nat
    BY DEF TypeOK, OutcomeOK, Checkpoints
  <2>2. ASSUME NEW w \in Writers, wr[w] = "put" PROVE seen[w][2].rows \in Nat
    <3>1. seen[w] \in Partitions \X Checkpoints
      BY <2>2 DEF TypeOK, WritersOK
    <3> QED BY <3>1 DEF Checkpoints
  <2>3. m \in Nat
    BY <2>1, <2>2 DEF Claimed
  <2> QED BY <2>3 DEF ClaimsOK
<1>4. CASE n \in Claimed(p)
  BY <1>1, <1>2, <1>3, <1>4
<1>5. CASE n = 0
  BY <1>1, <1>5
<1>6. ASSUME NEW w \in Writers, WriterPuts(w), p = seen[w][1], NEW m \in Claimed(p), n = m + CountOf(work[w], p)
      PROVE  n <= Cardinality(Counted(p)')
  <2> DEFINE B == {r \in Range(work[w]) : r[1] = p}
  <2>1. Counted(p) \union B \subseteq Counted(p)' /\ Counted(p) \intersect B = {}
    BY <1>6, PutsCounts
  <2>2. IsFiniteSet(B) /\ CountOf(work[w], p) \in Nat /\ CountOf(work[w], p) = Cardinality(B)
    BY BatchesInjective, CountOfBatch
  <2> HIDE DEF B
  <2>3. Cardinality(Counted(p) \union B) = Cardinality(Counted(p)) + Cardinality(B) - Cardinality(Counted(p) \intersect B)
    BY <1>1, <2>2, FS_Union
  <2>4. Cardinality(Counted(p) \intersect B) = 0
    BY <2>1, FS_EmptySet
  <2>5. Cardinality(Counted(p) \union B) <= Cardinality(Counted(p)')
    BY <1>1, <2>1, FS_Subset
  <2>6. m \in Nat /\ m <= Cardinality(Counted(p))
    BY <1>3
  <2> QED BY <1>1, <1>6, <2>2, <2>3, <2>4, <2>5, <2>6
<1> QED BY <1>4, <1>5, <1>6, ClaimedStep
-----------------------------------------------------------------------------
\* What the counts need of each other: batches of bounded size, one copy of each
\* record, none tried before it comes to a writer, claims within what was written.
CountsInv == Orderly /\ SizesOK /\ NoRecordTwice /\ FreshOK /\ ClaimsOK

\* Nothing is anywhere as the first call begins.
LEMMA CountsInit == Init => CountsInv
<1> SUFFICES ASSUME Init PROVE CountsInv
  OBVIOUS
<1>1. Orderly
  BY InvInit DEF IInv
<1>2. SizesOK
  <2>1. \A w \in Writers : Len(work[w]) <= BatchSize
    <3>1. \A w \in Writers : Len(work[w]) = 0
      BY DEF Init, Boot
    <3> QED BY <3>1, SizesAssumption
  <2>2. 1..Len(batchCh) = {}
    BY DEF Init, Boot
  <2> QED BY <2>1, <2>2 DEF SizesOK
<1>3. NoRecordTwice
  <2> SUFFICES ASSUME NEW r \in Records PROVE Places(r) = 0
    BY DEF NoRecordTwice
  <2>1. /\ PlacesIn(partCh, r) = {} /\ PlacesIn(held, r) = {} /\ PlacesIn(batch, r) = {}
        /\ PlacesIn(batchCh, r) = {} /\ PlacesIn(work, r) = {}
        /\ {i \in DOMAIN recordCh : recordCh[i] = r} = {}
    BY DEF Init, Boot, PlacesIn
  <2>2. Cardinality({}) = 0
    BY FS_EmptySet
  <2> QED BY <2>1, <2>2 DEF Places
<1>4. FreshOK
  BY DEF Init, FreshOK
<1>5. ClaimsOK
  <2> SUFFICES ASSUME NEW p \in Partitions, NEW n \in Claimed(p) PROVE n <= Cardinality(Counted(p))
    BY DEF ClaimsOK
  <2>1. n = 0
    BY DEF Init, Boot, Claimed, Absent
  <2>2. Cardinality(Counted(p)) \in Nat
    BY <1>1, CountedFinite DEF Orderly
  <2> QED BY <2>1, <2>2
<1> QED BY <1>1, <1>2, <1>3, <1>4, <1>5 DEF CountsInv

\* Every step keeps the counts in order,
LEMMA CountsStep == CountsInv /\ [Next]_vars => CountsInv'
<1> SUFFICES ASSUME CountsInv, [Next]_vars PROVE CountsInv'
  OBVIOUS
<1>1. Orderly' /\ TypeOK /\ SavedOK
  BY OrderlyStep DEF CountsInv, Orderly
<1>2. TypeOK'
  BY <1>1 DEF Orderly
<1>3. SizesOK'
  BY <1>1, SizesStep DEF CountsInv
<1>4. NoRecordTwice'
  BY <1>1, <1>2, <1>3, OnceStep DEF CountsInv
<1>5. FreshOK'
  BY <1>1, <1>2, FreshStep DEF CountsInv
<1>6. ClaimsOK'
  BY <1>1, <1>2, ClaimsStep DEF CountsInv
<1> QED BY <1>1, <1>3, <1>4, <1>5, <1>6 DEF CountsInv

\* so they are so throughout.
THEOREM CountsInvariance == Spec => []CountsInv
BY CountsInit, CountsStep, PTL DEF Spec

\* No record travels twice in one call, whatever the numbers of goroutines and the
\* sizes of the channels: over all channels and hands there is at most one copy of it.
THEOREM NoRecordTravelsTwice == Spec => []NoRecordTwice
<1>1. CountsInv => NoRecordTwice
  BY DEF CountsInv
<1> QED
  BY <1>1, CountsInvariance, PTL

\* RowsWritten never claims more rows of a partition than the target holds, although
\* any number of writers update it without excluding each other: lost updates only
\* make it too small.
THEOREM RowsAreNotOverstated == Spec => []RowsNotOverstated
<1>1. CountsInv => RowsNotOverstated
  <2> SUFFICES ASSUME CountsInv, NEW p \in Partitions
               PROVE  cp[p].rows <= Cardinality({r \in target : r[1] = p})
    BY DEF RowsNotOverstated
  <2> DEFINE Written == {r \in target : r[1] = p}
  <2>1. TypeOK /\ cp[p].rows \in Nat
    BY DEF CountsInv, Orderly, TypeOK, OutcomeOK, Checkpoints
  <2>2. cp[p].rows <= Cardinality(Counted(p)) /\ Cardinality(Counted(p)) \in Nat
    BY <2>1, CountedFinite DEF CountsInv, ClaimsOK, Claimed
  <2>3. IsFiniteSet(Written) /\ Cardinality(Written) \in Nat
    <3>1. IsFiniteSet(Offsets)
      BY FS_Interval, SizesAssumption DEF Offsets
    <3>2. IsFiniteSet(Records)
      BY <3>1, WorkersAssumption, FS_Product DEF Records
    <3>3. Written \in SUBSET Records
      BY <2>1 DEF TypeOK, OutcomeOK
    <3> QED BY <3>2, <3>3, FS_Subset, FS_CardinalityType
  <2>4. Counted(p) \in SUBSET Written
    BY DEF Counted
  <2>5. Cardinality(Counted(p)) <= Cardinality(Written)
    BY <2>3, <2>4, FS_Subset
  <2> QED BY <2>1, <2>2, <2>3, <2>5
<1> QED
  BY <1>1, CountsInvariance, PTL
=============================================================================
