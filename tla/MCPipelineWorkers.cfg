\* Two partitions of two rows, two goroutines of each kind: a batch may mix the partitions,
\* and two writers may hold batches of one. Writes, the dead-letter file and the store fail;
\* that the source fails or the call is cancelled is MCPipelineFlow's.
SPECIFICATION Spec
CONSTANTS
  Partitions = {p1, p2}
  NumRows = 2
  Transformers = {t1, t2}
  Writers = {w1, w2}
  NumReaders = 1
  BatchSize = 2
  FlushEvery = 1
  OrderedSource = TRUE
  SourceMayFail = FALSE
  TargetMayFail = TRUE
  DLQMayFail = TRUE
  StoreMayFail = TRUE
  MayCancel = FALSE
SYMMETRY Alike
INVARIANTS
  TypeOK
  NothingLost
  SuccessIsComplete
  ClosedAfterLastSend
  NoRecordTwice
  RowsNotOverstated
CHECK_DEADLOCK FALSE
