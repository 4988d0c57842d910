\* One partition whose rows overfill both channels: recordCh holds one record,
\* batchCh two batches of one record.
SPECIFICATION FairSpec
CONSTANTS
  Partitions = {p1}
  NumRows = 3
  Transformers = {t1, t2}
  Writers = {w1}
  NumReaders = 1
  BatchSize = 1
  FlushEvery = 2
  OrderedSource = FALSE
  SourceMayFail = TRUE
  TargetMayFail = TRUE
  DLQMayFail = FALSE
  StoreMayFail = FALSE
  MayCancel = TRUE
INVARIANTS
  ClosedAfterLastSend
  RootCauseReported
PROPERTIES
  CleanRunEnds
  CancelFreesReaders
  ImplementsTransfer
CHECK_DEADLOCK FALSE
