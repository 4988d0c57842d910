\* One transformer, one writer: batches are written in the order they were read.
SPECIFICATION ResumeSpec
CONSTANTS
  Partitions = {p1}
  NumRows = 3
  Transformers = {t1}
  Writers = {w1}
  NumReaders = 1
  BatchSize = 2
  FlushEvery = 1
  OrderedSource = TRUE
  SourceMayFail = FALSE
  TargetMayFail = TRUE
  DLQMayFail = FALSE
  StoreMayFail = TRUE
  MayCancel = TRUE
  MaxRestarts = 2
INVARIANTS
  CheckpointCovers
  ResumeLosesNothing
PROPERTIES
  CheckpointAdvances
  ImplementsDurableTransfer
CHECK_DEADLOCK FALSE
