\* Two transformers and two writers, as in TestCrashAndResume; nothing fails but the
\* process, once.
SPECIFICATION ResumeSpec
CONSTANTS
  Partitions = {p1}
  NumRows = 2
  Transformers = {t1, t2}
  Writers = {w1, w2}
  NumReaders = 1
  BatchSize = 1
  FlushEvery = 1
  OrderedSource = TRUE
  SourceMayFail = FALSE
  TargetMayFail = FALSE
  DLQMayFail = FALSE
  StoreMayFail = FALSE
  MayCancel = FALSE
  MaxRestarts = 1
INVARIANT ResumeLosesNothing
CHECK_DEADLOCK FALSE
