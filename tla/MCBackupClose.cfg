\* A backup whose source still has rows to send when an upload fails.
SPECIFICATION FairSpec
CONSTANTS
  NumPartitions = 1
  NumRows = 3
  PartCap = 1
  RestoreBatch = 1
  Format = "parquet"
  AtomicPut = TRUE
  CloseWaits = TRUE
  SourceMayFail = TRUE
  SerializerMayFail = TRUE
  StorageMayFail = TRUE
  TargetMayFail = TRUE
  MayCrash = FALSE
  MaxBackups = 1
  MaxRestores = 0
PROPERTY BackupCommandEnds
CHECK_DEADLOCK FALSE
