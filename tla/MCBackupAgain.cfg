\* A second backup to the same place, an object store.
SPECIFICATION Spec
CONSTANTS
  NumPartitions = 1
  NumRows = 2
  PartCap = 1
  RestoreBatch = 1
  Format = "parquet"
  AtomicPut = TRUE
  CloseWaits = FALSE
  SourceMayFail = TRUE
  SerializerMayFail = TRUE
  StorageMayFail = TRUE
  TargetMayFail = TRUE
  MayCrash = FALSE
  MaxBackups = 2
  MaxRestores = 0
INVARIANT ManifestIntact
CHECK_DEADLOCK FALSE
