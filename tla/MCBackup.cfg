\* Two backups in turn beside a restore, two partitions, every fault, and files that
\* a failing Put leaves half written.
SPECIFICATION FairSpec
CONSTANTS
  NumPartitions = 2
  NumRows = 2
  PartCap = 1
  RestoreBatch = 1
  Format = "parquet"
  AtomicPut = FALSE
  CloseWaits = FALSE
  SourceMayFail = TRUE
  SerializerMayFail = TRUE
  StorageMayFail = TRUE
  TargetMayFail = TRUE
  MayCrash = TRUE
  MaxBackups = 2
  MaxRestores = 1
INVARIANTS
  TypeOK
  ManifestComplete
  IntactUntilNextBackup
  RestoreExact
PROPERTY BackupReturns
CHECK_DEADLOCK FALSE
