SPECIFICATION Spec
CONSTANTS
  Pids <- MCPids
  NoProcess = NoProcess
  HostOps <- MCHostOps
  Targets = {t1, t2}
  HostTarget = t1
  LastRow = 2
  Retention = 0
  MaxRuns = 2
  MaxTime = 1
INVARIANTS
  TypeOK
  SuccessIsDelivered
PROPERTIES
  TrailTells
  CollectsOnlyStale
CHECK_DEADLOCK FALSE
