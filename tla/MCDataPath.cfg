\* Two records, so that their keys can be one after masking.
SPECIFICATION Spec
CONSTANTS
  Records = {r1, r2}
  BatchSize = 2
  RestoreSize = 2
  MaxCommands = 3
  MaxLines = 2
SYMMETRY RecordSymmetry
INVARIANTS
  TypeOK
  AckedStays
  SuccessDelivers
  OnceUnlessAppended
CHECK_DEADLOCK FALSE
