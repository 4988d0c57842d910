\* A ring of eight keys, a table of up to two of them, none to four readers, two calls.
SPECIFICATION Spec
CONSTANTS
  Half = 4
  Nil = Nil
  MaxRows = 2
  MaxReaders = 4
  MaxCalls = 2
  FailAfter = 2
INVARIANTS
  TypeOK
  FirstCallReadsOnce
  LossHasCause
PROPERTIES
  CallReturns
CHECK_DEADLOCK FALSE
