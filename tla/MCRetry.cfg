\* Two callers, one of which can be in f while the other opens the circuit and tries it.
SPECIFICATION FairSpec
CONSTANTS
  Callers = {c1, c2}
  Threshold = 2
  Timeout = 1
  MayPanic = TRUE
  MaxAttempts = 2
  InitialInterval = 1
  MaxInterval = 3
  Multiplier = 4
  JitterPct = 70
INVARIANTS
  TypeOK
  OneTrialAtATime
  HalfOpenIsTried
  TriedInFull
  WaitBounded
PROPERTIES
  OpenHolds
  TrialDecides
  DoEnds
CHECK_DEADLOCK FALSE
