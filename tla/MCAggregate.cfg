SPECIFICATION EndingSpec
CONSTANTS
  Primordial = p
  Workers = {w1, w2}
  Blobs = 2
  MaxTerminates = 1
  None = None
CHECK_DEADLOCK FALSE
INVARIANTS
  TypeOK
  NeverOvercounted
  FailedNeverRuns
PROPERTY
  ShutdownCompletes
