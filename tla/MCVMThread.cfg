SPECIFICATION FairSpec
CONSTANTS
  Joiners = {j1, j2, j3}
CHECK_DEADLOCK FALSE
INVARIANTS
  TypeOK
  FreedIsUnused
  JoinedIsTerminated
  RunsRunnable
PROPERTY
  JoinReturns
