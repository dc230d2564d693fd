SPECIFICATION FairSpec
CONSTANTS
  Workers = {w1, w2}
  Killers = {k1}
  Calls = {"lock", "tryLock", "reTryLock", "unlock",
           "wait", "timedWait", "notify", "notifyAll", "spurious"}
  MaxRecursion = 2
  None = None
CHECK_DEADLOCK FALSE
INVARIANTS
  TypeOK
  Ownership
  CycleAccounting
PROPERTIES
  MeetsContract
  SignalCycleEnds
  TerminatedUnblocks
  FreeMutexIsTakenUnlessTerminated
