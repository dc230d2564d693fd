SPECIFICATION Spec
CONSTANTS
  Threads = {t1, t2, t3}
  Managers = {m1}
  MaxDepth = 1
  MaxRaises = 1
  StoreBuffer = TRUE
  NoThread = NoThread
  NoManager = NoManager
SYMMETRY Symmetry
CHECK_DEADLOCK FALSE
INVARIANTS
  TypeOK
  StopTheWorld
  StatusMatchesLocation
PROPERTY
  FrozenWhileRequested
  MeetsContract
