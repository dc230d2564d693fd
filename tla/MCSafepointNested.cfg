SPECIFICATION Spec
CONSTANTS
  Threads = {t1, t2}
  Managers = {m1, m2}
  MaxDepth = 2
  MaxRaises = 0
  StoreBuffer = FALSE
  NoThread = NoThread
  NoManager = NoManager
SYMMETRY Symmetry
INVARIANT
  NestedRecordsSafe
