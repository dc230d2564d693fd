SPECIFICATION FairSpec
CONSTANTS
  Threads = {t1, t2, t3}
  Managers = {m1}
  MaxDepth = 1
  MaxRaises = 0
  StoreBuffer = FALSE
  NoThread = NoThread
  NoManager = NoManager
PROPERTY
  RequestRuns
