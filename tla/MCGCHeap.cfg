SPECIFICATION Spec
CONSTANTS
  Pages = 14
  Bases = {1, 9}
  Requests <- SmallAndLarge
  MaxItems = 2
  MaxDrift = 0
  t1 = t1
  Threads <- OneThread
  Faults = {}
  InitialSize = 4
  HeapLimit = 12
  HeapSoftLimit = 10
  SloppyCommits = {FALSE, TRUE}
  TrimVirtualMemory = TRUE
  MinHeapIncrement = 2
  DefaultReserve = 4
  OSAllocThreshold = 4
  UniqueThreshold = 2
  HugeThreshold = 6
  FreeListCompression = 2
  HeapBlocksPerPage = 10
  RegionsPerPage = 2
  NewPagesDirty = FALSE
  Word = 10000
  None = None
INVARIANTS
  ItemsIntact TableWellFormed FreeListsSound CleanIsZero PagesKnown CountersExact
