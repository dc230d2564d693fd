CONSTANTS
  o1 = o1
  o2 = o2
  o3 = o3
  b1 = b1
  b2 = b2
  b3 = b3
  None = None
  Objs = {o1, o2, o3}
  BlockOf <- TwoBlocks
  PointerFree = {o3}
  WeaklyHeld = {}
  Uses = {}
  SegmentSize = 1
  MaxFields = 1
  MaxFrame = 2
  MaxRoots = 0
SPECIFICATION FairSpec
CHECK_DEADLOCK FALSE
PROPERTY CollectionEnds
