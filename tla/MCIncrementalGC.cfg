CONSTANTS
  o1 = o1
  o2 = o2
  o3 = o3
  b1 = b1
  b2 = b2
  b3 = b3
  None = None
  Objs = {o1, o2, o3}
  BlockOf <- TwoBlocks
  PointerFree = {}
  WeaklyHeld = {o3}
  Uses = {}
  SegmentSize = 1
  MaxFields = 1
  MaxFrame = 2
  MaxRoots = 1
SPECIFICATION Spec
CHECK_DEADLOCK FALSE
INVARIANTS ReachableSafe MarkingSound WeakRefsAlive
PROPERTY MarkingComplete
SYMMETRY Symmetry
