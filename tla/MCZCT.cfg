SPECIFICATION Spec
CONSTANTS
  o1 = o1
  o2 = o2
  o3 = o3
  None = None
  Objs <- MCObjs
  BlockSize = 2
  Capacity = 4
  MaxRef = 2
  Uses = {"create", "self"}
  MaxFields = 1
  MaxFrame = 2
  MaxGlobals = 1
SYMMETRY Symm
INVARIANTS ReachableAlive TableConsistent CountsAccurate
