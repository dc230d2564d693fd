SPECIFICATION Spec
CONSTANTS
  i1 = i1 s1 = s1 s2 = s2 v1 = v1 v2 = v2
  Keys <- MCKeys
  Ints <- MCInts
  Objects <- MCObjects
  Hideable <- MCHideable
  Hash <- MCHash
  Values <- MCValues
  Kinds = {"inline", "weakKeys", "weakValues"}
  Nested = {"inline"}
  Slots = 2
  MaxSlots = 8
  EMPTY = EMPTY DELETED = DELETED None = None
INVARIANTS FindReturns TableIsMap
PROPERTIES EnumeratesOnce
