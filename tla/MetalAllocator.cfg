SPECIFICATION Spec
CONSTANTS
  Thread = {t1, t2}
  Buffer <- MCBuffer
  Length <- MCLength
  OnHeap = {1}
  External = {5}
  SmallSize = 2
  Heap = Heap
  HeapSize = 2
  PageSize = 4
  Request = {1, 2, 3, 5}
  ResourceLimit = 2
  WorkingSet = 9
  CacheLimits = {0, 4}
  MemoryLimits = {6, 9}
  WiredLimits = {0, 5}
  SizeMod = 100
INVARIANTS
  Consistent
  OnePlace
  ResourceBound
  ResidencyExact
PROPERTIES
  LimitsKept
  LenderSpec
