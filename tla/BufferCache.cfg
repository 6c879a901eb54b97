SPECIFICATION CacheSpec
CONSTANTS
  Buffer <- MCBuffer
  Length <- MCLength
  PageSize = 2
  Request = {1, 2, 4, 5}
  MinBytes = {0, 1, 5, 9}
  Null = Null
INVARIANTS
  Coherent
PROPERTIES
  FreeListSpec
