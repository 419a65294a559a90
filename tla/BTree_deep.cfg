SPECIFICATION FairSpec
CONSTANTS
  v1 = v1
  v2 = v2
  Keys <- ManyKeys
  Hash <- ManyHash
  Values = {v1}
  NoValue = NoValue
  MaxKeys = 3
  GenMod = 1
  SizeMod = 16
  MaxRoots = 1
  MaxNodes = 6
INVARIANTS
  TypeOK
  NodeShape
  WalkOK
  OneParent
  HalfFull
  Balanced
  PathFits
  SearchOrder
  ArrayDense
PROPERTIES
  ObjectsAreMaps
  ArraysAreLogs
  SetReturns
CHECK_DEADLOCK FALSE
