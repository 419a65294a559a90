SPECIFICATION FairItSpec
CONSTANTS
  v1 = v1
  Keys <- MCKeys
  Hash <- MCHash
  Values = {v1}
  NoValue = NoValue
  MaxKeys = 3
  GenMod = 16
  SizeMod = 16
  MaxRoots = 2
  MaxNodes = 9
  HeightMax = 1
  MaxCalls = 3
INVARIANTS
  OwnWritesThrow
CHECK_DEADLOCK FALSE
