SPECIFICATION FairItSpec
CONSTANTS
  v1 = v1
  Keys <- MCKeys
  Hash <- MCHash
  Values = {v1}
  NoValue = NoValue
  MaxKeys = 3
  GenMod = 16777216
  SizeMod = 16
  MaxRoots = 1
  MaxNodes = 9
  HeightMax = 9
  MaxCalls = 6
INVARIANTS
  StaleReadsThrow
CHECK_DEADLOCK FALSE
