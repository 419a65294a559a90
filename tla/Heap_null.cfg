SPECIFICATION HSpec
CONSTANTS
  Keys <- HKeys
  Hash <- HHash
  KeyLen <- HKeyLen
  Values <- HIds
  Stored <- HStored
  NoValue = NoValue
  MaxKeys = 3
  GenMod = 1
  SizeMod = 64
  MaxRoots = 2
  MaxNodes = 9
  MaxCalls <- HCalls
INVARIANTS
  AlwaysApart
CHECK_DEADLOCK FALSE
