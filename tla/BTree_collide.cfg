SPECIFICATION FairSpec
CONSTANTS
  v1 = v1
  v2 = v2
  Keys <- SevenKeys
  Hash <- CollidingHash
  Values = {v1}
  NoValue = NoValue
  MaxKeys = 7
  GenMod = 1
  SizeMod = 16
  MaxRoots = 1
  MaxNodes = 3
PROPERTIES
  InsertedKeysRetrievable
CHECK_DEADLOCK FALSE
