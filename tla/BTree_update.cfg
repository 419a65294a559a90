SPECIFICATION FairSpec
CONSTANTS
  v1 = v1
  v2 = v2
  Keys <- SevenKeys
  Hash <- SevenHash
  Values = {v1, v2}
  NoValue = NoValue
  MaxKeys = 7
  GenMod = 1
  SizeMod = 16
  MaxRoots = 1
  MaxNodes = 3
PROPERTIES
  ReadYourWrite
CHECK_DEADLOCK FALSE
