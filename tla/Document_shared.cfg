SPECIFICATION Spec
CONSTANTS
  IntMod = 16
  Cut <- MCCut
  Decode <- MCDecode
  Encode <- MCEncode
  Unwritable <- MCUnwritable
  Proxies = {p1, p2}
  p1 = p1
  p2 = p2
  Keys <- MCKeys
  Indices <- MCIndices
  Scalars <- MCScalars
  Texts <- MCTexts
  MaxSteps = 5
  MaxStructures = 4
INVARIANTS
  DTypeOK
  OneOwner
  KindsKept
  ExpressionsLand
  PrintComplete
  PrintStable
PROPERTIES
  ElementsStay
SYMMETRY ProxySymmetry
CHECK_DEADLOCK FALSE
