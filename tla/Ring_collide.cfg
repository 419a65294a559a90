SPECIFICATION Spec
CONSTANTS
  NodeIds <- MCNodeIds
  Replicas <- MCReplicas
  Point <- MCPoint
  KeyHashes <- MCKeyHashes
INVARIANTS
  TypeOK
  RingOfMembers
  CircleAgrees
PROPERTIES
  MinimalMoves
