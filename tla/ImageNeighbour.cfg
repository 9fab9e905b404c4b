CONSTANTS
  c1 = c1
  c2 = c2
  d1 = d1
  n1 = n1
  Creators <- TwoCreators
  Deleters <- OneDeleter
  Neighbours <- OneNeighbour
SPECIFICATION Spec
SYMMETRY Symmetric
CHECK_DEADLOCK FALSE
INVARIANTS NeighbourSpared
