CONSTANTS
  c1 = c1
  c2 = c2
  d1 = d1
  n1 = n1
  Creators <- TwoCreators
  Deleters <- OneDeleter
  Neighbours <- NoNeighbours
SPECIFICATION Spec
SYMMETRY Symmetric
CHECK_DEADLOCK FALSE
INVARIANTS TypeOK ImagesReachable SnapshotsOwned ArtifactsKept ArtifactsOwned
PROPERTIES StackDeletedByOwner
