SPECIFICATION Spec
CONSTANTS
  p1 = p1
  p2 = p2
  cr1 = cr1
  cr2 = cr2
  Pools <- MCPools
  ComputeResources <- MCComputeResources
  Counts <- MCCounts
  DefaultMaxCount = 2
  MaxChanges = 2
  Disturbances <- NoDisturbance
SYMMETRY Symmetry
PROPERTY PoolChecked
CHECK_DEADLOCK FALSE
