SPECIFICATION Spec
CONSTANTS
  r1 = r1
  r2 = r2
  r3 = r3
  Requests <- MCRequests
SYMMETRY Symmetry
INVARIANTS TypeOK OrphansExplained NoNodeOutlivesStack DeployedConfigAvailable
CHECK_DEADLOCK FALSE
