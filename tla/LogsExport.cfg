SPECIFICATION LiveSpec
CONSTANTS
  p1 = p1
  p2 = p2
  p3 = p3
  Processes <- MCProcesses
  GroupOf <- MCGroupOf
CHECK_DEADLOCK FALSE
INVARIANTS TypeOK NothingLeftBehind OwnDataDelivered
PROPERTIES OnlyOwnerDeletes EveryExportEnds
