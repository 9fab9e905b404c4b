SPECIFICATION Spec
CONSTANTS
  i1 = i1
  i2 = i2
  i3 = i3
  Items <- MCItems
  Pages = 2
  PageOf <- MCPageOf
  Limit = 4
  LastSleep = 2
  Timeout = 8
CHECK_DEADLOCK FALSE
INVARIANTS TypeOK SuccessMeansRemoved WaitFitsTimeout
