SPECIFICATION LiveSpec
CONSTANTS
  a = a
  b = b
  c = c
  Validators <- MCValidators
  Timed <- MCTimed
  UrlOf <- MCUrlOf
  Timeout = 1
  CacheTime = 2
  MaxRequests = 3
  MaxTime = 5
CHECK_DEADLOCK FALSE
INVARIANTS TypeOK SoundWhenFresh OneCallPerUrl
PROPERTY ValidationEnds
