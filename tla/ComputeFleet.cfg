SPECIFICATION FairSpec
CONSTANTS
  c1 = c1
  c2 = c2
  Callers <- MCCallers
  MaxPolls = 2
INVARIANT TypeOK
PROPERTIES NeverRequestedTwice NeverResurrected AtomicRegister EveryCallReturns
