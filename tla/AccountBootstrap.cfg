SPECIFICATION LiveSpec
CONSTANTS
  b1 = b1
  b2 = b2
  b3 = b3
  c1 = c1
  Processes <- MCProcesses
  Builders <- MCBuilders
  InVpc <- MCInVpc
INVARIANTS AccountTypeOK FileIsHonest ReadyIsConfigured TagIsHonest ReadyIsComplete
PROPERTY EventuallyBootstrapped
