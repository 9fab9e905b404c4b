SPECIFICATION PatchSpec
CONSTANTS
  None = None
  Pairs <- MCPairs
  Schemas <- SchemaClasses
  Depth = 5
INVARIANTS PatchTypeOK PatchIsComplete PatchIsExact RaisesOnlyOnLustre
CHECK_DEADLOCK FALSE
