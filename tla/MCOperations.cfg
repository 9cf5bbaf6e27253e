SPECIFICATION Spec
CONSTANTS
  NONE = NONE
  Width = 4
  Group = 3
  Length = 12
  Infinity = 2000
  Pushes <- MCPushes
  Consts <- MCConsts
  Offsets <- MCOffsets
  Precision <- MCPrecision
  Branchless = TRUE
  Ops <- MCOps
INVARIANT TypeOK
PROPERTY ImplementsInstructions
CHECK_DEADLOCK FALSE
