SPECIFICATION Spec
CONSTANTS
  NULL = NULL
  b1 = b1  b2 = b2
  Block = {b1, b2}
  Body <- MCBody
  Declared <- MCDeclared
  Table <- MCTable
  Injected <- MCInjected
  MaxFunctions = 4
  MaxCode = 4
  MaxFrames = 2
  MaxInjections = 2
SYMMETRY Symmetry
CHECK_DEADLOCK FALSE
INVARIANT CallSitesHoldCode
