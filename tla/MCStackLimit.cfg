SPECIFICATION Spec
CONSTANTS
  NULL = NULL
  b1 = b1  b2 = b2
  Block = {b1, b2}
  StackSlots = 3
  Sizes = {0, 2}
  ModuleMemory <- MCModuleMemory
  Wrap = 16
  PageBytes = 2
  PageLimit = 8
  MaxLinearPages = 4
  MemoryLimit = 5
  MaxLoops = 1
  MaxFrames = 5
INVARIANT StackOverflowDetected
