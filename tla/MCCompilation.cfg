\* The program stops for good after an overrun, so deadlock is not checked.
SPECIFICATION Spec
CONSTANTS
  NULL = NULL
  Unpatched = Unpatched
  r1 = r1  r2 = r2  scratch = scratch
  f = f  g = g  h = h
  Runtime = {r1, r2, scratch}
  Scratch = scratch
  Function = {f}
  Import = {g, h}
  Home <- MCHome
  MaxPages = 3
  AlignLines = 16
  HeaderLines = 3
  Operands = {4}
  MaxTargets = 1
  MaxJobs = 3
  MaxSteps = 2
INVARIANTS
  TypeOK
  PageInOnePlace
  CountersAgree
  RoomUnlessIgnored
  CompiledCodeIntact
  ScratchRuntimeEmpty
PROPERTY
  CodeStable
CHECK_DEADLOCK FALSE
