SPECIFICATION Spec
CONSTANTS
  NULL = NULL
  x = x  y = y
  Texts = {x, y}
  Foreign = {x}
  MaxNames = 2
  MaxTypes = 1
  MaxFunctions = 2
  MaxGlobals = 1
  MaxStrings = 4
  MaxFailures = 1
INVARIANTS
  TypeOK
  StringsOwnedOnce
  TablesAgree
  LookupFindsExport
