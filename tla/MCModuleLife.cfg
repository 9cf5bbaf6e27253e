SPECIFICATION Spec
CONSTANTS
  NULL = NULL
  m1 = m1  m2 = m2  log = log  run = run  add = add
  Module = {m1, m2}
  Name = {log, run, add}
  Contents <- MCContents
  MaxFrames = 3
INVARIANTS
  TypeOK
  HandlesReady
  ResultsOfLastCall
  CompiledCallsLinked
PROPERTIES
  StartNotAgain
