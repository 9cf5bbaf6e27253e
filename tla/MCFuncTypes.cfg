SPECIFICATION Spec
CONSTANTS
  NULL = NULL
  a1 = a1  a2 = a2  a3 = a3  a4 = a4
  m1 = m1  m2 = m2
  Address = {a1, a2, a3, a4}
  Module = {m1, m2}
  ValueType <- MCValueType
  Signature <- MCSignature
  MaxTypes = 2
  MaxFunctions = 2
SYMMETRY Symmetry
INVARIANTS
  TypeOK
  PointerEquivalence
  TypesOnList
PROPERTY
  ImplementsSignatures
