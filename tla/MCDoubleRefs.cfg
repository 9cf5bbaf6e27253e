SPECIFICATION Spec
CONSTANTS
    MaxFunctionSlots = 16
    MaxStackHeight = 5
    MaxConstantTable = 2
    MaxUsageCount = 3
    CalleeSlots = 4
    NegativeWords <- MCNone
    ArgTypes <- MCNoTypes
    LocalTypes <- MCLong
    RetTypes <- MCNoTypes
    ReservedConstants = 2
    Constants <- MCLongConstant
    Operators <- MCNone
    Conversions <- MCNone
    SelectTypes <- MCNone
    GlobalTypes <- MCIntGlobals
    CallTypes <- MCNone
    BlockTypes <- MCNone
    MaxDepth = 0
    MaxValues = 3
    Memory = FALSE
    Allowed <- MCDoubleRefs
INVARIANT ValuesInPlace
CHECK_DEADLOCK FALSE
