SPECIFICATION Spec
CONSTANTS
    MaxFunctionSlots = 10
    MaxStackHeight = 5
    MaxConstantTable = 0
    MaxUsageCount = 3
    CalleeSlots = 4
    NegativeWords <- MCNone
    ArgTypes <- MCInt
    LocalTypes <- MCNoTypes
    RetTypes <- MCInt
    ReservedConstants = 1
    Constants <- MCIntConstant
    Operators <- MCBlocksOperators
    Conversions <- MCNone
    SelectTypes <- MCNone
    GlobalTypes <- MCIntGlobals
    CallTypes <- MCNone
    BlockTypes <- MCBlockTypes
    MaxDepth = 1
    MaxValues = 2
    Memory = FALSE
    Allowed <- MCNone
INVARIANT ValuesInPlace
CHECK_DEADLOCK FALSE
