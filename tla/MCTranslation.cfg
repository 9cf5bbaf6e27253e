SPECIFICATION Spec
CONSTANTS
    MaxFunctionSlots = 10
    MaxStackHeight = 4
    MaxConstantTable = 1
    MaxUsageCount = 3
    CalleeSlots = 6
    NegativeWords <- MCNegative
    ArgTypes <- MCInt
    LocalTypes <- MCNoTypes
    RetTypes <- MCInt
    ReservedConstants = 1
    Constants <- MCIntConstant
    Operators <- MCOperators
    Conversions <- MCConversions
    SelectTypes <- MCSelectTypes
    GlobalTypes <- MCGlobalTypes
    CallTypes <- MCCallTypes
    BlockTypes <- MCBlockTypes
    MaxDepth = 0
    MaxValues = 4
    Memory = TRUE
    Allowed <- MCNone
INVARIANTS TypeOK ValuesInPlace OperandsRead CountsAgree RegistersAgree EntryCoversUnlessLongCall
CHECK_DEADLOCK FALSE
