\* Every accumulator, operand, carry and mode, on both models.
CONSTANT Operands = {1, 15, 96, 153}
SPECIFICATION AluSpec
INVARIANTS
    BinaryAddition
    BinarySubtraction
    DecimalArithmetic
    DecimalFlags
    CompareIsSubtraction
    ShiftsKeepEveryBit
