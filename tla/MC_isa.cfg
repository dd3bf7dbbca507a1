\* Every opcode of both models, with boundary operands, and ticks before a reset.
CONSTANTS
    output_addr = 61441
    Setups <- Starts
    Loads <- Blocks
SPECIFICATION SafetySpec
INVARIANTS
    TypeOK
    BreakFlagClear
    IndexedAddresses
    AddressesAreFresh
    AccessesFitInCycles
    BitInstructionsComplete
PROPERTIES
    ControlContract
    BranchTargets
    StackStaysInPageOne
