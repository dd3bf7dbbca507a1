\* The time of the JMP (abs) of the 65C02.
CONSTANTS
    output_addr = 61441
    Suite <- IndirectJumpTest
    Setups <- Starts
    Loads = {}
SPECIFICATION RunSpec
INVARIANTS
    FinishesOnBudget
CHECK_DEADLOCK FALSE
