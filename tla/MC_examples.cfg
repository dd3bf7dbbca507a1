\* The repository's programs give their results, in the ticks it gives them.
CONSTANTS
    output_addr = 61441
    Suite <- AllPrograms
    Setups <- Starts
    Loads = {}
SPECIFICATION RunSpec
INVARIANTS
    FinishesOnBudget
    ComputesResults
CHECK_DEADLOCK FALSE
