\* Interrupts at every tick of a program, beside its undisturbed twin.
CONSTANTS
    output_addr = 61441
    Setups <- Starts
    Loads = {}
    Finish <- LoopAddress
    HandlerCells <- Counters
    Top = 257
    Reach = 16
SPECIFICATION TwinSpec
INVARIANTS
    Transparent
    FramesIntact
    HandlersAreMasked
PROPERTIES
    RtiRestores
    ProgramsBehave
