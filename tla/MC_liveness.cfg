\* Programs end and signals are served, whatever the CPU is doing.
CONSTANTS
    output_addr <- NoConsole
    Setups <- Starts
    Loads = {}
    Finish <- LoopAddress
    Top = 509
    Reach = 16
SPECIFICATION FramesSpec
INVARIANTS
    NmiEdgesServedOnce
PROPERTIES
    ProgramFinishes
    SignalsServed
