\* The duration of BRK.
CONSTANTS
    output_addr <- NoConsole
    Setups <- BreakSetups
    Loads = {}
SPECIFICATION SafetySpec
PROPERTY BreakTakesItsTime
