\* Pushes and pulls of up to three bytes, with wraps and overflow.
CONSTANTS
    output_addr <- NoConsole
    Bytes = {0, 17, 34}
    Burst = 3
    Starts <- StacksToTry
    MaxSteps = 2
SPECIFICATION StackSpec
INVARIANTS
    StackTypeOK
PROPERTIES
    StackIsLifo
CHECK_DEADLOCK FALSE
