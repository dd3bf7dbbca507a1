\* A device that raises the IRQ line and drops it from the console's callback.
CONSTANTS
    output_addr = 61441
    Setups <- Starts
    Loads <- Pokes
    Mailbox = 16
    Messages <- TwoBytes
SPECIFICATION DeviceSpec
PROPERTY DeliversEachOnce
