\* Writes, loads, pokes and vectors that overlap, wrap and meet the console.
CONSTANTS
    output_addr = 61441
    Addresses <- MCAddresses
    Values = {1, 255}
    Blocks <- MCBlocks
    MaxStores = 4
SPECIFICATION Spec
INVARIANTS
    BusTypeOK
    ReadsLastStore
    ConsoleShowsWrites
CHECK_DEADLOCK FALSE
