\* A stopped CPU and an NMI.
CONSTANTS
    output_addr <- NoConsole
    Setups <- StopSetups
    Loads = {}
SPECIFICATION SafetySpec
PROPERTY StoppedMeansStopped
