SPECIFICATION InstallSpec
CONSTANTS
    MaxDirectories = 3
    MaxGenerations = 3
    MaxOrders = 3
    MaxFaults = 1
CHECK_DEADLOCK FALSE
INVARIANT
    ReadyHasData
