SPECIFICATION DeploymentsSpec
CONSTANTS
    g1 = g1
    g2 = g2
    g3 = g3
    g4 = g4
    g5 = g5
    g6 = g6
    plain = plain
    portable = portable
    None = None
    Generations = {g1, g2, g3, g4, g5, g6}
    Digests = {plain, portable}
    Portable = {portable}
    LockOf <- MCLockOf
    MaxStarts = 3
    MaxCommands = 2
    MaxTrouble = 1
    MaxDirectories = 3
    MaxGenerations = 3
    MaxOrders = 3
    MaxFaults = 1
    Groups <- MCGroups
    ToolRequests <- MCToolRequests
    StateCap = 4
CHECK_DEADLOCK FALSE
INVARIANTS
    PublicationSound
    WorkloadSound
    InstallSound
    ResolutionExact
PROPERTIES
    PublicationSettles
    CommandReturns
    GuardIsTerminal
    OrdersEnd
