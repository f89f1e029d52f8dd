SPECIFICATION FaultSpec
CONSTANTS
    Operations <- MCOperations
    ExitStatuses <- MCExitStatuses
    MaxInputs = 0
    Eager = {}
    Faults = {"stream-loss", "watchdog-exit"}
    Docs = {"d1", "d2", "d3"}
    DocEnv <- MCDocEnv
    DocScript <- MCDocScript
    Images = {1, 2}
    MaxCommands = 2
    MaxMishaps = 1
CHECK_DEADLOCK FALSE
INVARIANTS
    SupervisorSafe
    StagingSound
PROPERTIES
    ImplementsLifecycle
