SPECIFICATION SessionSpec
CONSTANTS
    Operations <- MCOperations
    ExitStatuses <- MCExitStatuses
    MaxInputs = 0
    Eager = {}
    Faults = {"watchdog-exit", "host-cancel"}
    MountSources <- MCMountSources
    MountTargets <- MCMountTargets
    LinkTo <- MCLinkTo
    PoolSlots <- MCPoolSlots
    Attempts = 4
    MaxDockerFaults = 3
CHECK_DEADLOCK FALSE
INVARIANTS
    PlanSound
    NetworkSound
    AttemptsDiffer
PROPERTIES
    SessionsEnd
