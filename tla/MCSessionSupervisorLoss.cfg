SPECIFICATION SupervisorSpec
CONSTANTS
  Operations <- MCOperations
  ExitStatuses <- MCExitStatuses
  MaxInputs = 0
  Eager = {}
  Faults = {"watchdog-exit"}
INVARIANTS
  LossIsReal
CHECK_DEADLOCK FALSE
