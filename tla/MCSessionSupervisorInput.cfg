SPECIFICATION SupervisorSpec
CONSTANTS
  Operations <- MCOperations
  ExitStatuses <- MCExitStatuses
  MaxInputs = 1
  Eager = {}
  Faults = {}
INVARIANTS
  InFlightInputDiscarded
CHECK_DEADLOCK FALSE
