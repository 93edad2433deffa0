SPECIFICATION Spec
CONSTANTS
  Setups = 2
  TaskCap = 1
  MaxRetries = 2
INVARIANTS LeavesClean
PROPERTIES ImplementsOneController
CHECK_DEADLOCK FALSE
VIEW LivingState
