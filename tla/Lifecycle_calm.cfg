SPECIFICATION FairSpec
CONSTANTS
  Setups = 1
  TaskCap = 2
  MaxRetries = 2
PROPERTIES ChangeIsActedOn
CHECK_DEADLOCK FALSE
