INVARIANT AbandonIsConfirmed
SPECIFICATION WatchesSpec
CONSTANTS
  AlertMinutes = 2
  ConfirmMinutes = 2
  HoldoffMinutes = 3
