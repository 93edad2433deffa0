SPECIFICATION Spec
CONSTANTS
  Horizon = 5400
  AssumedPrice = 0
  Instants <- MCInstants
  RawGeneral <- MCRawGeneral
  RawFeedIn <- MCRawFeedIn
  Tariffs <- MCTariffs
  ClockWindow <- MCClockWindow
  WindowFromAmber = FALSE
  ConfirmationGrace = 90
  MinSamples = 2
  MaxSamples = 3
  Consecutive = 2
  StartupChecks = 2
INVARIANTS TimeCountedOnce PricesAreOfNow HealthRecovers
CHECK_DEADLOCK FALSE
