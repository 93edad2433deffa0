SPECIFICATION RecordsSpec
CONSTANTS
  Parts = {"day", "outcomes", "solar", "reserves", "triggers", "bookings", "watches", "history",
           "readiness", "response", "placement", "threshold"}
  Horizon = 3
  MaxSaves = 2
  Days = 2
  DayLength = 3
  WindowStart = 1
  WindowEnd = 3
  CaptureGrace = 1
  Energy = {1}
  Prices = {1}
  MaxDuration = 3
  MaxCompleted = 1
  MaxDecisions = 2
  Periods = 3
  PeriodUnits = 2
  MinCovered = 2
  MaxIntegration = 2
  StaleAfter = 3
  MinSamples = 2
  MaxPeriodRecords = 2
  Full = 6
  MaxValid = 4
  Buffer = 3
  Trigger = 1
  SpikeTrigger = 2
  MinimumTarget = 2
  PlanFloors = {0, 5}
  BaseReserve = 1
  AwayReserve = 3
  SpikeMinutes = 1
  SustainedMinutes = 2
  Cooldown = 2
  OnsetMinutes = 1
  ClearingMinutes = 1
  MaxSamples = 2
  Forecast = 4
  Loads = {l1, l2}
  MaxStores = 2
  AlertMinutes = 2
  ConfirmMinutes = 2
  HoldoffMinutes = 3
  Quarters = 4
  HourQuarters = 2
  DayHours = 2
  WindowHours = 1
  MinHours = 1
  Required = {"soc", "reserve"}
  Optional = {"weather"}
  Needed = {"soc"}
  Own = {"accuracy"}
  Configurations <- MCConfigurations
  FailureThreshold = 2
  MaxChecks = 3
  ResponseTimeout = 2
  MaxEntries = 2
  LastDecision = 3
  LastMinute = 4
  Slots <- MCSlots
  Requests <- MCRequests
  SlotUnits = 3
  MaxCandidates = 3
  Costs = {1, 2}
  DayUnits = 6
  HourUnits = 2
  WindowAt = 5
  ShortestWindow = 2
  LongestWindow = 4
  Margin = 1
  Deadband = 1
  Ceiling = 6
  Percentile = 30
  Feeds <- MCFeeds
  PlannedHorizons = {2}
  Shortfalls = {1, 3}
INVARIANTS
  RememberedOfToday
  OutcomesAreTrue
  LearntAsSeen
  NoRewriteLoop
  FloorIsKept
  DetectorsHold
  BookingsHold
  UnattendedIsAlerted
  EmptyHouseIsApart
  ActsOnReadings
  LagIsOfItsDecision
  PlacedAsAsked
  ThresholdsHold
SYMMETRY MCAlike
CHECK_DEADLOCK FALSE
